------------------------------ MODULE Workspace ------------------------------
(****************************************************************************)
(* One company's workspace in a deployment without payments: its files, its *)
(* employees and invitations, and its plan.  The plan changes at once when  *)
(* what is stored and who is employed or invited fits; the confirmed        *)
(* cleanup makes room first, in steps of which only the removal of accounts *)
(* is a transaction.                                                        *)
(****************************************************************************)
EXTENDS FileVault, Seats, FiniteSetsExt

VARIABLES
  shown,   \* the preview the owner has confirmed
  cleanup  \* how far the confirmed cleanup has come: the files it has yet to
           \* look at, and the one whose object is gone and whose row is next

cleaning == <<shown, cleanup>>
vars == <<plan, holders, vault, seats, cleaning>>

NoPreview == [to |-> "free", plan |-> "free", rows |-> {}, members |-> {}, live |-> {}]
Idle == [stage |-> "idle", left |-> {}, gone |-> {}]

Preview == [to : Plans, plan : Plans, rows : SUBSET Files,
            members : SUBSET Invites, live : SUBSET Invites]

TypeOK ==
  /\ VaultTypeOK
  /\ SeatsTypeOK
  /\ shown \in Preview
  /\ cleanup \in [stage : {"idle", "files", "row", "switch"},
                  left : SUBSET Files, gone : SUBSET Files]

Init == VaultInit /\ SeatsInit /\ shown = NoPreview /\ cleanup = Idle

------------------------------------------------------------------------------
(* changePlan.                                                              *)

\* Wrong: the invitations are left out, or the files are.
NobodyInvited(p, now) == FilesFit(p, Stored) /\ SeatsFit(p, Cardinality(members))
FilesIgnored(p, now) == SeatsFit(p, Cardinality(members) + Cardinality(LiveAt(now)))

Fits(p, now) ==
  /\ SeatsFit(p, Cardinality(members) + Cardinality(LiveAt(now)))
  /\ FilesFit(p, Stored)

ChangePlan(p, now) ==
  /\ p # plan
  /\ LockIsFree
  /\ Fits(p, now)
  /\ plan' = p
  /\ UNCHANGED <<holders, vault, seats, cleaning>>

------------------------------------------------------------------------------
(* The cleanup before a downgrade.                                          *)

\* snapshot: everything the preview token is a digest of.
Picture(to) == [to |-> to, plan |-> plan, rows |-> rows,
                members |-> members, live |-> LiveAt(clock)]

\* All but the newest files the target plan includes.
ExcessFiles(s) ==
  {f \in s.rows : Cardinality({g \in s.rows : stamp[g] > stamp[f]}) >= Included[s.to]}

\* All but the oldest employees the target plan has seats for.
ExcessMembers(s) ==
  {m \in s.members : Cardinality({k \in s.members : joined[k] < joined[m]}) >= Seats[s.to]}

\* All but the oldest live invitations that fit beside the employees kept.
ExcessInvites(s) ==
  {i \in s.live : SeatsKept(s.to, Cardinality(s.members))
                    + Cardinality({j \in s.live : j < i}) >= Seats[s.to]}

IsLower(p) == Rank[p] < Rank[plan]

\* The token confirms a preview only while nothing it covers has changed: what
\* the owner was shown is what the request finds.
CleanupStart(to) ==
  /\ cleanup = Idle
  /\ IsLower(to)
  /\ shown' = Picture(to)
  /\ cleanup' = [stage |-> "files", left |-> ExcessFiles(Picture(to)), gone |-> {}]
  /\ UNCHANGED <<plan, holders, vault, seats>>

Oldest(S) == CHOOSE f \in S : \A g \in S : stamp[f] <= stamp[g]

\* One excess file, the oldest first: it is gone already, or its object goes.
CleanupErase ==
  /\ cleanup.stage = "files"
  /\ cleanup.left # {}
  /\ LET f == Oldest(cleanup.left) IN
       \/ /\ f \notin rows
          /\ cleanup' = [cleanup EXCEPT !.left = @ \ {f}]
          /\ UNCHANGED <<objects, deletion>>
       \/ /\ f \in rows
          /\ objects' = objects \ {f}
          /\ deletion' = [deletion EXCEPT ![f] = "erased"]
          /\ cleanup' = [stage |-> "row", left |-> cleanup.left \ {f}, gone |-> {f}]
  /\ UNCHANGED <<plan, holders, rows, stamp, upload, tx, usage, period, seats, shown>>

CleanupDropRow ==
  /\ cleanup.stage = "row"
  /\ rows' = rows \ cleanup.gone
  /\ cleanup' = [cleanup EXCEPT !.stage = "files", !.gone = {}]
  /\ UNCHANGED <<plan, holders, stamp, objects, upload, tx, deletion, usage, period,
                 seats, shown>>

\* Wrong: accounts are removed as the preview listed them, whoever is left.
NotRechecked(now) == TRUE

\* The transaction takes its own picture of the accounts.
SameAccounts(now) ==
  /\ IsLower(now.to)
  /\ ExcessMembers(now) = ExcessMembers(shown)
  /\ ExcessInvites(now) = ExcessInvites(shown)

CleanupAccounts ==
  /\ cleanup.stage = "files"
  /\ cleanup.left = {}
  /\ LockIsFree
  /\ SameAccounts(Picture(shown.to))
  /\ members' = members \ ExcessMembers(shown)
  /\ invites' = [i \in Invites |->
                   IF i \in ExcessInvites(shown) /\ Pending(i)
                   THEN [invites[i] EXCEPT !.status = "closed"] ELSE invites[i]]
  /\ cleanup' = [cleanup EXCEPT !.stage = "switch"]
  /\ UNCHANGED <<plan, holders, vault, joined, clock, shown>>

\* The plan request that ends the cleanup; it may be refused like any other.
CleanupSwitch ==
  /\ cleanup.stage = "switch"
  /\ LockIsFree
  /\ Fits(shown.to, clock)
  /\ plan' = shown.to
  /\ cleanup' = Idle
  /\ shown' = NoPreview
  /\ UNCHANGED <<holders, vault, seats>>

\* A conflict, a failure of S3 or of the database, a refused plan, a crash.
CleanupStops ==
  /\ cleanup # Idle
  /\ cleanup' = Idle
  /\ shown' = NoPreview
  /\ UNCHANGED <<plan, holders, vault, seats>>

Cleanup ==
  \/ \E to \in Plans : CleanupStart(to)
  \/ CleanupErase \/ CleanupDropRow
  \/ CleanupAccounts \/ CleanupSwitch \/ CleanupStops

------------------------------------------------------------------------------
Next ==
  \/ VaultNext /\ UNCHANGED <<seats, cleaning>>
  \/ SeatsNext /\ UNCHANGED <<vault, cleaning>>
  \/ \E p \in Plans, now \in Arrivals : ChangePlan(p, now)
  \/ Cleanup

Spec == Init /\ [][Next]_vars

------------------------------------------------------------------------------
(* Safety.                                                                  *)

\* docs/security.md: "Concurrent uploads cannot exceed Free/Basic limits".  Nor
\* can an upload that is under way while the plan is lowered, or a commit the
\* server decides after its client has given up (recordFileUploads, changePlan).
FilesWithinPlan == FilesFit(plan, Stored)

\* Nobody is employed beyond the seats of the plan, although a seat is reserved
\* long before it is taken and invitations are revived without a look at the
\* seats (assertEmployeeCapacity on acceptance, changePlan).
MembersWithinPlan == SeatsFit(plan, Cardinality(members))

\* A row that was ever committed and S3 agree: the object is there exactly while
\* the row is, except between the two steps of a deletion.  A compensating
\* delete never takes the object of a committed row (upload, delete, cleanup).
ObjectMatchesRow ==
  \A f \in EverStored :
    f \in objects <=> f \in rows /\ deletion[f] # "erased"

\* A refused upload leaves neither an object nor a row nor a usage record, now
\* or later: its transaction can no longer commit (compensation in upload).
RefusedLeavesNothing ==
  \A f \in Files : upload[f] = "refused" =>
    f \notin objects /\ f \notin EverStored /\ f \notin holders

\* Every row ever committed is counted in exactly one billing period, and no
\* other upload is, whatever the retries and whatever is deleted later: docs/
\* billing.md, "deletion preserves historical upload counts".
EveryUploadIsCounted ==
  MapThenSumSet(LAMBDA p : usage[p].uploads, Periods) = Cardinality(EverStored)

\* BillingService.calculate never answers "Invalid billing accounting data": the
\* recorded overage is a whole number of files, no more than were uploaded.
BillingAccepts ==
  \A p \in Periods : /\ usage[p].cents % Price = 0
                     /\ usage[p].cents \div Price <= usage[p].uploads

\* An address never has both an account and a pending invitation, and never two
\* accounts: an acceptance settles the invitation it uses (invite, accept).
OneSeatPerAddress ==
  \A m \in members : \A i \in Invites \ {m} :
    i \in members \/ Pending(i) => invites[i].email # invites[m].email

\* The confirmed removal of accounts takes only accounts the owner was shown and
\* leaves the oldest ones, as many as the target plan has seats for, whatever
\* was accepted or deleted meanwhile (the recheck under the lock in cleanup).
CleanupKeepsTheOldest ==
  [][cleanup.stage = "files" /\ cleanup'.stage = "switch" =>
       /\ members \ members' \subseteq shown.members
       /\ Cardinality(members') = SeatsKept(shown.to, Cardinality(members))
       /\ \A m \in members \ members', k \in members' : joined[k] < joined[m]]_vars

------------------------------------------------------------------------------
(* What the documentation says and the code does not keep.                  *)

\* docs/billing.md: "Invitation creation reserves a seat, and acceptance converts
\* that reservation into an employee": the seats promised at any time exist.
SeatsAreReserved ==
  SeatsFit(plan, Cardinality(members) + Cardinality(LiveAt(clock)))

\* docs/billing.md: "Automatic cleanup keeps the newest allowed files": a row the
\* cleanup removes is not among the newest files the target plan includes.
CleanupKeepsTheNewest ==
  [][cleanup'.gone \subseteq cleanup.gone \cup ExcessFiles(Picture(shown.to))]_vars

------------------------------------------------------------------------------
(* The inductive invariants, one for each concern: RoomInv, StorageInv,       *)
(* ChargesAreWhole, MembersWithinPlan, AddressInv and JoinsAreSound.         *)

\* One transaction at a time has written the subscription, and the plan has
\* room for the row it will add: nobody else can have used that room.
LockIsExclusive ==
  /\ \A f, g \in holders : f = g
  /\ holders # {} => FilesFit(plan, Stored + 1)

\* What an upload may rely on at each of its stages.
UploadsAreSound ==
  \A f \in Files :
    /\ upload[f] \in {"idle", "checked", "put", "open", "compensate", "refused"}
         => stamp[f] = 0
    /\ upload[f] = "open" => f \in holders
    /\ upload[f] \in {"put", "open"} => f \in objects
    /\ upload[f] = "refused" => f \notin objects

\* A transaction that may still commit has its object, and nobody erases that.
HoldersAreSound ==
  \A f \in holders : /\ upload[f] \in {"open", "uncertain", "over"}
                     /\ f \in objects
                     /\ stamp[f] = 0

\* Only a row that was committed is ever deleted.
DeletionsAreSound ==
  /\ \A f \in Files : f \in rows \/ deletion[f] # "no" => stamp[f] > 0
  /\ \A f \in cleanup.gone : stamp[f] > 0 /\ f \notin objects

RoomInv == LockIsExclusive /\ FilesWithinPlan

StorageInv == UploadsAreSound /\ HoldersAreSound /\ DeletionsAreSound /\ ObjectMatchesRow

\* What has been charged is a whole number of files, and so is what is going to be.
ChargesAreWhole ==
  /\ \A f \in holders : tx[f].cents \in {0, Price}
  /\ \A p \in Periods : \E k \in 0 .. usage[p].uploads : usage[p].cents = k * Price

\* An address waits for one answer at a time.
OnePendingPerAddress ==
  \A i, j \in Invites :
    Pending(i) /\ Pending(j) /\ invites[i].email = invites[j].email => i = j

AddressInv == /\ \A m \in members : invites[m].status = "accepted"
              /\ OnePendingPerAddress /\ OneSeatPerAddress

\* An invitation is accepted once, and the users it has made are told apart by
\* when they joined.
Joined == {i \in Invites : joined[i] > 0}

JoinsAreSound ==
  /\ members \subseteq Joined
  /\ \A i \in Joined : invites[i].status = "accepted" /\ joined[i] <= Cardinality(Joined)
  /\ \A i, j \in Joined : joined[i] = joined[j] => i = j
==============================================================================
