--------------------------- MODULE WorkspaceProofs ---------------------------
(* Theorems about Workspace and about what Reports tells of it, for every    *)
(* plan, price, file, address and number of invitations.                     *)
EXTENDS Reports, NaturalSets, FiniteSetTheorems, TLAPS

------------------------------------------------------------------------------
(* Limits and counts.                                                        *)

LEMMA LimitsAreNumbers ==
  /\ \A p \in Plans : Included[p] \in Nat
  /\ \A p \in Plans : CapsSeats(p) => Seats[p] \in Nat
  BY AllowanceAssumption DEF Plans, Included, Seats, CapsSeats

\* Rows, employees and live invitations can be counted.
LEMMA CountsAreNumbers ==
  ASSUME TypeOK
  PROVE  /\ \A S \in SUBSET Files : IsFiniteSet(S) /\ Cardinality(S) \in Nat
         /\ \A S \in SUBSET Invites : IsFiniteSet(S) /\ Cardinality(S) \in Nat
<1>1. IsFiniteSet(Files)
  BY FilesAssumption
<1>2. IsFiniteSet(Invites)
  BY FS_Interval, BoundsAssumption DEF Invites
<1>3. \A S \in SUBSET Files : IsFiniteSet(S)
  BY <1>1, FS_Subset
<1>4. \A S \in SUBSET Invites : IsFiniteSet(S)
  BY <1>2, FS_Subset
<1> QED BY <1>3, <1>4, FS_CardinalityType

\* Less in use than before never breaks a limit.
LEMMA FewerFit ==
  ASSUME NEW p \in Plans, NEW m \in Nat, NEW n \in Nat, m <= n
  PROVE  /\ FilesFit(p, n) => FilesFit(p, m)
         /\ SeatsFit(p, n) => SeatsFit(p, m)
  BY LimitsAreNumbers DEF FilesFit, SeatsFit

\* Two excesses that differ by one file differ by one or nothing.
LEMMA OverageOfOneFile ==
  ASSUME NEW p \in Plans, NEW n \in Nat
  PROVE  Overage(p, n) = IF CapsFiles(p) \/ n < Included[p] THEN 0 ELSE Price
<1>1. Included[p] \in Nat /\ Price \in Nat
  BY LimitsAreNumbers, PriceAssumption
<1>2. Excess(p, n + 1) - Excess(p, n) = IF n < Included[p] THEN 0 ELSE 1
  BY <1>1 DEF Excess
<1>3. 0 * Price = 0 /\ 1 * Price = Price
  BY <1>1
<1> QED BY <1>2, <1>3 DEF Overage

\* The charge of an upload is an amount of money.
LEMMA ChargeType ==
  ASSUME TypeOK, NEW f \in Files
  PROVE  ChargeOf(f) \in Charge
<1>1. Overage(plan, Stored) \in Nat
  BY CountsAreNumbers, OverageOfOneFile, PriceAssumption DEF Stored, TypeOK, VaultTypeOK
<1> QED BY <1>1 DEF ChargeOf, Charge, TypeOK, VaultTypeOK

------------------------------------------------------------------------------
(* Types.                                                                    *)

LEMMA InitIsTyped == Init => TypeOK
<1> SUFFICES ASSUME Init PROVE TypeOK
  OBVIOUS
<1>1. VaultTypeOK
  BY PeriodsAssumption DEF Init, VaultInit, SubscriptionInit, VaultTypeOK, Plans,
     Charge, NoCharge, Periods, Uploading, Ended
<1>2. SeatsTypeOK
  BY DEF Init, SeatsInit, SeatsTypeOK, Invitation, NoInvitation, Statuses
<1>3. shown \in Preview /\ cleanup.stage = "idle" /\ cleanup = Idle
  BY DEF Init, NoPreview, Preview, Plans, Idle
<1> QED BY <1>1, <1>2, <1>3 DEF TypeOK, Idle

\* A committed row takes the next place in the order of creation.
LEMMA ApplyIsTyped ==
  ASSUME TypeOK, NEW f \in Files, Apply(f)
  PROVE  /\ rows' \subseteq Files
         /\ stamp' \in [Files -> Nat]
         /\ usage' \in [Periods -> [uploads : Nat, cents : Nat]]
         /\ holders' \subseteq Files
<1>1. Cardinality(EverStored) + 1 \in Nat
  BY CountsAreNumbers DEF EverStored
<1>2. stamp' \in [Files -> Nat]
  BY <1>1 DEF Apply, TypeOK, VaultTypeOK
<1>3. tx[f].period \in Periods /\ tx[f].cents \in Nat
  BY DEF TypeOK, VaultTypeOK, Charge
<1>4. \A u \in [uploads : Nat, cents : Nat] :
        [uploads |-> u.uploads + 1, cents |-> u.cents + tx[f].cents]
          \in [uploads : Nat, cents : Nat]
  BY <1>3
<1>5. usage' \in [Periods -> [uploads : Nat, cents : Nat]]
  BY <1>3, <1>4 DEF Apply, TypeOK, VaultTypeOK
<1> QED BY <1>2, <1>5 DEF Apply, TypeOK, VaultTypeOK

LEMMA BecomesType ==
  ASSUME TypeOK, NEW f \in Files,
         NEW s \in {"idle"} \cup Uploading \cup Ended, Becomes(f, s)
  PROVE  upload' \in [Files -> {"idle"} \cup Uploading \cup Ended]
  BY DEF Becomes, TypeOK, VaultTypeOK

\* What an upload, a deletion or a new period changes keeps its type.
LEMMA VaultStepIsTyped ==
  ASSUME TypeOK, VaultNext PROVE VaultTypeOK'
<1> USE DEF TypeOK, VaultTypeOK
<1>1. ASSUME NEW f \in Files, Begin(f) \/ PutObject(f) \/ PutFails(f) PROVE VaultTypeOK'
  BY <1>1 DEF Begin, PutObject, PutFails, Becomes, Uploading, Ended
<1>2. ASSUME NEW f \in Files, Snapshot(f) PROVE VaultTypeOK'
  <2>1. tx' \in [Files -> Charge] /\ holders' \subseteq Files
    BY <1>2, ChargeType DEF Snapshot
  <2> QED BY <1>2, <2>1 DEF Snapshot, Becomes, Uploading, Ended
<1>3. ASSUME NEW f \in Files, Refuse(f) \/ Retry(f) \/ CommitUnknown(f) PROVE VaultTypeOK'
  BY <1>3 DEF Refuse, Retry, CommitUnknown, AfterLostCommit, Becomes, Uploading, Ended
<1>4. ASSUME NEW f \in Files, Commit(f) \/ LateCommit(f) PROVE VaultTypeOK'
  <2>1. Apply(f)
    BY <1>4 DEF Commit, LateCommit
  <2>2. /\ rows' \subseteq Files
        /\ stamp' \in [Files -> Nat]
        /\ usage' \in [Periods -> [uploads : Nat, cents : Nat]]
        /\ holders' \subseteq Files
    BY <2>1, ApplyIsTyped
  <2> QED BY <1>4, <2>2 DEF Commit, LateCommit, Becomes, Ended
<1>5. ASSUME NEW f \in Files, LateAbort(f) PROVE VaultTypeOK'
  BY <1>5 DEF LateAbort
<1>6. ASSUME NEW f \in Files, Resolve(f) \/ ResolveFails(f) \/ Compensate(f)
                                \/ CompensateFails(f)
      PROVE VaultTypeOK'
  BY <1>6 DEF Resolve, ResolveFails, AfterMajorityRead, Compensate, CompensateFails,
     Becomes, Ended
<1>7. ASSUME NEW f \in Files, UploadCrashes(f) PROVE VaultTypeOK'
  <2>1. objects' \subseteq Files
    BY <1>7 DEF UploadCrashes
  <2> QED BY <1>7, <2>1 DEF UploadCrashes, Becomes, Ended
<1>8. ASSUME NEW f \in Files, Delete(f) PROVE VaultTypeOK'
  BY <1>8 DEF Delete, DeleteBegin, DeleteObject, DeleteFails, DeleteRow
<1>9. CASE NewPeriod
  BY <1>9, PeriodsAssumption DEF NewPeriod, Periods
<1> QED BY <1>1, <1>2, <1>3, <1>4, <1>5, <1>6, <1>7, <1>8, <1>9 DEF VaultNext, Upload

\* An invitation or an employee that changes keeps its type.
LEMMA SeatsStepIsTyped ==
  ASSUME TypeOK, SeatsNext PROVE SeatsTypeOK'
<1> USE DEF TypeOK, SeatsTypeOK
<1>1. \A i \in Invites, r \in Invitation : [invites EXCEPT ![i] = r] \in [Invites -> Invitation]
  OBVIOUS
<1>2. Arrivals \subseteq Nat
  BY DEF Arrivals
<1>3. ASSUME NEW i \in Invites, NEW e \in Emails, NEW now \in Arrivals, Invite(i, e, now)
      PROVE SeatsTypeOK'
  <2>1. Settled(e, now) \in [Invites -> Invitation]
    BY DEF Settled, Invitation, Statuses
  <2>2. now + TTL \in Nat /\ now \in Nat
    BY <1>2, BoundsAssumption
  <2>3. [email |-> e, status |-> "pending", expires |-> now + TTL, sent |-> now] \in Invitation
    BY <2>2 DEF Invitation, Statuses
  <2> QED BY <1>3, <2>1, <2>3 DEF Invite
<1>4. ASSUME NEW i \in Invites, Revoke(i) \/ Purge(i) PROVE SeatsTypeOK'
  BY <1>4 DEF Revoke, Purge, Invitation, Statuses
<1>5. ASSUME NEW i \in Invites, NEW now \in Arrivals, Resend(i, now) PROVE SeatsTypeOK'
  <2>1. now + TTL \in Nat /\ now \in Nat
    BY <1>2, BoundsAssumption
  <2>2. invites' \in [Invites -> Invitation]
    BY <1>5, <2>1 DEF Resend, Invitation
  <2> QED BY <1>5, <2>2 DEF Resend
<1>6. ASSUME NEW i \in Invites, NEW now \in Arrivals, Accept(i, now) PROVE SeatsTypeOK'
  <2>1. invites' \in [Invites -> Invitation]
    BY <1>6 DEF Accept, Invitation, Statuses
  <2>2. 1 + Cardinality({m \in Invites : joined[m] > 0}) \in Nat
    BY CountsAreNumbers
  <2> QED BY <1>6, <2>1, <2>2 DEF Accept
<1>7. ASSUME NEW i \in Invites, DeleteUser(i) PROVE SeatsTypeOK'
  BY <1>7 DEF DeleteUser
<1>8. CASE Advance
  BY <1>8 DEF Advance
<1> QED BY <1>3, <1>4, <1>5, <1>6, <1>7, <1>8 DEF SeatsNext

LEMMA PictureType ==
  ASSUME TypeOK, NEW to \in Plans
  PROVE  Picture(to) \in Preview /\ ExcessFiles(Picture(to)) \in SUBSET Files
  BY DEF TypeOK, VaultTypeOK, SeatsTypeOK, Picture, Preview, LiveAt, ExcessFiles

LEMMA CleanupStepIsTyped ==
  ASSUME TypeOK, Cleanup PROVE TypeOK'
<1> USE DEF TypeOK
<1>1. NoPreview \in Preview /\ shown.to \in Plans
  BY DEF NoPreview, Preview, Plans
<1>2. ASSUME NEW to \in Plans, CleanupStart(to) PROVE TypeOK'
  BY <1>2, PictureType DEF CleanupStart, VaultTypeOK, SeatsTypeOK, vault, seats
<1>3. CASE CleanupErase
  <2>1. cleanup'.stage \in {"files", "row"}
    BY <1>3 DEF CleanupErase
  <2> QED BY <1>3, <2>1 DEF CleanupErase, VaultTypeOK, SeatsTypeOK, seats
<1>4. CASE CleanupDropRow
  BY <1>4 DEF CleanupDropRow, VaultTypeOK, SeatsTypeOK, seats
<1>5. CASE CleanupAccounts
  <2>1. invites' \in [Invites -> Invitation]
    BY <1>5 DEF CleanupAccounts, SeatsTypeOK, Invitation, Statuses
  <2> QED BY <1>5, <2>1 DEF CleanupAccounts, VaultTypeOK, SeatsTypeOK, vault
<1>6. CASE CleanupSwitch
  BY <1>1, <1>6 DEF CleanupSwitch, Idle, VaultTypeOK, SeatsTypeOK, vault, seats
<1>7. CASE CleanupStops
  BY <1>1, <1>7 DEF CleanupStops, Idle, VaultTypeOK, SeatsTypeOK, vault, seats
<1> QED BY <1>2, <1>3, <1>4, <1>5, <1>6, <1>7 DEF Cleanup

LEMMA StepIsTyped ==
  ASSUME TypeOK, [Next]_vars PROVE TypeOK'
<1>1. CASE VaultNext /\ UNCHANGED <<seats, cleaning>>
  BY <1>1, VaultStepIsTyped DEF TypeOK, SeatsTypeOK, seats, cleaning
<1>2. CASE SeatsNext /\ UNCHANGED <<vault, cleaning>>
  <2>1. UNCHANGED <<plan, holders>>
    BY <1>2 DEF SeatsNext, Revoke, DeleteUser, Purge, Invite, Resend, Accept, Advance
  <2> QED BY <1>2, <2>1, SeatsStepIsTyped DEF TypeOK, VaultTypeOK, vault, cleaning
<1>3. ASSUME NEW p \in Plans, NEW now \in Arrivals, ChangePlan(p, now) PROVE TypeOK'
  BY <1>3 DEF ChangePlan, TypeOK, VaultTypeOK, SeatsTypeOK, vault, seats, cleaning
<1>4. CASE Cleanup
  BY <1>4, CleanupStepIsTyped
<1>5. CASE UNCHANGED vars
  BY <1>5 DEF vars, TypeOK, VaultTypeOK, SeatsTypeOK, vault, seats, cleaning
<1> QED BY <1>1, <1>2, <1>3, <1>4, <1>5 DEF Next

\* Every reachable state of the workspace is well typed, whatever the plan's
\* limits and the number of files, addresses, invitations and periods.
THEOREM WorkspaceIsTyped == Spec => []TypeOK
  BY InitIsTyped, StepIsTyped, PTL DEF Spec

------------------------------------------------------------------------------
(* The limit on stored files.  A step either makes room, or takes the lock    *)
(* after counting, or uses the room its holder has counted, or changes the    *)
(* plan while nobody holds the lock.                                          *)

MakesRoom == rows' \subseteq rows /\ plan' = plan /\ holders' \subseteq holders
TakesLock(f) == /\ LockIsFree /\ FilesFit(plan, Stored + 1)
                /\ rows' = rows /\ plan' = plan /\ holders' = holders \cup {f}
UsesRoom(f) == /\ f \in holders
               /\ rows' = rows \cup {f} /\ plan' = plan /\ holders' = holders \ {f}
ChangesPlan == LockIsFree /\ FilesFit(plan', Stored) /\ rows' = rows /\ holders' = holders

\* What the actions of an upload do to rows, plan and lock.
LEMMA UploadMoves ==
  ASSUME NEW f \in Files, Upload(f)
  PROVE  MakesRoom \/ TakesLock(f) \/ UsesRoom(f)
<1> USE DEF MakesRoom, TakesLock, UsesRoom
<1>1. ASSUME Begin(f) \/ PutObject(f) \/ PutFails(f) \/ Refuse(f) \/ Retry(f)
             \/ CommitUnknown(f) \/ LateAbort(f) \/ Resolve(f) \/ ResolveFails(f)
             \/ Compensate(f) \/ CompensateFails(f) \/ UploadCrashes(f)
      PROVE  MakesRoom
  BY <1>1 DEF Begin, PutObject, PutFails, Refuse, Retry, CommitUnknown, LateAbort,
     Resolve, ResolveFails, Compensate, CompensateFails, UploadCrashes
<1>2. ASSUME Snapshot(f) PROVE TakesLock(f)
  BY <1>2 DEF Snapshot, MayLock
<1>3. ASSUME Commit(f) \/ LateCommit(f) PROVE UsesRoom(f)
  BY <1>3 DEF Commit, LateCommit, Apply
<1> QED BY <1>1, <1>2, <1>3 DEF Upload

\* ... and what every step does.
LEMMA RoomMoves ==
  ASSUME [Next]_vars
  PROVE  MakesRoom \/ ChangesPlan \/ \E f \in Files : TakesLock(f) \/ UsesRoom(f)
<1>1. ASSUME NEW f \in Files, Upload(f)
      PROVE  MakesRoom \/ TakesLock(f) \/ UsesRoom(f)
  BY <1>1, UploadMoves
<1>2. ASSUME NEW f \in Files, Delete(f) PROVE MakesRoom
  BY <1>2 DEF MakesRoom, Delete, DeleteBegin, DeleteObject, DeleteFails, DeleteRow
<1>3. ASSUME NewPeriod PROVE MakesRoom
  BY <1>3 DEF MakesRoom, NewPeriod
<1>4. ASSUME SeatsNext, UNCHANGED vault PROVE MakesRoom
  BY <1>4 DEF MakesRoom, vault, SeatsNext, Revoke, DeleteUser, Purge, Invite, Resend,
     Accept, Advance
<1>5. ASSUME NEW p \in Plans, NEW now \in Arrivals, ChangePlan(p, now) PROVE ChangesPlan
  BY <1>5 DEF ChangesPlan, ChangePlan, Fits, vault
<1>6. ASSUME CleanupSwitch PROVE ChangesPlan
  BY <1>6 DEF ChangesPlan, CleanupSwitch, Fits, vault
<1>7. ASSUME Cleanup, ~ CleanupSwitch PROVE MakesRoom
  BY <1>7 DEF MakesRoom, Cleanup, CleanupStart, CleanupErase, CleanupDropRow,
     CleanupAccounts, CleanupStops, vault
<1>8. ASSUME UNCHANGED vars PROVE MakesRoom
  BY <1>8 DEF MakesRoom, vars, vault
<1> QED BY <1>1, <1>2, <1>3, <1>4, <1>5, <1>6, <1>7, <1>8 DEF Next, VaultNext

LEMMA RoomIsKept ==
  ASSUME TypeOK, TypeOK', RoomInv, [Next]_vars
  PROVE  RoomInv'
<1> USE DEF RoomInv, LockIsExclusive, FilesWithinPlan
<1>1. /\ rows \in SUBSET Files /\ rows' \in SUBSET Files
      /\ plan \in Plans /\ plan' \in Plans
      /\ IsFiniteSet(rows) /\ Stored \in Nat /\ Stored' \in Nat
  BY CountsAreNumbers DEF TypeOK, VaultTypeOK, Stored
<1>2. CASE MakesRoom
  <2>1. Stored' <= Stored
    BY <1>1, <1>2, FS_Subset DEF MakesRoom, Stored
  <2>2. FilesFit(plan, Stored')
    BY <1>1, <2>1, FewerFit
  <2>3. FilesFit(plan, Stored + 1) => FilesFit(plan, Stored' + 1)
    BY <1>1, <2>1, FewerFit
  <2> QED BY <1>2, <2>2, <2>3 DEF MakesRoom
<1>3. CASE ChangesPlan
  <2>1. Stored' = Stored /\ holders' = {}
    BY <1>3 DEF ChangesPlan, LockIsFree, Stored
  <2> QED BY <1>3, <2>1 DEF ChangesPlan
<1>4. ASSUME NEW f \in Files, TakesLock(f) PROVE RoomInv'
  <2>1. Stored' = Stored /\ holders' = {f}
    BY <1>4 DEF TakesLock, LockIsFree, Stored
  <2> QED BY <1>4, <2>1 DEF TakesLock
<1>5. ASSUME NEW f \in Files, UsesRoom(f) PROVE RoomInv'
  <2>1. holders' = {}
    BY <1>5 DEF UsesRoom
  <2>2. Stored' <= Stored + 1
    <3>1. Cardinality(rows \cup {f}) \in {Stored, Stored + 1}
      BY <1>1, FS_AddElement DEF Stored
    <3>2. Stored' = Cardinality(rows \cup {f})
      BY <1>5 DEF UsesRoom, Stored
    <3> QED BY <1>1, <3>1, <3>2
  <2>3. FilesFit(plan, Stored')
    BY <1>1, <1>5, <2>2, FewerFit DEF UsesRoom
  <2> QED BY <1>5, <2>1, <2>3 DEF UsesRoom
<1> QED BY <1>2, <1>3, <1>4, <1>5, RoomMoves

LEMMA InitHasRoom == Init => RoomInv
<1> SUFFICES ASSUME Init PROVE RoomInv
  OBVIOUS
<1>1. Stored = 0 /\ holders = {} /\ plan \in Plans
  BY FS_EmptySet DEF Init, VaultInit, SubscriptionInit, Stored, Plans
<1>2. FilesFit(plan, Stored)
  BY <1>1, AllowanceAssumption, LimitsAreNumbers DEF FilesFit
<1> QED BY <1>1, <1>2 DEF RoomInv, LockIsExclusive, FilesWithinPlan

\* The company never stores more than its plan includes, however many uploads
\* run at once, whatever becomes of their commits and whenever the plan changes.
THEOREM FilesStayWithinPlan == Spec => []FilesWithinPlan
<1>1. Spec => [](TypeOK /\ RoomInv)
  <2>1. Init => TypeOK /\ RoomInv
    BY InitIsTyped, InitHasRoom
  <2>2. TypeOK /\ RoomInv /\ [Next]_vars => (TypeOK /\ RoomInv)'
    BY StepIsTyped, RoomIsKept
  <2> QED BY <2>1, <2>2, PTL DEF Spec
<1>2. RoomInv => FilesWithinPlan
  BY DEF RoomInv
<1> QED BY <1>1, <1>2, PTL

------------------------------------------------------------------------------
(* Rows and objects.                                                         *)

\* What the storage of one file depends on.
FileFacts(f) ==
  /\ upload[f] \in {"idle", "checked", "put", "open", "compensate", "refused"} => stamp[f] = 0
  /\ upload[f] = "open" => f \in holders
  /\ upload[f] \in {"put", "open"} => f \in objects
  /\ upload[f] = "refused" => f \notin objects
  /\ f \in holders => /\ upload[f] \in {"open", "uncertain", "over"}
                      /\ f \in objects
                      /\ stamp[f] = 0
  /\ f \in rows \/ deletion[f] # "no" => stamp[f] > 0
  /\ f \in cleanup.gone => stamp[f] > 0 /\ f \notin objects
  /\ stamp[f] > 0 => (f \in objects <=> f \in rows /\ deletion[f] # "erased")

LEMMA StorageByFile ==
  ASSUME TypeOK PROVE StorageInv <=> \A f \in Files : FileFacts(f)
  BY DEF TypeOK, VaultTypeOK, StorageInv, UploadsAreSound, HoldersAreSound,
     DeletionsAreSound, ObjectMatchesRow, EverStored, FileFacts

\* A file that a step leaves alone keeps its facts.
Untouched(f) ==
  /\ upload'[f] = upload[f] /\ stamp'[f] = stamp[f] /\ deletion'[f] = deletion[f]
  /\ f \in rows' <=> f \in rows
  /\ f \in objects' <=> f \in objects
  /\ f \in holders' <=> f \in holders
  /\ f \in cleanup'.gone <=> f \in cleanup.gone

LEMMA UntouchedKeeps ==
  ASSUME NEW f \in Files, FileFacts(f), Untouched(f) PROVE FileFacts(f)'
  BY DEF FileFacts, Untouched

\* The steps of one upload touch no other file and keep the facts of theirs.
LEMMA UploadIsSound ==
  ASSUME TypeOK, NEW f \in Files, FileFacts(f), Upload(f), UNCHANGED cleaning
  PROVE  FileFacts(f)' /\ \A g \in Files \ {f} : Untouched(g)
<1> USE DEF TypeOK, VaultTypeOK, FileFacts, Untouched, cleaning
<1>1. CASE Begin(f) \/ PutObject(f) \/ PutFails(f)
  BY <1>1 DEF Begin, PutObject, PutFails, Becomes
<1>2. CASE Snapshot(f) \/ Refuse(f) \/ Retry(f) \/ CommitUnknown(f)
  BY <1>2 DEF Snapshot, Refuse, Retry, CommitUnknown, AfterLostCommit, Becomes
<1>3. CASE Commit(f) \/ LateCommit(f)
  <2>1. Cardinality(EverStored) + 1 > 0
    BY CountsAreNumbers DEF EverStored
  <2>2. /\ f \in holders /\ rows' = rows \cup {f} /\ holders' = holders \ {f}
        /\ stamp'[f] > 0 /\ \A g \in Files \ {f} : stamp'[g] = stamp[g]
    BY <1>3, <2>1 DEF Commit, LateCommit, Apply
  <2>3. /\ UNCHANGED <<objects, deletion>>
        /\ upload'[f] \in {"stored", "uncertain", "over"}
        /\ \A g \in Files \ {f} : upload'[g] = upload[g]
    BY <1>3 DEF Commit, LateCommit, Unheard, Becomes
  <2> QED BY <2>2, <2>3
<1>4. CASE LateAbort(f) \/ Resolve(f) \/ ResolveFails(f)
  BY <1>4 DEF LateAbort, Unheard, Resolve, AfterMajorityRead, ResolveFails, Becomes
<1>5. CASE Compensate(f) \/ CompensateFails(f)
  BY <1>5 DEF Compensate, CompensateFails, Becomes
<1>6. CASE UploadCrashes(f)
  <2>1. /\ upload[f] = "checked" => objects' \in {objects, objects \cup {f}}
        /\ upload[f] = "compensate" => objects' \in {objects, objects \ {f}}
        /\ upload[f] \notin {"checked", "compensate"} => objects' = objects
    BY <1>6 DEF UploadCrashes
  <2> QED BY <1>6, <2>1 DEF UploadCrashes, Becomes, Uploading
<1> QED BY <1>1, <1>2, <1>3, <1>4, <1>5, <1>6 DEF Upload

\* Nor do those of a deletion.
LEMMA DeletionIsSound ==
  ASSUME TypeOK, NEW f \in Files, FileFacts(f), Delete(f), UNCHANGED cleaning
  PROVE  FileFacts(f)' /\ \A g \in Files \ {f} : Untouched(g)
  BY DEF TypeOK, VaultTypeOK, FileFacts, Untouched, cleaning,
     Delete, DeleteBegin, DeleteObject, DeleteFails, DeleteRow

\* The cleanup erases an object and its row in two steps of its own.
LEMMA CleanupIsSound ==
  ASSUME TypeOK, NEW f \in Files, FileFacts(f), CleanupErase \/ CleanupDropRow
  PROVE  FileFacts(f)'
<1> USE DEF TypeOK, VaultTypeOK, FileFacts
<1>1. CASE CleanupErase
  <2> DEFINE g == Oldest(cleanup.left)
  <2>1. CASE g \notin rows
    BY <1>1, <2>1 DEF CleanupErase
  <2>2. CASE g \in rows
    BY <1>1, <2>2 DEF CleanupErase
  <2> QED BY <2>1, <2>2
<1>2. CASE CleanupDropRow
  BY <1>2 DEF CleanupDropRow
<1> QED BY <1>1, <1>2

LEMMA StorageIsKept ==
  ASSUME TypeOK, TypeOK', StorageInv, [Next]_vars
  PROVE  StorageInv'
<1> SUFFICES ASSUME NEW f \in Files PROVE FileFacts(f)'
  BY DEF TypeOK, VaultTypeOK, StorageInv, UploadsAreSound, HoldersAreSound,
     DeletionsAreSound, ObjectMatchesRow, EverStored, FileFacts
<1>1. \A g \in Files : FileFacts(g)
  BY StorageByFile
<1>2. ASSUME NEW g \in Files, Upload(g) \/ Delete(g), UNCHANGED cleaning
      PROVE  FileFacts(f)'
  BY <1>1, <1>2, UploadIsSound, DeletionIsSound, UntouchedKeeps
<1>3. ASSUME NewPeriod, UNCHANGED cleaning PROVE Untouched(f)
  BY <1>3 DEF NewPeriod, cleaning, Untouched
<1>4. ASSUME SeatsNext, UNCHANGED <<vault, cleaning>> PROVE Untouched(f)
  BY <1>4 DEF vault, cleaning, Untouched, SeatsNext, Revoke, DeleteUser, Purge, Invite,
     Resend, Accept, Advance
<1>5. ASSUME NEW p \in Plans, NEW now \in Arrivals, ChangePlan(p, now) PROVE Untouched(f)
  BY <1>5 DEF ChangePlan, vault, cleaning, Untouched
<1>6. ASSUME CleanupErase \/ CleanupDropRow PROVE FileFacts(f)'
  BY <1>1, <1>6, CleanupIsSound
<1>7. ASSUME Cleanup, ~ CleanupErase, ~ CleanupDropRow PROVE FileFacts(f)'
  <2>1. UNCHANGED <<holders, vault>> /\ cleanup'.gone \subseteq cleanup.gone
    BY <1>7 DEF Cleanup, CleanupStart, CleanupAccounts, CleanupSwitch, CleanupStops,
       Idle, TypeOK
  <2> QED BY <1>1, <2>1 DEF vault, FileFacts
<1>8. ASSUME UNCHANGED vars PROVE Untouched(f)
  BY <1>8 DEF vars, vault, cleaning, Untouched
<1> QED BY <1>1, <1>2, <1>3, <1>4, <1>5, <1>6, <1>7, <1>8, UntouchedKeeps
        DEF Next, VaultNext

LEMMA InitIsStored == Init => StorageInv
<1> SUFFICES ASSUME Init PROVE StorageInv
  OBVIOUS
<1>1. \A f \in Files : FileFacts(f)
  BY DEF Init, VaultInit, SubscriptionInit, Idle, FileFacts
<1> QED BY <1>1, InitIsTyped, StorageByFile

LEMMA StorageHolds == Spec => []StorageInv
<1>1. Init => TypeOK /\ StorageInv
  BY InitIsTyped, InitIsStored
<1>2. TypeOK /\ StorageInv /\ [Next]_vars => (TypeOK /\ StorageInv)'
  BY StepIsTyped, StorageIsKept
<1> QED BY <1>1, <1>2, PTL DEF Spec

\* The object of a committed row is there as long as the row is, but for the two
\* steps of a deletion: no compensation and no late commit comes between them.
THEOREM ObjectsMatchRows == Spec => []ObjectMatchesRow
<1>1. StorageInv => ObjectMatchesRow
  BY DEF StorageInv
<1> QED BY <1>1, StorageHolds, PTL

\* An upload that reports its refusal has left nothing and will leave nothing.
THEOREM RefusalsLeaveNothing == Spec => []RefusedLeavesNothing
<1>1. TypeOK /\ StorageInv => RefusedLeavesNothing
  BY DEF TypeOK, VaultTypeOK, StorageInv, UploadsAreSound, HoldersAreSound, EverStored,
     RefusedLeavesNothing
<1> QED BY <1>1, WorkspaceIsTyped, StorageHolds, PTL

------------------------------------------------------------------------------
(* The limit on employees.                                                   *)

FreesSeats == members' \subseteq members /\ plan' = plan
TakesSeat(i) == /\ SeatsFit(plan, Cardinality(members) + 1)
                /\ members' = members \cup {i} /\ plan' = plan
SwitchesPlan == SeatsFit(plan', Cardinality(members)) /\ members' = members

\* The capacity counts the invitation that is being accepted: there is a seat.
LEMMA CapacityLeavesASeat ==
  ASSUME TypeOK, NEW i \in Invites, NEW now \in Arrivals, Live(i, now), SeatIsLeft(now)
  PROVE  SeatsFit(plan, Cardinality(members) + 1)
<1>1. /\ IsFiniteSet(LiveAt(now)) /\ Cardinality(LiveAt(now)) \in Nat
      /\ Cardinality(members) \in Nat
  BY CountsAreNumbers DEF LiveAt, TypeOK, SeatsTypeOK
<1>2. LiveAt(now) # {}
  BY DEF LiveAt
<1>3. Cardinality(LiveAt(now)) # 0
  BY <1>1, <1>2, FS_EmptySet
<1>4. SeatsFit(plan, Cardinality(members) + Cardinality(LiveAt(now)))
  BY <1>1 DEF SeatIsLeft, Capacity
<1>5. Cardinality(members) + 1 <= Cardinality(members) + Cardinality(LiveAt(now))
  BY <1>1, <1>3
<1> QED BY <1>1, <1>4, <1>5, FewerFit DEF TypeOK, VaultTypeOK

\* A plan that fits employees and invitations fits the employees.
LEMMA FitsMembers ==
  ASSUME TypeOK, NEW p \in Plans, NEW now \in Nat, Fits(p, now)
  PROVE  SeatsFit(p, Cardinality(members))
<1>1. Cardinality(LiveAt(now)) \in Nat /\ Cardinality(members) \in Nat
  BY CountsAreNumbers DEF LiveAt, TypeOK, SeatsTypeOK
<1> QED BY <1>1, FewerFit DEF Fits

LEMMA SeatMoves ==
  ASSUME TypeOK, [Next]_vars
  PROVE  FreesSeats \/ SwitchesPlan \/ \E i \in Invites : TakesSeat(i)
<1>1. ASSUME VaultNext, UNCHANGED seats PROVE FreesSeats
  BY <1>1 DEF FreesSeats, seats, VaultNext, Upload, Begin, PutObject, PutFails, Snapshot,
     Refuse, Retry, Commit, CommitUnknown, LateCommit, LateAbort, Apply, Resolve,
     ResolveFails, Compensate, CompensateFails, UploadCrashes, Delete, DeleteBegin,
     DeleteObject, DeleteFails, DeleteRow, NewPeriod
<1>2. ASSUME NEW i \in Invites, NEW now \in Arrivals, Accept(i, now) PROVE TakesSeat(i)
  BY <1>2, CapacityLeavesASeat DEF Accept, TakesSeat, LiveAt
<1>3. ASSUME SeatsNext PROVE FreesSeats \/ \E i \in Invites : TakesSeat(i)
  BY <1>2, <1>3 DEF FreesSeats, SeatsNext, Revoke, DeleteUser, Purge, Invite, Resend, Advance
<1>4. ASSUME NEW p \in Plans, NEW now \in Arrivals, ChangePlan(p, now) PROVE SwitchesPlan
  BY <1>4, FitsMembers DEF ChangePlan, SwitchesPlan, Arrivals, seats
<1>5. ASSUME CleanupSwitch PROVE SwitchesPlan
  BY <1>5, FitsMembers DEF CleanupSwitch, SwitchesPlan, TypeOK, SeatsTypeOK, Preview, seats
<1>6. ASSUME Cleanup, ~ CleanupSwitch PROVE FreesSeats
  BY <1>6 DEF FreesSeats, Cleanup, CleanupStart, CleanupErase, CleanupDropRow,
     CleanupAccounts, CleanupStops, seats
<1>7. ASSUME UNCHANGED vars PROVE FreesSeats
  BY <1>7 DEF FreesSeats, vars, seats
<1> QED BY <1>1, <1>3, <1>4, <1>5, <1>6, <1>7 DEF Next

LEMMA SeatsAreKept ==
  ASSUME TypeOK, TypeOK', MembersWithinPlan, [Next]_vars
  PROVE  MembersWithinPlan'
<1> USE DEF MembersWithinPlan
<1>1. /\ members \in SUBSET Invites /\ members' \in SUBSET Invites /\ plan \in Plans
      /\ IsFiniteSet(members) /\ Cardinality(members) \in Nat
      /\ Cardinality(members') \in Nat
  BY CountsAreNumbers DEF TypeOK, VaultTypeOK, SeatsTypeOK
<1>2. CASE FreesSeats
  <2>1. Cardinality(members') <= Cardinality(members)
    BY <1>1, <1>2, FS_Subset DEF FreesSeats
  <2> QED BY <1>1, <1>2, <2>1, FewerFit DEF FreesSeats
<1>3. CASE SwitchesPlan
  BY <1>3 DEF SwitchesPlan
<1>4. ASSUME NEW i \in Invites, TakesSeat(i) PROVE MembersWithinPlan'
  <2>1. Cardinality(members \cup {i}) <= Cardinality(members) + 1
    BY <1>1, FS_AddElement
  <2>2. Cardinality(members') <= Cardinality(members) + 1
    BY <1>4, <2>1 DEF TakesSeat
  <2> QED BY <1>1, <1>4, <2>2, FewerFit DEF TakesSeat
<1> QED BY <1>2, <1>3, <1>4, SeatMoves

\* Nobody is employed beyond the seats of the plan, although invitations are
\* resent without a look at them and requests act on an earlier time.
THEOREM MembersStayWithinPlan == Spec => []MembersWithinPlan
<1>1. Init => TypeOK /\ MembersWithinPlan
  <2> SUFFICES ASSUME Init PROVE MembersWithinPlan
    BY InitIsTyped
  <2>1. Cardinality(members) = 0 /\ plan \in Plans
    BY FS_EmptySet DEF Init, VaultInit, SeatsInit, SubscriptionInit, Plans
  <2> QED BY <2>1, LimitsAreNumbers DEF MembersWithinPlan, SeatsFit
<1>2. TypeOK /\ MembersWithinPlan /\ [Next]_vars => (TypeOK /\ MembersWithinPlan)'
  BY StepIsTyped, SeatsAreKept
<1> QED BY <1>1, <1>2, PTL DEF Spec

------------------------------------------------------------------------------
(* One account or invitation per address.                                    *)

\* Nobody is added: invitations keep their address and at most stop waiting.
OnlyCloses ==
  /\ members' \subseteq members
  /\ \A j \in Invites :
       /\ invites'[j].email = invites[j].email
       /\ \/ invites'[j].status = invites[j].status
          \/ Pending(j) /\ invites'[j].status = "closed"

LEMMA ClosingKeepsAddresses ==
  ASSUME TypeOK, AddressInv, OnlyCloses PROVE AddressInv'
  BY DEF TypeOK, SeatsTypeOK, AddressInv, OnlyCloses, OnePendingPerAddress,
     OneSeatPerAddress, Pending

LEMMA AddressMoves ==
  ASSUME TypeOK, [Next]_vars
  PROVE  \/ OnlyCloses
         \/ \E i \in Invites, now \in Arrivals :
              Accept(i, now) \/ \E e \in Emails : Invite(i, e, now)
<1> USE DEF OnlyCloses
<1>1. ASSUME UNCHANGED seats PROVE OnlyCloses
  BY <1>1 DEF seats
<1>2. ASSUME NEW i \in Invites, Revoke(i) \/ Purge(i) PROVE OnlyCloses
  BY <1>2 DEF Revoke, Purge, TypeOK, SeatsTypeOK, Invitation
<1>3. ASSUME NEW i \in Invites, NEW now \in Arrivals, Resend(i, now) PROVE OnlyCloses
  BY <1>3 DEF Resend, TypeOK, SeatsTypeOK, Invitation
<1>4. ASSUME NEW i \in Invites, DeleteUser(i) PROVE OnlyCloses
  BY <1>4 DEF DeleteUser
<1>5. ASSUME Advance PROVE OnlyCloses
  BY <1>5 DEF Advance
<1>6. ASSUME CleanupAccounts PROVE OnlyCloses
  BY <1>6 DEF CleanupAccounts, TypeOK, SeatsTypeOK, Invitation
<1>7. ASSUME Cleanup, ~ CleanupAccounts PROVE UNCHANGED seats
  BY <1>7 DEF Cleanup, CleanupStart, CleanupErase, CleanupDropRow, CleanupSwitch,
     CleanupStops
<1>8. ASSUME NEW p \in Plans, NEW now \in Arrivals, ChangePlan(p, now) PROVE UNCHANGED seats
  BY <1>8 DEF ChangePlan
<1>9. ASSUME UNCHANGED vars PROVE UNCHANGED seats
  BY <1>9 DEF vars
<1> QED BY <1>1, <1>2, <1>3, <1>4, <1>5, <1>6, <1>7, <1>8, <1>9 DEF Next, SeatsNext

LEMMA InvitingKeepsAddresses ==
  ASSUME TypeOK, AddressInv,
         NEW i \in Invites, NEW e \in Emails, NEW now \in Arrivals, Invite(i, e, now)
  PROVE  AddressInv'
<1>1. /\ invites'[i].email = e /\ invites'[i].status = "pending"
      /\ invites[i].status = "none" /\ members' = members
  BY DEF Invite, Settled
<1>2. ASSUME NEW j \in Invites \ {i}
      PROVE  /\ invites'[j].email = invites[j].email
             /\ \/ invites'[j].status = invites[j].status
                \/ Pending(j) /\ invites'[j].status = "closed"
             /\ Pending(j)' => invites[j].email # e
  <2>1. invites'[j] = IF Pending(j) /\ invites[j].email = e /\ ~ Live(j, now)
                      THEN [invites[j] EXCEPT !.status = "closed"] ELSE invites[j]
    BY DEF Invite, Settled
  <2>2. Live(j, now) => invites[j].email # e
    BY DEF Invite, AddressIsFree, LiveAt
  <2>3. invites[j] \in Invitation
    BY DEF TypeOK, SeatsTypeOK
  <2> QED BY <2>1, <2>2, <2>3 DEF Pending, Invitation
<1>3. i \notin members /\ \A m \in members : invites[m].email # e
  BY <1>1 DEF AddressInv, Invite, NotEmployed, Employed
<1>4. members \subseteq Invites
  BY DEF TypeOK, SeatsTypeOK
<1> QED BY <1>1, <1>2, <1>3, <1>4 DEF AddressInv, OnePendingPerAddress, OneSeatPerAddress,
        Pending

LEMMA AcceptingKeepsAddresses ==
  ASSUME TypeOK, AddressInv, NEW i \in Invites, NEW now \in Arrivals, Accept(i, now)
  PROVE  AddressInv'
<1>1. /\ invites'[i].email = invites[i].email /\ invites'[i].status = "accepted"
      /\ \A j \in Invites \ {i} : invites'[j] = invites[j]
      /\ Pending(i) /\ members' = members \cup {i}
  BY DEF TypeOK, SeatsTypeOK, Invitation, Accept, Live
<1>2. \A m \in members : invites[m].email # invites[i].email
  BY DEF Accept, NotEmployed, Employed
<1>3. members \subseteq Invites /\ i \notin members
  BY <1>1 DEF TypeOK, SeatsTypeOK, AddressInv, Pending
<1> QED BY <1>1, <1>2, <1>3 DEF AddressInv, OnePendingPerAddress, OneSeatPerAddress, Pending

\* An address that has an account or a pending invitation gets no second one,
\* although an expired invitation is only settled by the next that follows it.
THEOREM AddressesStaySingle == Spec => []OneSeatPerAddress
<1>1. Init => TypeOK /\ AddressInv
  <2> SUFFICES ASSUME Init PROVE AddressInv
    BY InitIsTyped
  <2> QED BY DEF Init, SeatsInit, NoInvitation, AddressInv, OnePendingPerAddress,
          OneSeatPerAddress, Pending
<1>2. TypeOK /\ AddressInv /\ [Next]_vars => (TypeOK /\ AddressInv)'
  BY StepIsTyped, AddressMoves, ClosingKeepsAddresses, InvitingKeepsAddresses,
     AcceptingKeepsAddresses
<1>3. AddressInv => OneSeatPerAddress
  BY DEF AddressInv
<1> QED BY <1>1, <1>2, <1>3, PTL DEF Spec

------------------------------------------------------------------------------
(* Charges.                                                                  *)

LEMMA WholeFiles ==
  ASSUME NEW k \in Nat PROVE (k * Price) % Price = 0 /\ (k * Price) \div Price = k
  BY PriceAssumption

LEMMA OneMoreFile ==
  ASSUME NEW n \in Nat, NEW k \in 0 .. n, NEW c \in {0, Price}
  PROVE  \E l \in 0 .. n + 1 : k * Price + c = l * Price
<1>1. Price \in Nat /\ k \in Nat
  BY PriceAssumption
<1>2. CASE c = 0
  BY <1>1, <1>2
<1>3. CASE c = Price
  <2>1. (k + 1) * Price = k * Price + Price
    BY <1>1
  <2> QED BY <1>1, <1>3, <2>1
<1> QED BY <1>2, <1>3

\* Charges are computed under the lock, or recorded by its holder, or untouched.
LEMMA ChargeMoves ==
  ASSUME TypeOK, [Next]_vars
  PROVE  \/ UNCHANGED usage /\ holders' \subseteq holders /\ UNCHANGED tx
         \/ \E f \in Files : Snapshot(f) \/ Commit(f) \/ LateCommit(f)
<1>1. ASSUME NEW f \in Files, Upload(f)
      PROVE  \/ UNCHANGED usage /\ holders' \subseteq holders /\ UNCHANGED tx
             \/ Snapshot(f) \/ Commit(f) \/ LateCommit(f)
  BY <1>1 DEF Upload, Begin, PutObject, PutFails, Refuse, Retry, CommitUnknown, LateAbort,
     Resolve, ResolveFails, Compensate, CompensateFails, UploadCrashes
<1>2. ASSUME NEW f \in Files, Delete(f) PROVE UNCHANGED <<usage, holders, tx>>
  BY <1>2 DEF Delete, DeleteBegin, DeleteObject, DeleteFails, DeleteRow
<1>3. ASSUME NewPeriod PROVE UNCHANGED <<usage, holders, tx>>
  BY <1>3 DEF NewPeriod
<1>4. ASSUME SeatsNext, UNCHANGED vault PROVE UNCHANGED <<usage, holders, tx>>
  BY <1>4 DEF vault, SeatsNext, Revoke, DeleteUser, Purge, Invite, Resend, Accept, Advance
<1>5. ASSUME NEW p \in Plans, NEW now \in Arrivals, ChangePlan(p, now)
      PROVE  UNCHANGED <<usage, holders, tx>>
  BY <1>5 DEF ChangePlan, vault
<1>6. ASSUME Cleanup PROVE UNCHANGED <<usage, holders, tx>>
  BY <1>6 DEF Cleanup, CleanupStart, CleanupErase, CleanupDropRow, CleanupAccounts,
     CleanupSwitch, CleanupStops, vault
<1>7. ASSUME UNCHANGED vars PROVE UNCHANGED <<usage, holders, tx>>
  BY <1>7 DEF vars, vault
<1> QED BY <1>1, <1>2, <1>3, <1>4, <1>5, <1>6, <1>7 DEF Next, VaultNext

LEMMA ChargesAreKept ==
  ASSUME TypeOK, ChargesAreWhole, [Next]_vars
  PROVE  ChargesAreWhole'
<1> USE DEF ChargesAreWhole
<1>1. CASE UNCHANGED usage /\ holders' \subseteq holders /\ UNCHANGED tx
  BY <1>1 DEF Periods
<1>2. ASSUME NEW f \in Files, Snapshot(f) PROVE ChargesAreWhole'
  <2>1. ChargeOf(f).cents \in {0, Price}
    BY CountsAreNumbers, OverageOfOneFile DEF ChargeOf, Stored, TypeOK, VaultTypeOK
  <2>2. \A g \in holders' : tx'[g].cents \in {0, Price}
    BY <1>2, <2>1 DEF Snapshot, TypeOK, VaultTypeOK
  <2> QED BY <1>2, <2>2 DEF Snapshot, Periods
<1>3. ASSUME NEW f \in Files, Commit(f) \/ LateCommit(f) PROVE ChargesAreWhole'
  <2>1. /\ f \in holders /\ holders' = holders \ {f} /\ UNCHANGED tx
        /\ usage' = [usage EXCEPT ![tx[f].period] =
                       [uploads |-> @.uploads + 1, cents |-> @.cents + tx[f].cents]]
    BY <1>3 DEF Commit, LateCommit, Apply
  <2>2. ASSUME NEW p \in Periods
        PROVE  \E l \in 0 .. usage'[p].uploads : usage'[p].cents = l * Price
    <3>1. usage \in [Periods -> [uploads : Nat, cents : Nat]]
      BY DEF TypeOK, VaultTypeOK
    <3>2. PICK k \in 0 .. usage[p].uploads : usage[p].cents = k * Price
      OBVIOUS
    <3>3. CASE p = tx[f].period
      <4>1. usage'[p] = [uploads |-> usage[p].uploads + 1,
                         cents |-> usage[p].cents + tx[f].cents]
        BY <2>1, <3>1, <3>3
      <4>2. \E l \in 0 .. usage[p].uploads + 1 : k * Price + tx[f].cents = l * Price
        BY <2>1, <3>1, OneMoreFile
      <4> QED BY <3>2, <4>1, <4>2
    <3>4. CASE p # tx[f].period
      BY <2>1, <3>1, <3>2, <3>4
    <3> QED BY <3>3, <3>4
  <2> QED BY <2>1, <2>2 DEF Periods
<1> QED BY <1>1, <1>2, <1>3, ChargeMoves

\* Billing never refuses the records of a period, whatever was stored, deleted,
\* repeated or committed late.
THEOREM BillingAlwaysAccepts == Spec => []BillingAccepts
<1>1. Init => TypeOK /\ ChargesAreWhole
  <2> SUFFICES ASSUME Init PROVE ChargesAreWhole
    BY InitIsTyped
  <2>1. 0 * Price = 0
    BY PriceAssumption
  <2> QED BY <2>1 DEF Init, VaultInit, SubscriptionInit, ChargesAreWhole
<1>2. TypeOK /\ ChargesAreWhole /\ [Next]_vars => (TypeOK /\ ChargesAreWhole)'
  BY StepIsTyped, ChargesAreKept
<1>3. TypeOK /\ ChargesAreWhole => BillingAccepts
  <2> SUFFICES ASSUME TypeOK, ChargesAreWhole, NEW p \in Periods
               PROVE  /\ usage[p].cents % Price = 0
                      /\ usage[p].cents \div Price <= usage[p].uploads
    BY DEF BillingAccepts
  <2>1. PICK k \in 0 .. usage[p].uploads : usage[p].cents = k * Price
    BY DEF ChargesAreWhole
  <2>2. usage[p].uploads \in Nat
    BY DEF TypeOK, VaultTypeOK
  <2> QED BY <2>1, <2>2, WholeFiles
<1> QED BY <1>1, <1>2, <1>3, PTL DEF Spec

------------------------------------------------------------------------------
(* What the statistics promise is what the service admits.                   *)

LEMMA TakenIsCounted ==
  ASSUME TypeOK
  PROVE  /\ Stored \in Nat /\ Cardinality(Files) \in Nat
         /\ Cardinality(members) \in Nat /\ Cardinality(Invites) \in Nat
         /\ Cardinality(LiveAt(clock)) \in Nat
  BY CountsAreNumbers DEF Stored, LiveAt, TypeOK, VaultTypeOK, SeatsTypeOK

LEMMA FreeUploadsAreTold ==
  ASSUME TypeOK, NEW n \in Nat \ {0}
  PROVE  IF Shown.uploadsUnlimited
         THEN n <= Shown.uploads <=> Overage(plan, Stored + n - 1) = 0
         ELSE n <= Shown.uploads <=> FilesFit(plan, Stored + n)
<1>1. /\ Shown.uploadsUnlimited = ~CapsFiles(plan)
      /\ Shown.uploads = AtLeastZero(Included[plan], Stored)
  BY DEF Shown, Statistics, Current, calculate, Counts
<1>2. Included[plan] \in Nat /\ Stored \in Nat
  BY LimitsAreNumbers, TakenIsCounted DEF TypeOK, VaultTypeOK
<1>3. n <= Shown.uploads <=> Stored + n <= Included[plan]
  BY <1>1, <1>2 DEF AtLeastZero
<1>4. CASE CapsFiles(plan)
  BY <1>1, <1>3, <1>4 DEF FilesFit
<1>5. CASE ~CapsFiles(plan)
  <2>1. Overage(plan, Stored + n - 1) = 0 <=> Stored + n - 1 < Included[plan]
    BY <1>2, <1>5, PriceAssumption, OverageOfOneFile DEF TypeOK, VaultTypeOK
  <2>2. Stored + n - 1 < Included[plan] <=> Stored + n <= Included[plan]
    BY <1>2
  <2> QED BY <1>1, <1>3, <1>5, <2>1, <2>2
<1> QED BY <1>4, <1>5

LEMMA FreeSlotsAreTold ==
  ASSUME TypeOK, NEW n \in Nat \ {0}
  PROVE  Capacity(clock, n) <=> Shown.slotsUnlimited \/ n <= Shown.slots
<1> DEFINE taken == Cardinality(members) + Cardinality(LiveAt(clock))
<1>1. /\ Shown.slotsUnlimited = ~CapsSeats(plan)
      /\ CapsSeats(plan) => Shown.slots = AtLeastZero(Seats[plan], taken)
  BY DEF Shown, Statistics, Current, calculate, Counts
<1>2. taken \in Nat /\ (CapsSeats(plan) => Seats[plan] \in Nat)
  BY LimitsAreNumbers, TakenIsCounted DEF TypeOK, VaultTypeOK
<1>3. Capacity(clock, n) <=> SeatsFit(plan, taken + n)
  BY DEF Capacity
<1> HIDE DEF taken
<1>4. CASE CapsSeats(plan)
  <2>1. n <= Shown.slots <=> taken + n <= Seats[plan]
    BY <1>1, <1>2, <1>4 DEF AtLeastZero
  <2> QED BY <1>1, <1>3, <1>4, <2>1 DEF SeatsFit
<1>5. CASE ~CapsSeats(plan)
  BY <1>1, <1>3, <1>5 DEF SeatsFit
<1> QED BY <1>4, <1>5

\* The uploads the statistics show as left are those that would be admitted, or
\* that would cost nothing: checkFileUpload against StatisticsService.getCurrent.
THEOREM UploadsAreToldAlways == Spec => []UploadsAreTold
<1>1. TypeOK => UploadsAreTold
  <2> SUFFICES ASSUME TypeOK, NEW n \in 1 .. Cardinality(Files) + 1
               PROVE  IF Shown.uploadsUnlimited
                      THEN n <= Shown.uploads <=> Overage(plan, Stored + n - 1) = 0
                      ELSE n <= Shown.uploads <=> FilesFit(plan, Stored + n)
    BY DEF UploadsAreTold
  <2>1. n \in Nat \ {0}
    BY TakenIsCounted
  <2> QED BY <2>1, FreeUploadsAreTold
<1> QED BY <1>1, WorkspaceIsTyped, PTL

\* The slots the statistics show as left are the invitations that would be
\* admitted: assertEmployeeCapacity against StatisticsService.getCurrent.
THEOREM SlotsAreToldAlways == Spec => []SlotsAreTold
<1>1. TypeOK => SlotsAreTold
  <2> SUFFICES ASSUME TypeOK, NEW n \in 1 .. Cardinality(Invites) + 1
               PROVE  Capacity(clock, n) <=> Shown.slotsUnlimited \/ n <= Shown.slots
    BY DEF SlotsAreTold
  <2>1. n \in Nat \ {0}
    BY TakenIsCounted
  <2> QED BY <2>1, FreeSlotsAreTold
<1> QED BY <1>1, WorkspaceIsTyped, PTL

------------------------------------------------------------------------------
(* What the periods count.                                                   *)

\* The uploads of a set of periods, summed as the community module sums them.
SumOf(u) ==
  CHOOSE f : f = [s \in SUBSET Periods |->
                    IF s = {} THEN 0
                    ELSE u[CHOOSE p \in s : TRUE].uploads + f[s \ {CHOOSE p \in s : TRUE}]]

Usage == [Periods -> [uploads : Nat, cents : Nat]]

LEMMA PeriodsAreFinite == IsFiniteSet(Periods) /\ Periods \in SUBSET Periods
<1>1. 1 \in Nat /\ MaxPeriods \in Nat
  BY PeriodsAssumption
<1> QED BY <1>1, FS_Interval DEF Periods

\* The recursion has a solution: on the sets of n periods, for every n.
LEMMA SumsExist ==
  ASSUME NEW u \in Usage
  PROVE  \E f : f = [s \in SUBSET Periods |->
                       IF s = {} THEN 0
                       ELSE u[CHOOSE p \in s : TRUE].uploads + f[s \ {CHOOSE p \in s : TRUE}]]
<1> DEFINE One(s) == CHOOSE p \in s : TRUE
           Small(n) == {s \in SUBSET Periods : Cardinality(s) <= n}
           Step(f, D) == [s \in D |-> IF s = {} THEN 0 ELSE u[One(s)].uploads + f[s \ {One(s)}]]
           K == {n \in Nat : \E f : f = Step(f, Small(n))}
<1>1. \A s \in SUBSET Periods : IsFiniteSet(s) /\ Cardinality(s) \in Nat
  BY PeriodsAreFinite, FS_Subset, FS_CardinalityType
<1>2. 0 \in K
  <2>1. \A s \in Small(0) : s = {}
    BY <1>1, FS_EmptySet
  <2>2. [s \in Small(0) |-> 0] = Step([s \in Small(0) |-> 0], Small(0))
    BY <2>1
  <2> QED BY <2>2
<1>3. ASSUME NEW n \in Nat, n \in K PROVE n + 1 \in K
  <2>1. PICK f : f = Step(f, Small(n))
    BY <1>3
  <2> DEFINE g == Step(f, Small(n + 1))
  <2>2. \A s \in Small(n + 1) : s # {} => s \ {One(s)} \in Small(n)
    <3> SUFFICES ASSUME NEW s \in Small(n + 1), s # {} PROVE s \ {One(s)} \in Small(n)
      OBVIOUS
    <3>1. One(s) \in s
      OBVIOUS
    <3>2. Cardinality(s \ {One(s)}) = Cardinality(s) - 1
      BY <1>1, <3>1, FS_RemoveElement
    <3>3. Cardinality(s) \in Nat /\ Cardinality(s) <= n + 1
      BY <1>1
    <3> QED BY <3>2, <3>3
  <2>3. Small(n) \subseteq Small(n + 1)
    BY <1>1
  <2>4. \A s \in Small(n) : g[s] = f[s]
    <3> HIDE DEF One, Small
    <3>1. \A s \in Small(n) :
            f[s] = IF s = {} THEN 0 ELSE u[One(s)].uploads + f[s \ {One(s)}]
      BY <2>1
    <3> QED BY <2>3, <3>1
  <2>5. g = Step(g, Small(n + 1))
    <3> HIDE DEF One, Small
    <3>1. \A s \in Small(n + 1) : s # {} => g[s \ {One(s)}] = f[s \ {One(s)}]
      <4> HIDE DEF g
      <4> QED BY <2>2, <2>4
    <3> QED BY <3>1
  <2>6. \E h : h = Step(h, Small(n + 1))
    <3> HIDE DEF g, One, Small
    <3> QED BY <2>5, Zenon
  <2>7. n + 1 \in Nat
    OBVIOUS
  <2> QED BY <2>6, <2>7, Zenon
<1>4. Nat \subseteq K
  <2> HIDE DEF K
  <2> QED BY <1>2, <1>3, NatSetInduction
<1>5. Cardinality(Periods) \in K /\ Small(Cardinality(Periods)) = SUBSET Periods
  <2>1. \A s \in SUBSET Periods : Cardinality(s) <= Cardinality(Periods)
    BY PeriodsAreFinite, FS_Subset
  <2> HIDE DEF K
  <2> QED BY <1>1, <1>4, <2>1, PeriodsAreFinite
<1> QED BY <1>5

LEMMA SumEquation ==
  ASSUME NEW u \in Usage
  PROVE  /\ SumOf(u)[{}] = 0
         /\ \A s \in SUBSET Periods : s # {} =>
              SumOf(u)[s] = u[CHOOSE p \in s : TRUE].uploads
                              + SumOf(u)[s \ {CHOOSE p \in s : TRUE}]
<1>1. SumOf(u) = [s \in SUBSET Periods |->
                    IF s = {} THEN 0
                    ELSE u[CHOOSE p \in s : TRUE].uploads
                           + SumOf(u)[s \ {CHOOSE p \in s : TRUE}]]
  BY SumsExist DEF SumOf
<1> QED BY <1>1, PeriodsAreFinite

LEMMA SumIsNatural ==
  ASSUME NEW u \in Usage
  PROVE  \A s \in SUBSET Periods : SumOf(u)[s] \in Nat
<1> DEFINE K == {s \in SUBSET Periods : SumOf(u)[s] \in Nat}
<1>1. {} \in K
  BY SumEquation
<1>2. ASSUME NEW s \in SUBSET Periods, s # {}
      PROVE  \E p \in s : s \ {p} \in K => s \in K
  <2> DEFINE one == CHOOSE p \in s : TRUE
  <2>1. one \in s /\ u[one].uploads \in Nat
    BY <1>2 DEF Usage
  <2>2. SumOf(u)[s] = u[one].uploads + SumOf(u)[s \ {one}]
    BY <1>2, SumEquation
  <2> HIDE DEF one
  <2>3. s \ {one} \in K => s \in K
    BY <2>1, <2>2
  <2> QED BY <2>1, <2>3, Zenon
<1>3. SUBSET Periods \subseteq K
  <2> HIDE DEF K
  <2> QED BY <1>1, <1>2, PeriodsAreFinite, SubsetInduction
<1> QED BY <1>3

LEMMA NothingSumsToZero ==
  ASSUME NEW u \in Usage, \A p \in Periods : u[p].uploads = 0
  PROVE  \A s \in SUBSET Periods : SumOf(u)[s] = 0
<1> DEFINE K == {s \in SUBSET Periods : SumOf(u)[s] = 0}
<1>1. {} \in K
  BY SumEquation
<1>2. ASSUME NEW s \in SUBSET Periods, s # {}
      PROVE  \E p \in s : s \ {p} \in K => s \in K
  <2> DEFINE one == CHOOSE p \in s : TRUE
  <2>1. one \in s /\ u[one].uploads = 0
    BY <1>2
  <2>2. SumOf(u)[s] = u[one].uploads + SumOf(u)[s \ {one}]
    BY <1>2, SumEquation
  <2> HIDE DEF one
  <2>3. s \ {one} \in K => s \in K
    BY <2>1, <2>2
  <2> QED BY <2>1, <2>3, Zenon
<1>3. SUBSET Periods \subseteq K
  <2> HIDE DEF K
  <2> QED BY <1>1, <1>2, PeriodsAreFinite, SubsetInduction
<1> QED BY <1>3

\* An upload more in one period is one more in every set that holds the period.
LEMMA OneUploadMore ==
  ASSUME NEW u \in Usage, NEW v \in Usage, NEW q \in Periods,
         v[q].uploads = u[q].uploads + 1,
         \A p \in Periods \ {q} : v[p].uploads = u[p].uploads
  PROVE  \A s \in SUBSET Periods :
           SumOf(v)[s] = SumOf(u)[s] + (IF q \in s THEN 1 ELSE 0)
<1> DEFINE More(s) == IF q \in s THEN 1 ELSE 0
           K == {s \in SUBSET Periods : SumOf(v)[s] = SumOf(u)[s] + More(s)}
<1>1. {} \in K
  BY SumEquation
<1>2. ASSUME NEW s \in SUBSET Periods, s # {}
      PROVE  \E p \in s : s \ {p} \in K => s \in K
  <2> DEFINE one == CHOOSE p \in s : TRUE
  <2>1. one \in s
    BY <1>2
  <2>2. /\ SumOf(u)[s] = u[one].uploads + SumOf(u)[s \ {one}]
        /\ SumOf(v)[s] = v[one].uploads + SumOf(v)[s \ {one}]
    BY <1>2, SumEquation
  <2> HIDE DEF one
  <2>3. /\ u[one].uploads \in Nat /\ v[one].uploads \in Nat
        /\ SumOf(u)[s] \in Nat /\ SumOf(u)[s \ {one}] \in Nat
        /\ SumOf(v)[s] \in Nat /\ SumOf(v)[s \ {one}] \in Nat
    <3>1. s \ {one} \in SUBSET Periods
      OBVIOUS
    <3> QED BY <2>1, <3>1, SumIsNatural DEF Usage
  <2>4. v[one].uploads + More(s \ {one}) = u[one].uploads + More(s)
    <3>1. CASE one = q
      BY <2>1, <2>3, <3>1
    <3>2. CASE one # q
      BY <2>1, <2>3, <3>2
    <3> QED BY <3>1, <3>2
  <2>5. More(s) \in Nat /\ More(s \ {one}) \in Nat
    OBVIOUS
  <2>6. SumOf(v)[s \ {one}] = SumOf(u)[s \ {one}] + More(s \ {one})
          => SumOf(v)[s] = SumOf(u)[s] + More(s)
    <3> HIDE DEF More
    <3> QED BY <2>2, <2>3, <2>4, <2>5
  <2> QED BY <2>1, <2>6
<1>3. SUBSET Periods \subseteq K
  <2> HIDE DEF K
  <2> QED BY <1>1, <1>2, PeriodsAreFinite, SubsetInduction
<1> QED BY <1>3

LEMMA CountedAsSum == EveryUploadIsCounted <=> SumOf(usage)[Periods] = Cardinality(EverStored)
  BY DEF EveryUploadIsCounted, MapThenSumSet, MapThenFoldSet, SumOf

\* Only a transaction that commits adds to what the periods count or to the rows
\* that were ever stored.
LEMMA CountMoves ==
  ASSUME TypeOK, [Next]_vars
  PROVE  \/ UNCHANGED <<usage, stamp>>
         \/ \E f \in Files : f \in holders /\ Apply(f)
<1>1. ASSUME NEW f \in Files, Upload(f)
      PROVE  UNCHANGED <<usage, stamp>> \/ (f \in holders /\ Apply(f))
  <2>1. CASE Commit(f) \/ LateCommit(f)
    <3>1. Apply(f)
      BY <2>1 DEF Commit, LateCommit
    <3> QED BY <3>1 DEF Apply
  <2>2. CASE ~ (Commit(f) \/ LateCommit(f))
    <3>1. Begin(f) \/ PutObject(f) \/ PutFails(f) \/ Snapshot(f) \/ Refuse(f) \/ Retry(f)
            => UNCHANGED <<usage, stamp>>
      BY DEF Begin, PutObject, PutFails, Snapshot, Refuse, Retry
    <3>2. CommitUnknown(f) \/ LateAbort(f) \/ Resolve(f) \/ ResolveFails(f)
            => UNCHANGED <<usage, stamp>>
      BY DEF CommitUnknown, LateAbort, Resolve, ResolveFails
    <3>3. Compensate(f) \/ CompensateFails(f) \/ UploadCrashes(f) => UNCHANGED <<usage, stamp>>
      BY DEF Compensate, CompensateFails, UploadCrashes
    <3> QED BY <1>1, <2>2, <3>1, <3>2, <3>3 DEF Upload
  <2> QED BY <2>1, <2>2
<1>2. ASSUME NEW f \in Files, Delete(f) PROVE UNCHANGED <<usage, stamp>>
  BY <1>2 DEF Delete, DeleteBegin, DeleteObject, DeleteFails, DeleteRow
<1>3. ASSUME NewPeriod PROVE UNCHANGED <<usage, stamp>>
  BY <1>3 DEF NewPeriod
<1>4. ASSUME UNCHANGED vault PROVE UNCHANGED <<usage, stamp>>
  BY <1>4 DEF vault
<1>5. ASSUME NEW p \in Plans, NEW now \in Arrivals, ChangePlan(p, now)
      PROVE  UNCHANGED <<usage, stamp>>
  BY <1>5 DEF ChangePlan, vault
<1>6. ASSUME Cleanup PROVE UNCHANGED <<usage, stamp>>
  BY <1>6 DEF Cleanup, CleanupStart, CleanupErase, CleanupDropRow, CleanupAccounts,
     CleanupSwitch, CleanupStops, vault
<1>7. ASSUME UNCHANGED vars PROVE UNCHANGED <<usage, stamp>>
  BY <1>7 DEF vars, vault
<1> QED BY <1>1, <1>2, <1>3, <1>4, <1>5, <1>6, <1>7 DEF Next, VaultNext

\* A commit stores a row that was not stored before, and counts it once, in the
\* period its transaction has read.
LEMMA CommitIsCounted ==
  ASSUME TypeOK, StorageInv, TypeOK', EveryUploadIsCounted, NEW f \in Files, f \in holders, Apply(f)
  PROVE  EveryUploadIsCounted'
<1> DEFINE q == tx[f].period
<1>1. /\ usage \in Usage /\ usage' \in Usage /\ q \in Periods
      /\ stamp \in [Files -> Nat] /\ stamp[f] = 0
  BY DEF TypeOK, VaultTypeOK, Usage, Charge, StorageInv, HoldersAreSound
<1>2. IsFiniteSet(EverStored) /\ Cardinality(EverStored) \in Nat /\ f \notin EverStored
  BY <1>1, FilesAssumption, FS_Subset, FS_CardinalityType DEF EverStored
<1>3. EverStored' = EverStored \cup {f}
  <2>1. stamp' = [stamp EXCEPT ![f] = Cardinality(EverStored) + 1]
    BY DEF Apply
  <2>2. \A g \in Files : stamp'[g] > 0 <=> stamp[g] > 0 \/ g = f
    <3> HIDE DEF EverStored
    <3> QED BY <1>1, <1>2, <2>1
  <2> QED BY <2>2 DEF EverStored
<1>4. Cardinality(EverStored') = Cardinality(EverStored) + 1
  BY <1>2, <1>3, FS_AddElement
<1>5. /\ usage'[q].uploads = usage[q].uploads + 1
      /\ \A p \in Periods \ {q} : usage'[p].uploads = usage[p].uploads
  BY <1>1 DEF Apply, Usage
<1>6. SumOf(usage')[Periods] = SumOf(usage)[Periods] + 1
  <2>1. PICK u, v : u = usage /\ v = usage'
    OBVIOUS
  <2>2. \A s \in SUBSET Periods : SumOf(v)[s] = SumOf(u)[s] + (IF q \in s THEN 1 ELSE 0)
    BY <1>1, <1>5, <2>1, OneUploadMore
  <2> QED BY <1>1, <2>1, <2>2, PeriodsAreFinite
<1>7. SumOf(usage)[Periods] = Cardinality(EverStored)
  BY CountedAsSum
<1>8. EveryUploadIsCounted' <=> SumOf(usage')[Periods] = Cardinality(EverStored')
  BY DEF EveryUploadIsCounted, MapThenSumSet, MapThenFoldSet, SumOf
<1> QED BY <1>2, <1>4, <1>6, <1>7, <1>8

\* Nothing that was ever stored is counted twice or forgotten, whatever is retried,
\* committed late, deleted or carried into another billing period.
THEOREM UploadsAreCountedOnce == Spec => []EveryUploadIsCounted
<1>1. Init => EveryUploadIsCounted
  <2> SUFFICES ASSUME Init PROVE EveryUploadIsCounted
    OBVIOUS
  <2>1. usage \in Usage /\ \A p \in Periods : usage[p].uploads = 0
    BY DEF Init, VaultInit, Usage
  <2>2. SumOf(usage)[Periods] = 0
    <3>1. PICK u : u = usage
      OBVIOUS
    <3> QED BY <2>1, <3>1, NothingSumsToZero, PeriodsAreFinite
  <2>3. EverStored = {}
    BY DEF Init, VaultInit, EverStored
  <2> QED BY <2>2, <2>3, CountedAsSum, FS_EmptySet
<1>2. TypeOK /\ TypeOK' /\ StorageInv /\ EveryUploadIsCounted /\ [Next]_vars
        => EveryUploadIsCounted'
  <2> SUFFICES ASSUME TypeOK, TypeOK', StorageInv, EveryUploadIsCounted, [Next]_vars
               PROVE  EveryUploadIsCounted'
    OBVIOUS
  <2>1. CASE UNCHANGED <<usage, stamp>>
    <3>1. EverStored' = EverStored /\ usage' = usage
      BY <2>1 DEF EverStored
    <3>2. EveryUploadIsCounted' <=> SumOf(usage')[Periods] = Cardinality(EverStored')
      BY DEF EveryUploadIsCounted, MapThenSumSet, MapThenFoldSet, SumOf
    <3> QED BY <3>1, <3>2, CountedAsSum
  <2> QED BY <2>1, CountMoves, CommitIsCounted
<1> QED BY <1>1, <1>2, WorkspaceIsTyped, StorageHolds, PTL DEF Spec

------------------------------------------------------------------------------
(* The confirmed removal of accounts.                                        *)

\* No invitation that was accepted ever waits again, and only an acceptance
\* gives a user its place in the order of creation.
LEMMA JoinMoves ==
  ASSUME TypeOK, [Next]_vars
  PROVE  \/ /\ members' \subseteq members /\ joined' = joined
            /\ \A j \in Invites : invites[j].status = "accepted" => invites'[j].status = "accepted"
         \/ \E i \in Invites, now \in Arrivals : Accept(i, now)
<1> DEFINE Keeps == /\ members' \subseteq members /\ joined' = joined
                    /\ \A j \in Invites :
                         invites[j].status = "accepted" => invites'[j].status = "accepted"
<1>1. ASSUME NEW i \in Invites, NEW now \in Arrivals, NEW e \in Emails, Invite(i, e, now)
      PROVE  Keeps
  <2>1. \A j \in Invites \ {i} :
          invites'[j] = IF Pending(j) /\ invites[j].email = e /\ ~ Live(j, now)
                        THEN [invites[j] EXCEPT !.status = "closed"] ELSE invites[j]
    BY <1>1 DEF Invite, Settled
  <2>2. \A j \in Invites \ {i} : invites[j].status = "accepted" => invites'[j] = invites[j]
    BY <2>1 DEF Pending
  <2>3. invites[i].status = "none" /\ joined' = joined /\ members' = members
    BY <1>1 DEF Invite
  <2> QED BY <2>2, <2>3
<1>2. OnlyCloses => \A j \in Invites :
                      invites[j].status = "accepted" => invites'[j].status = "accepted"
  BY DEF OnlyCloses, Pending
<1>3. ASSUME SeatsNext
      PROVE  joined' = joined \/ \E i \in Invites, now \in Arrivals : Accept(i, now)
  BY <1>3 DEF SeatsNext, Revoke, DeleteUser, Purge, Invite, Resend, Advance
<1>4. ASSUME ~ SeatsNext PROVE joined' = joined
  <2>1. CASE UNCHANGED vars
    BY <2>1 DEF vars, seats
  <2>2. CASE Cleanup
    BY <2>2 DEF Cleanup, CleanupStart, CleanupErase, CleanupDropRow, CleanupAccounts,
       CleanupSwitch, CleanupStops, seats
  <2>3. ASSUME NEW p \in Plans, NEW now \in Arrivals, ChangePlan(p, now) PROVE joined' = joined
    BY <2>3 DEF ChangePlan, seats
  <2>4. CASE UNCHANGED seats
    BY <2>4 DEF seats
  <2> QED BY <1>4, <2>1, <2>2, <2>3, <2>4 DEF Next
<1>5. OnlyCloses => members' \subseteq members
  BY DEF OnlyCloses
<1> HIDE DEF Keeps
<1>6. OnlyCloses /\ joined' = joined => Keeps
  BY <1>2, <1>5 DEF Keeps
<1>7. Keeps \/ \E i \in Invites, now \in Arrivals : Accept(i, now)
  BY <1>1, <1>3, <1>4, <1>6, AddressMoves
<1> QED BY <1>7 DEF Keeps

LEMMA JoinsAreKept ==
  ASSUME TypeOK, TypeOK', JoinsAreSound, [Next]_vars
  PROVE  JoinsAreSound'
<1>1. CASE /\ members' \subseteq members /\ joined' = joined
           /\ \A j \in Invites : invites[j].status = "accepted" => invites'[j].status = "accepted"
  <2>1. Joined' = Joined
    BY <1>1 DEF Joined
  <2> QED BY <1>1, <2>1 DEF JoinsAreSound, Joined
<1>2. ASSUME NEW i \in Invites, NEW now \in Arrivals, Accept(i, now) PROVE JoinsAreSound'
  <2> DEFINE n == Cardinality(Joined)
  <2>1. /\ joined' = [joined EXCEPT ![i] = 1 + n]
        /\ members' = members \cup {i} /\ invites[i].status = "pending"
        /\ invites' = [invites EXCEPT ![i].status = "accepted"]
    BY <1>2 DEF Accept, Joined, Live, Pending
  <2>2. joined \in [Invites -> Nat] /\ invites \in [Invites -> Invitation]
    BY DEF TypeOK, SeatsTypeOK
  <2>3. IsFiniteSet(Joined) /\ n \in Nat /\ Joined \subseteq Invites
    BY CountsAreNumbers DEF Joined
  <2>4. i \notin Joined
    BY <2>1 DEF JoinsAreSound
  <2>5. \A j \in Invites : joined'[j] = IF j = i THEN 1 + n ELSE joined[j]
    <3> HIDE DEF n
    <3> QED BY <2>1, <2>2
  <2>6. Joined' = Joined \cup {i}
    <3>1. \A j \in Invites : joined'[j] > 0 <=> j = i \/ joined[j] > 0
      <4> HIDE DEF n
      <4> QED BY <2>2, <2>3, <2>5
    <3> QED BY <3>1 DEF Joined
  <2>7. Cardinality(Joined') = n + 1
    BY <2>3, <2>4, <2>6, FS_AddElement
  <2>8. invites'[i].status = "accepted" /\ \A j \in Invites \ {i} : invites'[j] = invites[j]
    BY <2>1, <2>2 DEF Invitation
  <2>9. \A j \in Joined : joined[j] \in Nat /\ joined[j] <= n /\ invites[j].status = "accepted"
    BY <2>2, <2>3 DEF JoinsAreSound
  <2> HIDE DEF n
  <2>10. \A j \in Joined' : invites'[j].status = "accepted" /\ joined'[j] <= Cardinality(Joined')
    <3> SUFFICES ASSUME NEW j \in Joined'
                 PROVE  invites'[j].status = "accepted" /\ joined'[j] <= n + 1
      BY <2>7
    <3>1. CASE j = i
      BY <2>3, <2>5, <2>8, <3>1
    <3>2. CASE j \in Joined /\ j # i
      BY <2>3, <2>5, <2>8, <2>9, <3>2
    <3> QED BY <2>6, <3>1, <3>2
  <2>11. ASSUME NEW j \in Joined', NEW k \in Joined', joined'[j] = joined'[k] PROVE j = k
    <3>1. CASE j \in Joined /\ k \in Joined /\ j # i /\ k # i
      BY <2>3, <2>5, <2>11, <3>1 DEF JoinsAreSound
    <3>2. CASE j = i /\ k \in Joined /\ k # i
      BY <2>3, <2>5, <2>9, <2>11, <3>2
    <3>3. CASE k = i /\ j \in Joined /\ j # i
      BY <2>3, <2>5, <2>9, <2>11, <3>3
    <3> QED BY <2>6, <3>1, <3>2, <3>3
  <2>12. members' \subseteq Joined'
    BY <2>1, <2>6 DEF JoinsAreSound
  <2> QED BY <2>10, <2>11, <2>12 DEF JoinsAreSound
<1> QED BY <1>1, <1>2, JoinMoves

\* Who of a set joined last.
LEMMA SomebodyJoinedLast ==
  ASSUME NEW S, IsFiniteSet(S), NEW at \in [S -> Nat]
  PROVE  \A s \in SUBSET S : s # {} => \E x \in s : \A y \in s : at[y] <= at[x]
<1> DEFINE K == {s \in SUBSET S : s # {} => \E x \in s : \A y \in s : at[y] <= at[x]}
<1>1. {} \in K
  OBVIOUS
<1>2. ASSUME NEW s \in SUBSET S, s # {}
      PROVE  \E x \in s : s \ {x} \in K => s \in K
  <2>1. PICK x \in s : TRUE
    BY <1>2
  <2>2. ASSUME s \ {x} \in K PROVE s \in K
    <3>1. CASE s \ {x} = {}
      <4>1. \A y \in s : at[y] <= at[x]
        BY <3>1
      <4> QED BY <2>1, <4>1
    <3>2. CASE s \ {x} # {}
      <4>1. PICK z \in s \ {x} : \A y \in s \ {x} : at[y] <= at[z]
        BY <2>2, <3>2
      <4>2. CASE at[x] <= at[z]
        BY <4>1, <4>2
      <4>3. CASE ~ (at[x] <= at[z])
        <5>1. \A y \in s : at[y] <= at[x]
          BY <4>1, <4>3
        <5> QED BY <5>1
      <4> QED BY <4>2, <4>3
    <3> QED BY <3>1, <3>2
  <2> QED BY <2>2, Zenon
<1>3. SUBSET S \subseteq K
  <2> HIDE DEF K
  <2> QED BY <1>1, <1>2, SubsetInduction
<1> QED BY <1>3

\* Of users who joined one after the other, those with fewer than k before them
\* are the first k, or all.
LEMMA TheFirstAreCounted ==
  ASSUME NEW S, IsFiniteSet(S), NEW at \in [S -> Nat],
         \A x, y \in S : at[x] = at[y] => x = y,
         NEW k \in Nat
  PROVE  Cardinality({x \in S : Cardinality({y \in S : at[y] < at[x]}) < k})
           = IF k < Cardinality(S) THEN k ELSE Cardinality(S)
<1> DEFINE Before(s, x) == {y \in s : at[y] < at[x]}
           First(s) == {x \in s : Cardinality(Before(s, x)) < k}
           Least(n) == IF k < n THEN k ELSE n
           K == {s \in SUBSET S : Cardinality(First(s)) = Least(Cardinality(s))}
<1>1. \A s \in SUBSET S : IsFiniteSet(s) /\ Cardinality(s) \in Nat
  BY FS_Subset, FS_CardinalityType
<1>2. {} \in K
  <2>1. First({}) = {}
    OBVIOUS
  <2>2. Cardinality({}) = 0
    BY FS_EmptySet
  <2> QED BY <2>1, <2>2
<1>3. ASSUME NEW s \in SUBSET S, s # {}
      PROVE  \E x \in s : s \ {x} \in K => s \in K
  <2>1. PICK x \in s : \A y \in s : at[y] <= at[x]
    BY <1>3, SomebodyJoinedLast
  <2> DEFINE r == s \ {x}
  <2>2. \A y \in r : at[y] < at[x] /\ at[y] \in Nat
    BY <2>1
  <2>3. at[x] \in Nat /\ r \in SUBSET S /\ x \notin r /\ s = r \cup {x}
    BY <2>1
  <2>4. Before(s, x) = r
    BY <2>2, <2>3
  <2>5. \A y \in r : Before(s, y) = Before(r, y)
    BY <2>2, <2>3
  <2>6. Cardinality(r) = Cardinality(s) - 1
    BY <1>1, FS_RemoveElement
  <2>7. First(s) = IF Cardinality(r) < k THEN First(r) \cup {x} ELSE First(r)
    <3> HIDE DEF Before, r
    <3> QED BY <2>3, <2>4, <2>5
  <2>8. IsFiniteSet(First(r)) /\ Cardinality(First(r)) \in Nat /\ x \notin First(r)
    <3>1. First(r) \in SUBSET S /\ x \notin First(r)
      BY <2>3
    <3> QED BY <1>1, <3>1
  <2>9. ASSUME Cardinality(First(r)) = Least(Cardinality(r))
        PROVE  Cardinality(First(s)) = Least(Cardinality(s))
    <3> HIDE DEF First, r
    <3>0. Cardinality(r) \in Nat /\ Cardinality(s) \in Nat
      BY <1>1, <2>3
    <3>1. CASE Cardinality(r) < k
      <4>1. Cardinality(First(s)) = Cardinality(First(r)) + 1
        BY <2>7, <2>8, <3>1, FS_AddElement
      <4> QED BY <2>6, <2>9, <3>0, <3>1, <4>1
    <3>2. CASE ~ (Cardinality(r) < k)
      BY <2>6, <2>7, <2>9, <3>0, <3>2
    <3> QED BY <3>1, <3>2
  <2>10. r \in K => s \in K
    <3> HIDE DEF First, r, Least
    <3> QED BY <2>9
  <2> QED BY <2>10, Zenon
<1>4. SUBSET S \subseteq K
  <2> HIDE DEF K
  <2> QED BY <1>2, <1>3, SubsetInduction
<1>5. S \in K
  <2> HIDE DEF K
  <2> QED BY <1>4
<1> QED BY <1>5

\* The transaction removes whom the owner was shown, and they are all but the
\* oldest users there are now.
LEMMA AccountsAreTheOldest ==
  ASSUME TypeOK, JoinsAreSound, CleanupAccounts
  PROVE  /\ members \ members' \subseteq shown.members
         /\ Cardinality(members') = SeatsKept(shown.to, Cardinality(members))
         /\ \A m \in members \ members', k \in members' : joined[k] < joined[m]
<1> DEFINE to == shown.to
           Before(m) == {k \in members : joined[k] < joined[m]}
           Kept == {m \in members : Cardinality(Before(m)) < Seats[to]}
<1>1. /\ members' = members \ ExcessMembers(shown)
      /\ IsLower(to) /\ ExcessMembers(Picture(to)) = ExcessMembers(shown)
  BY DEF CleanupAccounts, SameAccounts, Picture
<1>2. /\ to \in Plans /\ plan \in Plans /\ members \subseteq Invites
      /\ joined \in [Invites -> Nat]
  BY DEF TypeOK, VaultTypeOK, SeatsTypeOK, Preview
<1>3. CapsSeats(to) /\ Seats[to] \in Nat
  <2>1. CapsSeats(to)
    BY <1>1, <1>2 DEF IsLower, Rank, Plans, CapsSeats
  <2> QED BY <1>2, <2>1, LimitsAreNumbers
<1>4. ExcessMembers(Picture(to)) = {m \in members : Cardinality(Before(m)) >= Seats[to]}
  BY DEF ExcessMembers, Picture
<1>5. /\ \A m \in members : IsFiniteSet(Before(m)) /\ Cardinality(Before(m)) \in Nat
      /\ IsFiniteSet(members) /\ Cardinality(members) \in Nat
  <2>1. members \in SUBSET Invites /\ \A m \in members : Before(m) \in SUBSET Invites
    BY <1>2
  <2> HIDE DEF Before
  <2> QED BY <2>1, CountsAreNumbers
<1>6. members' = Kept
  <2> HIDE DEF Before
  <2> QED BY <1>1, <1>3, <1>4, <1>5
<1>7. members \ members' \subseteq shown.members
  BY <1>1 DEF ExcessMembers
<1>8. Cardinality(Kept) = SeatsKept(to, Cardinality(members))
  <2> DEFINE at == [m \in members |-> joined[m]]
  <2>1. at \in [members -> Nat]
    BY <1>2
  <2>2. \A m, k \in members : at[m] = at[k] => m = k
    BY DEF JoinsAreSound
  <2>3. Cardinality({m \in members : Cardinality({k \in members : at[k] < at[m]}) < Seats[to]})
          = IF Seats[to] < Cardinality(members) THEN Seats[to] ELSE Cardinality(members)
    <3> HIDE DEF at, to
    <3> QED BY <1>3, <1>5, <2>1, <2>2, TheFirstAreCounted
  <2>4. \A m \in members : {k \in members : at[k] < at[m]} = Before(m)
    OBVIOUS
  <2>5. Kept = {m \in members : Cardinality({k \in members : at[k] < at[m]}) < Seats[to]}
    <3> HIDE DEF Before, at
    <3> QED BY <2>4
  <2> HIDE DEF Kept, at, to
  <2> QED BY <1>3, <2>3, <2>5 DEF SeatsKept
<1>9. ASSUME NEW m \in members \ members', NEW k \in members' PROVE joined[k] < joined[m]
  <2>1. m \in members /\ k \in members /\ joined[m] \in Nat /\ joined[k] \in Nat
    BY <1>2, <1>6
  <2>2. Cardinality(Before(k)) < Seats[to] /\ ~ (Cardinality(Before(m)) < Seats[to])
    <3> HIDE DEF Before
    <3> QED BY <1>6
  <2>3. ASSUME joined[m] <= joined[k] PROVE FALSE
    <3>1. Before(m) \subseteq Before(k)
      BY <1>2, <2>1, <2>3
    <3>2. Cardinality(Before(m)) <= Cardinality(Before(k))
      <4> HIDE DEF Before
      <4> QED BY <1>5, <2>1, <3>1, FS_Subset
    <3> HIDE DEF Before
    <3> QED BY <1>3, <1>5, <2>1, <2>2, <3>2
  <2> QED BY <2>1, <2>3
<1> HIDE DEF Kept
<1> QED BY <1>6, <1>7, <1>8, <1>9

\* No other step ends the removal of files with the removal of accounts.
LEMMA OnlyAccountsSwitch ==
  ASSUME TypeOK, [Next]_vars, cleanup.stage = "files", cleanup'.stage = "switch"
  PROVE  CleanupAccounts
<1>1. CASE UNCHANGED cleaning
  BY <1>1 DEF cleaning
<1>2. CASE Cleanup
  BY <1>2 DEF Cleanup, CleanupStart, CleanupErase, CleanupDropRow, CleanupSwitch,
     CleanupStops, Idle, TypeOK
<1> QED BY <1>1, <1>2 DEF Next, ChangePlan, vars

\* Whatever is accepted or deleted after the owner has confirmed, only accounts
\* that were shown are removed, and never an older one than an account that stays.
THEOREM OldestAccountsStay == Spec => CleanupKeepsTheOldest
<1>1. Init => TypeOK /\ JoinsAreSound
  <2> SUFFICES ASSUME Init PROVE JoinsAreSound
    BY InitIsTyped
  <2> QED BY DEF Init, SeatsInit, JoinsAreSound, Joined
<1>2. TypeOK /\ TypeOK' /\ JoinsAreSound /\ [Next]_vars => JoinsAreSound'
  BY JoinsAreKept
<1>3. TypeOK /\ JoinsAreSound /\ [Next]_vars
        => [cleanup.stage = "files" /\ cleanup'.stage = "switch" =>
              /\ members \ members' \subseteq shown.members
              /\ Cardinality(members') = SeatsKept(shown.to, Cardinality(members))
              /\ \A m \in members \ members', k \in members' : joined[k] < joined[m]]_vars
  BY OnlyAccountsSwitch, AccountsAreTheOldest
<1> QED BY <1>1, <1>2, <1>3, WorkspaceIsTyped, PTL DEF Spec, CleanupKeepsTheOldest
==============================================================================
