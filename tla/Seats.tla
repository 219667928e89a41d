-------------------------------- MODULE Seats --------------------------------
(****************************************************************************)
(* The employees of a company and the invitations that lead to them.  An    *)
(* invitation is admitted and accepted under the subscription lock, resent  *)
(* and revoked without it; MongoDB's TTL index removes expired documents    *)
(* some time after their expiry.  A request reads the clock when it arrives *)
(* (now) and may execute later: its transaction waits for the lock, or is   *)
(* run again by the driver, with the now it has read.                       *)
(****************************************************************************)
EXTENDS Subscription

CONSTANTS
  Emails,      \* the addresses that may be invited
  NoEmail,     \* the address of an invitation that does not exist yet
  MaxInvites,  \* bound: number of invitations ever sent
  TTL,         \* life time of an invitation (72 hours in the code)
  Cooldown,    \* least time between two mails of an invitation (60 seconds)
  MaxLag,      \* bound: how long a request may wait before it executes
  MaxClock     \* bound: the end of time

ASSUME NoEmailAssumption == NoEmail \notin Emails
ASSUME BoundsAssumption == {MaxInvites, TTL, Cooldown, MaxLag, MaxClock} \subseteq Nat

VARIABLES
  invites,  \* the employeeinvitations collection
  members,  \* invitations whose acceptance has created a user that still exists
  joined,   \* createdAt of these users: their place in the order of creation
  clock     \* the time of the servers

seats == <<invites, members, joined, clock>>

\* The ids of the invitations, in the order of their creation.
Invites == 1 .. MaxInvites

\* "closed": revoked or expired, the document still there or removed; nothing
\* tells these apart, and nothing reads a document that is not pending.
Statuses == {"none", "pending", "accepted", "closed"}
Invitation == [email : Emails \cup {NoEmail}, status : Statuses,
               expires : Nat, sent : Nat]
NoInvitation == [email |-> NoEmail, status |-> "none", expires |-> 0, sent |-> 0]

SeatsTypeOK ==
  /\ invites \in [Invites -> Invitation]
  /\ members \subseteq Invites
  /\ joined \in [Invites -> Nat]
  /\ clock \in Nat

SeatsInit ==
  /\ invites = [i \in Invites |-> NoInvitation]
  /\ members = {}
  /\ joined = [i \in Invites |-> 0]
  /\ clock = 0

Pending(i) == invites[i].status = "pending"
Live(i, now) == Pending(i) /\ invites[i].expires > now
LiveAt(now) == {i \in Invites : Live(i, now)}

\* Who is employed, by address; user.email is unique.
Employed(email) == \E m \in members : invites[m].email = email

\* The readings of the clock a request that executes now may have taken.
Arrivals == {t \in 0 .. clock : t + MaxLag >= clock}

\* assertEmployeeCapacity, under the lock.
Capacity(now, more) ==
  SeatsFit(plan, Cardinality(members) + Cardinality(LiveAt(now)) + more)

------------------------------------------------------------------------------
\* The unique index on the address of pending invitations; an expired one is
\* settled first, in the same transaction.
AddressIsFree(email, now) == \A j \in LiveAt(now) : invites[j].email # email

Settled(email, now) ==
  [j \in Invites |-> IF Pending(j) /\ invites[j].email = email /\ ~ Live(j, now)
                     THEN [invites[j] EXCEPT !.status = "closed"] ELSE invites[j]]

\* Wrong: an employee may be invited.
AnyAddress(email) == TRUE

NotEmployed(email) == ~ Employed(email)

Invite(i, email, now) ==
  /\ invites[i].status = "none"
  /\ \A j \in Invites : j < i => invites[j].status # "none"
  /\ LockIsFree
  /\ Capacity(now, 1)
  /\ NotEmployed(email)
  /\ AddressIsFree(email, now)
  /\ invites' = [Settled(email, now) EXCEPT ![i] =
       [email |-> email, status |-> "pending", expires |-> now + TTL, sent |-> now]]
  /\ UNCHANGED <<plan, holders, members, joined, clock>>

Revoke(i) ==
  /\ Pending(i)
  /\ invites' = [invites EXCEPT ![i].status = "closed"]
  /\ UNCHANGED <<plan, holders, members, joined, clock>>

\* A new token and a new life time, without the lock and without a look at the
\* capacity.
Resend(i, now) ==
  /\ Live(i, now)
  /\ invites[i].sent + Cooldown <= now
  /\ invites' = [invites EXCEPT ![i].expires = now + TTL, ![i].sent = now]
  /\ UNCHANGED <<plan, holders, members, joined, clock>>

\* Wrong: the reserved seat is taken for granted.
SeatIsReserved(now) == TRUE

\* The reservation is counted as a seat already: no more are asked for.
SeatIsLeft(now) == Capacity(now, 0)

Accept(i, now) ==
  /\ Live(i, now)
  /\ LockIsFree
  /\ SeatIsLeft(now)
  /\ NotEmployed(invites[i].email)
  /\ invites' = [invites EXCEPT ![i].status = "accepted"]
  /\ members' = members \cup {i}
  /\ joined' = [joined EXCEPT ![i] = 1 + Cardinality({m \in Invites : joined[m] > 0})]
  /\ UNCHANGED <<plan, holders, clock>>

\* Without the lock while payments are disabled.
DeleteUser(i) ==
  /\ i \in members
  /\ members' = members \ {i}
  /\ UNCHANGED <<plan, holders, invites, joined, clock>>

\* MongoDB's TTL monitor removes a document some time after its expiry.
Purge(i) ==
  /\ Pending(i)
  /\ invites[i].expires <= clock
  /\ invites' = [invites EXCEPT ![i].status = "closed"]
  /\ UNCHANGED <<plan, holders, members, joined, clock>>

Advance ==
  /\ clock < MaxClock
  /\ clock' = clock + 1
  /\ UNCHANGED <<plan, holders, invites, members, joined>>

SeatsNext ==
  \/ \E i \in Invites :
       \/ Revoke(i) \/ DeleteUser(i) \/ Purge(i)
       \/ \E now \in Arrivals : \/ \E e \in Emails : Invite(i, e, now)
                                \/ Resend(i, now) \/ Accept(i, now)
  \/ Advance
==============================================================================
