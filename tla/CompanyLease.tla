---------------------------- MODULE CompanyLease ----------------------------
(****************************************************************************)
(* The billing calls of one company and the lease that takes them in turn.  *)
(* Whoever talks to Stripe for the company claims stripeLeaseToken in its   *)
(* subscription document first and works on the copy it got with it.  The   *)
(* lease runs out by itself, so a slow or stopped holder may lose it        *)
(* without noticing: each later write of the document names the token and   *)
(* matches nothing once another call has claimed it.  Requests to Stripe    *)
(* carry no token.                                                          *)
(****************************************************************************)
CONSTANT Procs   \* calls that may run at once: requests, webhooks, the worker

VARIABLES
  doc,     \* the subscription document, without the lease
  lease,   \* the call whose token is stored, or None
  expired, \* stripeLeaseUntil has passed, or there is none
  calls    \* per call: its stage, its copy of the document, what it has read

leaseVars == <<lease, expired>>

None == "none"
Idle == [at |-> "idle"]
ASSUME NoneAssumption == None \notin Procs

LeaseInit == lease = None /\ expired = TRUE /\ calls = [p \in Procs |-> Idle]
LeaseTypeOK == lease \in Procs \cup {None} /\ expired \in BOOLEAN

At(p, stage) == calls[p].at = stage
Copy(p) == calls[p].copy

\* A write of the document that names the token of p matches it.
Fenced(p) == lease = p

\* withLease claims an expired lease over its holder.
Begin(p, call) ==
  /\ expired /\ lease' = p /\ expired' = FALSE
  /\ calls' = [calls EXCEPT ![p] = call]
  /\ UNCHANGED doc

Goto(p, stage) == calls' = [calls EXCEPT ![p].at = stage] /\ UNCHANGED <<leaseVars, doc>>

\* A call that holds nothing yet ends.
Drop(p) == calls' = [calls EXCEPT ![p] = Idle] /\ UNCHANGED <<leaseVars, doc>>

\* The finally block of withLease: only the own token is taken out.
Finish(p) ==
  /\ lease' = IF Fenced(p) THEN None ELSE lease
  /\ expired' = (expired \/ Fenced(p))
  /\ calls' = [calls EXCEPT ![p] = Idle]

\* An exception in the work, or its end without a write.
Quit(p) == Finish(p) /\ UNCHANGED doc

\* update: fenced by the token, and mirrored in the copy of the call.  A write is
\* one statement, so document and copy change together; those that are part of a
\* transaction may be undone and made again with a copy that has changed already,
\* and a module where that makes a difference has actions for it.
Write(p, new, mine, stage) ==
  IF Fenced(p)
  THEN /\ doc' = new
       /\ calls' = [calls EXCEPT ![p].copy = mine, ![p].at = stage]
       /\ UNCHANGED leaseVars
  ELSE Quit(p)

\* Where it makes none, the copy of a call whose token matches is the document.
Update(p, new, stage) == Write(p, new, new, stage)

\* Wrong: repeated however old it is.
AttemptAgain(p, made, old, new, stage) ==
  IF ~made THEN Update(p, new, stage) ELSE Goto(p, stage)

\* attempt: the first one is written down; one older than the window in which
\* Stripe is sure to know its key is not repeated but reported.
Attempt(p, made, old, new, stage) ==
  IF ~made THEN Update(p, new, stage)
  ELSE IF old THEN /\ doc' = IF Fenced(p) THEN [doc EXCEPT !.issue = "reconciliation"] ELSE doc
                   /\ Finish(p)
       ELSE Goto(p, stage)

\* renewLease: as late as it may be, the token decides.
Renew(p, stage) ==
  IF Fenced(p) THEN /\ expired' = FALSE
                    /\ calls' = [calls EXCEPT ![p].at = stage]
                    /\ UNCHANGED <<lease, doc>>
  ELSE Quit(p)

\* STRIPE_LEASE_MS pass.
Expire == ~expired /\ expired' = TRUE /\ UNCHANGED <<lease, doc, calls>>
=============================================================================
