----------------------------- MODULE GuardLedger -----------------------------
(****************************************************************************)
(* What the Sensitive Data Guard promises about a job, without workers,     *)
(* leases, retries or storage: a tenant has one open job at a time, an open *)
(* job gets one outcome and keeps it, a copy appears in the same instant as *)
(* the success of its job, once, and is gone for good when removed.         *)
(****************************************************************************)
CONSTANTS Job, Tenants
VARIABLES tenant, outcome, copy

ledger == <<tenant, outcome, copy>>

Outcomes == {"completed", "failed", "cancelled"}

LedgerInit ==
  /\ tenant \in [Job -> Tenants]
  /\ outcome = [j \in Job |-> "none"]
  /\ copy = [j \in Job |-> "none"]

Open(j) ==
  /\ outcome[j] = "none"
  /\ \A i \in Job : tenant[i] = tenant[j] => outcome[i] # "open"
  /\ outcome' = [outcome EXCEPT ![j] = "open"]
  /\ UNCHANGED <<tenant, copy>>

Close(j, o) ==
  /\ outcome[j] = "open"
  /\ outcome' = [outcome EXCEPT ![j] = o]
  /\ \/ o = "completed" /\ copy[j] = "none" /\ copy' = [copy EXCEPT ![j] = "stored"]
     \/ UNCHANGED copy
  /\ UNCHANGED tenant

Remove(j) ==
  /\ copy[j] = "stored"
  /\ copy' = [copy EXCEPT ![j] = "removed"]
  /\ UNCHANGED <<tenant, outcome>>

LedgerNext == \E j \in Job : Open(j) \/ (\E o \in Outcomes : Close(j, o)) \/ Remove(j)

LedgerSpec == LedgerInit /\ [][LedgerNext]_ledger

LiveLedgerSpec ==
  LedgerSpec /\ \A j \in Job : WF_ledger(\E o \in Outcomes : Close(j, o))
==============================================================================
