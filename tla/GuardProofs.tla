---------------------------- MODULE GuardProofs ----------------------------
(****************************************************************************)
(* The Sensitive Data Guard: its jobs, for every number of jobs, tenants    *)
(* and workers, and what is promised of a redacted copy, for every          *)
(* workbook, every choice of categories and columns, and every limit.       *)
(****************************************************************************)
EXTENDS GuardJobs, GuardWorkbook, FiniteSetTheorems, TLAPS

------------------------------------------------------------------------------
(* Rows and local states.                                                    *)

\* Every write of the code leaves a well-formed job row.
LEMMA RowOps ==
  ASSUME NEW row \in JobRow
  PROVE  /\ \A kind \in Kinds : Admitted(row, kind) \in JobRow
         /\ Leased(row) \in JobRow
         /\ Requeued(row) \in JobRow
         /\ \A o \in Terminal : Closed(row, o) \in JobRow
         /\ Published(row) \in JobRow
         /\ \A d \in Digests : Marked(row, d) \in JobRow
         /\ Tombstoned(row) \in JobRow
         /\ Expired(row) \in JobRow
<1> USE DEF JobRow, Kinds, Terminal, NoToken
<1>1. ASSUME NEW kind \in Kinds PROVE Admitted(row, kind) \in JobRow
  BY DEF Admitted
<1>2. Leased(row) \in JobRow
  <2>1. row.attempts + 1 \in Nat
    OBVIOUS
  <2>2. \A n \in Nat : [row EXCEPT !.status = "processing", !.lease = "live",
                                   !.leaseToken = n, !.attempts = n] \in JobRow
    OBVIOUS
  <2> QED BY <2>1, <2>2 DEF Leased
<1>3. Requeued(row) \in JobRow
  BY DEF Requeued
<1>4. ASSUME NEW o \in Terminal PROVE Closed(row, o) \in JobRow
  BY DEF Closed
<1>5. Published(row) \in JobRow
  BY DEF Published, Closed
<1>6. ASSUME NEW d \in Digests PROVE Marked(row, d) \in JobRow
  BY DEF Marked
<1>7. Tombstoned(row) \in JobRow
  BY DEF Tombstoned
<1>8. Expired(row) \in JobRow
  BY DEF Expired
<1> QED BY <1>1, <1>2, <1>3, <1>4, <1>5, <1>6, <1>7, <1>8

LEMMA LocalOps ==
  ASSUME NEW l \in Local
  PROVE  /\ \A s \in Stages : At(l, s) \in Local
         /\ \A S \in SUBSET Expiry : Recovering(l, S) \in Local
         /\ \A j \in Job : Sweeping(l, j) \in Local
         /\ \A d \in Digests : Computed(l, d) \in Local
  BY DEF Local, At, Recovering, Sweeping, Computed, Stages

LEMMA FreshLocals ==
  /\ Resting \in Local
  /\ \A j \in Job, row \in JobRow : Holding(j, row) \in Local
  BY DEF Local, Resting, Holding, JobRow, NoToken, Stages

LEMMA LoggedType ==
  ASSUME TypeOK, NEW j \in Job, NEW a \in Actions
  PROVE  Logged(j, a) \in [Job -> [Actions -> Nat]]
  BY DEF TypeOK, Logged

LEMMA InitTypeOK == Init => TypeOK
<1> SUFFICES ASSUME Init PROVE TypeOK
  OBVIOUS
<1>1. \A t \in Tenants : Unused(t) \in JobRow
  BY DEF Unused, JobRow, Kinds, NoToken
<1> QED BY <1>1, FreshLocals DEF Init, TypeOK

LEMMA LocalFields ==
  ASSUME TypeOK, NEW w \in Workers
  PROVE  /\ worker[w] \in Local
         /\ worker[w].stage \in Stages
         /\ worker[w].token \in Nat
         /\ worker[w].prior \in Digests \cup {NoDigest}
         /\ worker[w].output \in Digests \cup {NoDigest}
         /\ worker[w].expired \in SUBSET Expiry
  BY DEF TypeOK, Local

LEMMA RowFields ==
  ASSUME TypeOK, NEW j \in Job
  PROVE  /\ jobs[j] \in JobRow
         /\ jobs[j].kind \in Kinds
         /\ jobs[j].tenant \in Tenants
         /\ jobs[j].attempts \in Nat
         /\ jobs[j].leaseToken \in Nat
         /\ jobs[j].outputDigest \in Digests \cup {NoDigest}
  BY DEF TypeOK, JobRow

LEMMA StepTypeOK ==
  TypeOK /\ WorkersAreSound /\ [Next]_vars => TypeOK'
<1> SUFFICES ASSUME TypeOK, WorkersAreSound, [Next]_vars PROVE TypeOK'
  OBVIOUS
<1> USE RowOps, LocalOps, FreshLocals, LoggedType DEF TypeOK, store
<1>a. \A w \in Workers : \A s \in Stages : GoTo(w, s) => worker' \in [Workers -> Local]
  BY DEF GoTo
<1>b. \A w \in Workers : Rest(w) => worker' \in [Workers -> Local]
  BY DEF Rest
<1>c. "queued" \in Actions /\ Terminal \subseteq Actions
  BY DEF Actions
<1>d. {"completed", "failed", "cancelled"} = Terminal
  BY DEF Terminal
<1>1. ASSUME NEW j \in Job, Request(j) PROVE TypeOK'
  <2>1. ASSUME NEW kind \in Kinds, Admit(j, kind) PROVE TypeOK'
    BY <2>1, <1>c DEF Admit
  <2>2. CASE Cancel(j)
    BY <2>2, <1>c, <1>d DEF Cancel
  <2>3. CASE DeleteTombstone(j)
    BY <2>3 DEF DeleteTombstone
  <2>4. CASE DeleteObject(j)
    BY <2>4 DEF DeleteObject
  <2>5. CASE DeleteRow(j)
    BY <2>5 DEF DeleteRow
  <2> QED
    BY <1>1, <2>1, <2>2, <2>3, <2>4, <2>5 DEF Request, SubmitScan, SubmitSanitize, Kinds
<1>2. ASSUME NEW w \in Workers, Serve(w) PROVE TypeOK'
  <2>1. CASE Tick(w)
    <3>1. \A j \in Job : SeenAs(j) \in Expiry
      BY RowFields DEF SeenAs, Expiry
    <3> QED BY <2>1, <3>1 DEF Tick
  <2>2. CASE Recover(w)
    <3>1. PICK seen \in worker[w].expired :
            /\ worker' = [worker EXCEPT ![w] = Recovering(@, @.expired \ {seen})]
            /\ \/ /\ jobs' = [jobs EXCEPT ![seen.job] =
                              IF Exhausted(seen) THEN Closed(@, "failed") ELSE Requeued(@)]
                  /\ events' = Logged(seen.job, IF Exhausted(seen) THEN "failed" ELSE "queued")
               \/ UNCHANGED <<jobs, events>>
      BY <2>2 DEF Recover
    <3>2. seen.job \in Job /\ worker[w].expired \ {seen} \in SUBSET Expiry
      BY LocalFields DEF Expiry
    <3>3. worker' \in [Workers -> Local]
      BY <3>1, <3>2
    <3>4. jobs' \in [Job -> JobRow]
      <4>1. jobs[seen.job] \in JobRow
        BY <3>2
      <4>2. /\ Closed(jobs[seen.job], "failed") \in JobRow
            /\ Requeued(jobs[seen.job]) \in JobRow
        BY <4>1, <1>d
      <4> QED BY <3>1, <4>2
    <3>5. events' \in [Job -> [Actions -> Nat]]
      BY <3>1, <3>2, <1>c, <1>d
    <3> QED BY <2>2, <3>3, <3>4, <3>5 DEF Recover
  <2>3. CASE RecoverDone(w) \/ SweepNothing(w) \/ SweepConfirm(w) \/ Fetch(w)
             \/ MarkRefused(w) \/ PutAcknowledged(w) \/ CommitConflict(w) \/ JobFails(w)
    BY <2>3, <1>a DEF RecoverDone, SweepNothing, SweepConfirm, Fetch, MarkRefused,
                PutAcknowledged, CommitConflict, JobFails, Stages
  <2>4. ASSUME NEW j \in Job, Sweep(w, j) PROVE TypeOK'
    BY <2>4 DEF Sweep
  <2>5. CASE Erase(w) \/ EraseTimesOut(w)
    <3>1. worker[w].job \in Job
      BY <2>5 DEF Erase, EraseTimesOut, WorkersAreSound, Sound, HoldsJob, Erasing
    <3>2. worker' \in [Workers -> Local]
      BY <2>5, <1>a DEF Erase, EraseTimesOut, Stages
    <3> QED BY <2>5, <3>1, <3>2 DEF Erase, EraseTimesOut
  <2>6. CASE Claim(w)
    BY <2>6 DEF Claim
  <2>7. CASE ClaimNothing(w)
    BY <2>7, <1>b DEF ClaimNothing
  <2>8. CASE Compute(w)
    <3>1. worker' \in [Workers -> Local]
      <4>1. CASE GoTo(w, "publish")
        BY <4>1, <1>a DEF Stages
      <4>2. ASSUME NEW d \in Digests, worker' = [worker EXCEPT ![w] = Computed(@, d)]
            PROVE  worker' \in [Workers -> Local]
        BY <4>2
      <4> QED BY <2>8, <4>1, <4>2 DEF Compute
    <3> QED BY <2>8, <3>1 DEF Compute
  <2>9. CASE Mark(w)
    <3>1. worker[w].job \in Job /\ worker[w].output \in Digests
      BY <2>9 DEF Mark, WorkersAreSound, Sound, HoldsJob, KnowsKind, Running
    <3>2. jobs' \in [Job -> JobRow]
      BY <2>9, <3>1 DEF Mark
    <3>3. puts' \subseteq Put
      BY <2>9, <3>1, LocalFields DEF Mark, Put
    <3>4. worker' \in [Workers -> Local]
      BY <2>9, <1>a DEF Mark, Stages
    <3> QED BY <2>9, <3>2, <3>3, <3>4 DEF Mark
  <2>10. CASE Publish(w)
    BY <2>10, <1>a, <1>b DEF Publish, Stages
  <2>11. CASE Commit(w)
    <3>1. worker[w].job \in Job
      BY <2>11 DEF Commit, WorkersAreSound, Sound, HoldsJob, Running
    <3>2. worker' \in [Workers -> Local]
      BY <2>11, <1>a, <1>b DEF Commit, Stages
    <3>3. events' \in [Job -> [Actions -> Nat]]
      BY <2>11, <3>1, <1>c, <1>d DEF Commit
    <3> QED BY <2>11, <3>1, <3>2, <3>3 DEF Commit
  <2>12. CASE TerminalStep(w)
    <3>1. worker[w].job \in Job
      BY <2>12 DEF TerminalStep, WorkersAreSound, Sound, HoldsJob, Running
    <3>2. events' \in [Job -> [Actions -> Nat]]
      BY <2>12, <3>1, <1>c, <1>d DEF TerminalStep
    <3>3. jobs' \in [Job -> JobRow]
      <4>1. Closed(jobs[worker[w].job], "failed") \in JobRow
        BY <3>1, <1>d
      <4> QED BY <2>12, <4>1 DEF TerminalStep
    <3> QED BY <2>12, <3>2, <3>3, <1>b DEF TerminalStep
  <2> QED BY <1>2, <2>1, <2>2, <2>3, <2>4, <2>5, <2>6, <2>7, <2>8, <2>9, <2>10, <2>11,
             <2>12 DEF Serve
<1>3. ASSUME NEW w \in Workers, Crash(w) PROVE TypeOK'
  BY <1>3, <1>b DEF Crash
<1>4. CASE Surroundings
  <2>1. CASE \E j \in Job : LeaseExpires(j)
    BY <2>1 DEF LeaseExpires
  <2>2. CASE \E p \in puts : PutLands(p) \/ PutIsLost(p)
    BY <2>2 DEF PutLands, PutIsLost, Put
  <2>3. CASE \E j \in erasing : EraseLands(j) \/ EraseIsLost(j)
    BY <2>3 DEF EraseLands, EraseIsLost
  <2>4. CASE \E t \in Tenants : AccessChanges(t)
    BY <2>4 DEF AccessChanges
  <2> QED BY <1>4, <2>1, <2>2, <2>3, <2>4 DEF Surroundings
<1>5. CASE UNCHANGED vars
  BY <1>5 DEF vars
<1> QED BY <1>1, <1>2, <1>3, <1>4, <1>5 DEF Next

------------------------------------------------------------------------------
(* What a write may do to a row, and what holds of every row.                *)

\* A row's history only moves forward: a closed job stays closed, a claim
\* number is never reused, a tombstone is only taken back by publishing.
Evolves(old, new) ==
  /\ new.tenant = old.tenant
  /\ new.attempts >= old.attempts
  /\ old.status # "absent" => new.status # "absent" /\ new.kind = old.kind
  /\ old.status \in Terminal => new.status = old.status
  /\ new.status = "processing" =>
       \/ old.status = "processing" /\ new.leaseToken = old.leaseToken
       \/ new.leaseToken > old.attempts
  /\ old.cleanupPending => new.cleanupPending \/ new.status = "completed"

RowsEvolve == \A j \in Job : Evolves(jobs[j], jobs'[j])

WellKept(row) ==
  /\ row.active <=> row.status \in {"queued", "processing"}
  /\ row.status = "processing" <=> row.lease # "none"
  /\ row.status = "processing" => row.leaseToken = row.attempts
  /\ row.status = "absent" => ~ row.cleanupPending

LEMMA RowsAreKept ==
  ASSUME SafetyInv, NEW j \in Job
  PROVE  WellKept(jobs[j])
  BY DEF SafetyInv, ActiveMatchesStatus, OneOpenJobPerTenant, NothingBeforeAdmission, WellKept

\* The fields of a row after each write of the code.
LEMMA RowEffects ==
  ASSUME NEW row \in JobRow
  PROVE
    /\ \A kind \in Kinds : LET r == Admitted(row, kind) IN
         /\ r.kind = kind /\ r.tenant = row.tenant /\ r.status = "queued" /\ r.active
         /\ r.attempts = row.attempts /\ r.leaseToken = row.leaseToken /\ r.lease = row.lease
         /\ r.outputDigest = row.outputDigest /\ (r.cleanupPending <=> row.cleanupPending)
    /\ LET r == Leased(row) IN
         /\ r.kind = row.kind /\ r.tenant = row.tenant /\ r.status = "processing"
         /\ r.active <=> row.active
         /\ r.attempts = row.attempts + 1 /\ r.leaseToken = row.attempts + 1 /\ r.lease = "live"
         /\ r.outputDigest = row.outputDigest /\ (r.cleanupPending <=> row.cleanupPending)
    /\ LET r == Requeued(row) IN
         /\ r.kind = row.kind /\ r.tenant = row.tenant /\ r.status = "queued"
         /\ r.active <=> row.active
         /\ r.attempts = row.attempts /\ r.leaseToken = NoToken /\ r.lease = "none"
         /\ r.outputDigest = row.outputDigest /\ (r.cleanupPending <=> row.cleanupPending)
    /\ \A o \in Terminal : LET r == Closed(row, o) IN
         /\ r.kind = row.kind /\ r.tenant = row.tenant /\ r.status = o /\ ~ r.active
         /\ r.attempts = row.attempts /\ r.leaseToken = NoToken /\ r.lease = "none"
         /\ r.outputDigest = row.outputDigest /\ (r.cleanupPending <=> row.cleanupPending)
    /\ LET r == Published(row) IN
         /\ r.kind = row.kind /\ r.tenant = row.tenant /\ r.status = "completed" /\ ~ r.active
         /\ r.attempts = row.attempts /\ r.leaseToken = NoToken /\ r.lease = "none"
         /\ r.outputDigest = row.outputDigest /\ ~ r.cleanupPending
    /\ \A d \in Digests : LET r == Marked(row, d) IN
         /\ r.kind = row.kind /\ r.tenant = row.tenant /\ r.status = row.status
         /\ r.active <=> row.active
         /\ r.attempts = row.attempts /\ r.leaseToken = row.leaseToken /\ r.lease = row.lease
         /\ r.outputDigest = d /\ r.cleanupPending
    /\ LET r == Tombstoned(row) IN
         /\ r.kind = row.kind /\ r.tenant = row.tenant /\ r.status = row.status
         /\ r.active <=> row.active
         /\ r.attempts = row.attempts /\ r.leaseToken = row.leaseToken /\ r.lease = row.lease
         /\ r.outputDigest = row.outputDigest /\ r.cleanupPending
    /\ LET r == Expired(row) IN
         /\ r.kind = row.kind /\ r.tenant = row.tenant /\ r.status = row.status
         /\ r.active <=> row.active
         /\ r.attempts = row.attempts /\ r.leaseToken = row.leaseToken /\ r.lease = "expired"
         /\ r.outputDigest = row.outputDigest /\ (r.cleanupPending <=> row.cleanupPending)
<1> USE DEF JobRow
<1>1. ASSUME NEW kind \in Kinds PROVE
         LET r == Admitted(row, kind) IN
         /\ r.kind = kind /\ r.tenant = row.tenant /\ r.status = "queued" /\ r.active
         /\ r.attempts = row.attempts /\ r.leaseToken = row.leaseToken /\ r.lease = row.lease
         /\ r.outputDigest = row.outputDigest /\ (r.cleanupPending <=> row.cleanupPending)
  BY DEF Admitted
<1>2. LET r == Leased(row) IN
         /\ r.kind = row.kind /\ r.tenant = row.tenant /\ r.status = "processing"
         /\ r.active <=> row.active
         /\ r.attempts = row.attempts + 1 /\ r.leaseToken = row.attempts + 1 /\ r.lease = "live"
         /\ r.outputDigest = row.outputDigest /\ (r.cleanupPending <=> row.cleanupPending)
  BY DEF Leased
<1>3. LET r == Requeued(row) IN
         /\ r.kind = row.kind /\ r.tenant = row.tenant /\ r.status = "queued"
         /\ r.active <=> row.active
         /\ r.attempts = row.attempts /\ r.leaseToken = NoToken /\ r.lease = "none"
         /\ r.outputDigest = row.outputDigest /\ (r.cleanupPending <=> row.cleanupPending)
  BY DEF Requeued
<1>4. ASSUME NEW o \in Terminal PROVE
         LET r == Closed(row, o) IN
         /\ r.kind = row.kind /\ r.tenant = row.tenant /\ r.status = o /\ ~ r.active
         /\ r.attempts = row.attempts /\ r.leaseToken = NoToken /\ r.lease = "none"
         /\ r.outputDigest = row.outputDigest /\ (r.cleanupPending <=> row.cleanupPending)
  BY DEF Closed
<1>5. LET r == Published(row) IN
         /\ r.kind = row.kind /\ r.tenant = row.tenant /\ r.status = "completed" /\ ~ r.active
         /\ r.attempts = row.attempts /\ r.leaseToken = NoToken /\ r.lease = "none"
         /\ r.outputDigest = row.outputDigest /\ ~ r.cleanupPending
  BY DEF Published, Closed
<1>6. ASSUME NEW d \in Digests PROVE
         LET r == Marked(row, d) IN
         /\ r.kind = row.kind /\ r.tenant = row.tenant /\ r.status = row.status
         /\ r.active <=> row.active
         /\ r.attempts = row.attempts /\ r.leaseToken = row.leaseToken /\ r.lease = row.lease
         /\ r.outputDigest = d /\ r.cleanupPending
  BY DEF Marked
<1>7. LET r == Tombstoned(row) IN
         /\ r.kind = row.kind /\ r.tenant = row.tenant /\ r.status = row.status
         /\ r.active <=> row.active
         /\ r.attempts = row.attempts /\ r.leaseToken = row.leaseToken /\ r.lease = row.lease
         /\ r.outputDigest = row.outputDigest /\ r.cleanupPending
  BY DEF Tombstoned
<1>8. LET r == Expired(row) IN
         /\ r.kind = row.kind /\ r.tenant = row.tenant /\ r.status = row.status
         /\ r.active <=> row.active
         /\ r.attempts = row.attempts /\ r.leaseToken = row.leaseToken /\ r.lease = "expired"
         /\ r.outputDigest = row.outputDigest /\ (r.cleanupPending <=> row.cleanupPending)
  BY DEF Expired
<1> QED BY <1>1, <1>2, <1>3, <1>4, <1>5, <1>6, <1>7, <1>8

\* Each write moves the row forward and keeps it, in the status it is made in.
LEMMA WritesEvolve ==
  ASSUME NEW row \in JobRow, WellKept(row)
  PROVE
    /\ Evolves(row, row)
    /\ row.status = "absent" => \A kind \in Kinds :
         Evolves(row, Admitted(row, kind)) /\ WellKept(Admitted(row, kind))
    /\ row.status = "queued" => Evolves(row, Leased(row)) /\ WellKept(Leased(row))
    /\ row.status = "processing" => Evolves(row, Requeued(row)) /\ WellKept(Requeued(row))
    /\ row.status \in {"queued", "processing"} => \A o \in Terminal :
         Evolves(row, Closed(row, o)) /\ WellKept(Closed(row, o))
    /\ row.status = "processing" => Evolves(row, Published(row)) /\ WellKept(Published(row))
    /\ row.status = "processing" => \A d \in Digests :
         Evolves(row, Marked(row, d)) /\ WellKept(Marked(row, d))
    /\ row.status = "completed" => Evolves(row, Tombstoned(row)) /\ WellKept(Tombstoned(row))
    /\ row.lease = "live" => Evolves(row, Expired(row)) /\ WellKept(Expired(row))
<1>1. row.attempts \in Nat /\ row.status \in {"absent", "queued", "processing"} \cup Terminal
  BY DEF JobRow
<1>2. Evolves(row, row)
  BY <1>1 DEF Evolves
<1> USE <1>1, RowEffects DEF Evolves, WellKept, Terminal
<1>3. ASSUME NEW kind \in Kinds, row.status = "absent"
      PROVE  Evolves(row, Admitted(row, kind)) /\ WellKept(Admitted(row, kind))
  BY <1>3
<1>4. ASSUME row.status = "queued" PROVE Evolves(row, Leased(row)) /\ WellKept(Leased(row))
  BY <1>4
<1>5. ASSUME row.status = "processing" PROVE Evolves(row, Requeued(row)) /\ WellKept(Requeued(row))
  BY <1>5
<1>6. ASSUME NEW o \in Terminal, row.status \in {"queued", "processing"}
      PROVE  Evolves(row, Closed(row, o)) /\ WellKept(Closed(row, o))
  BY <1>6
<1>7. ASSUME row.status = "processing"
      PROVE  Evolves(row, Published(row)) /\ WellKept(Published(row))
  BY <1>7
<1>8. ASSUME NEW d \in Digests, row.status = "processing"
      PROVE  Evolves(row, Marked(row, d)) /\ WellKept(Marked(row, d))
  BY <1>8
<1>9. ASSUME row.status = "completed"
      PROVE  Evolves(row, Tombstoned(row)) /\ WellKept(Tombstoned(row))
  BY <1>9
<1>10. ASSUME row.lease = "live" PROVE Evolves(row, Expired(row)) /\ WellKept(Expired(row))
  BY <1>10
<1> QED BY <1>2, <1>3, <1>4, <1>5, <1>6, <1>7, <1>8, <1>9, <1>10

\* What a step that writes one row must show.
LEMMA OneRowWritten ==
  ASSUME SafetyInv, NEW j \in Job, NEW r \in JobRow,
         jobs' = [jobs EXCEPT ![j] = r], Evolves(jobs[j], r), WellKept(r),
         r.active => jobs[j].active \/ TenantIsFree(j)
  PROVE  /\ RowsEvolve
         /\ ActiveMatchesStatus' /\ OneOpenJobPerTenant' /\ NothingBeforeAdmission'
<1>1. /\ jobs'[j] = r
      /\ \A i \in Job : i # j => jobs'[i] = jobs[i]
  BY DEF SafetyInv, TypeOK
<1>2. \A i \in Job : WellKept(jobs'[i])
  BY <1>1, RowsAreKept
<1>3. RowsEvolve
  <2>1. ASSUME NEW i \in Job PROVE Evolves(jobs[i], jobs'[i])
    <3>1. CASE i = j
      BY <3>1, <1>1
    <3>2. CASE i # j
      BY <3>2, <1>1, WritesEvolve, RowsAreKept DEF SafetyInv, TypeOK
    <3> QED BY <3>1, <3>2
  <2> QED BY <2>1 DEF RowsEvolve
<1>4. ActiveMatchesStatus' /\ NothingBeforeAdmission'
  BY <1>2 DEF WellKept, ActiveMatchesStatus, NothingBeforeAdmission
<1>5. OneOpenJobPerTenant'
  <2>1. \A i \in Job : jobs'[i].tenant = jobs[i].tenant
    BY <1>3 DEF RowsEvolve, Evolves
  <2>2. ASSUME NEW h \in Job, NEW i \in Job, jobs'[h].tenant = jobs'[i].tenant,
               jobs'[h].active, jobs'[i].active
        PROVE  h = i
    BY <2>1, <2>2, <1>1 DEF SafetyInv, OneOpenJobPerTenant, TenantIsFree
  <2> QED BY <2>2, <1>2 DEF WellKept, OneOpenJobPerTenant
<1> QED BY <1>3, <1>4, <1>5

LEMMA NoRowWritten ==
  ASSUME SafetyInv, UNCHANGED jobs
  PROVE  /\ RowsEvolve
         /\ ActiveMatchesStatus' /\ OneOpenJobPerTenant' /\ NothingBeforeAdmission'
<1>1. RowsEvolve
  BY WritesEvolve, RowsAreKept DEF SafetyInv, TypeOK, RowsEvolve
<1> QED BY <1>1 DEF SafetyInv, ActiveMatchesStatus, OneOpenJobPerTenant,
                    NothingBeforeAdmission, TenantIsFree

\* A step that writes rows but neither a digest nor the storage keeps everything
\* the invariant says about storage.
StoreIsKept == OneDigestPerJob /\ DeletesAreSafe /\ CopiesAreResults
               /\ CopyIsIntact /\ ObjectIsTracked

DigestsStay == \A j \in Job : jobs'[j].outputDigest = jobs[j].outputDigest

LEMMA StorageUntouched ==
  ASSUME SafetyInv, RowsEvolve, DigestsStay, UNCHANGED store
  PROVE  StoreIsKept'
<1> USE DEF SafetyInv, store, DigestsStay
<1>1. \A j \in Job : jobs[j].status \in Terminal => jobs'[j].status = jobs[j].status
  BY DEF RowsEvolve, Evolves
<1>2. OneDigestPerJob'
  BY DEF OneDigestPerJob, TypeOK, Put
<1>3. DeletesAreSafe'
  BY <1>1 DEF DeletesAreSafe, TypeOK
<1>4. CopiesAreResults'
  BY <1>1 DEF CopiesAreResults, Terminal
<1>5. CopyIsIntact'
  BY DEF CopyIsIntact
<1>6. ObjectIsTracked'
  <2>1. ASSUME NEW j \in Job, objects[j] # NoDigest \/ (\E p \in puts : p.job = j)
        PROVE  /\ jobs'[j].kind = "sanitize"
               /\ jobs'[j].cleanupPending \/ jobs'[j].status = "completed"
    <3>1. /\ jobs[j].kind = "sanitize"
          /\ jobs[j].cleanupPending \/ jobs[j].status = "completed"
      BY <2>1 DEF ObjectIsTracked
    <3>2. jobs[j].status # "absent"
      BY <3>1 DEF NothingBeforeAdmission
    <3>3. Evolves(jobs[j], jobs'[j])
      BY DEF RowsEvolve
    <3> QED BY <3>1, <3>2, <3>3 DEF Evolves, Terminal
  <2> QED BY <2>1 DEF ObjectIsTracked
<1> QED BY <1>2, <1>3, <1>4, <1>5, <1>6 DEF StoreIsKept

\* What the storage does under a worker that does not move.
StoreEvolves ==
  /\ \A j \in Job : copies'[j] = "stored" => copies[j] = "stored" \/ jobs[j].status = "processing"
  /\ \A j \in Job : jobs'[j].status = "processing" =>
       objects'[j] = objects[j] \/ objects'[j] = jobs'[j].outputDigest
  /\ \A p \in puts : p \in puts' \/ objects'[p.job] = p.digest
                     \/ \A v \in Workers : ~ Awaits(v, p)

\* A recorded digest is never replaced, and is recorded only by the worker whose
\* claim is current.
DigestsAreBound(v) ==
  \A j \in Job : jobs'[j].outputDigest # jobs[j].outputDigest =>
    /\ jobs[j].outputDigest = NoDigest /\ jobs'[j].outputDigest \in Digests
    /\ jobs[j].status = "processing"
    /\ worker[v].stage \in Running /\ worker[v].job = j => ~ Current(worker[v])

LEMMA BystanderIsSound ==
  ASSUME SafetyInv, TypeOK', RowsEvolve, StoreEvolves,
         NEW v \in Workers, worker'[v] = worker[v], DigestsAreBound(v)
  PROVE  Sound(worker[v])'
<1> DEFINE l == worker[v]
<1>1. TypeOK /\ Sound(l)
  BY DEF SafetyInv, WorkersAreSound
<1>2. HoldsJob(l)'
  BY <1>1 DEF Sound, HoldsJob
<1>3. HoldsClaim(l)'
  <2>1. ASSUME l.stage \in Running
        PROVE  jobs'[l.job].status # "absent" /\ l.token \in 1 .. jobs'[l.job].attempts
    <3>1. l.job \in Job /\ l.token \in 1 .. jobs[l.job].attempts /\ jobs[l.job].status # "absent"
      BY <1>1, <2>1 DEF Sound, HoldsJob, HoldsClaim
    <3>2. Evolves(jobs[l.job], jobs'[l.job])
      BY <3>1 DEF RowsEvolve
    <3>3. jobs[l.job].attempts \in Nat /\ jobs'[l.job].attempts \in Nat
      BY <3>1, <1>1 DEF TypeOK, JobRow
    <3> QED BY <3>1, <3>2, <3>3 DEF Evolves
  <2> QED BY <2>1 DEF HoldsClaim
<1>4. ErasesSafely(l)'
  <2>1. ASSUME l.stage \in Erasing
        PROVE  /\ jobs'[l.job].status \in Terminal
               /\ l.stage = "erase" => copies'[l.job] # "stored"
    <3>1. l.job \in Job /\ jobs[l.job].status \in Terminal
          /\ (l.stage = "erase" => copies[l.job] # "stored")
      BY <1>1, <2>1 DEF Sound, HoldsJob, ErasesSafely
    <3>2. Evolves(jobs[l.job], jobs'[l.job])
      BY <3>1 DEF RowsEvolve
    <3> QED BY <3>1, <3>2 DEF Evolves, StoreEvolves, Terminal
  <2> QED BY <2>1 DEF ErasesSafely, Erasing
<1>5. KnowsKind(l)'
  <2>1. CASE l.stage \notin {"mark", "put", "publish", "commit"}
    BY <2>1 DEF KnowsKind
  <2>2. CASE l.stage \in {"mark", "put", "publish", "commit"}
    <3>1. l.job \in Job /\ jobs[l.job].status # "absent"
      BY <1>1, <2>2 DEF Sound, HoldsJob, HoldsClaim, Running
    <3>2. jobs'[l.job].kind = jobs[l.job].kind
      BY <3>1 DEF RowsEvolve, Evolves
    <3>3. jobs[l.job].outputDigest \in Digests => jobs'[l.job].outputDigest \in Digests
      BY <3>1 DEF DigestsAreBound
    <3> QED BY <1>1, <3>2, <3>3 DEF Sound, KnowsKind
  <2> QED BY <2>1, <2>2
<1>6. KnowsStore(l)'
  <2>1. ASSUME l.stage \in Running, Current(l)'
        PROVE  /\ l.stage \in {"fetch", "compute", "mark"} => l.prior = jobs'[l.job].outputDigest
               /\ l.stage = "put" =>
                    \/ objects'[l.job] = jobs'[l.job].outputDigest
                    \/ \E p \in puts' : p.job = l.job /\ p.token = l.token
               /\ l.stage \in {"publish", "commit"} /\ jobs'[l.job].kind = "sanitize" =>
                    objects'[l.job] = jobs'[l.job].outputDigest
    <3>1. /\ l.job \in Job /\ l.token \in 1 .. jobs[l.job].attempts
          /\ jobs[l.job].status # "absent" /\ jobs[l.job].attempts \in Nat
      BY <1>1, <2>1 DEF Sound, HoldsJob, HoldsClaim, TypeOK, JobRow
    <3>2. Evolves(jobs[l.job], jobs'[l.job])
      BY <3>1 DEF RowsEvolve
    <3>3. jobs'[l.job].status = "processing" /\ jobs'[l.job].leaseToken = l.token
      BY <2>1 DEF Current
    <3>4. Current(l)
      BY <3>1, <3>2, <3>3 DEF Evolves, Current
    <3>5. jobs'[l.job].outputDigest = jobs[l.job].outputDigest
      BY <2>1, <3>1, <3>4 DEF DigestsAreBound
    <3>6. jobs'[l.job].kind = jobs[l.job].kind
      BY <3>1, <3>2 DEF Evolves
    <3>7. objects'[l.job] = objects[l.job] \/ objects'[l.job] = jobs'[l.job].outputDigest
      BY <3>1, <3>3 DEF StoreEvolves
    <3>8. l.stage \in {"fetch", "compute", "mark"} => l.prior = jobs[l.job].outputDigest
      BY <1>1, <2>1, <3>4 DEF Sound, KnowsStore
    <3>9. ASSUME l.stage = "put"
          PROVE  \/ objects'[l.job] = jobs'[l.job].outputDigest
                 \/ \E p \in puts' : p.job = l.job /\ p.token = l.token
      <4>1. CASE objects[l.job] = jobs[l.job].outputDigest
        BY <4>1, <3>5, <3>7
      <4>2. ASSUME NEW p \in puts, p.job = l.job, p.token = l.token
            PROVE  p \in puts' \/ objects'[l.job] = jobs'[l.job].outputDigest
        <5>1. Awaits(v, p)
          BY <4>2, <3>9 DEF Awaits
        <5>2. p.digest = jobs[l.job].outputDigest
          BY <4>2 DEF SafetyInv, OneDigestPerJob
        <5> QED BY <4>2, <5>1, <5>2, <3>5 DEF StoreEvolves
      <4> QED BY <4>1, <4>2, <3>9, <1>1, <2>1, <3>4 DEF Sound, KnowsStore
    <3>10. l.stage \in {"publish", "commit"} /\ jobs[l.job].kind = "sanitize" =>
             objects[l.job] = jobs[l.job].outputDigest
      BY <1>1, <2>1, <3>4 DEF Sound, KnowsStore
    <3> QED BY <3>5, <3>6, <3>7, <3>8, <3>9, <3>10
  <2> QED BY <2>1 DEF KnowsStore, Current
<1> QED BY <1>2, <1>3, <1>4, <1>5, <1>6 DEF Sound

------------------------------------------------------------------------------
(* The workers of a step.                                                    *)

OthersStay(w) == \A v \in Workers : v # w => worker'[v] = worker[v]

\* A worker that moves takes no claim over from another.
KeepsClaim(w) ==
  worker'[w].stage \in Running => /\ worker[w].stage \in Running
                                  /\ worker'[w].job = worker[w].job
                                  /\ worker'[w].token = worker[w].token

LEMMA OneWorkerMoves ==
  ASSUME SafetyInv, TypeOK', RowsEvolve, StoreEvolves, NEW w \in Workers,
         OthersStay(w), Sound(worker[w])', KeepsClaim(w),
         \A v \in Workers : v # w => DigestsAreBound(v)
  PROVE  WorkersAreSound' /\ TokensAreClaims'
<1>1. WorkersAreSound'
  BY BystanderIsSound DEF WorkersAreSound, OthersStay
<1>2. TokensAreClaims'
  BY DEF SafetyInv, TokensAreClaims, OthersStay, KeepsClaim
<1> QED BY <1>1, <1>2

LEMMA NoWorkerMoves ==
  ASSUME SafetyInv, TypeOK', RowsEvolve, StoreEvolves, UNCHANGED worker,
         \A v \in Workers : DigestsAreBound(v)
  PROVE  WorkersAreSound' /\ TokensAreClaims'
<1>1. WorkersAreSound'
  BY BystanderIsSound DEF WorkersAreSound
<1>2. TokensAreClaims'
  BY DEF SafetyInv, TokensAreClaims
<1> QED BY <1>1, <1>2

\* The parts above, put together.
LEMMA Together ==
  ASSUME TypeOK', ActiveMatchesStatus', OneOpenJobPerTenant', NothingBeforeAdmission',
         WorkersAreSound', TokensAreClaims', StoreIsKept'
  PROVE  SafetyInv'
  BY DEF SafetyInv, StoreIsKept

\* A step that only moves one worker.
LEMMA LocalStepIsSafe ==
  ASSUME SafetyInv, TypeOK', UNCHANGED <<jobs, store>>, NEW w \in Workers,
         OthersStay(w), Sound(worker[w])', KeepsClaim(w)
  PROVE  SafetyInv'
<1>1. /\ RowsEvolve
      /\ ActiveMatchesStatus' /\ OneOpenJobPerTenant' /\ NothingBeforeAdmission'
  BY NoRowWritten
<1>2. DigestsStay /\ \A v \in Workers : DigestsAreBound(v)
  BY DEF DigestsStay, DigestsAreBound
<1>3. StoreIsKept'
  BY <1>1, <1>2, StorageUntouched
<1>4. StoreEvolves
  BY DEF StoreEvolves, store
<1>5. WorkersAreSound' /\ TokensAreClaims'
  BY <1>1, <1>2, <1>4, OneWorkerMoves
<1> QED BY <1>1, <1>3, <1>5, Together

\* The fields of a local state after each move.
LEMMA MoveEffects ==
  ASSUME TypeOK, NEW w \in Workers
  PROVE
    /\ \A s \in Stages : GoTo(w, s) =>
         /\ worker'[w].stage = s
         /\ worker'[w].job = worker[w].job /\ worker'[w].token = worker[w].token
         /\ worker'[w].prior = worker[w].prior /\ worker'[w].output = worker[w].output
         /\ OthersStay(w)
    /\ Rest(w) => worker'[w].stage = "idle" /\ OthersStay(w)
    /\ \A S \in SUBSET Expiry : worker' = [worker EXCEPT ![w] = Recovering(@, S)] =>
         worker'[w].stage = "recover" /\ OthersStay(w)
    /\ \A j \in Job : worker' = [worker EXCEPT ![w] = Sweeping(@, j)] =>
         worker'[w].stage = "confirm" /\ worker'[w].job = j /\ OthersStay(w)
    /\ \A d \in Digests : worker' = [worker EXCEPT ![w] = Computed(@, d)] =>
         /\ worker'[w].stage = "mark"
         /\ worker'[w].job = worker[w].job /\ worker'[w].token = worker[w].token
         /\ worker'[w].prior = worker[w].prior /\ worker'[w].output = d
         /\ OthersStay(w)
    /\ \A j \in Job, row \in JobRow : worker' = [worker EXCEPT ![w] = Holding(j, row)] =>
         /\ worker'[w].stage = "fetch" /\ worker'[w].job = j
         /\ worker'[w].token = row.leaseToken /\ worker'[w].prior = row.outputDigest
         /\ OthersStay(w)
<1> USE DEF TypeOK, Local, OthersStay
<1>1. ASSUME NEW s \in Stages, GoTo(w, s)
      PROVE  /\ worker'[w].stage = s
             /\ worker'[w].job = worker[w].job /\ worker'[w].token = worker[w].token
             /\ worker'[w].prior = worker[w].prior /\ worker'[w].output = worker[w].output
             /\ OthersStay(w)
  BY <1>1 DEF GoTo, At
<1>2. ASSUME Rest(w) PROVE worker'[w].stage = "idle" /\ OthersStay(w)
  BY <1>2 DEF Rest, Resting
<1>3. ASSUME NEW S \in SUBSET Expiry, worker' = [worker EXCEPT ![w] = Recovering(@, S)]
      PROVE  worker'[w].stage = "recover" /\ OthersStay(w)
  BY <1>3 DEF Recovering
<1>4. ASSUME NEW j \in Job, worker' = [worker EXCEPT ![w] = Sweeping(@, j)]
      PROVE  worker'[w].stage = "confirm" /\ worker'[w].job = j /\ OthersStay(w)
  BY <1>4 DEF Sweeping
<1>5. ASSUME NEW d \in Digests, worker' = [worker EXCEPT ![w] = Computed(@, d)]
      PROVE  /\ worker'[w].stage = "mark"
             /\ worker'[w].job = worker[w].job /\ worker'[w].token = worker[w].token
             /\ worker'[w].prior = worker[w].prior /\ worker'[w].output = d
             /\ OthersStay(w)
  BY <1>5 DEF Computed
<1>6. ASSUME NEW j \in Job, NEW row \in JobRow,
             worker' = [worker EXCEPT ![w] = Holding(j, row)]
      PROVE  /\ worker'[w].stage = "fetch" /\ worker'[w].job = j
             /\ worker'[w].token = row.leaseToken /\ worker'[w].prior = row.outputDigest
             /\ OthersStay(w)
  BY <1>6 DEF Holding
<1> QED BY <1>1, <1>2, <1>3, <1>4, <1>5, <1>6

\* A worker that is between jobs, or gives its job up, relies on nothing more.
LEMMA RetreatIsSound ==
  ASSUME SafetyInv, RowsEvolve, TypeOK', NEW w \in Workers,
         \/ worker'[w].stage \in {"idle", "recover", "sweep", "claim"}
         \/ worker'[w].stage = "fail" /\ worker[w].stage \in Running
            /\ worker'[w].job = worker[w].job /\ worker'[w].token = worker[w].token
  PROVE  Sound(worker[w])' /\ KeepsClaim(w)
<1>1. CASE worker'[w].stage \in {"idle", "recover", "sweep", "claim"}
  BY <1>1 DEF Sound, HoldsJob, HoldsClaim, ErasesSafely, KnowsKind, KnowsStore, KeepsClaim,
              Running, Erasing
<1>2. CASE worker'[w].stage = "fail" /\ worker[w].stage \in Running
           /\ worker'[w].job = worker[w].job /\ worker'[w].token = worker[w].token
  <2>1. /\ worker[w].job \in Job /\ jobs[worker[w].job].status # "absent"
        /\ worker[w].token \in 1 .. jobs[worker[w].job].attempts
    BY <1>2 DEF SafetyInv, WorkersAreSound, Sound, HoldsJob, HoldsClaim
  <2>2. Evolves(jobs[worker[w].job], jobs'[worker[w].job])
    BY <2>1 DEF RowsEvolve
  <2>3. /\ jobs[worker[w].job].attempts \in Nat
        /\ jobs'[worker[w].job].attempts \in Nat
    BY <2>1 DEF SafetyInv, TypeOK, JobRow
  <2>4. /\ jobs'[worker'[w].job].status # "absent"
        /\ worker'[w].token \in 1 .. jobs'[worker'[w].job].attempts
    BY <1>2, <2>1, <2>2, <2>3 DEF Evolves
  <2> QED BY <1>2, <2>1, <2>4 DEF Sound, HoldsJob, HoldsClaim, ErasesSafely, KnowsKind,
                                  KnowsStore, KeepsClaim, Running, Erasing
<1> QED BY <1>1, <1>2

------------------------------------------------------------------------------
(* One lemma per group of actions.                                           *)

\* Moves that write nothing and rely on nothing new.
LEMMA RetreatsAreSafe ==
  ASSUME SafetyInv, TypeOK', NEW w \in Workers,
         \/ Tick(w) \/ RecoverDone(w) \/ SweepNothing(w) \/ ClaimNothing(w)
         \/ MarkRefused(w) \/ JobFails(w) \/ Crash(w)
  PROVE  SafetyInv'
<1> USE DEF SafetyInv
<1>1. UNCHANGED <<jobs, store>>
  BY DEF Tick, RecoverDone, SweepNothing, ClaimNothing, MarkRefused, JobFails, Crash
<1>2. /\ OthersStay(w)
      /\ \/ worker'[w].stage \in {"idle", "recover", "sweep", "claim"}
         \/ worker'[w].stage = "fail" /\ worker[w].stage \in Running
            /\ worker'[w].job = worker[w].job /\ worker'[w].token = worker[w].token
  <2>1. CASE Tick(w)
    <3>1. \A S \in SUBSET Job : {SeenAs(j) : j \in S} \in SUBSET Expiry
      BY RowFields DEF SeenAs, Expiry
    <3>2. PICK S \in SUBSET Job :
            worker' = [worker EXCEPT ![w] = Recovering(@, {SeenAs(j) : j \in S})]
      BY <2>1 DEF Tick
    <3> QED BY <3>1, <3>2, MoveEffects
  <2>2. CASE RecoverDone(w) \/ SweepNothing(w) \/ MarkRefused(w) \/ JobFails(w)
    BY <2>2, MoveEffects DEF RecoverDone, SweepNothing, MarkRefused, JobFails, Stages, Running
  <2>3. CASE ClaimNothing(w) \/ Crash(w)
    BY <2>3, MoveEffects DEF ClaimNothing, Crash
  <2> QED BY <2>1, <2>2, <2>3
<1>3. RowsEvolve
  BY <1>1, NoRowWritten
<1>4. Sound(worker[w])' /\ KeepsClaim(w)
  BY <1>2, <1>3, RetreatIsSound
<1> QED BY <1>1, <1>2, <1>4, LocalStepIsSafe

\* The sweep picks a closed job, and goes on only while it sees no copy.
LEMMA SweepIsSafe ==
  ASSUME SafetyInv, TypeOK', NEW w \in Workers,
         (\E j \in Job : Sweep(w, j)) \/ SweepConfirm(w)
  PROVE  SafetyInv'
<1> USE DEF SafetyInv
<1>1. UNCHANGED <<jobs, store>>
  BY DEF Sweep, SweepConfirm
<1>2. ASSUME NEW j \in Job, Sweep(w, j)
      PROVE  OthersStay(w) /\ Sound(worker[w])' /\ KeepsClaim(w)
  <2>1. worker'[w].stage = "confirm" /\ worker'[w].job = j /\ OthersStay(w)
    BY <1>2, MoveEffects DEF Sweep
  <2>2. jobs[j].status \in Terminal
    <3>1. jobs[j].status \in {"absent", "queued", "processing"} \cup Terminal
      BY DEF TypeOK, JobRow
    <3>2. jobs[j].status \notin {"queued", "processing"}
      BY <1>2 DEF Sweep, Sweepable, ActiveMatchesStatus
    <3>3. jobs[j].status # "absent"
      BY <1>2 DEF Sweep, Sweepable, NothingBeforeAdmission
    <3> QED BY <3>1, <3>2, <3>3
  <2> QED BY <1>1, <2>1, <2>2 DEF Sound, HoldsJob, HoldsClaim, ErasesSafely, KnowsKind,
                                  KnowsStore, KeepsClaim, Running, Erasing
<1>3. ASSUME SweepConfirm(w)
      PROVE  OthersStay(w) /\ Sound(worker[w])' /\ KeepsClaim(w)
  <2>1. worker[w].job \in Job /\ jobs[worker[w].job].status \in Terminal
    BY <1>3 DEF SweepConfirm, WorkersAreSound, Sound, HoldsJob, ErasesSafely, Erasing
  <2>2. /\ OthersStay(w)
        /\ worker'[w].job = worker[w].job
        /\ worker'[w].stage = IF CopyExists(worker[w].job) THEN "claim" ELSE "erase"
    BY <1>3, MoveEffects DEF SweepConfirm, Stages
  <2> QED BY <1>1, <2>1, <2>2 DEF store, CopyExists, Sound, HoldsJob, HoldsClaim, ErasesSafely,
                                  KnowsKind, KnowsStore, KeepsClaim, Running, Erasing
<1> QED BY <1>1, <1>2, <1>3, LocalStepIsSafe

\* The steps of a running job that write nothing: what the worker learns is true.
LEMMA ProgressIsSafe ==
  ASSUME SafetyInv, TypeOK', NEW w \in Workers,
         \/ Fetch(w) \/ Compute(w) \/ PutAcknowledged(w) \/ Publish(w) \/ CommitConflict(w)
  PROVE  SafetyInv'
<1> USE DEF SafetyInv
<1>1. UNCHANGED <<jobs, store>>
  BY DEF Fetch, Compute, PutAcknowledged, Publish, CommitConflict
<1>2. RowsEvolve
  BY <1>1, NoRowWritten
<1>3. /\ worker[w].stage \in Running /\ worker[w].job \in Job
      /\ Sound(worker[w])
  BY DEF Fetch, Compute, PutAcknowledged, Publish, CommitConflict, Running,
         WorkersAreSound, Sound, HoldsJob
<1>4. CASE OthersStay(w) /\ worker'[w].stage = "idle"
  <2>1. Sound(worker[w])' /\ KeepsClaim(w)
    BY <1>2, <1>4, RetreatIsSound
  <2> QED BY <1>1, <1>4, <2>1, LocalStepIsSafe
<1>5. CASE /\ OthersStay(w)
           /\ worker'[w].job = worker[w].job /\ worker'[w].token = worker[w].token
           /\ worker'[w].stage = "fail"
  <2>1. Sound(worker[w])' /\ KeepsClaim(w)
    BY <1>2, <1>3, <1>5, RetreatIsSound
  <2> QED BY <1>1, <1>5, <2>1, LocalStepIsSafe
<1>6. CASE /\ OthersStay(w)
           /\ worker'[w].job = worker[w].job /\ worker'[w].token = worker[w].token
           /\ \/ /\ worker[w].stage = "fetch" /\ worker'[w].stage = "compute"
                 /\ worker'[w].prior = worker[w].prior
              \/ /\ worker[w].stage = "compute" /\ worker'[w].stage = "mark"
                 /\ worker'[w].prior = worker[w].prior
                 /\ worker'[w].output \in Digests /\ jobs[worker[w].job].kind = "sanitize"
              \/ /\ worker[w].stage = "compute" /\ worker'[w].stage = "publish"
                 /\ jobs[worker[w].job].kind # "sanitize"
              \/ /\ worker[w].stage = "put" /\ worker'[w].stage = "publish"
                 /\ \A p \in puts : ~ Awaits(w, p)
              \/ worker[w].stage = "publish" /\ worker'[w].stage = "commit"
              \/ worker[w].stage = "commit" /\ worker'[w].stage = "publish"
  <2>1. KeepsClaim(w)
    BY <1>6, <1>3 DEF KeepsClaim
  <2>2. HoldsJob(worker[w])' /\ HoldsClaim(worker[w])' /\ ErasesSafely(worker[w])'
    BY <1>1, <1>3, <1>6 DEF Sound, HoldsJob, HoldsClaim, ErasesSafely, Running, Erasing
  <2>3. KnowsKind(worker[w])'
    BY <1>1, <1>3, <1>6 DEF Sound, KnowsKind
  <2>4. KnowsStore(worker[w])'
    BY <1>1, <1>3, <1>6 DEF store, Sound, KnowsKind, KnowsStore, Current, Awaits, Running
  <2>5. Sound(worker[w])'
    BY <2>2, <2>3, <2>4 DEF Sound
  <2> QED BY <1>1, <1>6, <2>1, <2>5, LocalStepIsSafe
<1>7. CASE Fetch(w)
  BY <1>7, <1>4, <1>5, <1>6, MoveEffects DEF Fetch, Stages
<1>8. CASE Compute(w)
  <2>1. jobs[worker[w].job].kind \in Kinds
    BY <1>3, RowFields
  <2> QED BY <1>8, <2>1, <1>6, MoveEffects DEF Compute, Kinds, Stages
<1>9. CASE PutAcknowledged(w) \/ CommitConflict(w)
  BY <1>9, <1>6, MoveEffects DEF PutAcknowledged, CommitConflict, Stages
<1>10. CASE Publish(w)
  BY <1>10, <1>4, <1>5, <1>6, MoveEffects DEF Publish, Stages
<1> QED BY <1>7, <1>8, <1>9, <1>10

\* A step that writes one row, no digest and no storage.
LEMMA RowStepIsKept ==
  ASSUME SafetyInv, NEW j \in Job, NEW r \in JobRow,
         jobs' = [jobs EXCEPT ![j] = r], Evolves(jobs[j], r), WellKept(r),
         r.active => jobs[j].active \/ TenantIsFree(j),
         r.outputDigest = jobs[j].outputDigest,
         UNCHANGED store
  PROVE  /\ RowsEvolve /\ StoreEvolves /\ \A v \in Workers : DigestsAreBound(v)
         /\ ActiveMatchesStatus' /\ OneOpenJobPerTenant' /\ NothingBeforeAdmission'
         /\ StoreIsKept'
<1>1. /\ RowsEvolve
      /\ ActiveMatchesStatus' /\ OneOpenJobPerTenant' /\ NothingBeforeAdmission'
  BY OneRowWritten
<1>2. DigestsStay
  BY DEF DigestsStay, SafetyInv, TypeOK
<1>3. StoreIsKept'
  BY <1>1, <1>2, StorageUntouched
<1>4. StoreEvolves /\ \A v \in Workers : DigestsAreBound(v)
  BY <1>2 DEF StoreEvolves, DigestsAreBound, DigestsStay, store
<1> QED BY <1>1, <1>3, <1>4

\* Admission, cancellation and the passing of a lease leave the workers alone.
LEMMA RowStepsAreSafe ==
  ASSUME SafetyInv, TypeOK', NEW j \in Job,
         \/ \E kind \in Kinds : Admit(j, kind)
         \/ Cancel(j) \/ LeaseExpires(j)
  PROVE  SafetyInv'
<1>1. /\ jobs[j] \in JobRow /\ WellKept(jobs[j])
      /\ jobs[j].status \in {"absent", "queued", "processing"} \cup Terminal
  BY RowsAreKept DEF SafetyInv, TypeOK, JobRow
<1>2. ASSUME NEW r \in JobRow,
             jobs' = [jobs EXCEPT ![j] = r], Evolves(jobs[j], r), WellKept(r),
             r.active => jobs[j].active \/ TenantIsFree(j),
             r.outputDigest = jobs[j].outputDigest,
             UNCHANGED <<store, worker>>
      PROVE  SafetyInv'
  BY <1>2, RowStepIsKept, NoWorkerMoves, Together
<1>3. ASSUME NEW kind \in Kinds, Admit(j, kind) PROVE SafetyInv'
  <2>1. jobs[j].status = "absent"
    BY <1>3 DEF Admit, Fresh
  <2>2. /\ Admitted(jobs[j], kind) \in JobRow
        /\ Admitted(jobs[j], kind).outputDigest = jobs[j].outputDigest
        /\ Evolves(jobs[j], Admitted(jobs[j], kind)) /\ WellKept(Admitted(jobs[j], kind))
    <3>1. Admitted(jobs[j], kind) \in JobRow
      BY <1>1, RowOps
    <3>2. Admitted(jobs[j], kind).outputDigest = jobs[j].outputDigest
      BY <1>1, RowEffects
    <3>3. Evolves(jobs[j], Admitted(jobs[j], kind)) /\ WellKept(Admitted(jobs[j], kind))
      BY <1>1, <2>1, WritesEvolve
    <3> QED BY <3>1, <3>2, <3>3
  <2> QED BY <1>2, <1>3, <2>2 DEF Admit
<1>4. CASE Cancel(j)
  <2>1. jobs[j].status \in {"queued", "processing"}
    BY <1>1, <1>4 DEF Cancel, WellKept
  <2>2. "cancelled" \in Terminal
    BY DEF Terminal
  <2>3. /\ Closed(jobs[j], "cancelled") \in JobRow
        /\ Closed(jobs[j], "cancelled").outputDigest = jobs[j].outputDigest
        /\ ~ Closed(jobs[j], "cancelled").active
        /\ Evolves(jobs[j], Closed(jobs[j], "cancelled"))
        /\ WellKept(Closed(jobs[j], "cancelled"))
    <3>1. Closed(jobs[j], "cancelled") \in JobRow
      BY <1>1, <2>2, RowOps
    <3>2. /\ Closed(jobs[j], "cancelled").outputDigest = jobs[j].outputDigest
          /\ ~ Closed(jobs[j], "cancelled").active
      BY <1>1, <2>2, RowEffects
    <3>3. /\ Evolves(jobs[j], Closed(jobs[j], "cancelled"))
          /\ WellKept(Closed(jobs[j], "cancelled"))
      BY <1>1, <2>1, <2>2, WritesEvolve
    <3> QED BY <3>1, <3>2, <3>3
  <2> QED BY <1>2, <1>4, <2>3 DEF Cancel
<1>5. CASE LeaseExpires(j)
  BY <1>1, <1>2, <1>5, RowOps, RowEffects, WritesEvolve DEF LeaseExpires
<1> QED BY <1>3, <1>4, <1>5

\* Recovery and the failure of a job: the worker lets go of what it closes.
LEMMA ClosingIsSafe ==
  ASSUME SafetyInv, TypeOK', NEW w \in Workers, Recover(w) \/ TerminalStep(w)
  PROVE  SafetyInv'
<1>1. /\ OthersStay(w)
      /\ worker'[w].stage \in {"idle", "recover"}
  <2>1. CASE Recover(w)
    <3>1. PICK seen \in worker[w].expired :
            worker' = [worker EXCEPT ![w] = Recovering(@, @.expired \ {seen})]
      BY <2>1 DEF Recover
    <3>2. worker[w].expired \ {seen} \in SUBSET Expiry
      BY LocalFields DEF SafetyInv
    <3> QED BY <3>1, <3>2, MoveEffects DEF SafetyInv
  <2>2. CASE TerminalStep(w)
    BY <2>2, MoveEffects DEF TerminalStep, SafetyInv
  <2> QED BY <2>1, <2>2
<1>2. ASSUME UNCHANGED <<jobs, store>> PROVE SafetyInv'
  <2>1. RowsEvolve
    BY <1>2, NoRowWritten
  <2>2. Sound(worker[w])' /\ KeepsClaim(w)
    BY <1>1, <2>1, RetreatIsSound
  <2> QED BY <1>1, <1>2, <2>2, LocalStepIsSafe
<1>3. ASSUME NEW j \in Job, NEW r \in JobRow,
             jobs' = [jobs EXCEPT ![j] = r], Evolves(jobs[j], r), WellKept(r),
             r.active => jobs[j].active,
             r.outputDigest = jobs[j].outputDigest,
             UNCHANGED store
      PROVE  SafetyInv'
  <2>1. /\ RowsEvolve /\ StoreEvolves /\ \A v \in Workers : DigestsAreBound(v)
        /\ ActiveMatchesStatus' /\ OneOpenJobPerTenant' /\ NothingBeforeAdmission'
        /\ StoreIsKept'
    BY <1>3, RowStepIsKept
  <2>2. Sound(worker[w])' /\ KeepsClaim(w)
    BY <1>1, <2>1, RetreatIsSound
  <2>3. WorkersAreSound' /\ TokensAreClaims'
    BY <1>1, <2>1, <2>2, OneWorkerMoves
  <2> QED BY <2>1, <2>3, Together
<1>4. ASSUME NEW j \in Job, jobs[j].status = "processing", UNCHANGED store,
             \/ jobs' = [jobs EXCEPT ![j] = Closed(@, "failed")]
             \/ jobs' = [jobs EXCEPT ![j] = Requeued(@)]
      PROVE  SafetyInv'
  <2>1. jobs[j] \in JobRow /\ WellKept(jobs[j]) /\ jobs[j].active
    BY <1>4, RowsAreKept DEF SafetyInv, TypeOK, WellKept
  <2>2. "failed" \in Terminal
    BY DEF Terminal
  <2>3. ASSUME NEW r \in {Closed(jobs[j], "failed"), Requeued(jobs[j])}
        PROVE  /\ r \in JobRow /\ r.outputDigest = jobs[j].outputDigest
               /\ Evolves(jobs[j], r) /\ WellKept(r)
    <3>1. r \in JobRow
      BY <2>1, <2>2, RowOps
    <3>2. r.outputDigest = jobs[j].outputDigest
      BY <2>1, <2>2, RowEffects
    <3>3. Evolves(jobs[j], r) /\ WellKept(r)
      BY <1>4, <2>1, <2>2, WritesEvolve
    <3> QED BY <3>1, <3>2, <3>3
  <2> QED BY <1>3, <1>4, <2>1, <2>3
<1>5. CASE Recover(w)
  <2>1. PICK seen \in worker[w].expired :
          \/ /\ StillOverdue(seen)
             /\ jobs' = [jobs EXCEPT ![seen.job] =
                           IF Exhausted(seen) THEN Closed(@, "failed") ELSE Requeued(@)]
          \/ UNCHANGED <<jobs, events>>
    BY <1>5 DEF Recover
  <2>2. seen.job \in Job
    BY LocalFields DEF SafetyInv, Expiry
  <2>3. UNCHANGED store
    BY <1>5 DEF Recover
  <2> QED BY <1>2, <1>4, <2>1, <2>2, <2>3 DEF StillOverdue
<1>6. CASE TerminalStep(w)
  <2>1. worker[w].job \in Job
    BY <1>6 DEF TerminalStep, SafetyInv, WorkersAreSound, Sound, HoldsJob, Running
  <2> QED BY <1>2, <1>4, <1>6, <2>1 DEF TerminalStep, Claimed
<1> QED BY <1>5, <1>6

\* A claim is given under a token no other worker holds.
LEMMA ClaimIsSafe ==
  ASSUME SafetyInv, TypeOK', NEW w \in Workers, Claim(w)
  PROVE  SafetyInv'
<1>1. PICK j \in Job : /\ Queued(j)
                       /\ jobs' = [jobs EXCEPT ![j] = Leased(@)]
                       /\ worker' = [worker EXCEPT ![w] = Holding(j, Leased(jobs[j]))]
  BY DEF Claim
<1>2. /\ jobs[j] \in JobRow /\ WellKept(jobs[j]) /\ jobs[j].status = "queued" /\ jobs[j].active
      /\ Leased(jobs[j]) \in JobRow
  BY <1>1, RowsAreKept, RowOps DEF Queued, SafetyInv, TypeOK
<1>3. Evolves(jobs[j], Leased(jobs[j])) /\ WellKept(Leased(jobs[j]))
  BY <1>2, WritesEvolve
<1>4. /\ Leased(jobs[j]).outputDigest = jobs[j].outputDigest
      /\ Leased(jobs[j]).leaseToken = jobs[j].attempts + 1
      /\ Leased(jobs[j]).attempts = jobs[j].attempts + 1
      /\ Leased(jobs[j]).status = "processing"
  BY <1>2, RowEffects
<1>5. /\ RowsEvolve /\ StoreEvolves /\ \A v \in Workers : DigestsAreBound(v)
      /\ ActiveMatchesStatus' /\ OneOpenJobPerTenant' /\ NothingBeforeAdmission'
      /\ StoreIsKept'
  BY <1>1, <1>2, <1>3, <1>4, RowStepIsKept DEF Claim
<1>6. /\ worker'[w].stage = "fetch" /\ worker'[w].job = j
      /\ worker'[w].token = jobs[j].attempts + 1
      /\ worker'[w].prior = jobs[j].outputDigest
      /\ OthersStay(w)
  <2>1. \A row \in JobRow : worker' = [worker EXCEPT ![w] = Holding(j, row)] =>
          /\ worker'[w].stage = "fetch" /\ worker'[w].job = j
          /\ worker'[w].token = row.leaseToken /\ worker'[w].prior = row.outputDigest
          /\ OthersStay(w)
    BY MoveEffects DEF SafetyInv
  <2> QED BY <1>1, <1>2, <1>4, <2>1
<1>7. jobs'[j] = Leased(jobs[j]) /\ jobs[j].attempts \in Nat
  BY <1>1, RowFields DEF SafetyInv, TypeOK
<1>8. Sound(worker[w])'
  <2>1. worker'[w].token \in 1 .. jobs'[j].attempts /\ jobs'[j].status # "absent"
    BY <1>4, <1>6, <1>7
  <2>2. worker'[w].prior = jobs'[j].outputDigest
    BY <1>4, <1>6, <1>7
  <2> QED BY <1>6, <2>1, <2>2 DEF Sound, HoldsJob, HoldsClaim, ErasesSafely,
             KnowsKind, KnowsStore, Running, Erasing
<1>9. WorkersAreSound'
  BY <1>5, <1>6, <1>8, BystanderIsSound DEF WorkersAreSound, OthersStay
<1>10. ASSUME NEW v \in Workers, v # w, worker[v].stage \in Running, worker[v].job = j
       PROVE  worker[v].token # worker'[w].token
  <2>1. worker[v].token \in 1 .. jobs[j].attempts
    BY <1>10 DEF SafetyInv, WorkersAreSound, Sound, HoldsClaim
  <2> QED BY <1>6, <1>7, <2>1
<1>11. TokensAreClaims'
  BY <1>6, <1>10 DEF SafetyInv, TokensAreClaims, OthersStay
<1> QED BY <1>5, <1>9, <1>11, Together

\* The tombstone and the digest are durable before the object is sent, and no
\* other worker may rely on another digest.
LEMMA MarkIsSafe ==
  ASSUME SafetyInv, TypeOK', NEW w \in Workers, Mark(w)
  PROVE  SafetyInv'
<1> DEFINE j == worker[w].job
           d == worker[w].output
           r == Marked(jobs[j], d)
           put == [job |-> j, token |-> worker[w].token, digest |-> d]
<1>1. /\ worker[w].stage = "mark" /\ worker[w].stage \in Running
      /\ Claimed(w) /\ SameOutput(w)
      /\ jobs' = [jobs EXCEPT ![j] = r]
      /\ puts' = puts \cup {put}
      /\ GoTo(w, "put")
      /\ UNCHANGED <<copies, objects, erasing, deleting>>
  BY DEF Mark, Running
<1>2. /\ j \in Job /\ d \in Digests /\ jobs[j].kind = "sanitize"
      /\ worker[w].token \in 1 .. jobs[j].attempts
  BY <1>1 DEF SafetyInv, WorkersAreSound, Sound, HoldsJob, HoldsClaim, KnowsKind
<1>3. jobs[j] \in JobRow /\ WellKept(jobs[j]) /\ jobs[j].status = "processing"
      /\ jobs[j].active /\ Current(worker[w])
  BY <1>1, <1>2, RowsAreKept DEF SafetyInv, TypeOK, Claimed, Current
<1>4. jobs[j].outputDigest \in {NoDigest, d}
  BY <1>1, <1>3 DEF SafetyInv, WorkersAreSound, Sound, KnowsStore, SameOutput
<1>5. /\ r.kind = "sanitize" /\ r.status = "processing" /\ r.leaseToken = jobs[j].leaseToken
      /\ r.attempts = jobs[j].attempts /\ r.outputDigest = d /\ r.cleanupPending
  BY <1>2, <1>3, RowEffects
<1>6. r \in JobRow /\ Evolves(jobs[j], r) /\ WellKept(r)
  BY <1>2, <1>3, RowOps, WritesEvolve
<1>7. /\ jobs'[j] = r
      /\ \A i \in Job : i # j => jobs'[i] = jobs[i]
  BY <1>1, <1>2 DEF SafetyInv, TypeOK
<1>8. /\ RowsEvolve
      /\ ActiveMatchesStatus' /\ OneOpenJobPerTenant' /\ NothingBeforeAdmission'
  BY <1>1, <1>2, <1>3, <1>6, OneRowWritten
<1>9. StoreEvolves
  BY <1>1 DEF StoreEvolves
<1>10. ASSUME NEW v \in Workers, v # w PROVE DigestsAreBound(v)
  <2>1. ASSUME worker[v].stage \in Running, worker[v].job = j PROVE ~ Current(worker[v])
    BY <1>1, <1>3, <1>10, <2>1 DEF SafetyInv, TokensAreClaims, Current
  <2> QED BY <1>2, <1>3, <1>4, <1>5, <1>7, <2>1 DEF DigestsAreBound
<1>11. /\ worker'[w].stage = "put" /\ worker'[w].job = j
       /\ worker'[w].token = worker[w].token /\ OthersStay(w)
  BY <1>1, MoveEffects DEF SafetyInv, Stages
<1>12. Sound(worker[w])' /\ KeepsClaim(w)
  <2>1. put \in puts' /\ put.job = j /\ put.token = worker[w].token
    BY <1>1
  <2> QED BY <1>1, <1>2, <1>5, <1>7, <1>11, <2>1 DEF Sound, HoldsJob, HoldsClaim, ErasesSafely,
             KnowsKind, KnowsStore, KeepsClaim, Erasing
<1>13. WorkersAreSound' /\ TokensAreClaims'
  BY <1>8, <1>9, <1>10, <1>11, <1>12, OneWorkerMoves
<1>14. StoreIsKept'
  <2>1. OneDigestPerJob'
    <3>1. ASSUME NEW p \in puts PROVE p.digest = jobs'[p.job].outputDigest
      <4>1. p.job \in Job /\ p.digest \in Digests /\ p.digest = jobs[p.job].outputDigest
        BY DEF SafetyInv, TypeOK, Put, OneDigestPerJob
      <4> QED BY <1>4, <1>5, <1>7, <4>1, DigestAssumption
    <3>2. put.digest = jobs'[put.job].outputDigest
      BY <1>5, <1>7
    <3>3. \A i \in Job : objects[i] \in {NoDigest, jobs'[i].outputDigest}
      BY <1>4, <1>5, <1>7 DEF SafetyInv, OneDigestPerJob
    <3> QED BY <1>1, <3>1, <3>2, <3>3 DEF OneDigestPerJob
  <2>2. copies[j] = "none"
    BY <1>2, <1>3 DEF SafetyInv, CopiesAreResults
  <2>3. DeletesAreSafe' /\ CopiesAreResults'
    BY <1>1, <1>3, <1>5, <1>7, <2>2 DEF SafetyInv, TypeOK, DeletesAreSafe, CopiesAreResults
  <2>4. CopyIsIntact'
    BY <1>1, <1>7, <2>2 DEF SafetyInv, CopyIsIntact
  <2>5. ObjectIsTracked'
    <3>1. \A i \in Job : i # j => ((\E p \in puts' : p.job = i) => \E p \in puts : p.job = i)
      BY <1>1
    <3> QED BY <1>1, <1>5, <1>7, <3>1 DEF SafetyInv, ObjectIsTracked
  <2> QED BY <2>1, <2>3, <2>4, <2>5 DEF StoreIsKept
<1> QED BY <1>8, <1>13, <1>14, Together

\* Publishing: the copy appears with the outcome, over an object that is there.
LEMMA CommitIsSafe ==
  ASSUME SafetyInv, TypeOK', NEW w \in Workers, Commit(w)
  PROVE  SafetyInv'
<1> DEFINE j == worker[w].job
           r == Published(jobs[j])
<1>1. /\ worker[w].stage = "commit" /\ worker[w].stage \in Running
      /\ NoWriteConflict(w)
      /\ jobs' = [jobs EXCEPT ![j] = r]
      /\ copies' = IF jobs[j].kind = "sanitize" THEN [copies EXCEPT ![j] = "stored"] ELSE copies
      /\ Rest(w) \/ GoTo(w, "fail")
      /\ UNCHANGED <<objects, puts, erasing, deleting>>
  BY DEF Commit, Running
<1>2. j \in Job /\ Current(worker[w]) /\ Sound(worker[w])
  BY <1>1 DEF SafetyInv, WorkersAreSound, Sound, HoldsJob, NoWriteConflict, Current
<1>3. /\ jobs[j] \in JobRow /\ WellKept(jobs[j]) /\ jobs[j].status = "processing"
  BY <1>2, RowsAreKept DEF SafetyInv, TypeOK, Current
<1>4. /\ r.kind = jobs[j].kind /\ r.status = "completed" /\ ~ r.active
      /\ r.outputDigest = jobs[j].outputDigest
  BY <1>3, RowEffects
<1>5. r \in JobRow /\ Evolves(jobs[j], r) /\ WellKept(r)
  BY <1>3, RowOps, WritesEvolve
<1>6. /\ jobs'[j] = r
      /\ \A i \in Job : i # j => jobs'[i] = jobs[i]
      /\ \A i \in Job : i # j => copies'[i] = copies[i]
      /\ copies'[j] = IF jobs[j].kind = "sanitize" THEN "stored" ELSE copies[j]
  BY <1>1, <1>2 DEF SafetyInv, TypeOK
<1>7. /\ RowsEvolve
      /\ ActiveMatchesStatus' /\ OneOpenJobPerTenant' /\ NothingBeforeAdmission'
  BY <1>1, <1>2, <1>4, <1>5, OneRowWritten
<1>8. DigestsStay /\ \A v \in Workers : DigestsAreBound(v)
  BY <1>4, <1>6 DEF DigestsStay, DigestsAreBound
<1>9. StoreEvolves
  BY <1>1, <1>3, <1>6 DEF StoreEvolves
<1>10. /\ OthersStay(w)
       /\ \/ worker'[w].stage = "idle"
          \/ /\ worker'[w].stage = "fail" /\ worker'[w].job = worker[w].job
             /\ worker'[w].token = worker[w].token
  BY <1>1, MoveEffects DEF SafetyInv, Stages
<1>11. Sound(worker[w])' /\ KeepsClaim(w)
  BY <1>1, <1>7, <1>10, RetreatIsSound
<1>12. WorkersAreSound' /\ TokensAreClaims'
  BY <1>7, <1>8, <1>9, <1>10, <1>11, OneWorkerMoves
<1>13. StoreIsKept'
  <2>1. jobs[j].kind = "sanitize" =>
          jobs[j].outputDigest \in Digests /\ objects[j] = jobs[j].outputDigest
    BY <1>1, <1>2 DEF Sound, KnowsKind, KnowsStore
  <2>2. copies[j] = "none"
    BY <1>2, <1>3 DEF SafetyInv, CopiesAreResults
  <2>3. OneDigestPerJob'
    BY <1>1, <1>8 DEF SafetyInv, OneDigestPerJob, DigestsStay, TypeOK, Put
  <2>4. DeletesAreSafe'
    BY <1>1, <1>3, <1>6 DEF SafetyInv, TypeOK, DeletesAreSafe, Terminal
  <2>5. CopiesAreResults'
    BY <1>4, <1>6, <2>1, <2>2 DEF SafetyInv, CopiesAreResults
  <2>6. CopyIsIntact'
    BY <1>1, <1>4, <1>6, <2>1, <2>2 DEF SafetyInv, CopyIsIntact
  <2>7. ObjectIsTracked'
    BY <1>1, <1>4, <1>6 DEF SafetyInv, ObjectIsTracked
  <2> QED BY <2>3, <2>4, <2>5, <2>6, <2>7 DEF StoreIsKept
<1> QED BY <1>7, <1>12, <1>13, Together

\* The sweep's request, in time or late, and a deletion hit no downloadable copy.
LEMMA EraseIsSafe ==
  ASSUME SafetyInv, TypeOK', NEW w \in Workers, Erase(w) \/ EraseTimesOut(w)
  PROVE  SafetyInv'
<1> DEFINE j == worker[w].job
<1>1. /\ worker[w].stage = "erase" /\ GoTo(w, "claim")
      /\ UNCHANGED <<jobs, copies, puts, deleting>>
      /\ \/ objects' = [objects EXCEPT ![j] = NoDigest] /\ UNCHANGED erasing
         \/ erasing' = erasing \cup {j} /\ UNCHANGED objects
  BY DEF Erase, EraseTimesOut
<1>2. j \in Job /\ jobs[j].status \in Terminal /\ copies[j] # "stored"
  BY <1>1 DEF SafetyInv, WorkersAreSound, Sound, HoldsJob, ErasesSafely, Erasing
<1>3. /\ RowsEvolve
      /\ ActiveMatchesStatus' /\ OneOpenJobPerTenant' /\ NothingBeforeAdmission'
  BY <1>1, NoRowWritten
<1>4. \A i \in Job : objects'[i] = IF i = j /\ objects' # objects THEN NoDigest ELSE objects[i]
  BY <1>1, <1>2 DEF SafetyInv, TypeOK
<1>5. StoreEvolves /\ \A v \in Workers : DigestsAreBound(v)
  BY <1>1, <1>2, <1>4 DEF StoreEvolves, DigestsAreBound, Terminal
<1>6. worker'[w].stage = "claim" /\ OthersStay(w)
  BY <1>1, MoveEffects DEF SafetyInv, Stages
<1>7. Sound(worker[w])' /\ KeepsClaim(w)
  BY <1>3, <1>6, RetreatIsSound
<1>8. WorkersAreSound' /\ TokensAreClaims'
  BY <1>3, <1>5, <1>6, <1>7, OneWorkerMoves
<1>9. StoreIsKept'
  <2>1. OneDigestPerJob' /\ CopyIsIntact' /\ CopiesAreResults' /\ ObjectIsTracked'
    BY <1>1, <1>2, <1>4 DEF SafetyInv, OneDigestPerJob, CopyIsIntact, CopiesAreResults,
                            ObjectIsTracked
  <2>2. DeletesAreSafe'
    BY <1>1, <1>2 DEF SafetyInv, DeletesAreSafe
  <2> QED BY <2>1, <2>2 DEF StoreIsKept
<1> QED BY <1>3, <1>8, <1>9, Together

\* A user's deletion: tombstone, object, row.
LEMMA DeletionIsSafe ==
  ASSUME SafetyInv, TypeOK', NEW j \in Job,
         DeleteTombstone(j) \/ DeleteObject(j) \/ DeleteRow(j)
  PROVE  SafetyInv'
<1>1. jobs[j] \in JobRow /\ WellKept(jobs[j])
  BY RowsAreKept DEF SafetyInv, TypeOK
<1>2. jobs[j].status = "completed" /\ copies[j] # "none"
  BY DEF SafetyInv, DeleteTombstone, DeleteObject, DeleteRow, DeletesAreSafe, CopiesAreResults
<1>3. CASE DeleteTombstone(j)
  <2>1. /\ jobs' = [jobs EXCEPT ![j] = Tombstoned(@)]
        /\ UNCHANGED <<copies, objects, puts, erasing, worker>>
        /\ \A i \in Job : i # j => deleting'[i] = deleting[i]
        /\ deleting'[j] = IF deleting[j] = "no" THEN "tombstoned" ELSE deleting[j]
    BY <1>3 DEF DeleteTombstone, SafetyInv, TypeOK
  <2>2. /\ Tombstoned(jobs[j]).kind = jobs[j].kind
        /\ Tombstoned(jobs[j]).status = "completed"
        /\ (Tombstoned(jobs[j]).active <=> jobs[j].active)
        /\ Tombstoned(jobs[j]).outputDigest = jobs[j].outputDigest
    BY <1>1, <1>2, RowEffects
  <2>3. Tombstoned(jobs[j]) \in JobRow
    BY <1>1, RowOps
  <2>4. Evolves(jobs[j], Tombstoned(jobs[j])) /\ WellKept(Tombstoned(jobs[j]))
    BY <1>1, <1>2, WritesEvolve
  <2>5. /\ RowsEvolve
        /\ ActiveMatchesStatus' /\ OneOpenJobPerTenant' /\ NothingBeforeAdmission'
    BY <2>1, <2>2, <2>3, <2>4, OneRowWritten
  <2>6. \A i \in Job : /\ jobs'[i].outputDigest = jobs[i].outputDigest
                       /\ jobs'[i].status = jobs[i].status
                       /\ jobs'[i].kind = jobs[i].kind
                       /\ i # j => jobs'[i] = jobs[i]
    BY <1>2, <2>1, <2>2 DEF SafetyInv, TypeOK
  <2>7. StoreEvolves /\ \A v \in Workers : DigestsAreBound(v)
    BY <2>1, <2>6 DEF StoreEvolves, DigestsAreBound
  <2>8. WorkersAreSound' /\ TokensAreClaims'
    BY <2>1, <2>5, <2>7, NoWorkerMoves
  <2>9. StoreIsKept'
    <3>1. OneDigestPerJob' /\ CopiesAreResults'
      BY <2>1, <2>6 DEF SafetyInv, TypeOK, Put, OneDigestPerJob, CopiesAreResults
    <3>2. DeletesAreSafe'
      BY <1>2, <2>1, <2>6 DEF SafetyInv, TypeOK, DeletesAreSafe
    <3>3. CopyIsIntact'
      BY <2>1, <2>6 DEF SafetyInv, CopyIsIntact
    <3>4. ObjectIsTracked'
      BY <1>2, <2>1, <2>6 DEF SafetyInv, ObjectIsTracked
    <3> QED BY <3>1, <3>2, <3>3, <3>4 DEF StoreIsKept
  <2> QED BY <2>5, <2>8, <2>9, Together
<1>4. CASE DeleteObject(j) \/ DeleteRow(j)
  <2>1. /\ UNCHANGED <<jobs, puts, erasing, worker>>
        /\ \A i \in Job : i # j => /\ objects'[i] = objects[i] /\ copies'[i] = copies[i]
                                   /\ deleting'[i] = deleting[i]
        /\ deleting'[j] = "erased" /\ copies'[j] \in {copies[j], "removed"}
        /\ objects'[j] \in {objects[j], NoDigest}
    BY <1>4 DEF DeleteObject, DeleteRow, SafetyInv, TypeOK
  <2>2. /\ RowsEvolve
        /\ ActiveMatchesStatus' /\ OneOpenJobPerTenant' /\ NothingBeforeAdmission'
    BY <2>1, NoRowWritten
  <2>3. StoreEvolves /\ \A v \in Workers : DigestsAreBound(v)
    BY <1>2, <2>1 DEF StoreEvolves, DigestsAreBound
  <2>4. WorkersAreSound' /\ TokensAreClaims'
    BY <2>1, <2>2, <2>3, NoWorkerMoves
  <2>5. StoreIsKept'
    <3>1. OneDigestPerJob' /\ CopyIsIntact' /\ ObjectIsTracked'
      BY <2>1 DEF SafetyInv, OneDigestPerJob, CopyIsIntact, ObjectIsTracked
    <3>2. DeletesAreSafe' /\ CopiesAreResults'
      BY <1>2, <2>1 DEF SafetyInv, TypeOK, DeletesAreSafe, CopiesAreResults
    <3> QED BY <3>1, <3>2 DEF StoreIsKept
  <2> QED BY <2>2, <2>4, <2>5, Together
<1> QED BY <1>3, <1>4

\* S3 applies or drops a request, and access comes and goes.
LEMMA SurroundingsAreSafe ==
  ASSUME SafetyInv, TypeOK',
         \/ \E p \in puts : PutLands(p) \/ PutIsLost(p)
         \/ \E j \in erasing : EraseLands(j) \/ EraseIsLost(j)
         \/ \E t \in Tenants : AccessChanges(t)
         \/ UNCHANGED vars
  PROVE  SafetyInv'
<1>1. UNCHANGED <<jobs, copies, deleting, worker>>
  BY DEF PutLands, PutIsLost, EraseLands, EraseIsLost, AccessChanges, vars, store
<1>2. /\ RowsEvolve
      /\ ActiveMatchesStatus' /\ OneOpenJobPerTenant' /\ NothingBeforeAdmission'
  BY <1>1, NoRowWritten
<1>3. \A v \in Workers : DigestsAreBound(v)
  BY <1>1 DEF DigestsAreBound
<1>4. ASSUME StoreEvolves, StoreIsKept' PROVE SafetyInv'
  <2>1. WorkersAreSound' /\ TokensAreClaims'
    BY <1>1, <1>2, <1>3, <1>4, NoWorkerMoves
  <2> QED BY <1>2, <1>4, <2>1, Together
<1>5. ASSUME NEW p \in puts, PutLands(p) PROVE SafetyInv'
  <2>1. /\ p.job \in Job /\ p.digest = jobs[p.job].outputDigest
        /\ puts' = puts \ {p} /\ UNCHANGED erasing
        /\ objects'[p.job] = p.digest
        /\ \A i \in Job : i # p.job => objects'[i] = objects[i]
    BY <1>5 DEF PutLands, SafetyInv, TypeOK, Put, OneDigestPerJob
  <2>2. StoreEvolves
    BY <1>1, <2>1 DEF StoreEvolves
  <2>3. StoreIsKept'
    <3>1. OneDigestPerJob' /\ CopyIsIntact'
      BY <1>1, <2>1 DEF SafetyInv, OneDigestPerJob, CopyIsIntact
    <3>2. DeletesAreSafe' /\ CopiesAreResults'
      BY <1>1, <2>1 DEF SafetyInv, DeletesAreSafe, CopiesAreResults
    <3>3. ObjectIsTracked'
      BY <1>1, <1>5, <2>1 DEF SafetyInv, ObjectIsTracked
    <3> QED BY <3>1, <3>2, <3>3 DEF StoreIsKept
  <2> QED BY <1>4, <2>2, <2>3
<1>6. ASSUME NEW p \in puts, PutIsLost(p) PROVE SafetyInv'
  <2>1. StoreEvolves
    BY <1>1, <1>6 DEF PutIsLost, StoreEvolves
  <2>2. StoreIsKept'
    BY <1>1, <1>6 DEF PutIsLost, SafetyInv, StoreIsKept, OneDigestPerJob, CopyIsIntact,
                      DeletesAreSafe, CopiesAreResults, ObjectIsTracked
  <2> QED BY <1>4, <2>1, <2>2
<1>7. ASSUME NEW j \in erasing, EraseLands(j) \/ EraseIsLost(j) PROVE SafetyInv'
  <2>1. /\ j \in Job /\ jobs[j].status \in Terminal /\ copies[j] # "stored"
        /\ UNCHANGED puts /\ erasing' \subseteq erasing
        /\ objects'[j] \in {objects[j], NoDigest}
        /\ \A i \in Job : i # j => objects'[i] = objects[i]
    BY <1>7 DEF EraseLands, EraseIsLost, SafetyInv, TypeOK, DeletesAreSafe
  <2>2. StoreEvolves
    BY <1>1, <2>1 DEF StoreEvolves, Terminal
  <2>3. StoreIsKept'
    <3>1. OneDigestPerJob' /\ CopyIsIntact' /\ ObjectIsTracked'
      BY <1>1, <2>1 DEF SafetyInv, OneDigestPerJob, CopyIsIntact, ObjectIsTracked
    <3>2. DeletesAreSafe' /\ CopiesAreResults'
      BY <1>1, <2>1 DEF SafetyInv, DeletesAreSafe, CopiesAreResults
    <3> QED BY <3>1, <3>2 DEF StoreIsKept
  <2> QED BY <1>4, <2>2, <2>3
<1>8. CASE (\E t \in Tenants : AccessChanges(t)) \/ UNCHANGED vars
  <2>1. UNCHANGED store
    BY <1>8 DEF AccessChanges, vars, store
  <2>2. StoreEvolves /\ DigestsStay
    BY <1>1, <2>1 DEF StoreEvolves, DigestsStay, store
  <2>3. StoreIsKept'
    BY <1>2, <2>1, <2>2, StorageUntouched
  <2> QED BY <1>4, <2>2, <2>3
<1> QED BY <1>5, <1>6, <1>7, <1>8

------------------------------------------------------------------------------
(* The invariant.                                                            *)

LEMMA InitIsSafe == Init => SafetyInv
<1> SUFFICES ASSUME Init PROVE SafetyInv
  OBVIOUS
<1>1. TypeOK
  BY InitTypeOK
<1>2. \A j \in Job : /\ jobs[j].status = "absent" /\ ~ jobs[j].active
                     /\ jobs[j].lease = "none" /\ ~ jobs[j].cleanupPending
                     /\ objects[j] = NoDigest /\ copies[j] = "none" /\ deleting[j] = "no"
  BY DEF Init, Unused
<1>3. \A w \in Workers : worker[w].stage = "idle"
  BY DEF Init, Resting
<1>4. puts = {} /\ erasing = {}
  BY DEF Init
<1>5. WorkersAreSound /\ TokensAreClaims
  BY <1>3 DEF WorkersAreSound, TokensAreClaims, Sound, HoldsJob, HoldsClaim, ErasesSafely,
              KnowsKind, KnowsStore, Running, Erasing
<1>6. ActiveMatchesStatus /\ OneOpenJobPerTenant /\ NothingBeforeAdmission
  BY <1>2 DEF ActiveMatchesStatus, OneOpenJobPerTenant, NothingBeforeAdmission
<1>7. OneDigestPerJob /\ DeletesAreSafe /\ CopiesAreResults /\ CopyIsIntact /\ ObjectIsTracked
  BY <1>2, <1>4 DEF OneDigestPerJob, DeletesAreSafe, CopiesAreResults, CopyIsIntact,
                    ObjectIsTracked
<1> QED BY <1>1, <1>5, <1>6, <1>7 DEF SafetyInv

LEMMA StepIsSafe == SafetyInv /\ [Next]_vars => SafetyInv'
<1> SUFFICES ASSUME SafetyInv, [Next]_vars PROVE SafetyInv'
  OBVIOUS
<1>1. TypeOK'
  BY StepTypeOK DEF SafetyInv
<1>2. ASSUME NEW j \in Job, Request(j) PROVE SafetyInv'
  BY <1>1, <1>2, RowStepsAreSafe, DeletionIsSafe DEF Request, SubmitScan, SubmitSanitize, Kinds
<1>3. ASSUME NEW w \in Workers, Serve(w) \/ Crash(w) PROVE SafetyInv'
  <2>1. CASE \/ Tick(w) \/ RecoverDone(w) \/ SweepNothing(w) \/ ClaimNothing(w)
             \/ MarkRefused(w) \/ JobFails(w) \/ Crash(w)
    BY <1>1, <2>1, RetreatsAreSafe
  <2>2. CASE (\E j \in Job : Sweep(w, j)) \/ SweepConfirm(w)
    BY <1>1, <2>2, SweepIsSafe
  <2>3. CASE \/ Fetch(w) \/ Compute(w) \/ PutAcknowledged(w) \/ Publish(w) \/ CommitConflict(w)
    BY <1>1, <2>3, ProgressIsSafe
  <2>4. CASE Recover(w) \/ TerminalStep(w)
    BY <1>1, <2>4, ClosingIsSafe
  <2>5. CASE Erase(w) \/ EraseTimesOut(w)
    BY <1>1, <2>5, EraseIsSafe
  <2>6. CASE Claim(w)
    BY <1>1, <2>6, ClaimIsSafe
  <2>7. CASE Mark(w)
    BY <1>1, <2>7, MarkIsSafe
  <2>8. CASE Commit(w)
    BY <1>1, <2>8, CommitIsSafe
  <2> QED BY <1>3, <2>1, <2>2, <2>3, <2>4, <2>5, <2>6, <2>7, <2>8 DEF Serve
<1>4. CASE Surroundings
  BY <1>1, <1>4, RowStepsAreSafe, SurroundingsAreSafe DEF Surroundings
<1>5. CASE UNCHANGED vars
  BY <1>1, <1>5, SurroundingsAreSafe
<1> QED BY <1>2, <1>3, <1>4, <1>5 DEF Next

\* Whatever the numbers of jobs, tenants and workers, in every order of claims,
\* expired leases, crashes, cancellations and late storage requests, the rows,
\* the workers and the storage agree.
THEOREM SafetyHolds == Spec => []SafetyInv
  BY InitIsSafe, StepIsSafe, PTL DEF Spec

\* Every document and local variable keeps its type; the two writes under a job
\* a worker remembers are the reason this needs the whole invariant.
THEOREM TypesHold == Spec => []TypeOK
<1>1. SafetyInv => TypeOK
  BY DEF SafetyInv
<1> QED BY SafetyHolds, <1>1, PTL

\* The slot of a tenant is taken exactly by its open job, and by one only
\* (the partial unique index, recovery and cancellation together).
THEOREM SlotsHold == Spec => [](ActiveMatchesStatus /\ OneOpenJobPerTenant)
<1>1. SafetyInv => ActiveMatchesStatus /\ OneOpenJobPerTenant
  BY DEF SafetyInv
<1> QED BY SafetyHolds, <1>1, PTL

\* The partial unique index and what releases it: a tenant has one open job at most.
THEOREM OneJobPerTenant == Spec => []OneOpenJobPerTenant
<1> QED BY SlotsHold, PTL

\* A copy that can be downloaded is the one its job recorded: no sweep, late PUT
\* or late DELETE of any worker touches it.
THEOREM CopiesStayIntact == Spec => []CopyIsIntact
<1>1. SafetyInv => CopyIsIntact
  BY DEF SafetyInv
<1> QED BY SafetyHolds, <1>1, PTL

\* No object exists or is under way that the sweep would not find.
THEOREM ObjectsStayTracked == Spec => []ObjectIsTracked
<1>1. SafetyInv => ObjectIsTracked
  BY DEF SafetyInv
<1> QED BY SafetyHolds, <1>1, PTL

------------------------------------------------------------------------------
(* What a step does to the outcomes and the copies.                          *)

Admission(j) ==
  /\ jobs[j].status = "absent" /\ TenantIsFree(j)
  /\ \E kind \in Kinds : jobs' = [jobs EXCEPT ![j] = Admitted(@, kind)]
  /\ UNCHANGED copies

Closing(j, o) ==
  /\ jobs[j].status \in {"queued", "processing"}
  /\ jobs' = [jobs EXCEPT ![j] = Closed(@, o)]
  /\ UNCHANGED copies

Publishing(j) ==
  /\ jobs[j].status = "processing"
  /\ jobs' = [jobs EXCEPT ![j] = Published(@)]
  /\ copies' = IF jobs[j].kind = "sanitize" THEN [copies EXCEPT ![j] = "stored"] ELSE copies

Removing(j) ==
  /\ copies[j] = "stored" /\ copies' = [copies EXCEPT ![j] = "removed"]
  /\ UNCHANGED jobs

OpenStatus == {"queued", "processing"}

\* A step that no outcome and no copy shows.
Invisible ==
  /\ \A i \in Job : /\ jobs'[i].tenant = jobs[i].tenant
                    /\ \/ jobs'[i].status = jobs[i].status
                       \/ jobs[i].status \in OpenStatus /\ jobs'[i].status \in OpenStatus
  /\ UNCHANGED copies

LEMMA QuietWrite ==
  ASSUME SafetyInv, NEW j \in Job, UNCHANGED copies,
         \/ jobs[j].status = "processing" /\ jobs' = [jobs EXCEPT ![j] = Requeued(@)]
         \/ jobs[j].status = "queued" /\ jobs' = [jobs EXCEPT ![j] = Leased(@)]
         \/ jobs' = [jobs EXCEPT ![j] = Expired(@)]
         \/ jobs' = [jobs EXCEPT ![j] = Tombstoned(@)]
         \/ \E d \in Digests : jobs' = [jobs EXCEPT ![j] = Marked(@, d)]
  PROVE  Invisible
<1>1. jobs[j] \in JobRow
  BY DEF SafetyInv, TypeOK
<1>2. /\ jobs'[j].tenant = jobs[j].tenant
      /\ \/ jobs'[j].status = jobs[j].status
         \/ jobs[j].status \in OpenStatus /\ jobs'[j].status \in OpenStatus
  BY <1>1, RowEffects DEF SafetyInv, TypeOK, OpenStatus
<1>3. \A i \in Job : i # j => jobs'[i] = jobs[i]
  BY DEF SafetyInv, TypeOK
<1> QED BY <1>2, <1>3 DEF Invisible

LEMMA WhatAStepShows ==
  ASSUME SafetyInv, [Next]_vars
  PROVE  \/ Invisible
         \/ \E j \in Job : \/ Admission(j) \/ Publishing(j) \/ Removing(j)
                           \/ Closing(j, "failed") \/ Closing(j, "cancelled")
<1> USE DEF SafetyInv, store
<1>1. UNCHANGED <<jobs, copies>> => Invisible
  BY DEF Invisible
<1>2. ASSUME NEW j \in Job, Request(j)
      PROVE  \/ Invisible \/ Admission(j) \/ Removing(j) \/ Closing(j, "cancelled")
  <2>1. ASSUME NEW kind \in Kinds, Admit(j, kind) PROVE Admission(j)
    BY <2>1 DEF Admit, Fresh, Admission
  <2>2. CASE Cancel(j)
    BY <2>2 DEF Cancel, Closing, ActiveMatchesStatus
  <2>3. CASE DeleteTombstone(j)
    BY <2>3, QuietWrite DEF DeleteTombstone
  <2>4. CASE DeleteObject(j)
    BY <2>4, <1>1 DEF DeleteObject
  <2>5. CASE DeleteRow(j)
    BY <2>5 DEF DeleteRow, Removing
  <2> QED BY <1>2, <2>1, <2>2, <2>3, <2>4, <2>5 DEF Request, SubmitScan, SubmitSanitize, Kinds
<1>3. ASSUME NEW w \in Workers, Serve(w) \/ Crash(w)
      PROVE  \/ Invisible
             \/ \E j \in Job : Publishing(j) \/ Closing(j, "failed")
  <2>1. CASE \/ Tick(w) \/ RecoverDone(w) \/ SweepNothing(w) \/ ClaimNothing(w)
             \/ MarkRefused(w) \/ JobFails(w) \/ Crash(w)
             \/ (\E j \in Job : Sweep(w, j)) \/ SweepConfirm(w)
             \/ Fetch(w) \/ Compute(w) \/ PutAcknowledged(w) \/ Publish(w) \/ CommitConflict(w)
             \/ Erase(w) \/ EraseTimesOut(w)
    BY <2>1, <1>1 DEF Tick, RecoverDone, SweepNothing, ClaimNothing, MarkRefused, JobFails,
       Crash, Sweep, SweepConfirm, Fetch, Compute, PutAcknowledged, Publish, CommitConflict,
       Erase, EraseTimesOut
  <2>2. CASE Recover(w)
    <3>1. PICK seen \in worker[w].expired :
            \/ /\ StillOverdue(seen)
               /\ jobs' = [jobs EXCEPT ![seen.job] =
                             IF Exhausted(seen) THEN Closed(@, "failed") ELSE Requeued(@)]
            \/ UNCHANGED <<jobs, events>>
      BY <2>2 DEF Recover
    <3>2. seen.job \in Job
      BY LocalFields DEF Expiry
    <3>3. UNCHANGED copies
      BY <2>2 DEF Recover
    <3>4. CASE UNCHANGED jobs
      BY <3>3, <3>4, <1>1
    <3>5. CASE StillOverdue(seen) /\ jobs' = [jobs EXCEPT ![seen.job] = Closed(@, "failed")]
      BY <3>2, <3>3, <3>5 DEF StillOverdue, Closing
    <3>6. CASE StillOverdue(seen) /\ jobs' = [jobs EXCEPT ![seen.job] = Requeued(@)]
      BY <3>2, <3>3, <3>6, QuietWrite DEF StillOverdue
    <3> QED BY <3>1, <3>4, <3>5, <3>6
  <2>3. CASE TerminalStep(w)
    <3>1. worker[w].job \in Job
      BY <2>3 DEF TerminalStep, WorkersAreSound, Sound, HoldsJob, Running
    <3> QED BY <2>3, <3>1, <1>1 DEF TerminalStep, Claimed, Closing
  <2>4. CASE Claim(w)
    BY <2>4, QuietWrite DEF Claim, Queued
  <2>5. CASE Mark(w)
    <3>1. worker[w].job \in Job /\ worker[w].output \in Digests
      BY <2>5 DEF Mark, WorkersAreSound, Sound, HoldsJob, KnowsKind, Running
    <3> QED BY <2>5, <3>1, QuietWrite DEF Mark
  <2>6. CASE Commit(w)
    <3>1. worker[w].job \in Job
      BY <2>6 DEF Commit, WorkersAreSound, Sound, HoldsJob, Running
    <3> QED BY <2>6, <3>1 DEF Commit, NoWriteConflict, Publishing
  <2> QED BY <1>3, <2>1, <2>2, <2>3, <2>4, <2>5, <2>6 DEF Serve
<1>4. CASE Surroundings
  <2>1. ASSUME NEW j \in Job, LeaseExpires(j) PROVE Invisible
    BY <2>1, QuietWrite DEF LeaseExpires
  <2>2. CASE \/ \E p \in puts : PutLands(p) \/ PutIsLost(p)
             \/ \E j \in erasing : EraseLands(j) \/ EraseIsLost(j)
             \/ \E t \in Tenants : AccessChanges(t)
    BY <2>2, <1>1 DEF PutLands, PutIsLost, EraseLands, EraseIsLost, AccessChanges
  <2> QED BY <1>4, <2>1, <2>2 DEF Surroundings
<1>5. CASE UNCHANGED vars
  BY <1>5, <1>1 DEF vars
<1> QED BY <1>2, <1>3, <1>4, <1>5 DEF Next

\* The row a step closes, opens or publishes, and the rows it leaves alone.
LEMMA ShownRows ==
  ASSUME SafetyInv, NEW j \in Job
  PROVE  /\ Admission(j) => jobs'[j].status = "queued" /\ jobs'[j].tenant = jobs[j].tenant
         /\ Publishing(j) => /\ jobs'[j].status = "completed"
                             /\ jobs'[j].tenant = jobs[j].tenant
         /\ \A o \in Terminal : Closing(j, o) => /\ jobs'[j].status = o
                                                 /\ jobs'[j].tenant = jobs[j].tenant
         /\ \/ Admission(j) \/ Publishing(j) \/ \E o \in Terminal : Closing(j, o)
            => \A i \in Job : i # j => jobs'[i] = jobs[i]
<1>1. jobs[j] \in JobRow
  BY DEF SafetyInv, TypeOK
<1>2. Admission(j) => jobs'[j].status = "queued" /\ jobs'[j].tenant = jobs[j].tenant
  BY <1>1, RowEffects DEF SafetyInv, TypeOK, Admission
<1>3. Publishing(j) => jobs'[j].status = "completed" /\ jobs'[j].tenant = jobs[j].tenant
  BY <1>1, RowEffects DEF SafetyInv, TypeOK, Publishing
<1>4. ASSUME NEW o \in Terminal, Closing(j, o)
      PROVE  jobs'[j].status = o /\ jobs'[j].tenant = jobs[j].tenant
  BY <1>1, <1>4, RowEffects DEF SafetyInv, TypeOK, Closing
<1>5. \/ Admission(j) \/ Publishing(j) \/ \E o \in Terminal : Closing(j, o)
      => \A i \in Job : i # j => jobs'[i] = jobs[i]
  BY DEF SafetyInv, TypeOK, Admission, Publishing, Closing
<1> QED BY <1>2, <1>3, <1>4, <1>5

\* A closed job stays as it is, whoever still holds its id: the token, the fences
\* and the active flag stop every later write of its status.
THEOREM ClosedStaysClosed == Spec => ClosedIsFinal
<1>1. SafetyInv /\ [Next]_vars =>
        \A j \in Job : jobs[j].status \in Terminal => jobs'[j].status = jobs[j].status
  <2> SUFFICES ASSUME SafetyInv, [Next]_vars, NEW j \in Job, jobs[j].status \in Terminal
               PROVE  jobs'[j].status = jobs[j].status
    OBVIOUS
  <2>1. "failed" \in Terminal /\ "cancelled" \in Terminal
    BY DEF Terminal
  <2>2. CASE Invisible
    BY <2>2 DEF Invisible, OpenStatus, Terminal
  <2>3. ASSUME NEW i \in Job,
               \/ Admission(i) \/ Publishing(i)
               \/ Closing(i, "failed") \/ Closing(i, "cancelled")
        PROVE  jobs'[j].status = jobs[j].status
    <3>1. jobs[i].status \in {"absent", "queued", "processing"}
      BY <2>3 DEF Admission, Publishing, Closing
    <3>2. i # j
      BY <3>1 DEF Terminal
    <3> QED BY <2>1, <2>3, <3>2, ShownRows
  <2>4. ASSUME NEW i \in Job, Removing(i) PROVE jobs'[j].status = jobs[j].status
    BY <2>4 DEF Removing
  <2> QED BY <2>2, <2>3, <2>4, WhatAStepShows
<1> QED BY SafetyHolds, <1>1, PTL DEF Spec, ClosedIsFinal

------------------------------------------------------------------------------
(* The refinement.                                                           *)

LEMMA LedgerStarts == Init => Ledger!LedgerInit
<1> SUFFICES ASSUME Init PROVE Ledger!LedgerInit
  OBVIOUS
<1>1. \A j \in Job : jobs[j].tenant \in Tenants /\ jobs[j].status = "absent"
  BY DEF Init, Unused
<1>2. copies = [j \in Job |-> "none"]
  BY DEF Init
<1> QED BY <1>1, <1>2 DEF Ledger!LedgerInit

LEMMA LedgerSteps ==
  ASSUME SafetyInv, [Next]_vars
  PROVE  [Ledger!LedgerNext]_(Ledger!ledger)
<1> DEFINE tenant == [j \in Job |-> jobs[j].tenant]
           outcome == [j \in Job |-> IF jobs[j].status = "absent" THEN "none"
                                     ELSE IF jobs[j].status \in Terminal THEN jobs[j].status
                                     ELSE "open"]
<1>1. \A j \in Job : jobs[j].status \in {"absent", "queued", "processing"} \cup Terminal
  BY DEF SafetyInv, TypeOK, JobRow
<1>2. "failed" \in Terminal /\ "cancelled" \in Terminal /\ "completed" \in Terminal
  BY DEF Terminal
<1>3. CASE Invisible
  <2>1. tenant' = tenant
    BY <1>3 DEF Invisible
  <2>2. outcome' = outcome
    BY <1>1, <1>3 DEF Invisible, OpenStatus, Terminal
  <2> QED BY <1>3, <2>1, <2>2 DEF Invisible, Ledger!ledger
<1>4. ASSUME NEW j \in Job, Admission(j) PROVE Ledger!Open(j)
  <2>1. outcome[j] = "none"
    BY <1>4 DEF Admission
  <2>2. \A i \in Job : tenant[i] = tenant[j] => outcome[i] # "open"
    BY <1>1, <1>4 DEF Admission, TenantIsFree, SafetyInv, ActiveMatchesStatus, Terminal
  <2>3. outcome' = [outcome EXCEPT ![j] = "open"] /\ tenant' = tenant
    BY <1>4, ShownRows DEF Terminal
  <2> QED BY <1>4, <2>1, <2>2, <2>3 DEF Ledger!Open, Admission
<1>5. ASSUME NEW j \in Job, NEW o \in {"failed", "cancelled"}, Closing(j, o)
      PROVE  Ledger!Close(j, o)
  <2>1. outcome[j] = "open"
    BY <1>5 DEF Closing, Terminal
  <2>2. outcome' = [outcome EXCEPT ![j] = o] /\ tenant' = tenant
    BY <1>2, <1>5, ShownRows DEF Terminal
  <2> QED BY <1>5, <2>1, <2>2 DEF Ledger!Close, Closing
<1>6. ASSUME NEW j \in Job, Publishing(j) PROVE Ledger!Close(j, "completed")
  <2>1. outcome[j] = "open"
    BY <1>6 DEF Publishing, Terminal
  <2>2. outcome' = [outcome EXCEPT ![j] = "completed"] /\ tenant' = tenant
    BY <1>2, <1>6, ShownRows DEF Terminal
  <2>3. copies[j] = "none"
    BY <1>6 DEF Publishing, SafetyInv, CopiesAreResults
  <2> QED BY <1>6, <2>1, <2>2, <2>3 DEF Ledger!Close, Publishing
<1>7. ASSUME NEW j \in Job, Removing(j) PROVE Ledger!Remove(j)
  <2>1. tenant' = tenant /\ outcome' = outcome
    BY <1>7 DEF Removing
  <2> QED BY <1>7, <2>1 DEF Ledger!Remove, Removing
<1> QED BY <1>3, <1>4, <1>5, <1>6, <1>7, WhatAStepShows DEF Ledger!LedgerNext, Ledger!Outcomes

\* Workers, leases, recovery and the storage protocol implement the ledger: one
\* open job per tenant, one outcome per job, a copy exactly with its success.
THEOREM JobsImplementLedger == Spec => ImplementsLedger
<1>1. Init => Ledger!LedgerInit
  BY LedgerStarts
<1>2. SafetyInv /\ [Next]_vars => [Ledger!LedgerNext]_(Ledger!ledger)
  BY LedgerSteps
<1> QED BY SafetyHolds, <1>1, <1>2, PTL DEF Spec, ImplementsLedger, Ledger!LedgerSpec

------------------------------------------------------------------------------
(* The event log.                                                            *)

\* What one row's events may say, status by status.
Told(row, log) ==
  /\ row.attempts <= MaxAttempts
  /\ row.status = "absent" => row.attempts = 0 /\ log["queued"] = 0
  /\ row.status = "queued" => /\ row.attempts < MaxAttempts
                              /\ log["queued"] = row.attempts + 1
  /\ row.status = "cancelled" => log["queued"] \in {row.attempts, row.attempts + 1}
  /\ row.status \in {"processing", "completed", "failed"} => log["queued"] = row.attempts
  /\ \A a \in Terminal : log[a] = IF row.status = a THEN 1 ELSE 0

RowsAreTold == \A j \in Job : Told(jobs[j], events[j])

Entered(log, action) == [log EXCEPT ![action] = @ + 1]

LEMMA ToldByRow ==
  ASSUME TypeOK
  PROVE  RowsAreTold <=> EventsTellHistory /\ ClaimsAreLeft
<1>1. \A j \in Job : jobs[j].status \in {"absent", "queued", "processing", "completed",
                                         "failed", "cancelled"}
  BY DEF TypeOK, JobRow, Terminal
<1>2. ASSUME EventsTellHistory, ClaimsAreLeft, NEW j \in Job PROVE Told(jobs[j], events[j])
  BY <1>1, <1>2 DEF EventsTellHistory, ClaimsAreLeft, Told
<1>3. ASSUME RowsAreTold, NEW j \in Job
      PROVE  /\ jobs[j].attempts <= MaxAttempts
             /\ events[j]["queued"] \in
                  CASE jobs[j].status = "absent" -> {0}
                    [] jobs[j].status = "queued" -> {jobs[j].attempts + 1}
                    [] jobs[j].status = "cancelled" -> {jobs[j].attempts, jobs[j].attempts + 1}
                    [] OTHER -> {jobs[j].attempts}
             /\ \A a \in Terminal : events[j][a] = IF jobs[j].status = a THEN 1 ELSE 0
  <2>1. Told(jobs[j], events[j])
    BY <1>3 DEF RowsAreTold
  <2> QED BY <1>1, <2>1 DEF Told
<1>4. RowsAreTold => ClaimsAreLeft
  BY DEF RowsAreTold, Told, ClaimsAreLeft
<1> QED BY <1>2, <1>3, <1>4 DEF RowsAreTold, EventsTellHistory

\* Every write of a row comes with the event that tells it, and the others with none.
LEMMA WritesAreTold ==
  ASSUME NEW row \in JobRow, NEW log \in [Actions -> Nat], Told(row, log)
  PROVE
    /\ row.status = "absent" =>
         \A kind \in Kinds : Told(Admitted(row, kind), Entered(log, "queued"))
    /\ row.status = "queued" => Told(Leased(row), log)
    /\ row.status = "processing" /\ row.attempts < MaxAttempts =>
         Told(Requeued(row), Entered(log, "queued"))
    /\ row.status \in {"queued", "processing"} =>
         Told(Closed(row, "cancelled"), Entered(log, "cancelled"))
    /\ row.status = "processing" =>
         /\ Told(Closed(row, "failed"), Entered(log, "failed"))
         /\ Told(Published(row), Entered(log, "completed"))
    /\ Told(Tombstoned(row), log)
    /\ Told(Expired(row), log)
    /\ \A d \in Digests : Told(Marked(row, d), log)
<1>1. /\ row.attempts \in Nat /\ row.attempts + 1 \in Nat /\ MaxAttempts \in Nat \ {0}
      /\ \A a \in Actions : log[a] \in Nat
      /\ {"failed", "cancelled", "completed"} = Terminal
  BY AttemptsAssumption DEF JobRow, Terminal
<1>2. ASSUME NEW a \in Actions
      PROVE  /\ Entered(log, a)[a] = log[a] + 1
             /\ \A b \in Actions : b # a => Entered(log, a)[b] = log[b]
  BY DEF Entered
<1>3. Actions = {"queued", "failed", "cancelled", "completed"}
  BY <1>1 DEF Actions
<1>4. ASSUME NEW kind \in Kinds, row.status = "absent"
      PROVE  Told(Admitted(row, kind), Entered(log, "queued"))
  <2>1. /\ Admitted(row, kind).status = "queued"
        /\ Admitted(row, kind).attempts = row.attempts
    BY RowEffects
  <2> QED BY <1>1, <1>2, <1>3, <1>4, <2>1 DEF Told
<1>5. ASSUME row.status = "queued" PROVE Told(Leased(row), log)
  <2>1. Leased(row).status = "processing" /\ Leased(row).attempts = row.attempts + 1
    BY RowEffects
  <2> QED BY <1>1, <1>3, <1>5, <2>1 DEF Told
<1>6. ASSUME row.status = "processing", row.attempts < MaxAttempts
      PROVE  Told(Requeued(row), Entered(log, "queued"))
  <2>1. Requeued(row).status = "queued" /\ Requeued(row).attempts = row.attempts
    BY RowEffects
  <2> QED BY <1>1, <1>2, <1>3, <1>6, <2>1 DEF Told
<1>7. \A o \in Terminal : /\ Closed(row, o).status = o
                          /\ Closed(row, o).attempts = row.attempts
  BY RowEffects
<1>8. ASSUME row.status \in {"queued", "processing"}
      PROVE  Told(Closed(row, "cancelled"), Entered(log, "cancelled"))
  <2>1. /\ Closed(row, "cancelled").status = "cancelled"
        /\ Closed(row, "cancelled").attempts = row.attempts
    BY <1>1, <1>7
  <2> QED BY <1>1, <1>2, <1>3, <1>8, <2>1 DEF Told
<1>9. ASSUME row.status = "processing"
      PROVE  Told(Closed(row, "failed"), Entered(log, "failed"))
  <2>1. /\ Closed(row, "failed").status = "failed"
        /\ Closed(row, "failed").attempts = row.attempts
    BY <1>1, <1>7
  <2> QED BY <1>1, <1>2, <1>3, <1>9, <2>1 DEF Told
<1>10. ASSUME row.status = "processing"
       PROVE  Told(Published(row), Entered(log, "completed"))
  <2>1. Published(row).status = "completed" /\ Published(row).attempts = row.attempts
    BY RowEffects
  <2> QED BY <1>1, <1>2, <1>3, <1>10, <2>1 DEF Told
<1>11. ASSUME NEW r, r.status = row.status, r.attempts = row.attempts PROVE Told(r, log)
  BY <1>11 DEF Told
<1>12. Told(Tombstoned(row), log) /\ Told(Expired(row), log)
  <2>1. /\ Tombstoned(row).status = row.status /\ Tombstoned(row).attempts = row.attempts
        /\ Expired(row).status = row.status /\ Expired(row).attempts = row.attempts
    BY RowEffects
  <2> QED BY <1>11, <2>1
<1>13. ASSUME NEW d \in Digests PROVE Told(Marked(row, d), log)
  <2>1. Marked(row, d).status = row.status /\ Marked(row, d).attempts = row.attempts
    BY RowEffects
  <2> QED BY <1>11, <2>1
<1> QED BY <1>4, <1>5, <1>6, <1>8, <1>9, <1>10, <1>12, <1>13

\* What a step that writes a row, and the events with it, must show.
LEMMA RowAndEvents ==
  ASSUME TypeOK, RowsAreTold, NEW j \in Job, NEW r, NEW log,
         jobs' = [jobs EXCEPT ![j] = r], events' = [events EXCEPT ![j] = log],
         Told(r, log)
  PROVE  RowsAreTold'
<1>1. /\ jobs'[j] = r /\ events'[j] = log
      /\ \A i \in Job : i # j => jobs'[i] = jobs[i] /\ events'[i] = events[i]
  BY DEF TypeOK
<1>2. ASSUME NEW i \in Job PROVE Told(jobs'[i], events'[i])
  <2>1. CASE i = j
    BY <1>1, <2>1
  <2>2. CASE i # j
    BY <1>1, <2>2 DEF RowsAreTold
  <2> QED BY <2>1, <2>2
<1> QED BY <1>2 DEF RowsAreTold

\* ... and a step that writes a row without an event.
LEMMA RowWithoutEvent ==
  ASSUME TypeOK, RowsAreTold, NEW j \in Job, NEW r,
         jobs' = [jobs EXCEPT ![j] = r], UNCHANGED events, Told(r, events[j])
  PROVE  RowsAreTold'
<1>1. events' = [events EXCEPT ![j] = events[j]]
  BY DEF TypeOK
<1> QED BY <1>1, RowAndEvents

LEMMA NothingTold ==
  ASSUME RowsAreTold, UNCHANGED <<jobs, events>>
  PROVE  RowsAreTold'
  BY DEF RowsAreTold

\* The row a step starts from, and the log it adds to.
LEMMA ToldSoFar ==
  ASSUME TypeOK, RowsAreTold, NEW j \in Job
  PROVE  /\ jobs[j] \in JobRow
         /\ events[j] \in [Actions -> Nat]
         /\ Told(jobs[j], events[j])
         /\ \A a \in Actions : Logged(j, a) = [events EXCEPT ![j] = Entered(events[j], a)]
  BY DEF TypeOK, RowsAreTold, Logged, Entered

\* A recovering worker puts a row back only while a claim is left: the attempts it
\* has read are the row's, because the token it has read still is.
LEMMA RecoveryIsTold ==
  ASSUME SafetyInv, RowsAreTold, ExpiriesAreClaims, NEW w \in Workers, Recover(w)
  PROVE  RowsAreTold'
<1> USE DEF SafetyInv
<1>1. PICK seen \in worker[w].expired :
        \/ /\ StillOverdue(seen)
           /\ jobs' = [jobs EXCEPT ![seen.job] =
                         IF Exhausted(seen) THEN Closed(@, "failed") ELSE Requeued(@)]
           /\ events' = Logged(seen.job, IF Exhausted(seen) THEN "failed" ELSE "queued")
        \/ UNCHANGED <<jobs, events>>
  BY DEF Recover
<1>2. PICK j \in Job : j = seen.job
  BY LocalFields DEF Expiry
<1>3. /\ jobs[j] \in JobRow /\ events[j] \in [Actions -> Nat]
      /\ Told(jobs[j], events[j])
      /\ "failed" \in Actions /\ "queued" \in Actions
  BY ToldSoFar DEF Actions, Terminal
<1>4. CASE UNCHANGED <<jobs, events>>
  BY <1>4, NothingTold
<1>5. ASSUME StillOverdue(seen), Exhausted(seen),
             jobs' = [jobs EXCEPT ![j] = Closed(@, "failed")], events' = Logged(j, "failed")
      PROVE  RowsAreTold'
  <2>1. Told(Closed(jobs[j], "failed"), Entered(events[j], "failed"))
    BY <1>2, <1>3, <1>5, WritesAreTold DEF StillOverdue
  <2>2. events' = [events EXCEPT ![j] = Entered(events[j], "failed")]
    BY <1>3, <1>5, ToldSoFar
  <2> QED BY <1>5, <2>1, <2>2, RowAndEvents
<1>6. ASSUME StillOverdue(seen), ~ Exhausted(seen),
             jobs' = [jobs EXCEPT ![j] = Requeued(@)], events' = Logged(j, "queued")
      PROVE  RowsAreTold'
  <2>1. jobs[j].status = "processing" /\ jobs[j].attempts = seen.attempts
    BY <1>2, <1>6 DEF StillOverdue, OneOpenJobPerTenant, ExpiriesAreClaims
  <2>2. jobs[j].attempts < MaxAttempts
    BY <1>3, <1>6, <2>1, AttemptsAssumption DEF Exhausted, JobRow
  <2>3. Told(Requeued(jobs[j]), Entered(events[j], "queued"))
    BY <1>3, <2>1, <2>2, WritesAreTold
  <2> QED BY <1>3, <1>6, <2>3, ToldSoFar, RowAndEvents
<1> QED BY <1>1, <1>2, <1>4, <1>5, <1>6

LEMMA StepIsTold ==
  ASSUME SafetyInv, RowsAreTold, ExpiriesAreClaims, [Next]_vars
  PROVE  RowsAreTold'
<1> USE DEF SafetyInv
<1>a. /\ "queued" \in Actions /\ "failed" \in Actions
      /\ "cancelled" \in Actions /\ "completed" \in Actions
  BY DEF Actions, Terminal
<1>1. ASSUME NEW j \in Job, Request(j) PROVE RowsAreTold'
  <2>1. ASSUME NEW kind \in Kinds, Admit(j, kind) PROVE RowsAreTold'
    <3>1. Told(Admitted(jobs[j], kind), Entered(events[j], "queued"))
      BY <2>1, ToldSoFar, WritesAreTold DEF Admit, Fresh
    <3>2. /\ jobs' = [jobs EXCEPT ![j] = Admitted(jobs[j], kind)]
          /\ events' = [events EXCEPT ![j] = Entered(events[j], "queued")]
      BY <1>a, <2>1, ToldSoFar DEF Admit
    <3> QED BY <3>1, <3>2, RowAndEvents
  <2>2. CASE Cancel(j)
    <3>1. jobs[j].status \in {"queued", "processing"}
      BY <2>2 DEF Cancel, ActiveMatchesStatus
    <3>2. Told(Closed(jobs[j], "cancelled"), Entered(events[j], "cancelled"))
      BY <3>1, ToldSoFar, WritesAreTold
    <3>3. /\ jobs' = [jobs EXCEPT ![j] = Closed(jobs[j], "cancelled")]
          /\ events' = [events EXCEPT ![j] = Entered(events[j], "cancelled")]
      BY <1>a, <2>2, ToldSoFar DEF Cancel
    <3> QED BY <3>2, <3>3, RowAndEvents
  <2>3. CASE DeleteTombstone(j)
    <3>1. jobs' = [jobs EXCEPT ![j] = Tombstoned(jobs[j])] /\ UNCHANGED events
      BY <2>3 DEF DeleteTombstone
    <3> QED BY <3>1, ToldSoFar, WritesAreTold, RowWithoutEvent
  <2>4. CASE DeleteObject(j) \/ DeleteRow(j)
    BY <2>4, NothingTold DEF DeleteObject, DeleteRow
  <2> QED BY <1>1, <2>1, <2>2, <2>3, <2>4 DEF Request, SubmitScan, SubmitSanitize, Kinds
<1>2. ASSUME NEW w \in Workers, Serve(w) \/ Crash(w) PROVE RowsAreTold'
  <2>1. CASE \/ Tick(w) \/ RecoverDone(w) \/ SweepNothing(w) \/ ClaimNothing(w)
             \/ MarkRefused(w) \/ JobFails(w) \/ Crash(w)
             \/ (\E j \in Job : Sweep(w, j)) \/ SweepConfirm(w)
             \/ Fetch(w) \/ Compute(w) \/ PutAcknowledged(w) \/ Publish(w) \/ CommitConflict(w)
             \/ Erase(w) \/ EraseTimesOut(w)
    BY <2>1, NothingTold DEF Tick, RecoverDone, SweepNothing, ClaimNothing, MarkRefused,
       JobFails, Crash, Sweep, SweepConfirm, Fetch, Compute, PutAcknowledged, Publish,
       CommitConflict, Erase, EraseTimesOut
  <2>2. CASE Recover(w)
    BY <2>2, RecoveryIsTold
  <2>3. CASE Claim(w)
    <3>1. PICK j \in Job : Queued(j) /\ jobs' = [jobs EXCEPT ![j] = Leased(jobs[j])]
      BY <2>3 DEF Claim
    <3>2. Told(Leased(jobs[j]), events[j])
      BY <3>1, ToldSoFar, WritesAreTold DEF Queued
    <3> QED BY <2>3, <3>1, <3>2, RowWithoutEvent DEF Claim
  <2>4. CASE Mark(w)
    <3>1. PICK j \in Job, d \in Digests : j = worker[w].job /\ d = worker[w].output
      BY <2>4 DEF Mark, WorkersAreSound, Sound, HoldsJob, KnowsKind, Running
    <3>2. jobs' = [jobs EXCEPT ![j] = Marked(jobs[j], d)] /\ UNCHANGED events
      BY <2>4, <3>1 DEF Mark
    <3> QED BY <3>2, ToldSoFar, WritesAreTold, RowWithoutEvent
  <2>5. CASE Commit(w)
    <3>1. PICK j \in Job : j = worker[w].job
      BY <2>5 DEF Commit, WorkersAreSound, Sound, HoldsJob, Running
    <3>2. /\ jobs[j].status = "processing"
          /\ jobs' = [jobs EXCEPT ![j] = Published(jobs[j])]
          /\ events' = [events EXCEPT ![j] = Entered(events[j], "completed")]
      BY <1>a, <2>5, <3>1, ToldSoFar DEF Commit, NoWriteConflict
    <3>3. Told(Published(jobs[j]), Entered(events[j], "completed"))
      BY <3>2, ToldSoFar, WritesAreTold
    <3> QED BY <3>2, <3>3, RowAndEvents
  <2>6. CASE TerminalStep(w)
    <3>1. PICK j \in Job : j = worker[w].job
      BY <2>6 DEF TerminalStep, WorkersAreSound, Sound, HoldsJob, Running
    <3>2. CASE ~ Claimed(w)
      BY <2>6, <3>2, NothingTold DEF TerminalStep
    <3>3. CASE Claimed(w)
      <4>1. /\ jobs[j].status = "processing"
            /\ jobs' = [jobs EXCEPT ![j] = Closed(jobs[j], "failed")]
            /\ events' = [events EXCEPT ![j] = Entered(events[j], "failed")]
        BY <1>a, <2>6, <3>1, <3>3, ToldSoFar DEF TerminalStep, Claimed
      <4>2. Told(Closed(jobs[j], "failed"), Entered(events[j], "failed"))
        BY <4>1, ToldSoFar, WritesAreTold
      <4> QED BY <4>1, <4>2, RowAndEvents
    <3> QED BY <3>2, <3>3
  <2> QED BY <1>2, <2>1, <2>2, <2>3, <2>4, <2>5, <2>6 DEF Serve
<1>3. CASE Surroundings
  <2>1. ASSUME NEW j \in Job, LeaseExpires(j) PROVE RowsAreTold'
    <3>1. jobs' = [jobs EXCEPT ![j] = Expired(jobs[j])] /\ UNCHANGED events
      BY <2>1 DEF LeaseExpires
    <3> QED BY <3>1, ToldSoFar, WritesAreTold, RowWithoutEvent
  <2>2. CASE \/ \E p \in puts : PutLands(p) \/ PutIsLost(p)
             \/ \E j \in erasing : EraseLands(j) \/ EraseIsLost(j)
             \/ \E t \in Tenants : AccessChanges(t)
    BY <2>2, NothingTold DEF PutLands, PutIsLost, EraseLands, EraseIsLost, AccessChanges
  <2> QED BY <1>3, <2>1, <2>2 DEF Surroundings
<1>4. CASE UNCHANGED vars
  BY <1>4, NothingTold DEF vars
<1> QED BY <1>1, <1>2, <1>3, <1>4 DEF Next

\* What a recovering worker remembers are claims: it reads them off rows that are
\* being processed, and only ever forgets some.
LEMMA StepKeepsExpiries ==
  ASSUME SafetyInv, ExpiriesAreClaims, [Next]_vars
  PROVE  ExpiriesAreClaims'
<1> USE DEF SafetyInv
<1>1. ASSUME NEW w \in Workers, OthersStay(w), worker' \in [Workers -> Local],
             \A seen \in worker'[w].expired : seen.token = seen.attempts
      PROVE  ExpiriesAreClaims'
  BY <1>1 DEF ExpiriesAreClaims, OthersStay
<1>2. ASSUME UNCHANGED worker PROVE ExpiriesAreClaims'
  BY <1>2 DEF ExpiriesAreClaims
<1>3. ASSUME NEW w \in Workers, NEW s \in Stages, GoTo(w, s) PROVE ExpiriesAreClaims'
  BY <1>3 DEF GoTo, At, TypeOK, Local, ExpiriesAreClaims
<1>4. ASSUME NEW w \in Workers, Rest(w) PROVE ExpiriesAreClaims'
  BY <1>4 DEF Rest, Resting, TypeOK, ExpiriesAreClaims
<1>5. ASSUME NEW j \in Job, Request(j) PROVE ExpiriesAreClaims'
  BY <1>2, <1>5 DEF Request, SubmitScan, SubmitSanitize, Admit, Cancel, DeleteTombstone,
     DeleteObject, DeleteRow
<1>6. ASSUME NEW w \in Workers, Serve(w) \/ Crash(w) PROVE ExpiriesAreClaims'
  <2>1. CASE Tick(w)
    <3>1. PICK S \in SUBSET {j \in Job : Overdue(j)} :
            worker' = [worker EXCEPT ![w] = Recovering(@, {SeenAs(j) : j \in S})]
      BY <2>1 DEF Tick
    <3>2. \A j \in S : SeenAs(j).token = SeenAs(j).attempts
      BY DEF SeenAs, Overdue, OneOpenJobPerTenant
    <3>3. /\ worker'[w].expired = {SeenAs(j) : j \in S}
          /\ \A v \in Workers : v # w => worker'[v] = worker[v]
      BY <3>1 DEF Recovering, TypeOK, Local
    <3> QED BY <3>2, <3>3 DEF ExpiriesAreClaims
  <2>2. CASE Recover(w)
    <3>1. PICK seen \in worker[w].expired :
            worker' = [worker EXCEPT ![w] = Recovering(@, @.expired \ {seen})]
      BY <2>2 DEF Recover
    <3>2. /\ worker'[w].expired \subseteq worker[w].expired
          /\ \A v \in Workers : v # w => worker'[v] = worker[v]
      BY <3>1 DEF Recovering, TypeOK, Local
    <3> QED BY <3>2 DEF ExpiriesAreClaims
  <2>3. ASSUME NEW j \in Job, Sweep(w, j) PROVE ExpiriesAreClaims'
    <3>1. /\ worker'[w].expired = worker[w].expired
          /\ \A v \in Workers : v # w => worker'[v] = worker[v]
      BY <2>3 DEF Sweep, Sweeping, TypeOK, Local
    <3> QED BY <3>1 DEF ExpiriesAreClaims
  <2>4. CASE Claim(w)
    <3>1. PICK j \in Job : worker' = [worker EXCEPT ![w] = Holding(j, Leased(jobs[j]))]
      BY <2>4 DEF Claim
    <3>2. /\ worker'[w].expired = {}
          /\ \A v \in Workers : v # w => worker'[v] = worker[v]
      BY <3>1 DEF Holding, TypeOK
    <3> QED BY <3>2 DEF ExpiriesAreClaims
  <2>5. CASE Compute(w)
    <3>1. ASSUME NEW d \in Digests, worker' = [worker EXCEPT ![w] = Computed(@, d)]
          PROVE  ExpiriesAreClaims'
      <4>1. /\ worker'[w].expired = worker[w].expired
            /\ \A v \in Workers : v # w => worker'[v] = worker[v]
        BY <3>1 DEF Computed, TypeOK, Local
      <4> QED BY <4>1 DEF ExpiriesAreClaims
    <3> QED BY <2>5, <3>1, <1>3 DEF Compute, Stages
  <2>6. CASE \/ RecoverDone(w) \/ SweepNothing(w) \/ SweepConfirm(w) \/ Erase(w)
             \/ EraseTimesOut(w) \/ Fetch(w) \/ Mark(w) \/ MarkRefused(w)
             \/ PutAcknowledged(w) \/ CommitConflict(w) \/ JobFails(w)
    BY <2>6, <1>3 DEF RecoverDone, SweepNothing, SweepConfirm, Erase, EraseTimesOut, Fetch,
       Mark, MarkRefused, PutAcknowledged, CommitConflict, JobFails, Stages
  <2>7. CASE \/ ClaimNothing(w) \/ Publish(w) \/ Commit(w) \/ TerminalStep(w) \/ Crash(w)
    BY <2>7, <1>3, <1>4 DEF ClaimNothing, Publish, Commit, TerminalStep, Crash, Stages
  <2> QED BY <1>6, <2>1, <2>2, <2>3, <2>4, <2>5, <2>6, <2>7 DEF Serve
<1>7. CASE Surroundings
  BY <1>2, <1>7 DEF Surroundings, LeaseExpires, PutLands, PutIsLost, EraseLands, EraseIsLost,
     AccessChanges
<1>8. CASE UNCHANGED vars
  BY <1>2, <1>8 DEF vars
<1> QED BY <1>5, <1>6, <1>7, <1>8 DEF Next

LEMMA InitIsTold == Init => HistoryInv
<1> SUFFICES ASSUME Init PROVE HistoryInv
  OBVIOUS
<1>1. TypeOK
  BY InitTypeOK
<1>2. \A j \in Job : /\ jobs[j].status = "absent" /\ jobs[j].attempts = 0
                     /\ \A a \in Actions : events[j][a] = 0
  BY DEF Init, Unused
<1>3. RowsAreTold
  BY <1>2, AttemptsAssumption DEF RowsAreTold, Told, Actions, Terminal
<1>4. ExpiriesAreClaims
  BY DEF Init, Resting, ExpiriesAreClaims
<1> QED BY <1>1, <1>3, <1>4, ToldByRow DEF HistoryInv

LEMMA StepKeepsHistory == SafetyInv /\ HistoryInv /\ [Next]_vars => HistoryInv'
<1> SUFFICES ASSUME SafetyInv, HistoryInv, [Next]_vars PROVE HistoryInv'
  OBVIOUS
<1>1. RowsAreTold'
  BY ToldByRow, StepIsTold DEF HistoryInv, SafetyInv
<1>2. ExpiriesAreClaims'
  BY StepKeepsExpiries DEF HistoryInv
<1>3. TypeOK'
  BY StepIsSafe DEF SafetyInv
<1>4. EventsTellHistory' /\ ClaimsAreLeft'
  BY <1>1, <1>3, ToldByRow, PTL
<1> QED BY <1>2, <1>4 DEF HistoryInv

\* The events of a job tell its history, however its claims, recoveries, lost
\* acknowledgements and cancellations fall: each wait in the queue is entered once,
\* its end once, and no job is claimed more often than recovery allows.
THEOREM EventsAreTrue == Spec => []EventsTellHistory
<1>1. HistoryInv => EventsTellHistory
  BY DEF HistoryInv
<1> QED BY <1>1, SafetyHolds, InitIsTold, StepKeepsHistory, PTL DEF Spec

------------------------------------------------------------------------------
(* The redacted copy.                                                        *)

\* The marker is nothing any detector recognises: REDACTION_MARKER, detect().
LEMMA MarkerIsClean ==
  ASSUME NEW enabled, NEW region PROVE detect(Marker, enabled, region) = {}
<1>1. ~TokenIs(Marker, "email") /\ ~TokenIs(Marker, "ip")
  BY DEF TokenIs, Marker, First
<1>2. ~HasIban(Marker) /\ ~HasCard(Marker) /\ ~HasPhone(Marker, region)
  BY DEF HasIban, HasCard, HasPhone, Marker, First
<1> QED BY <1>1, <1>2 DEF detect, Categories

\* A category is found only if it is asked for.
LEMMA OnlyTheEnabled ==
  ASSUME NEW text, NEW enabled, NEW region
  PROVE  detect(text, enabled, region) \subseteq enabled \cap Categories
BY DEF detect

\* A finding is one of a scanned cell and a category found in it.
LEMMA FindingsAre ==
  ASSUME NEW book, NEW categories, NEW region, NEW f
  PROVE  f \in Findings(book, categories, region) <=>
           \E p \in DOMAIN book.cells : \E c \in categories :
             /\ IsScanned(book, p) /\ c \in detect(TextOf(book, p), categories, region)
             /\ f = [place |-> p, category |-> c, evidence |-> Evidence(c),
                     hidden |-> IsHidden(book, p)]
<1> DEFINE Pairs == {g \in (DOMAIN book.cells) \X categories :
                       /\ IsScanned(book, g[1])
                       /\ g[2] \in detect(TextOf(book, g[1]), categories, region)}
           Of(g) == [place |-> g[1], category |-> g[2], evidence |-> Evidence(g[2]),
                     hidden |-> IsHidden(book, g[1])]
<1>1. Findings(book, categories, region) = {Of(g) : g \in Pairs}
  BY DEF Findings
<1>2. \A p \in DOMAIN book.cells, c \in categories :
        (/\ IsScanned(book, p)
         /\ c \in detect(TextOf(book, p), categories, region)) <=> <<p, c>> \in Pairs
  OBVIOUS
<1>3. ASSUME NEW g \in Pairs PROVE g[1] \in DOMAIN book.cells /\ g[2] \in categories
                                   /\ g = <<g[1], g[2]>>
  OBVIOUS
<1> HIDE DEF Pairs
<1>4. f \in {Of(g) : g \in Pairs} <=> \E g \in Pairs : f = Of(g)
  OBVIOUS
<1>5. \A p, c : Of(<<p, c>>) = [place |-> p, category |-> c, evidence |-> Evidence(c),
                                hidden |-> IsHidden(book, p)]
  OBVIOUS
<1>6. ASSUME NEW g \in Pairs, f = Of(g)
      PROVE  \E p \in DOMAIN book.cells : \E c \in categories :
               <<p, c>> \in Pairs /\ f = Of(<<p, c>>)
  <2>1. /\ g[1] \in DOMAIN book.cells /\ g[2] \in categories
        /\ <<g[1], g[2]>> \in Pairs /\ f = Of(<<g[1], g[2]>>)
    BY <1>3, <1>6
  <2> QED BY <2>1
<1> HIDE DEF Of
<1> QED BY <1>1, <1>2, <1>4, <1>5, <1>6

------------------------------------------------------------------------------
(* The selection is made of cells, so all of it is redacted *)

LEMMA SelectionIsOfCells ==
  ASSUME NEW book, NEW o
  PROVE  /\ Selected(book, o) \subseteq DOMAIN book.cells
         /\ Changed(book, o) = Selected(book, o)
<1>1. DOMAIN Supported(book).cells = DOMAIN book.cells
  BY DEF Supported
<1>2. ASSUME NEW f \in Findings(book, o.categories, o.region)
      PROVE  f.place \in DOMAIN book.cells
  BY FindingsAre
<1>3. Selected(book, o) \subseteq DOMAIN book.cells
  BY <1>1, <1>2 DEF Selected, InColumn
<1> QED BY <1>1, <1>3 DEF Changed

\* The type a cell is written with, and the cells of the copy by place.
Written(book, p) ==
  IF book.cells[p].type \in {"s", "str"} THEN "inlineStr" ELSE book.cells[p].type

LEMMA RedactedIs ==
  ASSUME NEW book, NEW o
  PROVE  Redacted(book, o) =
           [state |-> book.state, hiddenRows |-> book.hiddenRows,
            hiddenColumns |-> book.hiddenColumns,
            cells |-> [p \in DOMAIN book.cells |->
              IF p \in Selected(book, o) THEN [type |-> "inlineStr", text |-> Marker]
              ELSE [type |-> Written(book, p), text |-> TextOf(book, p)]]]
<1> DEFINE Cells == [p \in DOMAIN book.cells |->
                       [type |-> Written(book, p), text |-> TextOf(book, p)]]
           MarkedCell == [type |-> "inlineStr", text |-> Marker]
           Mixed == [p \in DOMAIN book.cells |->
                       IF p \in Selected(book, o) THEN MarkedCell ELSE Cells[p]]
<1>1. Supported(book) = [state |-> book.state, hiddenRows |-> book.hiddenRows,
                         hiddenColumns |-> book.hiddenColumns, cells |-> Cells]
  BY DEF Supported, Written
<1>2. Supported(book).cells = Cells /\ DOMAIN Cells = DOMAIN book.cells
  BY <1>1
<1>3. Changed(book, o) = Selected(book, o)
  BY SelectionIsOfCells
<1>4. Redacted(book, o) = [Supported(book) EXCEPT !.cells = Mixed]
  BY <1>2, <1>3 DEF Redacted
<1>5. Mixed = [p \in DOMAIN book.cells |->
                 IF p \in Selected(book, o) THEN MarkedCell
                 ELSE [type |-> Written(book, p), text |-> TextOf(book, p)]]
  OBVIOUS
<1> HIDE DEF Cells, Mixed
<1> QED BY <1>1, <1>4, <1>5

LEMMA CellsOfCopy ==
  ASSUME NEW book, NEW o
  PROVE  /\ DOMAIN Output(book, o).cells = DOMAIN book.cells
         /\ Output(book, o).state = book.state
         /\ Output(book, o).strings = <<>> /\ Output(book, o).extras = {}
         /\ \A p : IsHidden(Output(book, o), p) = IsHidden(book, p)
         /\ \A p \in DOMAIN book.cells :
              /\ ~Output(book, o).cells[p].formula
              /\ p \in Selected(book, o) =>
                   /\ Output(book, o).cells[p].type = "inlineStr"
                   /\ Output(book, o).cells[p].text = Marker
              /\ p \notin Selected(book, o) =>
                   /\ Output(book, o).cells[p].type = Written(book, p)
                   /\ Output(book, o).cells[p].text = TextOf(book, p)
<1> DEFINE sheets == Redacted(book, o)
           Cells == [p \in DOMAIN book.cells |->
                       [type |-> Written(book, p), text |-> TextOf(book, p)]]
           MarkedCell == [type |-> "inlineStr", text |-> Marker]
<1>2. sheets = [state |-> book.state, hiddenRows |-> book.hiddenRows,
                hiddenColumns |-> book.hiddenColumns,
                cells |-> [p \in DOMAIN book.cells |->
                  IF p \in Selected(book, o) THEN MarkedCell
                  ELSE [type |-> Written(book, p), text |-> TextOf(book, p)]]]
  BY RedactedIs
<1>3. Output(book, o) =
        [state |-> sheets.state, hiddenRows |-> sheets.hiddenRows,
         hiddenColumns |-> sheets.hiddenColumns, strings |-> <<>>, extras |-> {},
         cells |-> [p \in DOMAIN sheets.cells |->
           [type |-> sheets.cells[p].type, text |-> sheets.cells[p].text,
            index |-> 0, formula |-> FALSE]]]
  BY DEF Output, Generate
<1>4. /\ sheets.state = book.state /\ sheets.hiddenRows = book.hiddenRows
      /\ sheets.hiddenColumns = book.hiddenColumns
      /\ DOMAIN sheets.cells = DOMAIN book.cells
  BY <1>2
<1>5. ASSUME NEW p \in DOMAIN book.cells
      PROVE  sheets.cells[p] = IF p \in Selected(book, o) THEN MarkedCell ELSE Cells[p]
  BY <1>2
<1>6. ASSUME NEW p \in DOMAIN book.cells
      PROVE  Cells[p].type = Written(book, p) /\ Cells[p].text = TextOf(book, p)
  OBVIOUS
<1>7. MarkedCell.type = "inlineStr" /\ MarkedCell.text = Marker
  OBVIOUS
<1> HIDE DEF sheets, Cells, MarkedCell
<1>8. /\ DOMAIN Output(book, o).cells = DOMAIN book.cells
      /\ Output(book, o).state = book.state
      /\ Output(book, o).hiddenRows = book.hiddenRows
      /\ Output(book, o).hiddenColumns = book.hiddenColumns
      /\ Output(book, o).strings = <<>> /\ Output(book, o).extras = {}
  BY <1>3, <1>4
<1>9. ASSUME NEW p \in DOMAIN book.cells
      PROVE  /\ ~Output(book, o).cells[p].formula
             /\ Output(book, o).cells[p].type = sheets.cells[p].type
             /\ Output(book, o).cells[p].text = sheets.cells[p].text
  BY <1>3, <1>4
<1>10. \A p : IsHidden(Output(book, o), p) = IsHidden(book, p)
  BY <1>8 DEF IsHidden
<1> QED BY <1>5, <1>6, <1>7, <1>8, <1>9, <1>10

\* Outside the selection, a plain cell is scanned in the copy as in the original.
LEMMA CopyScansAlike ==
  ASSUME NEW book, NEW o, IsPlain(book), NEW p \in DOMAIN book.cells
  PROVE  /\ p \in Selected(book, o) => TextOf(Output(book, o), p) = Marker
         /\ p \notin Selected(book, o) =>
              /\ IsScanned(Output(book, o), p) <=> IsScanned(book, p)
              /\ TextOf(Output(book, o), p) = TextOf(book, p)
<1>1. ~book.cells[p].formula /\ book.cells[p].type \in {"n", "b", "s", "str", "inlineStr"}
  BY DEF IsPlain
<1> DEFINE cell == Output(book, o).cells[p]
<1>2. /\ ~cell.formula
      /\ p \in Selected(book, o) => cell.type = "inlineStr" /\ cell.text = Marker
      /\ p \notin Selected(book, o) =>
           /\ cell.type = Written(book, p)
           /\ cell.text = TextOf(book, p)
  BY CellsOfCopy
<1>3. cell.type # "s"
  BY <1>1, <1>2 DEF Written
<1>4. TextOf(Output(book, o), p) = cell.text
  BY <1>3 DEF TextOf
<1>5. p \notin Selected(book, o) => (IsScanned(Output(book, o), p) <=> IsScanned(book, p))
  BY <1>1, <1>2 DEF IsScanned, Written
<1> HIDE DEF cell
<1> QED BY <1>2, <1>4, <1>5

------------------------------------------------------------------------------
LEMMA PlainIsRedactedExactly ==
  ASSUME NEW book, NEW o, IsPlain(book) PROVE RedactsExactly(book, o)
<1> DEFINE copy == Output(book, o)
           In(b, f) == f \in Findings(b, o.categories, o.region)
<1>2. ASSUME NEW f, In(copy, f) PROVE In(book, f) /\ f.place \notin Selected(book, o)
  <2>1. PICK p \in DOMAIN copy.cells, c \in o.categories :
          /\ IsScanned(copy, p) /\ c \in detect(TextOf(copy, p), o.categories, o.region)
          /\ f = [place |-> p, category |-> c, evidence |-> Evidence(c),
                  hidden |-> IsHidden(copy, p)]
    BY <1>2, FindingsAre
  <2>2. p \in DOMAIN book.cells /\ IsHidden(copy, p) = IsHidden(book, p)
    BY <2>1, CellsOfCopy
  <2>3. p \notin Selected(book, o)
    BY <2>1, <2>2, CopyScansAlike, MarkerIsClean
  <2>4. IsScanned(book, p) /\ TextOf(copy, p) = TextOf(book, p)
    BY <2>1, <2>2, <2>3, CopyScansAlike
  <2> HIDE DEF copy
  <2> QED BY <2>1, <2>2, <2>3, <2>4, FindingsAre
<1>3. ASSUME NEW f, In(book, f), f.place \notin Selected(book, o) PROVE In(copy, f)
  <2>1. PICK p \in DOMAIN book.cells, c \in o.categories :
          /\ IsScanned(book, p) /\ c \in detect(TextOf(book, p), o.categories, o.region)
          /\ f = [place |-> p, category |-> c, evidence |-> Evidence(c),
                  hidden |-> IsHidden(book, p)]
    BY <1>3, FindingsAre
  <2>2. p \in DOMAIN copy.cells /\ IsHidden(copy, p) = IsHidden(book, p)
    BY <2>1, CellsOfCopy
  <2>3. IsScanned(copy, p) /\ TextOf(copy, p) = TextOf(book, p)
    BY <1>3, <2>1, CopyScansAlike
  <2> HIDE DEF copy
  <2> QED BY <2>1, <2>2, <2>3, FindingsAre
<1> QED BY <1>2, <1>3 DEF RedactsExactly

\* Whatever workbook is sanitized, a scan of the copy finds exactly what the
\* scan of the original found outside the selection, where it found it and
\* hidden as it was: sanitizeWorkbook(), scan().
THEOREM CopiesAreRedactedExactly ==
  ASSUME NEW book, NEW o, Refusals(book, o) = {} PROVE RedactsExactly(book, o)
BY PlainIsRedactedExactly DEF Refusals

\* Nothing of a category chosen for redaction can be found in the copy, also
\* where the cell, the row, the column or the sheet is hidden.
THEOREM NothingChosenIsLeft ==
  ASSUME NEW book, NEW o, Refusals(book, o) = {},
         NEW f \in Findings(Output(book, o), o.categories, o.region)
  PROVE  f.category \notin o.selection.categories
<1>1. f \in Findings(book, o.categories, o.region) /\ f.place \notin Selected(book, o)
  BY CopiesAreRedactedExactly DEF RedactsExactly
<1> QED BY <1>1 DEF Selected

\* Cells outside the selection keep their value, also when it was a shared
\* string: supported(), generate().
THEOREM TheRestIsKept ==
  ASSUME NEW book, NEW o, IsPlain(book) PROVE KeepsTheRest(book, o)
<1> SUFFICES ASSUME NEW p \in DOMAIN book.cells, p \notin Selected(book, o)
             PROVE  Supported(Output(book, o)).cells[p] = Supported(book).cells[p]
  BY DEF KeepsTheRest
<1>1. TextOf(Output(book, o), p) = TextOf(book, p)
  BY CopyScansAlike
<1>2. /\ p \in DOMAIN Output(book, o).cells
      /\ Output(book, o).cells[p].type = Written(book, p)
  BY CellsOfCopy
<1>3. Supported(Output(book, o)).cells[p] =
        [type |-> Written(Output(book, o), p), text |-> TextOf(Output(book, o), p)]
  BY <1>2 DEF Supported, Written
<1>4. Supported(book).cells[p] = [type |-> Written(book, p), text |-> TextOf(book, p)]
  BY DEF Supported, Written
<1>5. Written(Output(book, o), p) = Written(book, p)
  BY <1>2 DEF Written
<1> QED BY <1>1, <1>3, <1>4, <1>5

------------------------------------------------------------------------------
(* The checks after the redaction, and those of the worker *)

LEMMA FindingsAreFinite ==
  ASSUME NEW book, NEW categories, NEW region,
         IsFiniteSet(DOMAIN book.cells), IsFiniteSet(categories)
  PROVE  IsFiniteSet(Findings(book, categories, region))
<1> DEFINE Pairs == {g \in (DOMAIN book.cells) \X categories :
                       /\ IsScanned(book, g[1])
                       /\ g[2] \in detect(TextOf(book, g[1]), categories, region)}
           Of(g) == [place |-> g[1], category |-> g[2], evidence |-> Evidence(g[2]),
                     hidden |-> IsHidden(book, g[1])]
<1>1. IsFiniteSet((DOMAIN book.cells) \X categories)
  BY FS_Product
<1>2. IsFiniteSet(Pairs)
  BY <1>1, FS_Subset
<1>3. Findings(book, categories, region) = {Of(g) : g \in Pairs}
  BY DEF Findings
<1> DEFINE Finding == [g \in Pairs |-> Of(g)]
           All == {Of(g) : g \in Pairs}
<1> HIDE DEF Pairs, Of
<1>4. Finding \in Surjection(Pairs, All)
  <2>1. \A g \in Pairs : Finding[g] = Of(g) /\ Of(g) \in All
    OBVIOUS
  <2>2. Finding \in [Pairs -> All]
    BY <2>1
  <2>3. \A f \in All : \E g \in Pairs : Finding[g] = f
    BY <2>1
  <2> HIDE DEF Finding, All
  <2> QED BY <2>2, <2>3 DEF Surjection
<1>5. IsFiniteSet(All)
  <2> HIDE DEF Finding, All
  <2> QED BY <1>2, <1>4, FS_Surjection
<1> QED BY <1>3, <1>5

\* Once a copy is redacted, only the size of its package can refuse it
\* (writeXlsx, preflight): the second scan is never above a limit the first kept,
\* and what the strict profile admits reads back as it was meant to.
THEOREM VerificationPasses ==
  ASSUME NEW book, NEW o, IsBook(book), IsFiniteSet(o.categories)
  PROVE  PassesVerification(book, o)
<1> SUFFICES ASSUME ScanErrors(book, o.categories, o.region) = {},
                    IsPlain(book), SelectionIsValid(book, o)
             PROVE  VerificationErrors(book, o) = PackageErrors(Redacted(book, o))
  BY DEF PassesVerification
<1> DEFINE copy == Output(book, o)
<1>1. Cardinality(Changed(book, o)) = Cardinality(Selected(book, o))
  BY SelectionIsOfCells
<1>2. IsPlain(copy)
  <2>1. copy.extras = {} /\ \E s \in DOMAIN copy.state : copy.state[s] = "visible"
    BY CellsOfCopy DEF IsPlain, InProfile
  <2>2. ASSUME NEW p \in DOMAIN copy.cells
        PROVE  /\ ~copy.cells[p].formula
               /\ copy.cells[p].type \in {"n", "b", "inlineStr"}
               /\ copy.cells[p].type = "n" => copy.cells[p].text.form \in {"number", "blank"}
               /\ copy.cells[p].type = "b" => copy.cells[p].text.form = "bit"
    <3>1. p \in DOMAIN book.cells
      BY <2>2, CellsOfCopy
    <3>2. /\ book.cells[p].type \in {"n", "b", "s", "str", "inlineStr"}
          /\ book.cells[p].type = "n" => book.cells[p].text.form \in {"number", "blank"}
          /\ book.cells[p].type = "b" => book.cells[p].text.form = "bit"
      BY <3>1 DEF IsPlain
    <3>3. CASE p \in Selected(book, o)
      BY <3>1, <3>3, CellsOfCopy
    <3>4. CASE p \notin Selected(book, o)
      <4>1. /\ ~copy.cells[p].formula /\ copy.cells[p].type = Written(book, p)
            /\ copy.cells[p].text = TextOf(book, p)
        BY <3>1, <3>4, CellsOfCopy
      <4>2. Written(book, p) \in {"n", "b"} =>
              Written(book, p) = book.cells[p].type /\ TextOf(book, p) = book.cells[p].text
        BY DEF Written, TextOf
      <4>3. Written(book, p) \in {"n", "b", "inlineStr"}
        BY <3>2 DEF Written
      <4> QED BY <3>2, <4>1, <4>2, <4>3
    <3> QED BY <3>3, <3>4
  <2> HIDE DEF copy
  <2> QED BY <2>1, <2>2 DEF IsPlain, InProfile
<1>3. Supported(copy) = Redacted(book, o)
  <2>1. ASSUME NEW p \in DOMAIN copy.cells
        PROVE  Written(copy, p) = copy.cells[p].type /\ TextOf(copy, p) = copy.cells[p].text
    <3>1. copy.cells[p].type \in {"n", "b", "inlineStr"}
      BY <1>2, CellsOfCopy DEF IsPlain, Written
    <3> QED BY <3>1 DEF Written, TextOf
  <2> DEFINE sheets == Redacted(book, o)
  <2>2. /\ copy.state = sheets.state /\ copy.hiddenRows = sheets.hiddenRows
        /\ copy.hiddenColumns = sheets.hiddenColumns
        /\ DOMAIN copy.cells = DOMAIN sheets.cells
        /\ \A p \in DOMAIN sheets.cells :
             /\ copy.cells[p].type = sheets.cells[p].type
             /\ copy.cells[p].text = sheets.cells[p].text
    BY DEF Output, Generate
  <2>3. Supported(copy) =
          [state |-> sheets.state, hiddenRows |-> sheets.hiddenRows,
           hiddenColumns |-> sheets.hiddenColumns,
           cells |-> [p \in DOMAIN sheets.cells |->
             [type |-> sheets.cells[p].type, text |-> sheets.cells[p].text]]]
    <3>1. /\ DOMAIN copy.cells = DOMAIN sheets.cells
          /\ \A p \in DOMAIN sheets.cells :
               Written(copy, p) = sheets.cells[p].type /\ TextOf(copy, p) = sheets.cells[p].text
      BY <2>1, <2>2
    <3>2. Supported(copy) =
            [state |-> copy.state, hiddenRows |-> copy.hiddenRows,
             hiddenColumns |-> copy.hiddenColumns,
             cells |-> [p \in DOMAIN copy.cells |->
               [type |-> Written(copy, p), text |-> TextOf(copy, p)]]]
      BY DEF Supported, Written
    <3>3. [p \in DOMAIN copy.cells |-> [type |-> Written(copy, p), text |-> TextOf(copy, p)]]
            = [p \in DOMAIN sheets.cells |->
                [type |-> sheets.cells[p].type, text |-> sheets.cells[p].text]]
      BY <3>1
    <3> HIDE DEF sheets, copy
    <3> QED BY <2>2, <3>2, <3>3
  <2>4. \A p \in DOMAIN sheets.cells :
          sheets.cells[p] = [type |-> sheets.cells[p].type, text |-> sheets.cells[p].text]
    BY RedactedIs
  <2>5. [p \in DOMAIN sheets.cells |->
           [type |-> sheets.cells[p].type, text |-> sheets.cells[p].text]] = sheets.cells
    BY <2>4, RedactedIs
  <2>6. sheets = [state |-> sheets.state, hiddenRows |-> sheets.hiddenRows,
                  hiddenColumns |-> sheets.hiddenColumns, cells |-> sheets.cells]
    BY RedactedIs
  <2> HIDE DEF sheets, copy
  <2>7. Supported(copy) = sheets
    BY <2>3, <2>5, <2>6
  <2> QED BY <2>7 DEF sheets
<1>4. ScanErrors(copy, o.categories, o.region) = {}
  <2>1. ~IsInvalid(book) /\ ~IsTooLarge(book) /\ ~FindsTooMuch(book, o.categories, o.region)
    BY DEF ScanErrors
  <2>2. /\ DOMAIN copy.cells = DOMAIN book.cells /\ copy.state = book.state
        /\ copy.strings = <<>> /\ copy.extras = {}
    BY CellsOfCopy
  <2>3. \A p \in DOMAIN copy.cells : copy.cells[p].type \in {"n", "b", "inlineStr"}
    BY <1>2, CellsOfCopy DEF IsPlain, Written
  <2>4. ~IsInvalid(copy)
    BY <2>1, <2>2, <2>3 DEF IsInvalid, HasDefects, Types
  <2>5. ~IsTooLarge(copy)
    <3>1. Referenced(copy) = {}
      BY <2>3 DEF Referenced, Shared
    <3>2. copy.hiddenRows = book.hiddenRows /\ copy.hiddenColumns = book.hiddenColumns
      BY CellsOfCopy DEF Output, Generate, Redacted, Supported
    <3>3. Len(copy.strings) = 0
      BY <2>2
    <3> HIDE DEF copy
    <3> QED BY <2>1, <2>2, <3>1, <3>2, <3>3, LimitAssumption DEF IsTooLarge
  <2>6. ~FindsTooMuch(copy, o.categories, o.region)
    <3> DEFINE F(b) == Findings(b, o.categories, o.region)
    <3>1. IsFiniteSet(F(book)) /\ F(copy) \subseteq F(book)
      BY FindingsAreFinite, PlainIsRedactedExactly DEF IsBook, RedactsExactly
    <3>2. /\ Cardinality(F(copy)) <= Cardinality(F(book))
          /\ Cardinality(F(copy)) \in Nat /\ Cardinality(F(book)) \in Nat
      BY <3>1, FS_Subset, FS_CardinalityType
    <3>3. ~(Cardinality(F(book)) > MaxFindings)
      BY <2>1 DEF FindsTooMuch
    <3> QED BY <3>2, <3>3, LimitAssumption DEF FindsTooMuch
  <2> QED BY <2>4, <2>5, <2>6 DEF ScanErrors
<1> QED BY <1>1, <1>2, <1>3, <1>4 DEF VerificationErrors

\* The limits of the child are those of the worker: no scan that succeeds is
\* refused as the answer of a child that cannot be trusted.
THEOREM ScansAreAccepted ==
  ASSUME NEW book, NEW categories, NEW region, IsBook(book), IsFiniteSet(categories)
  PROVE  IsAccepted(book, categories, region)
<1> SUFFICES ASSUME ScanErrors(book, categories, region) = {}
             PROVE  ResultIsValid(ScanResult(book, categories, region), categories)
  BY DEF IsAccepted
<1> DEFINE result == ScanResult(book, categories, region)
<1>1. ~IsInvalid(book) /\ ~IsTooLarge(book) /\ ~FindsTooMuch(book, categories, region)
  BY DEF ScanErrors
<1>2. /\ result.findings = Findings(book, categories, region)
      /\ result.processedCells = Cardinality(DOMAIN book.cells)
      /\ result.sheets = Len(book.state) /\ result.compatibilityFlags = Flags(book)
      /\ result.coverage = "limited"
  BY DEF ScanResult
<1>3. result.processedCells \in 0..MaxCells
  BY <1>1, <1>2, FS_CardinalityType, LimitAssumption DEF IsTooLarge, IsBook
<1>4. result.sheets \in 1..MaxSheets
  BY <1>1, <1>2, LimitAssumption DEF IsInvalid, IsTooLarge, IsBook
<1>5. result.compatibilityFlags \subseteq CompatibilityFlags
  BY <1>2 DEF Flags, CompatibilityFlags
<1>6. Cardinality(result.findings) <= MaxFindings
  <2>1. IsFiniteSet(result.findings)
    BY <1>2, FindingsAreFinite DEF IsBook
  <2>2. Cardinality(result.findings) \in Nat
    BY <2>1, FS_CardinalityType
  <2>3. ~(Cardinality(result.findings) > MaxFindings)
    BY <1>1, <1>2 DEF FindsTooMuch
  <2> HIDE DEF result
  <2> QED BY <2>2, <2>3, LimitAssumption
<1>7. ASSUME NEW f \in result.findings
      PROVE  /\ f.place \in (1..result.sheets) \X (1..MaxRows) \X (1..MaxColumns)
             /\ f.category \in Categories \cap categories
             /\ f.evidence \in {"format_valid", "checksum_valid"}
             /\ f.hidden \in BOOLEAN
  <2>1. PICK p \in DOMAIN book.cells, c \in categories :
          /\ c \in detect(TextOf(book, p), categories, region)
          /\ f = [place |-> p, category |-> c, evidence |-> Evidence(c),
                  hidden |-> IsHidden(book, p)]
    BY <1>2, FindingsAre
  <2>2. p \in (1..result.sheets) \X (1..MaxRows) \X (1..MaxColumns)
    <3>1. /\ p \in (DOMAIN book.state) \X (Nat \ {0}) \X (Nat \ {0})
          /\ DOMAIN book.state = 1..Len(book.state)
      BY DEF IsBook
    <3>2. p[2] <= MaxRows /\ p[3] <= MaxColumns
      BY <1>1, <3>1, LimitAssumption DEF IsTooLarge
    <3> QED BY <1>2, <3>1, <3>2, LimitAssumption
  <2>3. c \in Categories \cap categories
    BY <2>1, OnlyTheEnabled
  <2>4. f.place = p /\ f.category = c /\ f.evidence = Evidence(c)
        /\ f.hidden = IsHidden(book, p)
    BY <2>1
  <2>5. IsHidden(book, p) \in BOOLEAN
    BY DEF IsHidden
  <2>6. Evidence(c) \in {"format_valid", "checksum_valid"}
    BY DEF Evidence
  <2> QED BY <2>2, <2>3, <2>4, <2>5, <2>6
<1> HIDE DEF result
<1>8. ResultIsValid(result, categories)
  BY <1>2, <1>3, <1>4, <1>5, <1>6, <1>7 DEF ResultIsValid
<1> QED BY <1>8 DEF result
==============================================================================
