------------------------------ MODULE GuardJobs ------------------------------
(****************************************************************************)
(* The background jobs of the Sensitive Data Guard: a queue of scan and     *)
(* sanitize jobs in MongoDB, served by worker processes that hold a job     *)
(* under an expiring lease, and the private copy of the workbook that a     *)
(* sanitize job publishes (an object in S3 and a metadata row in MongoDB).  *)
(*                                                                          *)
(* Each MongoDB transaction of the code writes every document it reads (the *)
(* job row and the fences of the user, the company and the file), so it is  *)
(* one step here.  The transaction that publishes a result is split into    *)
(* its snapshot and its commit, because what the fences are for is what     *)
(* happens between the two.  Wall-clock time is abstracted: a lease that    *)
(* is live may expire at any moment.                                        *)
(****************************************************************************)
EXTENDS Naturals, FiniteSets

CONSTANTS
  MaxJobs,              \* bound: number of jobs ever admitted
  Tenants,              \* the companies
  Workers,              \* the processes that run a GuardWorker
  Digests,              \* the contents a sanitizer run may produce
  NoDigest,             \* absence of an object, or of a recorded digest
  MaxAttempts,          \* claims after which recovery gives up (3 in the code)
  RecoverLimit,         \* expired jobs one tick looks at (20 in the code)
  SanitizationApproved  \* the runtime policy that admits sanitize jobs

ASSUME JobsAssumption == MaxJobs \in Nat
ASSUME AttemptsAssumption == MaxAttempts \in Nat \ {0}
ASSUME RecoverAssumption == RecoverLimit \in Nat \ {0}
ASSUME DigestAssumption == NoDigest \notin Digests
ASSUME PolicyAssumption == SanitizationApproved \in BOOLEAN

VARIABLES
  jobs,      \* the guardjobs collection
  events,    \* how many rows of each action guardevents holds for a job
  copies,    \* the companyfiles row a sanitize job publishes
  objects,   \* S3: what is stored under the job's outputStorageKey
  puts,      \* putObject requests S3 has not yet applied or lost
  erasing,   \* jobs whose timed-out deleteObject S3 may still apply
  deleting,  \* how far a user's deletion of the copy has come
  access,    \* whether the requester may process the source file
  worker     \* the local state of each worker process

vars == <<jobs, events, copies, objects, puts, erasing, deleting, access, worker>>
store == <<copies, objects, puts, erasing, deleting>>

------------------------------------------------------------------------------
Job == 1 .. MaxJobs
Kinds == {"scan", "sanitize"}
Terminal == {"completed", "failed", "cancelled"}
Actions == {"queued"} \cup Terminal
NoToken == 0

\* A claim draws a fresh random leaseToken.  A job's attempts counter grows at
\* every claim and never shrinks, so it names the claims of a job as uniquely.
JobRow == [kind : Kinds, tenant : Tenants,
           status : {"absent", "queued", "processing"} \cup Terminal,
           active : BOOLEAN, attempts : Nat, leaseToken : Nat,
           lease : {"none", "live", "expired"},
           outputDigest : Digests \cup {NoDigest}, cleanupPending : BOOLEAN]

Expiry == [job : Job, token : Nat, attempts : Nat]
Put == [job : Job, token : Nat, digest : Digests]

Stages == {"idle", "recover", "sweep", "confirm", "erase", "claim", "fetch",
           "compute", "mark", "put", "publish", "commit", "fail"}

Local == [stage : Stages, job : Job \cup {0}, token : Nat,
          prior : Digests \cup {NoDigest}, output : Digests \cup {NoDigest},
          expired : SUBSET Expiry]

\* A row that was never inserted; its tenant is the company that will submit it.
Unused(t) == [kind |-> "scan", tenant |-> t, status |-> "absent", active |-> FALSE,
              attempts |-> 0, leaseToken |-> NoToken, lease |-> "none",
              outputDigest |-> NoDigest, cleanupPending |-> FALSE]

Resting == [stage |-> "idle", job |-> 0, token |-> NoToken, prior |-> NoDigest,
            output |-> NoDigest, expired |-> {}]

TypeOK ==
  /\ jobs \in [Job -> JobRow]
  /\ events \in [Job -> [Actions -> Nat]]
  /\ copies \in [Job -> {"none", "stored", "removed"}]
  /\ objects \in [Job -> Digests \cup {NoDigest}]
  /\ puts \subseteq Put
  /\ erasing \subseteq Job
  /\ deleting \in [Job -> {"no", "tombstoned", "erased"}]
  /\ access \in [Tenants -> {"granted", "revoked", "gone"}]
  /\ worker \in [Workers -> Local]

Init ==
  /\ \E tenantOf \in [Job -> Tenants] : jobs = [j \in Job |-> Unused(tenantOf[j])]
  /\ events = [j \in Job |-> [a \in Actions |-> 0]]
  /\ copies = [j \in Job |-> "none"]
  /\ objects = [j \in Job |-> NoDigest]
  /\ puts = {}
  /\ erasing = {}
  /\ deleting = [j \in Job |-> "no"]
  /\ access = [t \in Tenants |-> "granted"]
  /\ worker = [w \in Workers |-> Resting]

------------------------------------------------------------------------------
(* What the handlers share.                                                 *)

\* GuardAccessService.resolve: the requester exists, the company is activated
\* and not suspended, and the requester may read the source file.
Granted(j) == access[jobs[j].tenant] = "granted"

\* Wrong: the claim filter reduced to the id of the job.
ClaimedById(w) == worker[w].job \in Job

\* The filter every worker uses to find its job again.
Claimed(w) ==
  LET j == worker[w].job IN
  /\ jobs[j].status = "processing"
  /\ jobs[j].active
  /\ jobs[j].leaseToken = worker[w].token
  /\ jobs[j].lease = "live"

\* Wrong: a transaction that conflicts only on the fences.
FencesOnly(w) == Granted(worker[w].job)

\* What a commit re-validates: the documents of the transaction's write set
\* (the job row, the user, company and file fences) were not written meanwhile.
\* The passing of the lease is no write, so it does not abort the commit.
NoWriteConflict(w) ==
  LET j == worker[w].job IN
  /\ jobs[j].status = "processing"
  /\ jobs[j].leaseToken = worker[w].token
  /\ Granted(j)

Admitted(row, kind) == [row EXCEPT !.kind = kind, !.status = "queued", !.active = TRUE]

\* A claim counts the attempt and leases the job under a fresh token.
Leased(row) == [row EXCEPT !.status = "processing", !.lease = "live",
                           !.leaseToken = row.attempts + 1, !.attempts = row.attempts + 1]

Expired(row) == [row EXCEPT !.lease = "expired"]
Requeued(row) == [row EXCEPT !.status = "queued", !.leaseToken = NoToken, !.lease = "none"]

\* A job row that leaves "processing" or the queue for good.
Closed(row, outcome) ==
  [row EXCEPT !.status = outcome, !.active = FALSE,
              !.leaseToken = NoToken, !.lease = "none"]

\* Publishing a copy takes back the tombstone; a scan never had one.
Published(row) == [Closed(row, "completed") EXCEPT !.cleanupPending = FALSE]

Tombstoned(row) == [row EXCEPT !.cleanupPending = TRUE]

Logged(j, action) == [events EXCEPT ![j][action] = @ + 1]

\* The local state of a worker, as its steps change it.
At(local, stage) == [local EXCEPT !.stage = stage]
Recovering(local, seen) == [local EXCEPT !.stage = "recover", !.expired = seen]
Sweeping(local, j) == [local EXCEPT !.stage = "confirm", !.job = j]
Holding(j, row) == [stage |-> "fetch", job |-> j, token |-> row.leaseToken,
                    prior |-> row.outputDigest, output |-> NoDigest, expired |-> {}]
Computed(local, digest) == [local EXCEPT !.stage = "mark", !.output = digest]

GoTo(w, stage) == worker' = [worker EXCEPT ![w] = At(@, stage)]
Rest(w) == worker' = [worker EXCEPT ![w] = Resting]

------------------------------------------------------------------------------
(* Requests of the tenants.                                                 *)

\* Ids follow createdAt.
Fresh(j) == /\ jobs[j].status = "absent"
            /\ \A i \in Job : i < j => jobs[i].status # "absent"

\* Wrong: only waiting jobs count against the tenant.
NoJobWaits(j) ==
  \A i \in Job : jobs[i].tenant = jobs[j].tenant => jobs[i].status # "queued"

\* The partial unique index on {companyId, active: true}.
TenantIsFree(j) ==
  \A i \in Job : jobs[i].tenant = jobs[j].tenant => ~ jobs[i].active

Admit(j, kind) ==
  /\ Fresh(j)
  /\ TenantIsFree(j)
  /\ Granted(j)
  /\ jobs' = [jobs EXCEPT ![j] = Admitted(@, kind)]
  /\ events' = Logged(j, "queued")
  /\ UNCHANGED <<store, access, worker>>

\* A repeated requestKey, a busy tenant and the rate limit answer without a
\* write: they are no step.
SubmitScan(j) == Admit(j, "scan")

SubmitSanitize(j) ==
  /\ SanitizationApproved
  /\ \E s \in Job : /\ jobs[s].tenant = jobs[j].tenant
                    /\ jobs[s].kind = "scan"
                    /\ jobs[s].status = "completed"
  /\ Admit(j, "sanitize")

Cancel(j) ==
  /\ Granted(j)
  /\ jobs[j].active
  /\ jobs' = [jobs EXCEPT ![j] = Closed(@, "cancelled")]
  /\ events' = Logged(j, "cancelled")
  /\ UNCHANGED <<store, access, worker>>

------------------------------------------------------------------------------
(* The worker: a tick recovers expired leases, sweeps one tombstone, then   *)
(* claims the oldest queued job and carries it to an outcome.               *)

\* Wrong: sanitize jobs are never recovered, approved or not.
OverdueScan(j) == /\ jobs[j].status = "processing" /\ jobs[j].active
                  /\ jobs[j].lease = "expired"
                  /\ jobs[j].kind # "sanitize"

Overdue(j) == /\ jobs[j].status = "processing" /\ jobs[j].active
              /\ jobs[j].lease = "expired"
              /\ SanitizationApproved \/ jobs[j].kind # "sanitize"

SeenAs(j) == [job |-> j, token |-> jobs[j].leaseToken, attempts |-> jobs[j].attempts]

Tick(w) ==
  /\ worker[w].stage = "idle"
  /\ \E S \in SUBSET {j \in Job : Overdue(j)} :
       /\ Cardinality(S) <= RecoverLimit
       /\ Cardinality(S) = RecoverLimit \/ \A j \in Job : Overdue(j) => j \in S
       /\ worker' = [worker EXCEPT ![w] = Recovering(@, {SeenAs(j) : j \in S})]
  /\ UNCHANGED <<jobs, events, store, access>>

\* Wrong: recovery trusts the list it has read.
NotLive(seen) == jobs[seen.job].lease # "live"

\* The row is still the one this worker saw expire.
StillOverdue(seen) ==
  /\ jobs[seen.job].status = "processing"
  /\ jobs[seen.job].leaseToken = seen.token
  /\ jobs[seen.job].lease = "expired"

\* Wrong: one attempt too many.
Overspent(seen) == seen.attempts > MaxAttempts

Exhausted(seen) == seen.attempts >= MaxAttempts

Recover(w) ==
  /\ worker[w].stage = "recover"
  /\ \E seen \in worker[w].expired :
       /\ worker' = [worker EXCEPT ![w] = Recovering(@, @.expired \ {seen})]
       /\ \/ /\ StillOverdue(seen)
             /\ jobs' = [jobs EXCEPT ![seen.job] =
                           IF Exhausted(seen) THEN Closed(@, "failed") ELSE Requeued(@)]
             /\ events' = Logged(seen.job, IF Exhausted(seen) THEN "failed" ELSE "queued")
          \/ /\ ~ StillOverdue(seen)
             /\ UNCHANGED <<jobs, events>>
  /\ UNCHANGED <<store, access>>

RecoverDone(w) ==
  /\ worker[w].stage = "recover"
  /\ worker[w].expired = {}
  /\ GoTo(w, "sweep")
  /\ UNCHANGED <<jobs, events, store, access>>

\* Wrong: only the objects of completed jobs are swept.
CompletedOnly(j) == /\ jobs[j].kind = "sanitize"
                    /\ jobs[j].status = "completed"

\* Jobs whose object may have outlived them.  The code sweeps one per tick, the
\* longest unswept first; cleanupAfter, which keeps that order, is abstracted.
Sweepable(j) ==
  /\ SanitizationApproved
  /\ jobs[j].kind = "sanitize" /\ ~ jobs[j].active
  /\ jobs[j].cleanupPending \/ jobs[j].status = "completed"

Sweep(w, j) ==
  /\ worker[w].stage = "sweep"
  /\ Sweepable(j)
  /\ worker' = [worker EXCEPT ![w] = Sweeping(@, j)]
  /\ UNCHANGED <<jobs, events, store, access>>

\* Nothing is due, or an error of the sweep is caught.
SweepNothing(w) ==
  /\ worker[w].stage \in {"sweep", "confirm", "erase"}
  /\ GoTo(w, "claim")
  /\ UNCHANGED <<jobs, events, store, access>>

\* Wrong: the tombstone is taken for the absence of the copy.
NoTombstone(j) == ~ jobs[j].cleanupPending

\* The majority read that forbids deleting the object of a committed copy.
CopyExists(j) == copies[j] = "stored"

SweepConfirm(w) ==
  /\ worker[w].stage = "confirm"
  /\ GoTo(w, IF CopyExists(worker[w].job) THEN "claim" ELSE "erase")
  /\ UNCHANGED <<jobs, events, store, access>>

Erase(w) ==
  /\ worker[w].stage = "erase"
  /\ objects' = [objects EXCEPT ![worker[w].job] = NoDigest]
  /\ GoTo(w, "claim")
  /\ UNCHANGED <<jobs, events, copies, puts, erasing, deleting, access>>

\* The deadline passes first; S3 may still apply the request later.
EraseTimesOut(w) ==
  /\ worker[w].stage = "erase"
  /\ erasing' = erasing \cup {worker[w].job}
  /\ GoTo(w, "claim")
  /\ UNCHANGED <<jobs, events, copies, objects, puts, deleting, access>>

Queued(j) == /\ jobs[j].status = "queued" /\ jobs[j].active
             /\ SanitizationApproved \/ jobs[j].kind # "sanitize"

Claim(w) ==
  /\ worker[w].stage = "claim"
  /\ \E j \in Job :
       /\ Queued(j)
       /\ \A i \in Job : Queued(i) => j <= i
       /\ jobs' = [jobs EXCEPT ![j] = Leased(@)]
       /\ worker' = [worker EXCEPT ![w] = Holding(j, Leased(jobs[j]))]
  /\ UNCHANGED <<events, store, access>>

ClaimNothing(w) ==
  /\ worker[w].stage = "claim"
  /\ \A j \in Job : ~ Queued(j)
  /\ Rest(w)
  /\ UNCHANGED <<jobs, events, store, access>>

\* Both check()s around the download of the source, and the read itself.
Fetch(w) ==
  /\ worker[w].stage = "fetch"
  /\ GoTo(w, IF Claimed(w) /\ Granted(worker[w].job) THEN "compute" ELSE "fail")
  /\ UNCHANGED <<jobs, events, store, access>>

\* Wrong: the result of the child process is not kept.
ComputeForgets(w) ==
  /\ worker[w].stage = "compute"
  /\ GoTo(w, IF jobs[worker[w].job].kind = "scan" THEN "publish" ELSE "mark")
  /\ UNCHANGED <<jobs, events, store, access>>

\* The child process returns findings, or a sanitized workbook.
Compute(w) ==
  /\ worker[w].stage = "compute"
  /\ IF jobs[worker[w].job].kind = "scan"
       THEN GoTo(w, "publish")
       ELSE \E d \in Digests :
              worker' = [worker EXCEPT ![w] = Computed(@, d)]
  /\ UNCHANGED <<jobs, events, store, access>>

\* A digest recorded by an earlier attempt binds the later ones.
SameOutput(w) == worker[w].prior \in {NoDigest, worker[w].output}

\* Wrong: the digest is recorded, the tombstone is not.
DigestOnly(row, digest) == [row EXCEPT !.outputDigest = digest]

Marked(row, digest) == [row EXCEPT !.cleanupPending = TRUE, !.outputDigest = digest]

\* First transaction of a sanitize job: the tombstone and the digest become
\* durable, and only then is the object sent to S3.
Mark(w) ==
  LET j == worker[w].job IN
  /\ worker[w].stage = "mark"
  /\ Claimed(w) /\ SameOutput(w) /\ Granted(j)
  /\ jobs' = [jobs EXCEPT ![j] = Marked(@, worker[w].output)]
  /\ puts' = puts \cup {[job |-> j, token |-> worker[w].token, digest |-> worker[w].output]}
  /\ GoTo(w, "put")
  /\ UNCHANGED <<events, copies, objects, erasing, deleting, access>>

MarkRefused(w) ==
  /\ worker[w].stage = "mark"
  /\ ~ (Claimed(w) /\ SameOutput(w) /\ Granted(worker[w].job))
  /\ GoTo(w, "fail")
  /\ UNCHANGED <<jobs, events, store, access>>

Awaits(w, p) == /\ worker[w].stage = "put"
                /\ p.job = worker[w].job /\ p.token = worker[w].token

PutAcknowledged(w) ==
  /\ worker[w].stage = "put"
  /\ \A p \in puts : ~ Awaits(w, p)
  /\ GoTo(w, "publish")
  /\ UNCHANGED <<jobs, events, store, access>>

\* The publishing transaction takes its snapshot.  A scan that lost its claim
\* ends silently, a sanitize job throws and takes the terminal path.
Publish(w) ==
  LET j == worker[w].job IN
  /\ worker[w].stage = "publish"
  /\ IF Claimed(w)
       THEN GoTo(w, IF Granted(j) THEN "commit" ELSE "fail")
       ELSE IF jobs[j].kind = "scan" THEN Rest(w) ELSE GoTo(w, "fail")
  /\ UNCHANGED <<jobs, events, store, access>>

\* ... and commits; the acknowledgement may be lost, which the worker takes for
\* a failure.  The copy's row and the job's outcome are one commit.
Commit(w) ==
  LET j == worker[w].job IN
  /\ worker[w].stage = "commit"
  /\ NoWriteConflict(w)
  /\ jobs' = [jobs EXCEPT ![j] = Published(@)]
  /\ events' = Logged(j, "completed")
  /\ copies' = IF jobs[j].kind = "sanitize" THEN [copies EXCEPT ![j] = "stored"] ELSE copies
  /\ Rest(w) \/ GoTo(w, "fail")
  /\ UNCHANGED <<objects, puts, erasing, deleting, access>>

\* A write conflict aborts the transaction and the driver runs it again.
CommitConflict(w) ==
  /\ worker[w].stage = "commit"
  /\ ~ NoWriteConflict(w)
  /\ GoTo(w, "publish")
  /\ UNCHANGED <<jobs, events, store, access>>

\* Any error of a running job: a limit, a timeout, S3, the child process, the
\* quota, the heartbeat's abort, a shutdown.  A PUT in flight stays in flight.
JobFails(w) ==
  /\ worker[w].stage \in {"fetch", "compute", "mark", "put", "publish", "commit"}
  /\ GoTo(w, "fail")
  /\ UNCHANGED <<jobs, events, store, access>>

TerminalStep(w) ==
  LET j == worker[w].job IN
  /\ worker[w].stage = "fail"
  /\ IF Claimed(w)
       THEN /\ jobs' = [jobs EXCEPT ![j] = Closed(@, "failed")]
            /\ events' = Logged(j, "failed")
       ELSE UNCHANGED <<jobs, events>>
  /\ Rest(w)
  /\ UNCHANGED <<store, access>>

\* The process dies, or an error ends the tick: local state is gone.
Crash(w) ==
  /\ worker[w].stage # "idle"
  /\ Rest(w)
  /\ UNCHANGED <<jobs, events, store, access>>

------------------------------------------------------------------------------
(* A user deletes a published copy: tombstone, object, row.  The request may *)
(* fail or be repeated after any of the three.                               *)

DeleteTombstone(j) ==
  /\ copies[j] = "stored"
  /\ jobs' = [jobs EXCEPT ![j] = Tombstoned(@)]
  /\ deleting' = [deleting EXCEPT ![j] = IF @ = "no" THEN "tombstoned" ELSE @]
  /\ UNCHANGED <<events, copies, objects, puts, erasing, access, worker>>

DeleteObject(j) ==
  /\ deleting[j] # "no"
  /\ objects' = [objects EXCEPT ![j] = NoDigest]
  /\ deleting' = [deleting EXCEPT ![j] = "erased"]
  /\ UNCHANGED <<jobs, events, copies, puts, erasing, access, worker>>

DeleteRow(j) ==
  /\ deleting[j] = "erased"
  /\ copies[j] = "stored"
  /\ copies' = [copies EXCEPT ![j] = "removed"]
  /\ UNCHANGED <<jobs, events, objects, puts, erasing, deleting, access, worker>>

------------------------------------------------------------------------------
(* The surroundings.                                                         *)

LeaseExpires(j) ==
  /\ jobs[j].lease = "live"
  /\ jobs' = [jobs EXCEPT ![j] = Expired(@)]
  /\ UNCHANGED <<events, store, access, worker>>

PutLands(p) ==
  /\ objects' = [objects EXCEPT ![p.job] = p.digest]
  /\ puts' = puts \ {p}
  /\ UNCHANGED <<jobs, events, copies, erasing, deleting, access, worker>>

\* A request whose issuer still waits does not vanish without an error.
PutIsLost(p) ==
  /\ \A w \in Workers : ~ Awaits(w, p)
  /\ puts' = puts \ {p}
  /\ UNCHANGED <<jobs, events, copies, objects, erasing, deleting, access, worker>>

EraseLands(j) ==
  /\ objects' = [objects EXCEPT ![j] = NoDigest]
  /\ erasing' = erasing \ {j}
  /\ UNCHANGED <<jobs, events, copies, puts, deleting, access, worker>>

EraseIsLost(j) ==
  /\ erasing' = erasing \ {j}
  /\ UNCHANGED <<jobs, events, copies, objects, puts, deleting, access, worker>>

\* Suspension and restricted permissions come and go; a deleted source file or
\* requester does not come back.
AccessChanges(t) ==
  /\ access[t] # "gone"
  /\ \E a \in {"granted", "revoked", "gone"} \ {access[t]} :
       access' = [access EXCEPT ![t] = a]
  /\ UNCHANGED <<jobs, events, store, worker>>

------------------------------------------------------------------------------
Request(j) == \/ SubmitScan(j) \/ SubmitSanitize(j) \/ Cancel(j)
              \/ DeleteTombstone(j) \/ DeleteObject(j) \/ DeleteRow(j)

\* What a worker that stays up does next.
Serve(w) == \/ Tick(w) \/ Recover(w) \/ RecoverDone(w)
            \/ \E j \in Job : Sweep(w, j)
            \/ SweepNothing(w) \/ SweepConfirm(w) \/ Erase(w) \/ EraseTimesOut(w)
            \/ Claim(w) \/ ClaimNothing(w) \/ Fetch(w) \/ Compute(w)
            \/ Mark(w) \/ MarkRefused(w) \/ PutAcknowledged(w)
            \/ Publish(w) \/ Commit(w) \/ CommitConflict(w)
            \/ JobFails(w) \/ TerminalStep(w)

Surroundings == \/ \E j \in Job : LeaseExpires(j)
                \/ \E p \in puts : PutLands(p) \/ PutIsLost(p)
                \/ \E j \in erasing : EraseLands(j) \/ EraseIsLost(j)
                \/ \E t \in Tenants : AccessChanges(t)

Next == \/ \E j \in Job : Request(j)
        \/ \E w \in Workers : Serve(w) \/ Crash(w)
        \/ Surroundings

Spec == Init /\ [][Next]_vars

\* Time passes, a worker that is up goes on (setInterval fires, promises settle),
\* processes stop crashing at some point, the sweep's order (longest unswept
\* first) gives every tombstone its turn, and a deletion tried again and again is
\* acknowledged at some point.  Nothing is assumed of users, access or S3's PUTs.
Fairness ==
  /\ \A j \in Job : WF_vars(LeaseExpires(j))
  /\ \A w \in Workers : WF_vars(Serve(w))
  /\ <>[][\A w \in Workers : Crash(w) => Serve(w)]_vars
  /\ \A w \in Workers, j \in Job :
       /\ SF_vars(Sweep(w, j))
       /\ SF_vars(worker[w].job = j /\ SweepConfirm(w))
       /\ SF_vars(worker[w].job = j /\ Erase(w))

LiveSpec == Spec /\ Fairness

------------------------------------------------------------------------------
(* Properties.                                                               *)

\* A job occupies its tenant's only slot exactly while it is queued or being
\* processed: no order of recovery, cancellation and outcome leaves a closed
\* job in the queue or an open one without its slot.
ActiveMatchesStatus ==
  \A j \in Job : jobs[j].active <=> jobs[j].status \in {"queued", "processing"}

\* At most one job per tenant is open, and a job is processed under a lease
\* whose token is that of its last claim.
OneOpenJobPerTenant ==
  \A i, j \in Job :
    /\ jobs[i].tenant = jobs[j].tenant /\ jobs[i].active /\ jobs[j].active => i = j
    /\ jobs[j].status = "processing" <=> jobs[j].lease # "none"
    /\ jobs[j].status = "processing" => jobs[j].leaseToken = jobs[j].attempts

\* The event log tells the job's history: one 'queued' per wait in the queue
\* (so one per claim, and one more if the job waits or was cancelled waiting),
\* one closing event if and only if the job is closed, and never more claims
\* than recovery allows.
EventsTellHistory ==
  \A j \in Job :
    /\ jobs[j].attempts <= MaxAttempts
    /\ events[j]["queued"] \in
         CASE jobs[j].status = "absent" -> {0}
           [] jobs[j].status = "queued" -> {jobs[j].attempts + 1}
           [] jobs[j].status = "cancelled" -> {jobs[j].attempts, jobs[j].attempts + 1}
           [] OTHER -> {jobs[j].attempts}
    /\ \A a \in Terminal : events[j][a] = IF jobs[j].status = a THEN 1 ELSE 0

\* What users can download is there and is what the job recorded: while the row
\* of a copy exists and no deletion has erased its object, S3 holds the object
\* with the recorded digest.  Sweeps, late PUTs of earlier attempts and late
\* DELETEs do not touch it.
CopyIsIntact ==
  \A j \in Job :
    copies[j] = "stored" /\ deleting[j] # "erased" =>
      objects[j] = jobs[j].outputDigest /\ objects[j] \in Digests

\* Every object, stored or still on its way, is either owned by a live copy's
\* job or under a tombstone the sweep will find once the job is closed.
ObjectIsTracked ==
  \A j \in Job :
    objects[j] # NoDigest \/ (\E p \in puts : p.job = j) =>
      /\ jobs[j].kind = "sanitize"
      /\ jobs[j].cleanupPending \/ jobs[j].status = "completed"

\* A closed job never changes its status again, whoever still holds its id.
ClosedIsFinal ==
  [][\A j \in Job : jobs[j].status \in Terminal => jobs'[j].status = jobs[j].status]_vars

\* Seen from outside, the queue, the leases, the retries and the storage protocol
\* amount to the ledger of GuardLedger.
Ledger == INSTANCE GuardLedger WITH
  tenant <- [j \in Job |-> jobs[j].tenant],
  outcome <- [j \in Job |-> IF jobs[j].status = "absent" THEN "none"
                            ELSE IF jobs[j].status \in Terminal THEN jobs[j].status
                            ELSE "open"],
  copy <- copies

\* Every step of the service is a step of the ledger or invisible in it.
ImplementsLedger == Ledger!LedgerSpec

\* ... and every admitted job is closed in the end, crashes, lost leases and
\* conflicts notwithstanding, so a tenant is never locked out by its own job.
ImplementsLiveLedger == Ledger!LiveLedgerSpec

\* An object without a copy does not stay: once the job is closed, the sweep
\* removes it, however late it arrived.
OrphansAreErased ==
  \A j \in Job :
    (objects[j] # NoDigest /\ ~ jobs[j].active /\ copies[j] # "stored")
      ~> objects[j] = NoDigest

------------------------------------------------------------------------------
(* The inductive invariant: what each actor may rely on about the rows it    *)
(* is going to write.                                                        *)

Running == {"fetch", "compute", "mark", "put", "publish", "commit", "fail"}
Erasing == {"confirm", "erase"}

HoldsJob(l) == l.stage \in Running \cup Erasing => l.job \in Job

HoldsClaim(l) ==
  l.stage \in Running => /\ jobs[l.job].status # "absent"
                         /\ l.token \in 1 .. jobs[l.job].attempts

\* A sweeper works on a closed job, and erases only what has no copy to lose.
ErasesSafely(l) ==
  /\ l.stage \in Erasing => jobs[l.job].status \in Terminal
  /\ l.stage = "erase" => copies[l.job] # "stored"

KnowsKind(l) ==
  /\ l.stage = "mark" => l.output \in Digests
  /\ l.stage \in {"mark", "put"} => jobs[l.job].kind = "sanitize"
  /\ l.stage \in {"put", "publish", "commit"} /\ jobs[l.job].kind = "sanitize" =>
       jobs[l.job].outputDigest \in Digests

\* The worker whose claim is current knows the recorded digest, and has stored
\* the object before it publishes.
Current(l) == /\ jobs[l.job].status = "processing"
              /\ jobs[l.job].leaseToken = l.token

KnowsStore(l) ==
  l.stage \in Running /\ Current(l) =>
    /\ l.stage \in {"fetch", "compute", "mark"} => l.prior = jobs[l.job].outputDigest
    /\ l.stage = "put" =>
         \/ objects[l.job] = jobs[l.job].outputDigest
         \/ \E p \in puts : p.job = l.job /\ p.token = l.token
    /\ l.stage \in {"publish", "commit"} /\ jobs[l.job].kind = "sanitize" =>
         objects[l.job] = jobs[l.job].outputDigest

Sound(l) == HoldsJob(l) /\ HoldsClaim(l) /\ ErasesSafely(l) /\ KnowsKind(l) /\ KnowsStore(l)

WorkersAreSound == \A w \in Workers : Sound(worker[w])

\* A token names one claim, held by at most one worker.
TokensAreClaims ==
  \A v, w \in Workers :
    /\ worker[v].stage \in Running /\ worker[w].stage \in Running
    /\ worker[v].job = worker[w].job /\ worker[v].token = worker[w].token
    => v = w

\* Everything stored or under way for a job carries the recorded digest.
OneDigestPerJob ==
  /\ \A p \in puts : p.digest = jobs[p.job].outputDigest
  /\ \A j \in Job : objects[j] \in {NoDigest, jobs[j].outputDigest}

\* A late DELETE, or a user's, can only hit an object nobody can download.
DeletesAreSafe ==
  /\ \A j \in erasing : jobs[j].status \in Terminal /\ copies[j] # "stored"
  /\ \A j \in Job : deleting[j] # "no" => copies[j] # "none"

NothingBeforeAdmission ==
  \A j \in Job : jobs[j].status = "absent" => ~ jobs[j].cleanupPending

CopiesAreResults ==
  \A j \in Job : copies[j] # "none" =>
    jobs[j].status = "completed" /\ jobs[j].outputDigest \in Digests

SafetyInv ==
  /\ TypeOK
  /\ ActiveMatchesStatus
  /\ OneOpenJobPerTenant
  /\ NothingBeforeAdmission
  /\ WorkersAreSound
  /\ TokensAreClaims
  /\ OneDigestPerJob
  /\ DeletesAreSafe
  /\ CopiesAreResults
  /\ CopyIsIntact
  /\ ObjectIsTracked

\* A job waits for a claim it may still make, its first one if it is new.
ClaimsAreLeft ==
  \A j \in Job : /\ jobs[j].status = "absent" => jobs[j].attempts = 0
                 /\ jobs[j].status = "queued" => jobs[j].attempts < MaxAttempts

\* An expired lease a recovering worker has read names one claim, so the attempts
\* it decides on are the row's as long as the row still carries the token.
ExpiriesAreClaims ==
  \A w \in Workers : \A seen \in worker[w].expired : seen.token = seen.attempts

HistoryInv == EventsTellHistory /\ ClaimsAreLeft /\ ExpiriesAreClaims
==============================================================================
