----------------------------- MODULE StripePlan -----------------------------
(****************************************************************************)
(* The plan of a company with a live Stripe subscription: the owner asks    *)
(* for another plan, the request is written down as pending, carried out at *)
(* Stripe under the key of its operation, and takes effect when the         *)
(* canonical subscription is applied.  Meanwhile files are stored and       *)
(* deleted, the worker and webhooks synchronize, and Stripe changes things  *)
(* on its own.  Of what a plan limits only the stored files are here: seats *)
(* are those of Seats, where a resent invitation is not checked at all.     *)
(*                                                                          *)
(* The driver runs the callback of a transaction again when its commit met  *)
(* a transient error.  What the first run wrote is undone then, but update  *)
(* has changed the copy of the document, and the second run begins with it. *)
(****************************************************************************)
EXTENDS Naturals, FiniteSets, CompanyLease

CONSTANTS
  Worker,       \* the reconciliation worker, one of Procs
  FreeLimit,    \* what the Free plan may hold
  BasicLimit,   \* what the Basic plan may hold; Premium is not limited
  MaxStored,    \* bound: files stored
  MaxRequests,  \* bound: plan changes asked for
  MaxRenewals,  \* bound: anniversaries
  Reruns        \* whether a commit may fail and its callback run again

ASSUME PlanBounds ==
  /\ Worker \in Procs
  /\ {FreeLimit, BasicLimit, MaxStored, MaxRequests, MaxRenewals} \subseteq Nat
  /\ FreeLimit <= BasicLimit /\ Reruns \in BOOLEAN

VARIABLES
  standing, \* paymentAccess and paymentSyncIssue of the document
  stored,   \* files of the company
  asked,    \* plan changes asked for: their operations
  aged,     \* operations first tried more than STRIPE_RETRY_WINDOW_MS ago
  remote,   \* Stripe: the subscription
  made,     \* Stripe: schedules ever created
  done,     \* Stripe: the keys it has carried out
  renewals  \* anniversaries passed

stripe == <<remote, made, done>>
quiet == <<standing, stored, asked, aged, stripe, renewals>>
vars == <<lease, expired, doc, calls, quiet>>

Plans == {"free", "basic", "premium"}
NoPlan == "no"
Limited(plan) == plan # "premium"
Limit(plan) == IF plan = "free" THEN FreeLimit ELSE BasicLimit
Fits(plan, n) == Limited(plan) => n <= Limit(plan)

Operations == 0..MaxRequests
Schedules == 0..MaxRequests
\* `to` is the plan of a schedule's next phase; 0 is no schedule.
Remote == [plan : Plans \ {"free"}, status : {"active", "canceled"}, paid : BOOLEAN,
           schedule : Schedules, to : Plans \cup {NoPlan}]
Standing == [access : {"active", "suspended"},
             issue : {"none", "retry", "reconciliation", "conflict"}]
\* `before` is the anniversary pendingPlanAt falls on, counted.
Document == [plan : Plans, pending : Plans \cup {NoPlan}, before : 0..MaxRenewals + 1,
             operation : Operations, attempted : BOOLEAN, confirmed : BOOLEAN,
             schedule : Schedules]

\* A company just subscribed to a paid plan that fits what it holds.
Init ==
  /\ LeaseInit
  /\ \E plan \in {"basic", "premium"} :
       /\ doc = [plan |-> plan, pending |-> NoPlan, before |-> 0, operation |-> 0,
                 attempted |-> FALSE, confirmed |-> FALSE, schedule |-> 0]
       /\ remote = [plan |-> plan, status |-> "active", paid |-> TRUE,
                    schedule |-> 0, to |-> NoPlan]
  /\ standing = [access |-> "active", issue |-> "none"]
  /\ stored = 0 /\ asked = 0 /\ aged = {} /\ made = 0 /\ done = {}
  /\ renewals = 0

\* What a call has retrieved: the plan and whether it is collected; a canceled
\* subscription reads as Free.
Seen == [plan |-> IF remote.status = "canceled" THEN "free" ELSE remote.plan,
         paid |-> remote.status = "canceled" \/ remote.paid]
NotRead == [plan |-> NoPlan, paid |-> FALSE]

\* A call under way: the plan asked for, and the subscription it has retrieved.
Call(stage, target) == [at |-> stage, target |-> target, copy |-> doc, read |-> NotRead]

(****************************************************************************)
(* changePlan                                                               *)
(****************************************************************************)
\* POST /payments/plan and /payments/cancel by the owner.
ChangePlanBegins(p, target) ==
  /\ p # Worker /\ At(p, "idle") /\ asked < MaxRequests
  /\ Begin(p, Call("request", target))
  /\ UNCHANGED quiet

\* The target has to fit, and may not replace another queued paid plan.
Refused(p) ==
  LET c == Copy(p)
      target == calls[p].target IN
  \/ ~Fits(target, stored)
  \/ c.pending \notin {NoPlan, target} /\ target \notin {c.plan, "free"}

\* A new operation, unless this target is pending already; Free is asked for
\* anew once it was confirmed.
Anew(p) ==
  LET target == calls[p].target IN
  Copy(p).pending # target \/ (target = "free" /\ Copy(p).confirmed)

Requested(p, d) ==
  [d EXCEPT !.pending = calls[p].target, !.before = renewals + 1,
            !.operation = asked + 1, !.confirmed = FALSE, !.attempted = FALSE]

\* One transaction with the lock of the subscription.
RequestPlan(p) ==
  /\ At(p, "request")
  /\ IF Refused(p) THEN Quit(p) /\ UNCHANGED asked
     ELSE IF Anew(p)
     THEN /\ Write(p, Requested(p, doc), Requested(p, Copy(p)), "perform")
          /\ asked' = IF Fenced(p) THEN asked + 1 ELSE asked
     ELSE Goto(p, "perform") /\ UNCHANGED asked
  /\ UNCHANGED <<standing, stored, aged, stripe, renewals>>

\* Its commit fails: the copy says that the target is pending, so the next run
\* writes nothing, and Stripe is asked for what the document does not know of.
RequestUndone(p) ==
  /\ Reruns /\ At(p, "request") /\ Fenced(p) /\ ~Refused(p) /\ Anew(p)
  /\ calls' = [calls EXCEPT ![p].copy = Requested(p, @)]
  /\ asked' = asked + 1
  /\ UNCHANGED <<leaseVars, doc, standing, stored, aged, stripe, renewals>>

(****************************************************************************)
(* performPlanRequest                                                       *)
(****************************************************************************)
Downgrade(p) == calls[p].read.plan = "premium" /\ Copy(p).pending = "basic"
Active == remote.status = "active"
Stays(p) == Copy(p).pending = calls[p].read.plan
Leaves(p) == Copy(p).pending = "free"

\* Nothing to do, or the subscription is retrieved; the schedule it has is the
\* one the document names, and a downgrade that missed its anniversary is
\* reported instead of being repeated a month later.
Perform(p) ==
  LET c == Copy(p)
      idle == c.pending = NoPlan \/ c.confirmed \/ ~Active
      Named(d) == [d EXCEPT !.schedule = remote.schedule]
      late == c.pending = "basic" /\ remote.plan = "premium" /\ c.before <= renewals IN
  /\ At(p, "perform")
  /\ IF ~idle /\ Named(c) # c /\ ~Fenced(p) THEN Quit(p) /\ UNCHANGED standing
     ELSE IF ~idle /\ late
     THEN /\ doc' = IF Fenced(p) THEN Named(doc) ELSE doc
          /\ standing' = IF Fenced(p) THEN [standing EXCEPT !.issue = "reconciliation"]
                         ELSE standing
          /\ Finish(p)
     ELSE /\ doc' = IF ~idle /\ Fenced(p) THEN Named(doc) ELSE doc
          /\ calls' = [calls EXCEPT ![p] = [@ EXCEPT
               !.at = IF idle THEN "sync" ELSE "attempt",
               !.copy = IF idle THEN c ELSE Named(c),
               !.read = IF idle THEN NotRead ELSE [Seen EXCEPT !.paid = FALSE],
               !.target = NoPlan]]
          /\ UNCHANGED <<leaseVars, standing>>
  /\ UNCHANGED <<stored, asked, aged, stripe, renewals>>

\* The time of the first attempt is written over any the document has.
AttemptPlan(p) ==
  LET Attempted(d) == [d EXCEPT !.attempted = TRUE] IN
  /\ At(p, "attempt")
  /\ IF Copy(p).attempted /\ Copy(p).operation \in aged
     THEN /\ standing' = IF Fenced(p) THEN [standing EXCEPT !.issue = "reconciliation"]
                         ELSE standing
          /\ Quit(p) /\ UNCHANGED aged
     ELSE /\ IF Copy(p).attempted THEN Goto(p, "act") /\ UNCHANGED aged
             ELSE /\ Write(p, Attempted(doc), Attempted(Copy(p)), "act")
                  /\ aged' = IF Fenced(p) THEN aged \ {doc.operation} ELSE aged
          /\ UNCHANGED standing
  /\ UNCHANGED <<stored, asked, stripe, renewals>>

\* Stripe carries out a request once per key; a request that is not possible
\* now, and was not carried out before, is an error that ends the call.
Request(p, name, possible, effect, next) ==
  LET key == <<Copy(p).operation, name>> IN
  IF key \in done THEN Goto(p, next) /\ UNCHANGED <<remote, done>>
  ELSE IF possible THEN /\ remote' = effect /\ done' = done \cup {key}
                        /\ Goto(p, next)
  ELSE Quit(p) /\ UNCHANGED <<remote, done>>

NoSchedule == [remote EXCEPT !.schedule = 0, !.to = NoPlan]

\* A schedule that would change the plan later is released before anything
\* but the downgrade it belongs to.
ReleaseSchedule(p) ==
  /\ At(p, "act")
  /\ Copy(p).schedule # 0 /\ (Stays(p) \/ ~Downgrade(p))
  /\ Request(p, "release", remote.schedule = Copy(p).schedule, NoSchedule,
             IF Leaves(p) THEN "cancel" ELSE "released")
  /\ UNCHANGED <<standing, stored, asked, aged, made, renewals>>

ForgetSchedule(p) ==
  LET Forgotten(d) == [d EXCEPT !.schedule = 0] IN
  /\ At(p, "released")
  /\ Write(p, Forgotten(doc), Forgotten(Copy(p)), "act")
  /\ UNCHANGED quiet

\* Free: the subscription is canceled now.
CancelSubscription(p) ==
  /\ At(p, "cancel") \/ (At(p, "act") /\ Leaves(p) /\ Copy(p).schedule = 0)
  /\ Request(p, "cancel", Active, [NoSchedule EXCEPT !.status = "canceled"], "confirm")
  /\ UNCHANGED <<standing, stored, asked, aged, made, renewals>>

\* Premium to Basic: a schedule from the subscription, then its two phases.
CreateSchedule(p) ==
  /\ At(p, "act") /\ Downgrade(p)
  /\ IF Copy(p).schedule # 0 THEN Goto(p, "phases") /\ UNCHANGED <<remote, done, made>>
     ELSE /\ Request(p, "schedule", Active /\ remote.schedule = 0 /\ made < MaxRequests,
                     [remote EXCEPT !.schedule = made + 1], "scheduled")
          /\ made' = IF done' # done THEN made + 1 ELSE made
  /\ UNCHANGED <<standing, stored, asked, aged, renewals>>

StoreSchedule(p) ==
  LET Named(d) == [d EXCEPT !.schedule = made] IN
  /\ At(p, "scheduled")
  /\ Write(p, Named(doc), Named(Copy(p)), "phases")
  /\ UNCHANGED quiet

SchedulePhases(p) ==
  /\ At(p, "phases")
  /\ Request(p, "phases", remote.schedule = Copy(p).schedule /\ Active,
             [remote EXCEPT !.to = "basic"], "confirm")
  /\ UNCHANGED <<standing, stored, asked, aged, made, renewals>>

\* The plan it is on: what ends it later is taken back.  Basic to Premium: the
\* items are replaced at once.
UpdateItems(p) ==
  /\ At(p, "act") /\ Copy(p).schedule = 0 /\ ~Leaves(p) /\ ~Downgrade(p)
  /\ Request(p, "items", Active,
             IF Stays(p) THEN remote ELSE [remote EXCEPT !.plan = Copy(p).pending], "confirm")
  /\ UNCHANGED <<standing, stored, asked, aged, made, renewals>>

Confirm(p) ==
  LET Confirmed(d) ==
        [d EXCEPT !.confirmed = TRUE, !.schedule = IF Leaves(p) THEN 0 ELSE @] IN
  /\ At(p, "confirm")
  /\ Write(p, Confirmed(doc), Confirmed(Copy(p)), "sync")
  /\ UNCHANGED quiet

(****************************************************************************)
(* synchronize and applyCanonical                                           *)
(****************************************************************************)
\* A schedule that Stripe no longer has leaves the document.
Retrieve(p) ==
  LET gone == Copy(p).schedule # 0 /\ remote.schedule = 0
      Left(d) == [d EXCEPT !.schedule = IF gone THEN 0 ELSE @] IN
  /\ At(p, "sync")
  /\ IF Fenced(p) \/ ~gone
     THEN /\ doc' = Left(doc)
          /\ calls' = [calls EXCEPT ![p].at = "apply", ![p].read = Seen, ![p].copy = Left(@)]
          /\ UNCHANGED leaseVars
     ELSE Quit(p)
  /\ UNCHANGED quiet

\* What the subscription retrieved earlier means for the company: the plan if
\* it is collected and fits what is stored now, Free if it ended and Free fits;
\* otherwise the plan stays and access is suspended.
\* Wrong: a collected plan is given whatever is stored.
GrantedUnchecked(r, n) == r.paid
Granted(r, n) == r.paid /\ Fits(r.plan, n)
StandingAfter(r, n) ==
  [access |-> IF Granted(r, n) THEN "active" ELSE "suspended",
   issue |-> IF r.paid /\ ~Granted(r, n) THEN "conflict" ELSE "none"]
\* A request is settled when the plan it asked for is the company's plan.  Which
\* plan stays and what was asked for, the call takes from its copy.
Canonical(p, d) ==
  LET r == calls[p].read
      kept == IF Granted(r, stored) THEN r.plan ELSE Copy(p).plan
      now == [d EXCEPT !.plan = kept] IN
  IF kept # Copy(p).pending THEN now
  ELSE [now EXCEPT !.pending = NoPlan, !.before = 0, !.operation = 0,
                   !.attempted = FALSE, !.confirmed = FALSE]

\* One transaction with the lock of the subscription; fenced.
Apply(p) ==
  /\ At(p, "apply")
  /\ doc' = IF Fenced(p) THEN Canonical(p, doc) ELSE doc
  /\ standing' = IF Fenced(p) THEN StandingAfter(calls[p].read, stored) ELSE standing
  /\ Finish(p)
  /\ UNCHANGED <<stored, asked, aged, stripe, renewals>>

\* Its commit fails: the plan that stays in the next run is the one of this run.
ApplyUndone(p) ==
  /\ Reruns /\ At(p, "apply") /\ Fenced(p)
  /\ calls' = [calls EXCEPT ![p].copy = Canonical(p, @)]
  /\ UNCHANGED <<leaseVars, doc, quiet>>

\* The worker's tick, or the owner's POST /payments/reconcile.
ReconcileBegins(p) ==
  /\ At(p, "idle")
  /\ Begin(p, Call("perform", NoPlan))
  /\ UNCHANGED quiet

\* A webhook about the subscription or an invoice.
WebhookBegins(p) ==
  /\ p # Worker /\ At(p, "idle")
  /\ Begin(p, Call("sync", NoPlan))
  /\ UNCHANGED quiet

(****************************************************************************)
(* What the company holds: one transaction with the lock each.              *)
(****************************************************************************)
\* Wrong: only the current plan counts.
StoreByCurrentPlan ==
  /\ stored < MaxStored
  /\ standing.access = "active" /\ standing.issue # "reconciliation"
  /\ Fits(doc.plan, stored + 1)
  /\ stored' = stored + 1
  /\ UNCHANGED <<leaseVars, doc, calls, standing, asked, aged, stripe, renewals>>

\* A mutation needs current payment state, and room in the plan as well as in
\* the plan that is pending.
Store ==
  /\ stored < MaxStored
  /\ standing.access = "active" /\ standing.issue # "reconciliation"
  /\ Fits(doc.plan, stored + 1)
  /\ doc.pending # NoPlan => Fits(doc.pending, stored + 1)
  /\ stored' = stored + 1
  /\ UNCHANGED <<leaseVars, doc, calls, standing, asked, aged, stripe, renewals>>

Remove ==
  /\ stored > 0 /\ stored' = stored - 1
  /\ UNCHANGED <<leaseVars, doc, calls, standing, asked, aged, stripe, renewals>>

(****************************************************************************)
(* Stripe, time and failures.                                               *)
(****************************************************************************)
\* The anniversary: a schedule enters its next phase, or ends after it.
Anniversary ==
  /\ renewals < MaxRenewals /\ renewals' = renewals + 1
  /\ remote' = IF remote.to # NoPlan THEN [remote EXCEPT !.plan = remote.to, !.to = NoPlan]
               ELSE NoSchedule
  /\ UNCHANGED <<leaseVars, doc, calls, standing, stored, asked, aged, made, done>>

\* An invoice is paid or is not.
InvoiceChanges ==
  /\ Active /\ remote' = [remote EXCEPT !.paid = ~@]
  /\ UNCHANGED <<leaseVars, doc, calls, standing, stored, asked, aged, made, done, renewals>>

\* Stripe gives up collecting and ends the subscription.
SubscriptionEnds ==
  /\ Active /\ ~remote.paid /\ remote' = [NoSchedule EXCEPT !.status = "canceled"]
  /\ UNCHANGED <<leaseVars, doc, calls, standing, stored, asked, aged, made, done, renewals>>

WindowPasses ==
  /\ doc.attempted /\ doc.operation \notin aged \cup {0}
  /\ \A p \in Procs : calls[p].at \notin {"act", "cancel", "released", "scheduled", "phases"}
  /\ aged' = aged \cup {doc.operation}
  /\ UNCHANGED <<leaseVars, doc, calls, standing, stored, asked, stripe, renewals>>

LeaseExpires == Expire /\ UNCHANGED quiet

\* An exception ends the call; the worker reports its own.
CallFails(p) ==
  /\ ~At(p, "idle")
  /\ standing' = IF p = Worker /\ standing.issue # "reconciliation"
                 THEN [standing EXCEPT !.issue = "retry"] ELSE standing
  /\ Quit(p)
  /\ UNCHANGED <<stored, asked, aged, stripe, renewals>>

\* The process stops with the lease.
CallStops(p) ==
  /\ ~At(p, "idle")
  /\ Drop(p)
  /\ UNCHANGED <<standing, stored, asked, aged, stripe, renewals>>

Step(p) ==
  \/ RequestPlan(p) \/ Perform(p) \/ AttemptPlan(p)
  \/ ReleaseSchedule(p) \/ ForgetSchedule(p) \/ CancelSubscription(p)
  \/ CreateSchedule(p) \/ StoreSchedule(p) \/ SchedulePhases(p)
  \/ UpdateItems(p) \/ Confirm(p) \/ Retrieve(p) \/ Apply(p)
  \/ RequestUndone(p) \/ ApplyUndone(p)

Next ==
  \/ \E p \in Procs :
       \/ ReconcileBegins(p) \/ WebhookBegins(p) \/ Step(p)
       \/ CallFails(p) \/ CallStops(p)
       \/ \E target \in Plans : ChangePlanBegins(p, target)
  \/ Store \/ Remove \/ Anniversary \/ InvoiceChanges \/ SubscriptionEnds
  \/ WindowPasses \/ LeaseExpires

Spec == Init /\ [][Next]_vars
-----------------------------------------------------------------------------
\* The shape of a state.
PlanTypeOK ==
  /\ LeaseTypeOK
  /\ doc \in Document /\ standing \in Standing /\ remote \in Remote
  /\ stored \in 0..MaxStored /\ asked \in Operations /\ made \in Schedules
  /\ aged \subseteq Operations /\ renewals \in 0..MaxRenewals

\* A company with active access holds no more than its plan allows, although a
\* plan is checked when it is asked for, carried out at Stripe and applied at three
\* times, with files stored in between, by calls that may have lost the lease and
\* transactions that run again.  One whose transaction ran again may be left on a
\* plan that is too small, but then it is suspended and stores no more.
ActivePlanFits == standing.access = "active" => Fits(doc.plan, stored)

\* What it holds fits the plan that is pending: a queued downgrade can take
\* effect at its anniversary whatever the company stores until then.
PendingFits == doc.pending # NoPlan => Fits(doc.pending, stored)

\* docs/billing.md: "choosing the current plan first removes the pending
\* request", and while a lower plan is queued mutations respect it.  So when no
\* call is under way and Stripe will change the plan, a request is pending.
QueuedDowngradeIsKnown ==
  (\A p \in Procs : At(p, "idle")) /\ remote.to = "basic" => doc.pending # NoPlan
=============================================================================
