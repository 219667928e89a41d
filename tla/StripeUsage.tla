----------------------------- MODULE StripeUsage -----------------------------
(****************************************************************************)
(* The outbox of charged uploads.  An upload beyond the Premium allowance   *)
(* leaves a StripeUsage row in its own transaction; synchronization sends   *)
(* pending rows to Stripe's meter, holds each draft invoice until what the  *)
(* meter counted is what the rows say, and compares the latest finalized    *)
(* invoice with them.  Two calls may do so at once when a lease has run     *)
(* out.  Stripe's meter counts what it accepted some time later, and once   *)
(* per identifier for as long as it remembers it.                           *)
(****************************************************************************)
EXTENDS FiniteSets, CompanyLease, BillingPeriods

CONSTANTS
  Worker,    \* the reconciliation worker, one of Procs
  Begins,    \* stripeMeterStartedAt: when the company came to Premium, in whole seconds
  SubmitLimit, \* ticks after which a row is too old for the meter (35 days)
  MaxTime,   \* bound: the last tick
  MaxUsages, \* bound: charged uploads
  MaxFaults  \* bound: calls that fail, stop or outlast their lease, and requests taken back

ASSUME UsageBounds ==
  /\ Worker \in Procs /\ {SubmitLimit, MaxTime, MaxUsages, MaxFaults} \subseteq Nat
  /\ Activation <= MaxTime
  /\ \A b \in Begins : b \in FloorSecond(Activation)..MaxTime /\ FloorSecond(b) = b

\* Time stops before the last anniversary of the calendar, and a period is long.
ASSUME CalendarIsLongEnough ==
  /\ MaxTime < Boundary(Len(MonthDays))
  /\ \A m \in Months : m + 1 \in Months => EndsAt(m) - StartsAt(m) >= 2 * Minute

VARIABLES
  clock,
  meterFrom, \* stripeMeterStartedAt
  usages,    \* StripeUsage rows: period, timestamp, state, firstAttemptAt; and, for
             \* the properties, the moment of the upload
  aged,      \* rows first tried more than STRIPE_RETRY_WINDOW_MS ago
  flagged,   \* paymentSyncIssue is RECONCILIATION_REQUIRED
  request,   \* the plan change the document holds: none, one to carry out, or one
             \* that is too old for it; or that the subscription is gone
  accepted,  \* Stripe: meter events taken, per row
  counted,   \* Stripe: meter events in the summaries, per row
  keys,      \* Stripe: rows whose identifier it remembers
  invoices,  \* Stripe: one per period that ended
  faults

meter == <<accepted, counted, keys>>
quiet == <<clock, meterFrom, usages, aged, flagged, request, meter, invoices, faults>>
vars == <<lease, expired, doc, calls, quiet>>

Rows == DOMAIN usages
Live == 0 - 1    \* the line of a draft nobody has set shows what is counted
NoInvoice == [status |-> "none", auto |-> FALSE, line |-> Live]
Draft == [status |-> "draft", auto |-> TRUE, line |-> Live]

Init ==
  /\ LeaseInit /\ doc = "usage"
  /\ meterFrom \in Begins /\ clock = Larger(meterFrom, Activation)
  /\ usages = <<>> /\ aged = {} /\ flagged = FALSE /\ request = "none"
  /\ accepted = <<>> /\ counted = <<>> /\ keys = {}
  /\ invoices = [m \in Months |-> NoInvoice]
  /\ faults = 0

(****************************************************************************)
(* enqueueOverage, in the transaction of the upload.                        *)
(****************************************************************************)
\* Wrong: an upload belongs to the minute that begins after it.
TimestampLate(at) ==
  LET m == PeriodOf(at) IN
  Larger(WindowStart(m), Larger(CeilMinute(meterFrom),
    Smaller(CeilMinute(at), WindowEnd(m) - Minute)))

\* The minute of the upload, moved into the meter window of its period.
Timestamp(at) ==
  LET m == PeriodOf(at) IN
  Larger(WindowStart(m), Larger(CeilMinute(meterFrom),
    Smaller(FloorMinute(at), WindowEnd(m) - Minute)))

\* `at` was taken when the upload began; by now the period may be over.  An
\* upload for which the window has no minute left is refused, and so is one of a
\* company without a subscription.
Upload(at) ==
  LET m == PeriodOf(at) IN
  /\ Len(usages) < MaxUsages
  /\ request # "gone"
  /\ at \in Larger(meterFrom, Activation)..clock /\ clock - at <= 1
  /\ Timestamp(at) < WindowEnd(m)
  /\ usages' = Append(usages, [period |-> m, timestamp |-> Timestamp(at),
                               at |-> at, state |-> "pending", tried |-> FALSE])
  /\ accepted' = Append(accepted, 0) /\ counted' = Append(counted, 0)
  /\ UNCHANGED <<leaseVars, doc, calls, clock, meterFrom, aged, flagged, request, keys,
                 invoices, faults>>

(****************************************************************************)
(* reconcileCompany, and what the owner asks for meanwhile.                 *)
(****************************************************************************)
\* The worker (like POST /payments/reconcile) first carries out the plan change that
\* is stored; a webhook goes on to synchronize.
SynchronizeBegins(p) ==
  /\ At(p, "idle")
  /\ Begin(p, [at |-> IF p = Worker THEN "request" ELSE "read", todo |-> {}, row |-> 0,
               sum |-> 0, held |-> FALSE, done |-> {}])
  /\ UNCHANGED quiet

\* None is stored, or performPlanRequest confirms it.
RequestCarriedOut(p) ==
  /\ At(p, "request") /\ request # "old"
  /\ request = "open" => Fenced(p)
  /\ request' = IF request = "open" THEN "none" ELSE request
  /\ Goto(p, "read")
  /\ UNCHANGED <<clock, meterFrom, usages, aged, flagged, meter, invoices, faults>>

\* Stripe refuses it (a card, the catalog), this time or every time, or the lease is
\* lost.
RequestRefused(p) ==
  /\ At(p, "request") /\ request = "open"
  /\ Quit(p)
  /\ UNCHANGED <<clock, meterFrom, usages, aged, flagged, request, meter, invoices, faults>>

\* Its first attempt is too old to be repeated, or its anniversary was missed: it is
\* reported and nothing else of the company is looked at.
RequestTooOld(p) ==
  /\ At(p, "request") /\ request = "old"
  /\ flagged' = (flagged \/ Fenced(p))
  /\ Quit(p)
  /\ UNCHANGED <<clock, meterFrom, usages, aged, request, meter, invoices, faults>>

\* Without stripeSubscriptionId synchronize returns at once.
NoSubscription(p) ==
  /\ At(p, "read") /\ request = "gone"
  /\ Quit(p) /\ UNCHANGED quiet

\* A call of the owner claims the lease and lets it go; whoever held it has lost it.
OwnerWrites(from, to) ==
  /\ expired /\ lease' = None /\ expired' = TRUE
  /\ request \in from /\ request' = to
  /\ UNCHANGED <<doc, calls, clock, meterFrom, usages, aged, flagged, meter, invoices>>

\* changePlan stores another plan, or takes back one that cannot be carried out.
RequestMade == OwnerWrites({"none"}, "open") /\ UNCHANGED faults
RequestTakenBack ==
  /\ faults < MaxFaults /\ faults' = faults + 1
  /\ OwnerWrites({"old"}, "none")

\* checkout, after the subscription has ended, forgets it.  With the one that a
\* completed Checkout brings the company begins anew.
SubscriptionForgotten == OwnerWrites({"none", "open", "old"}, "gone") /\ UNCHANGED faults

\* STRIPE_RETRY_WINDOW_MS pass since its first attempt, or the anniversary comes.
RequestAges ==
  /\ request = "open" /\ request' = "old"
  /\ UNCHANGED <<leaseVars, doc, calls, clock, meterFrom, usages, aged, flagged, meter, invoices, faults>>

(****************************************************************************)
(* submitUsage                                                              *)
(****************************************************************************)
Pending == {u \in Rows : usages[u].state = "pending"}

\* The rows still pending, oldest first (five at most, MaxUsages is fewer).
ReadPending(p) ==
  /\ At(p, "read") /\ request # "gone"
  /\ calls' = [calls EXCEPT ![p].at = "submit", ![p].todo = Pending]
  /\ UNCHANGED <<leaseVars, doc, quiet>>

Oldest(p, u) ==
  u \in calls[p].todo /\ \A v \in calls[p].todo : usages[u].timestamp <= usages[v].timestamp

\* Wrong: a row is sent however old its first attempt is.
NeverTooOld(u) == FALSE

\* Nobody can say any more whether Stripe took it, or Stripe would refuse it.
TooOld(u) == u \in aged \/ clock - usages[u].timestamp > SubmitLimit

\* Wrong: such a row is passed over and stays pending.
PassOver(p, u) ==
  /\ At(p, "submit") /\ Oldest(p, u) /\ TooOld(u)
  /\ calls' = [calls EXCEPT ![p].todo = @ \ {u}]
  /\ UNCHANGED <<leaseVars, doc, quiet>>

\* Such a row is left to people, and the document says so.
GiveUpRow(p, u) ==
  /\ At(p, "submit") /\ Oldest(p, u) /\ TooOld(u)
  /\ usages' = [usages EXCEPT ![u].state = "reconciliation"]
  /\ IF Fenced(p) THEN /\ flagged' = TRUE
                       /\ calls' = [calls EXCEPT ![p].todo = @ \ {u}]
                       /\ UNCHANGED <<leaseVars, doc>>
     ELSE Quit(p) /\ UNCHANGED flagged
  /\ UNCHANGED <<clock, meterFrom, aged, request, meter, invoices, faults>>

\* The first attempt is written down, and the lease made longer, before.
TryRow(p, u) ==
  /\ At(p, "submit") /\ Oldest(p, u) /\ ~TooOld(u)
  /\ usages' = [usages EXCEPT ![u].tried = TRUE]
  /\ IF Fenced(p)
     THEN /\ expired' = FALSE
          /\ calls' = [calls EXCEPT ![p].at = "send", ![p].row = u, ![p].todo = @ \ {u}]
          /\ UNCHANGED <<lease, doc>>
     ELSE Quit(p)
  /\ UNCHANGED <<clock, meterFrom, aged, flagged, request, meter, invoices, faults>>

\* meterEvents.create with the row's identifier, also its idempotency key.
SendRow(p) ==
  LET u == calls[p].row IN
  /\ At(p, "send")
  /\ accepted' = IF u \in keys THEN accepted ELSE [accepted EXCEPT ![u] = @ + 1]
  /\ keys' = keys \cup {u}
  /\ Goto(p, "sent")
  /\ UNCHANGED <<clock, meterFrom, usages, aged, flagged, request, counted, invoices, faults>>

\* Confirmed: by the row's id alone, lease or no lease.
MarkSubmitted(p) ==
  /\ At(p, "sent")
  /\ usages' = [usages EXCEPT ![calls[p].row].state = "submitted"]
  /\ calls' = [calls EXCEPT ![p].at = "submit", ![p].row = 0]
  /\ UNCHANGED <<leaseVars, doc, clock, meterFrom, aged, flagged, request, meter, invoices, faults>>

NothingPending(p) ==
  /\ At(p, "submit") /\ calls[p].todo = {}
  /\ Goto(p, "drafts")
  /\ UNCHANGED quiet

(****************************************************************************)
(* reconcileDraft, verifyFinalizedUsage, applyCanonical                     *)
(****************************************************************************)
\* The rows an invoice line is compared with: those of its own period, as Stripe
\* has it.  (The first line begins when the company came to Premium, before which
\* there are no rows.)
InLine(m) == {u \in Rows : LineStart(m) <= usages[u].timestamp
                           /\ usages[u].timestamp < LineEnd(m)}
Used(m) == Cardinality(InLine(m))
Total[f \in [1..MaxUsages -> 0..2], n \in 0..MaxUsages] ==
  IF n = 0 THEN 0 ELSE f[n] + Total[f, n - 1]
Counted(m) ==
  Total[[u \in 1..MaxUsages |-> IF u \in InLine(m) THEN counted[u] ELSE 0], MaxUsages]
Line(m) == IF invoices[m].line = Live THEN Counted(m) ELSE invoices[m].line
AllSubmitted(m) == \A u \in InLine(m) : usages[u].state = "submitted"

\* The lease is renewed and collection of the draft is held.
HoldDraft(p, m) ==
  /\ At(p, "drafts") /\ invoices[m].status = "draft" /\ m \notin calls[p].done
  /\ IF Fenced(p)
     THEN /\ expired' = FALSE
          /\ invoices' = [invoices EXCEPT ![m].auto = FALSE]
          /\ calls' = [calls EXCEPT ![p].at = "compare", ![p].row = m, ![p].done = @ \cup {m}]
          /\ UNCHANGED <<lease, doc>>
     ELSE Quit(p) /\ UNCHANGED invoices
  /\ UNCHANGED <<clock, meterFrom, usages, aged, flagged, request, meter, faults>>

\* Every row of the period submitted, and the meter's summary their sum;
\* otherwise the draft stays held.
CompareDraft(p) ==
  LET m == calls[p].row
      agree == AllSubmitted(m) /\ Counted(m) = Used(m) IN
  /\ At(p, "compare")
  /\ calls' = [calls EXCEPT ![p] =
       IF agree THEN [@ EXCEPT !.at = "advance", !.sum = Used(m)]
       ELSE [@ EXCEPT !.at = "drafts", !.row = 0, !.held = TRUE]]
  /\ UNCHANGED <<leaseVars, doc, quiet>>

\* The line gets the sum compared, and the draft goes back to collection.
AdvanceDraft(p) ==
  LET m == calls[p].row IN
  /\ At(p, "advance")
  /\ IF invoices[m].status = "draft"
     THEN /\ invoices' = [invoices EXCEPT ![m].auto = TRUE,
               ![m].line = IF Line(m) = calls[p].sum THEN @ ELSE calls[p].sum]
          /\ calls' = [calls EXCEPT ![p].at = "drafts", ![p].row = 0, ![p].sum = 0]
          /\ UNCHANGED <<leaseVars, doc>>
     ELSE Quit(p) /\ UNCHANGED invoices
  /\ UNCHANGED <<clock, meterFrom, usages, aged, flagged, request, meter, faults>>

\* The latest invoice, if it is finalized, says what the rows say.
Latest(m) == invoices[m].status # "none" /\ \A n \in Months : n > m => invoices[n].status = "none"
Verified(m) == invoices[m].status = "finalized" => AllSubmitted(m) /\ Line(m) = Used(m)


VerifyLatest(p) ==
  /\ At(p, "drafts")
  /\ \A m \in Months : invoices[m].status = "draft" => m \in calls[p].done
  /\ calls' = [calls EXCEPT ![p].at = "apply", ![p].done = {},
                 ![p].held = @ \/ \E m \in Months : Latest(m) /\ ~Verified(m)]
  /\ UNCHANGED <<leaseVars, doc, quiet>>

\* The issue is set anew from the rows given up and the drafts held.
ApplyIssue(p) ==
  /\ At(p, "apply")
  /\ flagged' = IF Fenced(p)
                THEN calls[p].held \/ \E u \in Rows : usages[u].state = "reconciliation"
                ELSE flagged
  /\ Quit(p)
  /\ UNCHANGED <<clock, meterFrom, usages, aged, request, meter, invoices, faults>>

(****************************************************************************)
(* Stripe, time and failures.                                               *)
(****************************************************************************)
\* At Stripe's anniversary the period's draft appears, to be collected by itself.
Tick ==
  /\ clock < MaxTime /\ clock' = clock + 1
  /\ invoices' = [m \in Months |->
       IF m + 1 \in Months /\ RemoteEnd(m) = clock + 1 THEN Draft ELSE invoices[m]]
  /\ UNCHANGED <<leaseVars, doc, calls, meterFrom, usages, aged, flagged, request, meter, faults>>

Finalize(m) ==
  /\ invoices[m].status = "draft" /\ invoices[m].auto
  /\ invoices' = [invoices EXCEPT ![m].status = "finalized", ![m].line = Line(m)]
  /\ UNCHANGED <<leaseVars, doc, calls, clock, meterFrom, usages, aged, flagged, request, meter, faults>>

MeterCounts(u) ==
  /\ counted[u] < accepted[u]
  /\ counted' = [counted EXCEPT ![u] = @ + 1]
  /\ UNCHANGED <<leaseVars, doc, calls, clock, meterFrom, usages, aged, flagged, request, accepted,
                 keys, invoices, faults>>

\* A call is much shorter than the retry window: none is between its check of
\* the first attempt and the request.  Stripe forgets only older identifiers.
WindowPasses(u) ==
  /\ usages[u].tried /\ u \notin aged
  /\ \A p \in Procs : ~At(p, "send")
  /\ aged' = aged \cup {u}
  /\ UNCHANGED <<leaseVars, doc, calls, clock, meterFrom, usages, flagged, request, meter, invoices, faults>>

IdentifierForgotten(u) ==
  /\ u \in aged \cap keys
  /\ keys' = keys \ {u}
  /\ UNCHANGED <<leaseVars, doc, calls, clock, meterFrom, usages, aged, flagged, request, accepted,
                 counted, invoices, faults>>

\* Each step renews the lease for far longer than it takes: that one runs out
\* under its holder is a fault like the others.
LeaseExpires == Expire /\ At(lease, "idle") /\ UNCHANGED quiet

HolderTooSlow ==
  /\ Expire /\ ~At(lease, "idle") /\ faults < MaxFaults /\ faults' = faults + 1
  /\ UNCHANGED <<clock, meterFrom, usages, aged, flagged, request, meter, invoices>>

CallFails(p) ==
  /\ ~At(p, "idle") /\ faults < MaxFaults /\ faults' = faults + 1
  /\ Quit(p)
  /\ UNCHANGED <<clock, meterFrom, usages, aged, flagged, request, meter, invoices>>

CallStops(p) ==
  /\ ~At(p, "idle") /\ faults < MaxFaults /\ faults' = faults + 1
  /\ Drop(p)
  /\ UNCHANGED <<clock, meterFrom, usages, aged, flagged, request, meter, invoices>>

Step(p) ==
  \/ \E u \in Rows : GiveUpRow(p, u) \/ TryRow(p, u)
  \/ RequestCarriedOut(p) \/ RequestRefused(p) \/ RequestTooOld(p) \/ NoSubscription(p)
  \/ ReadPending(p) \/ SendRow(p) \/ MarkSubmitted(p) \/ NothingPending(p)
  \/ \E m \in Months : HoldDraft(p, m)
  \/ CompareDraft(p) \/ AdvanceDraft(p) \/ VerifyLatest(p) \/ ApplyIssue(p)

Next ==
  \/ \E p \in Procs : SynchronizeBegins(p) \/ Step(p) \/ CallFails(p) \/ CallStops(p)
  \/ \E at \in Activation..MaxTime : Upload(at)
  \/ \E u \in Rows : MeterCounts(u) \/ WindowPasses(u) \/ IdentifierForgotten(u)
  \/ \E m \in Months : Finalize(m)
  \/ RequestMade \/ RequestTakenBack \/ SubscriptionForgotten \/ RequestAges
  \/ Tick \/ LeaseExpires \/ HolderTooSlow

\* The worker's timer ticks for ever, each call comes to an end, the lease of
\* one that stopped runs out, Stripe counts what it accepted, and a request it
\* refuses every time grows old.
Fairness ==
  /\ \A p \in Procs : WF_vars(Step(p))
  /\ SF_vars(SynchronizeBegins(Worker))
  /\ WF_vars(LeaseExpires) /\ WF_vars(RequestAges)
  /\ WF_vars(\E u \in Rows : MeterCounts(u))

Spec == Init /\ [][Next]_vars /\ Fairness
-----------------------------------------------------------------------------
\* The shape of a state.
UsageTypeOK ==
  /\ LeaseTypeOK /\ clock \in Activation..MaxTime
  /\ flagged \in BOOLEAN /\ request \in {"none", "open", "old", "gone"}
  /\ aged \cup keys \subseteq Rows
  /\ \A u \in Rows : usages[u].state \in {"pending", "submitted", "reconciliation"}
  /\ Len(accepted) = Len(usages) /\ Len(counted) = Len(usages)
  /\ \A m \in Months : invoices[m].status \in {"none", "draft", "finalized"}

\* Consecutive periods share their boundary, each moment lies in its period,
\* and after a short month the original day comes back (billingPeriod).
PeriodsTile ==
  LET m == PeriodOf(clock) IN
  /\ StartsAt(m) <= clock /\ clock < EndsAt(m) /\ PeriodOf(EndsAt(m)) = m + 1
  /\ \A n \in {m, m + 1} :
       MonthDays[n] >= AnchorDay =>
         StartsAt(n) = (DaysBefore[n] + AnchorDay - 1) * DayTicks + AnchorTime

\* A row is billed in the line of the period its upload was charged to, also when
\* the upload crossed the boundary on its way.  Stripe's line ends at the whole
\* second and DataVault's period up to a second later, so one row may belong to the
\* first minute of the next line instead: that of an upload after Stripe's own
\* boundary, or of a company that came to Premium in the last minute before it
\* (enqueueOverage, reconcileDraft).
TimestampInLine ==
  \A u \in Rows :
    LET m == usages[u].period IN
    \/ u \in InLine(m)
    \/ /\ usages[u].timestamp = LineEnd(m)
       /\ usages[u].at >= RemoteEnd(m) \/ CeilMinute(meterFrom) >= LineEnd(m)

\* However calls fail between sending a row and marking it, Stripe takes it
\* once, and takes every row that is marked; what it took was written down before
\* as attempted, or nothing would keep it from being sent again (submitUsage).
MeteredExactlyOnce ==
  \A u \in Rows :
    /\ accepted[u] <= 1
    /\ usages[u].state = "submitted" => accepted[u] = 1
    /\ accepted[u] > 0 => usages[u].tried

\* A row is sent, or left to people.  The worker may end before it looks at the rows,
\* at every tick: one that stays in the outbox for ever is of a company that stays
\* marked for reconciliation, or that has forgotten its ended subscription
\* (reconcileCompany, synchronize).
EveryRowSettled ==
  \A u \in 1..MaxUsages :
    <>[](u \in Rows /\ usages[u].state = "pending")
      => <>[]flagged \/ <>(request = "gone")


-----------------------------------------------------------------------------
(* The inductive invariant: what a call between two requests may rely on.    *)
Stages == {"request", "read", "submit", "send", "sent", "drafts", "compare", "advance", "apply"}

Call == [at : Stages, todo : SUBSET Nat, row : Nat, sum : Nat, held : BOOLEAN,
         done : SUBSET Months]

UsageRow == [period : Months, timestamp : Int, at : Int,
             state : {"pending", "submitted", "reconciliation"}, tried : BOOLEAN]

OutboxTypes ==
  /\ meterFrom \in Begins /\ clock \in Activation..MaxTime
  /\ usages \in Seq(UsageRow)
  /\ accepted \in Seq(Nat) /\ Len(accepted) = Len(usages)
  /\ aged \subseteq Rows /\ keys \subseteq Rows
  /\ calls \in [Procs -> Call \cup {Idle}]

\* Stripe has taken what it remembers once, and what it no longer remembers is
\* too old to be sent again.
MeterRemembers ==
  /\ \A u \in keys : accepted[u] = 1
  /\ \A u \in Rows \ keys : accepted[u] = 0 \/ u \in aged

\* A call about to send a row has written down its attempt, which is young; one
\* that has sent it may mark it.
SendsAreSound ==
  \A p \in Procs :
    /\ ~At(p, "idle") => calls[p].todo \subseteq Rows
    /\ At(p, "send") \/ At(p, "sent") => calls[p].row \in Rows
    /\ At(p, "send") => calls[p].row \notin aged /\ usages[calls[p].row].tried
    /\ At(p, "sent") => accepted[calls[p].row] = 1

OutboxInv ==
  OutboxTypes /\ TimestampInLine /\ MeteredExactlyOnce /\ MeterRemembers /\ SendsAreSound
=============================================================================
