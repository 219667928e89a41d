--------------------------- MODULE StripeCheckout ---------------------------
(****************************************************************************)
(* How a company comes to have a Stripe subscription and how its document   *)
(* follows it: hosted checkout in setup mode, the subscription created from *)
(* a completed session, webhooks, and the reconciliation worker.  Each call *)
(* works on the copy of the document it got with the lease, and every await *)
(* is a step.  Stripe is external: it answers a repeated key with what the  *)
(* first request made, as long as it remembers the key.                     *)
(*                                                                          *)
(* A checkout operation and the session made under its key are one number,  *)
(* 0 for none; `subs` lists the subscriptions made, and 0 is none as well.  *)
(****************************************************************************)
EXTENDS Naturals, Sequences, FiniteSets, CompanyLease

CONSTANTS
  Worker,      \* the reconciliation worker, one of Procs
  MaxSessions, \* bound: checkout operations ever started
  MaxSubs,     \* bound: subscriptions ever made
  MaxChanges,  \* bound: changes Stripe makes to subscriptions
  MaxEvents,   \* bound: events that get into the ledger
  MaxFaults    \* bound: calls that fail or stop on the way

ASSUME CheckoutBounds ==
  Worker \in Procs /\ {MaxSessions, MaxSubs, MaxChanges, MaxEvents, MaxFaults} \subseteq Nat

VARIABLES
  begun,    \* checkout operations begun: randomUUID never repeats one
  recorded, \* StripeEvent: the ledger of processed events
  ignored,  \* those recorded without a company
  sessions, \* Stripe: status of each session
  subs,     \* Stripe: the subscriptions, each with its session and version
  keys,     \* Stripe: the subscription remembered for a session's key
  sent,     \* Stripe: events emitted; any of them may arrive at any time
  offered,  \* sessions whose URL the owner was given
  aged,     \* attempts made more than STRIPE_RETRY_WINDOW_MS ago
  faults

stripe == <<sessions, subs, keys, sent, offered>>
ledger == <<recorded, ignored>>
quiet == <<begun, ledger, stripe, aged, faults>>
vars == <<lease, expired, doc, calls, quiet>>

Sessions == 1..MaxSessions
Terminal(status) == status = "canceled"
NoEvent == [type |-> "none", of |-> 0, ver |-> 0]
NoAnswer == [sub |-> 0, status |-> "none", ver |-> 0]
\* `seen` is the version of the subscription the document was last set from.
NoDoc == [operation |-> 0, session |-> 0, opened |-> FALSE, created |-> FALSE,
          sub |-> 0, status |-> "none", seen |-> 0, issue |-> "none"]

Init ==
  /\ LeaseInit
  /\ doc = NoDoc /\ begun = 0
  /\ recorded = {} /\ ignored = {}
  /\ sessions = [s \in Sessions |-> "none"]
  /\ subs = <<>>
  /\ keys = [s \in Sessions |-> 0]
  /\ sent = {} /\ offered = {} /\ aged = {} /\ faults = 0

\* A call under way: its event, its copy of the document, Stripe's answer.
Call(stage, e) == [at |-> stage, ev |-> e, copy |-> doc, answer |-> NoAnswer]

(****************************************************************************)
(* checkout                                                                 *)
(****************************************************************************)
\* POST /payments/checkout by the owner; a live subscription is refused.
CheckoutBegins(p) ==
  /\ p # Worker /\ At(p, "idle")
  /\ doc.sub # 0 => Terminal(doc.status)
  /\ Begin(p, Call(IF doc.sub # 0 THEN "previous" ELSE "session", NoEvent))
  /\ UNCHANGED quiet

\* The subscription before has to be terminal at Stripe as well; then all that
\* belonged to it leaves the document.
ForgetPrevious(p) ==
  /\ At(p, "previous")
  /\ IF Terminal(subs[Copy(p).sub].status)
     THEN Update(p, [Copy(p) EXCEPT !.operation = 0, !.session = 0, !.opened = FALSE,
                                    !.created = FALSE, !.sub = 0, !.seen = 0], "session")
     ELSE Quit(p)
  /\ UNCHANGED quiet

\* An open session for the same plan is offered again, for another plan it is
\* in the way; one completed but not subscribed is left to synchronization.
ReuseSession(p) ==
  LET s == Copy(p).session IN
  /\ At(p, "session") /\ s # 0
  /\ sessions[s] = "open" \/ (sessions[s] = "complete" /\ Copy(p).sub = 0)
  /\ offered' = IF sessions[s] = "open" THEN offered \cup {s} ELSE offered
  /\ Finish(p)
  /\ UNCHANGED <<doc, begun, ledger, sessions, subs, keys, sent, aged, faults>>

\* The operation begun for this plan, if it never got a session.
ResumeOperation(p) ==
  /\ At(p, "session")
  /\ Copy(p).operation # 0 /\ Copy(p).session = 0
  /\ Goto(p, "opening")
  /\ UNCHANGED quiet

\* A new one: none yet, another plan, or the last session expired.
NewOperation(p) ==
  LET s == Copy(p).session IN
  /\ At(p, "session")
  /\ s # 0 => sessions[s] = "expired"
  /\ begun < MaxSessions /\ begun' = begun + 1
  /\ Update(p, [Copy(p) EXCEPT !.operation = begun + 1, !.session = 0,
                               !.opened = FALSE, !.created = FALSE], "opening")
  /\ UNCHANGED <<ledger, stripe, aged, faults>>

AttemptSession(p) ==
  /\ At(p, "opening")
  /\ Attempt(p, Copy(p).opened, <<"session", Copy(p).operation>> \in aged,
             [Copy(p) EXCEPT !.opened = TRUE], "open")
  /\ UNCHANGED quiet

\* sessions.create under datavault-checkout-<operation>.
OpenSession(p) ==
  LET o == Copy(p).operation IN
  /\ At(p, "open")
  /\ sessions' = [sessions EXCEPT ![o] = IF @ = "none" THEN "open" ELSE @]
  /\ Goto(p, "opened")
  /\ UNCHANGED <<begun, ledger, subs, keys, sent, offered, aged, faults>>

\* The session is written down, and only then is its URL given to the owner.
StoreSession(p) ==
  LET o == Copy(p).operation IN
  /\ At(p, "opened")
  /\ doc' = IF Fenced(p) THEN [Copy(p) EXCEPT !.session = o] ELSE doc
  /\ offered' = IF Fenced(p) THEN offered \cup {o} ELSE offered
  /\ Finish(p)
  /\ UNCHANGED <<begun, ledger, sessions, subs, keys, sent, aged, faults>>

(****************************************************************************)
(* completeCheckout                                                         *)
(****************************************************************************)
\* Session and setup intent are asked for, the session must be the company's
\* and complete; that the plan still fits is checked too and may end the call.
CheckSetup(p) ==
  LET c == Copy(p)
      s == IF calls[p].ev = NoEvent THEN c.session ELSE calls[p].ev.of IN
  /\ At(p, "setup")
  /\ IF s = c.session /\ sessions[s] = "complete" THEN Goto(p, "subscribing")
     ELSE IF calls[p].ev = NoEvent /\ sessions[s] # "complete" THEN Goto(p, "sync")
     ELSE Quit(p)
  /\ UNCHANGED quiet

AttemptSubscription(p) ==
  /\ At(p, "subscribing")
  /\ Attempt(p, Copy(p).created, <<"create", Copy(p).operation>> \in aged,
             [Copy(p) EXCEPT !.created = TRUE], "subscribe")
  /\ UNCHANGED quiet

\* subscriptions.create under dv-subscription-<session>: a remembered key is
\* answered with the subscription as it was when it was made.
CreateSubscription(p) ==
  LET s == Copy(p).session
      made == IF keys[s] # 0 THEN keys[s] ELSE Len(subs) + 1 IN
  /\ At(p, "subscribe") /\ made <= MaxSubs
  /\ IF keys[s] # 0 THEN UNCHANGED <<subs, keys, sent>>
     ELSE /\ subs' = Append(subs, [session |-> s, status |-> "incomplete", ver |-> 1])
          /\ keys' = [keys EXCEPT ![s] = made]
          /\ sent' = sent \cup {[type |-> "subscription", of |-> made, ver |-> 1]}
  /\ calls' = [calls EXCEPT ![p].at = "store",
                 ![p].answer = [sub |-> made, status |-> "incomplete", ver |-> 1]]
  /\ UNCHANGED <<leaseVars, doc, begun, ledger, sessions, offered, aged, faults>>

StoreSubscription(p) ==
  /\ At(p, "store")
  /\ Update(p, [Copy(p) EXCEPT !.sub = calls[p].answer.sub], "applyNew")
  /\ UNCHANGED quiet

(****************************************************************************)
(* synchronize and applyCanonical                                           *)
(****************************************************************************)
\* The canonical subscription is asked for, never taken from the event.
Retrieve(p) ==
  LET i == Copy(p).sub IN
  /\ At(p, "sync")
  /\ IF i = 0 THEN Quit(p)
     ELSE /\ calls' = [calls EXCEPT ![p].at = "renew",
                ![p].answer = [sub |-> i, status |-> subs[i].status, ver |-> subs[i].ver]]
          /\ UNCHANGED <<leaseVars, doc>>
  /\ UNCHANGED quiet

\* Before a draft invoice and before the result is applied.
RenewLease(p) ==
  /\ At(p, "renew")
  /\ Renew(p, "apply")
  /\ UNCHANGED quiet

Applied(p) == [Copy(p) EXCEPT !.status = calls[p].answer.status,
                              !.seen = calls[p].answer.ver, !.issue = "none"]

\* The answer to the creation is applied first, without an event.
ApplyNew(p) ==
  /\ At(p, "applyNew")
  /\ Update(p, Applied(p), "sync")
  /\ UNCHANGED quiet

\* Wrong: the update in the transaction does not name the token.
ApplyUnfenced(p) ==
  LET e == calls[p].ev IN
  /\ At(p, "apply")
  /\ doc' = Applied(p)
  /\ recorded' = IF e = NoEvent THEN recorded ELSE recorded \cup {e}
  /\ Finish(p)
  /\ UNCHANGED <<begun, ignored, stripe, aged, faults>>

\* Wrong: the ledger entry is made whether or not the update matched.
ApplyInTwoWrites(p) ==
  LET e == calls[p].ev IN
  /\ At(p, "apply")
  /\ doc' = IF Fenced(p) THEN Applied(p) ELSE doc
  /\ recorded' = IF e = NoEvent THEN recorded ELSE recorded \cup {e}
  /\ Finish(p)
  /\ UNCHANGED <<begun, ignored, stripe, aged, faults>>

\* One transaction: the fenced update and the ledger entry; a second entry for
\* the event is a duplicate key and undoes both.  Run again after a failed commit
\* it writes the same, which is the answer and not what the copy says.
Apply(p) ==
  LET e == calls[p].ev IN
  /\ At(p, "apply")
  /\ IF Fenced(p) /\ e \notin recorded
     THEN /\ doc' = Applied(p)
          /\ recorded' = IF e = NoEvent THEN recorded ELSE recorded \cup {e}
     ELSE UNCHANGED <<doc, recorded>>
  /\ Finish(p)
  /\ UNCHANGED <<begun, ignored, stripe, aged, faults>>

(****************************************************************************)
(* webhook                                                                  *)
(****************************************************************************)
IsCheckout(e) == e.type # "subscription"
Matches(e) == e.of = IF IsCheckout(e) THEN doc.session ELSE doc.sub

\* A signed event arrives; one in the ledger is acknowledged at once.
EventArrives(p, e) ==
  /\ p # Worker /\ At(p, "idle")
  /\ e \notin recorded /\ Cardinality(recorded) < MaxEvents
  /\ calls' = [calls EXCEPT ![p] = [at |-> "find", ev |-> e]]
  /\ UNCHANGED <<leaseVars, doc, begun, ledger, stripe, aged, faults>>

\* The company is looked up by the id the event is about.
FindCompany(p) ==
  /\ At(p, "find")
  /\ Goto(p, IF Matches(calls[p].ev) THEN "claim"
             ELSE IF IsCheckout(calls[p].ev) THEN "ignore" ELSE "creating")
  /\ UNCHANGED quiet

\* No company: it may just be creating that subscription, then Stripe is asked
\* to deliver the event again.  A second read of the document decides.
AwaitMapping(p) ==
  /\ At(p, "creating")
  /\ IF doc.operation # 0 /\ doc.sub = 0 THEN Drop(p) ELSE Goto(p, "ignore")
  /\ UNCHANGED quiet

\* Wrong: acknowledged, but not in the ledger.
IgnoreOnly(p) ==
  /\ At(p, "ignore")
  /\ ignored' = ignored \cup {calls[p].ev}
  /\ Drop(p)
  /\ UNCHANGED <<begun, recorded, stripe, aged, faults>>

\* Acknowledged for good, without a company.
IgnoreEvent(p) ==
  LET e == calls[p].ev IN
  /\ At(p, "ignore")
  /\ recorded' = recorded \cup {e}
  /\ ignored' = IF e \in recorded THEN ignored ELSE ignored \cup {e}
  /\ Drop(p)
  /\ UNCHANGED <<begun, stripe, aged, faults>>

ClaimForEvent(p) ==
  /\ At(p, "claim")
  /\ IF expired THEN Begin(p, Call("recheck", calls[p].ev)) ELSE Drop(p)
  /\ UNCHANGED quiet

\* Under the lease: processed meanwhile, to be completed, to be synchronized,
\* or nothing there yet to synchronize.
HandleEvent(p) ==
  LET e == calls[p].ev
      c == Copy(p) IN
  /\ At(p, "recheck")
  /\ \/ e \in recorded /\ Quit(p) /\ UNCHANGED ledger
     \/ /\ e \notin recorded
        /\ e.type = "completed" \/ c.sub # 0
        /\ Goto(p, IF c.sub = 0 THEN "setup" ELSE "sync")
        /\ UNCHANGED ledger
     \/ /\ e \notin recorded
        /\ e.type # "completed" /\ c.sub = 0
        /\ recorded' = recorded \cup {e} /\ UNCHANGED ignored
        /\ Quit(p)
  /\ UNCHANGED <<begun, stripe, aged, faults>>

\* reconcileCompany, by the worker's tick or POST /payments/reconcile.
ReconcileBegins(p) ==
  /\ At(p, "idle")
  /\ doc.sub # 0 \/ doc.session # 0
  /\ Begin(p, Call(IF doc.session # 0 /\ doc.sub = 0 THEN "setup" ELSE "sync", NoEvent))
  /\ UNCHANGED quiet

(****************************************************************************)
(* The operator's command for Stripe's Test Mode, with the app stopped.  It *)
(* detaches a company from a customer that no longer exists; the customer,  *)
(* which every checkout shares, is not distinguished here.                  *)
(****************************************************************************)
\* --confirm-app-stopped and --confirm-old-stripe-quiescent.
Confirmed ==
  /\ \A p \in Procs : At(p, "idle")
  /\ \A s \in Sessions : sessions[s] # "open"

\* No lease that was left behind, no subscription, no events of the company.
Untouched == lease = None /\ doc.sub = 0 /\ ~doc.created /\ recorded \subseteq ignored

\* A Free company that never came further than its customer.
IsUnused == Untouched /\ doc.session = 0 /\ ~doc.opened /\ doc.issue # "reconciliation"

\* An unmanaged Basic company whose checkout of Premium was never carried out;
\* that a reconciliation has failed for it, which is one, is not distinguished.
IsAbandoned == Untouched /\ doc.session # 0 /\ doc.opened /\ doc.issue # "reconciliation"

\* One transaction: the company is inspected, and all of Stripe leaves the
\* document of the inspected revision.
Reset ==
  /\ doc' = NoDoc
  /\ UNCHANGED <<leaseVars, calls, quiet>>

DetachUnused == Confirmed /\ IsUnused /\ doc # NoDoc /\ Reset
RecoverBasic == Confirmed /\ IsAbandoned /\ Reset

(****************************************************************************)
(* Failures and time.                                                       *)
(****************************************************************************)
\* An exception: a refusal, a timeout, an answer that was lost.
CallFails(p) ==
  /\ ~At(p, "idle") /\ faults < MaxFaults /\ faults' = faults + 1
  /\ IF calls[p].at \in {"find", "creating", "ignore", "claim"}
     THEN Drop(p) ELSE Quit(p)
  /\ UNCHANGED <<begun, ledger, stripe, aged>>

\* The process stops: nobody gives the lease back.
CallStops(p) ==
  /\ ~At(p, "idle") /\ faults < MaxFaults /\ faults' = faults + 1
  /\ calls' = [calls EXCEPT ![p] = Idle]
  /\ UNCHANGED <<leaseVars, doc, begun, ledger, stripe, aged>>

LeaseExpires ==
  /\ Expire
  /\ UNCHANGED quiet

\* STRIPE_RETRY_WINDOW_MS pass after an attempt; a call is much shorter, so none
\* is between its own check of the attempt and its request.
WindowPasses(field) ==
  /\ doc.operation # 0 /\ <<field, doc.operation>> \notin aged
  /\ IF field = "session" THEN doc.opened /\ doc.session = 0 ELSE doc.created /\ doc.sub = 0
  /\ \A p \in Procs : ~At(p, "open") /\ ~At(p, "subscribe")
  /\ aged' = aged \cup {<<field, doc.operation>>}
  /\ UNCHANGED <<leaseVars, doc, begun, ledger, stripe, calls, faults>>

(****************************************************************************)
(* Stripe and the owner's browser.                                          *)
(****************************************************************************)
\* The hosted page is completed, or it expires.
SessionEnds(s, status) ==
  /\ sessions[s] = "open"
  /\ status = "complete" => s \in offered
  /\ sessions' = [sessions EXCEPT ![s] = status]
  /\ sent' = IF status = "complete"
             THEN sent \cup {[type |-> "completed", of |-> s, ver |-> 0]} ELSE sent
  /\ UNCHANGED <<leaseVars, doc, begun, ledger, subs, keys, offered, aged, calls, faults>>

\* Collection succeeds or fails, or the subscription ends.
SubscriptionChanges(i, status) ==
  /\ ~Terminal(subs[i].status) /\ subs[i].status # status
  /\ Cardinality({e \in sent : ~IsCheckout(e)}) < Len(subs) + MaxChanges
  /\ subs' = [subs EXCEPT ![i].status = status, ![i].ver = @ + 1]
  /\ sent' = sent \cup {[type |-> "subscription", of |-> i, ver |-> subs[i].ver + 1]}
  /\ UNCHANGED <<leaseVars, doc, begun, ledger, sessions, keys, offered, aged, calls, faults>>

\* Keys are kept for at least 24 hours after the request that used them.
KeyForgotten(s) ==
  /\ keys[s] # 0 /\ <<"create", s>> \in aged
  /\ keys' = [keys EXCEPT ![s] = 0]
  /\ UNCHANGED <<leaseVars, doc, begun, ledger, sessions, subs, sent, offered, aged, calls, faults>>

Step(p) ==
  \/ ForgetPrevious(p) \/ ReuseSession(p) \/ ResumeOperation(p) \/ NewOperation(p)
  \/ AttemptSession(p) \/ OpenSession(p) \/ StoreSession(p)
  \/ CheckSetup(p) \/ AttemptSubscription(p) \/ CreateSubscription(p)
  \/ StoreSubscription(p) \/ ApplyNew(p) \/ Retrieve(p) \/ RenewLease(p) \/ Apply(p)
  \/ FindCompany(p) \/ AwaitMapping(p) \/ IgnoreEvent(p)
  \/ ClaimForEvent(p) \/ HandleEvent(p)

Next ==
  \/ \E p \in Procs :
       \/ CheckoutBegins(p) \/ ReconcileBegins(p) \/ Step(p)
       \/ CallFails(p) \/ CallStops(p)
       \/ \E e \in sent : EventArrives(p, e)
  \/ \E s \in Sessions :
       KeyForgotten(s) \/ \E status \in {"complete", "expired"} : SessionEnds(s, status)
  \/ \E i \in DOMAIN subs, status \in {"active", "canceled"} : SubscriptionChanges(i, status)
  \/ \E field \in {"session", "create"} : WindowPasses(field)
  \/ DetachUnused \/ RecoverBasic
  \/ LeaseExpires

Spec == Init /\ [][Next]_vars
-----------------------------------------------------------------------------
\* A company never has two subscriptions that Stripe would bill: not by a lost
\* answer, a stopped process or two completions of one session, nor after the
\* time in which Stripe knows the key of the creation.
OneLiveSubscription == Cardinality({i \in DOMAIN subs : ~Terminal(subs[i].status)}) <= 1

\* An event is in the ledger together with its effect: once it was recorded by
\* synchronization the document shows its subscription at least that new.
RecordedWithEffect ==
  \A e \in recorded \ ignored :
    e.type = "subscription" /\ e.of = doc.sub => doc.seen >= e.ver

\* A slow call never puts an older state of the subscription over a newer one:
\* neither a late answer to a read nor the remembered answer to a creation.
NeverOlder == [][doc'.sub = doc.sub => doc'.seen >= doc.seen]_vars
=============================================================================
