------------------------- MODULE StripeCheckoutProofs -------------------------
(****************************************************************************)
(* One subscription per company, the ledger and the order of what is        *)
(* applied, for any number of calls, sessions, subscriptions, events and    *)
(* failures.  A call that has lost the lease still talks to Stripe; what    *)
(* keeps it from doing harm is the key under which it does so, and that a   *)
(* company never returns to a session it has left.                          *)
(****************************************************************************)
EXTENDS StripeCheckout, FiniteSetTheorems, TLAPS

Statuses == {"none", "incomplete", "active", "canceled"}
Document == [operation : 0..MaxSessions, session : 0..MaxSessions, opened : BOOLEAN,
             created : BOOLEAN, sub : Nat, status : Statuses, seen : Nat,
             issue : {"none", "reconciliation"}]
Event == [type : {"subscription", "completed"}, of : Nat, ver : Nat]
Answer == [sub : Nat, status : Statuses, ver : Nat]
Subscription == [session : Sessions, status : Statuses, ver : Nat \ {0}]

\* Stages before a call has the lease, those on the way to a subscription, and
\* those that hold an answer of Stripe about one.
Finding == {"find", "creating", "ignore", "claim"}
Creating == {"session", "opening", "open", "opened", "setup", "subscribing",
             "subscribe", "store"}
Answered == {"store", "applyNew", "renew", "apply"}
Working == {"previous", "sync", "recheck"} \cup Creating \cup Answered
Finder == [at : Finding, ev : Event]
Holder == [at : Working, ev : Event \cup {NoEvent}, copy : Document, answer : Answer]

State ==
  /\ lease \in Procs \cup {None}
  /\ begun \in 0..MaxSessions /\ doc \in Document
  /\ sessions \in [Sessions -> {"none", "open", "complete", "expired"}]
  /\ subs \in Seq(Subscription)
  /\ keys \in [Sessions -> Nat]
  /\ sent \subseteq Event /\ recorded \subseteq sent /\ ignored \subseteq sent
  /\ aged \subseteq {"session", "create"} \X Sessions

\* What a document says of its checkout, now or when a call copied it.
Describes(d) ==
  /\ d.operation <= begun /\ d.session \in {0, d.operation}
  /\ d.sub \in 0..Len(subs)
  /\ d.sub = 0 => d.seen = 0
  /\ d.sub # 0 => /\ d.session # 0 /\ subs[d.sub].session = d.session
                  /\ d.seen <= subs[d.sub].ver
  /\ d.created => d.session # 0 /\ sessions[d.session] = "complete"

\* The creation for a session was carried out, or the document is waiting for it.
Underway(s) ==
  \/ \E i \in DOMAIN subs : subs[i].session = s
  \/ doc.session = s /\ doc.created /\ doc.sub = 0

\* The company has left the checkout of this subscription for good.
Left(i) == subs[i].session # doc.operation
Known(i) == doc.sub = i \/ Left(i)

\* A session has one subscription at most, and its key is known to Stripe or so
\* old that nobody uses it again.
SubsAreSound ==
  /\ \A i \in DOMAIN subs :
       /\ subs[i].session <= begun /\ sessions[subs[i].session] = "complete"
       /\ keys[subs[i].session] = 0 => <<"create", subs[i].session>> \in aged
  /\ \A i, j \in DOMAIN subs : subs[i].session = subs[j].session => i = j
  /\ \A s \in Sessions :
       keys[s] # 0 => keys[s] \in DOMAIN subs /\ subs[keys[s]].session = s

\* A subscription that Stripe bills is the company's, or is about to be.
LiveAreOurs ==
  \A i \in DOMAIN subs :
    ~Terminal(subs[i].status) =>
      doc.sub = i \/ (doc.sub = 0 /\ doc.created /\ subs[i].session = doc.session)

EventsAreSound ==
  \A e \in sent :
    /\ e.type = "subscription" => e.of \in DOMAIN subs /\ e.ver <= subs[e.of].ver
    /\ e.type = "completed" => e.of \in Sessions

LedgerIsSound ==
  \A e \in recorded \ ignored :
    e.type = "subscription" => Known(e.of) /\ (e.of = doc.sub => e.ver <= doc.seen)

\* What a call knows at each of its stages.  A webhook that found no subscription
\* under the lease is about one that was left.
EventIsKnown(c) ==
  /\ c.ev.type = "subscription" => Known(c.ev.of)
  /\ c.at = "recheck" =>
       /\ c.ev \in sent
       /\ (c.ev.type = "subscription" /\ c.copy.sub = 0) => Left(c.ev.of)

CopyIsSound(c) ==
  /\ c \in Holder /\ Describes(c.copy)
  /\ (c.copy.created /\ c.copy.sub = 0) => Underway(c.copy.session)

\* Until it has a subscription; the operation, then the session, then the attempt.
IsNew(c) ==
  /\ c.copy.sub = 0
  /\ c.at \in {"opening", "open", "opened"} => c.copy.operation # 0
  /\ (c.at = "setup" /\ c.ev = NoEvent) => c.copy.session # 0
  /\ c.at \in {"subscribing", "subscribe", "store"} =>
       c.copy.session # 0 /\ sessions[c.copy.session] = "complete"
  /\ c.at \in {"subscribe", "store"} => c.copy.created

\* Stripe's answer is about this subscription, and was true at some time.
AnswerIsSound(c) ==
  /\ c.answer.sub \in DOMAIN subs /\ c.answer.ver <= subs[c.answer.sub].ver
  /\ c.at \in {"store", "applyNew"} => c.answer.ver = 1
  /\ c.at = "store" => subs[c.answer.sub].session = c.copy.session
  /\ c.at # "store" => c.answer.sub = c.copy.sub /\ c.copy.seen <= c.answer.ver
  /\ (c.at \in {"renew", "apply"} /\ c.ev.type = "subscription" /\ c.ev.of = c.copy.sub)
       => c.ev.ver <= c.answer.ver

CallIsSound(c) ==
  /\ c.ev \in sent \cup {NoEvent}
  /\ c.at \in Finding => c \in Finder
  /\ c.at \in Working => CopyIsSound(c)
  /\ c.at \in Working \cup {"claim"} => EventIsKnown(c)
  /\ c.at = "previous" => c.copy.sub # 0
  /\ c.at \in Creating => IsNew(c)
  /\ c.at \in Answered => AnswerIsSound(c)

Calls == {c \in Finder \cup Holder : CallIsSound(c)}

CallsAreSound ==
  /\ calls \in [Procs -> {Idle} \cup Calls]
  /\ \A p \in Procs :
       /\ calls[p].at \in Working /\ lease = p => calls[p].copy = doc
       /\ calls[p].at = "subscribe" => <<"create", calls[p].copy.operation>> \notin aged

\* An operation old enough for its key to be forgotten is one whose creation the
\* document has on record.
AgedAreSound ==
  \A o \in Sessions :
    <<"create", o>> \in aged => o <= begun /\ (doc.operation = o => doc.created)

CheckoutInv ==
  /\ State /\ Describes(doc)
  /\ SubsAreSound /\ LiveAreOurs /\ EventsAreSound /\ LedgerIsSound
  /\ CallsAreSound /\ AgedAreSound

------------------------------------------------------------------------------
(* Facts about the state, and what never goes back *)

LEMMA SubsAreTyped ==
  ASSUME State
  PROVE  /\ Len(subs) \in Nat /\ DOMAIN subs = 1..Len(subs)
         /\ \A i \in DOMAIN subs :
              /\ subs[i] \in Subscription /\ subs[i].session \in Sessions
              /\ subs[i].status \in Statuses /\ subs[i].ver \in Nat \ {0}
         /\ begun \in Nat /\ Sessions \subseteq Nat \ {0}
<1>1. Len(subs) \in Nat /\ DOMAIN subs = 1..Len(subs)
      /\ \A i \in DOMAIN subs : subs[i] \in Subscription
  BY DEF State
<1>2. MaxSessions \in Nat /\ Sessions \subseteq Nat \ {0}  BY CheckoutBounds DEF Sessions
<1>3. begun \in Nat  BY <1>2 DEF State
<1> QED  BY <1>1, <1>2, <1>3 DEF Subscription

\* Operations begin, sessions are completed, subscriptions are made and change,
\* a checkout is left: none of it is undone.
StripeGrows ==
  /\ begun' \in Nat /\ begun <= begun' /\ sent \subseteq sent'
  /\ Len(subs') \in Nat /\ Len(subs) <= Len(subs') /\ DOMAIN subs' = 1..Len(subs')
  /\ \A i \in DOMAIN subs :
       /\ subs'[i].session = subs[i].session
       /\ subs'[i].ver \in Nat /\ subs[i].ver <= subs'[i].ver
  /\ \A s \in Sessions : sessions[s] = "complete" => sessions'[s] = "complete"
DocumentGoesOn ==
  /\ \A i \in DOMAIN subs : Left(i) => Left(i)'
  /\ \A i \in DOMAIN subs : Known(i) => Known(i)'
  /\ \A s \in Sessions : Underway(s) => Underway(s)'
Grows == StripeGrows /\ DocumentGoesOn

LEMMA DescriptionHolds ==
  ASSUME State, StripeGrows, NEW d \in Document, Describes(d)
  PROVE  Describes(d)'
<1>1. d.operation \in Nat /\ d.session \in Nat /\ d.sub \in Nat /\ d.seen \in Nat
  BY CheckoutBounds DEF Document
<1>2. d.operation <= begun'  BY <1>1, SubsAreTyped DEF Describes, StripeGrows
<1>3. d.sub \in 0..Len(subs')  BY <1>1, SubsAreTyped DEF Describes, StripeGrows
<1>4. d.sub # 0 => subs'[d.sub].session = d.session /\ d.seen <= subs'[d.sub].ver
  <2> SUFFICES ASSUME d.sub # 0
               PROVE  subs'[d.sub].session = d.session /\ d.seen <= subs'[d.sub].ver
    OBVIOUS
  <2>1. d.sub \in DOMAIN subs  BY <1>1, SubsAreTyped DEF Describes
  <2>2. subs[d.sub].ver \in Nat /\ subs'[d.sub].ver \in Nat
        /\ subs[d.sub].ver <= subs'[d.sub].ver
    BY <2>1, SubsAreTyped DEF StripeGrows
  <2>3. d.seen <= subs[d.sub].ver  BY DEF Describes
  <2>4. d.seen <= subs'[d.sub].ver  BY <1>1, <2>2, <2>3
  <2> QED  BY <2>1, <2>4 DEF Describes, StripeGrows
<1>5. d.created => sessions'[d.session] = "complete"
  <2> SUFFICES ASSUME d.created  PROVE sessions'[d.session] = "complete"  OBVIOUS
  <2>1. d.session # 0 /\ sessions[d.session] = "complete"  BY DEF Describes
  <2>2. d.session \in Sessions  BY <2>1, CheckoutBounds DEF Document, Sessions
  <2> QED  BY <2>1, <2>2 DEF StripeGrows
<1> QED  BY <1>2, <1>3, <1>4, <1>5 DEF Describes

\* What a call knows stays true while others move.
LEMMA CallHolds ==
  ASSUME State, EventsAreSound, Grows, NEW c \in Finder \cup Holder, CallIsSound(c)
  PROVE  CallIsSound(c)'
<1>1. c.ev \in sent' \cup {NoEvent}  BY DEF CallIsSound, Grows, StripeGrows
<1>2. c.ev.type = "subscription" => c.ev.of \in DOMAIN subs
  BY DEF CallIsSound, EventsAreSound, NoEvent
<1>3. c.at \in Working \cup {"claim"} => EventIsKnown(c)'
  BY <1>2 DEF CallIsSound, EventIsKnown, Grows, DocumentGoesOn, StripeGrows
<1>4. ASSUME c \in Holder, c.at \in Working  PROVE CopyIsSound(c)'
  <2>1. CopyIsSound(c)  BY <1>4 DEF CallIsSound
  <2>2. c.copy \in Document  BY <1>4 DEF Holder
  <2>3. Describes(c.copy)'  BY <2>1, <2>2, DescriptionHolds DEF CopyIsSound, Grows
  <2>4. ASSUME c.copy.created, c.copy.sub = 0  PROVE Underway(c.copy.session)'
    <3>1. c.copy.session # 0  BY <2>1, <2>4 DEF CopyIsSound, Describes
    <3>2. c.copy.session \in Sessions  BY <2>2, <3>1, CheckoutBounds DEF Document, Sessions
    <3> QED  BY <2>1, <2>4, <3>2 DEF CopyIsSound, Grows, DocumentGoesOn
  <2> QED  BY <1>4, <2>3, <2>4 DEF CopyIsSound
<1>5. ASSUME c \in Holder, c.at \in Creating  PROVE IsNew(c)'
  <2>1. IsNew(c) /\ c.copy \in Document  BY <1>5 DEF CallIsSound, Holder
  <2>2. c.copy.session # 0 => c.copy.session \in Sessions
    BY <2>1, CheckoutBounds DEF Document, Sessions
  <2> QED  BY <2>1, <2>2 DEF IsNew, Grows, StripeGrows
<1>6. ASSUME c \in Holder, c.at \in Answered  PROVE AnswerIsSound(c)'
  <2>1. AnswerIsSound(c) /\ c.answer.ver \in Nat  BY <1>6 DEF CallIsSound, Holder, Answer
  <2>2. c.answer.sub \in DOMAIN subs  BY <2>1 DEF AnswerIsSound
  <2>3. subs[c.answer.sub].ver \in Nat /\ subs'[c.answer.sub].ver \in Nat
        /\ subs[c.answer.sub].ver <= subs'[c.answer.sub].ver
    BY <2>2, SubsAreTyped DEF Grows, StripeGrows
  <2>4. c.answer.ver <= subs'[c.answer.sub].ver  BY <2>1, <2>3 DEF AnswerIsSound
  <2>5. c.answer.sub \in DOMAIN subs'  BY <2>2, SubsAreTyped DEF Grows, StripeGrows
  <2>6. subs'[c.answer.sub].session = subs[c.answer.sub].session
    BY <2>2 DEF Grows, StripeGrows
  <2> QED  BY <2>1, <2>4, <2>5, <2>6 DEF AnswerIsSound
<1>7. c \in Holder \/ c.at \in Finding  BY DEF Finder
<1>8. c.at \in Finding => c \in Finder /\ c.at \notin Working
  BY DEF CallIsSound, Finding, Working, Creating, Answered
<1>9. Creating \subseteq Working /\ Answered \subseteq Working  BY DEF Working
<1> QED  BY <1>1, <1>3, <1>4, <1>5, <1>6, <1>7, <1>8, <1>9 DEF CallIsSound

------------------------------------------------------------------------------
(* Steps of one call *)

\* One call moves to c, and writes only with the lease.
Moves(p, c) ==
  /\ calls' = [calls EXCEPT ![p] = c]
  /\ lease' \in {lease, None, p} /\ (doc' = doc \/ lease = p)
  /\ (c.at \in Working /\ lease' = p) => c.copy = doc'
  /\ c.at = "subscribe" => <<"create", c.copy.operation>> \notin aged

LEMMA OthersHold ==
  ASSUME State, EventsAreSound, CallsAreSound, Grows, aged' = aged,
         NEW p \in Procs, NEW c \in {Idle} \cup Calls', Moves(p, c)
  PROVE  CallsAreSound'
<1>1. Calls \subseteq Calls'  BY CallHolds DEF Calls
<1>2. calls' \in [Procs -> {Idle} \cup Calls']  BY <1>1 DEF CallsAreSound, Moves
<1>3. \A q \in Procs : calls'[q] = IF q = p THEN c ELSE calls[q]
  BY DEF CallsAreSound, Moves
<1>4. SUFFICES ASSUME NEW q \in Procs
      PROVE  /\ calls'[q].at \in Working /\ lease' = q => calls'[q].copy = doc'
             /\ calls'[q].at = "subscribe" =>
                  <<"create", calls'[q].copy.operation>> \notin aged'
  BY <1>2 DEF CallsAreSound
<1>5. CASE q = p
  BY <1>3, <1>5 DEF Moves
<1>6. CASE q # p
  <2>1. lease' = q => lease = q /\ doc' = doc  BY <1>6, NoneAssumption DEF Moves
  <2> QED  BY <1>3, <1>6, <2>1 DEF CallsAreSound
<1> QED  BY <1>5, <1>6

\* Stripe stays as it is; an operation may begin.
StripeSame ==
  /\ begun' \in 0..MaxSessions /\ begun <= begun'
  /\ UNCHANGED <<sessions, subs, keys, sent, aged>>
LedgerSame == UNCHANGED <<recorded, ignored>>

LEMMA SameGrows ==
  ASSUME State, StripeSame
  PROVE  StripeGrows
  BY SubsAreTyped, CheckoutBounds DEF StripeSame, StripeGrows

LEMMA QuietIsSame ==
  ASSUME CheckoutInv, begun' = begun, UNCHANGED <<sessions, subs, keys, sent, aged>>
  PROVE  StripeSame
  BY SubsAreTyped DEF CheckoutInv, State, StripeSame

LEMMA SameDocumentGoesOn ==
  ASSUME doc' = doc, subs' = subs
  PROVE  DocumentGoesOn
  BY DEF DocumentGoesOn, Left, Known, Underway

LEMMA SameStripe ==
  ASSUME CheckoutInv, StripeSame
  PROVE  SubsAreSound' /\ EventsAreSound'
<1>1. begun \in Nat /\ begun' \in Nat /\ begun <= begun'
      /\ \A i \in DOMAIN subs : subs[i].session \in Nat
  BY SubsAreTyped, CheckoutBounds DEF CheckoutInv, StripeSame, Sessions
<1>2. \A i \in DOMAIN subs : subs[i].session <= begun => subs[i].session <= begun'
  BY <1>1
<1> QED  BY <1>2 DEF CheckoutInv, StripeSame, SubsAreSound, EventsAreSound

LEMMA SameAged ==
  ASSUME CheckoutInv, StripeSame, doc' = doc
  PROVE  AgedAreSound'
<1>1. begun \in Nat /\ begun' \in Nat /\ begun <= begun' /\ Sessions \subseteq Nat
  BY SubsAreTyped, CheckoutBounds DEF CheckoutInv, StripeSame
<1>2. \A o \in Sessions : o <= begun => o <= begun'  BY <1>1
<1> QED  BY <1>2 DEF CheckoutInv, AgedAreSound, StripeSame

\* A call that writes nothing and stays sound keeps everything.
LEMMA MoveKeeps ==
  ASSUME CheckoutInv, doc' = doc, StripeSame, LedgerSame,
         NEW p \in Procs, NEW c \in {Idle} \cup Calls, Moves(p, c)
  PROVE  CheckoutInv'
<1>1. State'  BY NoneAssumption DEF CheckoutInv, State, StripeSame, LedgerSame, Moves
<1>2. Grows  BY SameGrows, SameDocumentGoesOn DEF CheckoutInv, Grows, StripeSame
<1>3. Describes(doc)'
  <2>1. doc \in Document /\ Describes(doc)  BY DEF CheckoutInv, State
  <2>2. PICK d \in Document : d = doc  BY <2>1
  <2>3. Describes(d)'  BY <1>2, <2>1, <2>2, DescriptionHolds DEF CheckoutInv, Grows
  <2> QED  BY <2>2, <2>3 DEF Describes
<1>4. LiveAreOurs' /\ LedgerIsSound'
  BY DEF CheckoutInv, LiveAreOurs, LedgerIsSound, Known, Left, StripeSame, LedgerSame
<1>5. Calls \subseteq Calls'  BY <1>2, CallHolds DEF Calls, CheckoutInv
<1>6. CallsAreSound'  BY <1>2, <1>5, OthersHold DEF CheckoutInv, StripeSame
<1> QED  BY <1>1, <1>3, <1>4, <1>6, SameStripe, SameAged DEF CheckoutInv

LEMMA EndKeeps ==
  ASSUME CheckoutInv, doc' = doc, StripeSame, LedgerSame, NEW p \in Procs,
         calls' = [calls EXCEPT ![p] = Idle], lease' \in {lease, None}
  PROVE  CheckoutInv'
<1>1. Idle.at = "idle" /\ "idle" \notin Working /\ "idle" # "subscribe"
  BY DEF Idle, Working, Creating, Answered
<1>2. Moves(p, Idle)  BY <1>1 DEF Moves
<1> QED  BY <1>2, MoveKeeps

LEMMA QuitKeeps ==
  ASSUME CheckoutInv, StripeSame, LedgerSame, NEW p \in Procs, Quit(p) \/ Drop(p)
  PROVE  CheckoutInv'
  BY EndKeeps DEF Quit, Finish, Drop, leaseVars

\* What is known of a call at work.
LEMMA AtWork ==
  ASSUME CheckoutInv, NEW p \in Procs, calls[p].at \in Working
  PROVE  /\ calls[p] \in Calls /\ calls[p] \in Holder
         /\ Copy(p) \in Document /\ Copy(p) = calls[p].copy
         /\ Describes(Copy(p)) /\ EventIsKnown(calls[p])
         /\ (Copy(p).created /\ Copy(p).sub = 0) => Underway(Copy(p).session)
         /\ calls[p].at \in Creating => IsNew(calls[p])
         /\ calls[p].at \in Answered => AnswerIsSound(calls[p])
         /\ lease = p => Copy(p) = doc
         /\ calls[p].ev \in sent \cup {NoEvent} /\ calls[p].answer \in Answer
<1>1. calls[p] # Idle  BY DEF Idle, Working, Creating, Answered
<1>2. calls[p] \in Calls /\ (lease = p => Copy(p) = doc)
  BY <1>1 DEF CheckoutInv, CallsAreSound, Copy
<1>3. CallIsSound(calls[p])  BY <1>2 DEF Calls
<1>4. CopyIsSound(calls[p]) /\ EventIsKnown(calls[p])  BY <1>3 DEF CallIsSound
<1>5. calls[p] \in Holder  BY <1>4 DEF CopyIsSound
<1>6. calls[p].copy \in Document /\ calls[p].answer \in Answer  BY <1>5 DEF Holder
<1> QED  BY <1>2, <1>3, <1>4, <1>5, <1>6 DEF CallIsSound, CopyIsSound, Copy

\* A call that goes on under its copy.
LEMMA GotoKeeps ==
  ASSUME CheckoutInv, StripeSame, LedgerSame, NEW p \in Procs, calls[p].at \in Working,
         NEW stage \in Working \ ({"recheck", "previous"} \cup Answered), Goto(p, stage),
         stage \in Creating => IsNew([calls[p] EXCEPT !.at = stage]),
         stage = "subscribe" => <<"create", Copy(p).operation>> \notin aged
  PROVE  CheckoutInv'
<1> DEFINE c == [calls[p] EXCEPT !.at = stage]
<1>1. c \in Holder /\ c.at = stage /\ c.copy = Copy(p) /\ c.ev = calls[p].ev
  BY AtWork DEF Holder, Copy
<1>2. stage \in Creating => IsNew(c)  OBVIOUS
<1>3. calls' = [calls EXCEPT ![p] = c] /\ lease' = lease /\ doc' = doc
  BY DEF Goto, leaseVars
<1> HIDE DEF c
<1>4. CopyIsSound(c)  BY <1>1, AtWork DEF CopyIsSound
<1>5. EventIsKnown(c)  BY <1>1, AtWork DEF EventIsKnown
<1>6. stage \notin Finding  BY DEF Working, Creating, Answered, Finding
<1>7. c \in Calls
  BY <1>1, <1>2, <1>4, <1>5, <1>6, AtWork DEF Calls, CallIsSound
<1>8. Moves(p, c)  BY <1>1, <1>3, AtWork DEF Moves
<1> QED  BY <1>3, <1>7, <1>8, MoveKeeps

------------------------------------------------------------------------------
(* Writes of the document, by the call that has the lease *)

\* What a write has to leave true.
Accepted ==
  /\ Describes(doc)' /\ LiveAreOurs' /\ LedgerIsSound' /\ AgedAreSound'
  /\ DocumentGoesOn

LEMMA WriteKeeps ==
  ASSUME CheckoutInv, StripeSame, doc' \in Document, Accepted,
         recorded' \subseteq sent, ignored' = ignored,
         NEW p \in Procs, lease = p, NEW c \in {Idle} \cup Calls', Moves(p, c)
  PROVE  CheckoutInv'
<1>1. State'  BY NoneAssumption DEF CheckoutInv, State, StripeSame, Moves
<1>2. Grows  BY SameGrows DEF CheckoutInv, Accepted, Grows
<1>3. CallsAreSound'  BY <1>2, OthersHold DEF CheckoutInv, StripeSame
<1> QED  BY <1>1, <1>3, SameStripe DEF CheckoutInv, Accepted

\* The last write of a call.
LEMMA LastWriteKeeps ==
  ASSUME CheckoutInv, StripeSame, doc' \in Document, Accepted,
         recorded' \subseteq sent, ignored' = ignored,
         NEW p \in Procs, lease = p, Finish(p)
  PROVE  CheckoutInv'
<1>1. Idle.at = "idle" /\ "idle" \notin Working /\ "idle" # "subscribe"
  BY DEF Idle, Working, Creating, Answered
<1>2. Moves(p, Idle)  BY <1>1 DEF Moves, Finish
<1> QED  BY <1>2, WriteKeeps

\* A write in the middle of a call, or its end because the lease is gone.
LEMMA UpdateKeeps ==
  ASSUME CheckoutInv, StripeSame, LedgerSame, NEW p \in Procs, calls[p].at \in Working,
         NEW new \in Document,
         NEW stage \in {"session", "opening", "open", "subscribe", "applyNew", "sync"},
         Update(p, new, stage), lease = p => Accepted,
         stage \in {"session", "opening", "open", "subscribe"} => new.sub = 0,
         stage \in {"opening", "open"} => new.operation # 0,
         stage = "subscribe" =>
           /\ new.created /\ new.session # 0 /\ sessions[new.session] = "complete"
           /\ <<"create", new.operation>> \notin aged,
         stage = "applyNew" =>
           calls[p].at = "store" /\ new.sub = calls[p].answer.sub /\ new.seen <= 1
  PROVE  CheckoutInv'
<1>1. CASE lease # p
  BY <1>1, QuitKeeps DEF Update, Write, Fenced
<1>2. CASE lease = p
  <2>1. [[calls[p] EXCEPT !.copy = new] EXCEPT !.at = stage] \in Holder
    BY AtWork DEF Holder, Working, Creating, Answered
  <2>2. PICK c \in Holder : c = [[calls[p] EXCEPT !.copy = new] EXCEPT !.at = stage]
    BY <2>1
  <2>3. calls' = [calls EXCEPT ![p] = c] /\ lease' = lease /\ doc' = new
    BY <1>2, <2>2 DEF Update, Write, Fenced, leaseVars, CheckoutInv, CallsAreSound
  <2>4. c.at = stage /\ c.copy = new /\ c.ev = calls[p].ev /\ c.answer = calls[p].answer
    BY <2>2, AtWork DEF Holder
  <2>5. Describes(c.copy)'  BY <1>2, <2>3, <2>4 DEF Accepted, Describes
  <2>6. CopyIsSound(c)'  BY <2>3, <2>4, <2>5 DEF CopyIsSound, Underway
  <2>7. EventIsKnown(c)'
    <3>1. c.ev.type = "subscription" => Known(c.ev.of) /\ c.ev.of \in DOMAIN subs
      BY <2>4, AtWork DEF EventIsKnown, CheckoutInv, EventsAreSound, NoEvent
    <3> QED  BY <1>2, <2>4, <3>1 DEF EventIsKnown, Accepted, DocumentGoesOn
  <2>8. c.ev \in sent' \cup {NoEvent}  BY <2>4, AtWork DEF StripeSame
  <2>9. stage \notin Finding  BY DEF Working, Creating, Answered, Finding
  <2>10. stage \in Creating => IsNew(c)'
    BY <2>4 DEF IsNew, StripeSame, Creating
  <2>11. stage \in Answered => AnswerIsSound(c)'
    <3> SUFFICES ASSUME stage = "applyNew"  PROVE AnswerIsSound(c)'  BY DEF Answered
    <3>1. AnswerIsSound(calls[p])  BY AtWork DEF Answered
    <3> QED  BY <2>4, <3>1 DEF AnswerIsSound, StripeSame
  <2>12. c \in Calls'
    BY <2>4, <2>6, <2>7, <2>8, <2>9, <2>10, <2>11 DEF Calls, CallIsSound
  <2>13. Moves(p, c)  BY <1>2, <2>3, <2>4 DEF Moves
  <2>14. recorded' \subseteq sent /\ ignored' = ignored
    BY DEF LedgerSame, CheckoutInv, State
  <2> QED  BY <1>2, <2>3, <2>12, <2>13, <2>14, WriteKeeps
<1> QED  BY <1>1, <1>2

\* A write within one checkout: an attempt, or a newer state of the subscription.
LEMMA SmallWrite ==
  ASSUME CheckoutInv, StripeSame, ignored' = ignored, doc' \in Document,
         doc'.operation = doc.operation, doc'.session = doc.session, doc'.sub = doc.sub,
         doc.created => doc'.created,
         doc'.created /\ ~doc.created =>
           doc.session # 0 /\ sessions[doc.session] = "complete",
         doc.seen <= doc'.seen, doc.sub = 0 => doc'.seen = 0,
         doc.sub # 0 => doc'.seen <= subs[doc.sub].ver,
         \A e \in recorded' \ recorded : e.type = "subscription" =>
           Known(e.of) /\ (e.of = doc.sub => e.ver <= doc'.seen)
  PROVE  Accepted
<1>1. Describes(doc)'
  <2>1. doc \in Document /\ Describes(doc)  BY DEF CheckoutInv, State
  <2>2. doc.operation \in Nat /\ begun \in Nat /\ begun' \in Nat /\ begun <= begun'
    BY <2>1, SubsAreTyped, CheckoutBounds DEF Document, CheckoutInv, StripeSame
  <2>3. doc'.operation <= begun'  BY <2>1, <2>2 DEF Describes
  <2>4. doc'.created => doc.session # 0 /\ sessions[doc.session] = "complete"
    BY <2>1 DEF Describes
  <2> QED  BY <2>1, <2>3, <2>4 DEF Describes, StripeSame
<1>2. \A i : Left(i)' = Left(i) /\ Known(i)' = Known(i)
  BY DEF Left, Known, StripeSame
<1>3. LiveAreOurs'
  BY DEF CheckoutInv, LiveAreOurs, StripeSame, Document
<1>4. LedgerIsSound'
  <2> SUFFICES ASSUME NEW e \in recorded' \ ignored, e.type = "subscription"
               PROVE  Known(e.of) /\ (e.of = doc.sub => e.ver <= doc'.seen)
    BY <1>2 DEF LedgerIsSound
  <2>1. CASE e \notin recorded  BY <2>1
  <2>2. CASE e \in recorded
    <3>1. Known(e.of) /\ (e.of = doc.sub => e.ver <= doc.seen)
      BY <2>2 DEF CheckoutInv, LedgerIsSound
    <3>2. e.ver \in Nat /\ doc.seen \in Nat /\ doc'.seen \in Nat
      BY <2>2 DEF CheckoutInv, State, Event, Document
    <3> QED  BY <3>1, <3>2
  <2> QED  BY <2>1, <2>2
<1>5. AgedAreSound'
  <2>1. begun \in Nat /\ begun' \in Nat /\ begun <= begun' /\ Sessions \subseteq Nat
    BY SubsAreTyped, CheckoutBounds DEF CheckoutInv, StripeSame
  <2> SUFFICES ASSUME NEW o \in Sessions, <<"create", o>> \in aged
               PROVE  o <= begun' /\ (doc'.operation = o => doc'.created)
    BY DEF AgedAreSound, StripeSame
  <2>3. o <= begun /\ (doc.operation = o => doc.created)
    BY DEF CheckoutInv, AgedAreSound
  <2>4. o \in Nat  BY <2>1
  <2> QED  BY <2>1, <2>3, <2>4
<1>6. DocumentGoesOn
  BY <1>2 DEF DocumentGoesOn, Underway, StripeSame
<1> QED  BY <1>1, <1>3, <1>4, <1>5, <1>6 DEF Accepted

\* A second attempt that is too old is only reported.
LEMMA ReportKeeps ==
  ASSUME CheckoutInv, StripeSame, LedgerSame, NEW p \in Procs, Finish(p),
         doc' = IF Fenced(p) THEN [doc EXCEPT !.issue = "reconciliation"] ELSE doc
  PROVE  CheckoutInv'
<1>1. CASE lease # p
  BY <1>1, QuitKeeps DEF Quit, Fenced
<1>2. CASE lease = p
  <2>1. doc \in Document /\ Describes(doc) /\ recorded \subseteq sent
    BY DEF CheckoutInv, State
  <2>2. doc' = [doc EXCEPT !.issue = "reconciliation"]  BY <1>2 DEF Fenced
  <2>3. /\ doc' \in Document /\ doc'.operation = doc.operation /\ doc'.sub = doc.sub
        /\ doc'.session = doc.session /\ doc'.created = doc.created /\ doc'.seen = doc.seen
    BY <2>1, <2>2 DEF Document
  <2>4. doc.seen <= doc.seen  BY <2>1 DEF Document
  <2>5. Accepted  BY <2>1, <2>3, <2>4, SmallWrite DEF LedgerSame, Describes
  <2> QED  BY <1>2, <2>1, <2>3, <2>5, LastWriteKeeps DEF LedgerSame
<1> QED  BY <1>1, <1>2

------------------------------------------------------------------------------
(* checkout *)

LEMMA SameQuiet ==
  ASSUME CheckoutInv, UNCHANGED quiet
  PROVE  StripeSame /\ LedgerSame
  BY QuietIsSame DEF quiet, ledger, stripe, LedgerSame

LEMMA BeginKeeps ==
  ASSUME CheckoutInv, StripeSame, LedgerSame, NEW p \in Procs,
         NEW stage \in {"previous", "session", "setup", "sync", "recheck"},
         NEW e \in sent \cup {NoEvent}, Begin(p, Call(stage, e)),
         e.type = "subscription" => Known(e.of), stage = "recheck" => e \in sent,
         stage = "previous" => doc.sub # 0, stage \in {"session", "setup"} => doc.sub = 0,
         stage = "setup" => doc.session # 0
  PROVE  CheckoutInv'
<1> DEFINE c == Call(stage, e)
<1>1. doc \in Document /\ Describes(doc) /\ sent \subseteq Event  BY DEF CheckoutInv, State
<1>2. NoAnswer \in Answer  BY DEF NoAnswer, Answer, Statuses
<1>3. stage \in Working /\ stage \notin Answered /\ stage \notin Finding
      /\ stage \notin {"opening", "open", "opened", "subscribing", "subscribe", "store"}
      /\ (stage \in Creating => stage \in {"session", "setup"})
  BY DEF Working, Creating, Answered, Finding
<1>4. /\ c \in Holder /\ c.at = stage /\ c.ev = e /\ c.copy = doc
  BY <1>1, <1>2, <1>3 DEF Call, Holder
<1>5. calls' = [calls EXCEPT ![p] = c] /\ lease' = p /\ doc' = doc  BY DEF Begin
<1> HIDE DEF c
<1>6. CopyIsSound(c)  BY <1>1, <1>4 DEF CopyIsSound, Underway
<1>7. EventIsKnown(c)
  <2>1. e \in sent /\ e.type = "subscription" => e.of # 0
    BY SubsAreTyped DEF CheckoutInv, EventsAreSound
  <2> QED  BY <1>4, <2>1 DEF EventIsKnown, Known
<1>8. stage \in Creating => IsNew(c)  BY <1>3, <1>4 DEF IsNew
<1>9. c \in Calls  BY <1>3, <1>4, <1>6, <1>7, <1>8 DEF Calls, CallIsSound
<1>10. Moves(p, c)  BY <1>3, <1>4, <1>5 DEF Moves
<1> QED  BY <1>5, <1>9, <1>10, MoveKeeps

LEMMA CheckoutBeginsKeeps ==
  ASSUME CheckoutInv, NEW p \in Procs, CheckoutBegins(p)
  PROVE  CheckoutInv'
  BY BeginKeeps, SameQuiet DEF CheckoutBegins, NoEvent

LEMMA ReconcileBeginsKeeps ==
  ASSUME CheckoutInv, NEW p \in Procs, ReconcileBegins(p)
  PROVE  CheckoutInv'
  BY BeginKeeps, SameQuiet DEF ReconcileBegins, NoEvent

\* No subscription is billed when the document drops what it knows of one.
LEMMA ForgetPreviousKeeps ==
  ASSUME CheckoutInv, NEW p \in Procs, ForgetPrevious(p)
  PROVE  CheckoutInv'
<1> DEFINE new == [Copy(p) EXCEPT !.operation = 0, !.session = 0, !.opened = FALSE,
                                  !.created = FALSE, !.sub = 0, !.seen = 0]
<1>1. StripeSame /\ LedgerSame  BY SameQuiet DEF ForgetPrevious
<1>2. calls[p].at = "previous" /\ "previous" \in Working
  BY DEF ForgetPrevious, At, Working
<1>3. Copy(p) \in Document /\ calls[p] \in Calls  BY <1>2, AtWork
<1>4. CASE ~Terminal(subs[Copy(p).sub].status)
  BY <1>1, <1>4, QuitKeeps DEF ForgetPrevious
<1>5. CASE Terminal(subs[Copy(p).sub].status)
  <2>1. Update(p, new, "session")  BY <1>5 DEF ForgetPrevious
  <2>2. /\ new \in Document /\ new.operation = 0 /\ new.session = 0 /\ ~new.created
        /\ new.sub = 0 /\ new.seen = 0
    <3>1. 0 \in 0..MaxSessions /\ FALSE \in BOOLEAN /\ 0 \in Nat  BY CheckoutBounds
    <3> QED  BY <1>3, <3>1 DEF Document
  <2> HIDE DEF new
  <2>3. ASSUME lease = p  PROVE Accepted
    <3>1. doc' = new /\ Copy(p) = doc  BY <1>2, <2>1, <2>3, AtWork DEF Update, Write, Fenced
    <3>2. doc.sub # 0  BY <1>2, <1>3, <3>1 DEF Calls, CallIsSound, Copy
    <3>3. Describes(doc)'
      <4>1. 0 <= begun' /\ 0 \in 0..Len(subs')
        BY <1>1, SubsAreTyped DEF StripeSame, CheckoutInv
      <4> QED  BY <2>2, <3>1, <4>1 DEF Describes
    <3>4. \A i \in DOMAIN subs : Terminal(subs[i].status)
      BY <1>5, <3>1, <3>2 DEF CheckoutInv, LiveAreOurs
    <3>5. LiveAreOurs'  BY <1>1, <3>4 DEF LiveAreOurs, StripeSame
    <3>6. \A i \in DOMAIN subs : Left(i)' /\ Known(i)'
      BY <1>1, <2>2, <3>1, SubsAreTyped DEF Left, Known, StripeSame, CheckoutInv
    <3>7. LedgerIsSound'
      <4> SUFFICES ASSUME NEW e \in recorded \ ignored, e.type = "subscription"
                   PROVE  Known(e.of)' /\ e.of # 0
        BY <1>1, <2>2, <3>1 DEF LedgerIsSound, LedgerSame
      <4>1. e.of \in DOMAIN subs  BY DEF CheckoutInv, State, EventsAreSound
      <4> QED  BY <3>6, <4>1, SubsAreTyped DEF CheckoutInv
    <3>8. AgedAreSound'
      <4> SUFFICES ASSUME NEW o \in Sessions, <<"create", o>> \in aged
                   PROVE  o <= begun' /\ o # 0
        BY <1>1, <2>2, <3>1 DEF AgedAreSound, StripeSame
      <4>1. o <= begun  BY DEF CheckoutInv, AgedAreSound
      <4>2. o \in Nat /\ o # 0 /\ begun \in Nat /\ begun' \in Nat /\ begun <= begun'
        BY <1>1, SubsAreTyped, CheckoutBounds DEF StripeSame, CheckoutInv
      <4> QED  BY <4>1, <4>2
    <3>9. DocumentGoesOn  BY <1>1, <3>2, <3>6 DEF DocumentGoesOn, Underway, StripeSame
    <3> QED  BY <3>3, <3>5, <3>7, <3>8, <3>9 DEF Accepted
  <2> QED  BY <1>1, <1>2, <2>1, <2>2, <2>3, UpdateKeeps
<1> QED  BY <1>4, <1>5

LEMMA ReuseSessionKeeps ==
  ASSUME CheckoutInv, NEW p \in Procs, ReuseSession(p)
  PROVE  CheckoutInv'
  BY QuitKeeps, QuietIsSame DEF ReuseSession, Quit, LedgerSame, ledger

LEMMA ResumeOperationKeeps ==
  ASSUME CheckoutInv, NEW p \in Procs, ResumeOperation(p)
  PROVE  CheckoutInv'
<1>1. calls[p].at = "session" /\ "session" \in Creating /\ "session" \in Working
      /\ "opening" \in Working \ ({"recheck", "previous"} \cup Answered)
  BY DEF ResumeOperation, At, Working, Creating, Answered
<1>2. IsNew(calls[p]) /\ calls[p] \in Holder /\ Copy(p) = calls[p].copy  BY <1>1, AtWork
<1>3. Copy(p).operation # 0 /\ Goto(p, "opening")  BY DEF ResumeOperation
<1>4. IsNew([calls[p] EXCEPT !.at = "opening"])
  BY <1>2, <1>3 DEF IsNew, Holder
<1> QED  BY <1>1, <1>3, <1>4, SameQuiet, GotoKeeps DEF ResumeOperation

\* The last session expired or there is none: what the new operation leaves behind
\* is not billed.
LEMMA NewOperationKeeps ==
  ASSUME CheckoutInv, NEW p \in Procs, NewOperation(p)
  PROVE  CheckoutInv'
<1> DEFINE new == [Copy(p) EXCEPT !.operation = begun + 1, !.session = 0,
                                  !.opened = FALSE, !.created = FALSE]
<1>1. /\ begun \in Nat /\ begun < MaxSessions /\ begun' = begun + 1
      /\ begun + 1 \in 0..MaxSessions
  BY SubsAreTyped, CheckoutBounds DEF NewOperation, CheckoutInv
<1>2. StripeSame /\ LedgerSame
  BY <1>1 DEF NewOperation, StripeSame, LedgerSame, ledger, stripe
<1>3. calls[p].at = "session" /\ "session" \in Working /\ "session" \in Creating
  BY DEF NewOperation, At, Working, Creating
<1>4. Copy(p) \in Document /\ Describes(Copy(p)) /\ Copy(p).sub = 0
  BY <1>3, AtWork DEF IsNew
<1>5. Copy(p).seen = 0 /\ ~Copy(p).created
  <2>1. Copy(p).session # 0 => sessions[Copy(p).session] = "expired"  BY DEF NewOperation
  <2> QED  BY <1>4, <2>1 DEF Describes
<1>6. /\ new \in Document /\ new.operation = begun + 1 /\ new.session = 0 /\ ~new.created
      /\ new.sub = 0 /\ new.seen = 0
  <2>1. 0 \in 0..MaxSessions /\ FALSE \in BOOLEAN  BY CheckoutBounds
  <2> QED  BY <1>1, <1>4, <1>5, <2>1 DEF Document
<1>7. Update(p, new, "opening")  BY DEF NewOperation
<1> HIDE DEF new
<1>8. ASSUME lease = p  PROVE Accepted
  <2>1. doc' = new /\ Copy(p) = doc  BY <1>3, <1>7, <1>8, AtWork DEF Update, Write, Fenced
  <2>2. Describes(doc)'
    <3>1. 0 \in 0..Len(subs') /\ begun + 1 <= begun'
      BY <1>1, <1>2, SubsAreTyped DEF StripeSame, CheckoutInv
    <3> QED  BY <1>6, <2>1, <3>1 DEF Describes
  <2>3. \A i \in DOMAIN subs : Terminal(subs[i].status)
    BY <1>4, <1>5, <2>1, SubsAreTyped DEF CheckoutInv, LiveAreOurs
  <2>4. LiveAreOurs'  BY <1>2, <2>3 DEF LiveAreOurs, StripeSame
  <2>5. \A i \in DOMAIN subs : subs[i].session # begun + 1 /\ i # 0
    <3> SUFFICES ASSUME NEW i \in DOMAIN subs
                 PROVE  subs[i].session # begun + 1 /\ i # 0
      OBVIOUS
    <3>1. subs[i].session <= begun /\ subs[i].session \in Nat
      BY SubsAreTyped DEF CheckoutInv, SubsAreSound
    <3>2. i # 0  BY SubsAreTyped DEF CheckoutInv
    <3> QED  BY <1>1, <3>1, <3>2
  <2>6. \A i \in DOMAIN subs : Left(i)' /\ Known(i)'
    BY <1>2, <1>6, <2>1, <2>5 DEF Left, Known, StripeSame
  <2>7. LedgerIsSound'
    <3> SUFFICES ASSUME NEW e \in recorded \ ignored, e.type = "subscription"
                 PROVE  Known(e.of)' /\ e.of # 0
      BY <1>2, <1>6, <2>1 DEF LedgerIsSound, LedgerSame
    <3>1. e.of \in DOMAIN subs  BY DEF CheckoutInv, State, EventsAreSound
    <3> QED  BY <2>5, <2>6, <3>1
  <2>8. AgedAreSound'
    <3> SUFFICES ASSUME NEW o \in Sessions, <<"create", o>> \in aged
                 PROVE  o <= begun + 1 /\ o # begun + 1
      BY <1>1, <1>2, <1>6, <2>1 DEF AgedAreSound, StripeSame
    <3>1. o <= begun /\ o \in Nat
      BY SubsAreTyped DEF CheckoutInv, AgedAreSound
    <3> QED  BY <1>1, <3>1
  <2>9. DocumentGoesOn
    BY <1>2, <1>5, <2>1, <2>6 DEF DocumentGoesOn, Underway, StripeSame
  <2> QED  BY <2>2, <2>4, <2>7, <2>8, <2>9 DEF Accepted
<1>9. new.operation # 0  BY <1>1, <1>6
<1> QED  BY <1>2, <1>3, <1>6, <1>7, <1>8, <1>9, UpdateKeeps

\* An attempt: written down, repeated, or reported as too old.
LEMMA AttemptSessionKeeps ==
  ASSUME CheckoutInv, NEW p \in Procs, AttemptSession(p)
  PROVE  CheckoutInv'
<1> DEFINE new == [Copy(p) EXCEPT !.opened = TRUE]
           old == <<"session", Copy(p).operation>> \in aged
<1>1. StripeSame /\ LedgerSame  BY SameQuiet DEF AttemptSession
<1>2. calls[p].at = "opening" /\ "opening" \in Working /\ "opening" \in Creating
  BY DEF AttemptSession, At, Working, Creating
<1>3. /\ Copy(p) \in Document /\ IsNew(calls[p]) /\ Copy(p) = calls[p].copy
      /\ calls[p] \in Holder
  BY <1>2, AtWork
<1>4. Copy(p).sub = 0 /\ Copy(p).operation # 0  BY <1>2, <1>3 DEF IsNew
<1>5. CASE ~Copy(p).opened
  <2>1. Update(p, new, "open")  BY <1>5 DEF AttemptSession, Attempt
  <2>2. /\ new \in Document /\ new.operation = Copy(p).operation /\ new.sub = Copy(p).sub
        /\ new.session = Copy(p).session /\ new.created = Copy(p).created
        /\ new.seen = Copy(p).seen
    BY <1>3 DEF Document
  <2> HIDE DEF new
  <2>3. ASSUME lease = p  PROVE Accepted
    <3>1. doc' = new /\ Copy(p) = doc  BY <1>2, <2>1, <2>3, AtWork DEF Update, Write, Fenced
    <3>2. Describes(doc) /\ doc.seen <= doc.seen  BY <1>3, <3>1 DEF CheckoutInv, Document
    <3> QED  BY <1>1, <2>2, <3>1, <3>2, SmallWrite DEF LedgerSame, Describes
  <2> QED  BY <1>1, <1>2, <1>4, <2>1, <2>2, <2>3, UpdateKeeps
<1>6. CASE Copy(p).opened /\ old
  BY <1>1, <1>6, ReportKeeps DEF AttemptSession, Attempt
<1>7. CASE Copy(p).opened /\ ~old
  <2>1. Goto(p, "open")  BY <1>7 DEF AttemptSession, Attempt
  <2>2. IsNew([calls[p] EXCEPT !.at = "open"])  BY <1>3, <1>4 DEF IsNew, Holder
  <2>3. "open" \in Working \ ({"recheck", "previous"} \cup Answered)
    BY DEF Working, Creating, Answered
  <2> QED  BY <1>1, <1>2, <2>1, <2>2, <2>3, GotoKeeps
<1> QED  BY <1>5, <1>6, <1>7

\* Stripe changes, and the document does not.
LEMMA StripeStep ==
  ASSUME CheckoutInv, StripeGrows, doc' = doc, LedgerSame, begun' = begun, aged' = aged,
         State', SubsAreSound', EventsAreSound', LiveAreOurs', CallsAreSound'
  PROVE  CheckoutInv'
<1>1. Describes(doc)'
  <2>1. doc \in Document /\ Describes(doc) /\ State  BY DEF CheckoutInv, State
  <2>2. PICK d \in Document : d = doc  BY <2>1
  <2>3. Describes(d)'  BY <2>1, <2>2, DescriptionHolds
  <2> QED  BY <2>2, <2>3 DEF Describes
<1>2. LedgerIsSound'
  <2> SUFFICES ASSUME NEW e \in recorded \ ignored, e.type = "subscription"
               PROVE  Known(e.of)' /\ (e.of = doc.sub => e.ver <= doc.seen)
    BY DEF LedgerIsSound, LedgerSame
  <2>1. e.of \in DOMAIN subs  BY DEF CheckoutInv, State, EventsAreSound
  <2> QED  BY <2>1 DEF CheckoutInv, LedgerIsSound, Known, Left, StripeGrows
<1>3. AgedAreSound'  BY DEF CheckoutInv, AgedAreSound
<1> QED  BY <1>1, <1>2, <1>3 DEF CheckoutInv

LEMMA StripeGoesOn ==
  ASSUME State, StripeGrows, doc' = doc
  PROVE  Grows
  BY SubsAreTyped DEF Grows, StripeGrows, DocumentGoesOn, Left, Known, Underway

\* Nobody moves: every call knows what it knew.
LEMMA NobodyMoves ==
  ASSUME CheckoutInv, StripeGrows, doc' = doc, UNCHANGED <<calls, lease, aged>>
  PROVE  CallsAreSound'
<1>1. Calls \subseteq Calls'
  BY StripeGoesOn, CallHolds DEF Calls, CheckoutInv
<1> QED  BY <1>1 DEF CheckoutInv, CallsAreSound

LEMMA OpenSessionKeeps ==
  ASSUME CheckoutInv, NEW p \in Procs, OpenSession(p)
  PROVE  CheckoutInv'
<1>1. calls[p].at = "open" /\ "open" \in Working /\ "open" \in Creating
      /\ "opened" \in Working /\ "opened" \in Creating /\ "opened" \notin Answered
      /\ "opened" \notin Finding
  BY DEF OpenSession, At, Working, Creating, Answered, Finding
<1>2. /\ Copy(p) \in Document /\ IsNew(calls[p]) /\ Copy(p) = calls[p].copy
      /\ calls[p] \in Holder /\ CopyIsSound(calls[p])
  BY <1>1, AtWork DEF CopyIsSound
<1>3. Copy(p).operation \in Sessions
  BY <1>1, <1>2, CheckoutBounds DEF IsNew, Document, Sessions
<1>4. /\ begun' = begun /\ subs' = subs /\ keys' = keys /\ sent' = sent /\ aged' = aged
      /\ recorded' = recorded /\ ignored' = ignored /\ doc' = doc /\ lease' = lease
      /\ sessions' = [sessions EXCEPT ![Copy(p).operation] = IF @ = "none" THEN "open" ELSE @]
  BY DEF OpenSession, Goto, leaseVars, ledger
<1>5. \A s \in Sessions : sessions[s] = "complete" => sessions'[s] = "complete"
  BY <1>3, <1>4 DEF CheckoutInv, State
<1>6. StripeGrows
  BY <1>4, <1>5, SubsAreTyped DEF StripeGrows, CheckoutInv
<1>7. State'  BY <1>3, <1>4 DEF CheckoutInv, State
<1>8. SubsAreSound' /\ EventsAreSound' /\ LiveAreOurs'
  BY <1>4, <1>5, SubsAreTyped DEF CheckoutInv, SubsAreSound, EventsAreSound, LiveAreOurs
<1>9. CallsAreSound'
  <2>1. [calls[p] EXCEPT !.at = "opened"] \in Holder  BY <1>1, <1>2 DEF Holder
  <2>2. PICK c \in Holder : c = [calls[p] EXCEPT !.at = "opened"]  BY <2>1
  <2>3. /\ c.at = "opened" /\ c.copy = Copy(p) /\ c.ev = calls[p].ev
        /\ c.copy.operation # 0
    BY <1>1, <1>2, <2>2 DEF Holder, IsNew
  <2>4. CopyIsSound(c) /\ EventIsKnown(c) /\ IsNew(c) /\ c.ev \in sent \cup {NoEvent}
    BY <1>1, <1>2, <2>3, AtWork DEF CopyIsSound, EventIsKnown, IsNew
  <2>5. c \in Calls  BY <1>1, <2>3, <2>4 DEF Calls, CallIsSound
  <2>6. c \in Calls'  BY <1>4, <1>6, <2>5, StripeGoesOn, CallHolds DEF Calls, CheckoutInv
  <2>7. calls' = [calls EXCEPT ![p] = c]  BY <2>2 DEF OpenSession, Goto
  <2>8. Moves(p, c)  BY <1>1, <1>4, <2>3, <2>7, AtWork DEF Moves
  <2> QED  BY <1>4, <1>6, <2>6, <2>8, StripeGoesOn, OthersHold DEF CheckoutInv
<1> QED  BY <1>4, <1>6, <1>7, <1>8, <1>9, StripeStep DEF LedgerSame

\* The session of the operation begun, and no other, comes into the document.
LEMMA StoreSessionKeeps ==
  ASSUME CheckoutInv, NEW p \in Procs, StoreSession(p)
  PROVE  CheckoutInv'
<1> DEFINE new == [Copy(p) EXCEPT !.session = Copy(p).operation]
<1>1. StripeSame /\ LedgerSame
  BY QuietIsSame DEF StoreSession, LedgerSame, ledger
<1>2. calls[p].at = "opened" /\ "opened" \in Working /\ "opened" \in Creating
  BY DEF StoreSession, At, Working, Creating
<1>3. /\ Copy(p) \in Document /\ IsNew(calls[p]) /\ Copy(p) = calls[p].copy
      /\ Describes(Copy(p))
  BY <1>2, AtWork
<1>4. Copy(p).sub = 0 /\ Copy(p).operation # 0  BY <1>2, <1>3 DEF IsNew
<1>5. CASE lease # p
  BY <1>1, <1>5, QuitKeeps DEF StoreSession, Fenced, Quit
<1>6. CASE lease = p
  <2>1. doc' = new /\ Copy(p) = doc  BY <1>2, <1>6, AtWork DEF StoreSession, Fenced
  <2>2. /\ new \in Document /\ new.operation = doc.operation /\ new.sub = 0
        /\ new.session = doc.operation /\ new.created = doc.created
        /\ new.seen = doc.seen
    BY <1>3, <1>4, <2>1 DEF Document
  <2> HIDE DEF new
  <2>3. doc.created => doc.session = doc.operation  BY <1>3, <2>1 DEF Describes
  <2>4. Describes(doc)'
    <3>1. doc \in Document /\ Describes(doc)  BY <1>3, <2>1
    <3>2. PICK d \in Document : d = doc  BY <3>1
    <3>3. Describes(d)'
      BY <1>1, <3>1, <3>2, SameGrows, DescriptionHolds DEF CheckoutInv
    <3>4. new.created => new.session # 0 /\ sessions'[new.session] = "complete"
      BY <2>2, <2>3, <3>2, <3>3, <1>4, <2>1 DEF Describes
    <3> QED  BY <1>4, <2>1, <2>2, <3>2, <3>3, <3>4 DEF Describes
  <2>5. \A i : Left(i)' = Left(i) /\ Known(i)' = Known(i)
    BY <1>1, <1>4, <2>1, <2>2 DEF Left, Known, StripeSame
  <2>6. LiveAreOurs'
    BY <1>1, <1>4, <2>1, <2>2, <2>3 DEF CheckoutInv, LiveAreOurs, StripeSame
  <2>7. LedgerIsSound'
    BY <1>1, <1>4, <2>1, <2>2, <2>5 DEF CheckoutInv, LedgerIsSound, LedgerSame
  <2>8. AgedAreSound'
    BY <1>1, <2>1, <2>2, QuietIsSame DEF CheckoutInv, AgedAreSound, StripeSame, StoreSession
  <2>9. DocumentGoesOn
    BY <1>1, <1>4, <2>1, <2>2, <2>3, <2>5 DEF DocumentGoesOn, Underway, StripeSame
  <2>10. Accepted  BY <2>4, <2>6, <2>7, <2>8, <2>9 DEF Accepted
  <2>11. Finish(p) /\ recorded' \subseteq sent /\ ignored' = ignored
    BY <1>1 DEF StoreSession, LedgerSame, CheckoutInv, State
  <2> QED  BY <1>1, <1>6, <2>1, <2>2, <2>10, <2>11, LastWriteKeeps
<1> QED  BY <1>5, <1>6

------------------------------------------------------------------------------
(* completeCheckout, synchronize and applyCanonical *)

LEMMA CheckSetupKeeps ==
  ASSUME CheckoutInv, NEW p \in Procs, CheckSetup(p)
  PROVE  CheckoutInv'
<1> DEFINE s == IF calls[p].ev = NoEvent THEN Copy(p).session ELSE calls[p].ev.of
<1>1. StripeSame /\ LedgerSame  BY SameQuiet DEF CheckSetup
<1>2. calls[p].at = "setup" /\ "setup" \in Working /\ "setup" \in Creating
      /\ "sync" \notin Creating
      /\ {"subscribing", "sync"} \subseteq Working \ ({"recheck", "previous"} \cup Answered)
  BY DEF CheckSetup, At, Working, Creating, Answered
<1>3. /\ IsNew(calls[p]) /\ Copy(p) = calls[p].copy /\ calls[p] \in Holder
      /\ calls[p].ev \in sent \cup {NoEvent}
  BY <1>2, AtWork
<1>4. CASE s = Copy(p).session /\ sessions[s] = "complete"
  <2>1. Goto(p, "subscribing")  BY <1>4 DEF CheckSetup
  <2>2. Copy(p).session # 0
    <3>1. calls[p].ev = NoEvent => Copy(p).session # 0  BY <1>2, <1>3 DEF IsNew
    <3>2. calls[p].ev # NoEvent => calls[p].ev.of # 0
      <4> SUFFICES ASSUME calls[p].ev \in sent  PROVE calls[p].ev.of # 0  BY <1>3
      <4>1. calls[p].ev.type \in {"subscription", "completed"}
        BY DEF CheckoutInv, State, Event
      <4>2. calls[p].ev.of \in DOMAIN subs \cup Sessions
        BY <4>1 DEF CheckoutInv, EventsAreSound
      <4> QED  BY <4>2, SubsAreTyped DEF CheckoutInv
    <3> QED  BY <1>4, <3>1, <3>2
  <2>3. IsNew([calls[p] EXCEPT !.at = "subscribing"])
    BY <1>3, <1>4, <2>2 DEF IsNew, Holder
  <2> QED  BY <1>1, <1>2, <2>1, <2>3, GotoKeeps
<1>5. CASE ~(s = Copy(p).session /\ sessions[s] = "complete")
           /\ calls[p].ev = NoEvent /\ sessions[s] # "complete"
  <2>1. Goto(p, "sync")  BY <1>5 DEF CheckSetup
  <2> QED  BY <1>1, <1>2, <2>1, GotoKeeps
<1>6. CASE ~(s = Copy(p).session /\ sessions[s] = "complete")
           /\ ~(calls[p].ev = NoEvent /\ sessions[s] # "complete")
  BY <1>1, <1>6, QuitKeeps DEF CheckSetup
<1> QED  BY <1>4, <1>5, <1>6

\* The creation is written down before it is asked for, and not asked for again
\* once Stripe may have forgotten its key.
LEMMA AttemptSubscriptionKeeps ==
  ASSUME CheckoutInv, NEW p \in Procs, AttemptSubscription(p)
  PROVE  CheckoutInv'
<1> DEFINE new == [Copy(p) EXCEPT !.created = TRUE]
           old == <<"create", Copy(p).operation>> \in aged
<1>1. StripeSame /\ LedgerSame  BY SameQuiet DEF AttemptSubscription
<1>2. calls[p].at = "subscribing" /\ "subscribing" \in Working /\ "subscribing" \in Creating
  BY DEF AttemptSubscription, At, Working, Creating
<1>3. /\ Copy(p) \in Document /\ IsNew(calls[p]) /\ Copy(p) = calls[p].copy
      /\ calls[p] \in Holder /\ Describes(Copy(p))
  BY <1>2, AtWork
<1>4. /\ Copy(p).sub = 0 /\ Copy(p).session # 0
      /\ sessions[Copy(p).session] = "complete" /\ Copy(p).session = Copy(p).operation
  BY <1>2, <1>3 DEF IsNew, Describes
<1>5. CASE ~Copy(p).created
  <2>1. Update(p, new, "subscribe")  BY <1>5 DEF AttemptSubscription, Attempt
  <2>2. /\ new \in Document /\ new.operation = Copy(p).operation /\ new.sub = Copy(p).sub
        /\ new.session = Copy(p).session /\ new.created /\ new.seen = Copy(p).seen
    BY <1>3 DEF Document
  <2> HIDE DEF new
  <2>3. CASE lease = p
    <3>1. doc' = new /\ Copy(p) = doc  BY <1>2, <2>1, <2>3, AtWork DEF Update, Write, Fenced
    <3>2. Describes(doc) /\ doc.seen <= doc.seen  BY <1>3, <3>1 DEF CheckoutInv, Document
    <3>3. Accepted
      BY <1>1, <1>4, <2>2, <3>1, <3>2, SmallWrite DEF LedgerSame, Describes
    <3>4. Copy(p).operation \in Sessions
      BY <1>3, <1>4, CheckoutBounds DEF Document, Sessions
    <3>5. <<"create", Copy(p).operation>> \notin aged
      BY <1>5, <3>1, <3>4 DEF CheckoutInv, AgedAreSound
    <3> QED  BY <1>1, <1>2, <1>4, <2>1, <2>2, <3>3, <3>5, UpdateKeeps
  <2>4. CASE lease # p
    BY <1>1, <2>1, <2>4, QuitKeeps DEF Update, Write, Fenced
  <2> QED  BY <2>3, <2>4
<1>6. CASE Copy(p).created /\ old
  BY <1>1, <1>6, ReportKeeps DEF AttemptSubscription, Attempt
<1>7. CASE Copy(p).created /\ ~old
  <2>1. Goto(p, "subscribe")  BY <1>7 DEF AttemptSubscription, Attempt
  <2>2. IsNew([calls[p] EXCEPT !.at = "subscribe"])
    BY <1>3, <1>4, <1>7 DEF IsNew, Holder
  <2>3. "subscribe" \in Working \ ({"recheck", "previous"} \cup Answered)
    BY DEF Working, Creating, Answered
  <2> QED  BY <1>1, <1>2, <1>7, <2>1, <2>2, <2>3, GotoKeeps
<1> QED  BY <1>5, <1>6, <1>7

\* A call with Stripe's answer to the creation.
LEMMA StoreIsSound ==
  ASSUME CheckoutInv, NEW p \in Procs, calls[p].at = "subscribe",
         NEW c \in Holder, c.at = "store", c.copy = Copy(p), c.ev = calls[p].ev
  PROVE  /\ c.ev \in sent \cup {NoEvent}
         /\ CopyIsSound(c) /\ IsNew(c) /\ EventIsKnown(c)
         /\ c.copy.session \in Sessions /\ Underway(c.copy.session)
         /\ sessions[c.copy.session] = "complete"
         /\ <<"create", c.copy.session>> \notin aged
<1>1. "subscribe" \in Working /\ "subscribe" \in Creating /\ "store" \in Working
  BY DEF Working, Creating
<1>2. /\ Copy(p) \in Document /\ IsNew(calls[p]) /\ Copy(p) = calls[p].copy
      /\ calls[p] \in Holder /\ Describes(Copy(p)) /\ EventIsKnown(calls[p])
      /\ (Copy(p).created /\ Copy(p).sub = 0) => Underway(Copy(p).session)
      /\ calls[p].ev \in sent \cup {NoEvent}
  BY <1>1, AtWork
<1>5. /\ Copy(p).sub = 0 /\ Copy(p).session # 0 /\ Copy(p).created
      /\ sessions[Copy(p).session] = "complete" /\ Copy(p).session = Copy(p).operation
  BY <1>2 DEF IsNew, Describes
<1>6. Copy(p).session \in Sessions  BY <1>2, <1>5, CheckoutBounds DEF Document, Sessions
<1>7. <<"create", Copy(p).operation>> \notin aged
  BY DEF CheckoutInv, CallsAreSound, Copy
<1>8. CopyIsSound(c) /\ EventIsKnown(c)  BY <1>2 DEF CopyIsSound, EventIsKnown
<1>9. IsNew(c)  BY <1>5 DEF IsNew
<1> QED  BY <1>2, <1>5, <1>6, <1>7, <1>8, <1>9

\* A session whose key Stripe does not know has no subscription yet, and the
\* document waits for one.
LEMMA CreationIsFirst ==
  ASSUME CheckoutInv, NEW s \in Sessions, keys[s] = 0, Underway(s),
         <<"create", s>> \notin aged
  PROVE  /\ \A i \in DOMAIN subs : subs[i].session # s
         /\ doc.session = s /\ doc.created /\ doc.sub = 0
<1>1. \A i \in DOMAIN subs : subs[i].session # s  BY DEF CheckoutInv, SubsAreSound
<1> QED  BY <1>1 DEF Underway

LEMMA CreateSubscriptionKeeps ==
  ASSUME CheckoutInv, NEW p \in Procs, CreateSubscription(p)
  PROVE  CheckoutInv'
<1> DEFINE s == Copy(p).session
           made == IF keys[s] # 0 THEN keys[s] ELSE Len(subs) + 1
           fresh == [session |-> s, status |-> "incomplete", ver |-> 1]
           emitted == [type |-> "subscription", of |-> made, ver |-> 1]
           next == [calls[p] EXCEPT !.at = "store",
                      !.answer = [sub |-> made, status |-> "incomplete", ver |-> 1]]
<1>1. calls[p].at = "subscribe" /\ "store" \notin Finding /\ "store" \in Creating
      /\ "store" \in Answered
  BY DEF CreateSubscription, At, Finding, Creating, Answered
<1>2. Copy(p).session \in Nat /\ calls[p] \in Holder
  BY <1>1, AtWork, CheckoutBounds DEF Document, Working, Creating
<1>3. made \in Nat
  <2>1. s \in Sessions
    BY <1>1, AtWork, CheckoutBounds DEF IsNew, Document, Sessions, Working, Creating
  <2> QED  BY <2>1, SubsAreTyped DEF CheckoutInv, State
<1>4. PICK c \in Holder : c = next
  <2>1. [sub |-> made, status |-> "incomplete", ver |-> 1] \in Answer
    <3> HIDE DEF made
    <3> QED  BY <1>3 DEF Answer, Statuses
  <2> QED  BY <1>2, <2>1 DEF Holder, Working, Creating
<1>5. /\ doc' = doc /\ lease' = lease /\ begun' = begun /\ sessions' = sessions
      /\ aged' = aged /\ recorded' = recorded /\ ignored' = ignored
      /\ calls' = [calls EXCEPT ![p] = c]
  BY <1>4 DEF CreateSubscription, leaseVars, ledger
<1>6. /\ c.at = "store" /\ c.copy = Copy(p) /\ c.ev = calls[p].ev
      /\ c.answer.sub = made /\ c.answer.ver = 1
  BY <1>2, <1>4 DEF Holder, Copy
<1>7. /\ c.ev \in sent \cup {NoEvent} /\ CopyIsSound(c) /\ IsNew(c) /\ EventIsKnown(c)
       /\ s \in Sessions /\ sessions[s] = "complete" /\ c.copy.session = s
       /\ <<"create", s>> \notin aged /\ Underway(s)
  <2>1. /\ c.ev \in sent \cup {NoEvent} /\ CopyIsSound(c) /\ IsNew(c) /\ EventIsKnown(c)
        /\ c.copy.session \in Sessions /\ Underway(c.copy.session)
        /\ sessions[c.copy.session] = "complete"
        /\ <<"create", c.copy.session>> \notin aged
    BY <1>1, <1>6, StoreIsSound
  <2> QED  BY <1>6, <2>1
<1> HIDE DEF next
<1>8. Moves(p, c)
  <2>1. "subscribe" \in Working  BY DEF Working, Creating
  <2> QED  BY <1>1, <1>5, <1>6, <1>7, <2>1, AtWork DEF Moves
<1>9. CASE keys[s] # 0
  <2>1. subs' = subs /\ keys' = keys /\ sent' = sent  BY <1>9 DEF CreateSubscription
  <2>2. made \in DOMAIN subs /\ subs[made].session = s
    BY <1>7, <1>9 DEF CheckoutInv, SubsAreSound
  <2>3. 1 <= subs[made].ver  BY <2>2, SubsAreTyped DEF CheckoutInv
  <2> HIDE DEF made
  <2>4. AnswerIsSound(c)  BY <1>6, <1>7, <2>2, <2>3 DEF AnswerIsSound
  <2>5. c \in Calls  BY <1>1, <1>6, <1>7, <2>4 DEF Calls, CallIsSound
  <2>6. StripeSame  BY <1>5, <2>1, QuietIsSame
  <2> QED  BY <1>5, <1>8, <2>5, <2>6, MoveKeeps DEF LedgerSame
<1>10. CASE keys[s] = 0
  <2>1. /\ made = Len(subs) + 1 /\ subs' = Append(subs, fresh)
        /\ keys' = [keys EXCEPT ![s] = made] /\ sent' = sent \cup {emitted}
    BY <1>10 DEF CreateSubscription
  <2>2. /\ \A i \in DOMAIN subs : subs[i].session # s
        /\ doc.session = s /\ doc.created /\ doc.sub = 0
    BY <1>6, <1>7, <1>10, CreationIsFirst
  <2>3. fresh \in Subscription /\ emitted \in Event
    BY <1>7, <1>3 DEF Subscription, Event, Statuses
  <2>4. fresh.session = s /\ fresh.status = "incomplete" /\ fresh.ver = 1
        /\ emitted.type = "subscription" /\ emitted.of = made /\ emitted.ver = 1
    OBVIOUS
  <2> HIDE DEF fresh, emitted
  <2>5. /\ Len(subs') = Len(subs) + 1 /\ Len(subs) \in Nat
        /\ DOMAIN subs' = 1..Len(subs') /\ DOMAIN subs = 1..Len(subs)
        /\ subs'[made] = fresh /\ \A i \in DOMAIN subs : subs'[i] = subs[i]
        /\ subs' \in Seq(Subscription)
    BY <2>1, <2>3 DEF CheckoutInv, State
  <2>6. DOMAIN subs' = DOMAIN subs \cup {made} /\ made \notin DOMAIN subs
        /\ made # 0
    BY <2>1, <2>5
  <2> HIDE DEF made
  <2>7. StripeGrows
    BY <1>5, <2>1, <2>5, SubsAreTyped DEF StripeGrows, CheckoutInv
  <2>8. State'
    BY <1>7, <1>3, <1>5, <1>8, <2>1, <2>3, <2>5, NoneAssumption
    DEF CheckoutInv, State, Moves
  <2>9. SubsAreSound'
    <3>1. ASSUME NEW i \in DOMAIN subs'
          PROVE  /\ subs'[i].session <= begun /\ sessions[subs'[i].session] = "complete"
                 /\ keys'[subs'[i].session] = 0 => <<"create", subs'[i].session>> \in aged
      <4>1. CASE i = made
        <5>1. s <= begun
          BY <2>2 DEF CheckoutInv, Describes, State, Document
        <5> QED  BY <1>6, <1>7, <2>1, <2>4, <2>5, <2>6, <4>1, <5>1 DEF CheckoutInv, State
      <4>2. CASE i \in DOMAIN subs
        <5>1. subs[i].session # s /\ subs[i].session \in Sessions /\ subs'[i] = subs[i]
          BY <2>2, <2>5, <4>2, SubsAreTyped DEF CheckoutInv
        <5>2. keys'[subs[i].session] = keys[subs[i].session]
          BY <2>1, <5>1 DEF CheckoutInv, State
        <5> QED  BY <4>2, <5>1, <5>2 DEF CheckoutInv, SubsAreSound
      <4> QED  BY <2>6, <4>1, <4>2
    <3>2. ASSUME NEW i \in DOMAIN subs', NEW j \in DOMAIN subs',
                 subs'[i].session = subs'[j].session
          PROVE  i = j
      <4>1. subs'[made].session = s /\ subs'[i].session = subs'[j].session
            /\ \A k \in DOMAIN subs : subs'[k].session # s
        BY <2>2, <2>4, <2>5, <3>2
      <4>2. (i = made /\ j = made) \/ (i \in DOMAIN subs /\ j \in DOMAIN subs)
        BY <2>6, <4>1
      <4>3. ASSUME i \in DOMAIN subs, j \in DOMAIN subs  PROVE i = j
        <5>1. subs[i].session = subs[j].session  BY <2>5, <4>1, <4>3
        <5> QED  BY <4>3, <5>1 DEF CheckoutInv, SubsAreSound
      <4> QED  BY <4>2, <4>3
    <3>3. ASSUME NEW t \in Sessions, keys'[t] # 0
          PROVE  keys'[t] \in DOMAIN subs' /\ subs'[keys'[t]].session = t
      <4>1. CASE t = s
        BY <1>7, <2>1, <2>4, <2>5, <2>6, <4>1 DEF CheckoutInv, State
      <4>2. CASE t # s
        <5>1. keys'[t] = keys[t]  BY <2>1, <4>2 DEF CheckoutInv, State
        <5> QED  BY <2>5, <2>6, <3>3, <5>1 DEF CheckoutInv, SubsAreSound
      <4> QED  BY <4>1, <4>2
    <3> QED  BY <1>5, <3>1, <3>2, <3>3 DEF SubsAreSound
  <2>10. LiveAreOurs'
    BY <1>5, <2>2, <2>4, <2>5, <2>6 DEF CheckoutInv, LiveAreOurs
  <2>11. EventsAreSound'
    BY <2>1, <2>4, <2>5, <2>6 DEF CheckoutInv, EventsAreSound
  <2>12. Grows  BY <1>5, <2>7, StripeGoesOn DEF CheckoutInv
  <2>13. c \in Calls'
    <3>1. CopyIsSound(c)'
      <4>1. Describes(c.copy)'
        BY <1>6, <1>7, <2>7, DescriptionHolds DEF CopyIsSound, CheckoutInv, Holder
      <4>2. c.copy.session \in Sessions /\ Underway(c.copy.session)  BY <1>6, <1>7
      <4>3. Underway(c.copy.session)'  BY <2>12, <4>2 DEF Grows, DocumentGoesOn
      <4> QED  BY <1>6, <1>7, <4>1, <4>3 DEF CopyIsSound
    <3>2. c.ev.type = "subscription" => c.ev.of \in DOMAIN subs
      BY <1>6, <1>7 DEF CheckoutInv, EventsAreSound, NoEvent
    <3>3. EventIsKnown(c)'
      BY <1>6, <1>7, <2>12, <3>2 DEF EventIsKnown, Grows, DocumentGoesOn
    <3>4. AnswerIsSound(c)'
      <4>1. /\ c.answer.sub \in DOMAIN subs' /\ subs'[c.answer.sub].ver = 1
            /\ subs'[c.answer.sub].session = c.copy.session
        BY <1>6, <1>7, <2>4, <2>5, <2>6
      <4> QED  BY <1>6, <1>7, <4>1 DEF AnswerIsSound
    <3>5. IsNew(c)'  BY <1>5, <1>6, <1>7 DEF IsNew
    <3>6. c.ev \in sent' \cup {NoEvent}  BY <1>6, <1>7, <2>1
    <3> QED  BY <1>1, <1>6, <1>7, <3>1, <3>3, <3>4, <3>5, <3>6 DEF Calls, CallIsSound
  <2>14. CallsAreSound'  BY <1>5, <1>8, <2>12, <2>13, OthersHold DEF CheckoutInv
  <2> QED
    BY <1>5, <2>7, <2>8, <2>9, <2>10, <2>11, <2>14, StripeStep DEF LedgerSame
<1> QED  BY <1>9, <1>10

\* The subscription that comes into the document is the only one that can be billed.
LEMMA StoreSubscriptionKeeps ==
  ASSUME CheckoutInv, NEW p \in Procs, StoreSubscription(p)
  PROVE  CheckoutInv'
<1> DEFINE i == calls[p].answer.sub
           new == [Copy(p) EXCEPT !.sub = i]
<1>1. StripeSame /\ LedgerSame  BY SameQuiet DEF StoreSubscription
<1>2. calls[p].at = "store" /\ "store" \in Working /\ "store" \in Creating
      /\ "store" \in Answered
  BY DEF StoreSubscription, At, Working, Creating, Answered
<1>3. /\ Copy(p) \in Document /\ IsNew(calls[p]) /\ Copy(p) = calls[p].copy
      /\ AnswerIsSound(calls[p]) /\ Describes(Copy(p)) /\ calls[p].answer \in Answer
  BY <1>2, AtWork
<1>4. /\ Copy(p).sub = 0 /\ Copy(p).session # 0 /\ Copy(p).created
      /\ Copy(p).session = Copy(p).operation /\ Copy(p).seen = 0
      /\ sessions[Copy(p).session] = "complete"
  BY <1>2, <1>3 DEF IsNew, Describes
<1>5. /\ i \in DOMAIN subs /\ subs[i].session = Copy(p).session /\ i # 0 /\ i \in Nat
      /\ subs[i].ver \in Nat \ {0} /\ i \in 0..Len(subs)
  BY <1>2, <1>3, SubsAreTyped DEF AnswerIsSound, CheckoutInv
<1>6. /\ new \in Document /\ new.operation = Copy(p).operation /\ new.sub = i
      /\ new.session = Copy(p).session /\ new.created /\ new.seen = 0
  BY <1>3, <1>4, <1>5 DEF Document
<1>7. Update(p, new, "applyNew")  BY DEF StoreSubscription
<1> HIDE DEF i, new
<1>8. ASSUME lease = p  PROVE Accepted
  <2>1. doc' = new /\ Copy(p) = doc  BY <1>2, <1>7, <1>8, AtWork DEF Update, Write, Fenced
  <2>2. Describes(doc)'
    <3>1. new.operation <= begun'
      <4>1. doc.operation <= begun /\ doc.operation \in Nat
        BY <1>3, <2>1 DEF Describes, Document
      <4>2. begun \in Nat /\ begun' \in Nat /\ begun <= begun'
        BY <1>1, SubsAreTyped, CheckoutBounds DEF CheckoutInv, StripeSame
      <4> QED  BY <1>6, <2>1, <4>1, <4>2
    <3>2. 0 <= subs[i].ver  BY <1>5
    <3> QED  BY <1>1, <1>4, <1>5, <1>6, <2>1, <3>1, <3>2 DEF Describes, StripeSame
  <2>3. \A j \in DOMAIN subs : subs[j].session = doc.session => j = i
    BY <1>5, <2>1 DEF CheckoutInv, SubsAreSound
  <2>4. \A j \in DOMAIN subs : ~Terminal(subs[j].status) => j = i
    <3>1. \A j \in DOMAIN subs : doc.sub # j  BY <1>4, <2>1, SubsAreTyped DEF CheckoutInv
    <3> QED  BY <2>3, <3>1 DEF CheckoutInv, LiveAreOurs
  <2>5. LiveAreOurs'  BY <1>1, <1>6, <2>1, <2>4 DEF LiveAreOurs, StripeSame
  <2>6. \A j \in DOMAIN subs : (Left(j) => Left(j)') /\ (Known(j) => Known(j)' /\ j # i)
    <3>1. \A j \in DOMAIN subs : doc.sub # j  BY <1>4, <2>1, SubsAreTyped DEF CheckoutInv
    <3>2. ~Left(i)  BY <1>4, <1>5, <2>1 DEF Left
    <3> QED  BY <1>1, <1>6, <2>1, <3>1, <3>2 DEF Left, Known, StripeSame
  <2>7. LedgerIsSound'
    <3> SUFFICES ASSUME NEW e \in recorded \ ignored, e.type = "subscription"
                 PROVE  Known(e.of)' /\ e.of # i
      BY <1>1, <1>6, <2>1 DEF LedgerIsSound, LedgerSame
    <3>1. e.of \in DOMAIN subs  BY DEF CheckoutInv, State, EventsAreSound
    <3>2. Known(e.of)  BY DEF CheckoutInv, LedgerIsSound
    <3> QED  BY <2>6, <3>1, <3>2
  <2>8. AgedAreSound'
    BY <1>1, <1>4, <1>6, <2>1, SameQuiet DEF CheckoutInv, AgedAreSound, StripeSame,
       StoreSubscription, quiet
  <2>9. DocumentGoesOn
    <3>1. ASSUME NEW s \in Sessions, Underway(s)  PROVE Underway(s)'
      <4>1. CASE \E j \in DOMAIN subs : subs[j].session = s
        BY <1>1, <4>1 DEF Underway, StripeSame
      <4>2. CASE doc.session = s
        BY <1>1, <1>5, <2>1, <4>2 DEF Underway, StripeSame
      <4> QED  BY <3>1, <4>1, <4>2 DEF Underway
    <3> QED  BY <2>6, <3>1 DEF DocumentGoesOn
  <2> QED  BY <2>2, <2>5, <2>7, <2>8, <2>9 DEF Accepted
<1>9. new.seen <= 1 /\ new.sub = calls[p].answer.sub  BY <1>6 DEF i
<1> QED  BY <1>1, <1>2, <1>6, <1>7, <1>8, <1>9, UpdateKeeps

\* An answer applied under the lease is at least as new as what the document has.
LEMMA AppliedIsSound ==
  ASSUME CheckoutInv, NEW p \in Procs, calls[p].at \in {"applyNew", "apply"}
  PROVE  /\ calls[p].at \in Working /\ Applied(p) \in Document
         /\ Applied(p).operation = Copy(p).operation /\ Applied(p).sub = Copy(p).sub
         /\ Applied(p).session = Copy(p).session /\ Applied(p).created = Copy(p).created
         /\ Applied(p).seen = calls[p].answer.ver /\ Copy(p).sub # 0
         /\ Copy(p).sub \in DOMAIN subs
         /\ Copy(p).seen <= Applied(p).seen /\ Applied(p).seen <= subs[Copy(p).sub].ver
<1>1. calls[p].at \in Working /\ calls[p].at \in Answered /\ calls[p].at # "store"
  BY DEF Working, Answered
<1>2. /\ Copy(p) \in Document /\ AnswerIsSound(calls[p]) /\ calls[p].answer \in Answer
      /\ Copy(p) = calls[p].copy
  BY <1>1, AtWork
<1>3. /\ Applied(p) \in Document
      /\ Applied(p).operation = Copy(p).operation /\ Applied(p).sub = Copy(p).sub
      /\ Applied(p).session = Copy(p).session /\ Applied(p).created = Copy(p).created
      /\ Applied(p).seen = calls[p].answer.ver
  BY <1>2 DEF Applied, Document, Answer
<1>4. 0 \notin DOMAIN subs  BY SubsAreTyped DEF CheckoutInv
<1> QED  BY <1>1, <1>2, <1>3, <1>4 DEF AnswerIsSound

LEMMA ApplyNewKeeps ==
  ASSUME CheckoutInv, NEW p \in Procs, ApplyNew(p)
  PROVE  CheckoutInv'
<1>1. StripeSame /\ LedgerSame  BY SameQuiet DEF ApplyNew
<1>2. calls[p].at = "applyNew" /\ Update(p, Applied(p), "sync")  BY DEF ApplyNew, At
<1> DEFINE new == Applied(p)
<1>3. /\ calls[p].at \in Working /\ new \in Document
      /\ new.operation = Copy(p).operation /\ new.sub = Copy(p).sub
      /\ new.session = Copy(p).session /\ new.created = Copy(p).created
      /\ Copy(p).sub # 0 /\ Copy(p).seen <= new.seen /\ new.seen <= subs[Copy(p).sub].ver
  BY <1>2, AppliedIsSound
<1>4. Update(p, new, "sync")  BY <1>2
<1> HIDE DEF new
<1>5. ASSUME lease = p  PROVE Accepted
  <2>1. doc' = new /\ Copy(p) = doc  BY <1>3, <1>4, <1>5, AtWork DEF Update, Write, Fenced
  <2> QED  BY <1>1, <1>3, <2>1, SmallWrite DEF LedgerSame
<1> QED  BY <1>1, <1>3, <1>4, <1>5, UpdateKeeps

LEMMA RetrieveKeeps ==
  ASSUME CheckoutInv, NEW p \in Procs, Retrieve(p)
  PROVE  CheckoutInv'
<1> DEFINE i == Copy(p).sub
           answer == [sub |-> i, status |-> subs[i].status, ver |-> subs[i].ver]
           next == [calls[p] EXCEPT !.at = "renew", !.answer = answer]
<1>1. StripeSame /\ LedgerSame  BY SameQuiet DEF Retrieve
<1>2. calls[p].at = "sync" /\ "sync" \in Working /\ "renew" \in Working
      /\ "renew" \in Answered /\ "renew" \notin Creating /\ "renew" \notin Finding
  BY DEF Retrieve, At, Working, Answered, Creating, Finding
<1>3. /\ Copy(p) \in Document /\ Copy(p) = calls[p].copy /\ calls[p] \in Holder
      /\ Describes(Copy(p)) /\ EventIsKnown(calls[p])
      /\ (Copy(p).created /\ Copy(p).sub = 0) => Underway(Copy(p).session)
      /\ calls[p].ev \in sent \cup {NoEvent} /\ (lease = p => Copy(p) = doc)
  BY <1>2, AtWork
<1>4. CASE i = 0
  BY <1>1, <1>4, QuitKeeps DEF Retrieve
<1>5. CASE i # 0
  <2>1. i \in DOMAIN subs /\ i \in Nat
    BY <1>3, <1>5, SubsAreTyped DEF Describes, CheckoutInv, Document
  <2>2. subs[i].status \in Statuses /\ subs[i].ver \in Nat
    BY <2>1, SubsAreTyped DEF CheckoutInv
  <2>3. answer \in Answer  BY <2>1, <2>2 DEF Answer
  <2>4. answer.sub = i /\ answer.ver = subs[i].ver  OBVIOUS
  <2> HIDE DEF answer
  <2>5. next \in Holder  BY <1>2, <1>3, <2>3 DEF Holder
  <2>6. PICK c \in Holder : c = next  BY <2>5
  <2>7. c.at = "renew" /\ c.copy = Copy(p) /\ c.ev = calls[p].ev /\ c.answer = answer
    BY <1>3, <2>6 DEF Holder
  <2>8. calls' = [calls EXCEPT ![p] = c] /\ lease' = lease /\ doc' = doc
    BY <1>5, <2>6 DEF Retrieve, leaseVars, answer
  <2> HIDE DEF next, i
  <2>9. CopyIsSound(c) /\ EventIsKnown(c)
    BY <1>3, <2>7 DEF CopyIsSound, EventIsKnown
  <2>10. AnswerIsSound(c)
    <3>1. c.ev.type = "subscription" => c.ev.ver <= subs[c.ev.of].ver
      BY <1>3, <2>7 DEF CheckoutInv, EventsAreSound, NoEvent
    <3>2. i = Copy(p).sub /\ Copy(p).seen <= subs[i].ver  BY <1>3, <1>5 DEF i, Describes
    <3>3. subs[i].ver <= subs[i].ver  BY <2>2
    <3> QED  BY <2>1, <2>4, <2>7, <3>1, <3>2, <3>3 DEF AnswerIsSound
  <2>11. c \in Calls  BY <1>2, <1>3, <2>7, <2>9, <2>10 DEF Calls, CallIsSound
  <2>12. Moves(p, c)  BY <1>3, <2>7, <2>8 DEF Moves
  <2> QED  BY <1>1, <2>8, <2>11, <2>12, MoveKeeps
<1> QED  BY <1>4, <1>5

LEMMA RenewLeaseKeeps ==
  ASSUME CheckoutInv, NEW p \in Procs, RenewLease(p)
  PROVE  CheckoutInv'
<1> DEFINE next == [calls[p] EXCEPT !.at = "apply"]
<1>1. StripeSame /\ LedgerSame  BY SameQuiet DEF RenewLease
<1>2. calls[p].at = "renew" /\ "renew" \in Working /\ "apply" \in Working
      /\ "renew" \in Answered /\ "apply" \notin Creating /\ "apply" \notin Finding
  BY DEF RenewLease, At, Working, Answered, Creating, Finding
<1>3. /\ Copy(p) = calls[p].copy /\ calls[p] \in Holder /\ CopyIsSound(calls[p])
      /\ EventIsKnown(calls[p]) /\ AnswerIsSound(calls[p])
      /\ calls[p].ev \in sent \cup {NoEvent} /\ (lease = p => Copy(p) = doc)
  BY <1>2, AtWork DEF CopyIsSound
<1>4. CASE lease # p
  BY <1>1, <1>4, QuitKeeps DEF RenewLease, Renew, Fenced
<1>5. CASE lease = p
  <2>1. next \in Holder  BY <1>2, <1>3 DEF Holder
  <2>2. PICK c \in Holder : c = next  BY <2>1
  <2>3. /\ c.at = "apply" /\ c.copy = Copy(p) /\ c.ev = calls[p].ev
        /\ c.answer = calls[p].answer
    BY <1>3, <2>2 DEF Holder
  <2>4. calls' = [calls EXCEPT ![p] = c] /\ lease' = lease /\ doc' = doc
    BY <1>5, <2>2 DEF RenewLease, Renew, Fenced
  <2> HIDE DEF next
  <2>5. CopyIsSound(c) /\ EventIsKnown(c) /\ AnswerIsSound(c)
    BY <1>2, <1>3, <2>3 DEF CopyIsSound, EventIsKnown, AnswerIsSound
  <2>6. c \in Calls  BY <1>2, <1>3, <2>3, <2>5 DEF Calls, CallIsSound
  <2>7. Moves(p, c)  BY <1>3, <2>3, <2>4 DEF Moves
  <2> QED  BY <1>1, <2>4, <2>6, <2>7, MoveKeeps
<1> QED  BY <1>4, <1>5

\* The ledger entry and its effect in one write.
LEMMA ApplyKeeps ==
  ASSUME CheckoutInv, NEW p \in Procs, Apply(p)
  PROVE  CheckoutInv'
<1> DEFINE e == calls[p].ev
           new == Applied(p)
<1>1. StripeSame /\ ignored' = ignored /\ Finish(p)
  BY QuietIsSame DEF Apply, stripe
<1>2. calls[p].at = "apply" /\ "apply" \in Answered  BY DEF Apply, At, Answered
<1>3. /\ calls[p].at \in Working /\ new \in Document
      /\ new.operation = Copy(p).operation /\ new.sub = Copy(p).sub
      /\ new.session = Copy(p).session /\ new.created = Copy(p).created
      /\ new.seen = calls[p].answer.ver
      /\ Copy(p).sub # 0 /\ Copy(p).seen <= new.seen /\ new.seen <= subs[Copy(p).sub].ver
  BY <1>2, AppliedIsSound
<1>4. /\ e \in sent \cup {NoEvent} /\ EventIsKnown(calls[p]) /\ AnswerIsSound(calls[p])
      /\ Copy(p) = calls[p].copy /\ (lease = p => Copy(p) = doc)
  BY <1>2, <1>3, AtWork
<1>5. CASE ~(lease = p /\ e \notin recorded)
  BY <1>1, <1>5, QuitKeeps DEF Apply, Fenced, Quit, LedgerSame
<1>6. CASE lease = p /\ e \notin recorded
  <2>1. /\ doc' = new /\ Copy(p) = doc
        /\ recorded' = IF e = NoEvent THEN recorded ELSE recorded \cup {e}
    BY <1>4, <1>6 DEF Apply, Fenced
  <2>2. recorded' \subseteq sent /\ recorded' \ recorded \subseteq {e}
    BY <1>4, <2>1 DEF CheckoutInv, State
  <2>3. e.type = "subscription" => Known(e.of) /\ (e.of = doc.sub => e.ver <= new.seen)
    BY <1>2, <1>3, <1>4, <2>1 DEF EventIsKnown, AnswerIsSound
  <2> HIDE DEF new, e
  <2>4. Accepted
    BY <1>1, <1>3, <2>1, <2>2, <2>3, SmallWrite
  <2> QED  BY <1>1, <1>3, <1>6, <2>1, <2>2, <2>4, LastWriteKeeps
<1> QED  BY <1>5, <1>6

------------------------------------------------------------------------------
(* webhook *)

\* Before a call has the lease: it has an event that was sent.
LEMMA AtFinding ==
  ASSUME CheckoutInv, NEW p \in Procs, calls[p].at \in Finding
  PROVE  /\ calls[p] \in Calls /\ calls[p] \in Finder /\ calls[p].ev \in sent
         /\ calls[p].at = "claim" => EventIsKnown(calls[p])
         /\ calls[p].at \notin Working
<1>1. calls[p] # Idle  BY DEF Idle, Finding
<1>2. calls[p] \in Calls  BY <1>1 DEF CheckoutInv, CallsAreSound
<1>3. CallIsSound(calls[p])  BY <1>2 DEF Calls
<1>4. calls[p] \in Finder /\ calls[p].ev \in sent \cup {NoEvent}
  BY <1>3 DEF CallIsSound
<1>5. calls[p].ev \in Event /\ NoEvent \notin Event  BY <1>4 DEF Finder, Event, NoEvent
<1>6. calls[p].at \notin Working  BY DEF Finding, Working, Creating, Answered
<1> QED  BY <1>2, <1>3, <1>4, <1>5, <1>6 DEF CallIsSound

LEMMA FindingIsSound ==
  ASSUME CheckoutInv, NEW stage \in Finding, NEW e \in sent,
         stage = "claim" /\ e.type = "subscription" => Known(e.of)
  PROVE  [at |-> stage, ev |-> e] \in Calls
<1> DEFINE c == [at |-> stage, ev |-> e]
<1>1. c \in Finder /\ c.at = stage /\ c.ev = e  BY DEF Finder, CheckoutInv, State
<1>2. stage \notin Working  BY DEF Finding, Working, Creating, Answered
<1> HIDE DEF c
<1>3. stage = "claim" => EventIsKnown(c)  BY <1>1 DEF EventIsKnown
<1>4. stage \notin Creating \cup Answered  BY <1>2 DEF Working
<1>5. c \in Calls  BY <1>1, <1>2, <1>3, <1>4 DEF Calls, CallIsSound, Finding
<1> QED  BY <1>5 DEF c

LEMMA FindingKeeps ==
  ASSUME CheckoutInv, StripeSame, LedgerSame, NEW p \in Procs, NEW stage \in Finding,
         NEW e \in sent, calls' = [calls EXCEPT ![p] = [at |-> stage, ev |-> e]],
         lease' = lease, doc' = doc,
         stage = "claim" /\ e.type = "subscription" => Known(e.of)
  PROVE  CheckoutInv'
<1> DEFINE c == [at |-> stage, ev |-> e]
<1>1. c \in Calls  BY FindingIsSound
<1>2. c.at \notin Working /\ c.at # "subscribe"
  BY DEF Finding, Working, Creating, Answered
<1>3. calls' = [calls EXCEPT ![p] = c]  OBVIOUS
<1> HIDE DEF c
<1>4. Moves(p, c)  BY <1>2, <1>3 DEF Moves
<1> QED  BY <1>1, <1>4, MoveKeeps

LEMMA EventArrivesKeeps ==
  ASSUME CheckoutInv, NEW p \in Procs, NEW e \in sent, EventArrives(p, e)
  PROVE  CheckoutInv'
<1>1. StripeSame /\ LedgerSame
  BY QuietIsSame DEF EventArrives, stripe, ledger, LedgerSame
<1>2. "find" \in Finding  BY DEF Finding
<1> QED  BY <1>1, <1>2, FindingKeeps DEF EventArrives, leaseVars

LEMMA FindGoesOn ==
  ASSUME CheckoutInv, UNCHANGED quiet, NEW p \in Procs, calls[p].at \in Finding,
         NEW stage \in Finding, Goto(p, stage),
         stage = "claim" /\ calls[p].ev.type = "subscription" => Known(calls[p].ev.of)
  PROVE  CheckoutInv'
<1>1. StripeSame /\ LedgerSame  BY SameQuiet
<1>2. calls[p] \in Finder /\ calls[p].ev \in sent  BY AtFinding
<1>3. [calls[p] EXCEPT !.at = stage] = [at |-> stage, ev |-> calls[p].ev]
  BY <1>2 DEF Finder
<1>4. /\ calls' = [calls EXCEPT ![p] = [at |-> stage, ev |-> calls[p].ev]]
      /\ lease' = lease /\ doc' = doc
  BY <1>3 DEF Goto, leaseVars
<1> QED  BY <1>1, <1>2, <1>4, FindingKeeps

LEMMA FindCompanyKeeps ==
  ASSUME CheckoutInv, NEW p \in Procs, FindCompany(p)
  PROVE  CheckoutInv'
<1>1. UNCHANGED quiet /\ calls[p].at \in Finding
  BY DEF FindCompany, At, Finding
<1>2. \E stage \in {"claim", "ignore", "creating"} :
        /\ Goto(p, stage)
        /\ stage = "claim" => Matches(calls[p].ev)
  BY DEF FindCompany
<1>3. Matches(calls[p].ev) /\ calls[p].ev.type = "subscription" => Known(calls[p].ev.of)
  BY DEF Matches, IsCheckout, Known
<1>4. {"claim", "ignore", "creating"} \subseteq Finding  BY DEF Finding
<1> QED  BY <1>1, <1>2, <1>3, <1>4, FindGoesOn

LEMMA AwaitMappingKeeps ==
  ASSUME CheckoutInv, NEW p \in Procs, AwaitMapping(p)
  PROVE  CheckoutInv'
<1>1. UNCHANGED quiet /\ calls[p].at \in Finding /\ "ignore" \in Finding
  BY DEF AwaitMapping, At, Finding
<1>2. Drop(p) \/ Goto(p, "ignore")  BY DEF AwaitMapping
<1> QED  BY <1>1, <1>2, SameQuiet, QuitKeeps, FindGoesOn

\* An event without a company adds to the ledger what no document needs to show.
LEMMA IgnoreEventKeeps ==
  ASSUME CheckoutInv, NEW p \in Procs, IgnoreEvent(p)
  PROVE  CheckoutInv'
<1> DEFINE e == calls[p].ev
<1>1. calls[p].at \in Finding /\ "idle" \notin Working  /\ Idle.at = "idle"
  BY DEF IgnoreEvent, At, Finding, Working, Creating, Answered, Idle
<1>2. e \in sent  BY <1>1, AtFinding
<1>3. /\ doc' = doc /\ lease' = lease /\ calls' = [calls EXCEPT ![p] = Idle]
      /\ recorded' = recorded \cup {e}
      /\ ignored' = IF e \in recorded THEN ignored ELSE ignored \cup {e}
      /\ StripeSame /\ begun' = begun
  BY QuietIsSame DEF IgnoreEvent, Drop, leaseVars, stripe
<1> HIDE DEF e
<1>4. recorded' \ ignored' \subseteq recorded \ ignored  BY <1>3
<1>5. State'  BY <1>2, <1>3 DEF CheckoutInv, State, StripeSame
<1>6. StripeGrows  BY <1>3, SameGrows DEF CheckoutInv
<1>7. Describes(doc)' /\ LiveAreOurs' /\ AgedAreSound' /\ LedgerIsSound'
  BY <1>3, <1>4 DEF CheckoutInv, Describes, LiveAreOurs, AgedAreSound, LedgerIsSound,
     Known, Left, StripeSame
<1>8. Moves(p, Idle)  BY <1>1, <1>3 DEF Moves
<1>9. CallsAreSound'
  BY <1>3, <1>6, <1>8, StripeGoesOn, OthersHold DEF CheckoutInv, StripeSame
<1> QED  BY <1>3, <1>5, <1>7, <1>9, SameStripe DEF CheckoutInv

LEMMA ClaimForEventKeeps ==
  ASSUME CheckoutInv, NEW p \in Procs, ClaimForEvent(p)
  PROVE  CheckoutInv'
<1>1. calls[p].at \in Finding /\ calls[p].at = "claim"
  BY DEF ClaimForEvent, At, Finding
<1>2. calls[p].ev \in sent /\ (calls[p].ev.type = "subscription" => Known(calls[p].ev.of))
  BY <1>1, AtFinding DEF EventIsKnown
<1>3. StripeSame /\ LedgerSame  BY SameQuiet DEF ClaimForEvent
<1>4. Begin(p, Call("recheck", calls[p].ev)) \/ Drop(p)  BY DEF ClaimForEvent
<1> QED  BY <1>2, <1>3, <1>4, BeginKeeps, QuitKeeps

\* What is recorded because there is nothing to synchronize is about a checkout that
\* was left: the document may have moved on, but not back to it.
LEMMA HandleEventKeeps ==
  ASSUME CheckoutInv, NEW p \in Procs, HandleEvent(p)
  PROVE  CheckoutInv'
<1> DEFINE e == calls[p].ev
           c == Copy(p)
<1>1. /\ calls[p].at = "recheck" /\ "recheck" \in Working
      /\ {"setup", "sync"} \subseteq Working \ ({"recheck", "previous"} \cup Answered)
      /\ "sync" \notin Creating
  BY DEF HandleEvent, At, Working, Creating, Answered
<1>2. /\ EventIsKnown(calls[p]) /\ calls[p] \in Holder /\ Copy(p) = calls[p].copy
  BY <1>1, AtWork
<1>3. e \in sent /\ e # NoEvent
  <2>1. e \in sent  BY <1>1, <1>2 DEF EventIsKnown
  <2> QED  BY <2>1 DEF CheckoutInv, State, Event, NoEvent
<1>4. StripeSame  BY QuietIsSame DEF HandleEvent, stripe
<1>5. CASE Quit(p) /\ UNCHANGED ledger
  BY <1>4, <1>5, QuitKeeps DEF LedgerSame, ledger
<1>6. CASE Goto(p, IF c.sub = 0 THEN "setup" ELSE "sync") /\ UNCHANGED ledger
  <2>1. CASE c.sub = 0
    <3>1. IsNew([calls[p] EXCEPT !.at = "setup"])
      BY <1>2, <1>3, <2>1 DEF IsNew, Holder
    <3> QED  BY <1>1, <1>4, <1>6, <2>1, <3>1, GotoKeeps DEF LedgerSame, ledger
  <2>2. CASE c.sub # 0
    BY <1>1, <1>4, <1>6, <2>2, GotoKeeps DEF LedgerSame, ledger
  <2> QED  BY <2>1, <2>2
<1>7. CASE /\ e.type # "completed" /\ c.sub = 0
           /\ recorded' = recorded \cup {e} /\ ignored' = ignored /\ Quit(p)
  <2>1. e.type = "subscription"  BY <1>3, <1>7 DEF CheckoutInv, State, Event
  <2>2. Left(e.of) /\ e.of \in DOMAIN subs /\ e.of # 0
    BY <1>1, <1>2, <1>3, <1>7, <2>1, SubsAreTyped
    DEF EventIsKnown, CheckoutInv, EventsAreSound
  <2>3. e.of # doc.sub
    BY <2>2 DEF Left, CheckoutInv, Describes
  <2>4. /\ doc' = doc /\ lease' \in {lease, None} /\ calls' = [calls EXCEPT ![p] = Idle]
    BY <1>7 DEF Quit, Finish
  <2>5. Idle.at = "idle" /\ "idle" \notin Working  BY DEF Idle, Working, Creating, Answered
  <2> HIDE DEF e, c
  <2>6. State'  BY <1>3, <1>4, <1>7, <2>4, NoneAssumption DEF CheckoutInv, State, StripeSame
  <2>7. StripeGrows /\ begun' = begun
    BY <1>4, SameGrows DEF CheckoutInv, HandleEvent
  <2>8. Describes(doc)' /\ LiveAreOurs' /\ AgedAreSound'
    BY <1>4, <2>4, <2>7 DEF CheckoutInv, Describes, LiveAreOurs, AgedAreSound, StripeSame
  <2>9. LedgerIsSound'
    BY <1>4, <1>7, <2>2, <2>3, <2>4 DEF CheckoutInv, LedgerIsSound, Known, Left, StripeSame
  <2>10. Moves(p, Idle)  BY <2>4, <2>5 DEF Moves
  <2>11. CallsAreSound'
    BY <1>4, <2>4, <2>7, <2>10, StripeGoesOn, OthersHold DEF CheckoutInv, StripeSame
  <2> QED  BY <1>4, <2>6, <2>8, <2>9, <2>11, SameStripe DEF CheckoutInv
<1> QED  BY <1>5, <1>6, <1>7 DEF HandleEvent

------------------------------------------------------------------------------
(* Failures, time, Stripe, and the operator's command *)

LEMMA CallEndsKeeps ==
  ASSUME CheckoutInv, NEW p \in Procs, CallFails(p) \/ CallStops(p)
  PROVE  CheckoutInv'
<1>1. StripeSame /\ LedgerSame
  BY QuietIsSame DEF CallFails, CallStops, stripe, ledger, LedgerSame
<1>2. CASE CallFails(p)
  BY <1>1, <1>2, QuitKeeps DEF CallFails
<1>3. CASE CallStops(p)
  BY <1>1, <1>3, EndKeeps DEF CallStops, leaseVars
<1> QED  BY <1>2, <1>3

LEMMA LeaseExpiresKeeps ==
  ASSUME CheckoutInv, LeaseExpires
  PROVE  CheckoutInv'
<1>1. StripeSame /\ LedgerSame  BY SameQuiet DEF LeaseExpires
<1>2. doc' = doc /\ lease' = lease /\ calls' = calls  BY DEF LeaseExpires, Expire
<1>3. begun' = begun /\ aged' = aged  BY DEF LeaseExpires, quiet
<1>4. StripeGrows  BY <1>1, SameGrows DEF CheckoutInv
<1>5. State' /\ LiveAreOurs'
  BY <1>1, <1>2 DEF CheckoutInv, State, LiveAreOurs, StripeSame, LedgerSame
<1>6. CallsAreSound'  BY <1>2, <1>3, <1>4, NobodyMoves
<1> QED  BY <1>1, <1>2, <1>3, <1>4, <1>5, <1>6, SameStripe, StripeStep

\* The time in which Stripe knows a key passes only over what is on record.
LEMMA WindowPassesKeeps ==
  ASSUME CheckoutInv, NEW field \in {"session", "create"}, WindowPasses(field)
  PROVE  CheckoutInv'
<1> DEFINE o == doc.operation
<1>1. /\ doc' = doc /\ lease' = lease /\ calls' = calls /\ begun' = begun
      /\ UNCHANGED <<sessions, subs, keys, sent, recorded, ignored>>
      /\ aged' = aged \cup {<<field, o>>}
  BY DEF WindowPasses, leaseVars, stripe, ledger
<1>2. o \in Sessions /\ o <= begun
  BY CheckoutBounds DEF WindowPasses, CheckoutInv, State, Document, Sessions, Describes
<1>3. field = "create" => doc.created  BY DEF WindowPasses
<1>4. \A p \in Procs : calls[p].at # "subscribe"  BY DEF WindowPasses, At
<1>5. State'  BY <1>1, <1>2 DEF CheckoutInv, State
<1>6. SubsAreSound'  BY <1>1 DEF CheckoutInv, SubsAreSound
<1>7. AgedAreSound'
  BY <1>1, <1>2, <1>3 DEF CheckoutInv, AgedAreSound
<1>8. Describes(doc)' /\ LiveAreOurs' /\ EventsAreSound' /\ LedgerIsSound'
  BY <1>1 DEF CheckoutInv, Describes, LiveAreOurs, EventsAreSound, LedgerIsSound, Known, Left
<1>9. StripeGrows
  BY <1>1, SubsAreTyped DEF StripeGrows, CheckoutInv
<1>10. CallsAreSound'
  <2>1. Calls \subseteq Calls'
    BY <1>1, <1>9, StripeGoesOn, CallHolds DEF Calls, CheckoutInv
  <2> QED  BY <1>1, <1>4, <2>1 DEF CheckoutInv, CallsAreSound
<1> QED  BY <1>5, <1>6, <1>7, <1>8, <1>10 DEF CheckoutInv

LEMMA KeyForgottenKeeps ==
  ASSUME CheckoutInv, NEW s \in Sessions, KeyForgotten(s)
  PROVE  CheckoutInv'
<1>1. /\ doc' = doc /\ lease' = lease /\ calls' = calls /\ begun' = begun /\ aged' = aged
      /\ UNCHANGED <<sessions, subs, sent, recorded, ignored>>
      /\ keys' = [keys EXCEPT ![s] = 0] /\ <<"create", s>> \in aged
  BY DEF KeyForgotten, leaseVars, ledger
<1>2. \A t \in Sessions : keys'[t] = IF t = s THEN 0 ELSE keys[t]
  BY <1>1 DEF CheckoutInv, State
<1>3. State'  BY <1>1 DEF CheckoutInv, State
<1>4. SubsAreSound'
  BY <1>1, <1>2, SubsAreTyped DEF CheckoutInv, SubsAreSound
<1>5. LiveAreOurs' /\ EventsAreSound'
  BY <1>1 DEF CheckoutInv, LiveAreOurs, EventsAreSound
<1>6. StripeGrows
  BY <1>1, SubsAreTyped DEF StripeGrows, CheckoutInv
<1>7. CallsAreSound'  BY <1>1, <1>6, NobodyMoves
<1> QED  BY <1>1, <1>3, <1>4, <1>5, <1>6, <1>7, StripeStep DEF LedgerSame

LEMMA SessionEndsKeeps ==
  ASSUME CheckoutInv, NEW s \in Sessions, NEW status \in {"complete", "expired"},
         SessionEnds(s, status)
  PROVE  CheckoutInv'
<1> DEFINE done == [type |-> "completed", of |-> s, ver |-> 0]
<1>1. /\ doc' = doc /\ lease' = lease /\ calls' = calls /\ begun' = begun /\ aged' = aged
      /\ UNCHANGED <<keys, subs, recorded, ignored>>
      /\ sessions' = [sessions EXCEPT ![s] = status] /\ sessions[s] = "open"
      /\ sent \subseteq sent' /\ sent' \subseteq sent \cup {done}
  BY DEF SessionEnds, leaseVars, ledger
<1>2. done \in Event /\ done.type = "completed" /\ done.of = s
  BY CheckoutBounds DEF Event, Sessions
<1> HIDE DEF done
<1>3. \A t \in Sessions : sessions[t] = "complete" => sessions'[t] = "complete"
  BY <1>1 DEF CheckoutInv, State
<1>4. State'  BY <1>1, <1>2 DEF CheckoutInv, State
<1>5. SubsAreSound' /\ LiveAreOurs'
  BY <1>1, <1>3, SubsAreTyped DEF CheckoutInv, SubsAreSound, LiveAreOurs
<1>6. EventsAreSound'  BY <1>1, <1>2 DEF CheckoutInv, EventsAreSound
<1>7. StripeGrows
  BY <1>1, <1>3, SubsAreTyped DEF StripeGrows, CheckoutInv
<1>8. CallsAreSound'  BY <1>1, <1>7, NobodyMoves
<1> QED  BY <1>1, <1>4, <1>5, <1>6, <1>7, <1>8, StripeStep DEF LedgerSame

LEMMA SubscriptionChangesKeeps ==
  ASSUME CheckoutInv, NEW i \in DOMAIN subs, NEW status \in {"active", "canceled"},
         SubscriptionChanges(i, status)
  PROVE  CheckoutInv'
<1> DEFINE news == [type |-> "subscription", of |-> i, ver |-> subs[i].ver + 1]
           now == [subs[i] EXCEPT !.status = status, !.ver = @ + 1]
<1>1. /\ doc' = doc /\ lease' = lease /\ calls' = calls /\ begun' = begun /\ aged' = aged
      /\ UNCHANGED <<keys, sessions, recorded, ignored>>
      /\ ~Terminal(subs[i].status) /\ sent' = sent \cup {news}
      /\ subs' = [subs EXCEPT ![i].status = status, ![i].ver = @ + 1]
  BY DEF SubscriptionChanges, leaseVars, ledger
<1>2. /\ subs[i] \in Subscription /\ subs[i].ver \in Nat \ {0} /\ i \in Nat
      /\ DOMAIN subs = 1..Len(subs) /\ Len(subs) \in Nat /\ subs \in Seq(Subscription)
  BY SubsAreTyped DEF CheckoutInv, State
<1>3. /\ now \in Subscription /\ now.session = subs[i].session
      /\ now.ver = subs[i].ver + 1
  <2>1. subs[i].ver + 1 \in Nat \ {0} /\ status \in Statuses  BY <1>2 DEF Statuses
  <2> QED  BY <1>2, <2>1 DEF Subscription
<1>4. subs' = [subs EXCEPT ![i] = now]  BY <1>1, <1>2 DEF Subscription
<1>5. news \in Event /\ news.type = "subscription" /\ news.of = i
      /\ news.ver = subs[i].ver + 1
  BY <1>2 DEF Event
<1> HIDE DEF news, now
<1>6. /\ subs' \in Seq(Subscription) /\ Len(subs') = Len(subs)
      /\ DOMAIN subs' = DOMAIN subs
      /\ \A j \in DOMAIN subs : subs'[j] = IF j = i THEN now ELSE subs[j]
  BY <1>2, <1>3, <1>4
<1>7. \A j \in DOMAIN subs : /\ subs'[j].session = subs[j].session
                             /\ subs'[j].ver \in Nat /\ subs[j].ver <= subs'[j].ver
  BY <1>2, <1>3, <1>6, SubsAreTyped DEF CheckoutInv
<1>8. State'  BY <1>1, <1>5, <1>6 DEF CheckoutInv, State
<1>9. SubsAreSound'  BY <1>1, <1>6, <1>7 DEF CheckoutInv, SubsAreSound
<1>10. LiveAreOurs'
  <2> SUFFICES ASSUME NEW j \in DOMAIN subs, ~Terminal(subs'[j].status)
               PROVE  doc.sub = j \/ (doc.sub = 0 /\ doc.created
                                      /\ subs[j].session = doc.session)
    BY <1>1, <1>6, <1>7 DEF LiveAreOurs
  <2>1. ~Terminal(subs[j].status)  BY <1>1, <1>6
  <2> QED  BY <2>1 DEF CheckoutInv, LiveAreOurs
<1>11. EventsAreSound'
  <2> SUFFICES ASSUME NEW e \in sent'
               PROVE  /\ e.type = "subscription" =>
                           e.of \in DOMAIN subs /\ e.ver <= subs'[e.of].ver
                      /\ e.type = "completed" => e.of \in Sessions
    BY <1>6 DEF EventsAreSound
  <2>1. CASE e = news
    BY <1>2, <1>3, <1>5, <1>6, <2>1
  <2>2. CASE e \in sent
    <3>1. /\ e.type = "subscription" => e.of \in DOMAIN subs /\ e.ver <= subs[e.of].ver
          /\ e.type = "completed" => e.of \in Sessions
      BY <2>2 DEF CheckoutInv, EventsAreSound
    <3>2. e.ver \in Nat  BY <2>2 DEF CheckoutInv, State, Event
    <3>3. ASSUME e.type = "subscription"  PROVE e.ver <= subs'[e.of].ver
      <4>1. subs[e.of].ver \in Nat /\ subs'[e.of].ver \in Nat
            /\ subs[e.of].ver <= subs'[e.of].ver
        BY <1>7, <3>1, <3>3, SubsAreTyped DEF CheckoutInv
      <4> QED  BY <3>1, <3>2, <3>3, <4>1
    <3> QED  BY <3>1, <3>3
  <2> QED  BY <1>1, <2>1, <2>2
<1>12. StripeGrows
  BY <1>1, <1>2, <1>6, <1>7, SubsAreTyped DEF StripeGrows, CheckoutInv
<1>13. CallsAreSound'  BY <1>1, <1>12, NobodyMoves
<1> QED  BY <1>1, <1>8, <1>9, <1>10, <1>11, <1>12, <1>13, StripeStep DEF LedgerSame

\* With the application stopped and no subscription, nothing billed is forgotten.
LEMMA ResetKeeps ==
  ASSUME CheckoutInv, Confirmed, Untouched, Reset
  PROVE  CheckoutInv'
<1>1. /\ doc' = NoDoc /\ lease' = lease /\ calls' = calls /\ begun' = begun /\ aged' = aged
      /\ UNCHANGED <<keys, sessions, subs, sent, recorded, ignored>>
  BY DEF Reset, quiet, stripe, ledger, leaseVars
<1>2. doc.sub = 0 /\ ~doc.created /\ recorded \subseteq ignored  BY DEF Untouched
<1>3. \A i \in DOMAIN subs : Terminal(subs[i].status)
  BY <1>2, SubsAreTyped DEF CheckoutInv, LiveAreOurs
<1>4. /\ NoDoc \in Document /\ NoDoc.operation = 0 /\ NoDoc.session = 0 /\ NoDoc.sub = 0
      /\ ~NoDoc.created /\ NoDoc.seen = 0
  BY CheckoutBounds DEF NoDoc, Document, Statuses
<1>5. State'  BY <1>1, <1>4 DEF CheckoutInv, State
<1>6. Describes(doc)'
  <2>1. 0 <= begun /\ 0 \in 0..Len(subs)  BY SubsAreTyped DEF CheckoutInv
  <2> QED  BY <1>1, <1>4, <2>1 DEF Describes
<1>7. SubsAreSound' /\ EventsAreSound' /\ LiveAreOurs' /\ LedgerIsSound'
  BY <1>1, <1>2, <1>3 DEF CheckoutInv, SubsAreSound, EventsAreSound, LiveAreOurs, LedgerIsSound
<1>8. AgedAreSound'
  <2>1. 0 \notin Sessions  BY SubsAreTyped DEF CheckoutInv
  <2> QED  BY <1>1, <1>4, <2>1 DEF CheckoutInv, AgedAreSound
<1>9. CallsAreSound'
  <2>1. \A p \in Procs : calls[p] = Idle
    <3> SUFFICES ASSUME NEW p \in Procs, calls[p] # Idle  PROVE FALSE  OBVIOUS
    <3>1. calls[p] \in Finder \cup Holder  BY DEF CheckoutInv, CallsAreSound, Calls
    <3>2. calls[p].at \in Finding \cup Working  BY <3>1 DEF Finder, Holder
    <3>3. calls[p].at = "idle"  BY DEF Confirmed, At
    <3> QED  BY <3>2, <3>3 DEF Finding, Working, Creating, Answered
  <2>2. calls' \in [Procs -> {Idle} \cup Calls']
    BY <1>1, <2>1 DEF CheckoutInv, CallsAreSound
  <2>3. Idle.at \notin Working /\ Idle.at # "subscribe"
    BY DEF Idle, Working, Creating, Answered
  <2> QED  BY <1>1, <2>1, <2>2, <2>3 DEF CallsAreSound
<1> QED  BY <1>5, <1>6, <1>7, <1>8, <1>9 DEF CheckoutInv

------------------------------------------------------------------------------
(* The theorems *)

LEMMA InitIsSound == Init => CheckoutInv
<1> SUFFICES ASSUME Init  PROVE CheckoutInv  OBVIOUS
<1>1. /\ lease = None /\ calls = [p \in Procs |-> Idle] /\ doc = NoDoc /\ begun = 0
      /\ recorded = {} /\ ignored = {} /\ subs = <<>> /\ sent = {} /\ aged = {}
      /\ sessions = [s \in Sessions |-> "none"] /\ keys = [s \in Sessions |-> 0]
  BY DEF Init, LeaseInit
<1>2. /\ NoDoc \in Document /\ NoDoc.operation = 0 /\ NoDoc.session = 0 /\ NoDoc.sub = 0
      /\ ~NoDoc.created /\ NoDoc.seen = 0
  BY CheckoutBounds DEF NoDoc, Document, Statuses
<1>3. subs \in Seq(Subscription) /\ DOMAIN subs = {} /\ Len(subs) = 0  BY <1>1
<1>4. 0 \in 0..MaxSessions  BY CheckoutBounds
<1>5. State  BY <1>1, <1>2, <1>3, <1>4 DEF State
<1>6. Describes(doc)  BY <1>1, <1>2, <1>3 DEF Describes
<1>7. SubsAreSound  BY <1>1, <1>3 DEF SubsAreSound
<1>8. LiveAreOurs /\ EventsAreSound /\ LedgerIsSound /\ AgedAreSound
  BY <1>1, <1>3 DEF LiveAreOurs, EventsAreSound, LedgerIsSound, AgedAreSound
<1>9. CallsAreSound
  <2>1. Idle.at \notin Working /\ Idle.at # "subscribe"
    BY DEF Idle, Working, Creating, Answered
  <2> QED  BY <1>1, <2>1 DEF CallsAreSound
<1> QED  BY <1>5, <1>6, <1>7, <1>8, <1>9 DEF CheckoutInv

LEMMA StepKeeps ==
  ASSUME CheckoutInv, NEW p \in Procs, Step(p)
  PROVE  CheckoutInv'
<1>1. CASE \/ ForgetPrevious(p) \/ ReuseSession(p) \/ ResumeOperation(p) \/ NewOperation(p)
           \/ AttemptSession(p) \/ OpenSession(p) \/ StoreSession(p)
  BY <1>1, ForgetPreviousKeeps, ReuseSessionKeeps, ResumeOperationKeeps, NewOperationKeeps,
     AttemptSessionKeeps, OpenSessionKeeps, StoreSessionKeeps
<1>2. CASE \/ CheckSetup(p) \/ AttemptSubscription(p) \/ CreateSubscription(p)
           \/ StoreSubscription(p) \/ ApplyNew(p) \/ Retrieve(p) \/ RenewLease(p) \/ Apply(p)
  BY <1>2, CheckSetupKeeps, AttemptSubscriptionKeeps, CreateSubscriptionKeeps,
     StoreSubscriptionKeeps, ApplyNewKeeps, RetrieveKeeps, RenewLeaseKeeps, ApplyKeeps
<1>3. CASE \/ FindCompany(p) \/ AwaitMapping(p) \/ IgnoreEvent(p)
           \/ ClaimForEvent(p) \/ HandleEvent(p)
  BY <1>3, FindCompanyKeeps, AwaitMappingKeeps, IgnoreEventKeeps, ClaimForEventKeeps,
     HandleEventKeeps
<1> QED  BY <1>1, <1>2, <1>3 DEF Step

LEMMA NextKeeps ==
  ASSUME CheckoutInv, [Next]_vars
  PROVE  CheckoutInv'
<1>1. CASE UNCHANGED vars
  <2>1. /\ UNCHANGED <<lease, calls, doc, begun, aged, sessions, subs, keys, sent>>
        /\ LedgerSame
    BY <1>1 DEF vars, quiet, stripe, ledger, LedgerSame
  <2>2. StripeSame  BY <2>1, QuietIsSame
  <2>3. StripeGrows  BY <2>2, SameGrows DEF CheckoutInv
  <2>4. State' /\ LiveAreOurs'
    BY <2>1 DEF CheckoutInv, State, LiveAreOurs, LedgerSame
  <2>5. CallsAreSound'  BY <2>1, <2>3, NobodyMoves
  <2> QED  BY <2>1, <2>2, <2>3, <2>4, <2>5, SameStripe, StripeStep
<1>2. CASE \E p \in Procs :
             \/ CheckoutBegins(p) \/ ReconcileBegins(p) \/ Step(p)
             \/ CallFails(p) \/ CallStops(p)
             \/ \E e \in sent : EventArrives(p, e)
  BY <1>2, CheckoutBeginsKeeps, ReconcileBeginsKeeps, StepKeeps, CallEndsKeeps,
     EventArrivesKeeps
<1>3. CASE \E s \in Sessions :
             KeyForgotten(s) \/ \E status \in {"complete", "expired"} : SessionEnds(s, status)
  BY <1>3, KeyForgottenKeeps, SessionEndsKeeps
<1>4. CASE \E i \in DOMAIN subs, status \in {"active", "canceled"} :
             SubscriptionChanges(i, status)
  BY <1>4, SubscriptionChangesKeeps
<1>5. CASE \E field \in {"session", "create"} : WindowPasses(field)
  BY <1>5, WindowPassesKeeps
<1>6. CASE DetachUnused \/ RecoverBasic
  BY <1>6, ResetKeeps DEF DetachUnused, RecoverBasic, IsUnused, IsAbandoned
<1>7. CASE LeaseExpires
  BY <1>7, LeaseExpiresKeeps
<1> QED  BY <1>1, <1>2, <1>3, <1>4, <1>5, <1>6, <1>7 DEF Next

\* What a call knows when it acts stays true while others act: its copy, Stripe's
\* answers and the events it was given, with the lease or after it was lost.
THEOREM CheckoutIsSound == Spec => []CheckoutInv
  BY InitIsSound, NextKeeps, PTL DEF Spec

\* A company never has two subscriptions that Stripe would bill: the key of the
\* creation (payments.service.ts, completeCheckout and attempt) lets each session
\* make one, and a checkout is only begun anew when nothing billed is left behind.
THEOREM OneSubscriptionIsBilled == Spec => []OneLiveSubscription
<1>1. CheckoutInv => OneLiveSubscription
  <2> SUFFICES ASSUME CheckoutInv
               PROVE  Cardinality({i \in DOMAIN subs : ~Terminal(subs[i].status)}) <= 1
    BY DEF OneLiveSubscription
  <2> DEFINE live == {i \in DOMAIN subs : ~Terminal(subs[i].status)}
  <2>1. \A i, j \in live : i = j
    <3>1. ASSUME NEW i \in live  PROVE i \in DOMAIN subs /\ i # 0
          /\ (doc.sub = i \/ (doc.sub = 0 /\ subs[i].session = doc.session))
      BY SubsAreTyped DEF CheckoutInv, LiveAreOurs
    <3> QED  BY <3>1 DEF CheckoutInv, SubsAreSound
  <2>2. CASE live = {}
    <3>1. Cardinality(live) = 0  BY <2>2, FS_EmptySet
    <3> QED  BY <3>1
  <2>3. CASE live # {}
    <3>1. PICK i : i \in live  BY <2>3
    <3>2. live = {i}  BY <2>1, <3>1
    <3>3. Cardinality(live) = 1  BY <3>2, FS_Singleton
    <3> QED  BY <3>3
  <2> QED  BY <2>2, <2>3
<1> QED  BY <1>1, CheckoutIsSound, PTL

\* An event is in the ledger of processed events together with its effect
\* (applyCanonical's transaction), also when the call that records it has lost the
\* lease and finds nothing to synchronize.
THEOREM LedgerHasEffect == Spec => []RecordedWithEffect
<1>1. CheckoutInv => RecordedWithEffect
  BY DEF CheckoutInv, LedgerIsSound, RecordedWithEffect, State, Event, Document
<1> QED  BY <1>1, CheckoutIsSound, PTL

\* What is written under the lease starts from the document.
LEMMA UpdateIsNewer ==
  ASSUME CheckoutInv, NEW p \in Procs, NEW stage, NEW new, Update(p, new, stage),
         calls[p].at \in Working, new.seen >= Copy(p).seen
  PROVE  doc'.seen >= doc.seen
<1>1. doc.seen >= doc.seen  BY DEF CheckoutInv, State, Document
<1>2. CASE lease = p
  <2>1. doc' = new /\ Copy(p) = doc  BY <1>2, AtWork DEF Update, Write, Fenced
  <2> QED  BY <2>1
<1>3. CASE lease # p
  BY <1>1, <1>3 DEF Update, Write, Fenced, Quit
<1> QED  BY <1>2, <1>3

LEMMA AttemptIsNewer ==
  ASSUME CheckoutInv, NEW p \in Procs, NEW stage, NEW new, NEW made, NEW old,
         Attempt(p, made, old, new, stage),
         calls[p].at \in Working, new.seen >= Copy(p).seen
  PROVE  doc'.seen >= doc.seen
<1>1. doc \in Document /\ doc.seen >= doc.seen  BY DEF CheckoutInv, State, Document
<1>2. CASE ~made  BY <1>2, UpdateIsNewer DEF Attempt
<1>3. CASE made /\ old
  <2>1. doc' = doc \/ doc' = [doc EXCEPT !.issue = "reconciliation"]
    BY <1>3 DEF Attempt
  <2> QED  BY <1>1, <2>1 DEF Document
<1>4. CASE made /\ ~old  BY <1>1, <1>4 DEF Attempt, Goto
<1> QED  BY <1>2, <1>3, <1>4

LEMMA StepIsNewer ==
  ASSUME CheckoutInv, NEW p \in Procs, Step(p), ~ForgetPrevious(p)
  PROVE  doc'.seen >= doc.seen
<1>1. doc \in Document /\ doc.seen \in Nat /\ doc.seen >= doc.seen
  BY DEF CheckoutInv, State, Document
<1>2. calls[p].at \in Working =>
        Copy(p) \in Document /\ Copy(p).seen \in Nat /\ Copy(p).seen >= Copy(p).seen
  BY AtWork DEF Document
<1>3. CASE NewOperation(p)
  <2> DEFINE new == [Copy(p) EXCEPT !.operation = begun + 1, !.session = 0,
                                    !.opened = FALSE, !.created = FALSE]
  <2>1. calls[p].at \in Working  BY <1>3 DEF NewOperation, At, Working, Creating
  <2>2. new.seen = Copy(p).seen  BY <1>2, <2>1 DEF Document
  <2>3. Update(p, new, "opening")  BY <1>3 DEF NewOperation
  <2> HIDE DEF new
  <2> QED  BY <1>2, <2>1, <2>2, <2>3, UpdateIsNewer
<1>4. CASE AttemptSession(p)
  <2> DEFINE new == [Copy(p) EXCEPT !.opened = TRUE]
             old == <<"session", Copy(p).operation>> \in aged
  <2>1. calls[p].at \in Working  BY <1>4 DEF AttemptSession, At, Working, Creating
  <2>2. new.seen = Copy(p).seen  BY <1>2, <2>1 DEF Document
  <2>3. Attempt(p, Copy(p).opened, old, new, "open")  BY <1>4 DEF AttemptSession
  <2> HIDE DEF new, old
  <2> QED  BY <1>2, <2>1, <2>2, <2>3, AttemptIsNewer
<1>5. CASE AttemptSubscription(p)
  <2> DEFINE new == [Copy(p) EXCEPT !.created = TRUE]
             old == <<"create", Copy(p).operation>> \in aged
  <2>1. calls[p].at \in Working  BY <1>5 DEF AttemptSubscription, At, Working, Creating
  <2>2. new.seen = Copy(p).seen  BY <1>2, <2>1 DEF Document
  <2>3. Attempt(p, Copy(p).created, old, new, "subscribe")  BY <1>5 DEF AttemptSubscription
  <2> HIDE DEF new, old
  <2> QED  BY <1>2, <2>1, <2>2, <2>3, AttemptIsNewer
<1>6. CASE StoreSession(p)
  <2>1. calls[p].at \in Working  BY <1>6 DEF StoreSession, At, Working, Creating
  <2>2. doc' = doc \/ doc' = [doc EXCEPT !.session = Copy(p).operation]
    BY <1>6, <2>1, AtWork DEF StoreSession, Fenced
  <2> QED  BY <1>1, <2>2 DEF Document
<1>7. CASE StoreSubscription(p)
  <2> DEFINE new == [Copy(p) EXCEPT !.sub = calls[p].answer.sub]
  <2>1. calls[p].at \in Working  BY <1>7 DEF StoreSubscription, At, Working, Creating
  <2>2. new.seen = Copy(p).seen  BY <1>2, <2>1 DEF Document
  <2>3. Update(p, new, "applyNew")  BY <1>7 DEF StoreSubscription
  <2> HIDE DEF new
  <2> QED  BY <1>2, <2>1, <2>2, <2>3, UpdateIsNewer
<1>8. CASE ApplyNew(p) \/ Apply(p)
  <2>1. calls[p].at \in {"applyNew", "apply"}  BY <1>8 DEF ApplyNew, Apply, At
  <2>2. calls[p].at \in Working /\ Applied(p).seen >= Copy(p).seen
    <3>1. /\ calls[p].at \in Working /\ Applied(p) \in Document
          /\ Copy(p).seen <= Applied(p).seen
      BY <2>1, AppliedIsSound
    <3> QED  BY <1>2, <3>1 DEF Document
  <2>3. CASE ApplyNew(p)  BY <2>2, <2>3, UpdateIsNewer DEF ApplyNew
  <2>4. CASE Apply(p)
    <3>1. doc' = doc \/ (lease = p /\ doc' = Applied(p))  BY <2>4 DEF Apply, Fenced
    <3>2. lease = p => Copy(p) = doc  BY <2>2, AtWork
    <3> QED  BY <1>1, <2>2, <3>1, <3>2
  <2> QED  BY <1>8, <2>3, <2>4
<1>9. CASE \/ ReuseSession(p) \/ ResumeOperation(p) \/ OpenSession(p) \/ CheckSetup(p)
           \/ CreateSubscription(p) \/ Retrieve(p) \/ RenewLease(p) \/ FindCompany(p)
           \/ AwaitMapping(p) \/ IgnoreEvent(p) \/ ClaimForEvent(p) \/ HandleEvent(p)
  <2>1. doc' = doc
    BY <1>9 DEF ReuseSession, ResumeOperation, OpenSession, CheckSetup, RenewLease,
       CreateSubscription, Retrieve, FindCompany, AwaitMapping, IgnoreEvent,
       ClaimForEvent, HandleEvent, Goto, Quit, Drop, Renew, Begin
  <2> QED  BY <1>1, <2>1
<1> QED  BY <1>3, <1>4, <1>5, <1>6, <1>7, <1>8, <1>9 DEF Step

LEMMA NextIsNewer ==
  ASSUME CheckoutInv, [Next]_vars, doc'.sub = doc.sub
  PROVE  doc'.seen >= doc.seen
<1>1. doc \in Document /\ doc.seen >= doc.seen /\ Describes(doc)
  BY DEF CheckoutInv, State, Document
<1>2. CASE doc' = doc  BY <1>1, <1>2
<1>3. ASSUME NEW p \in Procs, ForgetPrevious(p)  PROVE doc' = doc
  <2>1. calls[p].at = "previous" /\ "previous" \in Working
    BY <1>3 DEF ForgetPrevious, At, Working
  <2>2. calls[p] \in Calls /\ Copy(p) = calls[p].copy  BY <2>1, AtWork
  <2>3. Copy(p).sub # 0  BY <2>1, <2>2 DEF Calls, CallIsSound
  <2>4. lease = p => Copy(p) = doc  BY <2>1, AtWork
  <2>5. \/ doc' = doc
        \/ lease = p /\ doc' = [Copy(p) EXCEPT !.operation = 0, !.session = 0,
             !.opened = FALSE, !.created = FALSE, !.sub = 0, !.seen = 0]
    BY <1>3 DEF ForgetPrevious, Update, Write, Quit, Fenced
  <2> QED  BY <1>1, <2>3, <2>4, <2>5 DEF Document
<1>4. ASSUME NEW p \in Procs, Step(p)  PROVE doc'.seen >= doc.seen
  BY <1>2, <1>3, <1>4, StepIsNewer
<1>5. ASSUME Reset, Untouched  PROVE doc'.seen >= doc.seen
  <2>1. doc'.seen = 0 /\ doc.seen = 0
    BY <1>1, <1>5 DEF Reset, Untouched, NoDoc, Describes
  <2> QED  BY <2>1
<1>6. CASE \E p \in Procs :
             \/ CheckoutBegins(p) \/ ReconcileBegins(p)
             \/ CallFails(p) \/ CallStops(p)
             \/ \E e \in sent : EventArrives(p, e)
  BY <1>2, <1>6 DEF CheckoutBegins, ReconcileBegins, CallFails, CallStops, Quit, Drop,
     EventArrives, Begin
<1>7. CASE \/ \E s \in Sessions :
                KeyForgotten(s) \/ \E status \in {"complete", "expired"} : SessionEnds(s, status)
           \/ \E i \in DOMAIN subs, status \in {"active", "canceled"} :
                SubscriptionChanges(i, status)
           \/ \E field \in {"session", "create"} : WindowPasses(field)
           \/ LeaseExpires
           \/ UNCHANGED vars
  BY <1>2, <1>7 DEF KeyForgotten, SessionEnds, SubscriptionChanges, WindowPasses,
     LeaseExpires, Expire, vars
<1>8. CASE DetachUnused \/ RecoverBasic
  BY <1>5, <1>8 DEF DetachUnused, RecoverBasic, IsUnused, IsAbandoned
<1> QED  BY <1>4, <1>6, <1>7, <1>8 DEF Next

\* A late answer never puts an older state of the subscription over a newer one: the
\* fenced update (applyCanonical) works on a copy that is the document.
THEOREM NothingOlderIsApplied == Spec => NeverOlder
<1>1. CheckoutInv /\ [Next]_vars => [doc'.sub = doc.sub => doc'.seen >= doc.seen]_vars
  BY NextIsNewer
<1> QED  BY <1>1, CheckoutIsSound, PTL DEF Spec, NeverOlder
==============================================================================
