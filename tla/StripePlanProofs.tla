-------------------------- MODULE StripePlanProofs --------------------------
(****************************************************************************)
(* A company that may store files never holds more than its plan and the    *)
(* plan that is pending allow, for any number of calls, requests,           *)
(* anniversaries and limits, also when the callback of a transaction runs   *)
(* again with a copy the undone run has changed.  So nothing is assumed of  *)
(* the copies: what keeps the document sound is that every write of a plan  *)
(* is checked in the transaction that makes it, or suspends the company.    *)
(****************************************************************************)
EXTENDS StripePlan, TLAPS

\* Stages of a call; in those that carry a request out one is pending.
Carrying == {"attempt", "act", "cancel", "released", "scheduled", "phases", "confirm"}
Stages == Carrying \cup {"request", "perform", "sync", "apply"}
CallRec == [at : Stages, target : Plans \cup {NoPlan}, copy : Document,
            read : [plan : Plans \cup {NoPlan}, paid : BOOLEAN]]

WellStaged(c) ==
  /\ c.at = "request" => c.target \in Plans
  /\ c.at \in Carrying => c.copy.pending # NoPlan
  /\ c.at = "apply" => c.read.plan \in Plans

\* A request that is not written down yet has an operation left for it; one whose
\* transaction was undone has used its own, and writes nothing more.
MayAsk(c, n) ==
  c.at = "request" => n < MaxRequests \/ (c.copy.pending = c.target /\ ~c.copy.confirmed)

CallsAreSound ==
  /\ calls \in [Procs -> {Idle} \cup CallRec]
  /\ \A p \in Procs : calls[p] # Idle => WellStaged(calls[p])
  /\ \A p \in Procs : calls[p] # Idle /\ lease = p => MayAsk(calls[p], asked)

DocumentFits == doc \in Document /\ stored \in Nat /\ ActivePlanFits /\ PendingFits

Counters ==
  /\ lease \in Procs \cup {None} /\ expired \in BOOLEAN
  /\ standing \in Standing /\ remote \in Remote /\ remote.to \in {NoPlan, "basic"}
  /\ stored \in 0..MaxStored /\ asked \in Operations /\ made \in Schedules
  /\ aged \subseteq Operations /\ renewals \in 0..MaxRenewals

PlanInv == CallsAreSound /\ DocumentFits /\ Counters

------------------------------------------------------------------------------
(* Facts about one call *)

LEMMA UnderWay ==
  ASSUME CallsAreSound, NEW p \in Procs, calls[p].at # "idle"
  PROVE  calls[p] \in CallRec /\ calls[p] # Idle /\ WellStaged(calls[p])
  BY DEF CallsAreSound, Idle

\* Whatever one call does, the calls stay sound if its own next record is, and if
\* only a call whose token matches has written.
LEMMA CallStep ==
  ASSUME CallsAreSound, NEW p \in Procs, NEW c \in {Idle} \cup CallRec,
         calls' = [calls EXCEPT ![p] = c], c # Idle => WellStaged(c),
         lease' = lease \/ lease' \notin Procs,
         asked' = asked \/ lease = p,
         c # Idle /\ lease = p => MayAsk(c, asked')
  PROVE  CallsAreSound'
<1>1. calls' \in [Procs -> {Idle} \cup CallRec]  BY DEF CallsAreSound
<1>2. \A q \in Procs : calls'[q] = IF q = p THEN c ELSE calls[q]  BY DEF CallsAreSound
<1>3. \A q \in Procs : calls'[q] # Idle => WellStaged(calls'[q])
  BY <1>2 DEF CallsAreSound
<1>4. ASSUME NEW q \in Procs, calls'[q] # Idle, lease' = q
      PROVE  MayAsk(calls'[q], asked')
  <2>1. lease = q  BY <1>4
  <2>2. CASE q = p  BY <1>2, <1>4, <2>1, <2>2
  <2>3. CASE q # p  BY <1>2, <1>4, <2>1, <2>3 DEF CallsAreSound
  <2> QED  BY <2>2, <2>3
<1> QED  BY <1>1, <1>3, <1>4 DEF CallsAreSound, WellStaged, MayAsk

LEMMA BeginIsSound ==
  ASSUME CallsAreSound, doc \in Document, NEW p \in Procs, NEW stage \in Stages \ Carrying,
         NEW target \in Plans \cup {NoPlan}, Begin(p, Call(stage, target)),
         stage # "apply", stage = "request" => target \in Plans /\ asked < MaxRequests,
         asked' = asked
  PROVE  CallsAreSound'
<1> DEFINE c == Call(stage, target)
<1>1. c \in CallRec /\ c.copy = doc /\ c.at = stage /\ c.target = target /\ c # Idle
  BY DEF Call, CallRec, NotRead, Idle
<1>2. WellStaged(c)  BY <1>1 DEF WellStaged
<1> HIDE DEF c
<1>3. calls' = [calls EXCEPT ![p] = c] /\ doc' = doc /\ lease' = p  BY DEF Begin, c
<1>4. calls' \in [Procs -> {Idle} \cup CallRec]  BY <1>1, <1>3 DEF CallsAreSound
<1>5. \A q \in Procs : calls'[q] = IF q = p THEN c ELSE calls[q]  BY <1>3 DEF CallsAreSound
<1>6. \A q \in Procs : calls'[q] # Idle => WellStaged(calls'[q])
  BY <1>2, <1>5 DEF CallsAreSound
<1>7. \A q \in Procs : lease' = q => q = p  BY <1>3
<1> QED  BY <1>1, <1>3, <1>4, <1>5, <1>6, <1>7 DEF CallsAreSound, WellStaged, MayAsk

LEMMA EndIsSound ==
  ASSUME CallsAreSound, NEW p \in Procs, calls' = [calls EXCEPT ![p] = Idle],
         lease' = lease \/ lease' \notin Procs, asked' = asked \/ lease = p
  PROVE  CallsAreSound'
  BY CallStep

LEMMA QuitIsSound ==
  ASSUME CallsAreSound, NEW p \in Procs, Quit(p), asked' = asked
  PROVE  CallsAreSound'
  BY EndIsSound, NoneAssumption DEF Quit, Finish

LEMMA FinishIsSound ==
  ASSUME CallsAreSound, NEW p \in Procs, Finish(p), asked' = asked
  PROVE  CallsAreSound'
  BY EndIsSound, NoneAssumption DEF Finish

LEMMA GotoIsSound ==
  ASSUME CallsAreSound, NEW p \in Procs, calls[p].at # "idle", NEW stage \in Stages,
         Goto(p, stage), asked' = asked, stage \notin {"request", "apply"},
         stage \in Carrying => Copy(p).pending # NoPlan
  PROVE  CallsAreSound'
<1> DEFINE c == [calls[p] EXCEPT !.at = stage]
<1>1. calls[p] \in CallRec /\ calls[p] # Idle /\ WellStaged(calls[p])  BY UnderWay
<1>2. c \in CallRec /\ c.at = stage /\ c.copy = calls[p].copy /\ c # Idle
  BY <1>1 DEF CallRec, Idle
<1>3. WellStaged(c)  BY <1>2 DEF WellStaged, Copy
<1>4. calls' = [calls EXCEPT ![p] = c] /\ lease' = lease
  BY DEF Goto, leaseVars
<1>5. MayAsk(c, asked')  BY <1>2 DEF MayAsk
<1> HIDE DEF c
<1> QED  BY <1>2, <1>3, <1>4, <1>5, CallStep

LEMMA WriteIsSound ==
  ASSUME CallsAreSound, NEW p \in Procs, calls[p].at # "idle", NEW stage \in Stages,
         NEW new, NEW mine \in Document, Write(p, new, mine, stage),
         asked' = asked \/ lease = p,
         stage \notin {"request", "apply"}, stage \in Carrying => mine.pending # NoPlan
  PROVE  CallsAreSound'
<1> DEFINE c == [[calls[p] EXCEPT !.copy = mine] EXCEPT !.at = stage]
<1>1. calls[p] \in CallRec /\ calls[p] # Idle  BY UnderWay
<1>2. c \in CallRec /\ c.at = stage /\ c.copy = mine /\ c # Idle  BY <1>1 DEF CallRec, Idle
<1>3. WellStaged(c)  BY <1>2 DEF WellStaged
<1>4. CASE lease = p
  <2>1. calls' = [calls EXCEPT ![p] = c] /\ lease' = lease
    BY <1>4 DEF Write, Fenced, leaseVars, CallsAreSound
  <2>2. MayAsk(c, asked')  BY <1>2 DEF MayAsk
  <2> HIDE DEF c
  <2> QED  BY <1>2, <1>3, <1>4, <2>1, <2>2, CallStep
<1>5. CASE lease # p
  <2>1. Quit(p) /\ asked' = asked  BY <1>5 DEF Write, Fenced
  <2> QED  BY <2>1, QuitIsSound
<1> QED  BY <1>4, <1>5

\* The run of a transaction that is undone changes the copy of its call alone.
LEMMA UndoneIsSound ==
  ASSUME CallsAreSound, NEW p \in Procs, calls[p].at # "idle", lease = p,
         NEW mine \in Document, calls' = [calls EXCEPT ![p].copy = mine],
         lease' = lease, calls[p].at \notin Carrying,
         calls[p].at = "request" => mine.pending = calls[p].target /\ ~mine.confirmed
  PROVE  CallsAreSound'
<1> DEFINE c == [calls[p] EXCEPT !.copy = mine]
<1>1. calls[p] \in CallRec /\ calls[p] # Idle /\ WellStaged(calls[p])  BY UnderWay
<1>2. /\ c \in CallRec /\ c.at = calls[p].at /\ c.copy = mine /\ c.target = calls[p].target
      /\ c.read = calls[p].read /\ c # Idle
  BY <1>1 DEF CallRec, Idle
<1>3. WellStaged(c) /\ MayAsk(c, asked')  BY <1>1, <1>2 DEF WellStaged, MayAsk
<1>4. calls' = [calls EXCEPT ![p] = c]  BY DEF CallsAreSound
<1> HIDE DEF c
<1> QED  BY <1>2, <1>3, <1>4, CallStep

------------------------------------------------------------------------------
(* Facts about the document *)

\* A write that leaves the plan and the pending plan, or replaces them by what fits
\* or the access by none, keeps the document fitting.
LEMMA FitsKept ==
  ASSUME DocumentFits, doc' \in Document, stored' = stored,
         \/ doc'.plan = doc.plan /\ standing'.access = standing.access
         \/ standing'.access = "active" => Fits(doc'.plan, stored),
         doc'.pending \in {doc.pending, NoPlan} \/ Fits(doc'.pending, stored)
  PROVE  DocumentFits'
  BY DEF DocumentFits, ActivePlanFits, PendingFits, Fits, Limited, Limit

LEMMA SameDocument ==
  ASSUME DocumentFits, doc' = doc, stored' = stored, standing'.access = standing.access
  PROVE  DocumentFits'
  BY DEF DocumentFits, ActivePlanFits, PendingFits, Fits, Limited, Limit

\* A fenced write of anything but the plan and the access.
LEMMA WriteKeepsFit ==
  ASSUME DocumentFits, NEW p \in Procs, NEW stage, NEW new \in Document, NEW mine,
         Write(p, new, mine, stage), stored' = stored, standing' = standing,
         new.plan = doc.plan, new.pending = doc.pending \/ Fits(new.pending, stored)
  PROVE  DocumentFits'
<1>1. CASE lease = p
  <2>1. doc' = new  BY <1>1 DEF Write, Fenced
  <2> QED  BY <2>1, FitsKept
<1>2. CASE lease # p
  BY <1>2, SameDocument DEF Write, Fenced, Quit
<1> QED  BY <1>1, <1>2

\* What no call but the one that asks for a plan changes.
LEMMA SameCounters ==
  ASSUME Counters, lease' \in {lease, None} \cup Procs, expired' \in BOOLEAN,
         standing' = standing, remote' = remote, stored' = stored, asked' = asked,
         made' = made, aged' = aged, renewals' = renewals
  PROVE  Counters'
  BY DEF Counters

LEMMA LeaseSteps ==
  ASSUME Counters, NEW p \in Procs, NEW stage, NEW new, NEW mine,
         Quit(p) \/ Goto(p, stage) \/ Write(p, new, mine, stage) \/ Finish(p)
  PROVE  lease' \in {lease, None} /\ expired' \in BOOLEAN
  BY DEF Counters, Quit, Finish, Goto, Write, leaseVars

------------------------------------------------------------------------------
(* The steps of a call *)

LEMMA RequestPlanKeeps ==
  ASSUME PlanInv, NEW p \in Procs, RequestPlan(p)
  PROVE  PlanInv'
<1> DEFINE target == calls[p].target
           new == Requested(p, doc)
           mine == Requested(p, Copy(p))
<1>1. calls[p] \in CallRec /\ calls[p] # Idle /\ WellStaged(calls[p])
      /\ calls[p].at = "request"
  BY UnderWay DEF RequestPlan, At, PlanInv
<1>2. target \in Plans /\ Copy(p) \in Document /\ doc \in Document
  BY <1>1 DEF WellStaged, CallRec, Copy, PlanInv, DocumentFits
<1>3. /\ standing' = standing /\ stored' = stored /\ aged' = aged /\ remote' = remote
      /\ made' = made /\ renewals' = renewals
  BY DEF RequestPlan, stripe
<1>4. CASE Refused(p)
  <2>1. Quit(p) /\ asked' = asked  BY <1>4 DEF RequestPlan
  <2>2. DocumentFits'  BY <1>3, <2>1, SameDocument DEF PlanInv, Quit
  <2>3. Counters'  BY <1>3, <2>1, SameCounters, LeaseSteps DEF PlanInv
  <2> QED  BY <2>1, <2>2, <2>3, QuitIsSound DEF PlanInv
<1>5. CASE ~Refused(p) /\ ~Anew(p)
  <2>1. Goto(p, "perform") /\ asked' = asked  BY <1>5 DEF RequestPlan
  <2>2. DocumentFits'  BY <1>3, <2>1, SameDocument DEF PlanInv, Goto
  <2>3. Counters'  BY <1>3, <2>1, SameCounters, LeaseSteps DEF PlanInv
  <2>4. CallsAreSound'  BY <1>1, <2>1, GotoIsSound DEF PlanInv, Stages, Carrying
  <2> QED  BY <2>2, <2>3, <2>4 DEF PlanInv
<1>6. CASE ~Refused(p) /\ Anew(p)
  <2>1. /\ Write(p, new, mine, "perform")
        /\ asked' = IF Fenced(p) THEN asked + 1 ELSE asked
    BY <1>6 DEF RequestPlan
  <2>2. Fits(target, stored)  BY <1>6 DEF Refused
  <2>3. CASE lease = p
    <3>1. asked < MaxRequests
      BY <1>1, <1>6, <2>3 DEF PlanInv, CallsAreSound, MayAsk, Anew, Copy
    <3>2. asked + 1 \in Operations /\ renewals + 1 \in 0..MaxRenewals + 1
      BY <3>1, PlanBounds DEF PlanInv, Counters, Operations
    <3>3. /\ new \in Document /\ new.plan = doc.plan /\ new.pending = target
          /\ mine \in Document /\ mine.pending = target
      BY <1>2, <3>2 DEF Document, Requested
    <3> HIDE DEF new, mine
    <3>4. DocumentFits'
      BY <1>1, <1>3, <2>1, <2>2, <3>3, WriteKeepsFit DEF PlanInv
    <3>5. CallsAreSound'
      BY <1>1, <1>2, <2>1, <2>3, <3>3, WriteIsSound DEF PlanInv, Stages, Carrying
    <3>6. lease' \in {lease, None} /\ expired' \in BOOLEAN
      BY <2>1, LeaseSteps DEF PlanInv
    <3>7. asked' \in Operations  BY <2>1, <2>3, <3>2 DEF Fenced
    <3>8. Counters'  BY <1>3, <3>6, <3>7 DEF PlanInv, Counters
    <3> QED  BY <3>4, <3>5, <3>8 DEF PlanInv
  <2>4. CASE lease # p
    <3>1. Quit(p) /\ asked' = asked  BY <2>1, <2>4 DEF Write, Fenced
    <3>2. DocumentFits'  BY <1>3, <3>1, SameDocument DEF PlanInv, Quit
    <3>3. Counters'  BY <1>3, <3>1, SameCounters, LeaseSteps DEF PlanInv
    <3> QED  BY <3>1, <3>2, <3>3, QuitIsSound DEF PlanInv
  <2> QED  BY <2>3, <2>4
<1> QED  BY <1>4, <1>5, <1>6

LEMMA RequestUndoneKeeps ==
  ASSUME PlanInv, NEW p \in Procs, RequestUndone(p)
  PROVE  PlanInv'
<1> DEFINE mine == Requested(p, Copy(p))
<1>1. calls[p] \in CallRec /\ calls[p] # Idle /\ WellStaged(calls[p])
      /\ calls[p].at = "request" /\ lease = p
  BY UnderWay DEF RequestUndone, At, Fenced, PlanInv
<1>2. calls[p].target \in Plans /\ Copy(p) \in Document  BY <1>1 DEF WellStaged, CallRec, Copy
<1>3. /\ doc' = doc /\ lease' = lease /\ expired' = expired /\ asked' = asked + 1
      /\ standing' = standing /\ stored' = stored /\ aged' = aged /\ remote' = remote
      /\ made' = made /\ renewals' = renewals
  BY DEF RequestUndone, stripe, leaseVars
<1>4. asked < MaxRequests
  BY <1>1 DEF RequestUndone, PlanInv, CallsAreSound, MayAsk, Anew, Copy
<1>5. asked + 1 \in Operations /\ renewals + 1 \in 0..MaxRenewals + 1
  BY <1>4, PlanBounds DEF PlanInv, Counters, Operations
<1>6. mine \in Document /\ mine.pending = calls[p].target /\ ~mine.confirmed
  BY <1>2, <1>5 DEF Document, Requested
<1>7. calls' = [calls EXCEPT ![p].copy = mine]
  BY DEF RequestUndone, Copy, PlanInv, CallsAreSound
<1> HIDE DEF mine
<1>8. CallsAreSound'
  BY <1>1, <1>3, <1>6, <1>7, UndoneIsSound DEF PlanInv, Carrying
<1>9. DocumentFits'  BY <1>3, SameDocument DEF PlanInv
<1>10. Counters'  BY <1>3, <1>5 DEF PlanInv, Counters
<1> QED  BY <1>8, <1>9, <1>10 DEF PlanInv

LEMMA PerformKeeps ==
  ASSUME PlanInv, NEW p \in Procs, Perform(p)
  PROVE  PlanInv'
<1> DEFINE c == Copy(p)
           idle == c.pending = NoPlan \/ c.confirmed \/ ~Active
           now == [c EXCEPT !.schedule = remote.schedule]
           new == [doc EXCEPT !.schedule = remote.schedule]
           late == c.pending = "basic" /\ remote.plan = "premium" /\ c.before <= renewals
           next == [calls[p] EXCEPT
               !.at = IF idle THEN "sync" ELSE "attempt",
               !.copy = IF idle THEN c ELSE now,
               !.read = IF idle THEN NotRead ELSE [Seen EXCEPT !.paid = FALSE],
               !.target = NoPlan]
<1>1. calls[p] \in CallRec /\ calls[p] # Idle /\ calls[p].at = "perform"
  BY UnderWay DEF Perform, At, PlanInv
<1>2. c \in Document /\ doc \in Document  BY <1>1 DEF CallRec, Copy, PlanInv, DocumentFits
<1>3. remote.schedule \in Schedules  BY DEF PlanInv, Counters, Remote
<1>4. /\ now \in Document /\ now.pending = c.pending
      /\ new \in Document /\ new.plan = doc.plan /\ new.pending = doc.pending
  BY <1>2, <1>3 DEF Document
<1>5. /\ stored' = stored /\ asked' = asked /\ aged' = aged /\ remote' = remote
      /\ made' = made /\ renewals' = renewals
  BY DEF Perform, stripe
<1>6. CASE ~idle /\ now # c /\ ~Fenced(p)
  <2>1. Quit(p) /\ standing' = standing  BY <1>6 DEF Perform
  <2>2. DocumentFits'  BY <1>5, <2>1, SameDocument DEF PlanInv, Quit
  <2>3. Counters'  BY <1>5, <2>1, SameCounters, LeaseSteps DEF PlanInv
  <2> QED  BY <1>5, <2>1, <2>2, <2>3, QuitIsSound DEF PlanInv
<1>7. CASE ~(~idle /\ now # c /\ ~Fenced(p)) /\ ~idle /\ late
  <2>1. /\ doc' = IF Fenced(p) THEN new ELSE doc
        /\ standing' = IF Fenced(p) THEN [standing EXCEPT !.issue = "reconciliation"]
                       ELSE standing
        /\ Finish(p)
    BY <1>7 DEF Perform
  <2> HIDE DEF now, new, late, idle, c
  <2>2. CallsAreSound'  BY <1>5, <2>1, FinishIsSound DEF PlanInv
  <2>3. standing' \in Standing /\ standing'.access = standing.access
    BY <2>1 DEF PlanInv, Counters, Standing
  <2>4. DocumentFits'  BY <1>4, <1>5, <2>1, <2>3, FitsKept, SameDocument DEF PlanInv
  <2>5. lease' \in {lease, None} /\ expired' \in BOOLEAN
    BY <2>1, LeaseSteps DEF PlanInv
  <2>6. Counters'  BY <1>5, <2>3, <2>5 DEF PlanInv, Counters
  <2> QED  BY <2>2, <2>4, <2>6 DEF PlanInv
<1>8. CASE ~(~idle /\ now # c /\ ~Fenced(p)) /\ ~(~idle /\ late)
  <2>1. /\ doc' = IF ~idle /\ Fenced(p) THEN new ELSE doc
        /\ calls' = [calls EXCEPT ![p] = next]
        /\ lease' = lease /\ expired' = expired /\ standing' = standing
    BY <1>8 DEF Perform, leaseVars
  <2>2. Seen.plan \in Plans /\ [Seen EXCEPT !.paid = FALSE]
          \in [plan : Plans \cup {NoPlan}, paid : BOOLEAN]
    BY DEF Seen, PlanInv, Counters, Remote, Plans
  <2>3. NotRead \in [plan : Plans \cup {NoPlan}, paid : BOOLEAN]  BY DEF NotRead
  <2>4. /\ next \in CallRec /\ next # Idle
        /\ next.at = IF idle THEN "sync" ELSE "attempt"
        /\ next.copy = IF idle THEN c ELSE now
    <3> HIDE DEF idle, now, c
    <3> QED  BY <1>1, <1>2, <1>4, <2>2, <2>3 DEF CallRec, Stages, Carrying, Idle
  <2>5. WellStaged(next)
    <3>1. ~idle => c.pending # NoPlan  OBVIOUS
    <3> HIDE DEF idle, now, new, c, next
    <3> QED  BY <1>4, <2>4, <3>1 DEF WellStaged, Carrying
  <2>6. MayAsk(next, asked')
    <3> HIDE DEF idle, now, new, c, next
    <3> QED  BY <2>4 DEF MayAsk
  <2> HIDE DEF next
  <2>7. CallsAreSound'  BY <1>5, <2>1, <2>4, <2>5, <2>6, CallStep DEF PlanInv
  <2> HIDE DEF idle, now, new, c
  <2>8. DocumentFits'  BY <1>4, <1>5, <2>1, FitsKept, SameDocument DEF PlanInv
  <2>9. Counters'  BY <1>5, <2>1, SameCounters DEF PlanInv, Counters
  <2> QED  BY <2>7, <2>8, <2>9 DEF PlanInv
<1> QED  BY <1>6, <1>7, <1>8

\* A write of what is neither the plan nor the request keeps everything.
LEMMA QuietWrite ==
  ASSUME PlanInv, NEW p \in Procs, calls[p].at # "idle",
         NEW stage \in Stages \ {"request", "apply"},
         NEW new \in Document, NEW mine \in Document, Write(p, new, mine, stage),
         standing' = standing, stored' = stored, asked' = asked, aged' \subseteq aged,
         remote' = remote, made' = made, renewals' = renewals,
         new.plan = doc.plan, new.pending = doc.pending,
         stage \in Carrying => mine.pending # NoPlan
  PROVE  PlanInv'
<1>1. CallsAreSound'  BY WriteIsSound DEF PlanInv
<1>2. DocumentFits'  BY WriteKeepsFit DEF PlanInv
<1>3. lease' \in {lease, None} /\ expired' \in BOOLEAN  BY LeaseSteps DEF PlanInv
<1>4. Counters'  BY <1>3 DEF PlanInv, Counters
<1> QED  BY <1>1, <1>2, <1>4 DEF PlanInv

\* A step that only moves the call, or ends it, and may leave a word in `standing`.
LEMMA QuietMove ==
  ASSUME PlanInv, NEW p \in Procs, calls[p].at # "idle", NEW stage \in Carrying,
         Quit(p) \/ (Goto(p, stage) /\ Copy(p).pending # NoPlan),
         standing' \in Standing, standing'.access = standing.access,
         remote' \in Remote, remote'.to \in {NoPlan, "basic"}, made' \in Schedules,
         stored' = stored, asked' = asked, aged' = aged, renewals' = renewals
  PROVE  PlanInv'
<1>1. CallsAreSound'
  <2>1. CASE Quit(p)  BY <2>1, QuitIsSound DEF PlanInv
  <2>2. CASE Goto(p, stage) /\ Copy(p).pending # NoPlan
    BY <2>2, GotoIsSound DEF PlanInv, Stages, Carrying
  <2> QED  BY <2>1, <2>2
<1>2. doc' = doc  BY DEF Quit, Goto
<1>3. DocumentFits'  BY <1>2, SameDocument DEF PlanInv
<1>4. lease' \in {lease, None} /\ expired' \in BOOLEAN  BY LeaseSteps DEF PlanInv
<1>5. Counters'  BY <1>4 DEF PlanInv, Counters
<1> QED  BY <1>1, <1>3, <1>5 DEF PlanInv

\* In a carrying stage the copy names a plan that is pending.
LEMMA CarriesRequest ==
  ASSUME PlanInv, NEW p \in Procs, calls[p].at \in Carrying
  PROVE  /\ calls[p].at # "idle" /\ Copy(p) \in Document /\ Copy(p).pending \in Plans
         /\ doc \in Document
         /\ calls[p].read.plan \in Plans \cup {NoPlan}
<1>1. calls[p].at # "idle"  BY DEF Carrying
<1>2. calls[p] \in CallRec /\ WellStaged(calls[p])  BY <1>1, UnderWay DEF PlanInv
<1>3. doc \in Document  BY DEF PlanInv, DocumentFits
<1> QED  BY <1>1, <1>2, <1>3 DEF CallRec, WellStaged, Copy, Document

LEMMA AttemptPlanKeeps ==
  ASSUME PlanInv, NEW p \in Procs, AttemptPlan(p)
  PROVE  PlanInv'
<1>1. calls[p].at \in Carrying  BY DEF AttemptPlan, At, Carrying
<1>2. /\ calls[p].at # "idle" /\ Copy(p) \in Document /\ Copy(p).pending \in Plans
      /\ doc \in Document
  BY <1>1, CarriesRequest
<1>3. Copy(p).pending # NoPlan  BY <1>2 DEF Plans, NoPlan
<1>4. /\ stored' = stored /\ asked' = asked /\ remote' = remote
      /\ made' = made /\ renewals' = renewals
  BY DEF AttemptPlan, stripe
<1>5. remote' \in Remote /\ remote'.to \in {NoPlan, "basic"} /\ made' \in Schedules
      /\ standing \in Standing
  BY <1>4 DEF PlanInv, Counters
<1>6. CASE Copy(p).attempted /\ Copy(p).operation \in aged
  <2>1. /\ standing' = IF Fenced(p) THEN [standing EXCEPT !.issue = "reconciliation"]
                       ELSE standing
        /\ Quit(p) /\ aged' = aged
    BY <1>6 DEF AttemptPlan
  <2>2. standing' \in Standing /\ standing'.access = standing.access
    BY <1>5, <2>1 DEF Standing
  <2> QED  BY <1>1, <1>2, <1>4, <1>5, <2>1, <2>2, QuietMove
<1>7. CASE ~(Copy(p).attempted /\ Copy(p).operation \in aged) /\ Copy(p).attempted
  <2>1. Goto(p, "act") /\ standing' = standing /\ aged' = aged  BY <1>7 DEF AttemptPlan
  <2>2. "act" \in Carrying  BY DEF Carrying
  <2> QED  BY <1>2, <1>3, <1>4, <1>5, <2>1, <2>2, QuietMove
<1>8. CASE ~Copy(p).attempted
  <2> DEFINE new == [doc EXCEPT !.attempted = TRUE]
             mine == [Copy(p) EXCEPT !.attempted = TRUE]
  <2>1. /\ Write(p, new, mine, "act") /\ standing' = standing
        /\ aged' = IF Fenced(p) THEN aged \ {doc.operation} ELSE aged
    BY <1>8 DEF AttemptPlan
  <2>2. /\ new \in Document /\ new.plan = doc.plan /\ new.pending = doc.pending
        /\ mine \in Document /\ mine.pending # NoPlan
    BY <1>2, <1>3 DEF Document
  <2>3. aged' \subseteq aged  BY <2>1
  <2> HIDE DEF new, mine
  <2> QED  BY <1>2, <1>4, <2>1, <2>2, <2>3, QuietWrite DEF Stages, Carrying
<1> QED  BY <1>6, <1>7, <1>8

\* A request to Stripe: carried out now or before, or refused.
LEMMA RequestKeeps ==
  ASSUME PlanInv, NEW p \in Procs, calls[p].at \in Carrying, NEW name, NEW possible,
         NEW effect, NEW next \in Carrying, Request(p, name, possible, effect, next),
         possible => effect \in Remote /\ effect.to \in {NoPlan, "basic"},
         standing' = standing, stored' = stored, asked' = asked, aged' = aged,
         renewals' = renewals, made' \in Schedules
  PROVE  PlanInv'
<1>1. calls[p].at # "idle" /\ Copy(p).pending # NoPlan
  BY CarriesRequest DEF Plans, NoPlan
<1>2. remote \in Remote /\ remote.to \in {NoPlan, "basic"} /\ standing \in Standing
  BY DEF PlanInv, Counters
<1>3. remote' \in Remote /\ remote'.to \in {NoPlan, "basic"}  BY <1>2 DEF Request
<1>4. Quit(p) \/ Goto(p, next)  BY DEF Request
<1> QED  BY <1>1, <1>2, <1>3, <1>4, QuietMove

LEMMA RemoteEffects ==
  ASSUME PlanInv
  PROVE  /\ NoSchedule \in Remote /\ NoSchedule.to = NoPlan
         /\ [NoSchedule EXCEPT !.status = "canceled"] \in Remote
         /\ [NoSchedule EXCEPT !.status = "canceled"].to = NoPlan
         /\ [remote EXCEPT !.to = "basic"] \in Remote
         /\ [remote EXCEPT !.to = "basic"].to = "basic"
         /\ \A s \in Schedules : [remote EXCEPT !.schedule = s] \in Remote
                                 /\ [remote EXCEPT !.schedule = s].to = remote.to
         /\ \A plan \in Plans \ {"free"} : [remote EXCEPT !.plan = plan] \in Remote
                                         /\ [remote EXCEPT !.plan = plan].to = remote.to
         /\ remote \in Remote /\ remote.to \in {NoPlan, "basic"} /\ made \in Schedules
<1>1. remote \in Remote /\ remote.to \in {NoPlan, "basic"} /\ made \in Schedules
  BY DEF PlanInv, Counters
<1>2. 0 \in Schedules  BY PlanBounds DEF Schedules
<1>3. NoSchedule \in Remote /\ NoSchedule.to = NoPlan
  BY <1>1, <1>2 DEF NoSchedule, Remote
<1>4. /\ [NoSchedule EXCEPT !.status = "canceled"] \in Remote
      /\ [NoSchedule EXCEPT !.status = "canceled"].to = NoPlan
  BY <1>3 DEF Remote
<1> QED  BY <1>1, <1>3, <1>4 DEF Remote, Plans

LEMMA CarryingKeeps ==
  ASSUME PlanInv, NEW p \in Procs,
         \/ ReleaseSchedule(p) \/ CancelSubscription(p) \/ CreateSchedule(p)
         \/ SchedulePhases(p) \/ UpdateItems(p)
  PROVE  PlanInv'
<1>1. /\ standing' = standing /\ stored' = stored /\ asked' = asked /\ aged' = aged
      /\ renewals' = renewals
  BY DEF ReleaseSchedule, CancelSubscription, CreateSchedule, SchedulePhases, UpdateItems
<1>2. calls[p].at \in Carrying
  BY DEF ReleaseSchedule, CancelSubscription, CreateSchedule, SchedulePhases, UpdateItems,
         At, Carrying
<1>3. Copy(p).pending \in Plans /\ Copy(p).pending # NoPlan /\ calls[p].at # "idle"
  BY <1>2, CarriesRequest DEF Plans, NoPlan
<1>5. "cancel" \in Carrying /\ "released" \in Carrying /\ "confirm" \in Carrying
      /\ "scheduled" \in Carrying /\ "phases" \in Carrying
  BY DEF Carrying
<1>6. CASE ReleaseSchedule(p)
  <2> DEFINE next == IF Leaves(p) THEN "cancel" ELSE "released"
  <2>1. Request(p, "release", remote.schedule = Copy(p).schedule, NoSchedule, next)
        /\ made' = made /\ next \in Carrying
    BY <1>5, <1>6 DEF ReleaseSchedule
  <2> HIDE DEF next
  <2> QED  BY <1>1, <1>2, <2>1, RemoteEffects, RequestKeeps
<1>7. CASE CancelSubscription(p)
  <2>1. Request(p, "cancel", Active, [NoSchedule EXCEPT !.status = "canceled"], "confirm")
        /\ made' = made
    BY <1>7 DEF CancelSubscription
  <2> QED  BY <1>1, <1>2, <1>5, <2>1, RemoteEffects, RequestKeeps
<1>8. CASE CreateSchedule(p)
  <2>1. CASE Copy(p).schedule # 0
    <3>1. Goto(p, "phases") /\ remote' = remote /\ made' = made
      BY <1>8, <2>1 DEF CreateSchedule
    <3>2. standing' \in Standing /\ standing'.access = standing.access
      BY <1>1 DEF PlanInv, Counters
    <3> QED  BY <1>1, <1>3, <1>5, <3>1, <3>2, RemoteEffects, QuietMove
  <2>2. CASE Copy(p).schedule = 0
    <3> DEFINE possible == Active /\ remote.schedule = 0 /\ made < MaxRequests
               effect == [remote EXCEPT !.schedule = made + 1]
    <3>1. /\ Request(p, "schedule", possible, effect, "scheduled")
          /\ made' = IF done' # done THEN made + 1 ELSE made
      BY <1>8, <2>2 DEF CreateSchedule
    <3>2. made \in Schedules  BY RemoteEffects
    <3>3. made < MaxRequests => made + 1 \in Schedules
      BY <3>2, PlanBounds DEF Schedules
    <3>4. possible => effect \in Remote /\ effect.to \in {NoPlan, "basic"}
      BY <3>3, RemoteEffects
    <3>5. done' # done => made < MaxRequests  BY <3>1 DEF Request
    <3>6. made' \in Schedules  BY <3>1, <3>2, <3>3, <3>5
    <3> HIDE DEF possible, effect
    <3> QED  BY <1>1, <1>2, <1>5, <3>1, <3>4, <3>6, RequestKeeps
  <2> QED  BY <2>1, <2>2
<1>9. CASE SchedulePhases(p)
  <2>1. Request(p, "phases", remote.schedule = Copy(p).schedule /\ Active,
                [remote EXCEPT !.to = "basic"], "confirm") /\ made' = made
    BY <1>9 DEF SchedulePhases
  <2> QED  BY <1>1, <1>2, <1>5, <2>1, RemoteEffects, RequestKeeps
<1>10. CASE UpdateItems(p)
  <2> DEFINE effect == IF Stays(p) THEN remote ELSE [remote EXCEPT !.plan = Copy(p).pending]
  <2>1. Request(p, "items", Active, effect, "confirm") /\ made' = made /\ ~Leaves(p)
    BY <1>10 DEF UpdateItems
  <2>2. Copy(p).pending \in Plans \ {"free"}  BY <1>3, <2>1 DEF Leaves
  <2>3. effect \in Remote /\ effect.to \in {NoPlan, "basic"}  BY <2>2, RemoteEffects
  <2> HIDE DEF effect
  <2> QED  BY <1>1, <1>2, <1>5, <2>1, <2>3, RemoteEffects, RequestKeeps
<1> QED  BY <1>6, <1>7, <1>8, <1>9, <1>10

LEMMA RecordingKeeps ==
  ASSUME PlanInv, NEW p \in Procs, ForgetSchedule(p) \/ StoreSchedule(p) \/ Confirm(p)
  PROVE  PlanInv'
<1>1. /\ standing' = standing /\ stored' = stored /\ asked' = asked /\ aged' = aged
      /\ remote' = remote /\ made' = made /\ renewals' = renewals
  BY DEF ForgetSchedule, StoreSchedule, Confirm, quiet, stripe
<1>2. calls[p].at \in Carrying  BY DEF ForgetSchedule, StoreSchedule, Confirm, At, Carrying
<1>3. /\ calls[p].at # "idle" /\ Copy(p) \in Document /\ Copy(p).pending \in Plans
      /\ Copy(p).pending # NoPlan /\ doc \in Document
  BY <1>2, CarriesRequest DEF Plans, NoPlan
<1>4. 0 \in Schedules /\ made \in Schedules
  BY PlanBounds DEF Schedules, PlanInv, Counters
<1>5. CASE ForgetSchedule(p)
  <2> DEFINE new == [doc EXCEPT !.schedule = 0]
             mine == [Copy(p) EXCEPT !.schedule = 0]
  <2>1. Write(p, new, mine, "act")  BY <1>5 DEF ForgetSchedule
  <2>2. /\ new \in Document /\ new.plan = doc.plan /\ new.pending = doc.pending
        /\ mine \in Document /\ mine.pending # NoPlan
    BY <1>3, <1>4 DEF Document
  <2> HIDE DEF new, mine
  <2> QED  BY <1>1, <1>3, <2>1, <2>2, QuietWrite DEF Stages, Carrying
<1>6. CASE StoreSchedule(p)
  <2> DEFINE new == [doc EXCEPT !.schedule = made]
             mine == [Copy(p) EXCEPT !.schedule = made]
  <2>1. Write(p, new, mine, "phases")  BY <1>6 DEF StoreSchedule
  <2>2. /\ new \in Document /\ new.plan = doc.plan /\ new.pending = doc.pending
        /\ mine \in Document /\ mine.pending # NoPlan
    BY <1>3, <1>4 DEF Document
  <2> HIDE DEF new, mine
  <2> QED  BY <1>1, <1>3, <2>1, <2>2, QuietWrite DEF Stages, Carrying
<1>7. CASE Confirm(p)
  <2> DEFINE new == [doc EXCEPT !.confirmed = TRUE,
                       !.schedule = IF Leaves(p) THEN 0 ELSE @]
             mine == [Copy(p) EXCEPT !.confirmed = TRUE,
                       !.schedule = IF Leaves(p) THEN 0 ELSE @]
  <2>1. Write(p, new, mine, "sync")  BY <1>7 DEF Confirm
  <2>2. /\ new \in Document /\ new.plan = doc.plan /\ new.pending = doc.pending
        /\ mine \in Document /\ mine.pending # NoPlan
    BY <1>3, <1>4 DEF Document
  <2> HIDE DEF new, mine
  <2> QED  BY <1>1, <1>3, <2>1, <2>2, QuietWrite DEF Stages, Carrying
<1> QED  BY <1>5, <1>6, <1>7

LEMMA RetrieveKeeps ==
  ASSUME PlanInv, NEW p \in Procs, Retrieve(p)
  PROVE  PlanInv'
<1> DEFINE gone == Copy(p).schedule # 0 /\ remote.schedule = 0
           Left(d) == [d EXCEPT !.schedule = IF gone THEN 0 ELSE @]
           next == [calls[p] EXCEPT !.at = "apply", !.read = Seen, !.copy = Left(Copy(p))]
<1>1. calls[p] \in CallRec /\ calls[p] # Idle /\ calls[p].at = "sync"
  BY UnderWay DEF Retrieve, At, PlanInv
<1>2. /\ standing' = standing /\ stored' = stored /\ asked' = asked /\ aged' = aged
      /\ remote' = remote /\ made' = made /\ renewals' = renewals
  BY DEF Retrieve, quiet, stripe
<1>3. Copy(p) \in Document /\ doc \in Document
  BY <1>1 DEF CallRec, Copy, PlanInv, DocumentFits
<1>4. /\ Left(doc) \in Document /\ Left(doc).plan = doc.plan
      /\ Left(doc).pending = doc.pending /\ Left(Copy(p)) \in Document
  <2> HIDE DEF gone
  <2> QED  BY <1>3, PlanBounds DEF Document, Schedules
<1>5. CASE Fenced(p) \/ ~gone
  <2>1. /\ doc' = Left(doc) /\ calls' = [calls EXCEPT ![p] = next]
        /\ lease' = lease /\ expired' = expired
    <3>1. /\ calls' = [calls EXCEPT ![p].at = "apply", ![p].read = Seen, ![p].copy = Left(@)]
          /\ doc' = Left(doc) /\ lease' = lease /\ expired' = expired
      BY <1>5 DEF Retrieve, leaseVars
    <3> HIDE DEF gone
    <3> QED  BY <1>1, <3>1 DEF PlanInv, CallsAreSound, Copy
  <2>2. Seen \in [plan : Plans, paid : BOOLEAN]
    BY DEF Seen, PlanInv, Counters, Remote, Plans
  <2> HIDE DEF gone, Left
  <2>3. next \in CallRec /\ next.at = "apply" /\ next.read = Seen /\ next # Idle
    BY <1>1, <1>4, <2>2 DEF CallRec, Stages, Idle
  <2> HIDE DEF next
  <2>4. WellStaged(next) /\ MayAsk(next, asked')
    BY <2>2, <2>3 DEF WellStaged, MayAsk, Carrying
  <2>5. CallsAreSound'  BY <1>2, <2>1, <2>3, <2>4, CallStep DEF PlanInv
  <2>6. DocumentFits'  BY <1>2, <1>4, <2>1, FitsKept DEF PlanInv
  <2>7. Counters'  BY <1>2, <2>1, SameCounters DEF PlanInv, Counters
  <2> QED  BY <2>5, <2>6, <2>7 DEF PlanInv
<1>6. CASE ~(Fenced(p) \/ ~gone)
  <2>1. Quit(p)  BY <1>6 DEF Retrieve
  <2>2. DocumentFits'  BY <1>2, <2>1, SameDocument DEF PlanInv, Quit
  <2>3. Counters'  BY <1>2, <2>1, SameCounters, LeaseSteps DEF PlanInv
  <2> QED  BY <1>2, <2>1, <2>2, <2>3, QuitIsSound DEF PlanInv
<1> QED  BY <1>5, <1>6

\* What applyCanonical makes of a document or a copy: the plan retrieved if it is
\* granted, else that of the copy; a request is kept or cleared.
LEMMA CanonicalIs ==
  ASSUME PlanInv, NEW p \in Procs, calls[p].at = "apply", NEW d \in Document
  PROVE  /\ Canonical(p, d) \in Document
         /\ Canonical(p, d).pending \in {d.pending, NoPlan}
         /\ Granted(calls[p].read, stored) => Canonical(p, d).plan = calls[p].read.plan
<1> DEFINE r == calls[p].read
           new == Canonical(p, d)
           kept == IF Granted(r, stored) THEN r.plan ELSE Copy(p).plan
           now == [d EXCEPT !.plan = kept]
<1>1. calls[p] \in CallRec /\ WellStaged(calls[p])  BY UnderWay DEF PlanInv
<1>2. Copy(p).plan \in Plans /\ r.plan \in Plans
  BY <1>1 DEF CallRec, Copy, WellStaged, Document
<1>3. kept \in Plans /\ (Granted(r, stored) => kept = r.plan)  BY <1>2
<1>4. new = IF kept # Copy(p).pending THEN now
            ELSE [now EXCEPT !.pending = NoPlan, !.before = 0, !.operation = 0,
                             !.attempted = FALSE, !.confirmed = FALSE]
  BY DEF Canonical
<1> HIDE DEF kept, new
<1>5. now \in Document /\ now.plan = kept /\ now.pending = d.pending
  BY <1>3 DEF Document
<1>6. 0 \in Operations /\ 0 \in 0..MaxRenewals + 1  BY PlanBounds DEF Operations
<1> HIDE DEF now
<1>7. CASE new = now  BY <1>3, <1>5, <1>7 DEF new
<1>8. CASE new = [now EXCEPT !.pending = NoPlan, !.before = 0, !.operation = 0,
                             !.attempted = FALSE, !.confirmed = FALSE]
  <2>1. new \in Document /\ new.pending = NoPlan /\ new.plan = now.plan
    BY <1>5, <1>6, <1>8 DEF Document
  <2> QED  BY <1>3, <1>5, <2>1 DEF new
<1> QED  BY <1>4, <1>7, <1>8

\* The heart: a plan retrieved earlier is given only if it fits what is stored now,
\* and where another one stays, of whatever run it is, the company is suspended.
LEMMA ApplyKeeps ==
  ASSUME PlanInv, NEW p \in Procs, Apply(p)
  PROVE  PlanInv'
<1> DEFINE r == calls[p].read
           new == Canonical(p, doc)
<1>1. calls[p].at = "apply" /\ doc \in Document
  BY DEF Apply, At, PlanInv, DocumentFits
<1>2. /\ doc' = IF Fenced(p) THEN new ELSE doc
      /\ standing' = IF Fenced(p) THEN StandingAfter(r, stored) ELSE standing
      /\ Finish(p)
      /\ stored' = stored /\ asked' = asked /\ aged' = aged /\ remote' = remote
      /\ made' = made /\ renewals' = renewals
  BY DEF Apply, stripe
<1>3. /\ new \in Document /\ new.pending \in {doc.pending, NoPlan}
      /\ Granted(r, stored) => new.plan = r.plan
  BY <1>1, CanonicalIs
<1>4. /\ StandingAfter(r, stored) \in Standing
      /\ StandingAfter(r, stored).access = "active" => Fits(new.plan, stored)
  BY <1>3 DEF StandingAfter, Standing, Granted
<1> HIDE DEF new
<1>5. DocumentFits'
  <2>1. CASE Fenced(p)
    <3>1. doc' = new /\ (standing'.access = "active" => Fits(new.plan, stored))
      BY <1>2, <1>4, <2>1
    <3> QED  BY <1>2, <1>3, <3>1, FitsKept DEF PlanInv
  <2>2. CASE ~Fenced(p)  BY <1>2, <2>2, SameDocument DEF PlanInv
  <2> QED  BY <2>1, <2>2
<1>6. CallsAreSound'  BY <1>2, FinishIsSound DEF PlanInv
<1>7. lease' \in {lease, None} /\ expired' \in BOOLEAN  BY <1>2, LeaseSteps DEF PlanInv
<1>8. Counters'
  <2>1. standing' \in Standing  BY <1>2, <1>4 DEF PlanInv, Counters
  <2> QED  BY <1>2, <1>7, <2>1 DEF PlanInv, Counters
<1> QED  BY <1>5, <1>6, <1>8 DEF PlanInv

LEMMA ApplyUndoneKeeps ==
  ASSUME PlanInv, NEW p \in Procs, ApplyUndone(p)
  PROVE  PlanInv'
<1> DEFINE mine == Canonical(p, Copy(p))
<1>1. calls[p] \in CallRec /\ calls[p] # Idle /\ calls[p].at = "apply" /\ lease = p
  BY UnderWay DEF ApplyUndone, At, Fenced, PlanInv
<1>2. mine \in Document  BY <1>1, CanonicalIs DEF CallRec, Copy
<1>3. /\ doc' = doc /\ lease' = lease /\ expired' = expired /\ asked' = asked
      /\ standing' = standing /\ stored' = stored /\ aged' = aged /\ remote' = remote
      /\ made' = made /\ renewals' = renewals
  BY DEF ApplyUndone, quiet, stripe, leaseVars
<1>4. calls' = [calls EXCEPT ![p].copy = mine]
  BY DEF ApplyUndone, Copy, PlanInv, CallsAreSound
<1> HIDE DEF mine
<1>5. CallsAreSound'
  BY <1>1, <1>2, <1>3, <1>4, UndoneIsSound DEF PlanInv, Carrying
<1>6. DocumentFits'  BY <1>3, SameDocument DEF PlanInv
<1>7. Counters'  BY <1>3, SameCounters DEF PlanInv, Counters
<1> QED  BY <1>5, <1>6, <1>7 DEF PlanInv

LEMMA BeginningKeeps ==
  ASSUME PlanInv, NEW p \in Procs,
         \/ ReconcileBegins(p) \/ WebhookBegins(p)
         \/ \E target \in Plans : ChangePlanBegins(p, target)
  PROVE  PlanInv'
<1>1. /\ standing' = standing /\ stored' = stored /\ asked' = asked /\ aged' = aged
      /\ remote' = remote /\ made' = made /\ renewals' = renewals
  BY DEF ReconcileBegins, WebhookBegins, ChangePlanBegins, quiet, stripe
<1>2. /\ "perform" \in Stages \ Carrying /\ "sync" \in Stages \ Carrying
      /\ "request" \in Stages \ Carrying
  BY DEF Stages, Carrying
<1>3. PICK stage \in {"perform", "sync", "request"}, target \in Plans \cup {NoPlan} :
        /\ Begin(p, Call(stage, target))
        /\ stage = "request" => target \in Plans /\ asked < MaxRequests
  BY DEF ReconcileBegins, WebhookBegins, ChangePlanBegins
<1>4. CallsAreSound'
  BY <1>1, <1>2, <1>3, BeginIsSound DEF PlanInv, DocumentFits
<1>5. doc' = doc /\ lease' = p /\ expired' = FALSE  BY <1>3 DEF Begin
<1>6. DocumentFits'  BY <1>1, <1>5, SameDocument DEF PlanInv
<1>7. Counters'  BY <1>1, <1>5, SameCounters DEF PlanInv
<1> QED  BY <1>4, <1>6, <1>7 DEF PlanInv

LEMMA FailingKeeps ==
  ASSUME PlanInv, NEW p \in Procs, CallFails(p) \/ CallStops(p)
  PROVE  PlanInv'
<1>1. /\ stored' = stored /\ asked' = asked /\ aged' = aged /\ remote' = remote
      /\ made' = made /\ renewals' = renewals /\ doc' = doc
  BY DEF CallFails, CallStops, stripe, Quit, Drop
<1>2. standing' \in Standing /\ standing'.access = standing.access
  BY DEF CallFails, CallStops, PlanInv, Counters, Standing
<1>3. DocumentFits'  BY <1>1, <1>2, SameDocument DEF PlanInv
<1>4. CASE CallFails(p)
  <2>1. Quit(p)  BY <1>4 DEF CallFails
  <2>2. CallsAreSound'  BY <1>1, <2>1, QuitIsSound DEF PlanInv
  <2>3. lease' \in {lease, None} /\ expired' \in BOOLEAN  BY <2>1, LeaseSteps DEF PlanInv
  <2>4. Counters'  BY <1>1, <1>2, <2>3 DEF PlanInv, Counters
  <2> QED  BY <1>3, <2>2, <2>4 DEF PlanInv
<1>5. CASE CallStops(p)
  <2>1. Drop(p)  BY <1>5 DEF CallStops
  <2>2. CallsAreSound'  BY <1>1, <2>1, EndIsSound DEF PlanInv, Drop, leaseVars
  <2>3. Counters'  BY <1>1, <1>2, <2>1 DEF PlanInv, Counters, Drop, leaseVars
  <2> QED  BY <1>3, <2>2, <2>3 DEF PlanInv
<1> QED  BY <1>4, <1>5

------------------------------------------------------------------------------
(* The company and Stripe *)

LEMMA HoldingKeeps ==
  ASSUME PlanInv, Store \/ Remove
  PROVE  PlanInv'
<1>1. /\ doc' = doc /\ calls' = calls /\ lease' = lease /\ expired' = expired
      /\ standing' = standing /\ asked' = asked /\ aged' = aged /\ remote' = remote
      /\ made' = made /\ renewals' = renewals
  BY DEF Store, Remove, leaseVars, stripe
<1>2. stored' \in 0..MaxStored
  BY PlanBounds DEF Store, Remove, PlanInv, Counters
<1>3. Counters'  BY <1>1, <1>2 DEF PlanInv, Counters
<1>4. CallsAreSound'  BY <1>1 DEF PlanInv, CallsAreSound, WellStaged, MayAsk
<1>5. DocumentFits'
  <2>1. doc \in Document /\ stored \in Nat /\ stored' \in Nat
    BY <1>2 DEF PlanInv, DocumentFits
  <2>2. CASE Store
    <3>1. /\ standing.access = "active" => Fits(doc.plan, stored')
          /\ (doc.pending # NoPlan => Fits(doc.pending, stored'))
      BY <2>2 DEF Store
    <3> QED  BY <1>1, <2>1, <3>1 DEF DocumentFits, ActivePlanFits, PendingFits, Fits, Limited, Limit
  <2>3. CASE Remove
    <3>1. \A plan : Fits(plan, stored) => Fits(plan, stored')
      <4>1. stored' = stored - 1  BY <2>3 DEF Remove
      <4>2. FreeLimit \in Nat /\ BasicLimit \in Nat  BY PlanBounds
      <4> QED  BY <2>1, <4>1, <4>2 DEF Fits, Limit
    <3>2. /\ standing.access = "active" => Fits(doc.plan, stored)
          /\ (doc.pending # NoPlan => Fits(doc.pending, stored))
      BY DEF PlanInv, DocumentFits, ActivePlanFits, PendingFits
    <3> QED  BY <1>1, <2>1, <3>1, <3>2
             DEF DocumentFits, ActivePlanFits, PendingFits, Fits, Limited, Limit
  <2> QED  BY <2>2, <2>3
<1> QED  BY <1>3, <1>4, <1>5 DEF PlanInv

LEMMA OutsideKeeps ==
  ASSUME PlanInv,
         \/ Anniversary \/ InvoiceChanges \/ SubscriptionEnds \/ WindowPasses \/ LeaseExpires
  PROVE  PlanInv'
<1>1. /\ doc' = doc /\ calls' = calls /\ lease' = lease /\ standing' = standing
      /\ stored' = stored /\ asked' = asked /\ made' = made
  BY DEF Anniversary, InvoiceChanges, SubscriptionEnds, WindowPasses, LeaseExpires,
         Expire, leaseVars, quiet, stripe
<1>2. CallsAreSound'  BY <1>1 DEF PlanInv, CallsAreSound, WellStaged, MayAsk
<1>3. DocumentFits'  BY <1>1, SameDocument DEF PlanInv
<1>4. expired' \in BOOLEAN
  BY DEF Anniversary, InvoiceChanges, SubscriptionEnds, WindowPasses, LeaseExpires,
         Expire, leaseVars, PlanInv, Counters
<1>5. renewals' \in 0..MaxRenewals
  BY PlanBounds DEF Anniversary, InvoiceChanges, SubscriptionEnds, WindowPasses,
         LeaseExpires, quiet, PlanInv, Counters
<1>6. aged' \subseteq Operations
  BY DEF Anniversary, InvoiceChanges, SubscriptionEnds, WindowPasses, LeaseExpires,
         quiet, PlanInv, Counters, DocumentFits, Document
<1>7. remote' \in Remote /\ remote'.to \in {NoPlan, "basic"}
  <2>1. CASE Anniversary
    <3>1. CASE remote.to # NoPlan
      <4>1. remote' = [remote EXCEPT !.plan = remote.to, !.to = NoPlan] /\ remote.to = "basic"
        BY <2>1, <3>1, RemoteEffects DEF Anniversary
      <4> QED  BY <4>1, RemoteEffects DEF Remote, Plans
    <3>2. CASE remote.to = NoPlan
      BY <2>1, <3>2, RemoteEffects DEF Anniversary
    <3> QED  BY <3>1, <3>2
  <2>2. CASE InvoiceChanges
    <3>1. remote' = [remote EXCEPT !.paid = ~@]  BY <2>2 DEF InvoiceChanges
    <3> QED  BY <3>1, RemoteEffects DEF Remote
  <2>3. CASE SubscriptionEnds  BY <2>3, RemoteEffects DEF SubscriptionEnds
  <2>4. CASE WindowPasses \/ LeaseExpires
    BY <2>4, RemoteEffects DEF WindowPasses, LeaseExpires, quiet, stripe
  <2> QED  BY <2>1, <2>2, <2>3, <2>4
<1>8. Counters'  BY <1>1, <1>4, <1>5, <1>6, <1>7 DEF PlanInv, Counters
<1> QED  BY <1>2, <1>3, <1>8 DEF PlanInv

------------------------------------------------------------------------------
(* The theorems *)

LEMMA InitIsSound == Init => PlanInv
<1> SUFFICES ASSUME Init PROVE PlanInv  OBVIOUS
<1>1. /\ 0 \in Operations /\ 0 \in Schedules /\ 0 \in 0..MaxRenewals + 1
      /\ 0 \in 0..MaxRenewals /\ 0 \in 0..MaxStored
      /\ FreeLimit \in Nat /\ BasicLimit \in Nat
  BY PlanBounds DEF Operations, Schedules
<1>2. /\ calls = [p \in Procs |-> Idle] /\ lease = None /\ expired = TRUE
      /\ stored = 0 /\ asked = 0 /\ aged = {} /\ made = 0 /\ renewals = 0
      /\ standing = [access |-> "active", issue |-> "none"]
  BY DEF Init, LeaseInit
<1>3. PICK plan \in {"basic", "premium"} :
        /\ doc = [plan |-> plan, pending |-> NoPlan, before |-> 0, operation |-> 0,
                  attempted |-> FALSE, confirmed |-> FALSE, schedule |-> 0]
        /\ remote = [plan |-> plan, status |-> "active", paid |-> TRUE,
                     schedule |-> 0, to |-> NoPlan]
  BY DEF Init
<1>4. CallsAreSound  BY <1>2 DEF CallsAreSound
<1>5. DocumentFits
  <2>1. doc \in Document /\ doc.pending = NoPlan  BY <1>1, <1>3 DEF Document, Plans
  <2>2. \A anyPlan : Fits(anyPlan, 0)  BY <1>1 DEF Fits, Limit
  <2>3. ActivePlanFits /\ PendingFits  BY <1>2, <2>1, <2>2 DEF ActivePlanFits, PendingFits
  <2> QED  BY <1>2, <2>1, <2>3 DEF DocumentFits
<1>6. Counters
  <2>1. remote \in Remote /\ remote.to = NoPlan  BY <1>1, <1>3 DEF Remote, Plans
  <2>2. standing \in Standing  BY <1>2 DEF Standing
  <2> QED  BY <1>1, <1>2, <2>1, <2>2 DEF Counters
<1> QED  BY <1>4, <1>5, <1>6 DEF PlanInv

LEMMA NextKeeps == PlanInv /\ [Next]_vars => PlanInv'
<1> SUFFICES ASSUME PlanInv, [Next]_vars PROVE PlanInv'  OBVIOUS
<1>1. ASSUME NEW p \in Procs, Step(p) PROVE PlanInv'
  <2>1. CASE RequestPlan(p)  BY <2>1, RequestPlanKeeps
  <2>2. CASE Perform(p)  BY <2>2, PerformKeeps
  <2>3. CASE AttemptPlan(p)  BY <2>3, AttemptPlanKeeps
  <2>4. CASE \/ ReleaseSchedule(p) \/ CancelSubscription(p) \/ CreateSchedule(p)
             \/ SchedulePhases(p) \/ UpdateItems(p)
    BY <2>4, CarryingKeeps
  <2>5. CASE ForgetSchedule(p) \/ StoreSchedule(p) \/ Confirm(p)  BY <2>5, RecordingKeeps
  <2>6. CASE Retrieve(p)  BY <2>6, RetrieveKeeps
  <2>7. CASE Apply(p)  BY <2>7, ApplyKeeps
  <2>8. CASE RequestUndone(p)  BY <2>8, RequestUndoneKeeps
  <2>9. CASE ApplyUndone(p)  BY <2>9, ApplyUndoneKeeps
  <2> QED  BY <1>1, <2>1, <2>2, <2>3, <2>4, <2>5, <2>6, <2>7, <2>8, <2>9 DEF Step
<1>2. ASSUME NEW p \in Procs,
             \/ ReconcileBegins(p) \/ WebhookBegins(p)
             \/ \E target \in Plans : ChangePlanBegins(p, target)
      PROVE  PlanInv'
  BY <1>2, BeginningKeeps
<1>3. ASSUME NEW p \in Procs, CallFails(p) \/ CallStops(p) PROVE PlanInv'
  BY <1>3, FailingKeeps
<1>4. CASE Store \/ Remove  BY <1>4, HoldingKeeps
<1>5. CASE \/ Anniversary \/ InvoiceChanges \/ SubscriptionEnds
           \/ WindowPasses \/ LeaseExpires
  BY <1>5, OutsideKeeps
<1>6. CASE UNCHANGED vars
  <2>1. /\ doc' = doc /\ calls' = calls /\ lease' = lease /\ expired' = expired
        /\ standing' = standing /\ stored' = stored /\ asked' = asked /\ aged' = aged
        /\ remote' = remote /\ made' = made /\ renewals' = renewals
    BY <1>6 DEF vars, quiet, stripe
  <2>2. CallsAreSound'  BY <2>1 DEF PlanInv, CallsAreSound, WellStaged, MayAsk
  <2>3. DocumentFits'  BY <2>1, SameDocument DEF PlanInv
  <2>4. Counters'  BY <2>1 DEF PlanInv, Counters
  <2> QED  BY <2>2, <2>3, <2>4 DEF PlanInv
<1> QED  BY <1>1, <1>2, <1>3, <1>4, <1>5, <1>6 DEF Next

\* Every reachable state of the plan, its calls and Stripe's subscription satisfies
\* what the steps keep: the copies are documents of some time, a request that runs
\* again asks for nothing new, and the document fits (withLease, update).
THEOREM PlanIsSound == Spec => []PlanInv
<1> QED  BY InitIsSound, NextKeeps, PTL DEF Spec

\* PaymentsService and EntitlementsService together never leave a company that may
\* work on a plan too small for what it holds, however calls, leases and uploads
\* interleave and whichever transactions run again.
THEOREM ActivePlanAlwaysFits == Spec => []ActivePlanFits
<1>1. PlanInv => ActivePlanFits  BY DEF PlanInv, DocumentFits
<1> QED  BY <1>1, PlanIsSound, PTL

\* A plan that is pending, queued downgrades included, has room for all the company
\* holds until it takes effect.
THEOREM PendingAlwaysFits == Spec => []PendingFits
<1>1. PlanInv => PendingFits  BY DEF PlanInv, DocumentFits
<1> QED  BY <1>1, PlanIsSound, PTL

\* The shape of the states of StripePlan.
THEOREM PlanIsTyped == Spec => []PlanTypeOK
<1>1. PlanInv => PlanTypeOK
  BY DEF PlanInv, DocumentFits, Counters, PlanTypeOK, LeaseTypeOK
<1> QED  BY <1>1, PlanIsSound, PTL
==============================================================================
