------------------------- MODULE AiConversationProofs -------------------------
(****************************************************************************)
(* What a conversation, its usage rows and the replies say, for any number  *)
(* of requests, conversations, tools and failures.  What a request with the *)
(* lock has read ends with the newest message there is; one whose commit is *)
(* undecided keeps the conversation as it was, because every other write    *)
(* waits for it.                                                            *)
(****************************************************************************)
EXTENDS AiConversation, FiniteSetTheorems, TLAPS

History == [first : Nat, last : Nat]
Turn == [pinned : Providers \cup {None}, used : SUBSET Providers, tools : SUBSET Tools]
Request == [at : Stages, conv : Convs \cup {None}, new : BOOLEAN, seen : History, turn : Turn,
            reply : {None, "ok", "error", "refused"}, excuse : BOOLEAN]
Exchange == [by : Requests, seen : History]

\* Stages with a conversation, between the reading and the writing, and after it.
Engaged == {"history", "ask", "fallback", "failed", "persist", "read", "recover", "cleanup"}
Answering == {"ask", "fallback", "persist"}
Late == {"read", "recover", "cleanup", "done"}

State ==
  /\ open \subseteq Convs /\ stale \subseteq Convs
  /\ usages \subseteq Requests /\ doubt \subseteq Requests
  /\ count \in [Convs -> Nat]
  /\ holder \in [Convs -> Requests \cup {None}]
  /\ messages \in [Convs -> Seq(Exchange)]
  /\ requests \in [Requests -> Request]

\* A turn has used the provider it is pinned to, and no other.
RequestIsSound(q) ==
  /\ q.at \in Engaged => q.conv \in Convs
  /\ q.turn.used \subseteq {q.turn.pinned}
  /\ q.at = "fallback" => q.turn.pinned = None

Locked(r) == Conv(r) \in open /\ holder[Conv(r)] = r

\* Who has the lock has read a window that ends with the newest message.
HistoryIsRead ==
  \A r \in Requests :
    /\ RequestIsSound(requests[r])
    /\ requests[r].at \in Answering /\ Locked(r) =>
         requests[r].seen \in Windows(Len(messages[Conv(r)]))

\* While a commit is undecided nobody else writes the conversation.
DoubtIsSound ==
  \A r \in doubt :
    /\ Conv(r) \in Convs /\ Locked(r)
    /\ count[Conv(r)] + 2 <= MaxMessages
    /\ requests[r].seen \in Windows(Len(messages[Conv(r)]))

RepliesAreSound ==
  \A r \in Requests :
    /\ r \in usages \cup doubt => requests[r].at \in Late
    /\ requests[r].at = "read" => r \in usages
    /\ requests[r].reply # None => requests[r].at \in {"cleanup", "done"}
    /\ requests[r].reply = "ok" => r \in usages
    /\ requests[r].reply = "error" /\ r \in usages \cup doubt => requests[r].excuse

AiInv ==
  /\ State /\ HistoryIsRead /\ DoubtIsSound /\ RepliesAreSound
  /\ ExchangesSerialized /\ StoredTogether

-----------------------------------------------------------------------------
\* A step of one request that leaves the database alone.
LEMMA WalkKeeps ==
  ASSUME AiInv, NEW r \in Requests, NEW q \in Request, UNCHANGED database,
         requests' = [requests EXCEPT ![r] = q],
         q.conv = Conv(r), RequestIsSound(q),
         q.at \in Answering /\ Locked(r) => q.seen \in Windows(Len(messages[Conv(r)])),
         r \in doubt => q.seen = requests[r].seen,
         r \in usages \cup doubt => q.at \in Late,
         q.at = "read" => r \in usages,
         q.reply # None => q.at \in {"cleanup", "done"},
         q.reply = "ok" => r \in usages,
         q.reply = "error" /\ r \in usages \cup doubt => q.excuse
  PROVE  AiInv'
<1>0. UNCHANGED <<open, count, holder, stale, messages, usages, doubt>>
  BY DEF database
<1>1. State'
  BY <1>0 DEF AiInv, State
<1>2. \A p \in Requests : requests'[p] = IF p = r THEN q ELSE requests[p]
  BY DEF AiInv, State
<1>3. \A p \in Requests : requests'[p].conv = requests[p].conv
  BY <1>2 DEF Conv
<1>4. HistoryIsRead'
  <2> SUFFICES ASSUME NEW p \in Requests
               PROVE  /\ RequestIsSound(requests'[p])
                      /\ requests'[p].at \in Answering /\ requests'[p].conv \in open
                         /\ holder[requests'[p].conv] = p =>
                           requests'[p].seen \in Windows(Len(messages[requests'[p].conv]))
    BY <1>0 DEF HistoryIsRead, Locked, Conv, RequestIsSound
  <2>1. CASE p = r
    BY <2>1, <1>2 DEF Conv, Locked
  <2>2. CASE p # r
    BY <2>2, <1>2 DEF Conv, Locked, AiInv, HistoryIsRead
  <2> QED BY <2>1, <2>2
<1>5. DoubtIsSound'
  BY <1>0, <1>2, <1>3 DEF DoubtIsSound, Locked, Conv, AiInv, State
<1>6. RepliesAreSound'
  <2> SUFFICES ASSUME NEW p \in Requests
               PROVE  /\ p \in usages \cup doubt => requests'[p].at \in Late
                      /\ requests'[p].at = "read" => p \in usages
                      /\ requests'[p].reply # None => requests'[p].at \in {"cleanup", "done"}
                      /\ requests'[p].reply = "ok" => p \in usages
                      /\ requests'[p].reply = "error" /\ p \in usages \cup doubt =>
                           requests'[p].excuse
    BY <1>0 DEF RepliesAreSound
  <2>1. CASE p = r
    BY <2>1, <1>2
  <2>2. CASE p # r
    BY <2>2, <1>2 DEF AiInv, RepliesAreSound
  <2> QED BY <2>1, <2>2
<1>7. ExchangesSerialized' /\ StoredTogether'
  BY <1>0 DEF AiInv, ExchangesSerialized, StoredTogether
<1> QED BY <1>1, <1>4, <1>5, <1>6, <1>7 DEF AiInv

\* Two undecided commits are never of one conversation.
LEMMA DoubtIsAlone ==
  ASSUME AiInv, NEW r \in doubt, NEW p \in doubt, Conv(p) = Conv(r)
  PROVE  p = r
BY DEF AiInv, DoubtIsSound, Locked

\* The transaction of persistExchange, when it has the effect.
LEMMA StoreKeeps ==
  ASSUME AiInv, NEW r \in Requests, NEW q \in Request,
         Store(r), doubt' = doubt \ {r},
         requests' = [requests EXCEPT ![r] = q],
         Locked(r), Conv(r) \in Convs,
         count[Conv(r)] + 2 <= MaxMessages,
         requests[r].seen \in Windows(Len(messages[Conv(r)])),
         \A p \in doubt : Conv(p) = Conv(r) => p = r,
         q.conv = Conv(r), RequestIsSound(q), q.at \in Late,
         q.reply # None => q.at \in {"cleanup", "done"},
         q.reply = "error" => q.excuse
  PROVE  AiInv'
<1> DEFINE c == Conv(r)
           m == [by |-> r, seen |-> requests[r].seen]
<1>0. State
  BY DEF AiInv
<1>1. /\ messages' = [messages EXCEPT ![c] = Append(messages[c], m)]
      /\ usages' = usages \cup {r}
      /\ count' = [count EXCEPT ![c] = count[c] + 2]
      /\ holder' = [holder EXCEPT ![c] = None]
      /\ stale' = stale \ {c} /\ open' = open
  BY DEF Store
<1>2. c \in Convs /\ m \in Exchange /\ messages[c] \in Seq(Exchange)
  BY <1>0 DEF State, Request, Exchange
<1>3. State'
  BY <1>0, <1>1, <1>2 DEF State
<1>4. \A p \in Requests : requests'[p] = IF p = r THEN q ELSE requests[p]
  BY <1>0 DEF State
<1>5. \A p \in Requests : requests'[p].conv = requests[p].conv
  BY <1>4 DEF Conv
<1>6. \A d \in Convs : d # c =>
        messages'[d] = messages[d] /\ count'[d] = count[d] /\ holder'[d] = holder[d]
  BY <1>0, <1>1 DEF State
<1>7. /\ messages'[c] = Append(messages[c], m) /\ count'[c] = count[c] + 2
      /\ holder'[c] = None
  BY <1>0, <1>1, <1>2 DEF State
<1>8. Len(messages'[c]) = Len(messages[c]) + 1
      /\ \A i \in 1..Len(messages[c]) + 1 :
           messages'[c][i] = IF i <= Len(messages[c]) THEN messages[c][i] ELSE m
  BY <1>2, <1>7
<1>9. HistoryIsRead'
  <2> SUFFICES ASSUME NEW p \in Requests
               PROVE  /\ RequestIsSound(requests'[p])
                      /\ requests'[p].at \in Answering /\ requests'[p].conv \in open'
                         /\ holder'[requests'[p].conv] = p =>
                           requests'[p].seen \in Windows(Len(messages'[requests'[p].conv]))
    BY DEF HistoryIsRead, Locked, Conv, RequestIsSound
  <2>1. CASE p = r
    BY <2>1, <1>4 DEF Answering, Late
  <2>2. CASE p # r
    <3>1. RequestIsSound(requests'[p])
      BY <2>2, <1>4 DEF AiInv, HistoryIsRead
    <3>2. CASE requests[p].conv = c
      BY <3>1, <3>2, <1>5, <1>7, AiBounds DEF AiBounds
    <3>3. CASE requests[p].conv # c /\ requests[p].conv \in open
      <4>1. requests[p].conv \in Convs
        BY <3>3, <1>0 DEF State
      <4> QED BY <3>1, <3>3, <4>1, <2>2, <1>1, <1>4, <1>6
              DEF AiInv, HistoryIsRead, Locked, Conv
    <3> QED BY <3>1, <3>2, <3>3, <1>1, <1>5
  <2> QED BY <2>1, <2>2
<1>10. DoubtIsSound'
  <2> SUFFICES ASSUME NEW p \in doubt, p # r
               PROVE  /\ requests'[p].conv \in Convs /\ requests'[p].conv \in open'
                      /\ holder'[requests'[p].conv] = p
                      /\ count'[requests'[p].conv] + 2 <= MaxMessages
                      /\ requests'[p].seen \in Windows(Len(messages'[requests'[p].conv]))
    BY DEF DoubtIsSound, Locked, Conv
  <2>1. p \in Requests /\ requests[p].conv # c
    BY <1>0 DEF State, Conv
  <2>2. requests'[p] = requests[p] /\ requests[p].conv \in Convs
    BY <2>1, <1>4 DEF AiInv, DoubtIsSound, Conv
  <2> QED BY <2>1, <2>2, <1>1, <1>6 DEF AiInv, DoubtIsSound, Locked, Conv
<1>11. RepliesAreSound'
  <2> SUFFICES ASSUME NEW p \in Requests
               PROVE  /\ p \in usages' \cup doubt' => requests'[p].at \in Late
                      /\ requests'[p].at = "read" => p \in usages'
                      /\ requests'[p].reply # None => requests'[p].at \in {"cleanup", "done"}
                      /\ requests'[p].reply = "ok" => p \in usages'
                      /\ requests'[p].reply = "error" /\ p \in usages' \cup doubt' =>
                           requests'[p].excuse
    BY DEF RepliesAreSound
  <2>1. CASE p = r
    BY <2>1, <1>1, <1>4
  <2>2. CASE p # r
    BY <2>2, <1>1, <1>4 DEF AiInv, RepliesAreSound
  <2> QED BY <2>1, <2>2
<1>12. ExchangesSerialized'
  <2> SUFFICES ASSUME NEW d \in Convs, NEW i \in 1..Len(messages'[d])
               PROVE  messages'[d][i].seen \in Windows(i - 1)
    BY DEF ExchangesSerialized
  <2>1. CASE d # c
    BY <2>1, <1>6 DEF AiInv, ExchangesSerialized
  <2>2. CASE d = c
    <3>1. i \in 1..Len(messages[c]) + 1 /\ Len(messages[c]) \in Nat
      BY <2>2, <1>2, <1>8
    <3>2. CASE i <= Len(messages[c])
      <4>1. i \in 1..Len(messages[c])
        BY <3>1, <3>2
      <4>2. messages[c][i].seen \in Windows(i - 1)
        BY <4>1, <1>2 DEF AiInv, ExchangesSerialized
      <4> QED BY <2>2, <3>1, <3>2, <4>2, <1>8
    <3>3. CASE ~(i <= Len(messages[c]))
      <4>1. i = Len(messages[c]) + 1
        BY <3>1, <3>3
      <4>2. messages'[c][i] = m
        BY <3>1, <3>3, <1>8
      <4> QED BY <2>2, <4>1, <4>2, <3>1
    <3> QED BY <3>2, <3>3
  <2> QED BY <2>1, <2>2
<1>13. StoredTogether'
  <2> SUFFICES ASSUME NEW d \in Convs
               PROVE  /\ count'[d] = 2 * Len(messages'[d]) /\ count'[d] <= MaxMessages
                      /\ d \notin open' => messages'[d] = <<>>
                      /\ \A i \in 1..Len(messages'[d]) : messages'[d][i].by \in usages'
    BY DEF StoredTogether
  <2>1. CASE d # c
    BY <2>1, <1>1, <1>6 DEF AiInv, StoredTogether
  <2>2. CASE d = c
    <3>1. count[c] = 2 * Len(messages[c]) /\ Len(messages[c]) \in Nat
      BY <1>2 DEF AiInv, StoredTogether
    <3>2. count'[d] = 2 * Len(messages'[d]) /\ count'[d] <= MaxMessages
      BY <2>2, <3>1, <1>7, <1>8
    <3>3. d \in open'
      BY <2>2, <1>1 DEF Locked
    <3>4. \A i \in 1..Len(messages'[d]) : messages'[d][i].by \in usages'
      <4> SUFFICES ASSUME NEW i \in 1..Len(messages'[d])
                   PROVE  messages'[d][i].by \in usages'
        OBVIOUS
      <4>1. i \in 1..Len(messages[c]) + 1
        BY <2>2, <1>8
      <4>2. CASE i <= Len(messages[c])
        <5>1. i \in 1..Len(messages[c])
          BY <4>1, <4>2, <3>1
        <5>2. messages[c][i].by \in usages
          BY <5>1, <1>2 DEF AiInv, StoredTogether
        <5>3. messages'[c][i] = messages[c][i]
          BY <4>1, <4>2, <1>8
        <5> QED BY <2>2, <5>2, <5>3, <1>1
      <4>3. CASE ~(i <= Len(messages[c]))
        BY <2>2, <4>1, <4>3, <1>1, <1>8
      <4> QED BY <4>2, <4>3
    <3> QED BY <3>2, <3>3, <3>4
  <2> QED BY <2>1, <2>2
<1> QED BY <1>3, <1>9, <1>10, <1>11, <1>12, <1>13 DEF AiInv

-----------------------------------------------------------------------------
\* Init: nobody has asked anything.
LEMMA InitAiInv == Init => AiInv
<1> SUFFICES ASSUME Init PROVE AiInv
  OBVIOUS
<1> USE AiBounds DEF AiBounds
<1>1. Fresh \in Request /\ RequestIsSound(Fresh) /\ Fresh.at \notin Answering
      /\ Fresh.at # "read" /\ Fresh.reply = None
  BY DEF Fresh, NoTurn, NoHistory, Request, Turn, History, Stages, RequestIsSound, Engaged,
         Answering, None
<1>2. State
  BY <1>1 DEF Init, State
<1>3. HistoryIsRead /\ DoubtIsSound /\ RepliesAreSound
  BY <1>1 DEF Init, HistoryIsRead, DoubtIsSound, RepliesAreSound, None
<1>4. ExchangesSerialized /\ StoredTogether
  BY DEF Init, ExchangesSerialized, StoredTogether
<1> QED BY <1>2, <1>3, <1>4 DEF AiInv

\* What the invariant says of one request.
LEMMA OneRequest ==
  ASSUME AiInv, NEW r \in Requests
  PROVE  /\ requests[r] \in Request /\ RequestIsSound(requests[r])
         /\ requests[r].at \in Engaged => Conv(r) \in Convs
         /\ requests[r].at \in Answering /\ Locked(r) =>
              requests[r].seen \in Windows(Len(messages[Conv(r)]))
         /\ r \in usages \cup doubt => requests[r].at \in Late
         /\ requests[r].at = "read" => r \in usages
         /\ requests[r].reply # None => requests[r].at \in {"cleanup", "done"}
         /\ requests[r].reply = "ok" => r \in usages
         /\ requests[r].reply = "error" /\ r \in usages \cup doubt => requests[r].excuse
BY DEF AiInv, State, HistoryIsRead, RepliesAreSound, RequestIsSound, Conv

\* A request goes to another stage, with its conversation, its turn and its reply.
LEMMA GotoKeeps ==
  ASSUME AiInv, NEW r \in Requests, NEW stage \in Stages, UNCHANGED database,
         Goto(r, stage),
         stage \in Engaged => requests[r].at \in Engaged,
         stage \in Answering => requests[r].at \in Answering,
         stage = "fallback" => requests[r].turn.pinned = None,
         r \in usages \cup doubt => stage \in Late,
         stage # "read",
         requests[r].reply # None => stage \in {"cleanup", "done"}
  PROVE  AiInv'
<1> DEFINE q == [requests[r] EXCEPT !.at = stage]
<1>0. requests[r] \in Request
  BY OneRequest
<1>1. q \in Request /\ q.conv = Conv(r) /\ q.at = stage /\ q.seen = requests[r].seen
      /\ q.turn = requests[r].turn /\ q.reply = requests[r].reply
      /\ q.excuse = requests[r].excuse
  BY <1>0 DEF Request, Conv
<1>2. requests' = [requests EXCEPT ![r] = q]
  BY DEF Goto
<1>3. RequestIsSound(q)
  BY <1>1, OneRequest DEF RequestIsSound, Conv
<1>4. q.at \in Answering /\ Locked(r) => q.seen \in Windows(Len(messages[Conv(r)]))
  BY <1>1, OneRequest
<1>5. q.reply = "ok" => r \in usages
  BY <1>1, OneRequest
<1>6. q.reply = "error" /\ r \in usages \cup doubt => q.excuse
  BY <1>1, OneRequest
<1> HIDE DEF q
<1> QED BY <1>1, <1>2, <1>3, <1>4, <1>5, <1>6, WalkKeeps

\* A request is over, whatever became of it.
LEMMA FinishKeeps ==
  ASSUME AiInv, NEW r \in Requests, UNCHANGED database, Finish(r)
  PROVE  AiInv'
<1> DEFINE q == [requests[r] EXCEPT !.at = "done", !.turn = NoTurn]
<1>0. requests[r] \in Request /\ NoTurn \in Turn
  BY OneRequest DEF NoTurn, Turn
<1>1. q \in Request /\ q.conv = Conv(r) /\ q.at = "done" /\ q.seen = requests[r].seen
      /\ q.turn = NoTurn /\ q.reply = requests[r].reply
      /\ q.excuse = requests[r].excuse
  BY <1>0 DEF Request, Conv, Stages
<1>2. requests' = [requests EXCEPT ![r] = q]
  BY DEF Finish
<1>3. RequestIsSound(q)
  BY <1>1 DEF RequestIsSound, NoTurn, Engaged
<1>4. q.at \notin Answering /\ q.at \in Late /\ q.at # "read"
  BY <1>1 DEF Answering, Late
<1>5. /\ q.reply = "ok" => r \in usages
      /\ q.reply = "error" /\ r \in usages \cup doubt => q.excuse
  BY <1>1, OneRequest
<1> HIDE DEF q
<1> QED BY <1>1, <1>2, <1>3, <1>4, <1>5, WalkKeeps

\* A request is answered.
LEMMA ReplyKeeps ==
  ASSUME AiInv, NEW r \in Requests, NEW stage \in {"cleanup", "done"},
         NEW reply \in {"ok", "error", "refused"}, NEW excuse \in BOOLEAN,
         UNCHANGED database,
         requests' = [requests EXCEPT ![r].at = stage, ![r].reply = reply,
                                      ![r].excuse = excuse],
         stage = "cleanup" => requests[r].at \in Engaged,
         reply = "ok" => r \in usages,
         reply = "error" /\ r \in usages \cup doubt => excuse
  PROVE  AiInv'
<1> DEFINE q == [requests[r] EXCEPT !.at = stage, !.reply = reply, !.excuse = excuse]
<1>0. requests[r] \in Request
  BY OneRequest
<1>1. q \in Request /\ q.conv = Conv(r) /\ q.at = stage /\ q.seen = requests[r].seen
      /\ q.turn = requests[r].turn /\ q.reply = reply /\ q.excuse = excuse
  BY <1>0 DEF Request, Conv, Stages
<1>2. requests' = [requests EXCEPT ![r] = q]
  OBVIOUS
<1>3. RequestIsSound(q)
  BY <1>1, OneRequest DEF RequestIsSound, Conv, Engaged
<1>4. q.at \notin Answering /\ q.at \in Late /\ q.at # "read"
  BY <1>1 DEF Answering, Late
<1> HIDE DEF q
<1> QED BY <1>1, <1>2, <1>3, <1>4, WalkKeeps
-----------------------------------------------------------------------------
LEMMA CountKeeps == ASSUME AiInv, NEW r \in Requests, CountConversations(r) PROVE AiInv'
<1>1. r \notin usages \cup doubt /\ requests[r].reply = None
  BY OneRequest DEF CountConversations, At, Late
<1>2. UNCHANGED database
  BY DEF CountConversations
<1>3. CASE Goto(r, "create")
  BY <1>1, <1>2, <1>3, GotoKeeps DEF Stages, Engaged, Answering
<1>4. CASE Reply(r, "refused", "done")
  <2>1. requests[r] \in Request
    BY OneRequest
  <2>2. requests' = [requests EXCEPT ![r].at = "done", ![r].reply = "refused",
                                     ![r].excuse = requests[r].excuse]
    BY <1>4, <2>1 DEF Reply, Request
  <2>3. requests[r].excuse \in BOOLEAN
    BY <2>1 DEF Request
  <2> QED BY <1>1, <1>2, <2>2, <2>3, ReplyKeeps
<1> QED BY <1>3, <1>4 DEF CountConversations

LEMMA ReadKeeps == ASSUME AiInv, NEW r \in Requests, ReadHistory(r) PROVE AiInv'
<1>0. requests[r] \in Request /\ At(r, "history") /\ UNCHANGED database
  BY OneRequest DEF ReadHistory
<1>w. PICK w \in Windows(Len(messages[Conv(r)])) :
        requests' = [requests EXCEPT ![r].at = "ask", ![r].seen = w]
  BY DEF ReadHistory
<1> DEFINE q == [requests[r] EXCEPT !.at = "ask", !.seen = w]
<1>1. Conv(r) \in Convs /\ r \notin usages \cup doubt /\ requests[r].reply = None
  BY <1>0, OneRequest DEF At, Engaged, Late
<1>2. w \in History
  BY <1>1 DEF AiInv, State, Windows, History
<1>3. q \in Request /\ q.conv = Conv(r) /\ q.at = "ask" /\ q.turn = requests[r].turn
      /\ q.seen \in Windows(Len(messages[Conv(r)])) /\ q.reply = None
  BY <1>0, <1>1, <1>2 DEF Request, Conv, Stages
<1>4. requests' = [requests EXCEPT ![r] = q]
  BY <1>w
<1>5. RequestIsSound(q)
  BY <1>1, <1>3, OneRequest DEF RequestIsSound, Conv
<1>6. q.at # "read" /\ q.reply \notin {"ok", "error"}
  BY <1>3 DEF None
<1> HIDE DEF q
<1> QED BY <1>0, <1>1, <1>3, <1>4, <1>5, <1>6, WalkKeeps

LEMMA FallsBackKeeps == ASSUME AiInv, NEW r \in Requests, FallsBack(r) PROVE AiInv'
<1>1. r \notin usages \cup doubt /\ requests[r].reply = None
  BY OneRequest DEF FallsBack, At, Late
<1> QED BY <1>1, GotoKeeps DEF FallsBack, At, Stages, Engaged, Answering

\* Who asks a provider has a turn that this provider, or none, has begun.
LEMMA AsksOne ==
  ASSUME AiInv, NEW r \in Requests, NEW v \in Providers, Asks(r, v)
  PROVE  /\ requests[r].at \in {"ask", "fallback"} /\ Conv(r) \in Convs
         /\ requests[r].turn.pinned \in {None, v}
         /\ r \notin usages \cup doubt /\ requests[r].reply = None
         /\ Took(requests[r].turn, v) \in Turn
         /\ Took(requests[r].turn, v).used \subseteq {v}
         /\ Took(requests[r].turn, v).pinned = v
<1>1. requests[r].at \in {"ask", "fallback"}
  BY DEF Asks, At
<1>2. Conv(r) \in Convs /\ r \notin usages \cup doubt /\ requests[r].reply = None
  BY <1>1, OneRequest DEF Engaged, Late
<1>3. requests[r].turn \in Turn /\ RequestIsSound(requests[r])
  BY OneRequest DEF Request
<1>4. requests[r].turn.pinned \in {None, v}
  BY <1>3 DEF Asks, At, RequestIsSound
<1>5. requests[r].turn.used \subseteq {v}
  BY <1>3, <1>4, AiBounds DEF RequestIsSound, Turn, AiBounds, None
<1> QED BY <1>1, <1>2, <1>3, <1>4, <1>5 DEF Took, Turn

\* A turn goes on with a provider.
LEMMA TurnKeeps ==
  ASSUME AiInv, NEW r \in Requests, NEW v \in Providers, Asks(r, v), UNCHANGED database,
         NEW turn \in Turn, turn.pinned = v, turn.used \subseteq {v},
         NEW stage \in {"ask", "persist", "failed"},
         requests' = [requests EXCEPT ![r].turn = turn, ![r].at = stage]
  PROVE  AiInv'
<1> DEFINE q == [requests[r] EXCEPT !.turn = turn, !.at = stage]
<1>0. requests[r] \in Request
  BY OneRequest
<1>1. q \in Request /\ q.conv = Conv(r) /\ q.at = stage /\ q.seen = requests[r].seen
      /\ q.turn = turn /\ q.reply = requests[r].reply
  BY <1>0 DEF Request, Conv, Stages
<1>2. requests' = [requests EXCEPT ![r] = q]
  OBVIOUS
<1>3. Conv(r) \in Convs /\ r \notin usages \cup doubt /\ requests[r].reply = None
  BY AsksOne
<1>4. RequestIsSound(q)
  BY <1>1, <1>3 DEF RequestIsSound
<1>5. q.at \in Answering /\ Locked(r) => q.seen \in Windows(Len(messages[Conv(r)]))
  BY <1>1, AsksOne, OneRequest DEF Answering
<1>6. q.at # "read" /\ q.reply \notin {"ok", "error"}
  BY <1>1, <1>3 DEF None
<1> HIDE DEF q
<1> QED BY <1>1, <1>2, <1>3, <1>4, <1>5, <1>6, WalkKeeps

LEMMA CallsToolKeeps ==
  ASSUME AiInv, NEW r \in Requests, NEW v \in Providers, NEW t \in Tools, CallsTool(r, v, t)
  PROVE  AiInv'
<1> DEFINE turn == [Took(requests[r].turn, v) EXCEPT !.tools = @ \cup {t}]
           stage == IF t \in requests[r].turn.tools
                       \/ Cardinality(requests[r].turn.tools) = MaxTools
                    THEN "failed" ELSE "ask"
<1>1. Asks(r, v) /\ UNCHANGED database
  BY DEF CallsTool
<1>2. requests' = [requests EXCEPT ![r].turn = turn, ![r].at = stage]
  BY DEF CallsTool
<1>3. turn \in Turn /\ turn.pinned = v /\ turn.used \subseteq {v}
  BY <1>1, AsksOne DEF Turn
<1>4. stage \in {"ask", "persist", "failed"}
  OBVIOUS
<1> HIDE DEF turn, stage
<1> QED BY <1>1, <1>2, <1>3, <1>4, TurnKeeps

LEMMA AnswersKeeps ==
  ASSUME AiInv, NEW r \in Requests, NEW v \in Providers, Answers(r, v) \/ ToolFails(r, v)
  PROVE  AiInv'
<1> DEFINE turn == Took(requests[r].turn, v)
<1>1. Asks(r, v) /\ UNCHANGED database
  BY DEF Answers, ToolFails
<1>2. PICK stage \in {"persist", "failed"} :
        requests' = [requests EXCEPT ![r].turn = turn, ![r].at = stage]
  BY DEF Answers, ToolFails
<1>3. turn \in Turn /\ turn.pinned = v /\ turn.used \subseteq {v}
  BY <1>1, AsksOne
<1> HIDE DEF turn
<1> QED BY <1>1, <1>2, <1>3, TurnKeeps

LEMMA ModelFailsKeeps ==
  ASSUME AiInv, NEW r \in Requests, NEW v \in Providers,
         ModelFails(r, v) \/ AnswerUnusable(r, v)
  PROVE  AiInv'
<1>1. Asks(r, v) /\ UNCHANGED database /\ Goto(r, "failed")
  BY DEF ModelFails, AnswerUnusable
<1> QED BY <1>1, AsksOne, GotoKeeps DEF Stages, Engaged, Answering

\* A request that is stopped, that could not save or could not clean up.
LEMMA StopKeeps ==
  ASSUME AiInv, NEW r \in Requests, Abort(r) \/ CleanupFails(r) \/ Stop(r)
  PROVE  AiInv'
<1>1. UNCHANGED database
  BY DEF Abort, CleanupFails, Stop
<1>2. CASE Abort(r)
  <2>1. At(r, "persist") /\ Goto(r, "recover")
    BY <1>2 DEF Abort
  <2>2. r \notin usages \cup doubt /\ requests[r].reply = None
    BY <2>1, OneRequest DEF At, Late
  <2> QED BY <1>1, <2>1, <2>2, GotoKeeps DEF At, Stages, Engaged, Answering
<1>3. CASE CleanupFails(r) \/ Stop(r)
  <2>1. Finish(r)
    BY <1>3 DEF CleanupFails, Stop
  <2> QED BY <1>1, <2>1, FinishKeeps
<1> QED BY <1>2, <1>3

LEMMA RecoverKeeps ==
  ASSUME AiInv, NEW r \in Requests, Recover(r) \/ ReadBack(r) \/ GiveUp(r)
  PROVE  AiInv'
<1>0. requests[r] \in Request /\ requests[r].excuse \in BOOLEAN
  BY OneRequest DEF Request
<1>1. UNCHANGED database
  BY DEF Recover, ReadBack, GiveUp
<1>2. requests[r].at \in Engaged /\ requests[r].at \in {"read", "recover", "failed"}
  BY DEF Recover, ReadBack, GiveUp, At, Engaged
<1>3. requests[r].reply = None
  BY <1>2, OneRequest
<1>4. \A reply \in {"ok", "error"} : Reply(r, reply, "cleanup") =>
        requests' = [requests EXCEPT ![r].at = "cleanup", ![r].reply = reply,
                                     ![r].excuse = requests[r].excuse]
  BY <1>0 DEF Reply, Request
<1>5. CASE Recover(r)
  <2>1. CASE r \in usages /\ Reply(r, "ok", "cleanup")
    BY <1>0, <1>1, <1>2, <1>4, <2>1, ReplyKeeps
  <2>2. ASSUME NEW excuse \in BOOLEAN, r \in usages \cup doubt => excuse,
               requests' = [requests EXCEPT ![r].at = "cleanup", ![r].reply = "error",
                                            ![r].excuse = excuse]
        PROVE  AiInv'
    BY <1>1, <1>2, <2>2, ReplyKeeps
  <2>3. CASE requests' = [requests EXCEPT ![r].at = "cleanup", ![r].reply = "error",
                                          ![r].excuse = TRUE]
    BY <2>2, <2>3
  <2>4. CASE requests' = [requests EXCEPT ![r].at = "cleanup", ![r].reply = "error",
                                          ![r].excuse = (r \in doubt \cup usages)]
    <3>0. (r \in doubt \cup usages) = TRUE \/ (r \in doubt \cup usages) = FALSE
      OBVIOUS
    <3>1. PICK excuse \in BOOLEAN : excuse = (r \in doubt \cup usages)
      BY <3>0
    <3>2. requests' = [requests EXCEPT ![r].at = "cleanup", ![r].reply = "error",
                                       ![r].excuse = excuse]
      BY <2>4, <3>1
    <3>3. r \in usages \cup doubt => excuse
      BY <3>1
    <3> QED BY <2>2, <3>2, <3>3
  <2> QED BY <1>5, <2>1, <2>3, <2>4 DEF Recover
<1>6. CASE GiveUp(r)
  <2>1. r \notin usages \cup doubt
    BY <1>6, OneRequest DEF GiveUp, At, Late
  <2> QED BY <1>0, <1>1, <1>2, <1>4, <1>6, <2>1, ReplyKeeps DEF GiveUp
<1>7. CASE ReadBack(r)
  <2>1. r \in usages
    BY <1>7, OneRequest DEF ReadBack, At
  <2>2. CASE Reply(r, "ok", "cleanup")
    BY <1>0, <1>1, <1>2, <1>4, <2>1, <2>2, ReplyKeeps
  <2>3. CASE Goto(r, "recover")
    BY <1>1, <1>2, <1>3, <2>3, GotoKeeps DEF Stages, Answering, Late
  <2> QED BY <1>7, <2>2, <2>3 DEF ReadBack
<1> QED BY <1>5, <1>6, <1>7
-----------------------------------------------------------------------------
\* Who persists an exchange and finds the conversation his has read up to its end.
LEMMA PersistsOne ==
  ASSUME AiInv, NEW r \in Requests, At(r, "persist"), Settled(Conv(r)), StillMine(r)
  PROVE  /\ Locked(r) /\ Conv(r) \in Convs /\ count[Conv(r)] + 2 <= MaxMessages
         /\ requests[r].seen \in Windows(Len(messages[Conv(r)]))
         /\ \A p \in doubt : Conv(p) = Conv(r) => p = r
         /\ r \notin usages \cup doubt /\ requests[r].reply = None
BY OneRequest DEF At, StillMine, Locked, Engaged, Answering, Late, Settled

LEMMA CommitKeeps == ASSUME AiInv, NEW r \in Requests, Commit(r) PROVE AiInv'
<1>1. PICK stage \in {"read", "recover"} : Goto(r, stage)
  BY DEF Commit
<1> DEFINE q == [requests[r] EXCEPT !.at = stage]
<1>2. /\ Locked(r) /\ Conv(r) \in Convs /\ count[Conv(r)] + 2 <= MaxMessages
      /\ requests[r].seen \in Windows(Len(messages[Conv(r)]))
      /\ \A p \in doubt : Conv(p) = Conv(r) => p = r
      /\ r \notin usages \cup doubt /\ requests[r].reply = None
  BY PersistsOne DEF Commit
<1>3. Store(r) /\ doubt' = doubt \ {r}
  BY <1>2 DEF Commit
<1>4. requests' = [requests EXCEPT ![r] = q]
  BY <1>1 DEF Goto
<1>5. requests[r] \in Request
  BY OneRequest
<1>6. q \in Request /\ q.conv = Conv(r) /\ q.at = stage /\ q.turn = requests[r].turn
      /\ q.reply = None
  BY <1>2, <1>5 DEF Request, Conv, Stages
<1>7. RequestIsSound(q)
  BY <1>1, <1>2, <1>6, OneRequest DEF RequestIsSound, Conv
<1>8. q.at \in Late /\ q.reply # "error"
  BY <1>6 DEF Late, None
<1> HIDE DEF q
<1> QED BY <1>2, <1>3, <1>4, <1>6, <1>7, <1>8, StoreKeeps

LEMMA DecideKeeps == ASSUME AiInv, NEW r \in Requests, Decide(r) PROVE AiInv'
<1>1. r \in doubt /\ doubt' = doubt \ {r} /\ UNCHANGED requests
  BY DEF Decide
<1>2. CASE Store(r)
  <2>1. Locked(r) /\ Conv(r) \in Convs /\ count[Conv(r)] + 2 <= MaxMessages
        /\ requests[r].seen \in Windows(Len(messages[Conv(r)]))
    BY <1>1 DEF AiInv, DoubtIsSound
  <2>2. \A p \in doubt : Conv(p) = Conv(r) => p = r
    BY <1>1, DoubtIsAlone
  <2>3. requests' = [requests EXCEPT ![r] = requests[r]]
    BY <1>1 DEF AiInv, State
  <2>4. PICK q \in Request : q = requests[r]
    BY OneRequest
  <2>5. q.conv = Conv(r) /\ RequestIsSound(q) /\ q.at \in Late
        /\ (q.reply # None => q.at \in {"cleanup", "done"})
        /\ (q.reply = "error" => q.excuse)
    BY <1>1, <2>4, OneRequest DEF Conv
  <2> QED BY <1>1, <1>2, <2>1, <2>2, <2>3, <2>4, <2>5, StoreKeeps
<1>3. CASE NotStored
  <2> USE <1>1, <1>3 DEF NotStored
  <2>1. State' /\ HistoryIsRead'
    BY DEF AiInv, State, HistoryIsRead, Locked, Conv, RequestIsSound
  <2>2. DoubtIsSound'
    BY DEF AiInv, DoubtIsSound, Locked, Conv
  <2>3. RepliesAreSound'
    BY DEF AiInv, RepliesAreSound
  <2>4. ExchangesSerialized' /\ StoredTogether'
    BY DEF AiInv, ExchangesSerialized, StoredTogether
  <2> QED BY <2>1, <2>2, <2>3, <2>4 DEF AiInv
<1> QED BY <1>2, <1>3 DEF Decide

LEMMA LoseKeeps == ASSUME AiInv, NEW r \in Requests, LoseCommit(r) PROVE AiInv'
<1>1. /\ Locked(r) /\ Conv(r) \in Convs /\ count[Conv(r)] + 2 <= MaxMessages
      /\ requests[r].seen \in Windows(Len(messages[Conv(r)]))
      /\ r \notin usages \cup doubt /\ requests[r].reply = None
  BY PersistsOne DEF LoseCommit
<1>2. /\ UNCHANGED <<open, count, holder, stale, messages, usages>>
      /\ doubt' = doubt \cup {r} /\ Goto(r, "recover")
  BY DEF LoseCommit, NotStored
<1>3. requests[r] \in Request
  BY OneRequest
<1>4. \A p \in Requests :
        /\ requests'[p] \in Request /\ requests'[p].conv = requests[p].conv
        /\ requests'[p].seen = requests[p].seen /\ requests'[p].turn = requests[p].turn
        /\ requests'[p].reply = requests[p].reply
        /\ requests'[p].excuse = requests[p].excuse
        /\ requests'[p].at = IF p = r THEN "recover" ELSE requests[p].at
  BY <1>2, <1>3 DEF AiInv, State, Goto, Request, Stages
<1>5. State'
  BY <1>2, <1>4 DEF AiInv, State, Goto
<1>6. HistoryIsRead'
  <2>1. \A p \in Requests : RequestIsSound(requests'[p])
    BY <1>1, <1>4 DEF AiInv, HistoryIsRead, RequestIsSound, Conv
  <2>2. \A p \in Requests : RequestIsSound(requests[p])'
    BY <2>1 DEF RequestIsSound
  <2> QED BY <1>2, <1>4, <2>2 DEF AiInv, HistoryIsRead, Locked, Conv, Answering
<1>7. DoubtIsSound'
  BY <1>1, <1>2, <1>4 DEF AiInv, State, DoubtIsSound, Locked, Conv
<1>8. RepliesAreSound'
  BY <1>1, <1>2, <1>4 DEF AiInv, RepliesAreSound, Late, None
<1>9. ExchangesSerialized' /\ StoredTogether'
  BY <1>2 DEF AiInv, ExchangesSerialized, StoredTogether
<1> QED BY <1>5, <1>6, <1>7, <1>8, <1>9 DEF AiInv

-----------------------------------------------------------------------------
\* A request inserts a conversation with its lock, or takes the lock of one.
LEMMA EngageKeeps ==
  ASSUME AiInv, NEW r \in Requests, NEW c \in Convs, NEW new \in BOOLEAN, Settled(c),
         r \notin usages \cup doubt, requests[r].reply = None,
         open' = open \cup {c}, holder' = [holder EXCEPT ![c] = r],
         stale' \subseteq stale, UNCHANGED <<count, messages, usages, doubt>>,
         requests' = [requests EXCEPT ![r].at = "history", ![r].conv = c, ![r].new = new]
  PROVE  AiInv'
<1>1. \A p \in doubt : p \in Requests /\ requests[p].conv # c
  BY DEF Settled, Conv, AiInv, State
<1>2. requests[r] \in Request
  BY OneRequest
<1>3. State'
  BY <1>2 DEF AiInv, State, Request, Stages
<1>4. \A p \in Requests : p # r => requests'[p] = requests[p]
  BY DEF AiInv, State
<1>5. /\ requests'[r].at = "history" /\ requests'[r].conv = c
      /\ requests'[r].turn = requests[r].turn /\ requests'[r].reply = None
  BY <1>2 DEF AiInv, State, Request
<1>6. HistoryIsRead'
  <2> SUFFICES ASSUME NEW p \in Requests
               PROVE  /\ RequestIsSound(requests'[p])
                      /\ requests'[p].at \in Answering /\ requests'[p].conv \in open'
                         /\ holder'[requests'[p].conv] = p =>
                           requests'[p].seen \in Windows(Len(messages[requests'[p].conv]))
    BY DEF HistoryIsRead, Locked, Conv, RequestIsSound
  <2>1. CASE p = r
    BY <2>1, <1>5, OneRequest DEF Answering, RequestIsSound
  <2>2. CASE p # r
    <3>1. CASE requests[p].conv = c
      BY <2>2, <3>1, <1>4 DEF AiInv, State, HistoryIsRead
    <3>2. CASE requests[p].conv # c
      <4>1. requests[p].conv \in open' => requests[p].conv \in open
              /\ holder'[requests[p].conv] = holder[requests[p].conv]
        BY <3>2 DEF AiInv, State
      <4> QED BY <2>2, <4>1, <1>4 DEF AiInv, HistoryIsRead, Locked, Conv
    <3> QED BY <3>1, <3>2
  <2> QED BY <2>1, <2>2
<1>7. DoubtIsSound'
  BY <1>1, <1>4 DEF AiInv, State, DoubtIsSound, Locked, Conv
<1>8. RepliesAreSound'
  <2> SUFFICES ASSUME NEW p \in Requests
               PROVE  /\ p \in usages \cup doubt => requests'[p].at \in Late
                      /\ requests'[p].at = "read" => p \in usages
                      /\ requests'[p].reply # None => requests'[p].at \in {"cleanup", "done"}
                      /\ requests'[p].reply = "ok" => p \in usages
                      /\ requests'[p].reply = "error" /\ p \in usages \cup doubt =>
                           requests'[p].excuse
    BY DEF RepliesAreSound
  <2>1. CASE p = r
    BY <2>1, <1>5 DEF None
  <2>2. CASE p # r
    BY <2>2, <1>4 DEF AiInv, RepliesAreSound
  <2> QED BY <2>1, <2>2
<1>9. ExchangesSerialized' /\ StoredTogether'
  BY DEF AiInv, ExchangesSerialized, StoredTogether
<1> QED BY <1>3, <1>6, <1>7, <1>8, <1>9 DEF AiInv

\* The lock of a conversation, when no commit of it is undecided, goes to a
\* request that has not read anything yet, or to nobody.
LEMMA LockKeeps ==
  ASSUME AiInv, NEW r \in Requests, NEW c \in Convs, Settled(c),
         NEW h \in Requests \cup {None},
         holder' = [holder EXCEPT ![c] = h], stale' \subseteq Convs,
         open' \subseteq open, c \notin open' => messages'[c] = <<>>,
         open \ open' \subseteq {c},
         \/ UNCHANGED <<count, messages>>
         \/ /\ messages' = [messages EXCEPT ![c] = <<>>]
            /\ count' = [count EXCEPT ![c] = 0]
            /\ c \notin open',
         UNCHANGED <<usages, doubt>>, UNCHANGED requests \/ Finish(r),
         h # None => /\ c \in open' /\ requests[h].at \notin Answering
  PROVE  AiInv'
<1>0. \A p \in Requests :
        /\ requests'[p] \in Request /\ requests'[p].conv = requests[p].conv
        /\ requests'[p].seen = requests[p].seen
        /\ requests'[p].reply = requests[p].reply
        /\ requests'[p].excuse = requests[p].excuse
        /\ \/ requests'[p].at = requests[p].at /\ requests'[p].turn = requests[p].turn
           \/ requests'[p].at = "done" /\ requests'[p].turn = NoTurn
  <2>1. \A p \in Requests : requests[p] \in Request
    BY DEF AiInv, State
  <2>2. CASE UNCHANGED requests
    BY <2>1, <2>2
  <2>3. CASE Finish(r)
    <3>1. requests'[r] = [requests[r] EXCEPT !.at = "done", !.turn = NoTurn]
      BY <2>3 DEF Finish, AiInv, State
    <3>2. \A p \in Requests : p # r => requests'[p] = requests[p]
      BY <2>3 DEF Finish, AiInv, State
    <3>3. NoTurn \in Turn
      BY DEF NoTurn, Turn
    <3>4. requests[r] \in Request
      BY <2>1
    <3>5. /\ requests'[r] \in Request /\ requests'[r].conv = requests[r].conv
          /\ requests'[r].seen = requests[r].seen
          /\ requests'[r].reply = requests[r].reply
          /\ requests'[r].excuse = requests[r].excuse
          /\ requests'[r].at = "done" /\ requests'[r].turn = NoTurn
      BY <3>1, <3>3, <3>4 DEF Request, Stages
    <3> QED BY <2>1, <3>2, <3>5
  <2> QED BY <2>2, <2>3
<1>1. State'
  <2>0. requests' \in [Requests -> Request]
    BY <1>0 DEF AiInv, State, Finish
  <2>1. CASE UNCHANGED <<count, messages>>
    BY <2>0, <2>1 DEF AiInv, State
  <2>2. CASE /\ messages' = [messages EXCEPT ![c] = <<>>]
             /\ count' = [count EXCEPT ![c] = 0]
    <3>1. <<>> \in Seq(Exchange)
      OBVIOUS
    <3> QED BY <2>0, <2>2, <3>1 DEF AiInv, State
  <2> QED BY <2>1, <2>2
<1>2. \A d \in Convs : d # c => /\ holder'[d] = holder[d] /\ messages'[d] = messages[d]
                                /\ count'[d] = count[d] /\ (d \in open' <=> d \in open)
  BY DEF AiInv, State
<1>3. holder'[c] = h /\ Len(messages'[c]) <= Len(messages[c])
  BY DEF AiInv, State
<1>4. HistoryIsRead'
  <2> SUFFICES ASSUME NEW p \in Requests
               PROVE  /\ RequestIsSound(requests'[p])
                      /\ requests'[p].at \in Answering /\ requests[p].conv \in open'
                         /\ holder'[requests[p].conv] = p =>
                           requests[p].seen \in Windows(Len(messages'[requests[p].conv]))
    BY <1>0 DEF HistoryIsRead, Locked, Conv, RequestIsSound
  <2>1. RequestIsSound(requests'[p])
    BY <1>0 DEF AiInv, HistoryIsRead, RequestIsSound, Engaged, NoTurn
  <2>2. requests'[p].at \in Answering => requests[p].at \in Answering
    BY <1>0 DEF Answering
  <2>3. CASE requests[p].conv = c
    BY <2>1, <2>2, <2>3, <1>3, AiBounds DEF AiInv, HistoryIsRead, AiBounds
  <2>4. CASE requests[p].conv # c
    <3>1. requests[p].conv \in open' => requests[p].conv \in Convs
      BY <1>1 DEF State
    <3> QED BY <2>1, <2>2, <2>4, <3>1, <1>2 DEF AiInv, HistoryIsRead, Locked, Conv
  <2> QED BY <2>3, <2>4
<1>5. DoubtIsSound'
  BY <1>0, <1>2 DEF AiInv, State, DoubtIsSound, Settled, Locked, Conv
<1>6. RepliesAreSound'
  BY <1>0 DEF AiInv, RepliesAreSound, Late
<1>7. ExchangesSerialized'
  <2> SUFFICES ASSUME NEW d \in Convs, NEW i \in 1..Len(messages'[d])
               PROVE  messages'[d][i].seen \in Windows(i - 1)
    BY DEF ExchangesSerialized
  <2>1. CASE messages'[d] = messages[d]
    BY <2>1 DEF AiInv, ExchangesSerialized
  <2>2. CASE messages'[d] = <<>>
    BY <2>2
  <2> QED BY <2>1, <2>2 DEF AiInv, State
<1>8. StoredTogether'
  <2> SUFFICES ASSUME NEW d \in Convs
               PROVE  /\ count'[d] = 2 * Len(messages'[d]) /\ count'[d] <= MaxMessages
                      /\ d \notin open' => messages'[d] = <<>>
                      /\ \A i \in 1..Len(messages'[d]) : messages'[d][i].by \in usages
    BY DEF StoredTogether
  <2>1. CASE messages'[d] = messages[d] /\ count'[d] = count[d]
    BY <2>1, <1>2 DEF AiInv, StoredTogether
  <2>2. CASE d = c /\ messages'[d] = <<>> /\ count'[d] = 0
    BY <2>2, AiBounds DEF AiBounds
  <2> QED BY <2>1, <2>2, <1>2 DEF AiInv, State
<1> QED BY <1>1, <1>4, <1>5, <1>6, <1>7, <1>8 DEF AiInv

LEMMA CreateKeeps ==
  ASSUME AiInv, NEW r \in Requests, NEW c \in Convs, CreateConversation(r, c)
  PROVE  AiInv'
<1>1. r \notin usages \cup doubt /\ requests[r].reply = None
  BY OneRequest DEF CreateConversation, At, Late
<1>2. Settled(c)
  BY DEF CreateConversation, Settled, AiInv, State
<1> QED BY <1>1, <1>2, EngageKeeps DEF CreateConversation

LEMMA AcquireKeeps ==
  ASSUME AiInv, NEW r \in Requests, NEW c \in Convs, AcquireConversation(r, c)
  PROVE  AiInv'
<1>1. r \notin usages \cup doubt /\ requests[r].reply = None
  BY OneRequest DEF AcquireConversation, At, Late
<1>2. requests[r] \in Request
  BY OneRequest
<1>3. CASE c \in open /\ count[c] + 2 <= MaxMessages /\ Free(c)
  <2>1. /\ holder' = [holder EXCEPT ![c] = r] /\ stale' = stale \ {c}
        /\ requests' = [requests EXCEPT ![r].at = "history", ![r].conv = c]
        /\ UNCHANGED <<open, count, messages, usages, doubt>> /\ Settled(c)
    BY <1>3 DEF AcquireConversation
  <2>2. requests[r].new \in BOOLEAN
    BY <1>2 DEF Request
  <2>3. requests' = [requests EXCEPT ![r].at = "history", ![r].conv = c,
                                     ![r].new = requests[r].new]
    BY <1>2, <2>1 DEF Request
  <2>4. open' = open \cup {c}
    BY <1>3, <2>1
  <2> QED BY <1>1, <2>1, <2>2, <2>3, <2>4, EngageKeeps
<1>4. CASE Reply(r, "refused", "done") /\ UNCHANGED <<holder, stale>>
  <2>1. UNCHANGED database
    BY <1>4 DEF AcquireConversation, database
  <2>2. requests' = [requests EXCEPT ![r].at = "done", ![r].reply = "refused",
                                     ![r].excuse = requests[r].excuse]
    BY <1>2, <1>4 DEF Reply, Request
  <2>3. requests[r].excuse \in BOOLEAN
    BY <1>2 DEF Request
  <2> QED BY <1>1, <2>1, <2>2, <2>3, ReplyKeeps
<1> QED BY <1>3, <1>4 DEF AcquireConversation

LEMMA CleanupKeeps == ASSUME AiInv, NEW r \in Requests, Cleanup(r) PROVE AiInv'
<1> DEFINE c == Conv(r)
<1>1. c \in Convs
  BY OneRequest DEF Cleanup, At, Engaged
<1>2. Settled(c) /\ Finish(r) /\ UNCHANGED <<count, messages, usages, doubt>>
  BY DEF Cleanup
<1>3. CASE c \in open /\ holder[c] = r
  <2>1. /\ holder' = [holder EXCEPT ![c] = None] /\ stale' = stale \ {c}
        /\ \/ open' = open
           \/ open' = open \ {c} /\ count[c] = 0
    <3>1. open' = IF requests[r].new /\ count[c] = 0 THEN open \ {c} ELSE open
      BY <1>3 DEF Cleanup
    <3> QED BY <1>3, <3>1 DEF Cleanup
  <2>2. c \notin open' => messages'[c] = <<>>
    <3>1. count[c] = 2 * Len(messages[c]) /\ messages[c] \in Seq(Exchange)
      BY <1>1 DEF AiInv, State, StoredTogether
    <3>2. count[c] = 0 => messages[c] = <<>>
      BY <3>1
    <3> QED BY <1>1, <1>2, <1>3, <2>1, <3>2
  <2>3. stale' \subseteq Convs /\ open' \subseteq open /\ open \ open' \subseteq {c}
    BY <2>1 DEF AiInv, State
  <2> HIDE DEF c
  <2> QED BY <1>1, <1>2, <2>1, <2>2, <2>3, LockKeeps
<1>4. CASE ~(c \in open /\ holder[c] = r)
  <2>1. UNCHANGED database
    BY <1>2, <1>4 DEF Cleanup, database
  <2> QED BY <1>2, <2>1, FinishKeeps
<1> QED BY <1>3, <1>4

LEMMA DeleteKeeps == ASSUME AiInv, NEW c \in Convs, Delete(c) PROVE AiInv'
<1>1. PICK r \in Requests : r \in usages
  BY DEF Delete, Shown, AiInv, State
<1>2. messages'[c] = <<>> /\ c \notin open' /\ open' \subseteq open
      /\ open \ open' \subseteq {c} /\ stale' \subseteq Convs /\ Settled(c)
      /\ holder' = [holder EXCEPT ![c] = None]
      /\ messages' = [messages EXCEPT ![c] = <<>>] /\ count' = [count EXCEPT ![c] = 0]
      /\ UNCHANGED <<usages, doubt, requests>>
  BY DEF Delete, AiInv, State
<1> QED BY <1>1, <1>2, LockKeeps

\* A lock that runs out stays with its holder until somebody takes it.
LEMMA ExpiresKeeps == ASSUME AiInv, NEW c \in Convs, LockExpires(c) PROVE AiInv'
<1> USE DEF LockExpires
<1>1. State' /\ HistoryIsRead'
  BY DEF AiInv, State, HistoryIsRead, Locked, Conv, RequestIsSound
<1>2. DoubtIsSound' /\ RepliesAreSound'
  BY DEF AiInv, DoubtIsSound, RepliesAreSound, Locked, Conv
<1>3. ExchangesSerialized' /\ StoredTogether'
  BY DEF AiInv, ExchangesSerialized, StoredTogether
<1> QED BY <1>1, <1>2, <1>3 DEF AiInv
-----------------------------------------------------------------------------
LEMMA NextAiInv == AiInv /\ [Next]_vars => AiInv'
<1> SUFFICES ASSUME AiInv, [Next]_vars PROVE AiInv'
  OBVIOUS
<1>1. ASSUME NEW r \in Requests, Step(r) PROVE AiInv'
  <2>1. CASE CountConversations(r) \/ ReadHistory(r) \/ FallsBack(r)
    BY <2>1, CountKeeps, ReadKeeps, FallsBackKeeps
  <2>2. CASE Commit(r) \/ LoseCommit(r) \/ Decide(r)
    BY <2>2, CommitKeeps, LoseKeeps, DecideKeeps
  <2>3. CASE Abort(r) \/ CleanupFails(r) \/ Stop(r)
    BY <2>3, StopKeeps
  <2>4. CASE Recover(r) \/ ReadBack(r) \/ GiveUp(r)
    BY <2>4, RecoverKeeps
  <2>5. CASE Cleanup(r)
    BY <2>5, CleanupKeeps
  <2>6. CASE \E c \in Convs : CreateConversation(r, c) \/ AcquireConversation(r, c)
    BY <2>6, CreateKeeps, AcquireKeeps
  <2>7. CASE \E v \in Providers :
               \/ Answers(r, v) \/ ModelFails(r, v) \/ AnswerUnusable(r, v)
               \/ ToolFails(r, v) \/ \E t \in Tools : CallsTool(r, v, t)
    BY <2>7, AnswersKeeps, ModelFailsKeeps, CallsToolKeeps
  <2> QED BY <1>1, <2>1, <2>2, <2>3, <2>4, <2>5, <2>6, <2>7 DEF Step
<1>2. ASSUME NEW c \in Convs, Delete(c) \/ LockExpires(c) PROVE AiInv'
  BY <1>2, DeleteKeeps, ExpiresKeeps
<1>3. CASE UNCHANGED vars
  <2> USE <1>3 DEF vars
  <2>1. State' /\ HistoryIsRead'
    BY DEF AiInv, State, HistoryIsRead, Locked, Conv, RequestIsSound
  <2>2. DoubtIsSound' /\ RepliesAreSound'
    BY DEF AiInv, DoubtIsSound, RepliesAreSound, Locked, Conv
  <2>3. ExchangesSerialized' /\ StoredTogether'
    BY DEF AiInv, ExchangesSerialized, StoredTogether
  <2> QED BY <2>1, <2>2, <2>3 DEF AiInv
<1> QED BY <1>1, <1>2, <1>3 DEF Next

\* The inductive invariant of the assistant: what the holder of a conversation's
\* lock (acquireConversation) was given by contextHistory ends with the newest
\* message stored, and an undecided commit of persistExchange holds every other
\* write of that conversation back.
THEOREM AssistantIsSound == Spec => []AiInv
<1> QED BY InitAiInv, NextAiInv, PTL DEF Spec

\* The router keeps a turn with the provider that answered first (Asks, Took),
\* whatever calls tools, falls back or fails, and every value keeps its type.
THEOREM AssistantTypeOK == Spec => []AiTypeOK
<1>1. ASSUME AiInv, NEW r \in Requests PROVE Cardinality(requests[r].turn.used) <= 1
  <2>1. requests[r].turn.used \subseteq {requests[r].turn.pinned}
    BY <1>1, OneRequest DEF RequestIsSound
  <2>2. IsFiniteSet({requests[r].turn.pinned})
        /\ Cardinality({requests[r].turn.pinned}) = 1
    BY FS_Singleton
  <2> QED BY <2>1, <2>2, FS_Subset
<1>2. AiInv => AiTypeOK
  BY <1>1 DEF AiInv, State, AiTypeOK, Conv, Request
<1> QED BY <1>2, AssistantIsSound, PTL

\* persistExchange stores an exchange only under the lock its request has read
\* the history under (contextHistory): between the messages given to the model
\* and the exchange it answered nothing else was stored, and within the bounds
\* of the history no message in between is left out.
THEOREM ConversationsAreSerial == Spec => []ExchangesSerialized
<1> QED BY AssistantIsSound, PTL DEF AiInv

\* The transaction of persistExchange keeps messages, messageCount and usage
\* rows together, whichever commit is confirmed, lost or decided later.
THEOREM ExchangesAreWhole == Spec => []StoredTogether
<1> QED BY AssistantIsSound, PTL DEF AiInv

\* recoverCommitted tells the truth about an exchange whose outcome was lost,
\* and "error" for a saved one only where the database could not say.
THEOREM RepliesAreTrue == Spec => []ReplyIsTrue
<1>1. AiInv => ReplyIsTrue
  BY DEF AiInv, RepliesAreSound, ReplyIsTrue
<1> QED BY <1>1, AssistantIsSound, PTL
==============================================================================
