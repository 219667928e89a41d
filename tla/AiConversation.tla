--------------------------- MODULE AiConversation ---------------------------
(****************************************************************************)
(* The AI assistant.  A chat request creates a conversation, or takes the   *)
(* lock of one, reads the stored messages, lets a model answer, which may   *)
(* call read-only tools, and saves question, answer and usage row in one    *)
(* transaction that also frees the lock.  The lock runs out by itself.      *)
(* When the transaction's outcome is not known the request looks for its    *)
(* own usage row before it reports a failure.  All requests here are those  *)
(* of one user, whose company and id are in every filter of the code.       *)
(****************************************************************************)
EXTENDS Naturals, Sequences, FiniteSets

CONSTANTS
  Requests,     \* chat calls, each with its own requestId
  Convs,        \* ids of conversations
  Tools,        \* names of tools with their arguments
  Providers,    \* those of "openrouter" and "gemini" that are enabled
  MaxTools,     \* OPENROUTER_MAX_TOOL_ITERATIONS
  MaxMessages,  \* AI_MAX_CONVERSATION_MESSAGES
  MaxHistory,   \* AI_MAX_HISTORY_MESSAGES, the question included
  MaxConvs,     \* AI_MAX_CONVERSATIONS_PER_USER
  MaxFaults     \* bound: lost replies, failed reads and writes, stopped calls

None == "none"
ASSUME AiBounds ==
  /\ None \notin Requests /\ None \notin Convs
  /\ Providers \subseteq {"openrouter", "gemini"} /\ Providers # {}
  /\ {MaxTools, MaxMessages, MaxConvs, MaxFaults} \subseteq Nat
  /\ MaxHistory \in Nat \ {0, 1}

VARIABLES
  open,     \* conversations that exist
  count,    \* messageCount
  holder,   \* activeRequestId, or None
  stale,    \* conversations whose activeRequestExpiresAt has passed
  messages, \* exchanges stored: who asked, and the messages given to the model
  usages,   \* requests with a usage row
  doubt,    \* requests whose commit the database has not decided
  requests, \* per request: stage, conversation, what it read, its turn, reply
  faults

vars == <<open, count, holder, stale, messages, usages, doubt, requests, faults>>
database == <<open, count, holder, stale, messages, usages, doubt>>

\* A history: the first and the last message given to the model, counted from
\* the oldest one stored; an exchange is two messages.
NoHistory == [first |-> 1, last |-> 0]
NoTurn == [pinned |-> None, used |-> {}, tools |-> {}]
Fresh == [at |-> "idle", conv |-> None, new |-> FALSE, seen |-> NoHistory, turn |-> NoTurn,
          reply |-> None, excuse |-> FALSE]

Init ==
  /\ open = {} /\ stale = {} /\ usages = {} /\ doubt = {} /\ faults = 0
  /\ count = [c \in Convs |-> 0]
  /\ holder = [c \in Convs |-> None]
  /\ messages = [c \in Convs |-> <<>>]
  /\ requests = [r \in Requests |-> Fresh]

At(r, stage) == requests[r].at = stage
Conv(r) == requests[r].conv
Goto(r, stage) == requests' = [requests EXCEPT ![r].at = stage]
\* The turn's memory goes with the call.
Finish(r) == requests' = [requests EXCEPT ![r].at = "done", ![r].turn = NoTurn]
Reply(r, reply, stage) == requests' = [requests EXCEPT ![r].at = stage, ![r].reply = reply]
Fault == faults < MaxFaults /\ faults' = faults + 1

\* A write waits for a transaction that has the conversation open.
Settled(c) == \A r \in doubt : Conv(r) # c
Free(c) == holder[c] = None \/ c \in stale
\* The list shows conversations with messages; a tab may show one since deleted.
Shown == {Conv(r) : r \in usages}

(****************************************************************************)
(* createConversation: the count, then the insertion.                       *)
(****************************************************************************)
CountConversations(r) ==
  /\ At(r, "idle")
  /\ IF Cardinality(open) < MaxConvs THEN Goto(r, "create") ELSE Reply(r, "refused", "done")
  /\ UNCHANGED <<database, faults>>

CreateConversation(r, c) ==
  /\ At(r, "create") /\ \A q \in Requests : Conv(q) # c
  /\ open' = open \cup {c}
  /\ holder' = [holder EXCEPT ![c] = r]
  /\ requests' = [requests EXCEPT ![r].at = "history", ![r].conv = c, ![r].new = TRUE]
  /\ UNCHANGED <<count, stale, messages, usages, doubt, faults>>

(****************************************************************************)
(* acquireConversation: a free lock, or one that ran out, is taken.         *)
(****************************************************************************)
AcquireConversation(r, c) ==
  /\ At(r, "idle") /\ c \in Shown /\ Settled(c)
  /\ IF c \in open /\ count[c] + 2 <= MaxMessages /\ Free(c)
     THEN /\ holder' = [holder EXCEPT ![c] = r]
          /\ stale' = stale \ {c}
          /\ requests' = [requests EXCEPT ![r].at = "history", ![r].conv = c]
     ELSE Reply(r, "refused", "done") /\ UNCHANGED <<holder, stale>>
  /\ UNCHANGED <<open, count, messages, usages, doubt, faults>>

\* contextHistory when n exchanges are stored: the newest messages, so many
\* that the question still fits, and none beyond the first one whose length
\* goes over AI_MAX_CONTEXT_CHARS, whichever that is.
Windows(n) ==
  {w \in [first : 1..2 * n + 1, last : {2 * n}] : w.last - w.first + 2 <= MaxHistory}

ReadHistory(r) ==
  /\ At(r, "history")
  /\ \E w \in Windows(Len(messages[Conv(r)])) :
       requests' = [requests EXCEPT ![r].at = "ask", ![r].seen = w]
  /\ UNCHANGED <<database, faults>>

(****************************************************************************)
(* runAgent, and the router's complete: the first provider that answered is *)
(* kept for the turn; until then Gemini may stand in for OpenRouter.        *)
(****************************************************************************)
\* Wrong: each round begins with the preferred provider again.
AsksUnpinned(r, v) ==
  \/ At(r, "ask") /\ (v = "openrouter" \/ "openrouter" \notin Providers)
  \/ At(r, "fallback") /\ v = "gemini"

Asks(r, v) ==
  LET pinned == requests[r].turn.pinned IN
  \/ At(r, "ask") /\ pinned = v
  \/ At(r, "ask") /\ pinned = None /\ (v = "openrouter" \/ "openrouter" \notin Providers)
  \/ At(r, "fallback") /\ v = "gemini"

Took(turn, v) == [turn EXCEPT !.pinned = v, !.used = @ \cup {v}]

\* A rate limit, a timeout or an outage of OpenRouter.
FallsBack(r) ==
  /\ At(r, "ask") /\ requests[r].turn.pinned = None /\ Providers = {"openrouter", "gemini"}
  /\ Goto(r, "fallback")
  /\ UNCHANGED <<database, faults>>

CallsTool(r, v, t) ==
  LET turn == requests[r].turn IN
  /\ Asks(r, v)
  /\ requests' = [requests EXCEPT ![r].turn = [Took(turn, v) EXCEPT !.tools = @ \cup {t}],
       ![r].at = IF t \in turn.tools \/ Cardinality(turn.tools) = MaxTools
                 THEN "failed" ELSE "ask"]
  /\ UNCHANGED <<database, faults>>

Answers(r, v) ==
  /\ Asks(r, v)
  /\ requests' = [requests EXCEPT ![r].turn = Took(@, v), ![r].at = "persist"]
  /\ UNCHANGED <<database, faults>>

\* The provider refuses, or time is up, and nobody stands in.
ModelFails(r, v) ==
  /\ Asks(r, v) /\ Goto(r, "failed")
  /\ UNCHANGED <<database, faults>>

\* normalizeChatCompletion finds no usable answer: no reason to fall back.
AnswerUnusable(r, v) ==
  /\ Asks(r, v) /\ Goto(r, "failed")
  /\ UNCHANGED <<database, faults>>

\* A tool that does not exist, refuses its arguments, or fails.
ToolFails(r, v) ==
  /\ Asks(r, v)
  /\ requests' = [requests EXCEPT ![r].turn = Took(@, v), ![r].at = "failed"]
  /\ UNCHANGED <<database, faults>>

(****************************************************************************)
(* persistExchange                                                          *)
(****************************************************************************)
\* Wrong: a conversation with room takes the exchange, whoever has the lock.
StillMineIfRoom(r) == Conv(r) \in open /\ count[Conv(r)] + 2 <= MaxMessages

StillMine(r) ==
  /\ Conv(r) \in open /\ holder[Conv(r)] = r
  /\ count[Conv(r)] + 2 <= MaxMessages

Store(r) ==
  LET c == Conv(r) IN
  /\ messages' = [messages EXCEPT ![c] = Append(@, [by |-> r, seen |-> requests[r].seen])]
  /\ usages' = usages \cup {r}
  /\ count' = [count EXCEPT ![c] = @ + 2]
  /\ holder' = [holder EXCEPT ![c] = None]
  /\ stale' = stale \ {c}
  /\ UNCHANGED open

NotStored == UNCHANGED <<open, count, holder, stale, messages, usages>>

\* The commit is confirmed; or it happened, and the reply was lost.
Commit(r) ==
  /\ At(r, "persist") /\ Settled(Conv(r)) /\ StillMine(r)
  /\ Store(r)
  /\ \/ Goto(r, "read") /\ UNCHANGED faults
     \/ Goto(r, "recover") /\ Fault
  /\ UNCHANGED doubt

\* The conversation changed, or the database refused.
Abort(r) ==
  /\ At(r, "persist")
  /\ \/ Settled(Conv(r)) /\ ~StillMine(r) /\ UNCHANGED faults
     \/ Fault
  /\ Goto(r, "recover")
  /\ UNCHANGED database

\* The connection is lost while the commit is on its way.
LoseCommit(r) ==
  /\ At(r, "persist") /\ Settled(Conv(r)) /\ StillMine(r) /\ Fault
  /\ doubt' = doubt \cup {r}
  /\ Goto(r, "recover") /\ NotStored

Decide(r) ==
  /\ r \in doubt /\ doubt' = doubt \ {r}
  /\ Store(r) \/ NotStored
  /\ UNCHANGED <<requests, faults>>

\* ownedConversation after the commit
ReadBack(r) ==
  /\ At(r, "read")
  /\ \/ Conv(r) \in open /\ Reply(r, "ok", "cleanup") /\ UNCHANGED faults
     \/ Conv(r) \notin open /\ Goto(r, "recover") /\ UNCHANGED faults
     \/ Goto(r, "recover") /\ Fault
  /\ UNCHANGED database

(****************************************************************************)
(* recoverCommitted.  `excuse`: the row cannot be found, though it may be   *)
(* there, as the read failed, the commit is undecided, or the user deleted  *)
(* the conversation meanwhile.                                              *)
(****************************************************************************)
\* Wrong: whoever could not save, or hear of it, reports a failure.
RecoverNothing(r) ==
  /\ At(r, "recover") /\ Reply(r, "error", "cleanup")
  /\ UNCHANGED <<database, faults>>

Recover(r) ==
  /\ At(r, "recover")
  /\ \/ /\ r \in usages /\ Conv(r) \in open
        /\ Reply(r, "ok", "cleanup") /\ UNCHANGED faults
     \/ /\ ~(r \in usages /\ Conv(r) \in open)
        /\ requests' = [requests EXCEPT ![r].at = "cleanup", ![r].reply = "error",
                          ![r].excuse = (r \in doubt \cup usages)]
        /\ UNCHANGED faults
     \/ /\ requests' = [requests EXCEPT ![r].at = "cleanup", ![r].reply = "error",
                          ![r].excuse = TRUE]
        /\ Fault
  /\ UNCHANGED database

GiveUp(r) ==
  /\ At(r, "failed") /\ Reply(r, "error", "cleanup")
  /\ UNCHANGED <<database, faults>>

(****************************************************************************)
(* The finally block of chat: an unused new conversation goes, a lock of    *)
(* this request is freed, unless the database refuses.                      *)
(****************************************************************************)
\* Wrong: the new conversation of a request that failed goes in any case.
CleanupById(r) ==
  LET c == Conv(r) IN
  /\ At(r, "cleanup") /\ Settled(c) /\ Finish(r)
  /\ open' = IF requests[r].new /\ requests[r].reply = "error" THEN open \ {c} ELSE open
  /\ holder' = [holder EXCEPT ![c] = IF @ = r THEN None ELSE @]
  /\ UNCHANGED <<count, stale, messages, usages, doubt, faults>>

Cleanup(r) ==
  LET c == Conv(r)
      mine == c \in open /\ holder[c] = r IN
  /\ At(r, "cleanup") /\ Settled(c) /\ Finish(r)
  /\ open' = IF mine /\ requests[r].new /\ count[c] = 0 THEN open \ {c} ELSE open
  /\ holder' = IF mine THEN [holder EXCEPT ![c] = None] ELSE holder
  /\ stale' = IF mine THEN stale \ {c} ELSE stale
  /\ UNCHANGED <<count, messages, usages, doubt, faults>>

CleanupFails(r) ==
  /\ At(r, "cleanup") /\ Fault /\ Finish(r)
  /\ UNCHANGED database

(****************************************************************************)
(* The user deletes a conversation; locks run out; the process stops.       *)
(****************************************************************************)
Delete(c) ==
  /\ c \in Shown \cap open /\ Settled(c) /\ Free(c)
  /\ open' = open \ {c}
  /\ messages' = [messages EXCEPT ![c] = <<>>]
  /\ count' = [count EXCEPT ![c] = 0]
  /\ holder' = [holder EXCEPT ![c] = None]
  /\ stale' = stale \ {c}
  /\ UNCHANGED <<usages, doubt, requests, faults>>

LockExpires(c) ==
  /\ c \in open \ stale /\ holder[c] # None
  /\ stale' = stale \cup {c}
  /\ UNCHANGED <<open, count, holder, messages, usages, doubt, requests, faults>>

Stop(r) ==
  /\ ~At(r, "idle") /\ ~At(r, "done") /\ Fault
  /\ Finish(r)
  /\ UNCHANGED database

Step(r) ==
  \/ CountConversations(r) \/ ReadHistory(r) \/ FallsBack(r)
  \/ Commit(r) \/ Abort(r) \/ LoseCommit(r) \/ Decide(r) \/ ReadBack(r)
  \/ Recover(r) \/ GiveUp(r) \/ Cleanup(r) \/ CleanupFails(r) \/ Stop(r)
  \/ \E c \in Convs : CreateConversation(r, c) \/ AcquireConversation(r, c)
  \/ \E v \in Providers :
       \/ Answers(r, v) \/ ModelFails(r, v) \/ AnswerUnusable(r, v) \/ ToolFails(r, v)
       \/ \E t \in Tools : CallsTool(r, v, t)

Next ==
  \/ \E r \in Requests : Step(r)
  \/ \E c \in Convs : Delete(c) \/ LockExpires(c)

Spec == Init /\ [][Next]_vars
-----------------------------------------------------------------------------
Stages == {"idle", "create", "history", "ask", "fallback", "failed", "persist", "read",
           "recover", "cleanup", "done"}

\* Type invariant; a turn stays with one provider (the router's pin), so its
\* tool history never changes protocols.
AiTypeOK ==
  /\ open \subseteq Convs /\ stale \subseteq Convs
  /\ usages \subseteq Requests /\ doubt \subseteq Requests
  /\ count \in [Convs -> Nat]
  /\ holder \in [Convs -> Requests \cup {None}]
  /\ \A r \in Requests :
       /\ requests[r].at \in Stages /\ Conv(r) \in Convs \cup {None}
       /\ requests[r].reply \in {None, "ok", "error", "refused"}
       /\ Cardinality(requests[r].turn.used) <= 1

\* "One expiring database lease serializes requests for a conversation.
\* History is bounded": each exchange that is stored was answered from a run of
\* messages that ends with the exchange right before it, and none in between is
\* left out (contextHistory, and persistExchange's activeRequestId).
ExchangesSerialized ==
  \A c \in Convs : \A i \in 1..Len(messages[c]) : messages[c][i].seen \in Windows(i - 1)

\* Conversations, messages and usage rows tell the same story: no count is
\* off, no message outlives its conversation, every exchange has its usage.
StoredTogether ==
  \A c \in Convs :
    /\ count[c] = 2 * Len(messages[c]) /\ count[c] <= MaxMessages
    /\ c \notin open => messages[c] = <<>>
    /\ \A i \in 1..Len(messages[c]) : messages[c][i].by \in usages

\* Who is told "ok" has his exchange saved, and who is told "error" has not,
\* unless the database could not say (recoverCommitted).
ReplyIsTrue ==
  \A r \in Requests :
    /\ requests[r].reply = "ok" => r \in usages
    /\ requests[r].reply = "error" /\ r \in usages => requests[r].excuse
=============================================================================
