------------------------------ MODULE ChatSandbox ------------------------------
(***************************************************************************)
(* The chat sandbox: chats are coroutines of a uvicorn process, which give *)
(* way only at their awaits; the deletion of a session is a plain function *)
(* and runs in a thread beside them.  Each process has its own sessions    *)
(* and answers; a request goes to any process.                             *)
(***************************************************************************)
EXTENDS Naturals, Sequences, FiniteSets, SequencesExt

CONSTANTS
    Chats,       \* the requests, each with its own id
    Processes,   \* uvicorn --workers
    Sessions,
    Questions,
    MaxTurns,    \* MAX_TURNS: pairs of turns kept per session
    MaxClears,   \* bound: deletions of a session
    NoChat       \* no cached answer

ASSUME SandboxAssumption ==
    /\ IsFiniteSet(Chats)
    /\ MaxTurns \in Nat \ {0} /\ MaxClears \in Nat  \* l[-0:] is all of l
    /\ Processes # {} /\ Sessions # {} /\ Questions # {}
    /\ NoChat \notin Chats

Attempts == 3
Roles == {"user", "assistant"}
Turns == [role: Roles, chat: Chats]

VARIABLES
    chat,      \* the requests and their locals
    open,      \* _sessions.keys() of each process
    history,   \* _sessions[s], <<>> if absent
    cache,     \* _cache: the chat whose answer is kept for a question
    clears,    \* deletions so far
    gone,      \* history variable: turns a deletion removed
    raced      \* history variable: sessions deleted during the trim of their list

vars == <<chat, open, history, cache, clears, gone, raced>>
store == <<open, history>>
ghosts == <<clears, gone, raced>>

NewChat == [pc |-> "new", proc |-> CHOOSE p \in Processes : TRUE,
            session |-> CHOOSE s \in Sessions : TRUE,
            question |-> CHOOSE q \in Questions : TRUE,
            attempt |-> 0, role |-> "user", slice |-> <<>>, outcome |-> "none"]

Init ==
    /\ chat = [c \in Chats |-> NewChat]
    /\ open = [p \in Processes |-> {}]
    /\ history = [p \in Processes |-> [s \in Sessions |-> <<>>]]
    /\ cache = [p \in Processes |-> [q \in Questions |-> NoChat]]
    /\ clears = 0
    /\ gone = [p \in Processes |-> [s \in Sessions |-> {}]]
    /\ raced = [p \in Processes |-> {}]

-----------------------------------------------------------------------------
\* A coroutine between two awaits keeps its process to itself.

Adding == {"ensure", "append", "trim", "store"}

\* Mutant: add_turn is awaited.
BugAwaitedTurns(p) == \A d \in Chats : chat[d].proc = p => chat[d].pc \notin Adding \ {"ensure"}

LoopIsFree(p) == \A d \in Chats : chat[d].proc = p => chat[d].pc \notin Adding
Step(c, next) == chat' = [chat EXCEPT ![c] = next]

\* A cached answer is returned as it is: no turn is added.
Ask(c, p, s, q) ==
    /\ chat[c].pc = "new" /\ LoopIsFree(p)
    /\ LET asked == [chat[c] EXCEPT !.proc = p, !.session = s, !.question = q] IN
       IF cache[p][q] # NoChat
       THEN Step(c, [asked EXCEPT !.pc = "done", !.outcome = "cached"])
       ELSE Step(c, [asked EXCEPT !.pc = "sql"])
    /\ UNCHANGED <<open, history, cache, clears, gone, raced>>

\* generate_sql answers and the query runs.
QueryWorks(c) ==
    /\ chat[c].pc = "sql" /\ LoopIsFree(chat[c].proc)
    /\ Step(c, [chat[c] EXCEPT !.pc = "insight"])
    /\ UNCHANGED <<open, history, cache, clears, gone, raced>>

\* Mutant: the attempts are counted afresh after the third.
BugRetriesRestart(c) ==
    /\ chat[c].pc = "sql" /\ LoopIsFree(chat[c].proc)
    /\ Step(c, [chat[c] EXCEPT !.attempt = (chat[c].attempt + 1) % Attempts])
    /\ UNCHANGED <<open, history, cache, clears, gone, raced>>

\* The model or the query fails; the third failure is an answer of its own.
QueryFails(c) ==
    /\ chat[c].pc = "sql" /\ LoopIsFree(chat[c].proc)
    /\ LET n == chat[c].attempt + 1 IN
       IF n < Attempts THEN Step(c, [chat[c] EXCEPT !.attempt = n])
       ELSE Step(c, [chat[c] EXCEPT !.attempt = n, !.pc = "ensure", !.outcome = "failed"])
    /\ UNCHANGED <<open, history, cache, clears, gone, raced>>

InsightComes(c) ==
    /\ chat[c].pc = "insight" /\ LoopIsFree(chat[c].proc)
    /\ Step(c, [chat[c] EXCEPT !.pc = "ensure", !.outcome = "answered"])
    /\ UNCHANGED <<open, history, cache, clears, gone, raced>>

\* An exception outside the try: the client gets an error 500.
Raised(c) == Step(c, [chat[c] EXCEPT !.pc = "done", !.outcome = "raised"])

\* advise_chart on a NULL value, or generate_insight.
ChatRaises(c) ==
    /\ chat[c].pc \in {"sql", "insight"} /\ LoopIsFree(chat[c].proc)
    /\ Raised(c)
    /\ UNCHANGED <<open, history, cache, clears, gone, raced>>

-----------------------------------------------------------------------------
\* add_turn, once for the question and once for the answer.

\* Mutant: the list is created whether the session has one or not.
BugAlwaysNewList(c) ==
    /\ chat[c].pc = "ensure"
    /\ open' = [open EXCEPT ![chat[c].proc] = @ \cup {chat[c].session}]
    /\ history' = IF chat[c].role = "assistant" THEN history
                  ELSE [history EXCEPT ![chat[c].proc][chat[c].session] = <<>>]
    /\ Step(c, [chat[c] EXCEPT !.pc = "append"])
    /\ UNCHANGED <<cache, clears, gone, raced>>

EnsureSession(c) ==
    /\ chat[c].pc = "ensure"
    /\ open' = [open EXCEPT ![chat[c].proc] = @ \cup {chat[c].session}]
    /\ Step(c, [chat[c] EXCEPT !.pc = "append"])
    /\ UNCHANGED <<history, cache, clears, gone, raced>>

\* The session is gone when add_turn looks it up: KeyError.
SessionMissing(c) ==
    /\ chat[c].pc \in {"append", "trim"}
    /\ chat[c].session \notin open[chat[c].proc]
    /\ Raised(c)
    /\ UNCHANGED <<open, history, cache, clears, gone, raced>>

AppendTurn(c) ==
    /\ chat[c].pc = "append" /\ chat[c].session \in open[chat[c].proc]
    /\ history' = [history EXCEPT ![chat[c].proc][chat[c].session] =
                     Append(@, [role |-> chat[c].role, chat |-> c])]
    /\ Step(c, [chat[c] EXCEPT !.pc = "trim"])
    /\ UNCHANGED <<open, cache, clears, gone, raced>>

\* Mutant: the answer of a chat that failed is cached as well.
BugCacheFailures(c) ==
    IF chat[c].role = "user"
    THEN Step(c, [chat[c] EXCEPT !.pc = "ensure", !.role = "assistant", !.slice = <<>>]) /\ UNCHANGED cache
    ELSE /\ Step(c, [chat[c] EXCEPT !.pc = "done", !.slice = <<>>])
         /\ cache' = [cache EXCEPT ![chat[c].proc][chat[c].question] = c]

\* After the question's turn comes the answer's; an answered chat is cached.
TurnAdded(c) ==
    IF chat[c].role = "user"
    THEN Step(c, [chat[c] EXCEPT !.pc = "ensure", !.role = "assistant", !.slice = <<>>]) /\ UNCHANGED cache
    ELSE /\ Step(c, [chat[c] EXCEPT !.pc = "done", !.slice = <<>>])
         /\ cache' = IF chat[c].outcome = "answered"
                     THEN [cache EXCEPT ![chat[c].proc][chat[c].question] = c] ELSE cache

\* Mutant: the history is never cut.
BugNoTrim(c) ==
    /\ chat[c].pc = "trim" /\ chat[c].session \in open[chat[c].proc]
    /\ TurnAdded(c)
    /\ UNCHANGED <<open, history, clears, gone, raced>>

\* _sessions[s] = _sessions[s][-2 * MAX_TURNS:] reads in one step and writes in
\* the next.
TrimRead(c) ==
    /\ chat[c].pc = "trim" /\ chat[c].session \in open[chat[c].proc]
    /\ LET turns == history[chat[c].proc][chat[c].session] IN
       IF Len(turns) > 2 * MaxTurns
       THEN Step(c, [chat[c] EXCEPT !.pc = "store", !.slice = SubSeq(turns, Len(turns) - 2 * MaxTurns + 1, Len(turns))])
            /\ UNCHANGED cache
       ELSE TurnAdded(c)
    /\ UNCHANGED <<open, history, clears, gone, raced>>

TrimStore(c) ==
    /\ chat[c].pc = "store"
    /\ open' = [open EXCEPT ![chat[c].proc] = @ \cup {chat[c].session}]
    /\ history' = [history EXCEPT ![chat[c].proc][chat[c].session] = chat[c].slice]
    /\ TurnAdded(c)
    /\ UNCHANGED <<clears, gone, raced>>

-----------------------------------------------------------------------------
\* delete_session runs in the thread pool of the process that got the request.

\* Mutant: the key is removed, and a later turn finds the old list again.
BugListSurvives(p, s) ==
    /\ clears < MaxClears
    /\ clears' = clears + 1
    /\ open' = [open EXCEPT ![p] = @ \ {s}]
    /\ gone' = [gone EXCEPT ![p][s] = @ \cup ToSet(history[p][s])]
    /\ UNCHANGED <<chat, history, cache, raced>>

ClearSession(p, s) ==
    /\ clears < MaxClears
    /\ clears' = clears + 1
    /\ open' = [open EXCEPT ![p] = @ \ {s}]
    /\ history' = [history EXCEPT ![p][s] = <<>>]
    /\ gone' = [gone EXCEPT ![p][s] = @ \cup ToSet(history[p][s])]
    /\ raced' = IF \E c \in Chats : chat[c].pc = "store" /\ chat[c].proc = p /\ chat[c].session = s
                THEN [raced EXCEPT ![p] = @ \cup {s}] ELSE raced
    /\ UNCHANGED <<chat, cache>>

\* The entry is older than TTL: the next lookup deletes it.
CacheExpires(p, q) ==
    /\ cache[p][q] # NoChat
    /\ cache' = [cache EXCEPT ![p][q] = NoChat]
    /\ UNCHANGED <<chat, open, history, clears, gone, raced>>

ChatStep(c) ==
    \/ QueryWorks(c) \/ QueryFails(c) \/ InsightComes(c) \/ ChatRaises(c)
    \/ EnsureSession(c) \/ SessionMissing(c) \/ AppendTurn(c) \/ TrimRead(c) \/ TrimStore(c)

Next ==
    \/ \E c \in Chats : ChatStep(c) \/ \E p \in Processes, s \in Sessions, q \in Questions : Ask(c, p, s, q)
    \/ \E p \in Processes : \/ \E s \in Sessions : ClearSession(p, s)
                            \/ \E q \in Questions : CacheExpires(p, q)

Spec == Init /\ [][Next]_vars

\* The event loop resumes every coroutine, and the model service answers.
FairSpec == Spec /\ \A c \in Chats : WF_vars(ChatStep(c))

-----------------------------------------------------------------------------
\* Properties.

Steps == {"new", "sql", "insight", "done"} \cup Adding
Outcomes == {"none", "cached", "answered", "failed", "raised"}
ChatStates == [pc : Steps, proc : Processes, session : Sessions, question : Questions,
               attempt : 0 .. Attempts, role : Roles, slice : Seq(Turns), outcome : Outcomes]

\* The sessions, the cache and the locals of the coroutines keep their types,
\* and a session keeps at most MAX_TURNS pairs outside add_turn (session.py:23).
TypeOK ==
    /\ chat \in [Chats -> ChatStates]
    /\ open \in [Processes -> SUBSET Sessions]
    /\ history \in [Processes -> [Sessions -> Seq(Turns)]]
    /\ cache \in [Processes -> [Questions -> Chats \cup {NoChat}]]
    /\ clears \in 0 .. MaxClears
    /\ gone \in [Processes -> [Sessions -> SUBSET Turns]]
    /\ raced \in [Processes -> SUBSET Sessions]
    /\ \A p \in Processes, s \in Sessions :
         LoopIsFree(p) => Len(history[p][s]) <= 2 * MaxTurns

\* format_history shows the model a question and then its answer: a question's
\* turn is followed by the answer of the same chat, however chats and deletions
\* of one session interleave (main.py:79-80).
AnswersFollowQuestions ==
    \A p \in Processes, s \in Sessions :
      LET turns == history[p][s] IN
      \A i \in 1 .. Len(turns) : turns[i].role = "user" =>
        IF i < Len(turns) THEN turns[i + 1] = [role |-> "assistant", chat |-> turns[i].chat]
        ELSE chat[turns[i].chat].pc \in Adding

\* A chat that ended with its turns added is in its session's history, unless
\* the session was deleted or more than MAX_TURNS chats of it have written
\* answers: concurrent chats lose nothing (main.py:79, session.py:19-24).
AnsweredIsRemembered ==
    \A c \in Chats : (chat[c].pc = "done" /\ chat[c].outcome \in {"answered", "failed"}) =>
      LET p == chat[c].proc  s == chat[c].session
          turn == [role |-> "assistant", chat |-> c]
      IN \/ turn \in ToSet(history[p][s]) \cup gone[p][s]
         \/ Cardinality({d \in Chats : chat[d].proc = p /\ chat[d].session = s
                           /\ chat[d].role = "assistant"}) > MaxTurns

\* "cleared" (main.py:96): turns that a deletion removed come back in that
\* process only if the deletion met the trim of the same list half way.
ClearedStaysGone ==
    \A p \in Processes, s \in Sessions :
      ToSet(history[p][s]) \cap gone[p][s] # {} => s \in raced[p]

\* Only an answer whose chat ended well is served to other chats (main.py:90).
CacheHoldsAnswers ==
    \A p \in Processes, q \in Questions : cache[p][q] # NoChat =>
      /\ chat[cache[p][q]].pc = "done" /\ chat[cache[p][q]].outcome = "answered"
      /\ chat[cache[p][q]].question = q /\ chat[cache[p][q]].proc = p

\* Every chat gets a response: three attempts at most, and no wait for another.
EveryChatEnds == \A c \in Chats : (chat[c].pc # "new") ~> (chat[c].pc = "done")
=============================================================================
