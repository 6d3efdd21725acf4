--------------------------- MODULE ChatSandboxProofs ---------------------------
(* Theorems about ChatSandbox, for any number of chats, processes,         *)
(* sessions, questions, turns kept and deletions.                          *)
EXTENDS ChatSandbox, SequenceTheorems, FiniteSetTheorems, TLAPS

LEMMA Parameters ==
  /\ MaxTurns \in Nat /\ MaxClears \in Nat
  /\ Processes # {} /\ Sessions # {} /\ Questions # {}
  /\ NoChat \notin Chats
  BY SandboxAssumption DEF SandboxAssumption

USE Parameters DEF Step

(* Every step of a chat changes the locals of that chat alone.             *)
Typed ==
    /\ chat \in [Chats -> ChatStates]
    /\ open \in [Processes -> SUBSET Sessions]
    /\ history \in [Processes -> [Sessions -> Seq(Turns)]]
    /\ cache \in [Processes -> [Questions -> Chats \cup {NoChat}]]
    /\ clears \in 0 .. MaxClears
    /\ gone \in [Processes -> [Sessions -> SUBSET Turns]]
    /\ raced \in [Processes -> SUBSET Sessions]

\* A coroutine inside add_turn has its process to itself.
OneAdding ==
    \A c, d \in Chats :
      chat[c].pc \in Adding /\ chat[d].pc \in Adding /\ chat[c].proc = chat[d].proc => c = d

Closed == \A p \in Processes, s \in Sessions : s \notin open[p] => history[p][s] = <<>>

\* The list of a session is too long by one only while its chat trims it.
Sized ==
    /\ \A p \in Processes, s \in Sessions :
         \/ Len(history[p][s]) <= 2 * MaxTurns
         \/ /\ Len(history[p][s]) <= 2 * MaxTurns + 1
            /\ \E c \in Chats : /\ chat[c].pc \in {"trim", "store"}
                                /\ chat[c].proc = p /\ chat[c].session = s
    /\ \A c \in Chats : chat[c].pc = "store" => Len(chat[c].slice) <= 2 * MaxTurns

\* A chat that still queries has attempts left.
Trying == \A c \in Chats : chat[c].pc \in {"new", "sql"} => chat[c].attempt < Attempts

Base == Typed /\ Trying /\ OneAdding /\ Closed /\ Sized

LEMMA InitBase == Init => Base
<1> SUFFICES ASSUME Init PROVE Base
  OBVIOUS
<1>1. NewChat \in ChatStates
  BY DEF NewChat, ChatStates, Steps, Adding, Roles, Outcomes, Attempts
<1>2. chat \in [Chats -> ChatStates] /\ \A c \in Chats : chat[c].pc = "new" /\ chat[c].attempt = 0
  BY <1>1 DEF Init, NewChat
<1>3. Typed
  BY <1>2 DEF Init, Typed
<1>4. OneAdding
  BY <1>2 DEF OneAdding, Adding
<1>5. \A p \in Processes, s \in Sessions : history[p][s] = <<>>
  BY DEF Init
<1>6. Closed /\ Sized
  BY <1>2, <1>5 DEF Closed, Sized
<1> QED
  BY <1>2, <1>3, <1>4, <1>6 DEF Base, Trying, Attempts

LEMMA SubSeqTurns ==
  ASSUME NEW turns \in Seq(Turns), Len(turns) > 2 * MaxTurns
  PROVE  LET slice == SubSeq(turns, Len(turns) - 2 * MaxTurns + 1, Len(turns)) IN
         /\ slice \in Seq(Turns)
         /\ Len(slice) = 2 * MaxTurns
         /\ \A i \in 1 .. Len(slice) :
              slice[i] = turns[Len(turns) - 2 * MaxTurns + i]
<1> DEFINE m == Len(turns) - 2 * MaxTurns + 1
<1>1. Len(turns) \in Nat /\ m \in 1 .. Len(turns) + 1 /\ m \in Int
  BY LenProperties
<1>2. \A i \in m .. Len(turns) : turns[i] \in Turns
  BY <1>1, ElementOfSeq
<1>3. /\ SubSeq(turns, m, Len(turns)) \in Seq(Turns)
      /\ Len(SubSeq(turns, m, Len(turns))) = 2 * MaxTurns
      /\ \A i \in 1 .. 2 * MaxTurns : SubSeq(turns, m, Len(turns))[i] = turns[m + i - 1]
  BY <1>1, <1>2 DEF Turns
<1> QED
  BY <1>1, <1>3

LEMMA LocalsTyped ==
  ASSUME NEW x \in ChatStates
  PROVE  /\ \A pc \in Steps : [x EXCEPT !.pc = pc] \in ChatStates
         /\ \A pc \in Steps, o \in Outcomes : [x EXCEPT !.pc = pc, !.outcome = o] \in ChatStates
         /\ \A n \in 0 .. Attempts : [x EXCEPT !.attempt = n] \in ChatStates
         /\ \A n \in 0 .. Attempts, pc \in Steps, o \in Outcomes :
              [x EXCEPT !.attempt = n, !.pc = pc, !.outcome = o] \in ChatStates
         /\ \A pc \in Steps, r \in Roles, l \in Seq(Turns) :
              [x EXCEPT !.pc = pc, !.role = r, !.slice = l] \in ChatStates
         /\ \A pc \in Steps, l \in Seq(Turns) : [x EXCEPT !.pc = pc, !.slice = l] \in ChatStates
         /\ \A p \in Processes, s \in Sessions, q \in Questions :
              [x EXCEPT !.proc = p, !.session = s, !.question = q] \in ChatStates
  BY DEF ChatStates

LEMMA StepTyped ==
  ASSUME NEW c \in Chats, NEW next \in ChatStates, Typed, Step(c, next)
  PROVE  chat' \in [Chats -> ChatStates]
  BY DEF Typed

-----------------------------------------------------------------------------
(* What each step does to the chat that takes it; the others stay as they  *)
(* are.                                                                    *)
Alone(c) == \A d \in Chats : d # c => chat'[d] = chat[d]
SameRequest(c) == /\ chat'[c].proc = chat[c].proc /\ chat'[c].session = chat[c].session
                  /\ chat'[c].question = chat[c].question

LEMMA StepEffect ==
  ASSUME Typed, NEW c \in Chats, NEW next, Step(c, next)
  PROVE  chat'[c] = next /\ Alone(c)
  BY DEF Typed, Alone

LEMMA AskEffect ==
  ASSUME Typed, NEW c \in Chats, NEW p \in Processes, NEW s \in Sessions, NEW q \in Questions, Ask(c, p, s, q)
  PROVE  /\ Alone(c)
         /\ chat[c].pc = "new"
         /\ chat'[c].pc = "sql" \/ (chat'[c].pc = "done" /\ chat'[c].outcome = "cached")
         /\ chat'[c].attempt = chat[c].attempt /\ chat'[c].role = chat[c].role
         /\ UNCHANGED <<open, history, cache, gone, raced>>
<1>1. chat[c] \in ChatStates
  BY DEF Typed
<1> DEFINE asked == [chat[c] EXCEPT !.proc = p, !.session = s, !.question = q]
<1>2. \/ Step(c, [asked EXCEPT !.pc = "done", !.outcome = "cached"])
      \/ Step(c, [asked EXCEPT !.pc = "sql"])
  BY DEF Ask
<1>3. Alone(c) /\ (\/ chat'[c] = [asked EXCEPT !.pc = "done", !.outcome = "cached"]
                   \/ chat'[c] = [asked EXCEPT !.pc = "sql"])
  BY <1>2, StepEffect
<1> QED
  BY <1>1, <1>3 DEF Ask, ChatStates

Querying(c) == QueryWorks(c) \/ QueryFails(c) \/ InsightComes(c) \/ ChatRaises(c)

LEMMA QueryEffect ==
  ASSUME Typed, NEW c \in Chats, Querying(c)
  PROVE  /\ Alone(c) /\ SameRequest(c)
         /\ chat[c].pc \in {"sql", "insight"} /\ LoopIsFree(chat[c].proc)
         /\ \/ chat'[c].pc = "sql" /\ chat'[c].attempt < Attempts
            \/ chat'[c].pc \in {"insight", "ensure"}
            \/ chat'[c].pc = "done" /\ chat'[c].outcome = "raised"
         /\ chat'[c].role = chat[c].role
         /\ UNCHANGED <<open, history, cache, gone, raced>>
<1>1. chat[c] \in ChatStates
  BY DEF Typed
<1>2. CASE QueryWorks(c)
  <2>1. Alone(c) /\ chat'[c] = [chat[c] EXCEPT !.pc = "insight"]
    BY <1>2, StepEffect DEF QueryWorks
  <2> QED
    BY <1>1, <1>2, <2>1 DEF QueryWorks, SameRequest, ChatStates
<1>3. CASE QueryFails(c)
  <2> DEFINE n == chat[c].attempt + 1
  <2>1. CASE n < Attempts
    <3>1. Alone(c) /\ chat'[c] = [chat[c] EXCEPT !.attempt = n]
      BY <1>3, <2>1, StepEffect DEF QueryFails
    <3> QED
      BY <1>1, <1>3, <2>1, <3>1 DEF QueryFails, SameRequest, ChatStates
  <2>2. CASE ~(n < Attempts)
    <3>1. Alone(c) /\ chat'[c] = [chat[c] EXCEPT !.attempt = n, !.pc = "ensure", !.outcome = "failed"]
      BY <1>3, <2>2, StepEffect DEF QueryFails
    <3> QED
      BY <1>1, <1>3, <2>2, <3>1 DEF QueryFails, SameRequest, ChatStates
  <2> QED
    BY <2>1, <2>2
<1>4. CASE InsightComes(c)
  <2>1. Alone(c) /\ chat'[c] = [chat[c] EXCEPT !.pc = "ensure", !.outcome = "answered"]
    BY <1>4, StepEffect DEF InsightComes
  <2> QED
    BY <1>1, <1>4, <2>1 DEF InsightComes, SameRequest, ChatStates
<1>5. CASE ChatRaises(c)
  <2>1. Alone(c) /\ chat'[c] = [chat[c] EXCEPT !.pc = "done", !.outcome = "raised"]
    BY <1>5, StepEffect DEF ChatRaises, Raised
  <2> QED
    BY <1>1, <1>5, <2>1 DEF ChatRaises, SameRequest, ChatStates
<1> QED
  BY <1>2, <1>3, <1>4, <1>5 DEF Querying

LEMMA EnsureEffect ==
  ASSUME Typed, NEW c \in Chats, EnsureSession(c)
  PROVE  /\ Alone(c) /\ SameRequest(c)
         /\ chat[c].pc = "ensure" /\ chat'[c].pc = "append"
         /\ chat'[c].role = chat[c].role /\ chat'[c].outcome = chat[c].outcome
         /\ UNCHANGED <<history, cache, gone, raced>>
<1>1. chat[c] \in ChatStates
  BY DEF Typed
<1>2. Alone(c) /\ chat'[c] = [chat[c] EXCEPT !.pc = "append"]
  BY StepEffect DEF EnsureSession
<1> QED
  BY <1>1, <1>2 DEF EnsureSession, SameRequest, ChatStates

LEMMA MissingEffect ==
  ASSUME Typed, NEW c \in Chats, SessionMissing(c)
  PROVE  /\ Alone(c) /\ SameRequest(c)
         /\ chat[c].pc \in {"append", "trim"} /\ chat[c].session \notin open[chat[c].proc]
         /\ chat'[c].pc = "done" /\ chat'[c].role = chat[c].role /\ chat'[c].outcome = "raised"
         /\ UNCHANGED <<open, history, cache, gone, raced>>
<1>1. chat[c] \in ChatStates
  BY DEF Typed
<1>2. Alone(c) /\ chat'[c] = [chat[c] EXCEPT !.pc = "done", !.outcome = "raised"]
  BY StepEffect DEF SessionMissing, Raised
<1> QED
  BY <1>1, <1>2 DEF SessionMissing, SameRequest, ChatStates

TurnOf(c) == [role |-> chat[c].role, chat |-> c]

LEMMA AppendEffect ==
  ASSUME Typed, NEW c \in Chats, AppendTurn(c)
  PROVE  /\ Alone(c) /\ SameRequest(c)
         /\ chat[c].pc = "append" /\ chat'[c].pc = "trim"
         /\ chat'[c].role = chat[c].role /\ chat'[c].outcome = chat[c].outcome
         /\ history'[chat[c].proc][chat[c].session] = Append(history[chat[c].proc][chat[c].session], TurnOf(c))
         /\ \A p \in Processes, s \in Sessions :
              p # chat[c].proc \/ s # chat[c].session => history'[p][s] = history[p][s]
         /\ chat[c].session \in open[chat[c].proc]
         /\ UNCHANGED <<open, cache, gone, raced>>
<1>1. chat[c] \in ChatStates
  BY DEF Typed
<1>2. Alone(c) /\ chat'[c] = [chat[c] EXCEPT !.pc = "trim"]
  BY StepEffect DEF AppendTurn
<1>3. chat'[c].pc = "trim" /\ chat'[c].role = chat[c].role /\ chat'[c].outcome = chat[c].outcome /\ SameRequest(c)
  BY <1>1, <1>2 DEF SameRequest, ChatStates
<1>4. chat[c].proc \in Processes /\ chat[c].session \in Sessions
  BY <1>1 DEF ChatStates
<1>5. /\ history'[chat[c].proc][chat[c].session] = Append(history[chat[c].proc][chat[c].session], TurnOf(c))
      /\ \A p \in Processes, s \in Sessions :
           p # chat[c].proc \/ s # chat[c].session => history'[p][s] = history[p][s]
  BY <1>4 DEF AppendTurn, Typed, TurnOf
<1> QED
  BY <1>2, <1>3, <1>5 DEF AppendTurn

\* The turn of the question is in place and that of the answer follows, or
\* the chat ends.
AddedEffect(c) ==
    \/ chat[c].role = "user" /\ chat'[c].pc = "ensure" /\ chat'[c].role = "assistant" /\ UNCHANGED cache
    \/ /\ chat[c].role = "assistant" /\ chat'[c].pc = "done" /\ chat'[c].role = "assistant"
       /\ chat'[c].outcome = chat[c].outcome
       /\ \A p \in Processes, q \in Questions :
            cache'[p][q] = IF chat[c].outcome = "answered" /\ p = chat[c].proc /\ q = chat[c].question
                           THEN c ELSE cache[p][q]

LEMMA TurnAddedEffect ==
  ASSUME Typed, NEW c \in Chats, TurnAdded(c)
  PROVE  Alone(c) /\ SameRequest(c) /\ AddedEffect(c)
<1>1. chat[c] \in ChatStates
  BY DEF Typed
<1>2. CASE chat[c].role = "user"
  <2>1. Alone(c) /\ chat'[c] = [chat[c] EXCEPT !.pc = "ensure", !.role = "assistant", !.slice = <<>>]
    BY <1>2, StepEffect DEF TurnAdded
  <2>2. SameRequest(c) /\ chat'[c].pc = "ensure" /\ chat'[c].role = "assistant"
    BY <1>1, <2>1 DEF SameRequest, ChatStates
  <2> QED
    BY <1>2, <2>1, <2>2 DEF TurnAdded, AddedEffect
<1>3. CASE chat[c].role # "user"
  <2>1. chat[c].role = "assistant"
    BY <1>1, <1>3 DEF ChatStates, Roles
  <2>2. Alone(c) /\ chat'[c] = [chat[c] EXCEPT !.pc = "done", !.slice = <<>>]
    BY <1>3, StepEffect DEF TurnAdded
  <2>3. SameRequest(c) /\ chat'[c].pc = "done" /\ chat'[c].role = "assistant" /\ chat'[c].outcome = chat[c].outcome
    BY <1>1, <2>1, <2>2 DEF SameRequest, ChatStates
  <2>4. \A p \in Processes, q \in Questions :
          cache'[p][q] = IF chat[c].outcome = "answered" /\ p = chat[c].proc /\ q = chat[c].question
                         THEN c ELSE cache[p][q]
    BY <1>3 DEF TurnAdded, Typed
  <2> QED
    BY <2>1, <2>2, <2>3, <2>4 DEF AddedEffect
<1> QED
  BY <1>2, <1>3

LEMMA TrimReadEffect ==
  ASSUME Typed, NEW c \in Chats, TrimRead(c)
  PROVE  LET turns == history[chat[c].proc][chat[c].session] IN
         /\ Alone(c) /\ SameRequest(c)
         /\ chat[c].pc = "trim" /\ chat[c].session \in open[chat[c].proc]
         /\ \/ /\ Len(turns) > 2 * MaxTurns /\ turns \in Seq(Turns)
               /\ chat'[c].slice = SubSeq(turns, Len(turns) - 2 * MaxTurns + 1, Len(turns))
               /\ chat'[c].pc = "store" /\ chat'[c].role = chat[c].role /\ UNCHANGED cache
            \/ Len(turns) <= 2 * MaxTurns /\ AddedEffect(c)
         /\ UNCHANGED <<open, history, gone, raced>>
<1> DEFINE turns == history[chat[c].proc][chat[c].session]
           slice == SubSeq(turns, Len(turns) - 2 * MaxTurns + 1, Len(turns))
<1>1. chat[c] \in ChatStates
  BY DEF Typed
<1>2. turns \in Seq(Turns) /\ Len(turns) \in Nat
  BY <1>1, LenProperties DEF Typed, ChatStates
<1>3. CASE Len(turns) > 2 * MaxTurns
  <2>1. Alone(c) /\ chat'[c] = [chat[c] EXCEPT !.pc = "store", !.slice = slice]
    BY <1>3, StepEffect DEF TrimRead
  <2>2. SameRequest(c) /\ chat'[c].pc = "store" /\ chat'[c].slice = slice /\ chat'[c].role = chat[c].role
    BY <1>1, <2>1 DEF SameRequest, ChatStates
  <2> QED
    BY <1>2, <1>3, <2>1, <2>2 DEF TrimRead
<1>4. CASE ~(Len(turns) > 2 * MaxTurns)
  <2>1. TurnAdded(c)
    BY <1>4 DEF TrimRead
  <2> QED
    BY <1>2, <1>4, <2>1, TurnAddedEffect DEF TrimRead
<1> QED
  BY <1>3, <1>4

LEMMA TrimStoreEffect ==
  ASSUME Typed, NEW c \in Chats, TrimStore(c)
  PROVE  /\ Alone(c) /\ SameRequest(c)
         /\ chat[c].pc = "store" /\ AddedEffect(c)
         /\ \A p \in Processes, s \in Sessions :
              history'[p][s] = IF p = chat[c].proc /\ s = chat[c].session
                               THEN chat[c].slice ELSE history[p][s]
         /\ \A p \in Processes : open[p] \subseteq open'[p]
         /\ chat[c].session \in open'[chat[c].proc]
         /\ UNCHANGED <<gone, raced>>
<1>1. chat[c].proc \in Processes /\ chat[c].session \in Sessions
  BY DEF Typed, ChatStates
<1> QED
  BY <1>1, TurnAddedEffect DEF TrimStore, Typed

LEMMA ClearEffect ==
  ASSUME Typed, NEW p \in Processes, NEW s \in Sessions, ClearSession(p, s)
  PROVE  /\ UNCHANGED <<chat, cache>>
         /\ \A r \in Processes, t \in Sessions :
              IF r = p /\ t = s
              THEN /\ t \notin open'[r] /\ history'[r][t] = <<>>
                   /\ gone'[r][t] = gone[r][t] \cup ToSet(history[r][t])
                   /\ (\E c \in Chats : chat[c].pc = "store" /\ chat[c].proc = p /\ chat[c].session = s)
                        => t \in raced'[r]
              ELSE /\ t \in open'[r] <=> t \in open[r]
                   /\ history'[r][t] = history[r][t] /\ gone'[r][t] = gone[r][t]
         /\ \A r \in Processes : raced[r] \subseteq raced'[r]
  BY DEF ClearSession, Typed

\* Every step is one of these.
LEMMA Cases ==
  ASSUME [Next]_vars
  PROVE  \/ \E c \in Chats, p \in Processes, s \in Sessions, q \in Questions : Ask(c, p, s, q)
         \/ \E c \in Chats : Querying(c)
         \/ \E c \in Chats : EnsureSession(c)
         \/ \E c \in Chats : SessionMissing(c)
         \/ \E c \in Chats : AppendTurn(c)
         \/ \E c \in Chats : TrimRead(c)
         \/ \E c \in Chats : TrimStore(c)
         \/ \E p \in Processes, s \in Sessions : ClearSession(p, s)
         \/ \E p \in Processes, q \in Questions : CacheExpires(p, q)
         \/ UNCHANGED vars
  BY DEF Next, ChatStep, Querying

-----------------------------------------------------------------------------
LEMMA NextTrying == Typed /\ Trying /\ [Next]_vars => Trying'
<1> SUFFICES ASSUME Typed, Trying, [Next]_vars PROVE Trying'
  OBVIOUS
<1>1. ASSUME NEW c \in Chats, Alone(c), chat'[c].pc \in {"new", "sql"} => chat'[c].attempt < Attempts
      PROVE  Trying'
  BY <1>1 DEF Trying, Alone
<1>2. ASSUME NEW c \in Chats, NEW p \in Processes, NEW s \in Sessions, NEW q \in Questions, Ask(c, p, s, q)
      PROVE  Trying'
  BY <1>1, <1>2, AskEffect DEF Trying
<1>3. ASSUME NEW c \in Chats, Querying(c) PROVE Trying'
  BY <1>1, <1>3, QueryEffect
<1>4. ASSUME NEW c \in Chats, EnsureSession(c) \/ SessionMissing(c) \/ AppendTurn(c) PROVE Trying'
  BY <1>1, <1>4, EnsureEffect, MissingEffect, AppendEffect
<1>5. ASSUME NEW c \in Chats, TrimRead(c) \/ TrimStore(c) PROVE Trying'
  BY <1>1, <1>5, TrimReadEffect, TrimStoreEffect DEF AddedEffect
<1>6. ASSUME UNCHANGED chat PROVE Trying'
  BY <1>6 DEF Trying
<1> QED
  BY Cases, <1>2, <1>3, <1>4, <1>5, <1>6 DEF ClearSession, CacheExpires, vars

LEMMA NextTyped == Typed /\ Trying /\ [Next]_vars => Typed'
<1> SUFFICES ASSUME Typed, Trying, [Next]_vars PROVE Typed'
  OBVIOUS
<1> USE DEF Typed
<1>a. /\ {"sql", "insight", "ensure", "append", "trim", "store", "done"} \subseteq Steps
      /\ {"cached", "answered", "failed", "raised"} \subseteq Outcomes
      /\ "assistant" \in Roles /\ <<>> \in Seq(Turns)
  BY EmptySeq DEF Steps, Adding, Outcomes, Roles
<1>b. \A c \in Chats : chat[c] \in ChatStates
  OBVIOUS
<1>c. \A c \in Chats : /\ chat[c].attempt \in 0 .. Attempts
                       /\ chat[c].attempt + 1 < Attempts => chat[c].attempt + 1 \in 0 .. Attempts
                       /\ chat[c].pc = "sql" => chat[c].attempt + 1 \in 0 .. Attempts
  <2> TAKE c \in Chats
  <2>1. chat[c].attempt \in 0 .. Attempts
    BY <1>b DEF ChatStates
  <2>2. chat[c].pc = "sql" => chat[c].attempt < Attempts
    BY DEF Trying
  <2> HIDE DEF Typed
  <2> QED
    BY <2>1, <2>2 DEF Attempts
<1>1. ASSUME NEW c \in Chats, NEW p \in Processes, NEW s \in Sessions, NEW q \in Questions,
             Ask(c, p, s, q)
      PROVE  Typed'
  <2> DEFINE asked == [chat[c] EXCEPT !.proc = p, !.session = s, !.question = q]
  <2>1. asked \in ChatStates
    BY <1>b, LocalsTyped
  <2>2. [asked EXCEPT !.pc = "sql"] \in ChatStates /\ [asked EXCEPT !.pc = "done", !.outcome = "cached"] \in ChatStates
    BY <1>a, <2>1, LocalsTyped
  <2> QED
    BY <1>1, <2>2 DEF Ask
<1>2. ASSUME NEW c \in Chats, Raised(c)
      PROVE  chat' \in [Chats -> ChatStates]
  <2>1. [chat[c] EXCEPT !.pc = "done", !.outcome = "raised"] \in ChatStates
    BY <1>a, <1>b, LocalsTyped
  <2> QED
    BY <1>2, <2>1 DEF Raised
<1>3. ASSUME NEW c \in Chats, QueryWorks(c) \/ InsightComes(c) \/ ChatRaises(c) \/ SessionMissing(c)
      PROVE  Typed'
  <2>1. [chat[c] EXCEPT !.pc = "insight"] \in ChatStates
    BY <1>a, <1>b, LocalsTyped
  <2>2. [chat[c] EXCEPT !.pc = "ensure", !.outcome = "answered"] \in ChatStates
    BY <1>a, <1>b, LocalsTyped
  <2> QED
    BY <1>2, <1>3, <2>1, <2>2 DEF QueryWorks, InsightComes, ChatRaises, SessionMissing
<1>4. ASSUME NEW c \in Chats, QueryFails(c)
      PROVE  Typed'
  <2> DEFINE n == chat[c].attempt + 1
  <2>1. CASE n < Attempts
    <3>1. n \in 0 .. Attempts
      BY <1>c, <2>1
    <3>2. [chat[c] EXCEPT !.attempt = n] \in ChatStates
      BY <1>b, <3>1, LocalsTyped
    <3> QED
      BY <1>4, <2>1, <3>2 DEF QueryFails
  <2>2. CASE ~(n < Attempts)
    <3>1. chat' = [chat EXCEPT ![c] = [chat[c] EXCEPT !.attempt = n, !.pc = "ensure", !.outcome = "failed"]]
      BY <1>4, <2>2 DEF QueryFails
    <3>2. n \in 0 .. Attempts
      BY <1>4, <1>c DEF QueryFails
    <3>3. [chat[c] EXCEPT !.attempt = n, !.pc = "ensure", !.outcome = "failed"] \in ChatStates
      BY <1>a, <1>b, <3>2, LocalsTyped
    <3> QED
      BY <1>4, <3>1, <3>3 DEF QueryFails
  <2> QED
    BY <2>1, <2>2
<1>5. ASSUME NEW c \in Chats, EnsureSession(c)
      PROVE  Typed'
  <2>1. [chat[c] EXCEPT !.pc = "append"] \in ChatStates
    BY <1>a, <1>b, LocalsTyped
  <2>2. chat[c].proc \in Processes /\ chat[c].session \in Sessions
    BY <1>b DEF ChatStates
  <2> QED
    BY <1>5, <2>1, <2>2 DEF EnsureSession
<1>6. ASSUME NEW c \in Chats, AppendTurn(c)
      PROVE  Typed'
  <2>1. chat[c].proc \in Processes /\ chat[c].session \in Sessions /\ chat[c].role \in Roles
    BY <1>b DEF ChatStates
  <2>2. [role |-> chat[c].role, chat |-> c] \in Turns
    BY <2>1 DEF Turns
  <2>3. Append(history[chat[c].proc][chat[c].session], [role |-> chat[c].role, chat |-> c]) \in Seq(Turns)
    BY <2>1, <2>2, AppendProperties
  <2>4. history' \in [Processes -> [Sessions -> Seq(Turns)]]
    BY <1>6, <2>1, <2>3 DEF AppendTurn
  <2>5. [chat[c] EXCEPT !.pc = "trim"] \in ChatStates
    BY <1>a, <1>b, LocalsTyped
  <2> QED
    BY <1>6, <2>4, <2>5 DEF AppendTurn
<1>7. ASSUME NEW c \in Chats, TurnAdded(c)
      PROVE  chat' \in [Chats -> ChatStates] /\ cache' \in [Processes -> [Questions -> Chats \cup {NoChat}]]
  <2>1. /\ [chat[c] EXCEPT !.pc = "ensure", !.role = "assistant", !.slice = <<>>] \in ChatStates
        /\ [chat[c] EXCEPT !.pc = "done", !.slice = <<>>] \in ChatStates
    BY <1>a, <1>b, LocalsTyped
  <2>2. chat[c].proc \in Processes /\ chat[c].question \in Questions
    BY <1>b DEF ChatStates
  <2>3. chat' \in [Chats -> ChatStates]
    BY <1>7, <2>1 DEF TurnAdded
  <2>4. [cache[chat[c].proc] EXCEPT ![chat[c].question] = c] \in [Questions -> Chats \cup {NoChat}]
    BY <2>2
  <2>5. cache' \in [Processes -> [Questions -> Chats \cup {NoChat}]]
    BY <1>7, <2>2, <2>4 DEF TurnAdded
  <2> QED
    BY <2>3, <2>5
<1>8. ASSUME NEW c \in Chats, TrimRead(c)
      PROVE  Typed'
  <2> DEFINE turns == history[chat[c].proc][chat[c].session]
             slice == SubSeq(turns, Len(turns) - 2 * MaxTurns + 1, Len(turns))
  <2>1. turns \in Seq(Turns)
    BY <1>b DEF ChatStates
  <2>2. CASE Len(turns) > 2 * MaxTurns
    <3>1. slice \in Seq(Turns)
      BY <2>1, <2>2, SubSeqTurns
    <3>2. [chat[c] EXCEPT !.pc = "store", !.slice = slice] \in ChatStates
      BY <1>a, <1>b, <3>1, LocalsTyped
    <3> QED
      BY <1>8, <2>2, <3>2 DEF TrimRead
  <2>3. CASE ~(Len(turns) > 2 * MaxTurns)
    BY <1>7, <1>8, <2>3 DEF TrimRead
  <2> QED
    BY <2>2, <2>3
<1>9. ASSUME NEW c \in Chats, TrimStore(c)
      PROVE  Typed'
  <2>1. chat[c].proc \in Processes /\ chat[c].session \in Sessions /\ chat[c].slice \in Seq(Turns)
    BY <1>b DEF ChatStates
  <2> QED
    BY <1>7, <1>9, <2>1 DEF TrimStore
<1>10. ASSUME NEW p \in Processes, NEW s \in Sessions, ClearSession(p, s)
      PROVE  Typed'
  <2>1. history[p][s] \in Seq(Turns)
    OBVIOUS
  <2>2. ToSet(history[p][s]) \in SUBSET Turns
    BY <2>1, ElementOfSeq, LenProperties DEF ToSet
  <2> QED
    BY <1>10, <1>a, <2>2 DEF ClearSession
<1>11. ASSUME NEW p \in Processes, NEW q \in Questions, CacheExpires(p, q)
      PROVE  Typed'
  BY <1>11 DEF CacheExpires
<1>12. CASE UNCHANGED vars
  BY <1>12 DEF vars
<1> QED
  BY <1>1, <1>3, <1>4, <1>5, <1>6, <1>8, <1>9, <1>10, <1>11, <1>12 DEF Next, ChatStep

-----------------------------------------------------------------------------
(* One coroutine at a time in add_turn, and what it does to the lists.     *)
LEMMA FreeLoop ==
  ASSUME NEW p, LoopIsFree(p), NEW d \in Chats, chat[d].pc \in Adding
  PROVE  chat[d].proc # p
  BY DEF LoopIsFree

LEMMA NextOneAdding == Typed /\ OneAdding /\ [Next]_vars => OneAdding'
<1> SUFFICES ASSUME Typed, OneAdding, [Next]_vars PROVE OneAdding'
  OBVIOUS
<1>1. ASSUME NEW c \in Chats, Alone(c), chat'[c].pc \notin Adding
      PROVE  OneAdding'
  BY <1>1 DEF OneAdding, Alone, Adding
<1>2. ASSUME NEW c \in Chats, Alone(c), SameRequest(c), chat[c].pc \in Adding
      PROVE  OneAdding'
  BY <1>2 DEF OneAdding, Alone, SameRequest, Adding
<1>3. ASSUME NEW c \in Chats, NEW p \in Processes, NEW s \in Sessions, NEW q \in Questions, Ask(c, p, s, q)
      PROVE OneAdding'
  BY <1>1, <1>3, AskEffect DEF Adding
<1>4. ASSUME NEW c \in Chats, Querying(c) PROVE OneAdding'
  <2>1. Alone(c) /\ SameRequest(c) /\ LoopIsFree(chat[c].proc)
    BY <1>4, QueryEffect
  <2>2. \A d \in Chats : d # c /\ chat'[d].pc \in Adding => chat'[d].proc # chat'[c].proc
    BY <2>1 DEF LoopIsFree, Alone, SameRequest
  <2>3. \A d, e \in Chats : d # c /\ e # c /\ chat'[d].pc \in Adding /\ chat'[e].pc \in Adding
                              /\ chat'[d].proc = chat'[e].proc => d = e
    BY <2>1 DEF OneAdding, Alone
  <2> QED
    BY <2>2, <2>3 DEF OneAdding, Adding
<1>5. ASSUME NEW c \in Chats, EnsureSession(c) \/ SessionMissing(c) \/ AppendTurn(c) PROVE OneAdding'
  <2>1. Alone(c) /\ SameRequest(c) /\ chat[c].pc \in Adding
    BY <1>5, EnsureEffect, MissingEffect, AppendEffect DEF Adding
  <2> QED
    BY <1>2, <2>1
<1>6. ASSUME NEW c \in Chats, TrimRead(c) \/ TrimStore(c) PROVE OneAdding'
  <2>1. Alone(c) /\ SameRequest(c) /\ chat[c].pc \in Adding
    BY <1>6, TrimReadEffect, TrimStoreEffect DEF Adding
  <2> QED
    BY <1>2, <2>1
<1>7. ASSUME UNCHANGED chat PROVE OneAdding'
  BY <1>7 DEF OneAdding, Adding
<1> QED
  BY Cases, <1>3, <1>4, <1>5, <1>6, <1>7 DEF ClearSession, CacheExpires, vars

LEMMA NextClosed == Typed /\ OneAdding /\ Closed /\ [Next]_vars => Closed'
<1> SUFFICES ASSUME Typed, OneAdding, Closed, [Next]_vars PROVE Closed'
  OBVIOUS
<1>1. ASSUME UNCHANGED <<open, history>> PROVE Closed'
  BY <1>1 DEF Closed
<1>2. ASSUME NEW c \in Chats, NEW p \in Processes, NEW s \in Sessions, NEW q \in Questions, Ask(c, p, s, q)
      PROVE Closed'
  BY <1>1, <1>2, AskEffect
<1>3. ASSUME NEW c \in Chats, Querying(c) \/ SessionMissing(c) \/ TrimRead(c) PROVE Closed'
  BY <1>1, <1>3, QueryEffect, MissingEffect, TrimReadEffect
<1>4. ASSUME NEW c \in Chats, EnsureSession(c) PROVE Closed'
  <2>1. \A p \in Processes : open[p] \subseteq open'[p]
    BY <1>4 DEF EnsureSession, Typed
  <2> QED
    BY <1>4, <2>1 DEF EnsureSession, Closed
<1>5. ASSUME NEW c \in Chats, AppendTurn(c) PROVE Closed'
  <2>1. /\ \A p \in Processes, s \in Sessions :
             (p = chat[c].proc /\ s = chat[c].session) \/ history'[p][s] = history[p][s]
        /\ UNCHANGED open /\ chat[c].session \in open[chat[c].proc]
    BY <1>5, AppendEffect
  <2> QED
    BY <2>1 DEF Closed
<1>6. ASSUME NEW c \in Chats, TrimStore(c) PROVE Closed'
  BY <1>6, TrimStoreEffect DEF Closed
<1>7. ASSUME NEW p \in Processes, NEW s \in Sessions, ClearSession(p, s) PROVE Closed'
  BY <1>7, ClearEffect DEF Closed
<1> QED
  BY Cases, <1>1, <1>2, <1>3, <1>4, <1>5, <1>6, <1>7 DEF CacheExpires, vars

LEMMA Lengths ==
  ASSUME Typed
  PROVE  /\ \A p \in Processes, s \in Sessions :
              history[p][s] \in Seq(Turns) /\ Len(history[p][s]) \in Nat
         /\ \A c \in Chats : chat[c].slice \in Seq(Turns) /\ Len(chat[c].slice) \in Nat
                             /\ chat[c].proc \in Processes /\ chat[c].session \in Sessions
                             /\ TurnOf(c) \in Turns
<1>1. \A c \in Chats : /\ chat[c].slice \in Seq(Turns) /\ chat[c].proc \in Processes
                       /\ chat[c].session \in Sessions /\ chat[c].role \in Roles
  BY DEF Typed, ChatStates
<1>2. \A p \in Processes, s \in Sessions : history[p][s] \in Seq(Turns)
  BY DEF Typed
<1>3. \A c \in Chats : TurnOf(c) \in Turns
  BY <1>1 DEF TurnOf, Turns
<1> QED
  BY <1>1, <1>2, <1>3, LenProperties

LEMMA NextSized == Typed /\ OneAdding /\ Closed /\ Sized /\ [Next]_vars => Sized'
<1> SUFFICES ASSUME Typed, OneAdding, Closed, Sized, [Next]_vars PROVE Sized'
  OBVIOUS
<1> DEFINE Short(p, s) == Len(history[p][s]) <= 2 * MaxTurns
           Trimming(c, p, s) == chat[c].pc \in {"trim", "store"} /\ chat[c].proc = p /\ chat[c].session = s
<1>a. \A p \in Processes, s \in Sessions :
        (\A c \in Chats : ~Trimming(c, p, s)) => Short(p, s)
  BY DEF Sized
<1>b. \A p \in Processes, s \in Sessions : Len(history[p][s]) <= 2 * MaxTurns + 1
  BY Lengths DEF Sized
<1>c. \A c \in Chats : chat[c].pc = "store" => Len(chat[c].slice) <= 2 * MaxTurns
  BY DEF Sized
<1>1. ASSUME NEW c \in Chats, Alone(c), UNCHANGED history,
             chat[c].pc \notin {"trim", "store"}, chat'[c].pc # "store"
      PROVE  Sized'
  BY <1>1 DEF Sized, Alone
<1>2. ASSUME NEW c \in Chats, NEW p \in Processes, NEW s \in Sessions, NEW q \in Questions, Ask(c, p, s, q)
      PROVE  Sized'
  BY <1>1, <1>2, AskEffect
<1>3. ASSUME NEW c \in Chats, Querying(c) PROVE Sized'
  BY <1>1, <1>3, QueryEffect
<1>4. ASSUME NEW c \in Chats, EnsureSession(c) PROVE Sized'
  BY <1>1, <1>4, EnsureEffect
<1>5. ASSUME NEW c \in Chats, SessionMissing(c) PROVE Sized'
  <2>1. Alone(c) /\ chat'[c].pc = "done" /\ UNCHANGED history
    BY <1>5, MissingEffect
  <2>2. history[chat[c].proc][chat[c].session] = <<>>
    BY <1>5, MissingEffect, Lengths DEF Closed
  <2>3. \A p \in Processes, s \in Sessions : Trimming(c, p, s) => Short(p, s)
    BY <2>2
  <2> QED
    BY <2>1, <2>3 DEF Sized, Alone
<1>6. ASSUME NEW c \in Chats, AppendTurn(c) PROVE Sized'
  <2>1. \A d \in Chats : chat[d].proc = chat[c].proc /\ chat[d].pc \in {"trim", "store"} => FALSE
    BY <1>6, AppendEffect DEF OneAdding, Adding
  <2>2. Len(history[chat[c].proc][chat[c].session]) <= 2 * MaxTurns
    BY <1>a, <2>1, Lengths
  <2>3. Len(history'[chat[c].proc][chat[c].session]) <= 2 * MaxTurns + 1
    <3> DEFINE turns == history[chat[c].proc][chat[c].session]
    <3>1. turns \in Seq(Turns) /\ Len(turns) \in Nat /\ TurnOf(c) \in Turns
      BY Lengths
    <3>2. Len(Append(turns, TurnOf(c))) = Len(turns) + 1
      BY <3>1, AppendProperties
    <3>3. history'[chat[c].proc][chat[c].session] = Append(turns, TurnOf(c))
      BY <1>6, AppendEffect
    <3> QED
      BY <2>2, <3>1, <3>2, <3>3
  <2>4. ASSUME NEW p \in Processes, NEW s \in Sessions
        PROVE  \/ Len(history'[p][s]) <= 2 * MaxTurns
               \/ /\ Len(history'[p][s]) <= 2 * MaxTurns + 1
                  /\ \E d \in Chats : chat'[d].pc \in {"trim", "store"} /\ chat'[d].proc = p /\ chat'[d].session = s
    <3>1. CASE p = chat[c].proc /\ s = chat[c].session
      <4>1. chat'[c].pc = "trim" /\ chat'[c].proc = p /\ chat'[c].session = s
        BY <1>6, <3>1, AppendEffect DEF SameRequest
      <4> QED
        BY <2>3, <3>1, <4>1
    <3>2. CASE p # chat[c].proc \/ s # chat[c].session
      <4>1. history'[p][s] = history[p][s] /\ Alone(c)
        BY <1>6, <3>2, AppendEffect
      <4> QED
        BY <3>2, <4>1 DEF Sized, Alone
    <3> QED
      BY <3>1, <3>2
  <2>5. \A d \in Chats : chat'[d].pc = "store" => Len(chat'[d].slice) <= 2 * MaxTurns
    BY <1>6, <1>c, AppendEffect DEF Alone
  <2> QED
    BY <2>4, <2>5 DEF Sized
<1>7. ASSUME NEW c \in Chats, TrimRead(c) PROVE Sized'
  <2> DEFINE turns == history[chat[c].proc][chat[c].session]
             slice == SubSeq(turns, Len(turns) - 2 * MaxTurns + 1, Len(turns))
  <2>1. Alone(c) /\ SameRequest(c) /\ UNCHANGED history
    BY <1>7, TrimReadEffect
  <2>2. CASE chat'[c].pc = "store"
    <3>1. chat'[c].slice = slice /\ Len(turns) > 2 * MaxTurns /\ turns \in Seq(Turns)
      BY <1>7, <2>2, TrimReadEffect DEF AddedEffect
    <3>2. Len(chat'[c].slice) <= 2 * MaxTurns
      BY <3>1, SubSeqTurns
    <3> QED
      BY <2>1, <2>2, <3>2 DEF Sized, Alone, SameRequest
  <2>3. CASE chat'[c].pc # "store"
    <3>1. Len(turns) <= 2 * MaxTurns
      BY <1>7, <2>3, TrimReadEffect
    <3> QED
      BY <2>1, <2>3, <3>1 DEF Sized, Alone
  <2> QED
    BY <2>2, <2>3
<1>8. ASSUME NEW c \in Chats, TrimStore(c) PROVE Sized'
  <2>1. Alone(c) /\ SameRequest(c) /\ chat'[c].pc \in {"ensure", "done"} /\ chat[c].pc = "store"
    BY <1>8, TrimStoreEffect DEF AddedEffect
  <2>2. \A p \in Processes, s \in Sessions :
          \/ Len(history'[p][s]) <= 2 * MaxTurns
          \/ history'[p][s] = history[p][s] /\ (p # chat[c].proc \/ s # chat[c].session)
    BY <1>8, <1>c, <2>1, TrimStoreEffect
  <2> QED
    BY <2>1, <2>2 DEF Sized, Alone
<1>9. ASSUME NEW p \in Processes, NEW s \in Sessions, ClearSession(p, s) PROVE Sized'
  <2>1. UNCHANGED chat /\ \A r \in Processes, t \in Sessions : history'[r][t] = <<>> \/ history'[r][t] = history[r][t]
    BY <1>9, ClearEffect
  <2> QED
    BY <2>1 DEF Sized
<1>10. ASSUME UNCHANGED <<chat, history>> PROVE Sized'
  BY <1>10 DEF Sized
<1> QED
  BY Cases, <1>2, <1>3, <1>4, <1>5, <1>6, <1>7, <1>8, <1>9, <1>10 DEF CacheExpires, vars

-----------------------------------------------------------------------------
LEMMA NextBase == Base /\ [Next]_vars => Base'
  BY NextTyped, NextTrying, NextOneAdding, NextClosed, NextSized DEF Base

\* Everything keeps its type, and a session its number of turns.
THEOREM TypeCorrect == Spec => []TypeOK
<1>1. Base => TypeOK
  <2> SUFFICES ASSUME Base PROVE TypeOK
    OBVIOUS
  <2>1. \A p \in Processes, s \in Sessions : LoopIsFree(p) => Len(history[p][s]) <= 2 * MaxTurns
    BY DEF Base, Sized, LoopIsFree, Adding
  <2> QED
    BY <2>1 DEF Base, Typed, TypeOK
<1> QED
  BY <1>1, InitBase, NextBase, PTL DEF Spec
-----------------------------------------------------------------------------
(* A chat is cached at the end of a chat that answered, and a chat that    *)
(* ended never moves again.                                                *)
LEMMA EndedStays ==
  ASSUME Typed, [Next]_vars, NEW d \in Chats, chat[d].pc = "done"
  PROVE  chat'[d] = chat[d]
<1>1. ASSUME NEW c \in Chats, Alone(c), chat[c].pc # "done" PROVE chat'[d] = chat[d]
  BY <1>1 DEF Alone
<1>2. ASSUME NEW c \in Chats, NEW p \in Processes, NEW s \in Sessions, NEW q \in Questions, Ask(c, p, s, q)
      PROVE chat'[d] = chat[d]
  BY <1>1, <1>2, AskEffect
<1>3. ASSUME NEW c \in Chats, Querying(c) PROVE chat'[d] = chat[d]
  BY <1>1, <1>3, QueryEffect
<1>4. ASSUME NEW c \in Chats, EnsureSession(c) \/ SessionMissing(c) \/ AppendTurn(c) PROVE chat'[d] = chat[d]
  BY <1>1, <1>4, EnsureEffect, MissingEffect, AppendEffect
<1>5. ASSUME NEW c \in Chats, TrimRead(c) \/ TrimStore(c) PROVE chat'[d] = chat[d]
  BY <1>1, <1>5, TrimReadEffect, TrimStoreEffect
<1> QED
  BY Cases, <1>2, <1>3, <1>4, <1>5 DEF ClearSession, CacheExpires, vars

LEMMA NextCache == Base /\ CacheHoldsAnswers /\ [Next]_vars => CacheHoldsAnswers'
<1> SUFFICES ASSUME Base, CacheHoldsAnswers, [Next]_vars PROVE CacheHoldsAnswers'
  OBVIOUS
<1> USE DEF Base
<1>a. \A p \in Processes, q \in Questions : cache[p][q] # NoChat => cache[p][q] \in Chats
  BY DEF Typed
<1>1. ASSUME \A p \in Processes, q \in Questions : cache'[p][q] \in {cache[p][q], NoChat}
      PROVE  CacheHoldsAnswers'
  BY <1>1, <1>a, EndedStays DEF CacheHoldsAnswers
<1>2. ASSUME NEW c \in Chats, SameRequest(c), AddedEffect(c)
      PROVE  CacheHoldsAnswers'
  <2>1. CASE UNCHANGED cache
    BY <1>1, <2>1
  <2>2. CASE ~UNCHANGED cache
    <3>1. /\ chat'[c].pc = "done" /\ chat'[c].outcome = chat[c].outcome
          /\ \A p \in Processes, q \in Questions :
               cache'[p][q] = IF chat[c].outcome = "answered" /\ p = chat[c].proc /\ q = chat[c].question
                              THEN c ELSE cache[p][q]
      BY <1>2, <2>2 DEF AddedEffect
    <3> SUFFICES ASSUME NEW p \in Processes, NEW q \in Questions, cache'[p][q] # NoChat
                 PROVE  /\ chat'[cache'[p][q]].pc = "done" /\ chat'[cache'[p][q]].outcome = "answered"
                        /\ chat'[cache'[p][q]].question = q /\ chat'[cache'[p][q]].proc = p
      BY DEF CacheHoldsAnswers
    <3>2. CASE cache'[p][q] = c /\ chat[c].outcome = "answered" /\ p = chat[c].proc /\ q = chat[c].question
      BY <1>2, <3>1, <3>2 DEF SameRequest
    <3>3. CASE cache'[p][q] = cache[p][q]
      BY <1>a, <3>3, EndedStays DEF CacheHoldsAnswers
    <3> QED
      BY <3>1, <3>2, <3>3
  <2> QED
    BY <2>1, <2>2
<1>3. ASSUME UNCHANGED cache PROVE CacheHoldsAnswers'
  BY <1>1, <1>3
<1>4. ASSUME NEW c \in Chats, TrimRead(c) \/ TrimStore(c) PROVE CacheHoldsAnswers'
  BY <1>2, <1>3, <1>4, TrimReadEffect, TrimStoreEffect
<1>5. ASSUME NEW p \in Processes, NEW q \in Questions, CacheExpires(p, q) PROVE CacheHoldsAnswers'
  BY <1>1, <1>5 DEF CacheExpires, Typed
<1> QED
  BY Cases, <1>3, <1>4, <1>5 DEF Ask, Querying, QueryWorks, QueryFails, InsightComes, ChatRaises,
     EnsureSession, SessionMissing, AppendTurn, ClearSession, vars

\* An answer served from the cache was an answer of a chat that ended well, to
\* that question and in that process.
THEOREM CachedWereAnswered == Spec => []CacheHoldsAnswers
<1>1. Init => CacheHoldsAnswers
  BY DEF Init, CacheHoldsAnswers
<1> QED
  BY <1>1, InitBase, NextBase, NextCache, PTL DEF Spec

-----------------------------------------------------------------------------
(* A turn belongs to the chat that wrote it, in that chat's session, and   *)
(* is written before the chat goes on: nobody writes a turn twice.         *)
OwnedIn(f, t, p, s) ==
    /\ f[t.chat].proc = p /\ f[t.chat].session = s
    /\ f[t.chat].role = "assistant" \/ t.role = "user"
    /\ \/ f[t.chat].pc \in {"trim", "store", "done"}
       \/ f[t.chat].pc \in {"ensure", "append"} /\ f[t.chat].role = "assistant" /\ t.role = "user"

Owned(t, p, s) == OwnedIn(chat, t, p, s)
Kept(t, p, s) == OwnedIn(chat', t, p, s)

Owns == \A p \in Processes, s \in Sessions :
          \A t \in ToSet(history[p][s]) \cup gone[p][s] : Owned(t, p, s)

SliceOwns ==
    \A c \in Chats : chat[c].pc = "store" =>
      \A t \in ToSet(chat[c].slice) : Owned(t, chat[c].proc, chat[c].session)

\* What one chat does keeps the turns written so far its own.
LEMMA OwnedStays ==
  ASSUME Typed, [Next]_vars, NEW t \in Turns, NEW p \in Processes, NEW s \in Sessions, Owned(t, p, s)
  PROVE  Kept(t, p, s)
<1>1. t.chat \in Chats /\ t.role \in Roles
  BY DEF Turns
<1>2. ASSUME NEW c \in Chats, Alone(c), c # t.chat PROVE Kept(t, p, s)
  BY <1>1, <1>2 DEF Owned, Kept, OwnedIn, Alone
<1>3. ASSUME NEW c \in Chats, NEW pp \in Processes, NEW ss \in Sessions, NEW q \in Questions, Ask(c, pp, ss, q)
      PROVE  Kept(t, p, s)
  BY <1>1, <1>2, <1>3, AskEffect DEF Owned, Kept, OwnedIn
<1>4. ASSUME NEW c \in Chats, Querying(c) PROVE Kept(t, p, s)
  BY <1>1, <1>2, <1>4, QueryEffect DEF Owned, Kept, OwnedIn
<1>5. ASSUME NEW c \in Chats, EnsureSession(c) PROVE Kept(t, p, s)
  BY <1>1, <1>2, <1>5, EnsureEffect DEF Owned, Kept, OwnedIn, SameRequest
<1>6. ASSUME NEW c \in Chats, SessionMissing(c) PROVE Kept(t, p, s)
  BY <1>1, <1>2, <1>6, MissingEffect DEF Owned, Kept, OwnedIn, SameRequest
<1>7. ASSUME NEW c \in Chats, AppendTurn(c) PROVE Kept(t, p, s)
  <2>1. Alone(c) /\ SameRequest(c) /\ chat'[c].pc = "trim" /\ chat'[c].role = chat[c].role
    BY <1>7, AppendEffect
  <2> QED
    BY <1>1, <1>2, <2>1 DEF Owned, Kept, OwnedIn, SameRequest
<1>8. ASSUME NEW c \in Chats, TrimRead(c) \/ TrimStore(c) PROVE Kept(t, p, s)
  <2>1. /\ Alone(c) /\ SameRequest(c)
        /\ \/ chat'[c].pc = "store" /\ chat'[c].role = chat[c].role
           \/ chat'[c].pc = "ensure" /\ chat[c].role = "user" /\ chat'[c].role = "assistant"
           \/ chat'[c].pc = "done" /\ chat'[c].role = "assistant"
    BY <1>8, TrimReadEffect, TrimStoreEffect DEF AddedEffect
  <2> QED
    BY <1>1, <1>2, <2>1 DEF Owned, Kept, OwnedIn, SameRequest, Roles
<1>9. ASSUME UNCHANGED chat PROVE Kept(t, p, s)
  BY <1>9 DEF Owned, Kept, OwnedIn
<1> QED
  BY Cases, <1>3, <1>4, <1>5, <1>6, <1>7, <1>8, <1>9 DEF ClearSession, CacheExpires, vars

LEMMA OwnTurnIsOwned ==
  ASSUME Typed, NEW c \in Chats, AppendTurn(c)
  PROVE  /\ Kept(TurnOf(c), chat[c].proc, chat[c].session)
         /\ \A p \in Processes, s \in Sessions : ~Owned(TurnOf(c), p, s)
<1>1. chat[c].pc = "append" /\ chat'[c].pc = "trim" /\ chat'[c].role = chat[c].role /\ SameRequest(c)
  BY AppendEffect
<1>2. chat[c].role \in Roles /\ TurnOf(c).chat = c /\ TurnOf(c).role = chat[c].role
  BY DEF Typed, ChatStates, TurnOf
<1>3. ~ \E p \in Processes, s \in Sessions : Owned(TurnOf(c), p, s)
  BY <1>1, <1>2 DEF Owned, Kept, OwnedIn
<1>4. Kept(TurnOf(c), chat[c].proc, chat[c].session)
  BY <1>1, <1>2 DEF Owned, Kept, OwnedIn, SameRequest, Roles
<1> QED
  BY <1>3, <1>4

LEMMA TurnSets ==
  ASSUME NEW l \in Seq(Turns)
  PROVE  /\ ToSet(l) \subseteq Turns
         /\ \A t \in Turns : ToSet(Append(l, t)) = ToSet(l) \cup {t}
         /\ Len(l) > 2 * MaxTurns =>
              ToSet(SubSeq(l, Len(l) - 2 * MaxTurns + 1, Len(l))) \subseteq ToSet(l)
<1>1. Len(l) \in Nat /\ DOMAIN l = 1 .. Len(l) /\ \A i \in 1 .. Len(l) : l[i] \in Turns
  BY LenProperties, ElementOfSeq
<1>2. ASSUME NEW t \in Turns PROVE ToSet(Append(l, t)) = ToSet(l) \cup {t}
  <2>1. /\ Append(l, t) \in Seq(Turns) /\ Len(Append(l, t)) = Len(l) + 1
        /\ DOMAIN Append(l, t) = 1 .. Len(l) + 1
        /\ \A i \in 1 .. Len(l) : Append(l, t)[i] = l[i]
        /\ Append(l, t)[Len(l) + 1] = t
    BY AppendProperties, LenProperties
  <2>2. ASSUME NEW i \in 1 .. Len(l) + 1 PROVE Append(l, t)[i] \in ToSet(l) \cup {t}
    BY <1>1, <2>1 DEF ToSet
  <2>3. ASSUME NEW i \in 1 .. Len(l) PROVE l[i] \in ToSet(Append(l, t))
    <3>1. i \in 1 .. Len(l) + 1 /\ Append(l, t)[i] = l[i]
      BY <1>1, <2>1
    <3> QED
      BY <2>1, <3>1 DEF ToSet
  <2>4. t \in ToSet(Append(l, t))
    <3>1. Len(l) + 1 \in 1 .. Len(l) + 1
      BY <1>1
    <3> QED
      BY <2>1, <3>1 DEF ToSet
  <2>5. ToSet(Append(l, t)) \subseteq ToSet(l) \cup {t}
    BY <2>1, <2>2 DEF ToSet
  <2>6. ToSet(l) \subseteq ToSet(Append(l, t))
    BY <1>1, <2>3 DEF ToSet
  <2> QED
    BY <2>4, <2>5, <2>6
<1>3. ASSUME Len(l) > 2 * MaxTurns
      PROVE  ToSet(SubSeq(l, Len(l) - 2 * MaxTurns + 1, Len(l))) \subseteq ToSet(l)
  <2> DEFINE slice == SubSeq(l, Len(l) - 2 * MaxTurns + 1, Len(l))
  <2>1. slice \in Seq(Turns) /\ Len(slice) = 2 * MaxTurns
        /\ \A i \in 1 .. Len(slice) : slice[i] = l[Len(l) - 2 * MaxTurns + i]
    BY <1>3, SubSeqTurns
  <2>2. DOMAIN slice = 1 .. 2 * MaxTurns
    BY <2>1, LenProperties
  <2>3. \A i \in 1 .. 2 * MaxTurns : slice[i] \in ToSet(l)
    <3> TAKE i \in 1 .. 2 * MaxTurns
    <3>1. Len(l) - 2 * MaxTurns + i \in 1 .. Len(l)
      BY <1>1, <1>3
    <3> QED
      BY <1>1, <2>1, <3>1 DEF ToSet
  <2>4. \A x : x \in ToSet(slice) => \E i \in 1 .. 2 * MaxTurns : x = slice[i]
    BY <2>2 DEF ToSet
  <2>5. ToSet(slice) \subseteq ToSet(l)
    BY <2>3, <2>4
  <2> QED
    BY <2>5
<1> QED
  BY <1>1, <1>2, <1>3 DEF ToSet

\* The turns in the lists, in the deleted lists and in the slices about to be
\* stored, after a step of each kind.
LEMMA TurnsMove ==
  ASSUME Typed, [Next]_vars
  PROVE  \/ /\ UNCHANGED <<history, gone, raced>>
            /\ \A c \in Chats : chat'[c].pc = "store" => chat'[c] = chat[c]
         \/ \E c \in Chats : AppendTurn(c)
         \/ \E c \in Chats :
              /\ UNCHANGED <<history, gone, raced>> /\ Alone(c) /\ SameRequest(c)
              /\ ToSet(chat'[c].slice) \subseteq ToSet(history[chat[c].proc][chat[c].session])
         \/ \E c \in Chats : TrimStore(c)
         \/ \E p \in Processes, s \in Sessions : ClearSession(p, s)
<1> DEFINE Still == /\ UNCHANGED <<history, gone, raced>>
                    /\ \A c \in Chats : chat'[c].pc = "store" => chat'[c] = chat[c]
<1>1. ASSUME NEW c \in Chats, Alone(c), chat'[c].pc # "store", UNCHANGED <<history, gone, raced>>
      PROVE  Still
  BY <1>1 DEF Alone
<1>2. ASSUME NEW c \in Chats, NEW p \in Processes, NEW s \in Sessions, NEW q \in Questions, Ask(c, p, s, q)
      PROVE  Still
  BY <1>1, <1>2, AskEffect
<1>3. ASSUME NEW c \in Chats, Querying(c) PROVE Still
  BY <1>1, <1>3, QueryEffect
<1>4. ASSUME NEW c \in Chats, EnsureSession(c) \/ SessionMissing(c) PROVE Still
  BY <1>1, <1>4, EnsureEffect, MissingEffect
<1>5. ASSUME NEW c \in Chats, TrimRead(c)
      PROVE  \/ Still
             \/ /\ UNCHANGED <<history, gone, raced>> /\ Alone(c) /\ SameRequest(c)
                /\ ToSet(chat'[c].slice) \subseteq ToSet(history[chat[c].proc][chat[c].session])
  <2>1. CASE AddedEffect(c)
    BY <1>1, <1>5, <2>1, TrimReadEffect DEF AddedEffect
  <2>2. CASE ~AddedEffect(c)
    BY <1>5, <2>2, TrimReadEffect, TurnSets
  <2> QED
    BY <2>1, <2>2
<1>6. ASSUME UNCHANGED <<chat, history, gone, raced>> PROVE Still
  BY <1>6
<1> HIDE DEF Still
<1>7. \/ Still
      \/ \E c \in Chats : AppendTurn(c)
      \/ \E c \in Chats :
           /\ UNCHANGED <<history, gone, raced>> /\ Alone(c) /\ SameRequest(c)
           /\ ToSet(chat'[c].slice) \subseteq ToSet(history[chat[c].proc][chat[c].session])
      \/ \E c \in Chats : TrimStore(c)
      \/ \E p \in Processes, s \in Sessions : ClearSession(p, s)
  BY Cases, <1>2, <1>3, <1>4, <1>5, <1>6 DEF CacheExpires, vars
<1> QED
  BY <1>7 DEF Still

LEMMA TurnSetEffects ==
  ASSUME Typed
  PROVE  /\ \A c \in Chats : AppendTurn(c) =>
              /\ TurnOf(c) \in Turns
              /\ ToSet(history'[chat[c].proc][chat[c].session])
                   = ToSet(history[chat[c].proc][chat[c].session]) \cup {TurnOf(c)}
         /\ \A p \in Processes, s \in Sessions : ClearSession(p, s) => ToSet(history'[p][s]) = {}
         /\ \A p \in Processes, s \in Sessions : ToSet(history[p][s]) \subseteq Turns /\ gone[p][s] \subseteq Turns
         /\ \A c \in Chats : ToSet(chat[c].slice) \subseteq Turns
<1>1. ASSUME NEW c \in Chats, AppendTurn(c)
      PROVE  /\ TurnOf(c) \in Turns
             /\ ToSet(history'[chat[c].proc][chat[c].session])
                  = ToSet(history[chat[c].proc][chat[c].session]) \cup {TurnOf(c)}
  <2>1. /\ history'[chat[c].proc][chat[c].session] = Append(history[chat[c].proc][chat[c].session], TurnOf(c))
        /\ history[chat[c].proc][chat[c].session] \in Seq(Turns) /\ TurnOf(c) \in Turns
    BY <1>1, AppendEffect, Lengths
  <2> QED
    BY <2>1, TurnSets
<1>2. ASSUME NEW p \in Processes, NEW s \in Sessions, ClearSession(p, s) PROVE ToSet(history'[p][s]) = {}
  <2>1. history'[p][s] = <<>>
    BY <1>2, ClearEffect
  <2> QED
    BY <2>1 DEF ToSet
<1>3. \A p \in Processes, s \in Sessions : gone[p][s] \subseteq Turns
  BY DEF Typed
<1> QED
  BY <1>1, <1>2, <1>3, Lengths, TurnSets

LEMMA NextOwns == Base /\ Owns /\ SliceOwns /\ [Next]_vars => Owns' /\ SliceOwns'
<1> SUFFICES ASSUME Typed, Typed', Owns, SliceOwns, [Next]_vars PROVE Owns' /\ SliceOwns'
  BY NextBase DEF Base
<1>1. \A p \in Processes, s \in Sessions : \A t \in ToSet(history[p][s]) \cup gone[p][s] : Kept(t, p, s)
  BY TurnSetEffects, OwnedStays DEF Owns
<1>2. \A c \in Chats : chat[c].proc \in Processes /\ chat[c].session \in Sessions
  BY Lengths
<1>3. \A c \in Chats : chat[c].pc = "store" =>
          \A t \in ToSet(chat[c].slice) : Kept(t, chat[c].proc, chat[c].session)
  BY <1>2, TurnSetEffects, OwnedStays DEF SliceOwns
<1>a. (\A p \in Processes, s \in Sessions : \A t \in ToSet(history'[p][s]) \cup gone'[p][s] : Kept(t, p, s)) => Owns'
  BY DEF Owns, Owned, Kept, ToSet
<1>b. (\A c \in Chats : chat'[c].pc = "store" =>
          \A t \in ToSet(chat'[c].slice) : Kept(t, chat'[c].proc, chat'[c].session)) => SliceOwns'
  BY DEF SliceOwns, Owned, Kept, ToSet
<1>4. CASE /\ UNCHANGED <<history, gone, raced>>
           /\ \A c \in Chats : chat'[c].pc = "store" => chat'[c] = chat[c]
  BY <1>1, <1>3, <1>4, <1>a, <1>b
<1>5. ASSUME NEW c \in Chats, AppendTurn(c) PROVE Owns' /\ SliceOwns'
  <2>1. Kept(TurnOf(c), chat[c].proc, chat[c].session)
    BY <1>5, OwnTurnIsOwned
  <2>2. \A p \in Processes, s \in Sessions :
          /\ ToSet(history'[p][s]) \subseteq IF p = chat[c].proc /\ s = chat[c].session
                                             THEN ToSet(history[p][s]) \cup {TurnOf(c)} ELSE ToSet(history[p][s])
          /\ gone'[p][s] = gone[p][s]
    BY <1>5, AppendEffect, TurnSetEffects
  <2>3. \A d \in Chats : chat'[d].pc = "store" => chat'[d] = chat[d]
    BY <1>5, AppendEffect DEF Alone
  <2> QED
    BY <1>1, <1>3, <1>a, <1>b, <2>1, <2>2, <2>3
<1>6. ASSUME NEW c \in Chats, UNCHANGED <<history, gone, raced>>, Alone(c), SameRequest(c),
             ToSet(chat'[c].slice) \subseteq ToSet(history[chat[c].proc][chat[c].session])
      PROVE  Owns' /\ SliceOwns'
  BY <1>1, <1>2, <1>3, <1>6, <1>a, <1>b DEF Alone, SameRequest
<1>7. ASSUME NEW c \in Chats, TrimStore(c) PROVE Owns' /\ SliceOwns'
  <2>1. /\ chat[c].pc = "store" /\ chat'[c].pc # "store" /\ Alone(c) /\ UNCHANGED gone
        /\ \A p \in Processes, s \in Sessions :
             history'[p][s] = IF p = chat[c].proc /\ s = chat[c].session THEN chat[c].slice ELSE history[p][s]
    BY <1>7, TrimStoreEffect DEF AddedEffect
  <2> QED
    BY <1>1, <1>3, <1>a, <1>b, <2>1 DEF Alone
<1>8. ASSUME NEW p \in Processes, NEW s \in Sessions, ClearSession(p, s) PROVE Owns' /\ SliceOwns'
  <2>1. /\ UNCHANGED chat
        /\ \A r \in Processes, t \in Sessions :
             /\ ToSet(history'[r][t]) \subseteq ToSet(history[r][t])
             /\ gone'[r][t] \subseteq gone[r][t] \cup ToSet(history[r][t])
    BY <1>8, ClearEffect, TurnSetEffects
  <2> QED
    BY <1>1, <1>3, <1>a, <1>b, <2>1
<1> QED
  BY TurnsMove, <1>4, <1>5, <1>6, <1>7, <1>8

-----------------------------------------------------------------------------
(* A deleted turn comes back only from a slice read before the deletion.   *)
SliceStaysGone ==
    \A c \in Chats : chat[c].pc = "store" /\ ToSet(chat[c].slice) \cap gone[chat[c].proc][chat[c].session] # {}
                       => chat[c].session \in raced[chat[c].proc]

LEMMA NextGone ==
  Base /\ Owns /\ ClearedStaysGone /\ SliceStaysGone /\ [Next]_vars => ClearedStaysGone' /\ SliceStaysGone'
<1> SUFFICES ASSUME Typed, Owns, ClearedStaysGone, SliceStaysGone, [Next]_vars
             PROVE  ClearedStaysGone' /\ SliceStaysGone'
  BY DEF Base
<1>1. \A c \in Chats : chat[c].proc \in Processes /\ chat[c].session \in Sessions
  BY Lengths
<1>2. CASE /\ UNCHANGED <<history, gone, raced>>
           /\ \A c \in Chats : chat'[c].pc = "store" => chat'[c] = chat[c]
  BY <1>2 DEF ClearedStaysGone, SliceStaysGone
<1>3. ASSUME NEW c \in Chats, AppendTurn(c) PROVE ClearedStaysGone' /\ SliceStaysGone'
  <2>1. TurnOf(c) \notin gone[chat[c].proc][chat[c].session]
    BY <1>1, <1>3, OwnTurnIsOwned DEF Owns
  <2>2. \A p \in Processes, s \in Sessions :
          ToSet(history'[p][s]) \subseteq IF p = chat[c].proc /\ s = chat[c].session
                                          THEN ToSet(history[p][s]) \cup {TurnOf(c)} ELSE ToSet(history[p][s])
    BY <1>3, AppendEffect, TurnSetEffects
  <2>3. UNCHANGED <<gone, raced>> /\ \A d \in Chats : chat'[d].pc = "store" => chat'[d] = chat[d]
    BY <1>3, AppendEffect DEF Alone
  <2>4. ClearedStaysGone'
    BY <2>1, <2>2, <2>3 DEF ClearedStaysGone
  <2> QED
    BY <2>3, <2>4 DEF SliceStaysGone
<1>4. ASSUME NEW c \in Chats, UNCHANGED <<history, gone, raced>>, Alone(c), SameRequest(c),
             ToSet(chat'[c].slice) \subseteq ToSet(history[chat[c].proc][chat[c].session])
      PROVE  ClearedStaysGone' /\ SliceStaysGone'
  <2>1. ClearedStaysGone'
    BY <1>4 DEF ClearedStaysGone
  <2>2. \A d \in Chats : d = c \/ chat'[d] = chat[d]
    BY <1>4 DEF Alone
  <2> QED
    BY <1>1, <1>4, <2>1, <2>2 DEF ClearedStaysGone, SliceStaysGone, SameRequest
<1>5. ASSUME NEW c \in Chats, TrimStore(c) PROVE ClearedStaysGone' /\ SliceStaysGone'
  <2>1. /\ chat[c].pc = "store" /\ chat'[c].pc # "store" /\ Alone(c) /\ UNCHANGED <<gone, raced>>
        /\ \A p \in Processes, s \in Sessions :
             history'[p][s] = IF p = chat[c].proc /\ s = chat[c].session THEN chat[c].slice ELSE history[p][s]
    BY <1>5, TrimStoreEffect DEF AddedEffect
  <2>2. ClearedStaysGone'
    BY <2>1 DEF ClearedStaysGone, SliceStaysGone
  <2> QED
    BY <2>1, <2>2 DEF SliceStaysGone, Alone
<1>6. ASSUME NEW p \in Processes, NEW s \in Sessions, ClearSession(p, s)
      PROVE  ClearedStaysGone' /\ SliceStaysGone'
  <2>1. UNCHANGED chat /\ ToSet(history'[p][s]) = {}
    BY <1>6, ClearEffect, TurnSetEffects
  <2>2. \A r \in Processes, t \in Sessions :
          /\ raced[r] \subseteq raced'[r]
          /\ (r # p \/ t # s) => history'[r][t] = history[r][t] /\ gone'[r][t] = gone[r][t]
    BY <1>6, ClearEffect
  <2>3. \A c \in Chats : chat[c].pc = "store" /\ chat[c].proc = p /\ chat[c].session = s => s \in raced'[p]
    BY <1>6, ClearEffect
  <2>4. ClearedStaysGone'
    BY <2>1, <2>2 DEF ClearedStaysGone
  <2> QED
    BY <1>1, <2>1, <2>2, <2>3, <2>4 DEF SliceStaysGone
<1> QED
  BY TurnsMove, <1>2, <1>3, <1>4, <1>5, <1>6

\* A turn that a deletion removed is never served again, unless the deletion
\* came between the reading and the writing of a trim of that session.
THEOREM ClearedTurnsStayGone == Spec => []ClearedStaysGone
<1>1. Init => Owns /\ SliceOwns /\ ClearedStaysGone /\ SliceStaysGone
  <2> SUFFICES ASSUME Init PROVE Owns /\ SliceOwns /\ ClearedStaysGone /\ SliceStaysGone
    OBVIOUS
  <2>1. \A p \in Processes, s \in Sessions : ToSet(history[p][s]) = {} /\ gone[p][s] = {}
    BY DEF Init, ToSet
  <2>2. \A c \in Chats : chat[c].pc = "new"
    BY DEF Init, NewChat
  <2> QED
    BY <2>1, <2>2 DEF Owns, SliceOwns, ClearedStaysGone, SliceStaysGone
<1> QED
  BY <1>1, InitBase, NextBase, NextOwns, NextGone, PTL DEF Spec

-----------------------------------------------------------------------------
(* A question without its answer is the last turn of its list, and its     *)
(* chat is still inside add_turn.                                          *)
Answer(t) == [role |-> "assistant", chat |-> t.chat]

FollowsIn(f, l) ==
    \A i \in 1 .. Len(l) : l[i].role = "user" =>
      IF i < Len(l) THEN l[i + 1] = Answer(l[i]) ELSE f[l[i].chat].pc \in Adding

EndsAnswered(l) == Len(l) > 0 => l[Len(l)].role = "assistant"

Follows(l) == FollowsIn(chat, l)
FollowsNext(l) == FollowsIn(chat', l)

ListsFollow == \A p \in Processes, s \in Sessions : Follows(history[p][s])

\* What the chat in add_turn has read or is about to write.
SlicesFollow ==
    \A c \in Chats :
      /\ chat[c].pc = "store" => /\ Follows(chat[c].slice)
                                 /\ chat[c].role = "assistant" => EndsAnswered(chat[c].slice)
      /\ chat[c].pc = "trim" /\ chat[c].role = "assistant" =>
           EndsAnswered(history[chat[c].proc][chat[c].session])

LEMMA ListFacts ==
  ASSUME NEW l \in Seq(Turns)
  PROVE  /\ Len(l) \in Nat /\ DOMAIN l = 1 .. Len(l)
         /\ \A i \in 1 .. Len(l) : /\ l[i] \in Turns /\ l[i] \in ToSet(l)
                                   /\ l[i].role \in {"user", "assistant"} /\ l[i].chat \in Chats
<1>1. Len(l) \in Nat /\ DOMAIN l = 1 .. Len(l) /\ \A i \in 1 .. Len(l) : l[i] \in Turns
  BY LenProperties, ElementOfSeq
<1>2. \A i \in 1 .. Len(l) : l[i] \in ToSet(l)
  BY <1>1 DEF ToSet
<1> QED
  BY <1>1, <1>2 DEF Turns, Roles

LEMMA OpenQuestion ==
  ASSUME NEW l \in Seq(Turns), Follows(l), Len(l) > 0, l[Len(l)].role = "user"
  PROVE  l[Len(l)] \in ToSet(l) /\ l[Len(l)].chat \in Chats /\ chat[l[Len(l)].chat].pc \in Adding
<1>1. Len(l) \in 1 .. Len(l) /\ ~(Len(l) < Len(l))
  BY ListFacts
<1>2. chat[l[Len(l)].chat].pc \in Adding
  BY <1>1 DEF Follows, FollowsIn
<1> QED
  BY <1>1, <1>2, ListFacts

\* A list stays well formed while the chat of its open question, if it has one,
\* stays in add_turn.
LEMMA FollowsStays ==
  ASSUME NEW l \in Seq(Turns), Follows(l),
         \A t \in ToSet(l) : t.role = "user" /\ chat[t.chat].pc \in Adding /\ ~EndsAnswered(l)
                               => chat'[t.chat].pc \in Adding
  PROVE  FollowsNext(l)
<1> SUFFICES ASSUME NEW i \in 1 .. Len(l), l[i].role = "user"
             PROVE  IF i < Len(l) THEN l[i + 1] = Answer(l[i]) ELSE chat'[l[i].chat].pc \in Adding
  BY DEF FollowsNext, FollowsIn
<1>1. CASE i < Len(l)
  BY <1>1 DEF Follows, FollowsIn
<1>2. CASE ~(i < Len(l))
  <2>1. i = Len(l) /\ l[i] \in ToSet(l) /\ Len(l) > 0
    BY <1>2, ListFacts
  <2>2. ~EndsAnswered(l)
    BY <2>1 DEF EndsAnswered
  <2>3. chat[l[i].chat].pc \in Adding
    BY <1>2 DEF Follows, FollowsIn
  <2> QED
    BY <1>2, <2>1, <2>2, <2>3
<1> QED
  BY <1>1, <1>2

LEMMA FollowsAppend ==
  ASSUME NEW l \in Seq(Turns), NEW t \in Turns, Follows(l),
         Len(l) > 0 /\ l[Len(l)].role = "user" => t = Answer(l[Len(l)]),
         t.role = "user" => chat'[t.chat].pc \in Adding
  PROVE  FollowsNext(Append(l, t)) /\ (t.role = "assistant" => EndsAnswered(Append(l, t)))
<1>1. Len(l) \in Nat /\ Append(l, t) \in Seq(Turns) /\ Len(Append(l, t)) = Len(l) + 1
  BY AppendProperties, ListFacts
<1>2. Append(l, t)[Len(l) + 1] = t /\ \A i \in 1 .. Len(l) : Append(l, t)[i] = l[i]
  BY AppendProperties, ListFacts
<1> DEFINE a == Append(l, t)
<1> HIDE DEF a
<1>3. ASSUME NEW i \in 1 .. Len(a), a[i].role = "user"
      PROVE  IF i < Len(a) THEN a[i + 1] = Answer(a[i]) ELSE chat'[a[i].chat].pc \in Adding
  <2>1. CASE i = Len(l) + 1
    BY <1>1, <1>2, <1>3, <2>1 DEF a
  <2>2. CASE i \in 1 .. Len(l)
    <3>1. a[i] = l[i] /\ i < Len(a) /\ l[i].role = "user"
      BY <1>1, <1>2, <1>3, <2>2 DEF a
    <3>2. CASE i = Len(l)
      BY <1>1, <1>2, <3>1, <3>2 DEF a
    <3>3. CASE i < Len(l)
      <4>1. l[i + 1] = Answer(l[i]) /\ i + 1 \in 1 .. Len(l)
        BY <1>1, <2>2, <3>1, <3>3 DEF Follows, FollowsIn
      <4> QED
        BY <1>2, <3>1, <4>1 DEF a
    <3> QED
      BY <1>1, <2>2, <3>2, <3>3
  <2> QED
    BY <1>1, <1>3, <2>1, <2>2 DEF a
<1>4. FollowsNext(a)
  BY <1>3 DEF FollowsNext, FollowsIn
<1> QED
  BY <1>1, <1>2, <1>4 DEF a, EndsAnswered

LEMMA FollowsSlice ==
  ASSUME NEW l \in Seq(Turns), Len(l) > 2 * MaxTurns, FollowsNext(l)
  PROVE  LET slice == SubSeq(l, Len(l) - 2 * MaxTurns + 1, Len(l)) IN
         FollowsNext(slice) /\ (EndsAnswered(l) => EndsAnswered(slice))
<1> DEFINE slice == SubSeq(l, Len(l) - 2 * MaxTurns + 1, Len(l))
           cut == Len(l) - 2 * MaxTurns
<1>1. /\ slice \in Seq(Turns) /\ Len(slice) = 2 * MaxTurns
      /\ \A i \in 1 .. Len(slice) : slice[i] = l[cut + i]
  BY SubSeqTurns
<1>2. Len(l) \in Nat /\ cut \in Nat /\ cut + Len(slice) = Len(l) /\ Len(slice) \in Nat
  BY <1>1, ListFacts
<1> HIDE DEF slice, cut
<1>3. ASSUME NEW i \in 1 .. Len(slice), slice[i].role = "user"
      PROVE  IF i < Len(slice) THEN slice[i + 1] = Answer(slice[i]) ELSE chat'[slice[i].chat].pc \in Adding
  <2>1. slice[i] = l[cut + i] /\ cut + i \in 1 .. Len(l) /\ (i < Len(slice) <=> cut + i < Len(l))
    BY <1>1, <1>2
  <2>2. IF cut + i < Len(l) THEN l[cut + i + 1] = Answer(l[cut + i]) ELSE chat'[l[cut + i].chat].pc \in Adding
    BY <1>3, <2>1 DEF FollowsNext, FollowsIn
  <2>3. i < Len(slice) => slice[i + 1] = l[cut + i + 1]
    <3> HAVE i < Len(slice)
    <3>1. i + 1 \in 1 .. Len(slice) /\ cut + (i + 1) = cut + i + 1
      BY <1>2
    <3> QED
      BY <1>1, <3>1
  <2> QED
    BY <2>1, <2>2, <2>3
<1>4. FollowsNext(slice)
  BY <1>3 DEF FollowsNext, FollowsIn
<1>5. EndsAnswered(l) => EndsAnswered(slice)
  <2> SUFFICES ASSUME EndsAnswered(l), Len(slice) > 0 PROVE slice[Len(slice)].role = "assistant"
    BY DEF EndsAnswered
  <2>1. slice[Len(slice)] = l[Len(l)] /\ Len(l) > 0
    BY <1>1, <1>2
  <2> QED
    BY <2>1 DEF EndsAnswered
<1> QED
  BY <1>4, <1>5 DEF slice

\* Lists whose open question belongs to somebody else, or to a chat that stays.
LEMMA StayingChat ==
  ASSUME NEW c \in Chats, Alone(c), chat[c].pc \in Adding => chat'[c].pc \in Adding,
         NEW l \in Seq(Turns), Follows(l)
  PROVE  FollowsNext(l)
<1>1. \A d \in Chats : chat[d].pc \in Adding => chat'[d].pc \in Adding
  BY DEF Alone
<1>2. \A t \in ToSet(l) : t.chat \in Chats
  BY TurnSets DEF Turns
<1> QED
  BY <1>1, <1>2, FollowsStays

Ordered == ListsFollow /\ SlicesFollow

\* A chat that leaves add_turn leaves no open question behind.
LEMMA LeavingChat ==
  ASSUME Base, Owns, SliceOwns, Ordered, NEW c \in Chats, Alone(c), chat[c].pc \in Adding,
         chat'[c].pc # "store", chat'[c].pc # "trim"
  PROVE  /\ \A p \in Processes, s \in Sessions :
              (p # chat[c].proc \/ s # chat[c].session \/ EndsAnswered(history[p][s]))
                => FollowsNext(history[p][s])
         /\ \A d \in Chats : chat'[d].pc = "store" =>
              /\ d # c /\ chat'[d] = chat[d]
              /\ FollowsNext(chat'[d].slice)
              /\ chat'[d].role = "assistant" => EndsAnswered(chat'[d].slice)
         /\ \A d \in Chats : chat'[d].pc = "trim" => d # c /\ chat'[d] = chat[d] /\ chat[d].proc # chat[c].proc
<1> USE DEF Base
<1>1. ASSUME NEW p \in Processes, NEW s \in Sessions,
             p # chat[c].proc \/ s # chat[c].session \/ EndsAnswered(history[p][s])
      PROVE  FollowsNext(history[p][s])
  <2>1. history[p][s] \in Seq(Turns) /\ Follows(history[p][s])
    BY Lengths DEF Ordered, ListsFollow
  <2>2. ASSUME NEW t \in ToSet(history[p][s]), chat[t.chat].pc \in Adding, ~EndsAnswered(history[p][s])
        PROVE  chat'[t.chat].pc \in Adding
    <3>0. t \in Turns /\ (p # chat[c].proc \/ s # chat[c].session)
      BY <1>1, <2>1, <2>2, TurnSets
    <3>1. t.chat \in Chats /\ chat[t.chat].proc = p /\ chat[t.chat].session = s
      BY <2>2, <3>0 DEF Owns, Owned, OwnedIn, Turns
    <3>2. t.chat # c
      BY <3>0, <3>1
    <3> QED
      BY <2>2, <3>1, <3>2 DEF Alone
  <2> QED
    BY <2>1, <2>2, FollowsStays
<1>2. ASSUME NEW d \in Chats, chat'[d].pc \in {"store", "trim"}
      PROVE  d # c /\ chat'[d] = chat[d] /\ chat[d].proc # chat[c].proc
  BY <1>2 DEF Alone, OneAdding, Adding
<1>3. ASSUME NEW d \in Chats, chat'[d].pc = "store"
      PROVE  FollowsNext(chat'[d].slice) /\ (chat'[d].role = "assistant" => EndsAnswered(chat'[d].slice))
  <2>1. d # c /\ chat'[d] = chat[d] /\ chat[d].proc # chat[c].proc
    BY <1>2, <1>3
  <2>2. /\ chat[d].slice \in Seq(Turns) /\ Follows(chat[d].slice)
        /\ chat[d].role = "assistant" => EndsAnswered(chat[d].slice)
    BY <1>3, <2>1, Lengths DEF Ordered, SlicesFollow
  <2>3. ASSUME NEW t \in ToSet(chat[d].slice), chat[t.chat].pc \in Adding
        PROVE  chat'[t.chat].pc \in Adding
    <3>0. t \in Turns
      BY <2>2, <2>3, TurnSets
    <3>1. t.chat \in Chats /\ chat[t.chat].proc = chat[d].proc
      BY <1>3, <2>1, <2>3, <3>0 DEF SliceOwns, Owned, OwnedIn, Turns
    <3>2. t.chat # c
      BY <2>1, <3>1
    <3> QED
      BY <2>3, <3>1, <3>2 DEF Alone
  <2>4. FollowsNext(chat[d].slice)
    BY <2>2, <2>3, FollowsStays
  <2> QED
    BY <2>1, <2>2, <2>4
<1> QED
  BY <1>1, <1>2, <1>3

LEMMA OrderedNext ==
  ASSUME \A p \in Processes, s \in Sessions : FollowsNext(history'[p][s]),
         \A c \in Chats :
           /\ chat'[c].pc = "store" => /\ FollowsNext(chat'[c].slice)
                                       /\ chat'[c].role = "assistant" => EndsAnswered(chat'[c].slice)
           /\ chat'[c].pc = "trim" /\ chat'[c].role = "assistant" =>
                EndsAnswered(history'[chat'[c].proc][chat'[c].session])
  PROVE  Ordered'
<1>1. ListsFollow'
  BY DEF ListsFollow, Follows, FollowsNext, FollowsIn
<1>2. SlicesFollow'
  BY DEF SlicesFollow, Follows, FollowsNext, FollowsIn, EndsAnswered
<1> QED
  BY <1>1, <1>2 DEF Ordered

LEMMA NextOrdered == Base /\ Owns /\ SliceOwns /\ Ordered /\ [Next]_vars => Ordered'
<1> SUFFICES ASSUME Base, Owns, SliceOwns, Ordered, [Next]_vars PROVE Ordered'
  OBVIOUS
<1>a. Typed /\ OneAdding /\ Closed
  BY DEF Base
<1>b. \A p \in Processes, s \in Sessions : history[p][s] \in Seq(Turns) /\ Follows(history[p][s])
  BY <1>a, Lengths DEF Ordered, ListsFollow
<1>c. \A c \in Chats : /\ chat[c].slice \in Seq(Turns) /\ chat[c].proc \in Processes /\ chat[c].session \in Sessions
                       /\ chat[c].pc = "store" => /\ Follows(chat[c].slice)
                                                  /\ chat[c].role = "assistant" => EndsAnswered(chat[c].slice)
                       /\ chat[c].pc = "trim" /\ chat[c].role = "assistant" =>
                            EndsAnswered(history[chat[c].proc][chat[c].session])
  BY <1>a, Lengths DEF Ordered, SlicesFollow
\* A step that neither writes a list nor ends a chat in add_turn.
<1>1. ASSUME NEW c \in Chats, Alone(c), UNCHANGED history, chat[c].pc \in Adding => chat'[c].pc \in Adding,
             chat'[c].pc # "store", chat'[c].pc # "trim"
      PROVE  Ordered'
  <2>1. \A p \in Processes, s \in Sessions : FollowsNext(history'[p][s])
    BY <1>1, <1>b, StayingChat
  <2>2. \A d \in Chats : chat'[d].pc \in {"store", "trim"} => chat'[d] = chat[d]
    BY <1>1 DEF Alone
  <2>3. \A d \in Chats : chat'[d].pc = "store" => FollowsNext(chat'[d].slice)
    BY <1>1, <1>c, <2>2, StayingChat
  <2> QED
    BY <1>1, <1>c, <2>1, <2>2, <2>3, OrderedNext
<1>2. ASSUME NEW c \in Chats, NEW p \in Processes, NEW s \in Sessions, NEW q \in Questions, Ask(c, p, s, q)
      PROVE  Ordered'
  BY <1>1, <1>2, <1>a, AskEffect DEF Adding
<1>3. ASSUME NEW c \in Chats, Querying(c) PROVE Ordered'
  BY <1>1, <1>3, <1>a, QueryEffect DEF Adding
<1>4. ASSUME NEW c \in Chats, EnsureSession(c) PROVE Ordered'
  BY <1>1, <1>4, <1>a, EnsureEffect DEF Adding
<1>5. ASSUME NEW c \in Chats, SessionMissing(c) PROVE Ordered'
  <2>1. /\ Alone(c) /\ UNCHANGED history /\ chat'[c].pc = "done" /\ chat[c].pc \in Adding
        /\ chat[c].session \notin open[chat[c].proc]
    BY <1>5, <1>a, MissingEffect DEF Adding
  <2>2. EndsAnswered(history[chat[c].proc][chat[c].session])
    BY <1>a, <1>c, <2>1 DEF Closed, EndsAnswered
  <2>3. \A p \in Processes, s \in Sessions : FollowsNext(history'[p][s])
    BY <2>1, <2>2, LeavingChat
  <2> QED
    BY <1>c, <2>1, <2>3, LeavingChat, OrderedNext
<1>6. ASSUME NEW c \in Chats, AppendTurn(c) PROVE Ordered'
  <2> DEFINE l == history[chat[c].proc][chat[c].session]
  <2>1. /\ Alone(c) /\ SameRequest(c) /\ chat[c].pc = "append" /\ chat'[c].pc = "trim"
        /\ chat'[c].role = chat[c].role /\ TurnOf(c) \in Turns /\ TurnOf(c).chat = c
        /\ TurnOf(c).role = chat[c].role
        /\ history'[chat[c].proc][chat[c].session] = Append(l, TurnOf(c))
        /\ \A p \in Processes, s \in Sessions :
             p # chat[c].proc \/ s # chat[c].session => history'[p][s] = history[p][s]
    BY <1>6, <1>a, AppendEffect, Lengths DEF TurnOf
  <2>2. chat[c].pc \in Adding /\ chat'[c].pc \in Adding /\ l \in Seq(Turns) /\ Follows(l)
    BY <1>b, <1>c, <2>1 DEF Adding
  <2>3. ASSUME Len(l) > 0, l[Len(l)].role = "user" PROVE TurnOf(c) = Answer(l[Len(l)])
    <3>1. l[Len(l)] \in ToSet(l) /\ l[Len(l)].chat \in Chats /\ chat[l[Len(l)].chat].pc \in Adding
      BY <2>2, <2>3, OpenQuestion
    <3>3. Owned(l[Len(l)], chat[c].proc, chat[c].session)
      BY <1>c, <3>1 DEF Owns
    <3>4. l[Len(l)].chat = c
      BY <1>a, <2>2, <3>1, <3>3 DEF OneAdding, Owned, OwnedIn
    <3>5. chat[c].role = "assistant"
      BY <2>1, <3>3, <3>4 DEF Owned, OwnedIn
    <3> QED
      BY <3>4, <3>5 DEF TurnOf, Answer
  <2>4. FollowsNext(Append(l, TurnOf(c))) /\ (chat[c].role = "assistant" => EndsAnswered(Append(l, TurnOf(c))))
    BY <2>1, <2>2, <2>3, FollowsAppend
  <2>5. \A p \in Processes, s \in Sessions : FollowsNext(history'[p][s])
    BY <1>b, <2>1, <2>2, <2>4, StayingChat
  <2>6. \A d \in Chats : d # c => chat'[d] = chat[d]
    BY <2>1 DEF Alone
  <2>7. \A d \in Chats : chat'[d].pc = "store" => d # c /\ FollowsNext(chat'[d].slice)
    BY <1>c, <2>1, <2>2, <2>6, StayingChat
  <2>8. \A d \in Chats : chat'[d].pc = "trim" /\ chat'[d].role = "assistant" =>
          EndsAnswered(history'[chat'[d].proc][chat'[d].session])
    <3> SUFFICES ASSUME NEW d \in Chats, chat'[d].pc = "trim", chat'[d].role = "assistant"
                 PROVE  EndsAnswered(history'[chat'[d].proc][chat'[d].session])
      OBVIOUS
    <3>1. CASE d = c
      BY <2>1, <2>4, <3>1 DEF SameRequest
    <3>2. CASE d # c
      <4>1. chat'[d] = chat[d] /\ chat[d].proc # chat[c].proc
        BY <1>a, <2>2, <2>6, <3>2 DEF OneAdding, Adding
      <4> QED
        BY <1>c, <2>1, <4>1
    <3> QED
      BY <3>1, <3>2
  <2> QED
    BY <1>c, <2>5, <2>6, <2>7, <2>8, OrderedNext
<1>7. ASSUME NEW c \in Chats, TrimRead(c) PROVE Ordered'
  <2> DEFINE l == history[chat[c].proc][chat[c].session]
  <2>1. Alone(c) /\ SameRequest(c) /\ chat[c].pc = "trim" /\ UNCHANGED history
    BY <1>7, <1>a, TrimReadEffect
  <2>2. chat[c].pc \in Adding /\ l \in Seq(Turns)
    BY <1>b, <1>c, <2>1 DEF Adding
  <2>3. CASE AddedEffect(c) /\ chat'[c].pc = "ensure"
    BY <1>1, <2>1, <2>3 DEF Adding
  <2>4. CASE AddedEffect(c) /\ chat'[c].pc = "done"
    <3>1. EndsAnswered(l)
      BY <1>c, <2>1, <2>4 DEF AddedEffect
    <3>2. \A p \in Processes, s \in Sessions : FollowsNext(history'[p][s])
      BY <2>1, <2>2, <2>4, <3>1, LeavingChat
    <3> QED
      BY <1>c, <2>1, <2>2, <2>4, <3>2, LeavingChat, OrderedNext
  <2>5. CASE chat'[c].pc = "store"
    <3>1. /\ Len(l) > 2 * MaxTurns /\ chat'[c].role = chat[c].role
          /\ chat'[c].slice = SubSeq(l, Len(l) - 2 * MaxTurns + 1, Len(l))
      BY <1>7, <1>a, <2>5, TrimReadEffect DEF AddedEffect
    <3>2. \A p \in Processes, s \in Sessions : FollowsNext(history'[p][s])
      BY <1>b, <2>1, <2>5, StayingChat DEF Adding
    <3>3. FollowsNext(l)
      BY <1>c, <2>1, <3>2
    <3>4. FollowsNext(chat'[c].slice) /\ (EndsAnswered(l) => EndsAnswered(chat'[c].slice))
      BY <2>2, <3>1, <3>3, FollowsSlice
    <3>5. \A d \in Chats : d # c => chat'[d] = chat[d]
      BY <2>1 DEF Alone
    <3>6. \A d \in Chats : d # c /\ chat'[d].pc = "store" => FollowsNext(chat'[d].slice)
      BY <1>c, <2>1, <2>5, <3>5, StayingChat DEF Adding
    <3> QED
      BY <1>c, <2>1, <2>5, <3>1, <3>2, <3>4, <3>5, <3>6, OrderedNext
  <2> QED
    BY <1>7, <1>a, <2>3, <2>4, <2>5, TrimReadEffect DEF AddedEffect
<1>8. ASSUME NEW c \in Chats, TrimStore(c) PROVE Ordered'
  <2>1. /\ Alone(c) /\ SameRequest(c) /\ chat[c].pc = "store" /\ AddedEffect(c)
        /\ \A p \in Processes, s \in Sessions :
             history'[p][s] = IF p = chat[c].proc /\ s = chat[c].session
                              THEN chat[c].slice ELSE history[p][s]
    BY <1>8, <1>a, TrimStoreEffect
  <2>2. chat[c].pc \in Adding /\ chat'[c].pc \in {"ensure", "done"}
    BY <2>1 DEF Adding, AddedEffect
  <2>3. chat[c].slice \in Seq(Turns) /\ Follows(chat[c].slice)
    BY <1>c, <2>1
  <2>4. FollowsNext(chat[c].slice)
    <3>1. CASE chat'[c].pc = "ensure"
      BY <2>1, <2>3, <3>1, StayingChat DEF Adding
    <3>2. CASE chat'[c].pc = "done"
      <4>1. EndsAnswered(chat[c].slice)
        BY <1>c, <2>1, <3>2 DEF AddedEffect
      <4> QED
        BY <2>3, <4>1, FollowsStays
    <3> QED
      BY <2>2, <3>1, <3>2
  <2>5. \A p \in Processes, s \in Sessions :
          p # chat[c].proc \/ s # chat[c].session => FollowsNext(history[p][s])
    BY <2>1, <2>2, LeavingChat
  <2>6. \A p \in Processes, s \in Sessions : FollowsNext(history'[p][s])
    BY <2>1, <2>4, <2>5
  <2>7. \A d \in Chats : chat'[d].pc = "trim" /\ chat'[d].role = "assistant" =>
          EndsAnswered(history'[chat'[d].proc][chat'[d].session])
    BY <1>c, <2>1, <2>2, LeavingChat
  <2> QED
    BY <2>1, <2>2, <2>6, <2>7, LeavingChat, OrderedNext
<1>9. ASSUME NEW p \in Processes, NEW s \in Sessions, ClearSession(p, s) PROVE Ordered'
  <2>1. /\ UNCHANGED chat
        /\ \A r \in Processes, t \in Sessions : history'[r][t] = <<>> \/ history'[r][t] = history[r][t]
    BY <1>9, <1>a, ClearEffect
  <2>2. FollowsNext(<<>>) /\ EndsAnswered(<<>>)
    BY DEF FollowsNext, FollowsIn, EndsAnswered
  <2>3. \A l : Follows(l) => FollowsNext(l)
    BY <2>1 DEF Follows, FollowsNext
  <2>4. \A r \in Processes, t \in Sessions : FollowsNext(history'[r][t])
    BY <1>b, <2>1, <2>2, <2>3
  <2> QED
    BY <1>c, <2>1, <2>2, <2>3, <2>4, OrderedNext
<1>10. ASSUME UNCHANGED <<chat, history>> PROVE Ordered'
  <2>1. \A l : Follows(l) => FollowsNext(l)
    BY <1>10 DEF Follows, FollowsNext
  <2> QED
    BY <1>10, <1>b, <1>c, <2>1, OrderedNext
<1> QED
  BY Cases, <1>2, <1>3, <1>4, <1>5, <1>6, <1>7, <1>8, <1>9, <1>10 DEF CacheExpires, vars

\* The model is shown a question and then its answer, however the chats and
\* deletions of a session interleave.
THEOREM AnswersFollow == Spec => []AnswersFollowQuestions
<1>1. Init => Owns /\ SliceOwns /\ Ordered
  <2> SUFFICES ASSUME Init PROVE Owns /\ SliceOwns /\ Ordered
    OBVIOUS
  <2>1. \A p \in Processes, s \in Sessions : history[p][s] = <<>> /\ gone[p][s] = {}
    BY DEF Init
  <2>2. \A c \in Chats : chat[c].pc = "new"
    BY DEF Init, NewChat
  <2>3. ToSet(<<>>) = {} /\ Follows(<<>>)
    BY DEF ToSet, Follows, FollowsIn
  <2> QED
    BY <2>1, <2>2, <2>3 DEF Owns, SliceOwns, Ordered, ListsFollow, SlicesFollow
<1>2. Ordered => AnswersFollowQuestions
  BY DEF Ordered, ListsFollow, Follows, FollowsIn, Answer, AnswersFollowQuestions
<1> QED
  BY <1>1, <1>2, InitBase, NextBase, NextOwns, NextOrdered, PTL DEF Spec

-----------------------------------------------------------------------------
(* What falls out of a session is the oldest turn of a list that is one    *)
(* too long.  If it is an answer, each of the MAX_TURNS pairs behind it    *)
(* holds the answer of another chat.                                       *)
AnswerOf(c) == [role |-> "assistant", chat |-> c]

WritersIn(f, p, s) == {d \in Chats : f[d].proc = p /\ f[d].session = s /\ f[d].role = "assistant"}
CrowdedIn(f, p, s) == Cardinality(WritersIn(f, p, s)) > MaxTurns

\* The chats whose answer is written.
DueIn(f, c, p, s) ==
    /\ f[c].proc = p /\ f[c].session = s
    /\ \/ f[c].pc \in {"trim", "store"} /\ f[c].role = "assistant"
       \/ f[c].pc = "done" /\ f[c].outcome \in {"answered", "failed"}

RemembersIn(f, g, l, p, s) ==
    \A c \in Chats : DueIn(f, c, p, s) =>
      AnswerOf(c) \in ToSet(l) \cup g[p][s] \/ CrowdedIn(f, p, s)

ListsRemember ==
    \A p \in Processes, s \in Sessions : RemembersIn(chat, gone, history[p][s], p, s)

SlicesRemember ==
    \A c \in Chats : chat[c].pc = "store" =>
      RemembersIn(chat, gone, chat[c].slice, chat[c].proc, chat[c].session)

\* A chat has its role from the turn it writes, and ends with its answer's.
RolesFit ==
    \A c \in Chats :
      /\ chat[c].pc \in {"new", "sql", "insight"} => chat[c].role = "user"
      /\ chat[c].pc = "done" /\ chat[c].outcome \in {"answered", "failed"} => chat[c].role = "assistant"

NoTwice(l) == \A i, j \in 1 .. Len(l) : l[i] = l[j] => i = j

WrittenOnce ==
    /\ \A p \in Processes, s \in Sessions : NoTwice(history[p][s])
    /\ \A c \in Chats : chat[c].pc = "store" => NoTwice(chat[c].slice)

LEMMA WritersFinite ==
  ASSUME NEW f, NEW p, NEW s
  PROVE  IsFiniteSet(WritersIn(f, p, s)) /\ Cardinality(WritersIn(f, p, s)) \in Nat
<1>1. IsFiniteSet(Chats)
  BY SandboxAssumption DEF SandboxAssumption
<1>2. WritersIn(f, p, s) \in SUBSET Chats
  BY DEF WritersIn
<1>3. IsFiniteSet(WritersIn(f, p, s))
  BY ONLY <1>1, <1>2, FS_Subset
<1>4. Cardinality(WritersIn(f, p, s)) \in Nat
  BY ONLY <1>3, FS_CardinalityType
<1> QED
  BY <1>3, <1>4

LEMMA CutIsCrowded ==
  ASSUME Typed, Owns, NEW p \in Processes, NEW s \in Sessions,
         Len(history[p][s]) = 2 * MaxTurns + 1,
         Follows(history[p][s]), NoTwice(history[p][s]),
         history[p][s][1].role = "assistant"
  PROVE  CrowdedIn(chat, p, s)
<1> DEFINE l == history[p][s]
           W == WritersIn(chat, p, s)
           at == [k \in 0 .. MaxTurns |->
                    IF k = 0 THEN 1 ELSE IF l[2 * k].role = "assistant" THEN 2 * k ELSE 2 * k + 1]
           writer == [k \in 0 .. MaxTurns |-> l[at[k]].chat]
<1>1. l \in Seq(Turns)
  BY Lengths
<1>2. \A i \in 1 .. 2 * MaxTurns + 1 : /\ l[i] \in Turns /\ l[i] \in ToSet(l)
                                       /\ l[i].role \in {"user", "assistant"} /\ l[i].chat \in Chats
  BY <1>1, ListFacts
<1>3. ASSUME NEW k \in 0 .. MaxTurns
      PROVE  /\ at[k] \in 1 .. 2 * MaxTurns + 1
             /\ at[k] = 2 * k \/ at[k] = 2 * k + 1
             /\ l[at[k]].role = "assistant"
  <2>1. CASE k = 0
    BY <2>1
  <2>2. CASE k # 0
    <3>1. 2 * k \in 1 .. 2 * MaxTurns /\ 2 * k + 1 \in 1 .. 2 * MaxTurns + 1
          /\ 2 * k \in 1 .. 2 * MaxTurns + 1
      BY <2>2
    <3>2. CASE l[2 * k].role = "assistant"
      BY <2>2, <3>1, <3>2
    <3>3. CASE l[2 * k].role # "assistant"
      <4>1. l[2 * k].role = "user"
        BY <1>2, <3>1, <3>3
      <4>2. l[2 * k + 1] = Answer(l[2 * k])
        BY <3>1, <4>1 DEF Follows, FollowsIn
      <4> QED
        BY <2>2, <3>1, <3>3, <4>2 DEF Answer
    <3> QED
      BY <3>2, <3>3
  <2> QED
    BY <2>1, <2>2
<1>4. ASSUME NEW k \in 0 .. MaxTurns PROVE writer[k] \in W
  <2>1. l[at[k]] \in ToSet(l) /\ l[at[k]].role = "assistant" /\ l[at[k]].chat \in Chats
    BY <1>2, <1>3
  <2>2. Owned(l[at[k]], p, s)
    BY <2>1 DEF Owns
  <2> QED
    BY <2>1, <2>2 DEF Owned, OwnedIn, WritersIn
<1>5. ASSUME NEW j \in 0 .. MaxTurns, NEW k \in 0 .. MaxTurns, writer[j] = writer[k]
      PROVE  j = k
  <2>1. l[at[j]] \in Turns /\ l[at[k]] \in Turns
    BY <1>2, <1>3
  <2>2. l[at[j]].role = l[at[k]].role /\ l[at[j]].chat = l[at[k]].chat
    BY <1>3, <1>5
  <2>3. l[at[j]] = l[at[k]]
    <3> HIDE DEF l, at
    <3> QED
      BY <2>1, <2>2 DEF Turns
  <2>4. at[j] = at[k]
    BY <1>3, <2>3 DEF NoTwice
  <2>5. (at[j] = 2 * j \/ at[j] = 2 * j + 1) /\ (at[k] = 2 * k \/ at[k] = 2 * k + 1)
    BY <1>3
  <2> HIDE DEF at
  <2> QED
    BY <2>4, <2>5
<1>6. writer \in Injection(0 .. MaxTurns, W)
  <2> HIDE DEF at, W, l
  <2>1. writer \in [0 .. MaxTurns -> W]
    BY <1>4
  <2> HIDE DEF writer
  <2> QED
    BY <1>5, <2>1 DEF Injection, IsInjective
<1>7. IsFiniteSet(W) /\ Cardinality(W) \in Nat
  BY WritersFinite
<1>8. 0 \in Int /\ MaxTurns \in Int
  OBVIOUS
<1>9. Cardinality(0 .. MaxTurns) = IF 0 > MaxTurns THEN 0 ELSE MaxTurns - 0 + 1
  BY ONLY <1>8, FS_Interval
<1>10. Cardinality(0 .. MaxTurns) <= Cardinality(W)
  BY ONLY <1>6, <1>7, FS_Injection
<1> HIDE DEF W
<1>11. Cardinality(W) > MaxTurns
  BY <1>7, <1>9, <1>10
<1> QED
  BY <1>11 DEF CrowdedIn, W

\* The steps that touch a list or a slice, and the others.
LEMMA ListsMove ==
  ASSUME Typed, [Next]_vars
  PROVE  \/ /\ UNCHANGED <<history, gone>>
            /\ \A c \in Chats : chat'[c].pc = "store" => chat'[c] = chat[c]
         \/ \E c \in Chats : AppendTurn(c)
         \/ \E c \in Chats : TrimRead(c) /\ chat'[c].pc = "store"
         \/ \E c \in Chats : TrimStore(c)
         \/ \E p \in Processes, s \in Sessions : ClearSession(p, s)
<1> DEFINE Still == /\ UNCHANGED <<history, gone>>
                    /\ \A c \in Chats : chat'[c].pc = "store" => chat'[c] = chat[c]
<1>1. ASSUME NEW c \in Chats, Alone(c), chat'[c].pc # "store", UNCHANGED <<history, gone>>
      PROVE  Still
  BY <1>1 DEF Alone
<1>2. ASSUME NEW c \in Chats, NEW p \in Processes, NEW s \in Sessions, NEW q \in Questions, Ask(c, p, s, q)
      PROVE  Still
  BY <1>1, <1>2, AskEffect
<1>3. ASSUME NEW c \in Chats, Querying(c) PROVE Still
  BY <1>1, <1>3, QueryEffect
<1>4. ASSUME NEW c \in Chats, EnsureSession(c) \/ SessionMissing(c) PROVE Still
  BY <1>1, <1>4, EnsureEffect, MissingEffect
<1>5. ASSUME NEW c \in Chats, TrimRead(c), chat'[c].pc # "store" PROVE Still
  BY <1>1, <1>5, TrimReadEffect
<1>6. ASSUME UNCHANGED <<chat, history, gone>> PROVE Still
  BY <1>6
<1> HIDE DEF Still
<1>7. \/ Still
      \/ \E c \in Chats : AppendTurn(c)
      \/ \E c \in Chats : TrimRead(c) /\ chat'[c].pc = "store"
      \/ \E c \in Chats : TrimStore(c)
      \/ \E p \in Processes, s \in Sessions : ClearSession(p, s)
  BY Cases, <1>2, <1>3, <1>4, <1>5, <1>6 DEF CacheExpires, vars
<1> QED
  BY <1>7 DEF Still

\* Who has written an answer, or is about to, stays so; and an answer is
\* written by its append.
LEMMA WritersStay ==
  ASSUME Typed, RolesFit, [Next]_vars, NEW d \in Chats
  PROVE  /\ chat[d].role = "assistant" => SameRequest(d) /\ chat'[d].role = "assistant"
         /\ \A p, s : DueIn(chat', d, p, s) =>
              DueIn(chat, d, p, s) \/ (AppendTurn(d) /\ chat[d].role = "assistant"
                                       /\ chat[d].proc = p /\ chat[d].session = s)
         /\ chat'[d].pc \in {"new", "sql", "insight"} => chat'[d].role = "user"
         /\ chat'[d].pc = "done" /\ chat'[d].outcome \in {"answered", "failed"} => chat'[d].role = "assistant"
<1> DEFINE Fits ==
         /\ chat[d].role = "assistant" => SameRequest(d) /\ chat'[d].role = "assistant"
         /\ \A p, s : DueIn(chat', d, p, s) =>
              DueIn(chat, d, p, s) \/ (AppendTurn(d) /\ chat[d].role = "assistant"
                                       /\ chat[d].proc = p /\ chat[d].session = s)
         /\ chat'[d].pc \in {"new", "sql", "insight"} => chat'[d].role = "user"
         /\ chat'[d].pc = "done" /\ chat'[d].outcome \in {"answered", "failed"} => chat'[d].role = "assistant"
<1>r. /\ chat[d].pc \in {"new", "sql", "insight"} => chat[d].role = "user"
      /\ chat[d].pc = "done" /\ chat[d].outcome \in {"answered", "failed"} => chat[d].role = "assistant"
  BY DEF RolesFit
<1>1. ASSUME chat'[d] = chat[d] PROVE Fits
  BY <1>1, <1>r DEF DueIn, SameRequest
<1>2. ASSUME NEW p \in Processes, NEW s \in Sessions, NEW q \in Questions, Ask(d, p, s, q) PROVE Fits
  <2>1. /\ chat[d].pc = "new" /\ chat'[d].role = chat[d].role
        /\ chat'[d].pc = "sql" \/ (chat'[d].pc = "done" /\ chat'[d].outcome = "cached")
    BY <1>2, AskEffect
  <2> QED
    BY <1>r, <2>1 DEF DueIn
<1>3. ASSUME Querying(d) PROVE Fits
  <2>1. /\ chat[d].pc \in {"sql", "insight"} /\ chat'[d].role = chat[d].role
        /\ \/ chat'[d].pc \in {"sql", "insight", "ensure"}
           \/ chat'[d].pc = "done" /\ chat'[d].outcome = "raised"
    BY <1>3, QueryEffect
  <2> QED
    BY <1>r, <2>1 DEF DueIn
<1>4. ASSUME EnsureSession(d) \/ SessionMissing(d) PROVE Fits
  <2>1. /\ SameRequest(d) /\ chat'[d].role = chat[d].role
        /\ chat'[d].pc = "append" \/ (chat'[d].pc = "done" /\ chat'[d].outcome = "raised")
    BY <1>4, EnsureEffect, MissingEffect
  <2> QED
    BY <1>r, <2>1 DEF DueIn
<1>5. ASSUME AppendTurn(d) PROVE Fits
  <2>1. SameRequest(d) /\ chat'[d].role = chat[d].role /\ chat'[d].pc = "trim"
    BY <1>5, AppendEffect
  <2> QED
    BY <1>5, <1>r, <2>1 DEF DueIn, SameRequest
<1>6. ASSUME chat[d].pc \in {"trim", "store"}, SameRequest(d),
             AddedEffect(d) \/ (chat'[d].pc = "store" /\ chat'[d].role = chat[d].role)
      PROVE  Fits
  BY <1>6, <1>r DEF DueIn, SameRequest, AddedEffect
<1>7. ASSUME TrimRead(d) \/ TrimStore(d) PROVE Fits
  <2>1. /\ chat[d].pc \in {"trim", "store"} /\ SameRequest(d)
        /\ AddedEffect(d) \/ (chat'[d].pc = "store" /\ chat'[d].role = chat[d].role)
    BY <1>7, TrimReadEffect, TrimStoreEffect
  <2> QED
    BY <1>6, <2>1
<1>8. ASSUME NEW c \in Chats, c # d, Alone(c) PROVE Fits
  BY <1>1, <1>8 DEF Alone
<1> HIDE DEF Fits
<1>9. ASSUME NEW c \in Chats,
             \/ \E p \in Processes, s \in Sessions, q \in Questions : Ask(c, p, s, q)
             \/ Querying(c) \/ EnsureSession(c) \/ SessionMissing(c)
             \/ AppendTurn(c) \/ TrimRead(c) \/ TrimStore(c)
      PROVE  Fits
  <2>1. Alone(c)
    BY <1>9, AskEffect, QueryEffect, EnsureEffect, MissingEffect, AppendEffect,
       TrimReadEffect, TrimStoreEffect
  <2> QED
    BY <1>2, <1>3, <1>4, <1>5, <1>7, <1>8, <1>9, <2>1
<1>10. Fits
  BY Cases, <1>1, <1>9 DEF ClearSession, CacheExpires, vars
<1> QED
  BY <1>10 DEF Fits

LEMMA NextRoles == Typed /\ RolesFit /\ [Next]_vars => RolesFit'
  BY WritersStay DEF RolesFit

LEMMA CrowdStays ==
  ASSUME Typed, RolesFit, [Next]_vars, NEW p, NEW s, CrowdedIn(chat, p, s)
  PROVE  CrowdedIn(chat', p, s)
<1> DEFINE W == WritersIn(chat, p, s)
           X == WritersIn(chat', p, s)
<1>1. W \subseteq X
  BY WritersStay DEF WritersIn, SameRequest
<1>2. IsFiniteSet(X) /\ Cardinality(X) \in Nat /\ Cardinality(W) \in Nat
  BY WritersFinite
<1>3. W \in SUBSET X
  BY <1>1
<1>4. Cardinality(W) <= Cardinality(X)
  BY ONLY <1>2, <1>3, FS_Subset
<1>5. Cardinality(W) > MaxTurns
  BY DEF CrowdedIn
<1> HIDE DEF W, X
<1>6. Cardinality(X) > MaxTurns
  BY <1>2, <1>4, <1>5
<1> QED
  BY <1>6 DEF CrowdedIn, X

\* A list is as good as the one it replaces if it holds its answers, or those
\* it does not hold are gone or crowded out.
LEMMA RemembersStays ==
  ASSUME Typed, RolesFit, [Next]_vars, NEW p, NEW s, NEW l, NEW m,
         RemembersIn(chat, gone, l, p, s),
         gone[p][s] \subseteq gone'[p][s],
         \A c \in Chats : AnswerOf(c) \in ToSet(l) =>
           AnswerOf(c) \in ToSet(m) \cup gone'[p][s] \/ CrowdedIn(chat, p, s),
         \A c \in Chats : AppendTurn(c) /\ chat[c].role = "assistant"
                          /\ chat[c].proc = p /\ chat[c].session = s => AnswerOf(c) \in ToSet(m)
  PROVE  RemembersIn(chat', gone', m, p, s)
<1> SUFFICES ASSUME NEW c \in Chats, DueIn(chat', c, p, s)
             PROVE  AnswerOf(c) \in ToSet(m) \cup gone'[p][s] \/ CrowdedIn(chat', p, s)
  BY DEF RemembersIn
<1>1. CASE DueIn(chat, c, p, s)
  <2>1. AnswerOf(c) \in ToSet(l) \cup gone[p][s] \/ CrowdedIn(chat, p, s)
    BY <1>1 DEF RemembersIn
  <2>2. AnswerOf(c) \in ToSet(m) \cup gone'[p][s] \/ CrowdedIn(chat, p, s)
    BY <2>1
  <2> QED
    BY <2>2, CrowdStays
<1>2. CASE AppendTurn(c) /\ chat[c].role = "assistant" /\ chat[c].proc = p /\ chat[c].session = s
  BY <1>2
<1> QED
  BY <1>1, <1>2, WritersStay

LEMMA AppendOnce ==
  ASSUME NEW l \in Seq(Turns), NEW t \in Turns, NoTwice(l), t \notin ToSet(l)
  PROVE  NoTwice(Append(l, t))
<1> DEFINE a == Append(l, t)
<1>1. /\ a \in Seq(Turns) /\ Len(a) = Len(l) + 1 /\ Len(l) \in Nat
      /\ \A i \in 1 .. Len(l) : a[i] = l[i]
      /\ a[Len(l) + 1] = t
  BY AppendProperties, LenProperties
<1>2. \A i \in 1 .. Len(l) : a[i] # t
  BY <1>1, ListFacts
<1> HIDE DEF a
<1>3. ASSUME NEW i \in 1 .. Len(a), NEW j \in 1 .. Len(a), a[i] = a[j] PROVE i = j
  <2>1. CASE i <= Len(l) /\ j <= Len(l)
    BY <1>1, <1>3, <2>1 DEF NoTwice
  <2>2. CASE i = Len(l) + 1 \/ j = Len(l) + 1
    <3>1. i \in 1 .. Len(l) \/ i = Len(l) + 1
      BY <1>1
    <3>2. j \in 1 .. Len(l) \/ j = Len(l) + 1
      BY <1>1
    <3> QED
      BY <1>1, <1>2, <1>3, <2>2, <3>1, <3>2
  <2> QED
    BY <1>1, <2>1, <2>2
<1>4. NoTwice(a)
  BY <1>3 DEF NoTwice
<1> QED
  BY <1>4 DEF a

LEMMA CutOnce ==
  ASSUME NEW l \in Seq(Turns), NoTwice(l), Len(l) > 2 * MaxTurns
  PROVE  NoTwice(SubSeq(l, Len(l) - 2 * MaxTurns + 1, Len(l)))
<1> DEFINE cut == SubSeq(l, Len(l) - 2 * MaxTurns + 1, Len(l))
<1>1. Len(cut) = 2 * MaxTurns /\ \A i \in 1 .. Len(cut) : cut[i] = l[Len(l) - 2 * MaxTurns + i]
  BY SubSeqTurns
<1>2. Len(l) \in Nat
  BY ListFacts
<1> HIDE DEF cut
<1>3. ASSUME NEW i \in 1 .. Len(cut), NEW j \in 1 .. Len(cut), cut[i] = cut[j] PROVE i = j
  <2>1. Len(l) - 2 * MaxTurns + i \in 1 .. Len(l) /\ Len(l) - 2 * MaxTurns + j \in 1 .. Len(l)
    BY <1>1, <1>2
  <2>2. Len(l) - 2 * MaxTurns + i = Len(l) - 2 * MaxTurns + j
    BY <1>1, <1>3, <2>1 DEF NoTwice
  <2> QED
    BY <1>1, <1>2, <2>2
<1>4. NoTwice(cut)
  BY <1>3 DEF NoTwice
<1> QED
  BY <1>4 DEF cut

\* No turn is in a list twice: its chat writes it once.
LEMMA NextOnce == Base /\ Owns /\ WrittenOnce /\ [Next]_vars => WrittenOnce'
<1> SUFFICES ASSUME Typed, Owns, WrittenOnce, [Next]_vars PROVE WrittenOnce'
  BY DEF Base
<1>1. \A c \in Chats : chat[c].proc \in Processes /\ chat[c].session \in Sessions
  BY Lengths
<1>2. CASE /\ UNCHANGED <<history, gone>>
           /\ \A c \in Chats : chat'[c].pc = "store" => chat'[c] = chat[c]
  BY <1>2 DEF WrittenOnce
<1>3. ASSUME NEW c \in Chats, AppendTurn(c) PROVE WrittenOnce'
  <2>1. TurnOf(c) \notin ToSet(history[chat[c].proc][chat[c].session])
    BY <1>1, <1>3, OwnTurnIsOwned DEF Owns
  <2>2. NoTwice(Append(history[chat[c].proc][chat[c].session], TurnOf(c)))
    BY <1>1, <2>1, AppendOnce, Lengths DEF WrittenOnce
  <2>3. \A p \in Processes, s \in Sessions :
          history'[p][s] = IF p = chat[c].proc /\ s = chat[c].session
                           THEN Append(history[chat[c].proc][chat[c].session], TurnOf(c))
                           ELSE history[p][s]
    BY <1>3, AppendEffect
  <2>4. \A d \in Chats : chat'[d].pc = "store" => chat'[d] = chat[d]
    BY <1>3, AppendEffect DEF Alone
  <2> QED
    BY <2>2, <2>3, <2>4 DEF WrittenOnce
<1>4. ASSUME NEW c \in Chats, TrimRead(c), chat'[c].pc = "store" PROVE WrittenOnce'
  <2> DEFINE l == history[chat[c].proc][chat[c].session]
  <2>1. /\ Alone(c) /\ UNCHANGED history
        /\ Len(l) > 2 * MaxTurns /\ l \in Seq(Turns)
        /\ chat'[c].slice = SubSeq(l, Len(l) - 2 * MaxTurns + 1, Len(l))
    BY <1>4, TrimReadEffect DEF AddedEffect
  <2>2. NoTwice(chat'[c].slice)
    BY <1>1, <2>1, CutOnce DEF WrittenOnce
  <2> QED
    BY <2>1, <2>2 DEF WrittenOnce, Alone
<1>5. ASSUME NEW c \in Chats, TrimStore(c) PROVE WrittenOnce'
  <2>1. /\ chat[c].pc = "store" /\ chat'[c].pc # "store" /\ Alone(c)
        /\ \A p \in Processes, s \in Sessions :
             history'[p][s] = IF p = chat[c].proc /\ s = chat[c].session THEN chat[c].slice ELSE history[p][s]
    BY <1>5, TrimStoreEffect DEF AddedEffect
  <2> QED
    BY <2>1 DEF WrittenOnce, Alone
<1>6. ASSUME NEW p \in Processes, NEW s \in Sessions, ClearSession(p, s) PROVE WrittenOnce'
  <2>1. /\ UNCHANGED chat
        /\ \A r \in Processes, t \in Sessions :
             history'[r][t] = <<>> \/ history'[r][t] = history[r][t]
    BY <1>6, ClearEffect
  <2>2. NoTwice(<<>>)
    BY DEF NoTwice
  <2> QED
    BY <2>1, <2>2 DEF WrittenOnce
<1> QED
  BY ListsMove, <1>2, <1>3, <1>4, <1>5, <1>6

\* Cutting a list loses no answer, or the session is crowded.
LEMMA CutRemembers ==
  ASSUME Base, Owns, Ordered, WrittenOnce, NEW p \in Processes, NEW s \in Sessions,
         Len(history[p][s]) > 2 * MaxTurns, NEW c \in Chats,
         AnswerOf(c) \in ToSet(history[p][s])
  PROVE  LET l == history[p][s] IN
         \/ AnswerOf(c) \in ToSet(SubSeq(l, Len(l) - 2 * MaxTurns + 1, Len(l)))
         \/ CrowdedIn(chat, p, s)
<1> DEFINE l == history[p][s]
           cut == SubSeq(l, Len(l) - 2 * MaxTurns + 1, Len(l))
<1>1. l \in Seq(Turns) /\ Len(l) \in Nat /\ Typed
  BY Lengths DEF Base
<1>2. Len(l) = 2 * MaxTurns + 1
  <2>1. Len(l) <= 2 * MaxTurns + 1
    BY <1>1 DEF Base, Sized
  <2> QED
    BY <1>1, <2>1
<1>3. /\ cut \in Seq(Turns) /\ Len(cut) = 2 * MaxTurns
      /\ \A i \in 1 .. 2 * MaxTurns : cut[i] = l[i + 1]
  <2>1. /\ cut \in Seq(Turns) /\ Len(cut) = 2 * MaxTurns
        /\ \A i \in 1 .. Len(cut) : cut[i] = l[Len(l) - 2 * MaxTurns + i]
    BY <1>1, SubSeqTurns
  <2>2. \A i \in 1 .. 2 * MaxTurns : Len(l) - 2 * MaxTurns + i = i + 1
    BY <1>2
  <2> QED
    BY <2>1, <2>2
<1>4. PICK i \in 1 .. Len(l) : l[i] = AnswerOf(c)
  BY <1>1, LenProperties DEF ToSet
<1>5. CASE i = 1
  BY <1>1, <1>2, <1>4, <1>5, CutIsCrowded DEF AnswerOf, Ordered, ListsFollow, WrittenOnce
<1>6. CASE i # 1
  <2>1. i - 1 \in 1 .. 2 * MaxTurns /\ i - 1 + 1 = i
    BY <1>2, <1>6
  <2>2. cut[i - 1] = AnswerOf(c)
    BY <1>3, <1>4, <2>1
  <2>3. cut[i - 1] \in ToSet(cut)
    BY <1>3, <2>1, ListFacts
  <2> QED
    BY <2>2, <2>3
<1> QED
  BY <1>5, <1>6

LEMMA NextRemembers ==
  Base /\ Owns /\ SliceOwns /\ Ordered /\ RolesFit /\ WrittenOnce
    /\ ListsRemember /\ SlicesRemember /\ [Next]_vars => ListsRemember' /\ SlicesRemember'
<1> SUFFICES ASSUME Base, Owns, Ordered, RolesFit, WrittenOnce, ListsRemember, SlicesRemember,
                    [Next]_vars
             PROVE  ListsRemember' /\ SlicesRemember'
  OBVIOUS
<1>t. Typed /\ OneAdding
  BY DEF Base
<1>p. \A c \in Chats : chat[c].proc \in Processes /\ chat[c].session \in Sessions
  BY <1>t, Lengths
\* An answer that is appended is in its list, and no slice of that process is open.
<1>1. ASSUME NEW c \in Chats, AppendTurn(c), chat[c].role = "assistant"
      PROVE  AnswerOf(c) \in ToSet(history'[chat[c].proc][chat[c].session])
  BY <1>1, <1>t, TurnSetEffects DEF AnswerOf, TurnOf
<1>2. ASSUME NEW c \in Chats, AppendTurn(c), NEW d \in Chats, chat[d].pc = "store"
      PROVE  chat[c].proc # chat[d].proc
  <2>1. chat[c].pc = "append"
    BY <1>2, <1>t, AppendEffect
  <2> QED
    BY <1>2, <1>t, <2>1 DEF OneAdding, Adding
\* What keeps a list, or a slice, that is not touched.
<1>3. ASSUME NEW p \in Processes, NEW s \in Sessions, NEW m,
             gone[p][s] \subseteq gone'[p][s], m = history'[p][s],
             \A c \in Chats : AnswerOf(c) \in ToSet(history[p][s]) =>
               AnswerOf(c) \in ToSet(m) \cup gone'[p][s]
      PROVE  RemembersIn(chat', gone', m, p, s)
  <2>1. RemembersIn(chat, gone, history[p][s], p, s)
    BY DEF ListsRemember
  <2>2. \A c \in Chats : AppendTurn(c) /\ chat[c].role = "assistant"
                         /\ chat[c].proc = p /\ chat[c].session = s => AnswerOf(c) \in ToSet(m)
    BY <1>1, <1>3
  <2> QED
    BY <1>3, <1>t, <2>1, <2>2, RemembersStays
<1>4. ASSUME NEW d \in Chats, chat[d].pc = "store",
             NEW p, p = chat[d].proc, NEW s, s = chat[d].session, gone[p][s] \subseteq gone'[p][s]
      PROVE  RemembersIn(chat', gone', chat[d].slice, p, s)
  <2>1. RemembersIn(chat, gone, chat[d].slice, p, s)
    BY <1>4 DEF SlicesRemember
  <2>2. \A c \in Chats : ~(AppendTurn(c) /\ chat[c].proc = p)
    BY <1>2, <1>4
  <2> QED
    BY <1>4, <1>t, <2>1, <2>2, RemembersStays
\* The lists and slices of the next state, in those words.
<1>5. (\A p \in Processes, s \in Sessions : RemembersIn(chat', gone', history'[p][s], p, s))
        => ListsRemember'
  BY DEF ListsRemember, RemembersIn, DueIn, CrowdedIn, WritersIn, ToSet
<1>6. (\A c \in Chats : chat'[c].pc = "store" =>
         RemembersIn(chat', gone', chat'[c].slice, chat'[c].proc, chat'[c].session))
        => SlicesRemember'
  BY DEF SlicesRemember, RemembersIn, DueIn, CrowdedIn, WritersIn, ToSet
<1>7. CASE /\ UNCHANGED <<history, gone>>
           /\ \A c \in Chats : chat'[c].pc = "store" => chat'[c] = chat[c]
  <2>1. ListsRemember'
    BY <1>3, <1>5, <1>7
  <2>2. SlicesRemember'
    BY <1>4, <1>6, <1>7
  <2> QED
    BY <2>1, <2>2
<1>8. ASSUME NEW c \in Chats, AppendTurn(c) PROVE ListsRemember' /\ SlicesRemember'
  <2>1. /\ UNCHANGED gone
        /\ \A d \in Chats : chat'[d].pc = "store" => chat'[d] = chat[d]
        /\ \A p \in Processes, s \in Sessions : ToSet(history[p][s]) \subseteq ToSet(history'[p][s])
    <3>1. UNCHANGED gone /\ Alone(c) /\ chat'[c].pc = "trim"
      BY <1>8, <1>t, AppendEffect
    <3>2. ToSet(history[chat[c].proc][chat[c].session])
            \subseteq ToSet(history'[chat[c].proc][chat[c].session])
      BY <1>8, <1>t, TurnSetEffects
    <3>3. \A p \in Processes, s \in Sessions :
            p # chat[c].proc \/ s # chat[c].session => history'[p][s] = history[p][s]
      BY <1>8, <1>t, AppendEffect
    <3> QED
      BY <3>1, <3>2, <3>3 DEF Alone
  <2>2. ListsRemember'
    BY <1>3, <1>5, <2>1
  <2>3. SlicesRemember'
    BY <1>4, <1>6, <2>1
  <2> QED
    BY <2>2, <2>3
<1>9. ASSUME NEW c \in Chats, TrimRead(c), chat'[c].pc = "store"
      PROVE  ListsRemember' /\ SlicesRemember'
  <2> DEFINE p == chat[c].proc
             s == chat[c].session
             l == history[p][s]
  <2>1. /\ Alone(c) /\ SameRequest(c) /\ UNCHANGED <<history, gone>> /\ chat[c].pc = "trim"
        /\ Len(l) > 2 * MaxTurns /\ l \in Seq(Turns)
        /\ chat'[c].slice = SubSeq(l, Len(l) - 2 * MaxTurns + 1, Len(l))
    BY <1>9, <1>t, TrimReadEffect DEF AddedEffect
  <2>2. ListsRemember'
    BY <1>3, <1>5, <2>1
  <2>3. RemembersIn(chat', gone', chat'[c].slice, p, s)
    <3>1. RemembersIn(chat, gone, l, p, s)
      BY <1>p DEF ListsRemember
    <3>2. \A d \in Chats : AnswerOf(d) \in ToSet(l) =>
            AnswerOf(d) \in ToSet(chat'[c].slice) \cup gone'[p][s] \/ CrowdedIn(chat, p, s)
      BY <1>p, <2>1, CutRemembers
    <3>3. \A d \in Chats : ~(AppendTurn(d) /\ chat[d].proc = p)
      <4>1. ASSUME NEW d \in Chats, AppendTurn(d), chat[d].proc = p PROVE FALSE
        <5>1. chat[d].pc = "append"
          BY <1>t, <4>1, AppendEffect
        <5> QED
          BY <1>t, <2>1, <4>1, <5>1 DEF OneAdding, Adding
      <4> QED
        BY <4>1
    <3>4. gone[p][s] \subseteq gone'[p][s]
      BY <2>1
    <3> HIDE DEF p, s, l
    <3> QED
      BY <1>t, <3>1, <3>2, <3>3, <3>4, RemembersStays
  <2>4. ASSUME NEW d \in Chats, d # c, chat'[d].pc = "store"
        PROVE  RemembersIn(chat', gone', chat'[d].slice, chat'[d].proc, chat'[d].session)
    <3>1. chat'[d] = chat[d]
      BY <2>1, <2>4 DEF Alone
    <3> QED
      BY <1>4, <2>1, <2>4, <3>1
  <2>5. SlicesRemember'
    BY <1>6, <2>1, <2>3, <2>4 DEF SameRequest
  <2> QED
    BY <2>2, <2>5
<1>10. ASSUME NEW c \in Chats, TrimStore(c) PROVE ListsRemember' /\ SlicesRemember'
  <2>1. /\ chat[c].pc = "store" /\ chat'[c].pc # "store" /\ Alone(c) /\ UNCHANGED gone
        /\ \A p \in Processes, s \in Sessions :
             history'[p][s] = IF p = chat[c].proc /\ s = chat[c].session THEN chat[c].slice ELSE history[p][s]
    BY <1>10, <1>t, TrimStoreEffect DEF AddedEffect
  <2>2. ASSUME NEW p \in Processes, NEW s \in Sessions
        PROVE  RemembersIn(chat', gone', history'[p][s], p, s)
    <3>1. CASE p = chat[c].proc /\ s = chat[c].session
      BY <1>4, <2>1, <3>1
    <3>2. CASE ~(p = chat[c].proc /\ s = chat[c].session)
      BY <1>3, <2>1, <3>2
    <3> QED
      BY <3>1, <3>2
  <2>3. SlicesRemember'
    BY <1>4, <1>6, <2>1 DEF Alone
  <2> QED
    BY <1>5, <2>2, <2>3
<1>11. ASSUME NEW p \in Processes, NEW s \in Sessions, ClearSession(p, s)
       PROVE  ListsRemember' /\ SlicesRemember'
  <2>1. /\ UNCHANGED chat
        /\ \A r \in Processes, t \in Sessions :
             /\ gone[r][t] \subseteq gone'[r][t]
             /\ \/ history'[r][t] = history[r][t]
                \/ ToSet(history[r][t]) \subseteq gone'[r][t]
    BY <1>11, <1>t, ClearEffect
  <2>2. ListsRemember'
    BY <1>3, <1>5, <2>1
  <2>3. SlicesRemember'
    BY <1>4, <1>6, <1>p, <2>1
  <2> QED
    BY <2>2, <2>3
<1> QED
  BY <1>t, ListsMove, <1>7, <1>8, <1>9, <1>10, <1>11

\* What a chat has answered its session remembers, until it is deleted or
\* MAX_TURNS other chats have answered in it: chats of one session that run at
\* the same time lose nothing of each other (add_turn).
THEOREM AnswersAreRemembered == Spec => []AnsweredIsRemembered
<1>1. Init => Owns /\ SliceOwns /\ Ordered /\ RolesFit /\ WrittenOnce /\ ListsRemember /\ SlicesRemember
  <2> SUFFICES ASSUME Init
               PROVE  Owns /\ SliceOwns /\ Ordered /\ RolesFit /\ WrittenOnce /\ ListsRemember /\ SlicesRemember
    OBVIOUS
  <2>1. \A p \in Processes, s \in Sessions : history[p][s] = <<>> /\ gone[p][s] = {}
    BY DEF Init
  <2>2. \A c \in Chats : chat[c].pc = "new" /\ chat[c].role = "user"
    BY DEF Init, NewChat
  <2>3. ToSet(<<>>) = {} /\ Follows(<<>>) /\ NoTwice(<<>>)
    BY DEF ToSet, Follows, FollowsIn, NoTwice
  <2>4. Owns /\ SliceOwns /\ Ordered
    BY <2>1, <2>2, <2>3 DEF Owns, SliceOwns, Ordered, ListsFollow, SlicesFollow
  <2>5. RolesFit /\ WrittenOnce
    BY <2>1, <2>2, <2>3 DEF RolesFit, WrittenOnce
  <2>6. ListsRemember /\ SlicesRemember
    BY <2>2 DEF ListsRemember, SlicesRemember, RemembersIn, DueIn
  <2> QED
    BY <2>4, <2>5, <2>6
<1>2. Typed /\ ListsRemember => AnsweredIsRemembered
  <2> SUFFICES ASSUME Typed, ListsRemember, NEW c \in Chats,
                      chat[c].pc = "done", chat[c].outcome \in {"answered", "failed"}
               PROVE  \/ AnswerOf(c) \in ToSet(history[chat[c].proc][chat[c].session])
                                           \cup gone[chat[c].proc][chat[c].session]
                      \/ CrowdedIn(chat, chat[c].proc, chat[c].session)
    BY DEF AnsweredIsRemembered, AnswerOf, CrowdedIn, WritersIn
  <2>1. chat[c].proc \in Processes /\ chat[c].session \in Sessions
    BY Lengths
  <2> QED
    BY <2>1 DEF ListsRemember, RemembersIn, DueIn
<1>3. Base => Typed
  BY DEF Base
<1> QED
  BY <1>1, <1>2, <1>3, InitBase, NextBase, NextOwns, NextOrdered, NextRoles, NextOnce,
     NextRemembers, PTL DEF Spec
-----------------------------------------------------------------------------
(* A chat comes to its end in a bounded number of steps of its own: a try  *)
(* that fails costs an attempt, and every turn is added in four steps.     *)
TurnLeft == [ensure |-> 4, append |-> 3, trim |-> 2, store |-> 1]

StepsLeft(k) ==
    CASE k.pc = "new" -> 13
      [] k.pc = "sql" -> 12 - k.attempt
      [] k.pc = "insight" -> 9
      [] k.pc \in Adding -> TurnLeft[k.pc] + (IF k.role = "user" THEN 4 ELSE 0)
      [] k.pc = "done" -> 0

LEMMA StepsLeftIs ==
  ASSUME NEW k \in ChatStates
  PROVE  /\ StepsLeft(k) \in 0 .. 13
         /\ k.pc = "new" => StepsLeft(k) = 13
         /\ k.pc = "sql" => StepsLeft(k) = 12 - k.attempt
         /\ k.pc = "insight" => StepsLeft(k) = 9
         /\ k.pc = "ensure" => StepsLeft(k) = IF k.role = "user" THEN 8 ELSE 4
         /\ k.pc = "append" => StepsLeft(k) = IF k.role = "user" THEN 7 ELSE 3
         /\ k.pc = "trim" => StepsLeft(k) = IF k.role = "user" THEN 6 ELSE 2
         /\ k.pc = "store" => StepsLeft(k) = IF k.role = "user" THEN 5 ELSE 1
         /\ k.pc = "done" => StepsLeft(k) = 0
<1>1. k.pc \in Steps /\ k.attempt \in 0 .. 3 /\ k.role \in Roles
  BY DEF ChatStates, Attempts
<1>2. CASE k.pc \in {"new", "sql", "insight", "done"}
  BY <1>1, <1>2 DEF StepsLeft, Adding
<1>3. CASE k.pc \in Adding
  <2>1. StepsLeft(k) = TurnLeft[k.pc] + (IF k.role = "user" THEN 4 ELSE 0)
    BY <1>3 DEF StepsLeft, Adding
  <2> QED
    BY <1>3, <2>1 DEF TurnLeft, Adding
<1> QED
  BY <1>1, <1>2, <1>3 DEF Steps

LEMMA QuerySpends ==
  ASSUME Typed, Trying, NEW c \in Chats, Querying(c)
  PROVE  \/ chat[c].pc = "sql" /\ chat'[c].pc = "sql" /\ chat'[c].attempt = chat[c].attempt + 1
         \/ chat[c].pc = "sql" /\ chat[c].attempt < Attempts /\ chat'[c].pc \in {"insight", "ensure"}
         \/ chat[c].pc = "insight" /\ chat'[c].pc = "ensure"
         \/ chat[c].pc \in {"sql", "insight"} /\ chat'[c].pc = "done"
<1>1. chat[c] \in ChatStates
  BY DEF Typed
<1>2. CASE QueryWorks(c)
  <2>1. chat'[c] = [chat[c] EXCEPT !.pc = "insight"]
    BY <1>2, StepEffect DEF QueryWorks
  <2> QED
    BY <1>1, <1>2, <2>1 DEF QueryWorks, ChatStates, Trying
<1>3. CASE QueryFails(c)
  <2> DEFINE n == chat[c].attempt + 1
  <2>1. CASE n < Attempts
    <3>1. chat'[c] = [chat[c] EXCEPT !.attempt = n]
      BY <1>3, <2>1, StepEffect DEF QueryFails
    <3> QED
      BY <1>1, <1>3, <3>1 DEF QueryFails, ChatStates
  <2>2. CASE ~(n < Attempts)
    <3>1. chat'[c] = [chat[c] EXCEPT !.attempt = n, !.pc = "ensure", !.outcome = "failed"]
      BY <1>3, <2>2, StepEffect DEF QueryFails
    <3> QED
      BY <1>1, <1>3, <3>1 DEF QueryFails, ChatStates, Trying
  <2> QED
    BY <2>1, <2>2
<1>4. CASE InsightComes(c)
  <2>1. chat'[c] = [chat[c] EXCEPT !.pc = "ensure", !.outcome = "answered"]
    BY <1>4, StepEffect DEF InsightComes
  <2> QED
    BY <1>1, <1>4, <2>1 DEF InsightComes, ChatStates
<1>5. CASE ChatRaises(c)
  <2>1. chat'[c] = [chat[c] EXCEPT !.pc = "done", !.outcome = "raised"]
    BY <1>5, StepEffect DEF ChatRaises, Raised
  <2> QED
    BY <1>1, <1>5, <2>1 DEF ChatRaises, ChatStates
<1> QED
  BY <1>2, <1>3, <1>4, <1>5 DEF Querying

LEMMA NextAdvances ==
  Base /\ Base' /\ [Next]_vars =>
    \A c \in Chats : chat'[c] = chat[c] \/ StepsLeft(chat'[c]) < StepsLeft(chat[c])
<1> SUFFICES ASSUME Base, Base', [Next]_vars, NEW c \in Chats, chat'[c] # chat[c]
             PROVE  StepsLeft(chat'[c]) < StepsLeft(chat[c])
  OBVIOUS
<1>1. chat[c] \in ChatStates /\ chat'[c] \in ChatStates
  BY DEF Base, Typed
<1>2. Typed /\ Trying /\ Trying'
  BY DEF Base
<1>3. chat[c].role \in {"user", "assistant"}
      /\ chat[c].attempt \in 0 .. 3 /\ chat'[c].attempt \in 0 .. 3
  BY <1>1 DEF ChatStates, Roles, Attempts
<1>4. ASSUME NEW d \in Chats, Alone(d) PROVE d = c
  BY <1>4 DEF Alone
<1>5. ASSUME NEW d \in Chats, NEW p \in Processes, NEW s \in Sessions, NEW q \in Questions,
             Ask(d, p, s, q)
      PROVE  StepsLeft(chat'[c]) < StepsLeft(chat[c])
  <2>1. d = c /\ chat[c].pc = "new" /\ chat'[c].pc \in {"sql", "done"}
    BY <1>2, <1>4, <1>5, AskEffect
  <2>2. StepsLeft(chat[c]) = 13 /\ StepsLeft(chat'[c]) \in {0, 12 - chat'[c].attempt}
    BY <1>1, <2>1, StepsLeftIs
  <2> QED
    BY <1>3, <2>2
<1>6. ASSUME NEW d \in Chats, Querying(d) PROVE StepsLeft(chat'[c]) < StepsLeft(chat[c])
  <2>1. d = c
    BY <1>2, <1>4, <1>6, QueryEffect
  <2>2. \/ chat[c].pc = "sql" /\ chat'[c].pc = "sql" /\ chat'[c].attempt = chat[c].attempt + 1
        \/ chat[c].pc = "sql" /\ chat[c].attempt < Attempts /\ chat'[c].pc \in {"insight", "ensure"}
        \/ chat[c].pc = "insight" /\ chat'[c].pc = "ensure"
        \/ chat[c].pc \in {"sql", "insight"} /\ chat'[c].pc = "done"
    BY <1>2, <1>6, <2>1, QuerySpends
  <2>3. /\ chat[c].pc = "sql" => StepsLeft(chat[c]) = 12 - chat[c].attempt
        /\ chat[c].pc = "insight" => StepsLeft(chat[c]) = 9
        /\ chat'[c].pc = "sql" => StepsLeft(chat'[c]) = 12 - chat'[c].attempt
        /\ chat'[c].pc = "insight" => StepsLeft(chat'[c]) = 9
        /\ chat'[c].pc = "ensure" => StepsLeft(chat'[c]) \in {4, 8}
        /\ chat'[c].pc = "done" => StepsLeft(chat'[c]) = 0
    BY <1>1, StepsLeftIs
  <2> QED
    BY <1>3, <2>2, <2>3 DEF Attempts
<1>7. ASSUME AddedEffect(c), chat[c].pc \in {"trim", "store"}
      PROVE  StepsLeft(chat'[c]) < StepsLeft(chat[c])
  <2>1. CASE chat[c].role = "user"
    <3>1. chat'[c].pc = "ensure" /\ chat'[c].role = "assistant"
      BY <1>7, <2>1 DEF AddedEffect
    <3>2. StepsLeft(chat'[c]) = 4 /\ StepsLeft(chat[c]) \in {5, 6}
      BY <1>1, <1>7, <2>1, <3>1, StepsLeftIs
    <3> QED
      BY <3>2
  <2>2. CASE chat[c].role = "assistant"
    <3>1. chat'[c].pc = "done"
      BY <1>7, <2>2 DEF AddedEffect
    <3>2. StepsLeft(chat'[c]) = 0 /\ StepsLeft(chat[c]) \in {1, 2}
      BY <1>1, <1>7, <2>2, <3>1, StepsLeftIs
    <3> QED
      BY <3>2
  <2> QED
    BY <1>3, <2>1, <2>2
<1>8. ASSUME NEW d \in Chats, EnsureSession(d) \/ AppendTurn(d) \/ TrimRead(d), chat'[d].role = chat[d].role, d = c,
             <<chat[d].pc, chat'[d].pc>> \in {<<"ensure", "append">>, <<"append", "trim">>, <<"trim", "store">>}
      PROVE  StepsLeft(chat'[c]) < StepsLeft(chat[c])
  BY <1>1, <1>3, <1>8, StepsLeftIs
<1>9. ASSUME NEW d \in Chats, EnsureSession(d) \/ AppendTurn(d)
      PROVE  StepsLeft(chat'[c]) < StepsLeft(chat[c])
  BY <1>2, <1>4, <1>8, <1>9, EnsureEffect, AppendEffect
<1>10. ASSUME NEW d \in Chats, SessionMissing(d) PROVE StepsLeft(chat'[c]) < StepsLeft(chat[c])
  <2>1. d = c /\ chat[c].pc \in {"append", "trim"} /\ chat'[c].pc = "done"
    BY <1>2, <1>4, <1>10, MissingEffect
  <2>2. StepsLeft(chat'[c]) = 0 /\ StepsLeft(chat[c]) \in {7, 3, 6, 2}
    BY <1>1, <2>1, StepsLeftIs
  <2> QED
    BY <2>2
<1>11. ASSUME NEW d \in Chats, TrimRead(d) PROVE StepsLeft(chat'[c]) < StepsLeft(chat[c])
  <2>1. /\ d = c /\ chat[c].pc = "trim"
        /\ AddedEffect(c) \/ (chat'[c].pc = "store" /\ chat'[c].role = chat[c].role)
    BY <1>2, <1>4, <1>11, TrimReadEffect
  <2> QED
    BY <1>7, <1>8, <1>11, <2>1
<1>12. ASSUME NEW d \in Chats, TrimStore(d) PROVE StepsLeft(chat'[c]) < StepsLeft(chat[c])
  BY <1>2, <1>4, <1>7, <1>12, TrimStoreEffect
<1>13. CASE UNCHANGED chat
  BY <1>13
<1> QED
  BY <1>5, <1>6, <1>9, <1>10, <1>11, <1>12, <1>13, Cases DEF ClearSession, CacheExpires, vars

\* What EveryChatEnds rests on: every step of a chat brings it nearer to its
\* end, which it reaches in 13 steps of its own at most, however the model, the
\* database and the deletions behave (main.py:55-80).
THEOREM ChatsAdvance ==
  Spec => /\ [](\A c \in Chats : StepsLeft(chat[c]) \in 0 .. 13)
          /\ [][\A c \in Chats :
                 chat'[c] = chat[c] \/ StepsLeft(chat'[c]) < StepsLeft(chat[c])]_vars
<1>1. Base => \A c \in Chats : StepsLeft(chat[c]) \in 0 .. 13
  BY StepsLeftIs DEF Base, Typed
<1>2. Base /\ Base' /\ [Next]_vars =>
        [\A c \in Chats : chat'[c] = chat[c] \/ StepsLeft(chat'[c]) < StepsLeft(chat[c])]_vars
  BY NextAdvances
<1> QED
  BY <1>1, <1>2, InitBase, NextBase, PTL DEF Spec
=============================================================================
