---------------------------- MODULE AgentLoopProofs ----------------------------
(***************************************************************************)
(* Proofs about AgentLoop for any limits, any number of turns, calls and   *)
(* messages, either tool mode and any session.  TypeOK is proved part by   *)
(* part; Paid ties the iteration counter to the control point, and Open    *)
(* says what the conversation looks like while a turn's tools run.  Promise*)
(* relates the loop's control to the state of AgentEvents, SteeringHeld    *)
(* the steering queue to the conversation, and Recorded the conversation   *)
(* to the session.                                                         *)
(***************************************************************************)
EXTENDS AgentLoop, SequenceTheorems, TLAPS

USE LoopAssumption DEF Calls

(* Every step of the loop and of the world around it. *)
LEMMA NextCases ==
    ASSUME Next
    PROVE  \/ Start \/ Outer \/ InnerTop \/ Prepare \/ TurnStart
           \/ TextDelta \/ ToolCallDelta \/ PartialUpdate \/ StreamError \/ StreamEnd
           \/ Record \/ TurnEnd \/ AppendResults \/ ApplyPatch \/ AfterTools
           \/ Returned \/ Fatal \/ Finish \/ CloseChannel
           \/ \E c \in Calls : ToolStart(c) \/ ToolUpdate(c) \/ ToolEnd(c)
           \/ Cancel \/ Steer \/ FollowUp \/ SyncTurn \/ Receive
  BY DEF Next, Loop, ToolGoroutine

-----------------------------------------------------------------------------
(* The control point, the counters of a turn and the state of its tools. *)
LEMMA ControlStep ==
    ASSUME ControlOK, [Next]_vars
    PROVE  ControlOK'
<1> USE DEF ControlOK, PcLabels
<1>1. CASE Start \/ Outer \/ InnerTop \/ Prepare \/ Record \/ AppendResults
  BY <1>1 DEF Start, Outer, InnerTop, Prepare, Record, AppendResults, turnVars, toolVars
<1>2. CASE TurnStart
  <2>1. /\ turn < MaxTurns /\ turn' = turn + 1 /\ pc' = "stream"
        /\ deltas' = 0 /\ calls' = 0 /\ partial' = FALSE
        /\ UNCHANGED <<cancelled, mode, tool, result, patchAt>>
    BY <1>2, Zenon DEF TurnStart, toolVars
  <2>2. turn' \in 0..MaxTurns /\ deltas' \in 0..MaxDeltas /\ calls' \in 0..MaxCalls
    BY <2>1
  <2>3. /\ tool' \in [Calls -> {"none", "waiting", "blocked", "failed", "running", "done"}]
        /\ result' \in [Calls -> [terminate : BOOLEAN, patch : BOOLEAN]]
        /\ patchAt' \in 1..(MaxCalls + 1) /\ mode' \in {"sequential", "parallel"}
        /\ cancelled' \in BOOLEAN /\ partial' \in BOOLEAN /\ pc' \in PcLabels
    BY <2>1, Zenon
  <2> QED
    BY <2>2, <2>3, Zenon
<1>11. CASE TextDelta \/ ToolCallDelta
  BY <1>11 DEF TextDelta, ToolCallDelta, toolVars
<1>12. CASE PartialUpdate \/ StreamError \/ StreamEnd
  BY <1>12 DEF PartialUpdate, StreamError, StreamEnd, turnVars, toolVars
<1>3. CASE TurnEnd
  BY <1>3 DEF TurnEnd, turnVars, NoResult
<1>4. CASE ApplyPatch
  BY <1>4 DEF ApplyPatch, turnVars
<1>5. CASE AfterTools \/ Returned \/ Fatal \/ Finish \/ CloseChannel
  BY <1>5 DEF AfterTools, Returned, Fatal, Finish, CloseChannel, turnVars, toolVars
<1>6. ASSUME NEW c \in Calls, ToolStart(c) PROVE ControlOK'
  BY <1>6 DEF ToolStart, turnVars
<1>7. ASSUME NEW c \in Calls, ToolUpdate(c) PROVE ControlOK'
  BY <1>7 DEF ToolUpdate, turnVars, toolVars
<1>8. ASSUME NEW c \in Calls, ToolEnd(c) PROVE ControlOK'
  BY <1>8 DEF ToolEnd, turnVars
<1>9. CASE Cancel \/ Steer \/ FollowUp \/ SyncTurn \/ Receive
  BY <1>9, ZenonT(30) DEF Cancel, Steer, FollowUp, SyncTurn, Receive, turnVars, toolVars
<1>10. CASE UNCHANGED vars
  BY <1>10 DEF vars
<1> QED
  BY <1>1, <1>2, <1>3, <1>4, <1>5, <1>6, <1>7, <1>8, <1>9, <1>10, <1>11, <1>12, NextCases

-----------------------------------------------------------------------------
(* Only the top of the inner loop and the end of a stream touch the budget. *)
LEMMA BudgetFrame ==
    ASSUME [Next]_vars
    PROVE  InnerTop \/ StreamEnd \/ UNCHANGED <<budget, spent>>
<1>1. CASE Start \/ Outer \/ Prepare \/ TurnStart \/ TextDelta \/ ToolCallDelta
  BY <1>1 DEF Start, Outer, Prepare, TurnStart, TextDelta, ToolCallDelta
<1>2. CASE PartialUpdate \/ StreamError \/ Record \/ TurnEnd \/ AppendResults \/ ApplyPatch
  BY <1>2 DEF PartialUpdate, StreamError, Record, TurnEnd, AppendResults, ApplyPatch
<1>3. CASE AfterTools \/ Returned \/ Fatal \/ Finish \/ CloseChannel
  BY <1>3 DEF AfterTools, Returned, Fatal, Finish, CloseChannel
<1>4. ASSUME NEW c \in Calls, ToolStart(c) \/ ToolUpdate(c) \/ ToolEnd(c)
      PROVE  UNCHANGED <<budget, spent>>
  BY <1>4 DEF ToolStart, ToolUpdate, ToolEnd
<1>5. CASE Cancel \/ Steer \/ FollowUp \/ SyncTurn \/ Receive
  BY <1>5 DEF Cancel, Steer, FollowUp, SyncTurn, Receive
<1>6. CASE UNCHANGED vars
  BY <1>6 DEF vars
<1> QED
  BY <1>1, <1>2, <1>3, <1>4, <1>5, <1>6, NextCases

LEMMA BudgetStep ==
    ASSUME BudgetOK, [Next]_vars
    PROVE  BudgetOK'
<1>1. CASE InnerTop
  BY <1>1 DEF InnerTop, BudgetOK
<1>2. CASE StreamEnd
  <2>1. CASE UNCHANGED <<budget, spent>>
    BY <2>1 DEF BudgetOK
  <2>2. ASSUME NEW cost \in Costs, NEW tokens \in Tokens, RecordUsage(cost, tokens)
        PROVE  BudgetOK'
    <3>1. cost \in Nat /\ tokens \in Nat
      OBVIOUS
    <3>2. /\ budget.iterations \in Nat /\ budget.cost \in Nat /\ budget.tokens \in Nat
          /\ spent.cost \in Nat /\ spent.tokens \in Nat
      BY DEF BudgetOK
    <3>3. spent' \in [cost : Nat, tokens : Nat]
      BY <2>2, <3>1, <3>2 DEF RecordUsage
    <3> DEFINE x == IF Fits(0, cost) THEN budget.cost + cost ELSE budget.cost
               y == IF MaxTokens > 0 /\ budget.tokens + tokens > MaxTokens
                      THEN budget.tokens ELSE budget.tokens + tokens
    <3>4. x \in Nat /\ y \in Nat
      BY <3>1, <3>2
    <3>5. budget' = [budget EXCEPT !.cost = x, !.tokens = y]
      BY <2>2, Zenon DEF RecordUsage, BudgetOK
    <3> HIDE DEF x, y
    <3> QED
      BY <3>3, <3>4, <3>5 DEF BudgetOK
  <2>3. \/ \E cost \in Costs, tokens \in Tokens : RecordUsage(cost, tokens)
        \/ UNCHANGED <<budget, spent>>
    BY <1>2, Zenon DEF StreamEnd
  <2> QED
    BY <2>1, <2>2, <2>3, Zenon
<1>3. CASE UNCHANGED <<budget, spent>>
  BY <1>3 DEF BudgetOK
<1> QED
  BY <1>1, <1>2, <1>3, BudgetFrame
LEMMA Increment ==
    ASSUME BudgetOK, MaxIterations > 0 => budget.iterations <= MaxIterations,
           StreamEnd
    PROVE  /\ budget'.iterations = budget.iterations
           /\ \/ UNCHANGED <<budget, spent>>
              \/ \E cost \in Costs, tokens \in Tokens :
                   /\ spent'.cost = spent.cost + cost
                   /\ spent'.tokens = spent.tokens + tokens
                   /\ budget'.cost = IF MaxCost > 0 => budget.cost + cost <= MaxCost
                                       THEN budget.cost + cost ELSE budget.cost
                   /\ budget'.tokens = IF MaxTokens > 0 /\ budget.tokens + tokens > MaxTokens
                                         THEN budget.tokens ELSE budget.tokens + tokens
<1>1. \/ \E cost \in Costs, tokens \in Tokens : RecordUsage(cost, tokens)
      \/ UNCHANGED <<budget, spent>>
  BY Zenon DEF StreamEnd
<1>2. CASE UNCHANGED <<budget, spent>>
  BY <1>2
<1>3. ASSUME NEW cost \in Costs, NEW tokens \in Tokens, RecordUsage(cost, tokens)
      PROVE  /\ spent'.cost = spent.cost + cost
             /\ spent'.tokens = spent.tokens + tokens
             /\ budget'.iterations = budget.iterations
             /\ budget'.cost = IF MaxCost > 0 => budget.cost + cost <= MaxCost
                                 THEN budget.cost + cost ELSE budget.cost
             /\ budget'.tokens = IF MaxTokens > 0 /\ budget.tokens + tokens > MaxTokens
                                   THEN budget.tokens ELSE budget.tokens + tokens
  <2>1. Fits(0, cost) <=> (MaxCost > 0 => budget.cost + cost <= MaxCost)
    BY DEF Fits, BudgetOK
  <2> QED
    BY <1>3, <2>1 DEF RecordUsage, BudgetOK
<1> QED
  BY <1>1, <1>2, <1>3

-----------------------------------------------------------------------------
(* Every model call was paid for before it started. *)
Paid ==
    /\ turn <= budget.iterations
    /\ pc \in {"prepare", "turnStart"} => turn < budget.iterations
    /\ MaxIterations > 0 => budget.iterations <= MaxIterations

LEMMA PaidFrame ==
    ASSUME [Next]_vars
    PROVE  \/ InnerTop \/ StreamEnd \/ Prepare \/ TurnStart
           \/ /\ UNCHANGED <<turn, budget>>
              /\ pc' \in {"prepare", "turnStart"} => pc' = pc
<1>1. CASE Start \/ Outer \/ TextDelta \/ ToolCallDelta \/ PartialUpdate
  BY <1>1 DEF Start, Outer, TextDelta, ToolCallDelta, PartialUpdate, turnVars
<1>2. CASE StreamError \/ Record \/ TurnEnd \/ AppendResults \/ ApplyPatch
  BY <1>2 DEF StreamError, Record, TurnEnd, AppendResults, ApplyPatch, turnVars
<1>3. CASE AfterTools \/ Returned \/ Fatal \/ Finish \/ CloseChannel
  BY <1>3 DEF AfterTools, Returned, Fatal, Finish, CloseChannel, turnVars
<1>4. ASSUME NEW c \in Calls, ToolStart(c) \/ ToolUpdate(c) \/ ToolEnd(c)
      PROVE  UNCHANGED <<pc, turn, budget>>
  BY <1>4 DEF ToolStart, ToolUpdate, ToolEnd, turnVars
<1>5. CASE Cancel \/ Steer \/ FollowUp \/ SyncTurn \/ Receive
  BY <1>5 DEF Cancel, Steer, FollowUp, SyncTurn, Receive, turnVars
<1>6. CASE UNCHANGED vars
  BY <1>6 DEF vars
<1> QED
  BY <1>1, <1>2, <1>3, <1>4, <1>5, <1>6, NextCases

LEMMA PaidStep ==
    ASSUME ControlOK, BudgetOK, Paid, [Next]_vars
    PROVE  Paid'
<1>1. turn \in Nat /\ budget.iterations \in Nat
  BY DEF ControlOK, BudgetOK
<1>2. CASE InnerTop
  <2>1. CASE cancelled \/ ~Fits(1, 0)
    BY <1>2, <2>1 DEF InnerTop, Paid, turnVars
  <2>2. CASE ~(cancelled \/ ~Fits(1, 0))
    <3>1. /\ turn' = turn
          /\ budget'.iterations = budget.iterations + 1
      BY <1>2, <2>2 DEF InnerTop, turnVars, BudgetOK
    <3>2. MaxIterations > 0 => budget.iterations + 1 <= MaxIterations
      BY <2>2 DEF Fits
    <3> QED
      BY <1>1, <3>1, <3>2 DEF Paid
  <2> QED
    BY <2>1, <2>2
<1>3. CASE StreamEnd
  <2>1. budget'.iterations = budget.iterations
    BY <1>3, Increment DEF Paid
  <2>2. turn' = turn /\ pc' = "record"
    BY <1>3, Zenon DEF StreamEnd, turnVars
  <2> QED
    BY <2>1, <2>2 DEF Paid
<1>4. CASE Prepare
  BY <1>4 DEF Prepare, Paid, turnVars
<1>5. CASE TurnStart
  <2>1. turn' = turn + 1 /\ budget' = budget /\ pc = "turnStart" /\ pc' = "stream"
    BY <1>5, Zenon DEF TurnStart
  <2> QED
    BY <1>1, <2>1 DEF Paid
<1>6. CASE /\ UNCHANGED <<turn, budget>>
           /\ pc' \in {"prepare", "turnStart"} => pc' = pc
  BY <1>6 DEF Paid
<1> QED
  BY <1>2, <1>3, <1>4, <1>5, <1>6, PaidFrame

(* The counters of the budget stay within their limits and true to what    *)
(* the model calls used.                                                   *)
LEMMA HonestStep ==
    ASSUME BudgetOK, Paid, BudgetHonest, [Next]_vars
    PROVE  BudgetHonest'
<1>1. /\ budget.cost \in Nat /\ budget.tokens \in Nat
      /\ spent.cost \in Nat /\ spent.tokens \in Nat
  BY DEF BudgetOK
<1>2. CASE InnerTop
  <2>1. budget'.cost = budget.cost /\ budget'.tokens = budget.tokens /\ spent' = spent
    BY <1>2 DEF InnerTop, BudgetOK
  <2> QED
    BY <2>1 DEF BudgetHonest
<1>3. CASE StreamEnd
  <2>1. CASE UNCHANGED <<budget, spent>>
    BY <2>1 DEF BudgetHonest
  <2>2. ASSUME NEW cost \in Costs, NEW tokens \in Tokens,
               spent'.cost = spent.cost + cost,
               spent'.tokens = spent.tokens + tokens,
               budget'.cost = IF MaxCost > 0 => budget.cost + cost <= MaxCost
                               THEN budget.cost + cost ELSE budget.cost,
               budget'.tokens = IF MaxTokens > 0 /\ budget.tokens + tokens > MaxTokens
                                 THEN budget.tokens ELSE budget.tokens + tokens
        PROVE  BudgetHonest'
    <3>1. cost \in Nat /\ tokens \in Nat
      OBVIOUS
    <3> QED
      BY <1>1, <2>2, <3>1 DEF BudgetHonest
  <2> QED
    BY <1>3, <2>1, <2>2, Increment DEF Paid
<1>4. CASE UNCHANGED <<budget, spent>>
  BY <1>4 DEF BudgetHonest
<1> QED
  BY <1>2, <1>3, <1>4, BudgetFrame

LEMMA InitBudget == Init => ControlOK /\ BudgetOK /\ Paid /\ BudgetHonest
<1> SUFFICES ASSUME Init PROVE ControlOK /\ BudgetOK /\ Paid /\ BudgetHonest
  OBVIOUS
<1>1. ControlOK
  <2>1. tool \in [Calls -> {"none", "waiting", "blocked", "failed", "running", "done"}]
    BY DEF Init
  <2>2. result \in [Calls -> [terminate : BOOLEAN, patch : BOOLEAN]]
    BY DEF Init, NoResult
  <2>3. /\ pc \in PcLabels /\ cancelled \in BOOLEAN /\ partial \in BOOLEAN
        /\ mode \in {"sequential", "parallel"}
    BY Zenon DEF Init, PcLabels
  <2>4. turn \in 0..MaxTurns /\ deltas \in 0..MaxDeltas /\ calls \in 0..MaxCalls
        /\ patchAt \in 1..(MaxCalls + 1)
    BY DEF Init
  <2> QED
    BY <2>1, <2>2, <2>3, <2>4, Zenon DEF ControlOK
<1>2. BudgetOK /\ Paid /\ BudgetHonest
  BY DEF Init, BudgetOK, Paid, BudgetHonest
<1> QED
  BY <1>1, <1>2

LEMMA BudgetInvariant == Spec => [](ControlOK /\ BudgetOK /\ Paid /\ BudgetHonest)
<1>1. Init => ControlOK /\ BudgetOK /\ Paid /\ BudgetHonest
  BY InitBudget
<1>2. ControlOK /\ BudgetOK /\ Paid /\ BudgetHonest /\ [Next]_vars
        => (ControlOK /\ BudgetOK /\ Paid /\ BudgetHonest)'
  BY ControlStep, BudgetStep, PaidStep, HonestStep
<1> QED
  BY <1>1, <1>2, PTL DEF Spec

(* No run makes more model calls than its iteration limit allows, and each *)
(* one was paid for before it started (loop.go:113-117).                   *)
THEOREM IterationLimitAlways == Spec => []IterationLimit
<1>1. ControlOK /\ BudgetOK /\ Paid => IterationLimit
  BY DEF ControlOK, BudgetOK, Paid, IterationLimit
<1> QED
  BY <1>1, BudgetInvariant, PTL

(* The budget's counters never pass their limits and are exact as long as  *)
(* nothing was refused (budget.go:60-84, 126-141).                         *)
THEOREM BudgetHonestAlways == Spec => []BudgetHonest
  BY BudgetInvariant, PTL
-----------------------------------------------------------------------------
(* What is written to the conversation and to the session are messages. *)
LEMMA MsgType ==
    \A kind \in Kinds, t \in 0..MaxTurns, n \in Nat : Msg(kind, t, n) \in Message
  BY DEF Msg, Message

LEMMA PersistType ==
    ASSUME session \in Seq(Message), NEW entries \in Seq(Message), Persist(entries)
    PROVE  session' \in Seq(Message)
<1>1. PICK kept \in Increasing(Len(entries)) :
         session' = session \o [i \in 1..Len(kept) |-> entries[kept[i]]]
  BY DEF Persist
<1>2. PICK k \in 0..Len(entries) : kept \in [1..k -> 1..Len(entries)]
  BY DEF Increasing
<1>3. k \in Nat /\ kept \in Seq(1..Len(entries)) /\ Len(kept) = k
  BY <1>2, LenProperties, IsASeq
<1>4. \A i \in 1..Len(kept) : entries[kept[i]] \in Message
  BY <1>2, <1>3, ElementOfSeq
<1>5. [i \in 1..Len(kept) |-> entries[kept[i]]] \in Seq(Message)
  BY <1>3, <1>4, IsASeq
<1> QED
  BY <1>1, <1>5, ConcatProperties

LEMMA CompactionType ==
    ASSUME conv \in Seq(Message), turn \in 0..MaxTurns, Compact
    PROVE  conv' \in Seq(Message)
<1>1. PICK i \in 0..Len(conv), j \in Int :
         /\ j >= 2
         /\ conv' = SubSeq(conv, 1, i) \o <<Msg("summary", turn, 0)>> \o SubSeq(conv, j, Len(conv))
  <2>1. PICK i \in 0..Len(conv) : \E j \in (i + 2)..(Len(conv) + 1) :
          conv' = SubSeq(conv, 1, i) \o <<Msg("summary", turn, 0)>> \o SubSeq(conv, j, Len(conv))
    BY Zenon DEF Compact
  <2>2. PICK j \in (i + 2)..(Len(conv) + 1) :
          conv' = SubSeq(conv, 1, i) \o <<Msg("summary", turn, 0)>> \o SubSeq(conv, j, Len(conv))
    BY <2>1, Zenon
  <2>3. j \in Int /\ j >= 2
    OBVIOUS
  <2> QED
    BY <2>2, <2>3, Zenon
<1>2. SubSeq(conv, 1, i) \in Seq(Message) /\ SubSeq(conv, j, Len(conv)) \in Seq(Message)
  BY <1>1, SubSeqProperties
<1>3. Msg("summary", turn, 0) \in Message
  BY MsgType DEF Kinds
<1>4. <<Msg("summary", turn, 0)>> \in Seq(Message)
  BY <1>3
<1> QED
  BY <1>1, <1>2, <1>4, ConcatProperties

LEMMA ResultsType ==
    ASSUME ControlOK
    PROVE  Results \in Seq(Message) /\ Len(Results) = calls
<1>1. calls \in Nat /\ turn \in 0..MaxTurns
  BY DEF ControlOK
<1>2. \A c \in 1..calls : Msg("tool", turn, c) \in Message
  BY <1>1, MsgType DEF Kinds
<1> QED
  BY <1>1, <1>2, IsASeq DEF Results

LEMMA SteeringType ==
    ASSUME steerQ \in Seq(1..MaxSteers), turn \in 0..MaxTurns
    PROVE  /\ Drained(steerQ) \in Seq(1..MaxSteers) /\ Rest(steerQ) \in Seq(1..MaxSteers)
           /\ [i \in 1..Len(Drained(steerQ)) |-> Msg("steer", turn, Drained(steerQ)[i])]
                  \in Seq(Message)
<1>1. Drained(steerQ) \in Seq(1..MaxSteers) /\ Rest(steerQ) \in Seq(1..MaxSteers)
  <2>1. CASE steerQ = <<>>
    BY <2>1 DEF Drained, Rest
  <2>2. CASE steerQ # <<>>
    <3>1. Head(steerQ) \in 1..MaxSteers /\ Tail(steerQ) \in Seq(1..MaxSteers)
      BY <2>2
    <3>2. <<Head(steerQ)>> \in Seq(1..MaxSteers)
      BY <3>1
    <3> QED
      BY <2>2, <3>1, <3>2, Zenon DEF Drained, Rest
  <2> QED
    BY <2>1, <2>2
<1>2. Len(Drained(steerQ)) \in Nat
  BY <1>1, LenProperties
<1>3. \A i \in 1..Len(Drained(steerQ)) : Msg("steer", turn, Drained(steerQ)[i]) \in Message
  BY <1>1, MsgType, ElementOfSeq DEF Kinds
<1> QED
  BY <1>1, <1>2, <1>3, IsASeq

(* Only these steps write a message anywhere. *)
LEMMA MessagesFrame ==
    ASSUME [Next]_vars
    PROVE  \/ Prepare \/ Record \/ AppendResults \/ ApplyPatch \/ AfterTools \/ Fatal
           \/ Steer \/ FollowUp \/ SyncTurn
           \/ UNCHANGED <<conv, session, queueVars, syncing>>
<1>1. CASE Start \/ Outer \/ InnerTop \/ TurnStart \/ TextDelta \/ ToolCallDelta
  BY <1>1 DEF Start, Outer, InnerTop, TurnStart, TextDelta, ToolCallDelta, queueVars
<1>2. CASE PartialUpdate \/ StreamError \/ StreamEnd \/ TurnEnd
  BY <1>2 DEF PartialUpdate, StreamError, StreamEnd, TurnEnd, queueVars
<1>3. CASE Returned \/ Finish \/ CloseChannel
  BY <1>3 DEF Returned, Finish, CloseChannel, queueVars
<1>4. ASSUME NEW c \in Calls, ToolStart(c) \/ ToolUpdate(c) \/ ToolEnd(c)
      PROVE  UNCHANGED <<conv, session, queueVars, syncing>>
  BY <1>4 DEF ToolStart, ToolUpdate, ToolEnd, queueVars
<1>5. CASE Cancel \/ Receive
  BY <1>5 DEF Cancel, Receive, queueVars
<1>6. CASE UNCHANGED vars
  BY <1>6 DEF vars, queueVars
<1> QED
  BY <1>1, <1>2, <1>3, <1>4, <1>5, <1>6, NextCases

LEMMA MessagesStep ==
    ASSUME ControlOK, MessagesOK, [Next]_vars
    PROVE  MessagesOK'
<1>1. turn \in 0..MaxTurns /\ calls \in Nat /\ patchAt \in Nat
  BY DEF ControlOK
<1>2. /\ conv \in Seq(Message) /\ session \in Seq(Message)
      /\ steerQ \in Seq(1..MaxSteers) /\ steers \in 0..MaxSteers
      /\ followQ \in Seq(1..MaxFollowUps) /\ follows \in 0..MaxFollowUps
      /\ syncing \subseteq [turn : 0..MaxTurns, assistant : Message]
  BY DEF MessagesOK
<1>3. /\ Msg("summary", turn, 0) \in Message /\ Msg("assistant", turn, calls) \in Message
      /\ Msg("patch", turn, patchAt) \in Message /\ Msg("failure", turn, 0) \in Message
  BY <1>1, MsgType DEF Kinds
<1>4. CASE Prepare
  <2>1. UNCHANGED <<queueVars, syncing>>
    BY <1>4, Zenon DEF Prepare
  <2>2. CASE UNCHANGED <<conv, session>>
    BY <1>2, <2>1, <2>2 DEF MessagesOK, queueVars
  <2>3. CASE /\ Compact \/ UNCHANGED conv
             /\ Persist(<<Msg("summary", turn, 0)>>)
    <3>1. conv' \in Seq(Message)
      BY <1>1, <1>2, <2>3, CompactionType
    <3>2. <<Msg("summary", turn, 0)>> \in Seq(Message)
      BY <1>3
    <3>3. session' \in Seq(Message)
      BY <1>2, <2>3, <3>2, PersistType
    <3> QED
      BY <1>2, <2>1, <3>1, <3>3 DEF MessagesOK, queueVars
  <2> QED
    BY <1>4, <2>2, <2>3, Zenon DEF Prepare
<1>5. CASE Record
  <2>1. /\ conv' = Append(conv, Msg("assistant", turn, calls))
        /\ Persist(<<Msg("assistant", turn, calls)>>)
        /\ UNCHANGED <<queueVars, syncing>>
    BY <1>5, Zenon DEF Record
  <2>2. <<Msg("assistant", turn, calls)>> \in Seq(Message)
    BY <1>3
  <2>3. session' \in Seq(Message)
    BY <1>2, <2>1, <2>2, PersistType
  <2>4. conv' \in Seq(Message)
    BY <1>2, <1>3, <2>1, AppendProperties
  <2> QED
    BY <1>2, <2>1, <2>3, <2>4 DEF MessagesOK, queueVars
<1>6. CASE AppendResults
  <2>1. conv' = conv \o Results /\ Persist(Results) /\ UNCHANGED <<queueVars, syncing>>
    BY <1>6, Zenon DEF AppendResults
  <2>2. conv' \in Seq(Message) /\ session' \in Seq(Message)
    BY <1>2, <2>1, ResultsType, PersistType, ConcatProperties
  <2> QED
    BY <1>2, <2>1, <2>2 DEF MessagesOK, queueVars
<1>7. CASE ApplyPatch
  <2>1. /\ conv' = conv \/ conv' = Append(conv, Msg("patch", turn, patchAt))
        /\ UNCHANGED <<session, queueVars, syncing>>
    BY <1>7, Zenon DEF ApplyPatch
  <2>2. \A m \in Message : Append(conv, m) \in Seq(Message)
    BY <1>2
  <2>3. conv' \in Seq(Message)
    BY <1>2, <1>3, <2>1, <2>2, Zenon
  <2> QED
    BY <1>2, <2>1, <2>3 DEF MessagesOK, queueVars
<1>8. CASE AfterTools
  <2>1. /\ conv' = conv \o [i \in 1..Len(Drained(steerQ)) |->
                              Msg("steer", turn, Drained(steerQ)[i])]
        /\ steerQ' = Rest(steerQ)
        /\ UNCHANGED <<session, steers, followQ, follows>>
        /\ syncing' \subseteq
              syncing \cup [turn : {turn}, assistant : LastTurnAssistant(conv)]
    BY <1>8 DEF AfterTools
  <2>2. conv' \in Seq(Message) /\ steerQ' \in Seq(1..MaxSteers)
    BY <1>1, <1>2, <2>1, SteeringType, ConcatProperties
  <2>3. LastTurnAssistant(conv) \subseteq Message
    BY <1>2, ElementOfSeq DEF LastTurnAssistant, AssistantAt
  <2>4. syncing' \subseteq [turn : 0..MaxTurns, assistant : Message]
    BY <1>1, <1>2, <2>1, <2>3
  <2> QED
    BY <1>2, <2>1, <2>2, <2>4 DEF MessagesOK
<1>9. CASE Fatal
  <2>1. /\ conv' = conv \/ conv' = Append(conv, Msg("failure", turn, 0))
        /\ UNCHANGED <<session, queueVars, syncing>>
    BY <1>9, Zenon DEF Fatal
  <2>2. \A m \in Message : Append(conv, m) \in Seq(Message)
    BY <1>2
  <2>3. conv' \in Seq(Message)
    BY <1>2, <1>3, <2>1, <2>2, Zenon
  <2> QED
    BY <1>2, <2>1, <2>3 DEF MessagesOK, queueVars
<1>10. CASE Steer
  <2>1. steers + 1 \in 1..MaxSteers
    BY <1>2, <1>10 DEF Steer
  <2> QED
    BY <1>2, <1>10, <2>1, AppendProperties DEF Steer, MessagesOK
<1>11. CASE FollowUp
  <2>1. follows + 1 \in 1..MaxFollowUps
    BY <1>2, <1>11 DEF FollowUp
  <2> QED
    BY <1>2, <1>11, <2>1, AppendProperties DEF FollowUp, MessagesOK
<1>12. CASE SyncTurn
  BY <1>2, <1>12 DEF SyncTurn, MessagesOK, queueVars
<1>13. CASE UNCHANGED <<conv, session, queueVars, syncing>>
  BY <1>2, <1>13 DEF MessagesOK, queueVars
<1> QED
  BY <1>4, <1>5, <1>6, <1>7, <1>8, <1>9, <1>10, <1>11, <1>12, <1>13, MessagesFrame
-----------------------------------------------------------------------------
(* Every step leaves the channel alone, sends one event that has room, or  *)
(* is one of the three that say otherwise.                                 *)
Sends == \E type \in EventTypes, c \in 0..MaxCalls, n \in -1..MaxCalls : Emit(type, c, n)

LEMMA ChannelFrame ==
    ASSUME ControlOK, [Next]_vars
    PROVE  TurnStart \/ CloseChannel \/ Receive \/ Sends \/ UNCHANGED chanVars
<1>1. /\ calls \in -1..MaxCalls /\ 0 \in 0..MaxCalls /\ 0 \in -1..MaxCalls /\ -1 \in -1..MaxCalls
      /\ patchAt <= calls => patchAt \in 0..MaxCalls
      /\ \A c \in Calls : c \in 0..MaxCalls
  BY DEF ControlOK
<1>2. CASE Start \/ Outer \/ InnerTop \/ Prepare
  BY <1>1, <1>2, Zenon DEF Start, Outer, InnerTop, Prepare, Sends, EventTypes
<1>3. CASE TextDelta \/ ToolCallDelta \/ PartialUpdate \/ StreamError
  <2>1. (IF partial THEN "message_update" ELSE "message_start") \in EventTypes
    BY DEF EventTypes
  <2> QED
    BY <1>1, <1>3, <2>1, Zenon
       DEF TextDelta, ToolCallDelta, PartialUpdate, StreamError, Sends, EventTypes
<1>4. CASE StreamEnd \/ Record \/ TurnEnd \/ AppendResults
  BY <1>1, <1>4, Zenon DEF StreamEnd, Record, TurnEnd, AppendResults, Sends, EventTypes
<1>5. CASE ApplyPatch
  BY <1>1, <1>5, Zenon DEF ApplyPatch, Sends, EventTypes
<1>6. CASE AfterTools \/ Returned \/ Fatal \/ Finish
  BY <1>1, <1>6, Zenon DEF AfterTools, Returned, Fatal, Finish, Sends, EventTypes
<1>7. ASSUME NEW c \in Calls, ToolStart(c) \/ ToolUpdate(c) \/ ToolEnd(c)
      PROVE  Sends
  BY <1>1, <1>7, Zenon DEF ToolStart, ToolUpdate, ToolEnd, Sends, EventTypes
<1>8. CASE Cancel \/ Steer \/ FollowUp \/ SyncTurn
  BY <1>8, Zenon DEF Cancel, Steer, FollowUp, SyncTurn
<1>9. CASE UNCHANGED vars
  BY <1>9 DEF vars, chanVars
<1> QED
  BY <1>2, <1>3, <1>4, <1>5, <1>6, <1>7, <1>8, <1>9, NextCases

LEMMA AppendedFits ==
    ASSUME ChannelOK, Room, NEW e \in Event,
           sent' = Append(sent, e), UNCHANGED <<received, closed>>
    PROVE  ChannelOK'
<1>1. sent' \in Seq(Event) /\ Len(sent') = Len(sent) + 1
  BY AppendProperties DEF ChannelOK
<1>2. Len(sent) \in Nat /\ received \in 0..Len(sent) /\ closed \in BOOLEAN
  BY DEF ChannelOK
<1> QED
  BY <1>1, <1>2 DEF ChannelOK, Room

LEMMA ChannelStep ==
    ASSUME ControlOK, ChannelOK, [Next]_vars
    PROVE  ChannelOK'
<1>1. turn \in 0..MaxTurns
  BY DEF ControlOK
<1>2. CASE TurnStart
  <2>1. turn + 1 \in 0..MaxTurns
    BY <1>1, <1>2 DEF TurnStart
  <2>2. [Ev("turn_start", 0, 0) EXCEPT !.turn = turn + 1] \in Event
    BY <2>1 DEF Ev, Event, EventTypes
  <2>3. /\ Room /\ UNCHANGED <<received, closed>>
        /\ sent' = Append(sent, [Ev("turn_start", 0, 0) EXCEPT !.turn = turn + 1])
    BY <1>2, Zenon DEF TurnStart
  <2> QED
    BY <2>2, <2>3, AppendedFits, Zenon
<1>3. CASE CloseChannel
  BY <1>3 DEF CloseChannel, ChannelOK
<1>4. CASE Receive
  BY <1>4 DEF Receive, ChannelOK
<1>5. CASE Sends
  <2>1. PICK type \in EventTypes, c \in 0..MaxCalls, n \in -1..MaxCalls : Emit(type, c, n)
    BY <1>5, Zenon DEF Sends
  <2>2. Ev(type, c, n) \in Event
    BY <1>1 DEF Ev, Event
  <2> QED
    BY <2>1, <2>2, AppendedFits, Zenon DEF Emit
<1>6. CASE UNCHANGED chanVars
  BY <1>6 DEF ChannelOK, chanVars
<1> QED
  BY <1>2, <1>3, <1>4, <1>5, <1>6, ChannelFrame

LEMMA InitType == Init => TypeOK
<1> SUFFICES ASSUME Init PROVE TypeOK
  OBVIOUS
<1>1. ControlOK /\ BudgetOK
  BY InitBudget
<1>2. conv \in Seq(Message)
  BY HistoriesAssumption DEF Init
<1>3. session \in Seq(Message) /\ steerQ \in Seq(1..MaxSteers) /\ followQ \in Seq(1..MaxFollowUps)
  BY DEF Init
<1>4. /\ steers \in 0..MaxSteers /\ follows \in 0..MaxFollowUps
  BY DEF Init
<1>6. syncing \subseteq [turn : 0..MaxTurns, assistant : Message]
  BY Zenon DEF Init
<1>5. ChannelOK
  <2>1. sent \in Seq(Event) /\ Len(sent) = 0
    BY EmptySeq DEF Init
  <2>2. received = 0 /\ closed \in BOOLEAN
    BY Zenon DEF Init
  <2> QED
    BY <2>1, <2>2 DEF ChannelOK
<1> QED
  BY <1>1, <1>2, <1>3, <1>4, <1>5, <1>6, Zenon DEF TypeOK, MessagesOK

(* Every variable keeps its type and the event channel its capacity, for   *)
(* any number of turns, calls and queued messages.                         *)
THEOREM TypeCorrect == Spec => []TypeOK
<1>1. TypeOK /\ [Next]_vars => TypeOK'
  BY ControlStep, BudgetStep, MessagesStep, ChannelStep DEF TypeOK
<1> QED
  BY <1>1, InitType, PTL DEF Spec
-----------------------------------------------------------------------------
(* The conversation of a turn whose tools are at work: the last message    *)
(* asks for the calls, and the messages before it are in order.            *)
Open(s) ==
    /\ Len(s) > 0
    /\ s[Len(s)] = Msg("assistant", turn, calls)
    /\ \A i \in 1..(Len(s) - 1) : s[i].kind = "assistant" =>
          \A k \in 1..s[i].n : i + k <= Len(s) /\ s[i + k] = Msg("tool", s[i].turn, k)
    /\ \A i \in 1..Len(s) : s[i].kind = "tool" =>
          /\ s[i].n < i
          /\ s[i - s[i].n].kind = "assistant" /\ s[i - s[i].n].turn = s[i].turn

Paired ==
    /\ pc \in {"turnEnd", "tools"} => Open(conv)
    /\ pc \notin {"turnEnd", "tools"} => ResultsFollowCalls(conv)

LEMMA MessageFields ==
    ASSUME NEW m \in Message
    PROVE  m.kind \in Kinds /\ m.turn \in 0..MaxTurns /\ m.n \in Nat
  BY DEF Message

(* A message that is neither a call for tools nor a result disturbs nothing. *)
LEMMA AppendNeutral ==
    ASSUME NEW s \in Seq(Message), ResultsFollowCalls(s),
           NEW m \in Message, m.kind \notin {"assistant", "tool"}
    PROVE  ResultsFollowCalls(Append(s, m))
<1> DEFINE t == Append(s, m)
<1>1. /\ Len(t) = Len(s) + 1 /\ Len(s) \in Nat
      /\ \A i \in 1..Len(s) : t[i] = s[i]
      /\ t[Len(s) + 1] = m
  BY AppendProperties
<1>2. \A i \in 1..Len(s) : s[i] \in Message /\ s[i].n \in Nat
  BY MessageFields, ElementOfSeq
<1> HIDE DEF t
<1>3. ASSUME NEW i \in 1..Len(t), t[i].kind = "assistant", NEW k \in 1..t[i].n
      PROVE  i + k <= Len(t) /\ t[i + k] = Msg("tool", t[i].turn, k)
  <2>1. i \in 1..Len(s) /\ t[i] = s[i]
    BY <1>1, <1>3
  <2>2. i + k <= Len(s) /\ s[i + k] = Msg("tool", s[i].turn, k)
    BY <1>3, <2>1 DEF ResultsFollowCalls
  <2>3. i + k \in 1..Len(s)
    BY <1>2, <2>1, <2>2
  <2> QED
    BY <1>1, <2>1, <2>2, <2>3
<1>4. ASSUME NEW i \in 1..Len(t), t[i].kind = "tool"
      PROVE  t[i].n < i /\ t[i - t[i].n].kind = "assistant" /\ t[i - t[i].n].turn = t[i].turn
  <2>1. i \in 1..Len(s) /\ t[i] = s[i]
    BY <1>1, <1>4
  <2>2. s[i].n < i /\ s[i - s[i].n].kind = "assistant" /\ s[i - s[i].n].turn = s[i].turn
    BY <1>4, <2>1 DEF ResultsFollowCalls
  <2>3. i - s[i].n \in 1..Len(s)
    BY <1>2, <2>1, <2>2
  <2> QED
    BY <1>1, <2>1, <2>2, <2>3
<1>5. ResultsFollowCalls(t)
  BY <1>3, <1>4 DEF ResultsFollowCalls
<1> QED
  BY <1>5 DEF t

(* The answer of the model opens the turn. *)
LEMMA AppendAssistant ==
    ASSUME NEW s \in Seq(Message), ResultsFollowCalls(s), ControlOK,
           NEW m, m = Msg("assistant", turn, calls)
    PROVE  Open(Append(s, m))
<1> DEFINE t == Append(s, m)
<1>0. m \in Message /\ m.kind = "assistant"
  BY MsgType DEF ControlOK, Msg, Kinds
<1>1. /\ Len(t) = Len(s) + 1 /\ Len(s) \in Nat
      /\ \A i \in 1..Len(s) : t[i] = s[i]
      /\ t[Len(s) + 1] = m
  BY <1>0, AppendProperties
<1>2. \A i \in 1..Len(s) : s[i] \in Message /\ s[i].n \in Nat
  BY MessageFields, ElementOfSeq
<1> HIDE DEF t
<1>3. ASSUME NEW i \in 1..(Len(t) - 1), t[i].kind = "assistant", NEW k \in 1..t[i].n
      PROVE  i + k <= Len(t) /\ t[i + k] = Msg("tool", t[i].turn, k)
  <2>1. i \in 1..Len(s) /\ t[i] = s[i]
    BY <1>1
  <2>2. i + k <= Len(s) /\ s[i + k] = Msg("tool", s[i].turn, k)
    BY <1>3, <2>1 DEF ResultsFollowCalls
  <2>3. i + k \in 1..Len(s)
    BY <1>2, <2>1, <2>2
  <2> QED
    BY <1>1, <2>1, <2>2, <2>3
<1>4. ASSUME NEW i \in 1..Len(t), t[i].kind = "tool"
      PROVE  t[i].n < i /\ t[i - t[i].n].kind = "assistant" /\ t[i - t[i].n].turn = t[i].turn
  <2>1. i \in 1..Len(s) /\ t[i] = s[i]
    BY <1>0, <1>1, <1>4
  <2>2. s[i].n < i /\ s[i - s[i].n].kind = "assistant"
        /\ s[i - s[i].n].turn = s[i].turn
    BY <1>4, <2>1 DEF ResultsFollowCalls
  <2>3. i - s[i].n \in 1..Len(s)
    BY <1>2, <2>1, <2>2
  <2> QED
    BY <1>1, <2>1, <2>2, <2>3
<1>5. Open(t)
  BY <1>1, <1>3, <1>4, m = Msg("assistant", turn, calls) DEF Open
<1> QED
  BY <1>5 DEF t

(* The results close it. *)
LEMMA AppendResultsCloses ==
    ASSUME NEW s \in Seq(Message), ControlOK, Open(s)
    PROVE  ResultsFollowCalls(s \o Results)
<1> DEFINE t == s \o Results
<1>0. Results \in Seq(Message) /\ Len(Results) = calls /\ calls \in Nat
  BY ResultsType DEF ControlOK
<1>1. /\ Len(t) = Len(s) + calls /\ Len(s) \in Nat /\ Len(s) > 0
      /\ \A i \in 1..Len(s) : t[i] = s[i]
      /\ \A i \in 1..Len(t) : i > Len(s) => t[i] = Results[i - Len(s)]
  <2> HIDE DEF t
  <2>1. Len(s) \in Nat /\ Len(s) > 0
    BY LenProperties DEF Open
  <2>2. /\ Len(t) = Len(s) + Len(Results)
        /\ \A i \in 1..Len(s) + Len(Results) :
              t[i] = IF i <= Len(s) THEN s[i] ELSE Results[i - Len(s)]
    BY <1>0, ConcatProperties DEF t
  <2>3. Len(t) = Len(s) + calls
    BY <1>0, <2>2
  <2>4. ASSUME NEW i \in 1..Len(s) PROVE t[i] = s[i]
    <3>1. i \in 1..Len(s) + Len(Results) /\ i <= Len(s)
      BY <1>0, <2>1
    <3> QED
      BY <2>2, <3>1
  <2>5. ASSUME NEW i \in 1..Len(t), i > Len(s) PROVE t[i] = Results[i - Len(s)]
    <3>1. i \in 1..Len(s) + Len(Results) /\ ~(i <= Len(s))
      BY <2>1, <2>2, <2>5
    <3> QED
      BY <2>2, <3>1
  <2> QED
    BY <2>1, <2>3, <2>4, <2>5
<1>2. \A c \in 1..calls : Results[c] = Msg("tool", turn, c)
  BY DEF Results
<1>3. \A i \in 1..Len(s) : s[i] \in Message /\ s[i].n \in Nat
  BY MessageFields, ElementOfSeq
<1>4. \A c \in 1..calls : /\ Msg("tool", turn, c).kind = "tool"
                          /\ Msg("tool", turn, c).turn = turn
                          /\ Msg("tool", turn, c).n = c
  BY DEF Msg
<1>5. s[Len(s)].kind = "assistant" /\ s[Len(s)].turn = turn /\ s[Len(s)].n = calls
  BY DEF Open, Msg
<1> HIDE DEF t
<1>6. \A i \in 1..Len(t) : i > Len(s) => t[i] = Msg("tool", turn, i - Len(s))
  BY <1>0, <1>1, <1>2
<1>7. ASSUME NEW i \in 1..Len(t), t[i].kind = "assistant", NEW k \in 1..t[i].n
      PROVE  i + k <= Len(t) /\ t[i + k] = Msg("tool", t[i].turn, k)
  <2>1. i \in 1..Len(s) /\ t[i] = s[i]
    BY <1>0, <1>1, <1>4, <1>6, <1>7
  <2>2. CASE i = Len(s)
    <3>1. k \in 1..calls /\ t[i].turn = turn /\ i + k \in 1..Len(t) /\ i + k > Len(s)
      BY <1>0, <1>1, <1>5, <2>1, <2>2
    <3> QED
      BY <1>0, <1>1, <1>6, <2>2, <3>1
  <2>3. CASE i # Len(s)
    <3>1. i \in 1..(Len(s) - 1) /\ s[i].kind = "assistant" /\ k \in 1..s[i].n
      BY <1>1, <1>7, <2>1, <2>3
    <3>2. i + k <= Len(s) /\ s[i + k] = Msg("tool", s[i].turn, k)
      BY <3>1 DEF Open
    <3>3. i + k \in 1..Len(s)
      BY <1>3, <2>1, <3>1, <3>2
    <3> QED
      BY <1>0, <1>1, <2>1, <3>2, <3>3
  <2> QED
    BY <2>2, <2>3
<1>8. ASSUME NEW i \in 1..Len(t), t[i].kind = "tool"
      PROVE  t[i].n < i /\ t[i - t[i].n].kind = "assistant" /\ t[i - t[i].n].turn = t[i].turn
  <2>1. CASE i \in 1..Len(s)
    <3>1. s[i].n < i /\ s[i - s[i].n].kind = "assistant"
          /\ s[i - s[i].n].turn = s[i].turn
      BY <1>1, <1>8, <2>1 DEF Open
    <3>2. i - s[i].n \in 1..Len(s)
      BY <1>3, <2>1, <3>1
    <3> QED
      BY <1>1, <2>1, <3>1, <3>2
  <2>2. CASE i > Len(s)
    <3>1. i - Len(s) \in 1..calls /\ t[i] = Msg("tool", turn, i - Len(s))
      BY <1>0, <1>1, <1>6, <2>2
    <3>2. t[i].n = i - Len(s) /\ t[i].turn = turn
      BY <1>4, <3>1
    <3>3. i - t[i].n = Len(s) /\ t[Len(s)] = s[Len(s)]
      BY <1>1, <2>2, <3>2
    <3> QED
      BY <1>1, <1>5, <2>2, <3>2, <3>3
  <2> QED
    BY <1>1, <2>1, <2>2
<1>9. ResultsFollowCalls(t)
  BY <1>7, <1>8 DEF ResultsFollowCalls
<1> QED
  BY <1>9 DEF t
(* An answer without calls needs no results. *)
LEMMA OpenWithoutCalls ==
    ASSUME NEW s \in Seq(Message), Open(s), calls = 0
    PROVE  ResultsFollowCalls(s)
<1>1. Len(s) \in Nat /\ s[Len(s)].n = 0
  BY LenProperties DEF Open, Msg
<1>2. ASSUME NEW i \in 1..Len(s), s[i].kind = "assistant", NEW k \in 1..s[i].n
      PROVE  i + k <= Len(s) /\ s[i + k] = Msg("tool", s[i].turn, k)
  <2>1. i # Len(s)
    BY <1>1, <1>2
  <2>2. i \in 1..(Len(s) - 1)
    BY <1>1, <2>1
  <2> QED
    BY <1>2, <2>2 DEF Open
<1> QED
  BY <1>2 DEF Open, ResultsFollowCalls

LEMMA SteeringNeutral ==
    ASSUME conv \in Seq(Message), ResultsFollowCalls(conv), turn \in 0..MaxTurns,
           steerQ \in Seq(1..MaxSteers)
    PROVE  ResultsFollowCalls(conv \o [i \in 1..Len(Drained(steerQ)) |->
                                        Msg("steer", turn, Drained(steerQ)[i])])
<1> DEFINE r == [i \in 1..Len(Drained(steerQ)) |-> Msg("steer", turn, Drained(steerQ)[i])]
<1>1. CASE steerQ = <<>>
  <2>1. r = <<>>
    BY <1>1 DEF Drained
  <2>2. conv \o <<>> = conv
    BY ConcatEmptySeq
  <2> QED
    BY <2>1, <2>2
<1>2. CASE steerQ # <<>>
  <2> DEFINE m == Msg("steer", turn, Head(steerQ))
  <2>1. Head(steerQ) \in Nat
    BY <1>2, HeadTailProperties
  <2>2. m \in Message /\ m.kind = "steer"
    BY <2>1, MsgType DEF Msg, Kinds
  <2>3. Drained(steerQ) = <<Head(steerQ)>>
    BY <1>2 DEF Drained
  <2>4. r = <<m>>
    BY <2>3
  <2> HIDE DEF m
  <2>5. conv \o <<m>> = Append(conv, m)
    BY <2>2, AppendIsConcat
  <2> QED
    BY <2>2, <2>4, <2>5, AppendNeutral
<1> QED
  BY <1>1, <1>2

(* Without an engine, and from a conversation that is in order, results    *)
(* follow their calls.                                                     *)
LEMMA PairedStep ==
    ASSUME CompactAt = 0, ControlOK, MessagesOK, Paired, [Next]_vars
    PROVE  Paired'
<1>1. conv \in Seq(Message) /\ turn \in 0..MaxTurns /\ calls \in Nat
      /\ patchAt \in Nat /\ steerQ \in Seq(1..MaxSteers)
  BY DEF MessagesOK, ControlOK
<1>2. /\ Msg("patch", turn, patchAt) \in Message /\ Msg("failure", turn, 0) \in Message
      /\ Msg("patch", turn, patchAt).kind = "patch" /\ Msg("failure", turn, 0).kind = "failure"
  BY <1>1, MsgType DEF Kinds, Msg
<1>3. CASE Record
  <2>1. /\ conv' = Append(conv, Msg("assistant", turn, calls))
        /\ pc = "record" /\ pc' = "turnEnd" /\ turn' = turn /\ calls' = calls
    BY <1>3, Zenon DEF Record, turnVars
  <2>2. Open(conv')
    BY <1>1, <2>1, AppendAssistant DEF Paired
  <2> QED
    BY <2>1, <2>2 DEF Paired, Open
<1>4. CASE TurnEnd
  <2>1. /\ conv' = conv /\ turn' = turn /\ calls' = calls /\ pc = "turnEnd"
        /\ pc' = IF calls = 0 THEN "returned" ELSE "tools"
    BY <1>4, Zenon DEF TurnEnd, turnVars
  <2>2. Open(conv)
    BY <2>1 DEF Paired
  <2>3. CASE calls = 0
    <3>1. ResultsFollowCalls(conv)
      BY <1>1, <2>2, <2>3, OpenWithoutCalls
    <3> QED
      BY <2>1, <2>3, <3>1 DEF Paired
  <2>4. CASE calls # 0
    BY <2>1, <2>2, <2>4 DEF Paired, Open
  <2> QED
    BY <2>3, <2>4
<1>5. CASE AppendResults
  <2>1. conv' = conv \o Results /\ pc = "tools" /\ pc' = "patches"
    BY <1>5, Zenon DEF AppendResults
  <2>2. ResultsFollowCalls(conv \o Results)
    BY <1>1, <2>1, AppendResultsCloses DEF Paired
  <2> QED
    BY <2>1, <2>2 DEF Paired
<1>6. CASE ApplyPatch
  <2>1. /\ conv' = conv \/ conv' = Append(conv, Msg("patch", turn, patchAt))
        /\ pc = "patches" /\ pc' = pc
    BY <1>6, Zenon DEF ApplyPatch
  <2>2. ResultsFollowCalls(conv')
    BY <1>1, <1>2, <2>1, AppendNeutral DEF Paired
  <2> QED
    BY <2>1, <2>2 DEF Paired
<1>7. CASE AfterTools
  <2>1. /\ conv' = conv \o [i \in 1..Len(Drained(steerQ)) |->
                              Msg("steer", turn, Drained(steerQ)[i])]
        /\ pc = "patches" /\ pc' \in {"returned", "inner"}
    BY <1>7 DEF AfterTools
  <2>2. ResultsFollowCalls(conv')
    BY <1>1, <2>1, SteeringNeutral DEF Paired
  <2> QED
    BY <2>1, <2>2 DEF Paired
<1>8. CASE Fatal
  <2>1. /\ conv' = conv \/ conv' = Append(conv, Msg("failure", turn, 0))
        /\ pc = "fatal" /\ pc' \in {"error", "failure"}
    BY <1>8, Zenon DEF Fatal
  <2>2. ResultsFollowCalls(conv')
    BY <1>1, <1>2, <2>1, AppendNeutral DEF Paired
  <2> QED
    BY <2>1, <2>2 DEF Paired
<1>9. CASE Start \/ Outer \/ InnerTop \/ Prepare \/ TurnStart \/ TextDelta \/ ToolCallDelta
  <2>1. /\ conv' = conv
        /\ pc \notin {"turnEnd", "tools"} /\ pc' \notin {"turnEnd", "tools"}
    BY <1>9 DEF Start, Outer, InnerTop, Prepare, TurnStart, TextDelta, ToolCallDelta
  <2> QED
    BY <2>1 DEF Paired
<1>10. CASE PartialUpdate \/ StreamError \/ StreamEnd \/ Returned \/ Finish \/ CloseChannel
  <2>1. /\ conv' = conv
        /\ pc \notin {"turnEnd", "tools"} /\ pc' \notin {"turnEnd", "tools"}
    BY <1>10 DEF PartialUpdate, StreamError, StreamEnd, Returned, Finish, CloseChannel
  <2> QED
    BY <2>1 DEF Paired
<1>11. CASE UNCHANGED <<conv, pc, turn, calls>>
  BY <1>11 DEF Paired, Open
<1>12. ASSUME NEW c \in Calls, ToolStart(c) \/ ToolUpdate(c) \/ ToolEnd(c)
       PROVE  UNCHANGED <<conv, pc, turn, calls>>
  BY <1>12 DEF ToolStart, ToolUpdate, ToolEnd, turnVars
<1>13. CASE Cancel \/ Steer \/ FollowUp \/ SyncTurn \/ Receive \/ UNCHANGED vars
  <2>1. UNCHANGED <<conv, pc, turn, calls>>
    BY <1>13 DEF Cancel, Steer, FollowUp, SyncTurn, Receive, turnVars, vars
  <2> QED
    BY <2>1, <1>11
<1> QED
  BY <1>3, <1>4, <1>5, <1>6, <1>7, <1>8, <1>9, <1>10, <1>11, <1>12, <1>13, NextCases

(* Tool results directly follow the message that asked for them, in source *)
(* order, whatever order the tools end in, for any number of turns and     *)
(* calls, when the run starts from such a conversation and no engine       *)
(* compacts it (loop.go:234-245, 554-573).                                 *)
THEOREM ToolResultsPairedAlways ==
    ASSUME CompactAt = 0, \A h \in Histories : ResultsFollowCalls(h)
    PROVE  Spec => []ToolResultsPaired
<1>1. Init => TypeOK /\ Paired
  <2> SUFFICES ASSUME Init PROVE TypeOK /\ Paired
    OBVIOUS
  <2>1. conv \in Histories /\ pc = "start"
    BY DEF Init
  <2> QED
    BY <2>1, InitType DEF Paired
<1>2. TypeOK /\ Paired /\ [Next]_vars => (TypeOK /\ Paired)'
  BY ControlStep, BudgetStep, MessagesStep, ChannelStep, PairedStep DEF TypeOK
<1>3. Paired => ToolResultsPaired
  BY DEF Paired, ToolResultsPaired
<1> QED
  BY <1>1, <1>2, <1>3, PTL DEF Spec

-----------------------------------------------------------------------------
(* The loop implements AgentEvents.  Promise says what stands in the       *)
(* channel at each control point.  First what one more event changes of    *)
(* what AgentEvents asks about the stream.                                 *)
LEMMA SendSees ==
    ASSUME ChannelOK, NEW e \in Event, sent' = Append(sent, e)
    PROVE  /\ sent' # <<>>
           /\ \A type, t : E!Seen(type, t)' <=> E!Seen(type, t) \/ (e.type = type /\ e.turn = t)
           /\ \A type, t, c : E!SeenCall(type, t, c)' <=>
                E!SeenCall(type, t, c) \/ (e.type = type /\ e.turn = t /\ e.call = c)
           /\ E!Over' <=> e.type \in {"agent_end", "error"}
           /\ E!Failed' <=> e.calls = -1
           /\ \A t \in 0..MaxTurns :
                E!AllToolsEnded(t) /\ (e.type = "turn_end" /\ e.turn = t => e.calls <= 0)
                    => E!AllToolsEnded(t)'
           /\ \A i \in 1..Len(sent') : sent'[i] = e \/ \E j \in 1..Len(sent) : sent'[i] = sent[j]
<1>1. /\ Len(sent) \in Nat /\ Len(sent') = Len(sent) + 1 /\ sent'[Len(sent) + 1] = e
      /\ \A i \in 1..Len(sent) : sent'[i] = sent[i]
      /\ \A i : i \in 1..Len(sent') <=> i \in 1..Len(sent) \/ i = Len(sent) + 1
      /\ sent' # <<>>
  BY DEF ChannelOK
<1>2. ASSUME NEW type, NEW t
      PROVE  E!Seen(type, t)' <=> E!Seen(type, t) \/ (e.type = type /\ e.turn = t)
  BY <1>1 DEF E!Seen
<1>3. ASSUME NEW type, NEW t, NEW c
      PROVE  E!SeenCall(type, t, c)' <=>
                E!SeenCall(type, t, c) \/ (e.type = type /\ e.turn = t /\ e.call = c)
  BY <1>1 DEF E!SeenCall
<1>4. /\ E!Over' <=> e.type \in {"agent_end", "error"}
      /\ E!Failed' <=> e.calls = -1
  BY <1>1 DEF E!Over, E!Failed
<1>5. ASSUME NEW t \in 0..MaxTurns, E!AllToolsEnded(t),
             e.type = "turn_end" /\ e.turn = t => e.calls <= 0
      PROVE  E!AllToolsEnded(t)'
  <2> SUFFICES ASSUME NEW i \in 1..Len(sent'), sent'[i].type = "turn_end", sent'[i].turn = t,
                      NEW c \in 1..sent'[i].calls
               PROVE  E!SeenCall("tool_end", t, c)'
    BY DEF E!AllToolsEnded
  <2>1. CASE i = Len(sent) + 1
    <3>1. e.calls <= 0 /\ c \in 1..e.calls /\ e.calls \in Int
      BY <1>1, <1>5, <2>1 DEF Event
    <3> QED
      BY <3>1
  <2>2. CASE i \in 1..Len(sent)
    BY <1>1, <1>3, <1>5, <2>2 DEF E!AllToolsEnded
  <2> QED
    BY <1>1, <2>1, <2>2
<1> QED
  BY <1>1, <1>2, <1>3, <1>4, <1>5

(* An event AgentEvents allows is a step of it. *)
LEMMA SendMaps ==
    ASSUME NEW e \in Event, E!May(e), sent' = Append(sent, e), ~closed, UNCHANGED closed
    PROVE  E!Next
<1>1. /\ e.type \in EventTypes /\ e.turn \in 0..MaxTurns /\ e.call \in 0..MaxCalls
      /\ e.calls \in -1..MaxCalls /\ e = E!Ev(e.type, e.turn, e.call, e.calls)
  BY DEF Event, E!Ev
<1>2. EventTypes = E!Types
  BY DEF EventTypes, E!Types
<1>3. E!Send
  BY <1>1, <1>2, Zenon DEF E!Send
<1> QED
  BY <1>3 DEF E!Next

(* A step that sends nothing changes nothing of what is asked. *)
LEMMA SameStream ==
    ASSUME UNCHANGED <<sent, closed>>
    PROVE  /\ \A type, t : E!Seen(type, t)' <=> E!Seen(type, t)
           /\ \A type, t, c : E!SeenCall(type, t, c)' <=> E!SeenCall(type, t, c)
           /\ \A t : E!AllToolsEnded(t)' <=> E!AllToolsEnded(t)
           /\ \A t : E!Complete(t)' <=> E!Complete(t)
           /\ E!Over' <=> E!Over
           /\ E!Failed' <=> E!Failed
  BY DEF E!Seen, E!SeenCall, E!AllToolsEnded, E!Complete, E!Over, E!Failed

-----------------------------------------------------------------------------
Receiving  == {"stream", "partial", "record", "turnEnd"}
ToolEvents == {"tool_start", "tool_end", "context_patch"}
AtWork     == {"waiting", "blocked", "failed", "running"}

(* The two ends of the stream. *)
Shape ==
    /\ pc = "start" <=> sent = <<>>
    /\ closed <=> pc = "done"
    /\ pc \in {"close", "done"} <=> E!Over
    /\ E!Failed => pc \in {"end", "close", "done"}
    /\ pc = "end" => E!Failed \/ (turn > 0 /\ E!Complete(turn))

(* The turns that were started, and no event of a later one. *)
TurnsSeen ==
    /\ \A t \in 0..MaxTurns : E!Seen("turn_start", t) <=> t \in 1..turn
    /\ \A i \in 1..Len(sent) : sent[i].turn <= turn

(* The turn being received has its message open or closed, and no end. *)
MessageOpen ==
    pc \in Receiving =>
        /\ turn > 0 /\ ~E!Seen("turn_end", turn)
        /\ E!Seen("message_start", turn) <=> partial
        /\ E!Seen("message_end", turn) <=> pc \in {"record", "turnEnd"} /\ partial
        /\ pc # "partial" /\ calls > 0 => partial
        /\ \A type \in ToolEvents, c \in Calls : ~E!SeenCall(type, turn, c)

(* Where the turn before, or this one, is complete. *)
TurnComplete ==
    /\ pc \in {"start", "outer"} => turn = 0
    /\ pc \in {"inner", "prepare", "turnStart"} => E!Complete(turn)
    /\ pc \in {"patches", "returned"} => turn > 0 /\ E!Complete(turn)
    /\ pc \in {"outer", "inner", "prepare", "turnStart", "fatal", "failure", "error"} =>
          E!AllToolsEnded(turn)

(* The tools of a turn and what was sent about them. *)
ToolSeen(c) ==
    /\ tool[c] = "none" <=> c > calls
    /\ E!SeenCall("tool_start", turn, c) <=> tool[c] \in {"blocked", "failed", "running", "done"}
    /\ E!SeenCall("tool_end", turn, c) <=> tool[c] = "done"
    /\ E!SeenCall("context_patch", turn, c) => pc = "patches" /\ c < patchAt

ToolsSeen ==
    /\ \A c \in Calls : tool[c] \in AtWork => pc = "tools"
    /\ pc \in {"tools", "patches"} =>
          /\ turn > 0 /\ E!Seen("turn_end", turn)
          /\ \A i \in 1..Len(sent) :
                sent[i].type = "turn_end" /\ sent[i].turn = turn => sent[i].calls = calls
          /\ \A c \in Calls : ToolSeen(c)
    /\ pc = "patches" => \A c \in 1..calls : tool[c] = "done"

Promise == Shape /\ TurnsSeen /\ MessageOpen /\ TurnComplete /\ ToolsSeen

(* Steps of the world around the loop. *)
LEMMA PromiseOutside ==
    ASSUME Promise, UNCHANGED <<pc, turn, calls, partial, tool, patchAt, sent, closed>>
    PROVE  Promise'
<1>1. Shape' /\ TurnsSeen'
  BY SameStream DEF Promise, Shape, TurnsSeen
<1>2. MessageOpen' /\ TurnComplete'
  BY SameStream DEF Promise, MessageOpen, TurnComplete
<1>3. ToolsSeen'
  BY SameStream DEF Promise, ToolsSeen, ToolSeen
<1> QED
  BY <1>1, <1>2, <1>3 DEF Promise

(* Steps of the loop goroutine that send nothing. *)
LEMMA PromiseQuiet ==
    ASSUME ControlOK, Promise,
           \/ Outer \/ InnerTop \/ Prepare \/ ToolCallDelta \/ StreamError \/ Record
           \/ AppendResults \/ AfterTools \/ Returned \/ Fatal
    PROVE  Promise' /\ UNCHANGED <<sent, closed>>
<1>1. CASE Outer \/ InnerTop \/ Prepare \/ Returned \/ Fatal
  <2>1. /\ UNCHANGED <<turn, calls, partial, tool, patchAt, sent, closed>>
        /\ \/ pc = "outer" /\ pc' \in {"error", "inner"}
           \/ pc = "inner" /\ pc' \in {"fatal", "prepare"}
           \/ pc = "prepare" /\ pc' = "turnStart"
           \/ pc = "returned" /\ pc' = "end"
           \/ pc = "fatal" /\ pc' \in {"error", "failure"}
    BY <1>1 DEF Outer, InnerTop, Prepare, Returned, Fatal, turnVars, toolVars, chanVars
  <2>2. Shape' /\ TurnsSeen'
    BY <2>1, SameStream DEF Promise, Shape, TurnsSeen, TurnComplete
  <2>3. pc = "outer" => E!Complete(turn)
    BY DEF Promise, TurnComplete, E!Complete
  <2>4. MessageOpen' /\ TurnComplete'
    BY <2>1, <2>3, SameStream DEF Promise, MessageOpen, TurnComplete, Receiving
  <2>5. ToolsSeen'
    BY <2>1, SameStream DEF Promise, ToolsSeen, ToolSeen
  <2> QED
    BY <2>1, <2>2, <2>4, <2>5 DEF Promise
<1>2. CASE ToolCallDelta \/ StreamError \/ Record
  <2>1. /\ UNCHANGED <<turn, partial, tool, patchAt, sent, closed>>
        /\ \/ pc = "stream" /\ pc' = "partial"
           \/ pc = "stream" /\ pc' = "fatal" /\ calls' = calls
           \/ pc = "record" /\ pc' = "turnEnd" /\ calls' = calls
    BY <1>2 DEF ToolCallDelta, StreamError, Record, turnVars, toolVars, chanVars
  <2>2. Shape' /\ TurnsSeen'
    BY <2>1, SameStream DEF Promise, Shape, TurnsSeen
  <2>3. pc = "stream" => E!AllToolsEnded(turn)
    BY DEF Promise, MessageOpen, Receiving, E!AllToolsEnded, E!Seen
  <2>4. MessageOpen' /\ TurnComplete'
    BY <2>1, <2>3, SameStream DEF Promise, MessageOpen, TurnComplete, Receiving
  <2>5. ToolsSeen'
    BY <2>1, SameStream DEF Promise, ToolsSeen
  <2> QED
    BY <2>1, <2>2, <2>4, <2>5 DEF Promise
<1>3. CASE AppendResults
  <2>1. /\ UNCHANGED <<turn, calls, partial, tool, patchAt, sent, closed>>
        /\ pc = "tools" /\ pc' = "patches" /\ \A c \in 1..calls : tool[c] = "done"
    BY <1>3 DEF AppendResults, turnVars, toolVars, chanVars
  <2>2. E!AllToolsEnded(turn)
    <3>1. \A i \in 1..Len(sent) :
            sent[i].type = "turn_end" /\ sent[i].turn = turn => sent[i].calls = calls
      BY <2>1 DEF Promise, ToolsSeen
    <3>2. \A c \in 1..calls : E!SeenCall("tool_end", turn, c)
      BY <2>1 DEF Promise, ToolsSeen, ToolSeen, ControlOK
    <3> QED
      BY <3>1, <3>2 DEF E!AllToolsEnded
  <2>3. Shape' /\ TurnsSeen'
    BY <2>1, SameStream DEF Promise, Shape, TurnsSeen
  <2>4. MessageOpen' /\ TurnComplete'
    BY <2>1, <2>2, SameStream DEF Promise, MessageOpen, TurnComplete, Receiving, ToolsSeen, E!Complete
  <2>5. ToolsSeen'
    <3>1. \A c \in Calls : ToolSeen(c)'
      BY <2>1, SameStream DEF Promise, ToolsSeen, ToolSeen
    <3>2. \A c \in Calls : tool[c] \notin AtWork
      BY <2>1 DEF Promise, ToolsSeen, ToolSeen, AtWork, ControlOK
    <3> QED
      BY <2>1, <3>1, <3>2, SameStream DEF Promise, ToolsSeen
  <2> QED
    BY <2>1, <2>3, <2>4, <2>5 DEF Promise
<1>4. CASE AfterTools
  <2>1. /\ UNCHANGED <<turn, calls, partial, tool, patchAt, sent, closed>>
        /\ pc = "patches" /\ pc' \in {"inner", "returned"}
    BY <1>4 DEF AfterTools, turnVars, toolVars, chanVars
  <2>2. Shape' /\ TurnsSeen'
    BY <2>1, SameStream DEF Promise, Shape, TurnsSeen
  <2>3. MessageOpen' /\ TurnComplete'
    BY <2>1, SameStream DEF Promise, MessageOpen, TurnComplete, Receiving, E!Complete
  <2>4. ToolsSeen'
    BY <2>1, SameStream DEF Promise, ToolsSeen
  <2> QED
    BY <2>1, <2>2, <2>3, <2>4 DEF Promise
<1> QED
  BY <1>1, <1>2, <1>3, <1>4

-----------------------------------------------------------------------------
(* What one event of the current turn changes. *)
LEMMA EmitSees ==
    ASSUME ControlOK, ChannelOK, ~closed,
           NEW type \in EventTypes, NEW c \in 0..MaxCalls, NEW n \in -1..MaxCalls,
           Emit(type, c, n), turn' = turn
    PROVE  /\ sent' # <<>> /\ closed' = closed
           /\ \A ty, t : E!Seen(ty, t)' <=> E!Seen(ty, t) \/ (type = ty /\ turn = t)
           /\ \A ty, t, d : E!SeenCall(ty, t, d)' <=>
                E!SeenCall(ty, t, d) \/ (type = ty /\ turn = t /\ c = d)
           /\ E!Over' <=> type \in {"agent_end", "error"}
           /\ E!Failed' <=> n = -1
           /\ E!AllToolsEnded(turn) /\ (type = "turn_end" => n <= 0) => E!AllToolsEnded(turn)'
           /\ \A i \in 1..Len(sent') :
                \/ sent'[i].type = type /\ sent'[i].turn = turn /\ sent'[i].calls = n
                \/ \E j \in 1..Len(sent) : sent'[i] = sent[j]
           /\ E!May(E!Ev(type, turn, c, n)) => E!Next
<1> DEFINE e == E!Ev(type, turn, c, n)
<1>1. /\ e \in Event /\ e.type = type /\ e.turn = turn /\ e.call = c /\ e.calls = n
      /\ turn \in 0..MaxTurns
  BY DEF ControlOK, Event, E!Ev
<1>2. sent' = Append(sent, e) /\ closed' = closed
  BY DEF Emit, Ev, E!Ev
<1> HIDE DEF e
<1>3. E!May(e) => E!Next
  BY <1>1, <1>2, SendMaps
<1>4. /\ sent' # <<>>
      /\ \A ty, t : E!Seen(ty, t)' <=> E!Seen(ty, t) \/ (e.type = ty /\ e.turn = t)
      /\ \A ty, t, d : E!SeenCall(ty, t, d)' <=>
            E!SeenCall(ty, t, d) \/ (e.type = ty /\ e.turn = t /\ e.call = d)
      /\ E!Over' <=> e.type \in {"agent_end", "error"}
      /\ E!Failed' <=> e.calls = -1
      /\ \A t \in 0..MaxTurns :
            E!AllToolsEnded(t) /\ (e.type = "turn_end" /\ e.turn = t => e.calls <= 0)
                => E!AllToolsEnded(t)'
      /\ \A i \in 1..Len(sent') : sent'[i] = e \/ \E j \in 1..Len(sent) : sent'[i] = sent[j]
  BY <1>1, <1>2, SendSees
<1>5. E!AllToolsEnded(turn) /\ (type = "turn_end" => n <= 0) => E!AllToolsEnded(turn)'
  <2>1. turn' \in 0..MaxTurns
    BY <1>1
  <2> QED
    BY <1>1, <1>4, <2>1
<1> QED
  BY <1>1, <1>2, <1>3, <1>4, <1>5 DEF e

(* Before the loop has ended it may go on, and while nothing else is said  *)
(* of the message being received, the stream goes on with it.              *)
LEMMA Ready ==
    ASSUME Promise, pc \in PcLabels, pc \notin {"start", "end", "close", "done"}
    PROVE  E!Started /\ ~closed
  BY DEF Promise, Shape, E!Started

LEMMA Receives ==
    ASSUME ControlOK, Promise, pc \in Receiving
    PROVE  E!Started /\ ~closed /\ turn \in 1..MaxTurns /\ E!InMessage(turn)
<1>1. E!Started /\ ~closed
  BY Ready DEF ControlOK, Receiving
<1>2. turn \in 1..MaxTurns
  BY DEF ControlOK, Promise, MessageOpen
<1>3. E!InMessage(turn)
  BY <1>2 DEF Promise, MessageOpen, TurnsSeen, E!InMessage
<1> QED
  BY <1>1, <1>2, <1>3

LEMMA MayTurn ==
    ASSUME E!Started, NEW t \in 1..MaxTurns, ~E!Seen("turn_start", t), E!Complete(t - 1)
    PROVE  E!May(E!Ev("turn_start", t, 0, 0))
  BY Zenon DEF E!May, E!Turns

LEMMA MayMessage ==
    ASSUME E!Started, NEW t \in 1..MaxTurns,
           NEW type \in {"delta", "message_start", "message_update", "message_end"},
           E!MessageMay(type, t)
    PROVE  E!May(E!Ev(type, t, 0, 0))
  BY Zenon DEF E!May, E!Turns

LEMMA MayTool ==
    ASSUME E!Started, NEW t \in 1..MaxTurns, NEW c \in Calls,
           NEW type \in {"tool_start", "tool_update", "tool_end", "context_patch"},
           E!ToolMay(type, t, c)
    PROVE  E!May(E!Ev(type, t, c, 0))
  BY Zenon DEF E!May, E!Turns, E!Calls

(* The last turn that was started is the loop's. *)
LEMMA CurrentTurn ==
    ASSUME ControlOK, ChannelOK, Promise
    PROVE  E!Current(turn)
<1>1. \A t \in 0..MaxTurns : E!Seen("turn_start", t) <=> t \in 1..turn
  BY DEF Promise, TurnsSeen
<1>2. CASE turn = 0
  BY <1>1, <1>2 DEF E!Current, E!Turns
<1>3. CASE turn # 0
  <2>1. E!Seen("turn_start", turn)
    BY <1>1, <1>3 DEF ControlOK
  <2>2. ~E!Seen("turn_start", turn + 1)
    BY DEF Promise, TurnsSeen, ControlOK, E!Seen
  <2> QED
    BY <1>3, <2>1, <2>2 DEF E!Current
<1> QED
  BY <1>2, <1>3

-----------------------------------------------------------------------------
(* The steps that send an event: each is one AgentEvents allows. *)
LEMMA PromiseStart ==
    ASSUME ControlOK, ChannelOK, Promise, Start
    PROVE  Promise' /\ E!Next
<1>1. /\ pc = "start" /\ pc' = "outer" /\ Emit("agent_start", 0, 0)
      /\ UNCHANGED <<turn, calls, partial, tool, patchAt>>
  BY DEF Start, turnVars, toolVars
<1>2. sent = <<>> /\ turn = 0 /\ ~closed
  BY <1>1 DEF Promise, Shape, TurnComplete
<1>3. E!May(E!Ev("agent_start", turn, 0, 0))
  BY <1>2, Zenon DEF E!May
<1>4. E!AllToolsEnded(turn)
  BY <1>2 DEF E!AllToolsEnded
<1>5. "agent_start" \in EventTypes /\ 0 \in 0..MaxCalls /\ 0 \in -1..MaxCalls
  BY DEF EventTypes
<1>6. Shape'
  BY <1>1, <1>2, <1>5, EmitSees DEF Promise, Shape
<1>7. TurnsSeen'
  BY <1>1, <1>2, <1>5, EmitSees DEF Promise, TurnsSeen, ControlOK
<1>8. MessageOpen' /\ TurnComplete'
  BY <1>1, <1>2, <1>4, <1>5, EmitSees DEF MessageOpen, TurnComplete, Receiving
<1>9. ToolsSeen'
  BY <1>1 DEF Promise, ToolsSeen
<1> QED
  BY <1>1, <1>2, <1>3, <1>5, <1>6, <1>7, <1>8, <1>9, EmitSees DEF Promise

LEMMA PromiseTurnStart ==
    ASSUME ControlOK, ChannelOK, Promise, TurnStart
    PROVE  Promise' /\ E!Next
<1> DEFINE e == E!Ev("turn_start", turn + 1, 0, 0)
<1>1. /\ pc = "turnStart" /\ pc' = "stream" /\ turn < MaxTurns /\ turn' = turn + 1
      /\ calls' = 0 /\ partial' = FALSE
      /\ UNCHANGED <<tool, patchAt, closed>>
  BY DEF TurnStart, toolVars
<1>2. sent' = Append(sent, e)
  <2>1. [Ev("turn_start", 0, 0) EXCEPT !.turn = turn + 1] = e
    BY DEF Ev, E!Ev
  <2> QED
    BY <2>1, Zenon DEF TurnStart
<1>3. /\ e \in Event /\ e.type = "turn_start" /\ e.turn = turn + 1 /\ e.call = 0 /\ e.calls = 0
      /\ turn + 1 \in 1..MaxTurns /\ turn \in 0..MaxTurns
  BY <1>1 DEF ControlOK, Event, EventTypes, E!Ev
<1>4. E!Started /\ ~closed
  BY <1>1, Ready DEF PcLabels
<1>5. ~E!Seen("turn_start", turn + 1)
  BY <1>3 DEF Promise, TurnsSeen
<1>6. E!Complete(turn + 1 - 1)
  <2>1. turn + 1 - 1 = turn
    BY <1>3
  <2> QED
    BY <1>1, <2>1 DEF Promise, TurnComplete
<1>7. E!May(e)
  BY <1>3, <1>4, <1>5, <1>6, MayTurn
<1>8. \A type, c : ~E!Seen(type, turn + 1) /\ ~E!SeenCall(type, turn + 1, c)
  BY <1>3 DEF Promise, TurnsSeen, E!Seen, E!SeenCall
<1> HIDE DEF e
<1>9. Shape'
  BY <1>1, <1>2, <1>3, <1>4, SendSees DEF Promise, Shape
<1>10. TurnsSeen'
  <2>1. ASSUME NEW t \in 0..MaxTurns PROVE E!Seen("turn_start", t)' <=> t \in 1..turn'
    BY <1>1, <1>2, <1>3, SendSees DEF Promise, TurnsSeen
  <2>2. ASSUME NEW i \in 1..Len(sent') PROVE sent'[i].turn <= turn'
    <3>1. \A j \in 1..Len(sent) : sent[j].turn <= turn /\ sent[j].turn \in 0..MaxTurns
      <4>1. \A j \in 1..Len(sent) : sent[j] \in Event
        BY DEF ChannelOK
      <4>2. \A x \in Event : x.turn \in 0..MaxTurns
        BY DEF Event
      <4> QED
        BY <4>1, <4>2 DEF Promise, TurnsSeen
    <3>2. sent'[i] = e \/ \E j \in 1..Len(sent) : sent'[i] = sent[j]
      BY <1>2, <1>3, SendSees
    <3> QED
      BY <1>1, <1>3, <3>1, <3>2
  <2> QED
    BY <2>1, <2>2 DEF TurnsSeen
<1>11. MessageOpen' /\ TurnComplete'
  <2>1. \A type, t, c : t = turn + 1 /\ type # "turn_start" =>
          ~E!Seen(type, t)' /\ ~E!SeenCall(type, t, c)'
    BY <1>2, <1>3, <1>8, SendSees, SMTT(30)
  <2> QED
    BY <1>1, <1>3, <2>1 DEF MessageOpen, TurnComplete, ToolEvents
<1>12. ToolsSeen'
  BY <1>1 DEF Promise, ToolsSeen
<1>13. E!Next
  BY <1>1, <1>2, <1>3, <1>4, <1>7, SendMaps
<1> QED
  BY <1>9, <1>10, <1>11, <1>12, <1>13 DEF Promise

(* The message being received: its deltas, its partial copies and its end. *)
LEMMA PromiseMessage ==
    ASSUME ControlOK, ChannelOK, Promise, TextDelta \/ PartialUpdate \/ StreamEnd
    PROVE  Promise' /\ (E!Next \/ UNCHANGED <<sent, closed>>)
<1>1. /\ UNCHANGED <<turn, calls, tool, patchAt>>
      /\ pc \in {"stream", "partial"} /\ pc' \in Receiving
  BY DEF TextDelta, PartialUpdate, StreamEnd, turnVars, toolVars, Receiving
<1>2. E!Started /\ ~closed /\ turn \in 1..MaxTurns /\ E!InMessage(turn)
  BY <1>1, Receives DEF Receiving
<1>3. CASE StreamEnd /\ ~partial
  <2>1. UNCHANGED <<sent, closed, partial>> /\ pc = "stream" /\ pc' = "record"
    BY <1>3, Zenon DEF StreamEnd, chanVars, turnVars
  <2>2. Shape' /\ TurnsSeen'
    BY <1>1, <2>1, SameStream DEF Promise, Shape, TurnsSeen
  <2>3. MessageOpen' /\ TurnComplete' /\ ToolsSeen'
    BY <1>1, <1>3, <2>1, SameStream DEF Promise, MessageOpen, TurnComplete, ToolsSeen, Receiving
  <2> QED
    BY <2>1, <2>2, <2>3 DEF Promise
<1>4. CASE TextDelta \/ PartialUpdate \/ (StreamEnd /\ partial)
  <2>1. PICK type \in {"delta", "message_start", "message_update", "message_end"} :
          /\ Emit(type, 0, 0)
          /\ \/ type = "delta" /\ pc = "stream" /\ pc' = "partial" /\ partial' = partial
             \/ /\ type = IF partial THEN "message_update" ELSE "message_start"
                /\ pc = "partial" /\ pc' = "stream" /\ partial' = TRUE
             \/ /\ type = "message_end" /\ partial /\ partial' = partial
                /\ pc = "stream" /\ pc' = "record"
    <3>1. CASE TextDelta
      BY <3>1, Zenon DEF TextDelta
    <3>2. CASE PartialUpdate
      <4>1. (IF partial THEN "message_update" ELSE "message_start")
              \in {"delta", "message_start", "message_update", "message_end"}
        OBVIOUS
      <4> QED
        BY <3>2, <4>1, Zenon DEF PartialUpdate
    <3>3. CASE StreamEnd /\ partial
      BY <3>3, Zenon DEF StreamEnd, turnVars
    <3> QED
      BY <1>4, <3>1, <3>2, <3>3
  <2>2. type \in EventTypes /\ 0 \in 0..MaxCalls /\ 0 \in -1..MaxCalls
    BY DEF EventTypes
  <2>3. /\ sent' # <<>> /\ closed' = closed
        /\ \A ty, t : E!Seen(ty, t)' <=> E!Seen(ty, t) \/ (type = ty /\ turn = t)
        /\ \A ty, t, d : E!SeenCall(ty, t, d)' <=>
              E!SeenCall(ty, t, d) \/ (type = ty /\ turn = t /\ 0 = d)
        /\ E!Over' <=> type \in {"agent_end", "error"}
        /\ E!Failed' <=> 0 = -1
        /\ \A i \in 1..Len(sent') :
              \/ sent'[i].type = type /\ sent'[i].turn = turn /\ sent'[i].calls = 0
              \/ \E j \in 1..Len(sent) : sent'[i] = sent[j]
        /\ E!May(E!Ev(type, turn, 0, 0)) => E!Next
    BY <1>1, <1>2, <2>1, <2>2, EmitSees
  <2>4. E!MessageMay(type, turn)
    BY <1>1, <1>2, <2>1 DEF Promise, MessageOpen, Receiving, E!MessageMay
  <2>5. E!Next
    BY <1>2, <2>3, <2>4, MayMessage
  <2>6. Shape'
    BY <1>1, <1>2, <2>1, <2>3 DEF Promise, Shape
  <2>7. TurnsSeen'
    BY <1>1, <1>2, <2>1, <2>3 DEF Promise, TurnsSeen
  <2>8. MessageOpen'
    <3>1. type \notin ToolEvents
      BY <2>1 DEF ToolEvents
    <3> QED
      BY <1>1, <1>2, <2>1, <2>3, <3>1 DEF Promise, MessageOpen, Receiving
  <2>9. TurnComplete' /\ ToolsSeen'
    BY <1>1, <2>1 DEF Promise, TurnComplete, ToolsSeen
  <2> QED
    BY <2>5, <2>6, <2>7, <2>8, <2>9 DEF Promise
<1> QED
  BY <1>3, <1>4

LEMMA PromiseTurnEnd ==
    ASSUME ControlOK, ChannelOK, Promise, TurnEnd
    PROVE  Promise' /\ E!Next
<1>1. /\ pc = "turnEnd" /\ pc' = IF calls = 0 THEN "returned" ELSE "tools"
      /\ Emit("turn_end", 0, calls) /\ patchAt' = 1
      /\ UNCHANGED <<turn, calls, partial>>
  BY DEF TurnEnd, turnVars
<1>2. /\ tool' = [c \in Calls |-> IF calls # 0 /\ c <= calls THEN "waiting" ELSE "none"]
      /\ calls \in 0..MaxCalls
  BY DEF TurnEnd, ControlOK
<1>3. E!Started /\ ~closed /\ turn \in 1..MaxTurns /\ E!InMessage(turn)
  BY <1>1, Receives DEF Receiving
<1>4. E!TurnEndMay(turn, calls)
  BY <1>1, <1>2, <1>3 DEF Promise, MessageOpen, Receiving, E!TurnEndMay
<1>5. E!May(E!Ev("turn_end", turn, 0, calls))
  BY <1>2, <1>3, <1>4, Zenon DEF E!May, E!Turns
<1>6. "turn_end" \in EventTypes /\ 0 \in 0..MaxCalls /\ calls \in -1..MaxCalls
  BY <1>2 DEF EventTypes
<1>7. /\ sent' # <<>> /\ closed' = closed
      /\ \A ty, t : E!Seen(ty, t)' <=> E!Seen(ty, t) \/ ("turn_end" = ty /\ turn = t)
      /\ \A ty, t, d : E!SeenCall(ty, t, d)' <=>
            E!SeenCall(ty, t, d) \/ ("turn_end" = ty /\ turn = t /\ 0 = d)
      /\ ~E!Over' /\ ~E!Failed'
      /\ E!AllToolsEnded(turn) /\ calls <= 0 => E!AllToolsEnded(turn)'
      /\ \A i \in 1..Len(sent') :
            \/ sent'[i].type = "turn_end" /\ sent'[i].turn = turn /\ sent'[i].calls = calls
            \/ \E j \in 1..Len(sent) : sent'[i] = sent[j]
      /\ E!Next
  BY <1>1, <1>2, <1>3, <1>5, <1>6, EmitSees
<1>8. E!AllToolsEnded(turn)
  BY <1>1 DEF Promise, MessageOpen, Receiving, E!AllToolsEnded, E!Seen
<1>9. Shape' /\ TurnsSeen'
  BY <1>1, <1>3, <1>7, SMTT(30) DEF Promise, Shape, TurnsSeen
<1>10. MessageOpen' /\ TurnComplete'
  BY <1>1, <1>2, <1>3, <1>7, <1>8 DEF MessageOpen, TurnComplete, Receiving, E!Complete
<1>11. ToolsSeen'
  <2>1. CASE calls = 0
    BY <1>1, <1>2, <2>1 DEF ToolsSeen, AtWork
  <2>2. CASE calls # 0
    <3>1. \A i \in 1..Len(sent') :
            sent'[i].type = "turn_end" /\ sent'[i].turn = turn => sent'[i].calls = calls
      BY <1>1, <1>7 DEF Promise, MessageOpen, Receiving, E!Seen
    <3>2. \A type \in ToolEvents, c \in Calls : ~E!SeenCall(type, turn, c)'
      BY <1>1, <1>7 DEF Promise, MessageOpen, Receiving, ToolEvents
    <3>3. \A c \in Calls : ToolSeen(c)'
      BY <1>1, <1>2, <1>7, <2>2, <3>2 DEF ToolSeen, ToolEvents
    <3> QED
      BY <1>1, <1>3, <1>7, <2>2, <3>1, <3>3 DEF ToolsSeen
  <2> QED
    BY <2>1, <2>2
<1> QED
  BY <1>7, <1>9, <1>10, <1>11 DEF Promise

(* The tools of the turn: each event is about a call that was asked for. *)
LEMMA ToolReady ==
    ASSUME ControlOK, Promise, pc \in {"tools", "patches"}
    PROVE  /\ E!Started /\ ~closed /\ turn \in 1..MaxTurns
           /\ \A c \in Calls : c <= calls => E!Asked(turn, c)
<1>1. E!Started /\ ~closed
  BY Ready DEF PcLabels
<1>2. turn \in 1..MaxTurns
  BY DEF ControlOK, Promise, ToolsSeen
<1>3. ASSUME NEW c \in Calls, c <= calls PROVE E!Asked(turn, c)
  <2>1. PICK i \in 1..Len(sent) : sent[i].type = "turn_end" /\ sent[i].turn = turn
    BY DEF Promise, ToolsSeen, E!Seen
  <2>2. sent[i].calls = calls
    BY <2>1 DEF Promise, ToolsSeen
  <2> QED
    BY <1>3, <2>1, <2>2 DEF ControlOK, E!Asked
<1> QED
  BY <1>1, <1>2, <1>3

(* One tool event, and what of Promise the steps below share. *)
LEMMA ToolSends ==
    ASSUME ControlOK, ChannelOK, Promise, pc \in {"tools", "patches"},
           NEW type \in {"tool_start", "tool_update", "tool_end", "context_patch"},
           NEW c \in Calls, E!ToolMay(type, turn, c), Emit(type, c, 0),
           UNCHANGED <<pc, turn, calls, partial>>
    PROVE  /\ E!Next /\ Shape' /\ TurnsSeen' /\ MessageOpen' /\ TurnComplete'
           /\ E!Seen("turn_end", turn)'
           /\ \A i \in 1..Len(sent') :
                sent'[i].type = "turn_end" /\ sent'[i].turn = turn' => sent'[i].calls = calls'
           /\ \A ty \in ToolEvents, d \in Calls : E!SeenCall(ty, turn, d)' <=>
                E!SeenCall(ty, turn, d) \/ (type = ty /\ c = d)
<1>1. E!Started /\ ~closed /\ turn \in 1..MaxTurns
  BY ToolReady
<1>2. E!May(E!Ev(type, turn, c, 0))
  BY <1>1, MayTool
<1>3. type \in EventTypes /\ c \in 0..MaxCalls /\ 0 \in -1..MaxCalls
  BY DEF EventTypes
<1>4. /\ sent' # <<>> /\ closed' = closed
      /\ \A ty, t : E!Seen(ty, t)' <=> E!Seen(ty, t) \/ (type = ty /\ turn = t)
      /\ \A ty, t, d : E!SeenCall(ty, t, d)' <=>
            E!SeenCall(ty, t, d) \/ (type = ty /\ turn = t /\ c = d)
      /\ ~E!Over' /\ ~E!Failed'
      /\ E!AllToolsEnded(turn) => E!AllToolsEnded(turn)'
      /\ \A i \in 1..Len(sent') :
            \/ sent'[i].type = type /\ sent'[i].turn = turn /\ sent'[i].calls = 0
            \/ \E j \in 1..Len(sent) : sent'[i] = sent[j]
      /\ E!Next
  BY <1>1, <1>2, <1>3, EmitSees
<1>5. Shape' /\ TurnsSeen'
  BY <1>1, <1>4 DEF Promise, Shape, TurnsSeen
<1>6. MessageOpen' /\ TurnComplete'
  BY <1>1, <1>4 DEF Promise, MessageOpen, TurnComplete, Receiving, E!Complete
<1>7. /\ E!Seen("turn_end", turn)'
      /\ \A i \in 1..Len(sent') :
            sent'[i].type = "turn_end" /\ sent'[i].turn = turn' => sent'[i].calls = calls'
  BY <1>4 DEF Promise, ToolsSeen
<1>8. \A ty \in ToolEvents, d \in Calls : E!SeenCall(ty, turn, d)' <=>
        E!SeenCall(ty, turn, d) \/ (type = ty /\ c = d)
  BY <1>4
<1> QED
  BY <1>4, <1>5, <1>6, <1>7, <1>8

LEMMA PromiseTool ==
    ASSUME ControlOK, ChannelOK, Promise,
           NEW c \in Calls, ToolStart(c) \/ ToolUpdate(c) \/ ToolEnd(c)
    PROVE  Promise' /\ E!Next
<1>1. PICK type \in {"tool_start", "tool_update", "tool_end"} :
        /\ Emit(type, c, 0) /\ UNCHANGED <<pc, turn, calls, partial, patchAt>>
        /\ \/ /\ type = "tool_start" /\ tool[c] = "waiting"
              /\ \E state \in {"blocked", "failed", "running"} : tool' = [tool EXCEPT ![c] = state]
           \/ type = "tool_update" /\ tool[c] = "running" /\ tool' = tool
           \/ /\ type = "tool_end" /\ tool[c] \in {"blocked", "failed", "running"}
              /\ tool' = [tool EXCEPT ![c] = "done"]
  <2>1. CASE ToolStart(c)
    BY <2>1, Zenon DEF ToolStart, MayStart, turnVars
  <2>2. CASE ToolUpdate(c)
    BY <2>2, Zenon DEF ToolUpdate, turnVars, toolVars
  <2>3. CASE ToolEnd(c)
    BY <2>3, Zenon DEF ToolEnd, turnVars
  <2> QED
    BY <2>1, <2>2, <2>3
<1>2. pc = "tools"
  BY <1>1 DEF Promise, ToolsSeen, AtWork
<1>3. ToolSeen(c) /\ c <= calls
  BY <1>1, <1>2 DEF Promise, ToolsSeen, ToolSeen, ControlOK
<1>4. E!ToolMay(type, turn, c)
  BY <1>1, <1>2, <1>3, ToolReady DEF ToolSeen, E!ToolMay
<1>5. /\ E!Next /\ Shape' /\ TurnsSeen' /\ MessageOpen' /\ TurnComplete'
      /\ E!Seen("turn_end", turn)'
      /\ \A i \in 1..Len(sent') :
            sent'[i].type = "turn_end" /\ sent'[i].turn = turn' => sent'[i].calls = calls'
      /\ \A ty \in ToolEvents, d \in Calls : E!SeenCall(ty, turn, d)' <=>
            E!SeenCall(ty, turn, d) \/ (type = ty /\ c = d)
  BY <1>1, <1>2, <1>4, ToolSends
<1>6. ASSUME NEW d \in Calls PROVE ToolSeen(d)'
  <2>1. ToolSeen(d)
    BY <1>2 DEF Promise, ToolsSeen
  <2>2. CASE d = c
    BY <1>1, <1>3, <1>5, <2>1, <2>2 DEF ToolSeen, ToolEvents, ControlOK
  <2>3. CASE d # c
    <3>1. tool'[d] = tool[d]
      BY <1>1, <2>3 DEF ControlOK
    <3> QED
      BY <1>1, <1>5, <2>1, <2>3, <3>1 DEF ToolSeen, ToolEvents
  <2> QED
    BY <2>2, <2>3
<1>7. ToolsSeen'
  BY <1>1, <1>2, <1>5, <1>6 DEF Promise, ToolsSeen
<1> QED
  BY <1>5, <1>7 DEF Promise

LEMMA PromisePatch ==
    ASSUME ControlOK, ChannelOK, Promise, ApplyPatch
    PROVE  Promise' /\ (E!Next \/ UNCHANGED <<sent, closed>>)
<1>1. /\ pc = "patches" /\ patchAt \in Calls /\ patchAt <= calls /\ patchAt' = patchAt + 1
      /\ UNCHANGED <<pc, turn, calls, partial, tool>>
      /\ Emit("context_patch", patchAt, 0) \/ UNCHANGED chanVars
  BY DEF ApplyPatch, turnVars, ControlOK
<1>2. CASE UNCHANGED chanVars
  <2>1. UNCHANGED <<sent, closed>>
    BY <1>2 DEF chanVars
  <2>2. Shape' /\ TurnsSeen' /\ MessageOpen' /\ TurnComplete'
    BY <1>1, <2>1, SameStream DEF Promise, Shape, TurnsSeen, MessageOpen, TurnComplete
  <2>3. ASSUME NEW c \in Calls PROVE ToolSeen(c)'
    BY <1>1, <2>1, SameStream DEF Promise, ToolsSeen, ToolSeen
  <2>4. ToolsSeen'
    BY <1>1, <2>1, <2>3, SameStream DEF Promise, ToolsSeen
  <2> QED
    BY <2>1, <2>2, <2>4 DEF Promise
<1>3. CASE Emit("context_patch", patchAt, 0)
  <2>1. /\ E!SeenCall("tool_end", turn, patchAt) /\ E!AllToolsEnded(turn)
        /\ ~E!SeenCall("context_patch", turn, patchAt)
    BY <1>1 DEF Promise, ToolsSeen, ToolSeen, TurnComplete, E!Complete
  <2>2. E!ToolMay("context_patch", turn, patchAt)
    BY <2>1 DEF E!ToolMay
  <2>3. /\ E!Next /\ Shape' /\ TurnsSeen' /\ MessageOpen' /\ TurnComplete'
        /\ E!Seen("turn_end", turn)'
        /\ \A i \in 1..Len(sent') :
              sent'[i].type = "turn_end" /\ sent'[i].turn = turn' => sent'[i].calls = calls'
        /\ \A ty \in ToolEvents, d \in Calls : E!SeenCall(ty, turn, d)' <=>
              E!SeenCall(ty, turn, d) \/ ("context_patch" = ty /\ patchAt = d)
    BY <1>1, <1>3, <2>2, ToolSends
  <2>4. ASSUME NEW c \in Calls PROVE ToolSeen(c)'
    BY <1>1, <2>3 DEF Promise, ToolsSeen, ToolSeen, ToolEvents
  <2>5. ToolsSeen'
    BY <1>1, <2>3, <2>4 DEF Promise, ToolsSeen
  <2> QED
    BY <2>3, <2>5 DEF Promise
<1> QED
  BY <1>1, <1>2, <1>3

(* The end of the stream. *)
LEMMA PromiseFinish ==
    ASSUME ControlOK, ChannelOK, Promise, Finish
    PROVE  Promise' /\ E!Next
<1>1. UNCHANGED <<turn, calls, partial, tool, patchAt>>
  BY DEF Finish, turnVars, toolVars
<1>2. PICK type \in {"turn_end", "error", "agent_end"}, n \in {-1, 0} :
        /\ Emit(type, 0, n)
        /\ \/ pc = "failure" /\ type = "turn_end" /\ n = -1 /\ pc' = "end"
           \/ pc = "error" /\ type = "error" /\ n = 0 /\ pc' = "close"
           \/ pc = "end" /\ type = "agent_end" /\ n = 0 /\ pc' = "close"
  BY Zenon DEF Finish
<1>3. E!Current(turn)
  BY CurrentTurn
<1>4. /\ type \in EventTypes /\ 0 \in 0..MaxCalls /\ n \in -1..MaxCalls /\ turn \in 0..MaxTurns
      /\ ~closed
  BY <1>2 DEF ControlOK, EventTypes, Promise, Shape
<1>5. E!May(E!Ev(type, turn, 0, n))
  <2>1. CASE pc \in {"failure", "error"}
    <3>1. E!Started /\ E!AllToolsEnded(turn)
      BY <2>1, Ready DEF Promise, TurnComplete, PcLabels
    <3>2. E!Ev(type, turn, 0, n) \in {E!Ev("turn_end", turn, 0, -1), E!Ev("error", turn, 0, 0)}
      BY <1>2, <2>1
    <3> QED
      BY <1>3, <1>4, <3>1, <3>2, Zenon DEF E!May
  <2>2. CASE pc = "end"
    <3>1. /\ sent # <<>> /\ ~E!Over
          /\ E!Failed \/ (turn > 0 /\ E!Complete(turn))
      BY <2>2 DEF Promise, Shape
    <3>2. E!Ev(type, turn, 0, n) = E!Ev("agent_end", turn, 0, 0)
      BY <1>2, <2>2
    <3> QED
      BY <1>3, <1>4, <3>1, <3>2, Zenon DEF E!May
  <2> QED
    BY <1>2, <2>1, <2>2
<1>6. /\ sent' # <<>> /\ closed' = closed /\ E!Next
      /\ \A ty, t : E!Seen(ty, t)' <=> E!Seen(ty, t) \/ (type = ty /\ turn = t)
      /\ E!Over' <=> type \in {"agent_end", "error"}
      /\ E!Failed' <=> n = -1
      /\ \A i \in 1..Len(sent') :
            \/ sent'[i].type = type /\ sent'[i].turn = turn /\ sent'[i].calls = n
            \/ \E j \in 1..Len(sent) : sent'[i] = sent[j]
  BY <1>1, <1>2, <1>4, <1>5, EmitSees
<1>7. Shape'
  BY <1>1, <1>2, <1>4, <1>6 DEF Promise, Shape
<1>8. TurnsSeen'
  <2>1. type # "turn_start"
    BY <1>2
  <2> QED
    BY <1>1, <1>4, <1>6, <2>1 DEF Promise, TurnsSeen
<1>9. MessageOpen' /\ TurnComplete' /\ ToolsSeen'
  BY <1>1, <1>2 DEF Promise, MessageOpen, TurnComplete, ToolsSeen, Receiving, AtWork
<1> QED
  BY <1>6, <1>7, <1>8, <1>9 DEF Promise

LEMMA PromiseClose ==
    ASSUME Promise, CloseChannel
    PROVE  Promise' /\ E!Next
<1>1. /\ pc = "close" /\ pc' = "done" /\ closed' = TRUE /\ sent' = sent
      /\ UNCHANGED <<turn, calls, partial, tool, patchAt>>
  BY DEF CloseChannel, turnVars, toolVars
<1>2. E!Close
  BY <1>1 DEF Promise, Shape, E!Close
<1>3. /\ E!Over' <=> E!Over
      /\ \A type, t : E!Seen(type, t)' <=> E!Seen(type, t)
  BY <1>1 DEF E!Over, E!Seen
<1>4. Shape' /\ TurnsSeen'
  BY <1>1, <1>3 DEF Promise, Shape, TurnsSeen
<1>5. MessageOpen' /\ TurnComplete' /\ ToolsSeen'
  BY <1>1 DEF Promise, MessageOpen, TurnComplete, ToolsSeen, Receiving, AtWork
<1> QED
  BY <1>2, <1>4, <1>5 DEF Promise, E!Next

LEMMA InitPromise == Init => Promise /\ E!Init
<1> SUFFICES ASSUME Init PROVE Promise /\ E!Init
  OBVIOUS
<1>1. /\ pc = "start" /\ sent = <<>> /\ closed = FALSE /\ turn = 0 /\ Len(sent) = 0
      /\ tool = [c \in Calls |-> "none"]
  BY DEF Init
<1>2. Shape /\ TurnsSeen
  BY <1>1 DEF Shape, TurnsSeen, E!Over, E!Failed, E!Seen
<1>3. MessageOpen /\ TurnComplete /\ ToolsSeen
  BY <1>1 DEF MessageOpen, TurnComplete, ToolsSeen, Receiving, AtWork
<1> QED
  BY <1>1, <1>2, <1>3 DEF Promise, E!Init

LEMMA PromiseStep ==
    ASSUME ControlOK, ChannelOK, Promise, [Next]_vars
    PROVE  Promise' /\ [E!Next]_<<sent, closed>>
<1>1. CASE \/ Outer \/ InnerTop \/ Prepare \/ ToolCallDelta \/ StreamError \/ Record
           \/ AppendResults \/ AfterTools \/ Returned \/ Fatal
  BY <1>1, PromiseQuiet
<1>2. CASE Start \/ TurnStart \/ TextDelta \/ PartialUpdate \/ StreamEnd
  BY <1>2, PromiseStart, PromiseTurnStart, PromiseMessage
<1>3. CASE TurnEnd \/ ApplyPatch \/ Finish \/ CloseChannel
  BY <1>3, PromiseTurnEnd, PromisePatch, PromiseFinish, PromiseClose
<1>4. ASSUME NEW c \in Calls, ToolStart(c) \/ ToolUpdate(c) \/ ToolEnd(c)
      PROVE  Promise' /\ E!Next
  BY <1>4, PromiseTool
<1>5. CASE Cancel \/ Steer \/ FollowUp \/ SyncTurn \/ Receive \/ UNCHANGED vars
  <2>1. UNCHANGED <<pc, turn, calls, partial, tool, patchAt, sent, closed>>
    BY <1>5 DEF Cancel, Steer, FollowUp, SyncTurn, Receive, turnVars, toolVars, chanVars, vars
  <2> QED
    BY <2>1, PromiseOutside
<1> QED
  BY <1>1, <1>2, <1>3, <1>4, <1>5, NextCases

(* The loop implements AgentEvents: whatever the model, the tools and the  *)
(* callers do, the events on its channel come in the order its readers are *)
(* written against, and the channel is closed only after the last of them  *)
(* (loop.go:25-33, 120-297, types.go:31-51).                               *)
THEOREM EventsAlwaysAsPromised == Spec => EventsAsPromised
<1>1. Init => ControlOK /\ ChannelOK /\ Promise /\ E!Init
  BY InitType, InitPromise DEF TypeOK
<1>2. ControlOK /\ ChannelOK /\ Promise /\ [Next]_vars
        => (ControlOK /\ ChannelOK /\ Promise)' /\ [E!Next]_<<sent, closed>>
  BY ControlStep, ChannelStep, PromiseStep
<1> QED
  BY <1>1, <1>2, PTL DEF Spec, EventsAsPromised, E!Spec

-----------------------------------------------------------------------------
(* Without an engine the conversation only grows: by messages that go to   *)
(* the session too, by one steering message taken from its queue, or by    *)
(* others.                                                                 *)
GrowsPersisted ==
    \E r \in Seq(Message) :
        /\ conv' = conv \o r /\ Persist(r)
        /\ \A i \in 1..Len(r) : Persisted(r[i])
        /\ UNCHANGED <<steerQ, steers>>

GrowsOther ==
    \E r \in Seq(Message) :
        /\ conv' = conv \o r /\ session' = session
        /\ \A i \in 1..Len(r) : r[i].kind \in {"patch", "failure"}
        /\ \/ UNCHANGED <<steerQ, steers>>
           \/ steerQ' = Append(steerQ, steers + 1) /\ steers' = steers + 1

GrowsSteered ==
    /\ steerQ # <<>> /\ session' = session
    /\ conv' = Append(conv, Msg("steer", turn, Head(steerQ)))
    /\ steerQ' = Tail(steerQ) /\ steers' = steers

LEMMA ConvGrows ==
    ASSUME CompactAt = 0, ControlOK, MessagesOK, Promise, [Next]_vars
    PROVE  GrowsPersisted \/ GrowsOther \/ GrowsSteered
<1>1. /\ conv \in Seq(Message) /\ turn \in 0..MaxTurns /\ calls \in Nat /\ patchAt \in Nat
      /\ steerQ \in Seq(1..MaxSteers)
  BY DEF MessagesOK, ControlOK
<1>2. ASSUME UNCHANGED <<conv, session>>,
             \/ UNCHANGED <<steerQ, steers>>
             \/ steerQ' = Append(steerQ, steers + 1) /\ steers' = steers + 1
      PROVE  GrowsOther
  <2>1. <<>> \in Seq(Message) /\ conv' = conv \o <<>> /\ Len(<<>>) = 0
    BY <1>1, <1>2, ConcatEmptySeq
  <2>2. \A i \in 1..Len(<<>>) : <<>>[i].kind \in {"patch", "failure"}
    BY <2>1
  <2> QED
    BY <1>2, <2>1, <2>2, Zenon DEF GrowsOther
<1>3. ASSUME NEW m \in Message, m.kind \in {"patch", "failure"},
             conv' = conv \/ conv' = Append(conv, m), session' = session,
             UNCHANGED <<steerQ, steers>>
      PROVE  GrowsOther
  <2>1. CASE conv' = conv
    BY <1>2, <1>3, <2>1
  <2>2. CASE conv' = Append(conv, m)
    <3>1. <<m>> \in Seq(Message) /\ conv' = conv \o <<m>> /\ Len(<<m>>) = 1 /\ <<m>>[1] = m
      BY <1>1, <2>2, AppendIsConcat
    <3>2. \A i \in 1..Len(<<m>>) : <<m>>[i].kind \in {"patch", "failure"}
      BY <1>3, <3>1
    <3> QED
      BY <1>3, <3>1, <3>2, Zenon DEF GrowsOther
  <2> QED
    BY <1>3, <2>1, <2>2
<1>4. CASE Record
  <2> DEFINE m == Msg("assistant", turn, calls)
  <2>1. /\ conv' = Append(conv, m) /\ Persist(<<m>>) /\ UNCHANGED <<steerQ, steers>>
        /\ pc = "record"
    BY <1>4, Zenon DEF Record, queueVars
  <2>2. m \in Message /\ Persisted(m)
    BY <1>1, <2>1, MsgType DEF Persisted, Msg, Kinds, Promise, MessageOpen, Receiving
  <2> HIDE DEF m
  <2>3. <<m>> \in Seq(Message) /\ conv' = conv \o <<m>> /\ Len(<<m>>) = 1 /\ <<m>>[1] = m
    BY <1>1, <2>1, <2>2, AppendIsConcat
  <2>4. \A i \in 1..Len(<<m>>) : Persisted(<<m>>[i])
    BY <2>2, <2>3
  <2> QED
    BY <2>1, <2>3, <2>4, Zenon DEF GrowsPersisted
<1>5. CASE AppendResults
  <2>1. /\ conv' = conv \o Results /\ Persist(Results) /\ UNCHANGED <<steerQ, steers>>
        /\ pc = "tools"
    BY <1>5, Zenon DEF AppendResults, queueVars
  <2>2. Results \in Seq(Message) /\ Len(Results) = calls /\ turn > 0
    BY <2>1, ResultsType DEF Promise, ToolsSeen
  <2>3. \A i \in 1..Len(Results) : Results[i].kind = "tool" /\ Results[i].turn = turn
    BY <2>2 DEF Results, Msg
  <2>4. \A i \in 1..Len(Results) : Persisted(Results[i])
    BY <2>2, <2>3 DEF Persisted
  <2> QED
    BY <2>1, <2>2, <2>4, Zenon DEF GrowsPersisted
<1>6. CASE ApplyPatch
  <2>1. /\ conv' = conv \/ conv' = Append(conv, Msg("patch", turn, patchAt))
        /\ UNCHANGED <<session, steerQ, steers>>
    BY <1>6, Zenon DEF ApplyPatch, queueVars
  <2>2. Msg("patch", turn, patchAt) \in Message /\ Msg("patch", turn, patchAt).kind = "patch"
    BY <1>1, MsgType DEF Kinds, Msg
  <2> QED
    BY <1>3, <2>1, <2>2
<1>7. CASE Fatal
  <2>1. /\ conv' = conv \/ conv' = Append(conv, Msg("failure", turn, 0))
        /\ UNCHANGED <<session, steerQ, steers>>
    BY <1>7, Zenon DEF Fatal, queueVars
  <2>2. Msg("failure", turn, 0) \in Message /\ Msg("failure", turn, 0).kind = "failure"
    BY <1>1, MsgType DEF Kinds, Msg
  <2> QED
    BY <1>3, <2>1, <2>2
<1>8. CASE AfterTools
  <2>1. /\ conv' = conv \o [i \in 1..Len(Drained(steerQ)) |->
                              Msg("steer", turn, Drained(steerQ)[i])]
        /\ steerQ' = Rest(steerQ) /\ UNCHANGED <<session, steers>>
    BY <1>8 DEF AfterTools
  <2>2. CASE steerQ = <<>>
    <3>1. Drained(steerQ) = <<>> /\ Rest(steerQ) = <<>>
      BY <2>2 DEF Drained, Rest
    <3>2. [i \in 1..Len(Drained(steerQ)) |-> Msg("steer", turn, Drained(steerQ)[i])] = <<>>
      BY <3>1
    <3>3. conv' = conv /\ steerQ' = steerQ
      BY <1>1, <2>1, <2>2, <3>1, <3>2, ConcatEmptySeq
    <3> QED
      BY <1>2, <2>1, <3>3
  <2>3. CASE steerQ # <<>>
    <3> DEFINE m == Msg("steer", turn, Head(steerQ))
    <3>1. Head(steerQ) \in Nat
      BY <1>1, <2>3, HeadTailProperties
    <3>2. m \in Message
      BY <1>1, <3>1, MsgType DEF Kinds
    <3>3. Drained(steerQ) = <<Head(steerQ)>> /\ Rest(steerQ) = Tail(steerQ)
      BY <2>3 DEF Drained, Rest
    <3>4. [i \in 1..Len(Drained(steerQ)) |-> Msg("steer", turn, Drained(steerQ)[i])] = <<m>>
      BY <3>3
    <3> HIDE DEF m
    <3>5. conv' = Append(conv, m)
      BY <1>1, <2>1, <3>2, <3>4, AppendIsConcat
    <3> QED
      BY <2>1, <2>3, <3>3, <3>5 DEF GrowsSteered, m
  <2> QED
    BY <2>2, <2>3
<1>9. CASE Steer
  BY <1>2, <1>9 DEF Steer
<1>10. CASE Prepare
  BY <1>2, <1>10 DEF Prepare, queueVars
<1>11. CASE UNCHANGED <<conv, session, queueVars, syncing>>
  BY <1>2, <1>11 DEF queueVars
<1>12. CASE FollowUp \/ SyncTurn
  BY <1>2, <1>12 DEF FollowUp, SyncTurn, queueVars
<1> QED
  BY <1>4, <1>5, <1>6, <1>7, <1>8, <1>9, <1>10, <1>11, <1>12, MessagesFrame

LEMMA GrownElements ==
    ASSUME NEW s \in Seq(Message), NEW r \in Seq(Message), NEW t, t = s \o r
    PROVE  /\ Len(s) \in Nat /\ Len(r) \in Nat /\ Len(t) = Len(s) + Len(r)
           /\ \A i \in 1..Len(s) : i \in 1..Len(t) /\ t[i] = s[i]
           /\ \A i \in 1..Len(r) : Len(s) + i \in 1..Len(t) /\ t[Len(s) + i] = r[i]
           /\ \A i \in 1..Len(t) : i \in 1..Len(s) \/ i - Len(s) \in 1..Len(r)
<1>1. /\ Len(s) \in Nat /\ Len(r) \in Nat /\ Len(t) = Len(s) + Len(r)
      /\ \A i \in 1..Len(s) + Len(r) : t[i] = IF i <= Len(s) THEN s[i] ELSE r[i - Len(s)]
  BY LenProperties, ConcatProperties
<1>2. ASSUME NEW i \in 1..Len(r) PROVE Len(s) + i \in 1..Len(t) /\ t[Len(s) + i] = r[i]
  <2>1. Len(s) + i \in 1..Len(s) + Len(r) /\ ~(Len(s) + i <= Len(s)) /\ Len(s) + i - Len(s) = i
    BY <1>1
  <2> QED
    BY <1>1, <2>1
<1>3. ASSUME NEW i \in 1..Len(s) PROVE i \in 1..Len(t) /\ t[i] = s[i]
  <2>1. i \in 1..Len(s) + Len(r) /\ i <= Len(s)
    BY <1>1
  <2> QED
    BY <1>1, <2>1
<1> QED
  BY <1>1, <1>2, <1>3

(* Where the steering messages of a sequence stand. *)
SteersAt(s) == {i \in 1..Len(s) : s[i].kind = "steer"}

SteeringHeld ==
    /\ steers \in Nat /\ Len(steerQ) <= steers
    /\ {conv[i].n : i \in SteersAt(conv)} = 1..(steers - Len(steerQ))
    /\ \A i, j \in SteersAt(conv) : i < j => conv[i].n < conv[j].n
    /\ \A i \in 1..Len(steerQ) : steerQ[i] = steers - Len(steerQ) + i

LEMMA SteeringStep ==
    ASSUME CompactAt = 0, ControlOK, MessagesOK, Promise, SteeringHeld, [Next]_vars
    PROVE  SteeringHeld'
<1>1. /\ conv \in Seq(Message) /\ steerQ \in Seq(1..MaxSteers) /\ Len(steerQ) \in Nat
      /\ Len(conv) \in Nat /\ steers \in Nat /\ turn \in 0..MaxTurns
  BY LenProperties DEF MessagesOK, ControlOK
<1>2. \A i \in SteersAt(conv) : conv[i].n \in Nat
  BY <1>1, MessageFields, ElementOfSeq DEF SteersAt
<1>3. ASSUME NEW r \in Seq(Message), conv' = conv \o r, \A i \in 1..Len(r) : r[i].kind # "steer",
             \/ UNCHANGED <<steerQ, steers>>
             \/ steerQ' = Append(steerQ, steers + 1) /\ steers' = steers + 1
      PROVE  SteeringHeld'
  <2>1. SteersAt(conv)' = SteersAt(conv) /\ \A i \in SteersAt(conv) : conv'[i] = conv[i]
    BY <1>1, <1>3, GrownElements DEF SteersAt
  <2>2. /\ {conv[i].n : i \in SteersAt(conv)}' = {conv[i].n : i \in SteersAt(conv)}
        /\ (\A i, j \in SteersAt(conv) : i < j => conv[i].n < conv[j].n)'
    BY <2>1 DEF SteeringHeld
  <2>3. CASE UNCHANGED <<steerQ, steers>>
    BY <2>2, <2>3 DEF SteeringHeld
  <2>4. CASE steerQ' = Append(steerQ, steers + 1) /\ steers' = steers + 1
    <3>1. /\ Len(steerQ') = Len(steerQ) + 1 /\ steerQ'[Len(steerQ) + 1] = steers + 1
          /\ \A i \in 1..Len(steerQ) : steerQ'[i] = steerQ[i]
      BY <1>1, <2>4
    <3>2. steers' - Len(steerQ') = steers - Len(steerQ)
      BY <1>1, <2>4, <3>1
    <3>3. ASSUME NEW i \in 1..Len(steerQ') PROVE steerQ'[i] = steers' - Len(steerQ') + i
      <4>1. CASE i = Len(steerQ) + 1
        BY <1>1, <3>1, <3>2, <4>1
      <4>2. CASE i \in 1..Len(steerQ)
        BY <3>1, <3>2, <4>2 DEF SteeringHeld
      <4> QED
        BY <1>1, <3>1, <4>1, <4>2
    <3>4. steers' \in Nat /\ Len(steerQ') <= steers'
      BY <1>1, <2>4, <3>1 DEF SteeringHeld
    <3>5. {conv[i].n : i \in SteersAt(conv)}' = 1..(steers' - Len(steerQ'))
      BY <2>2, <3>2 DEF SteeringHeld
    <3> QED
      BY <2>2, <3>3, <3>4, <3>5 DEF SteeringHeld
  <2> QED
    BY <1>3, <2>3, <2>4
<1>4. CASE GrowsPersisted
  <2>1. PICK r \in Seq(Message) :
          /\ conv' = conv \o r /\ \A i \in 1..Len(r) : Persisted(r[i])
          /\ UNCHANGED <<steerQ, steers>>
    BY <1>4, Zenon DEF GrowsPersisted
  <2>2. \A i \in 1..Len(r) : r[i].kind # "steer"
    BY <2>1 DEF Persisted
  <2> QED
    BY <1>3, <2>1, <2>2
<1>5. CASE GrowsOther
  <2>1. PICK r \in Seq(Message) :
          /\ conv' = conv \o r /\ \A i \in 1..Len(r) : r[i].kind \in {"patch", "failure"}
          /\ \/ UNCHANGED <<steerQ, steers>>
             \/ steerQ' = Append(steerQ, steers + 1) /\ steers' = steers + 1
    BY <1>5, Zenon DEF GrowsOther
  <2>2. \A i \in 1..Len(r) : r[i].kind # "steer"
    BY <2>1
  <2> QED
    BY <1>3, <2>1, <2>2
<1>6. CASE GrowsSteered
  <2> DEFINE m == Msg("steer", turn, Head(steerQ))
             drained == steers - Len(steerQ)
  <2>1. /\ steerQ # <<>> /\ steers' = steers /\ steerQ' = Tail(steerQ)
        /\ conv' = Append(conv, m)
    BY <1>6 DEF GrowsSteered
  <2>2. /\ Len(steerQ) > 0 /\ Head(steerQ) = steerQ[1] /\ Len(steerQ') = Len(steerQ) - 1
        /\ \A i \in 1..Len(steerQ') : steerQ'[i] = steerQ[i + 1]
    BY <1>1, <2>1, HeadTailProperties, EmptySeq
  <2>3. m.kind = "steer" /\ m.n = drained + 1 /\ drained \in Nat
    BY <1>1, <2>2 DEF Msg, SteeringHeld
  <2>4. m \in Message
    BY <1>1, <2>1, <2>2, <2>3, MsgType DEF Kinds, Msg
  <2> HIDE DEF m
  <2>5. /\ Len(conv') = Len(conv) + 1 /\ conv'[Len(conv) + 1] = m
        /\ \A i \in 1..Len(conv) : conv'[i] = conv[i]
    BY <1>1, <2>1, <2>4, AppendProperties
  <2>6. steers' - Len(steerQ') = drained + 1
    BY <1>1, <2>1, <2>2
  <2>7. /\ \A i \in SteersAt(conv)' : i \in SteersAt(conv) \/ i = Len(conv) + 1
        /\ \A i \in SteersAt(conv) : i \in SteersAt(conv)' /\ conv'[i] = conv[i] /\ i < Len(conv) + 1
        /\ Len(conv) + 1 \in SteersAt(conv)'
    BY <1>1, <2>3, <2>5 DEF SteersAt
  <2>8. \A i \in SteersAt(conv) : conv[i].n \in 1..drained
    BY DEF SteeringHeld
  <2>9. \A n \in 1..drained : \E i \in SteersAt(conv) : n = conv[i].n
    BY DEF SteeringHeld
  <2>10. {conv[i].n : i \in SteersAt(conv)}' = 1..(drained + 1)
    <3>1. ASSUME NEW i \in SteersAt(conv)' PROVE conv'[i].n \in 1..(drained + 1)
      BY <2>3, <2>5, <2>7, <2>8
    <3>2. ASSUME NEW n \in 1..(drained + 1) PROVE \E i \in SteersAt(conv)' : n = conv'[i].n
      <4>1. CASE n = drained + 1
        BY <2>3, <2>5, <2>7, <4>1
      <4>2. CASE n \in 1..drained
        BY <2>7, <2>9, <4>2
      <4> QED
        BY <2>3, <4>1, <4>2
    <3> QED
      BY <3>1, <3>2
  <2>11. ASSUME NEW i \in SteersAt(conv)', NEW j \in SteersAt(conv)', i < j
         PROVE  conv'[i].n < conv'[j].n
    <3>1. i \in SteersAt(conv) /\ conv'[i] = conv[i]
      BY <1>1, <2>7, <2>11 DEF SteersAt
    <3>2. CASE j \in SteersAt(conv)
      BY <2>7, <2>11, <3>1, <3>2 DEF SteeringHeld
    <3>3. CASE j = Len(conv) + 1
      <4>1. conv[i].n \in 1..drained
        BY <2>8, <3>1
      <4>2. conv'[j] = m
        BY <2>5, <3>3
      <4> HIDE DEF drained
      <4> QED
        BY <2>3, <3>1, <4>1, <4>2
    <3> QED
      BY <2>7, <3>2, <3>3
  <2>12. ASSUME NEW i \in 1..Len(steerQ') PROVE steerQ'[i] = steers' - Len(steerQ') + i
    <3>1. i + 1 \in 1..Len(steerQ) /\ steerQ'[i] = steerQ[i + 1]
      BY <1>1, <2>2
    <3>2. steerQ[i + 1] = drained + (i + 1)
      BY <3>1 DEF SteeringHeld
    <3> QED
      BY <2>3, <2>6, <3>1, <3>2
  <2>13. steers' \in Nat /\ Len(steerQ') <= steers'
    BY <1>1, <2>1, <2>2 DEF SteeringHeld
  <2> QED
    BY <2>6, <2>10, <2>11, <2>12, <2>13 DEF SteeringHeld
<1> QED
  BY <1>4, <1>5, <1>6, ConvGrows

LEMMA PromiseInvariant ==
    ASSUME TypeOK, Promise, [Next]_vars
    PROVE  TypeOK' /\ Promise'
  BY ControlStep, BudgetStep, MessagesStep, ChannelStep, PromiseStep DEF TypeOK

(* Steering messages enter the conversation in the order they were given,  *)
(* each once, and those not yet there wait in the queue, for any number of *)
(* them, when no engine compacts the conversation and the history is from  *)
(* before the run (agent.go:135-144, types.go:367-379, loop.go:271-276).   *)
THEOREM SteeringInOrderAlways ==
    ASSUME CompactAt = 0,
           \A h \in Histories : \A i \in 1..Len(h) : h[i].kind # "steer"
    PROVE  Spec => []SteeringInOrder
<1>1. Init => TypeOK /\ Promise /\ SteeringHeld
  <2> SUFFICES ASSUME Init PROVE TypeOK /\ Promise /\ SteeringHeld
    OBVIOUS
  <2>1. conv \in Histories /\ steerQ = <<>> /\ steers = 0 /\ Len(steerQ) = 0
    BY DEF Init
  <2>2. SteersAt(conv) = {}
    BY <2>1 DEF SteersAt
  <2>3. SteeringHeld
    BY <2>1, <2>2 DEF SteeringHeld
  <2> QED
    BY <2>3, InitType, InitPromise
<1>2. TypeOK /\ Promise /\ SteeringHeld /\ [Next]_vars => (TypeOK /\ Promise /\ SteeringHeld)'
  BY PromiseInvariant, SteeringStep DEF TypeOK
<1>3. SteeringHeld => SteeringInOrder
  BY DEF SteeringHeld, SteeringInOrder, SteersAt
<1> QED
  BY <1>1, <1>2, <1>3, PTL DEF Spec

-----------------------------------------------------------------------------
(* What reaches the session: some of the entries, in their order. *)
LEMMA PersistAppends ==
    ASSUME session \in Seq(Message), NEW entries \in Seq(Message), Persist(entries)
    PROVE  \E kept :
             /\ Len(session) \in Nat /\ Len(session') \in Nat
             /\ \A k \in 1..Len(session) : k \in 1..Len(session') /\ session'[k] = session[k]
             /\ \A k \in 1..Len(session') : k > Len(session) =>
                  /\ kept[k - Len(session)] \in 1..Len(entries)
                  /\ session'[k] = entries[kept[k - Len(session)]]
             /\ \A k, l \in 1..Len(session') : k > Len(session) /\ k < l =>
                  kept[k - Len(session)] < kept[l - Len(session)]
             /\ Session = "reliable" =>
                  /\ Len(session') = Len(session) + Len(entries)
                  /\ \A k \in 1..Len(entries) : kept[k] = k
<1>1. PICK kept \in Increasing(Len(entries)) :
         /\ Session = "reliable" => kept = [i \in 1..Len(entries) |-> i]
         /\ session' = session \o [i \in 1..Len(kept) |-> entries[kept[i]]]
  BY DEF Persist
<1>2. PICK m \in 0..Len(entries) : kept \in [1..m -> 1..Len(entries)]
  BY DEF Increasing
<1>3. \A i, j \in 1..m : i < j => kept[i] < kept[j]
  BY <1>1, <1>2 DEF Increasing
<1>4. m \in Nat /\ kept \in Seq(1..Len(entries)) /\ Len(kept) = m
  BY <1>2, LenProperties, IsASeq
<1>5. \A i \in 1..Len(kept) : entries[kept[i]] \in Message
  BY <1>2, <1>4, ElementOfSeq
<1>6. PICK r \in Seq(Message) :
         session' = session \o r /\ Len(r) = m /\ \A i \in 1..m : r[i] = entries[kept[i]]
  <2> DEFINE r == [i \in 1..Len(kept) |-> entries[kept[i]]]
  <2>3. r = [i \in 1..m |-> entries[kept[i]]]
    BY <1>4
  <2>4. \A i \in 1..m : entries[kept[i]] \in Message
    BY <1>4, <1>5
  <2>5. \A i \in 1..m : r[i] = entries[kept[i]] /\ r[i] \in Message
    BY <2>3, <2>4
  <2>6. DOMAIN r = 1..m /\ r = [i \in 1..m |-> r[i]]
    BY <2>3
  <2>7. r \in [1..m -> Message]
    <3> HIDE DEF r
    <3> QED
      BY <2>5, <2>6
  <2>8. r \in Seq(Message)
    <3> HIDE DEF r
    <3> QED
      BY <1>4, <2>7, IsASeq
  <2>9. Len(r) = m
    <3> HIDE DEF r
    <3> QED
      BY <1>4, <2>6, <2>8, LenProperties
  <2>1. r \in Seq(Message) /\ Len(r) = m /\ \A i \in 1..m : r[i] = entries[kept[i]]
    BY <2>5, <2>8, <2>9
  <2>2. session' = session \o r
    BY <1>1
  <2> HIDE DEF r
  <2> QED
    BY <2>1, <2>2
<1>7. /\ Len(session) \in Nat /\ Len(session') = Len(session) + m
      /\ \A i \in 1..Len(session) : i \in 1..Len(session') /\ session'[i] = session[i]
      /\ \A i \in 1..m : session'[Len(session) + i] = r[i]
  <2>1. session' = session \o r
    BY <1>6
  <2>2. /\ Len(session) \in Nat /\ Len(r) \in Nat /\ Len(session') = Len(session) + Len(r)
        /\ \A i \in 1..Len(session) : i \in 1..Len(session') /\ session'[i] = session[i]
        /\ \A i \in 1..Len(r) :
              Len(session) + i \in 1..Len(session') /\ session'[Len(session) + i] = r[i]
    BY <2>1, GrownElements
  <2> QED
    BY <1>6, <2>2
<1>8. ASSUME NEW k \in 1..Len(session'), k > Len(session)
      PROVE  /\ k - Len(session) \in 1..m
             /\ kept[k - Len(session)] \in 1..Len(entries)
             /\ session'[k] = entries[kept[k - Len(session)]]
  <2>1. k - Len(session) \in 1..m /\ Len(session) + (k - Len(session)) = k
    BY <1>4, <1>7, <1>8
  <2>2. session'[k] = r[k - Len(session)]
    BY <1>7, <2>1
  <2> QED
    BY <1>2, <1>6, <2>1, <2>2
<1>9. ASSUME NEW k \in 1..Len(session'), NEW l \in 1..Len(session'), k > Len(session), k < l
      PROVE  kept[k - Len(session)] < kept[l - Len(session)]
  <2>1. /\ k - Len(session) \in 1..m /\ l - Len(session) \in 1..m
        /\ k - Len(session) < l - Len(session)
    BY <1>7, <1>8, <1>9
  <2> QED
    BY <1>3, <2>1
<1>10. ASSUME Session = "reliable"
       PROVE  /\ Len(session') = Len(session) + Len(entries)
              /\ \A k \in 1..Len(entries) : kept[k] = k
  <2>1. kept = [i \in 1..Len(entries) |-> i] /\ Len(entries) \in Nat
    BY <1>1, <1>10, LenProperties
  <2>2. Len(kept) = Len(entries)
    BY <2>1
  <2> QED
    BY <1>4, <1>7, <2>1, <2>2
<1>11. Len(session') \in Nat
  BY <1>4, <1>7
<1>12. /\ \A k \in 1..Len(session') : k > Len(session) =>
            /\ kept[k - Len(session)] \in 1..Len(entries)
            /\ session'[k] = entries[kept[k - Len(session)]]
       /\ \A k, l \in 1..Len(session') : k > Len(session) /\ k < l =>
            kept[k - Len(session)] < kept[l - Len(session)]
       /\ Session = "reliable" =>
            /\ Len(session') = Len(session) + Len(entries)
            /\ \A k \in 1..Len(entries) : kept[k] = k
  BY <1>8, <1>9, <1>10
<1> QED
  BY <1>7, <1>11, <1>12, Zenon

(* A step that adds to the conversation nothing the session is to hold. *)
LEMMA ReplaysOther ==
    ASSUME conv \in Seq(Message), NEW r \in Seq(Message), conv' = conv \o r,
           session' = session, SessionReplays, \A i \in 1..Len(r) : ~Persisted(r[i])
    PROVE  SessionReplays'
<1>1. /\ \A i \in 1..Len(conv) : i \in 1..Len(conv') /\ conv'[i] = conv[i]
      /\ \A i \in 1..Len(conv') : Persisted(conv'[i]) => i \in 1..Len(conv)
  <2>1. /\ Len(conv) \in Nat /\ Len(r) \in Nat /\ Len(conv') = Len(conv) + Len(r)
        /\ \A i \in 1..Len(conv) : i \in 1..Len(conv') /\ conv'[i] = conv[i]
        /\ \A i \in 1..Len(r) : Len(conv) + i \in 1..Len(conv') /\ conv'[Len(conv) + i] = r[i]
    BY GrownElements
  <2>2. ASSUME NEW i \in 1..Len(conv'), i \notin 1..Len(conv) PROVE ~Persisted(conv'[i])
    <3>1. i - Len(conv) \in 1..Len(r) /\ Len(conv) + (i - Len(conv)) = i
      BY <2>1, <2>2
    <3> QED
      BY <2>1, <3>1
  <2> QED
    BY <2>1, <2>2
<1>2. ASSUME NEW k \in 1..Len(session)
      PROVE  Persisted(session[k]) /\ \E i \in 1..Len(conv') : session[k] = conv'[i]
  BY <1>1 DEF SessionReplays
<1>3. ASSUME NEW k \in 1..Len(session), NEW l \in 1..Len(session), k < l
      PROVE  \E i, j \in 1..Len(conv') : i < j /\ session[k] = conv'[i] /\ session[l] = conv'[j]
  <2>1. PICK i \in 1..Len(conv), j \in 1..Len(conv) :
          i < j /\ session[k] = conv[i] /\ session[l] = conv[j]
    BY <1>3, Zenon DEF SessionReplays
  <2> QED
    BY <1>1, <2>1
<1>4. ASSUME Session = "reliable", NEW i \in 1..Len(conv'), Persisted(conv'[i])
      PROVE  \E k \in 1..Len(session) : session[k] = conv'[i]
  BY <1>1, <1>4 DEF SessionReplays
<1> QED
  BY <1>2, <1>3, <1>4, session' = session DEF SessionReplays

LEMMA ReplaysStep ==
    ASSUME CompactAt = 0, ControlOK, MessagesOK, Promise, SessionReplays, [Next]_vars
    PROVE  SessionReplays'
<1>1. conv \in Seq(Message) /\ session \in Seq(Message)
  BY DEF MessagesOK
<1>2. CASE GrowsPersisted
  <2>1. PICK r \in Seq(Message) :
          conv' = conv \o r /\ Persist(r) /\ \A i \in 1..Len(r) : Persisted(r[i])
    BY <1>2, Zenon DEF GrowsPersisted
  <2>2. /\ Len(conv) \in Nat /\ Len(r) \in Nat /\ Len(conv') = Len(conv) + Len(r)
        /\ \A i \in 1..Len(conv) : i \in 1..Len(conv') /\ conv'[i] = conv[i]
        /\ \A i \in 1..Len(r) : Len(conv) + i \in 1..Len(conv') /\ conv'[Len(conv) + i] = r[i]
    BY <1>1, <2>1, GrownElements
  <2> DEFINE n == Len(session)
  <2>3. PICK kept :
          /\ n \in Nat /\ Len(session') \in Nat
          /\ \A k \in 1..n : k \in 1..Len(session') /\ session'[k] = session[k]
          /\ \A k \in 1..Len(session') : k > n =>
                kept[k - n] \in 1..Len(r) /\ session'[k] = r[kept[k - n]]
          /\ \A k, l \in 1..Len(session') : k > n /\ k < l => kept[k - n] < kept[l - n]
          /\ Session = "reliable" =>
                Len(session') = n + Len(r) /\ \A k \in 1..Len(r) : kept[k] = k
    BY <1>1, <2>1, PersistAppends
  <2> HIDE DEF n
  <2>4. ASSUME NEW k \in 1..Len(session'), k > n
        PROVE  /\ kept[k - n] \in 1..Len(r) /\ session'[k] = r[kept[k - n]]
               /\ Len(conv) + kept[k - n] \in 1..Len(conv')
               /\ session'[k] = conv'[Len(conv) + kept[k - n]]
    BY <2>2, <2>3, <2>4
  <2>5. ASSUME NEW k \in 1..Len(session')
        PROVE  Persisted(session'[k]) /\ \E i \in 1..Len(conv') : session'[k] = conv'[i]
    <3>1. CASE k > n
      BY <2>1, <2>4, <3>1
    <3>2. CASE k \in 1..n
      <4>1. Persisted(session[k]) /\ \E i \in 1..Len(conv) : session[k] = conv[i]
        BY <3>2 DEF SessionReplays, n
      <4> QED
        BY <2>2, <2>3, <3>2, <4>1
    <3> QED
      BY <2>3, <3>1, <3>2
  <2>6. ASSUME NEW k \in 1..Len(session'), NEW l \in 1..Len(session'), k < l
        PROVE  \E i, j \in 1..Len(conv') :
                  i < j /\ session'[k] = conv'[i] /\ session'[l] = conv'[j]
    <3>1. CASE l \in 1..n
      <4>1. k \in 1..n
        BY <2>3, <2>6, <3>1
      <4>2. PICK i \in 1..Len(conv), j \in 1..Len(conv) :
              i < j /\ session[k] = conv[i] /\ session[l] = conv[j]
        BY <2>6, <3>1, <4>1, Zenon DEF SessionReplays, n
      <4> QED
        BY <2>2, <2>3, <3>1, <4>1, <4>2
    <3>2. CASE k \in 1..n /\ l > n
      <4>1. PICK i \in 1..Len(conv) : session[k] = conv[i]
        BY <3>2 DEF SessionReplays, n
      <4>2. i < Len(conv) + kept[l - n]
        BY <2>2, <2>4, <3>2
      <4>3. session'[k] = conv'[i] /\ i \in 1..Len(conv')
        BY <2>2, <2>3, <3>2, <4>1
      <4> QED
        BY <2>4, <3>2, <4>2, <4>3
    <3>3. CASE k > n
      <4>1. l > n
        BY <2>3, <2>6, <3>3
      <4>2. Len(conv) + kept[k - n] < Len(conv) + kept[l - n]
        BY <2>2, <2>3, <2>4, <2>6, <3>3, <4>1
      <4> QED
        BY <2>4, <3>3, <4>1, <4>2
    <3> QED
      BY <2>3, <3>1, <3>2, <3>3
  <2>7. ASSUME Session = "reliable", NEW i \in 1..Len(conv'), Persisted(conv'[i])
        PROVE  \E k \in 1..Len(session') : session'[k] = conv'[i]
    <3>1. CASE i \in 1..Len(conv)
      <4>1. PICK k \in 1..n : session[k] = conv[i]
        BY <2>2, <2>7, <3>1 DEF SessionReplays, n
      <4> QED
        BY <2>2, <2>3, <3>1, <4>1
    <3>2. CASE i \notin 1..Len(conv)
      <4>1. i - Len(conv) \in 1..Len(r)
        BY <2>2, <3>2
      <4> DEFINE k == n + (i - Len(conv))
      <4>2. k \in 1..Len(session') /\ k > n /\ k - n = i - Len(conv)
        BY <2>2, <2>3, <2>7, <4>1
      <4> HIDE DEF k
      <4>3. kept[k - n] = i - Len(conv)
        BY <2>3, <2>7, <4>1, <4>2
      <4>4. session'[k] = conv'[Len(conv) + kept[k - n]]
        BY <2>4, <4>2
      <4>5. Len(conv) + (i - Len(conv)) = i
        BY <2>2
      <4> QED
        BY <4>2, <4>3, <4>4, <4>5
    <3> QED
      BY <3>1, <3>2
  <2> QED
    BY <2>5, <2>6, <2>7 DEF SessionReplays
<1>3. CASE GrowsOther
  <2>1. PICK r \in Seq(Message) :
          /\ conv' = conv \o r /\ session' = session
          /\ \A i \in 1..Len(r) : r[i].kind \in {"patch", "failure"}
    BY <1>3, Zenon DEF GrowsOther
  <2>2. \A i \in 1..Len(r) : ~Persisted(r[i])
    BY <2>1 DEF Persisted
  <2> QED
    BY <1>1, <2>1, <2>2, ReplaysOther
<1>4. CASE GrowsSteered
  <2> DEFINE m == Msg("steer", turn, Head(steerQ))
  <2>1. conv' = Append(conv, m) /\ session' = session /\ steerQ # <<>>
    BY <1>4 DEF GrowsSteered
  <2>2. Head(steerQ) \in Nat
    BY <2>1, HeadTailProperties DEF MessagesOK
  <2>3. m \in Message /\ ~Persisted(m)
    BY <2>2, MsgType DEF Kinds, Msg, Persisted, ControlOK
  <2> HIDE DEF m
  <2>4. <<m>> \in Seq(Message) /\ conv' = conv \o <<m>> /\ Len(<<m>>) = 1 /\ <<m>>[1] = m
    BY <1>1, <2>1, <2>3, AppendIsConcat
  <2>5. \A i \in 1..Len(<<m>>) : ~Persisted(<<m>>[i])
    BY <2>3, <2>4
  <2> QED
    BY <1>1, <2>1, <2>4, <2>5, ReplaysOther
<1> QED
  BY <1>2, <1>3, <1>4, ConvGrows

(* The session replays the run, for any number of turns and calls and any  *)
(* failures of AppendEntry: what it holds stands in the conversation in    *)
(* the same order, and a reliable one lacks nothing of the run             *)
(* (loop.go:200-205, 236-245).  Messages of the history have turn 0.       *)
THEOREM SessionReplaysAlways ==
    ASSUME CompactAt = 0,
           \A h \in Histories : \A i \in 1..Len(h) : h[i].turn = 0
    PROVE  Spec => []SessionReplays
<1>1. Init => TypeOK /\ Promise /\ SessionReplays
  <2> SUFFICES ASSUME Init PROVE TypeOK /\ Promise /\ SessionReplays
    OBVIOUS
  <2>1. conv \in Histories /\ session = <<>> /\ Len(session) = 0
    BY DEF Init
  <2>2. \A i \in 1..Len(conv) : ~Persisted(conv[i])
    BY <2>1 DEF Persisted
  <2>3. SessionReplays
    BY <2>1, <2>2 DEF SessionReplays
  <2> QED
    BY <2>3, InitType, InitPromise
<1>2. TypeOK /\ Promise /\ SessionReplays /\ [Next]_vars => (TypeOK /\ Promise /\ SessionReplays)'
  BY PromiseInvariant, ReplaysStep DEF TypeOK
<1> QED
  BY <1>1, <1>2, PTL DEF Spec

-----------------------------------------------------------------------------
(* With an engine the conversation may lose anything, the session nothing. *)
LEMMA PersistReliable ==
    ASSUME Session = "reliable", session \in Seq(Message), NEW entries \in Seq(Message),
           Persist(entries)
    PROVE  session' = session \o entries
<1>1. PICK kept \in Increasing(Len(entries)) :
         /\ kept = [i \in 1..Len(entries) |-> i]
         /\ session' = session \o [i \in 1..Len(kept) |-> entries[kept[i]]]
  BY DEF Persist
<1>2. Len(entries) \in Nat /\ Len(kept) = Len(entries)
  BY <1>1, LenProperties
<1>3. [i \in 1..Len(kept) |-> entries[kept[i]]] = entries
  BY <1>1, <1>2
<1> QED
  BY <1>1, <1>3

(* Every step but TurnEnd leaves the news of turns as they are. *)
LEMMA OtherSends ==
    ASSUME ControlOK, ChannelOK, [Next]_vars, ~TurnEnd
    PROVE  /\ \A i \in 1..Len(sent) : i \in 1..Len(sent') /\ sent'[i] = sent[i]
           /\ \A i \in 1..Len(sent') : i \notin 1..Len(sent) =>
                sent'[i].type # "turn_end" \/ sent'[i].calls = -1
<1> DEFINE News == \E e \in Event : sent' = Append(sent, e) /\ (e.type # "turn_end" \/ e.calls = -1)
<1>1. ASSUME NEW type \in EventTypes, NEW c \in 0..MaxCalls, NEW n \in -1..MaxCalls,
             Emit(type, c, n), type # "turn_end" \/ n = -1
      PROVE  News
  <2>1. /\ Ev(type, c, n) \in Event
        /\ Ev(type, c, n).type # "turn_end" \/ Ev(type, c, n).calls = -1
    BY <1>1 DEF Ev, Event, ControlOK
  <2> QED
    BY <1>1, <2>1, Zenon DEF Emit
<1>2. /\ 0 \in 0..MaxCalls /\ 0 \in -1..MaxCalls /\ -1 \in -1..MaxCalls
      /\ patchAt <= calls => patchAt \in 0..MaxCalls
      /\ \A c \in Calls : c \in 0..MaxCalls
  BY DEF ControlOK
<1>3. CASE Outer \/ InnerTop \/ Prepare \/ ToolCallDelta \/ StreamError \/ Record
  BY <1>3 DEF Outer, InnerTop, Prepare, ToolCallDelta, StreamError, Record, chanVars
<1>4. CASE AppendResults \/ AfterTools \/ Returned \/ Fatal \/ CloseChannel
  BY <1>4 DEF AppendResults, AfterTools, Returned, Fatal, CloseChannel, chanVars
<1>5. CASE Cancel \/ Steer \/ FollowUp \/ SyncTurn \/ Receive \/ UNCHANGED vars
  BY <1>5 DEF Cancel, Steer, FollowUp, SyncTurn, Receive, chanVars, vars
<1>6. CASE Start
  <2>1. Emit("agent_start", 0, 0) /\ "agent_start" \in EventTypes
    BY <1>6, Zenon DEF Start, EventTypes
  <2> QED
    BY <1>1, <1>2, <2>1
<1>7. CASE TurnStart
  <2> DEFINE e == E!Ev("turn_start", turn + 1, 0, 0)
  <2>1. [Ev("turn_start", 0, 0) EXCEPT !.turn = turn + 1] = e
    BY DEF Ev, E!Ev
  <2>2. sent' = Append(sent, e)
    BY <1>7, <2>1, Zenon DEF TurnStart
  <2>3. turn + 1 \in 0..MaxTurns
    BY <1>7 DEF TurnStart, ControlOK
  <2>4. e \in Event /\ e.type # "turn_end"
    BY <2>3 DEF E!Ev, Event, EventTypes
  <2> HIDE DEF e
  <2>5. News
    BY <2>2, <2>4
  <2> QED
    BY <2>5
<1>8. CASE TextDelta \/ PartialUpdate \/ StreamEnd
  <2>1. \/ UNCHANGED sent
        \/ \E type \in {"delta", "message_update", "message_start", "message_end"} : Emit(type, 0, 0)
    <3>1. (IF partial THEN "message_update" ELSE "message_start")
            \in {"delta", "message_update", "message_start", "message_end"}
      OBVIOUS
    <3> QED
      BY <1>8, <3>1, Zenon DEF TextDelta, PartialUpdate, StreamEnd, chanVars
  <2>2. \A type \in {"delta", "message_update", "message_start", "message_end"} :
          type \in EventTypes /\ type # "turn_end"
    BY DEF EventTypes
  <2> QED
    BY <1>1, <1>2, <2>1, <2>2
<1>9. CASE ApplyPatch
  <2>1. \/ Emit("context_patch", patchAt, 0) /\ patchAt <= calls
        \/ UNCHANGED sent
    BY <1>9, Zenon DEF ApplyPatch, chanVars
  <2>2. "context_patch" \in EventTypes
    BY DEF EventTypes
  <2> QED
    BY <1>1, <1>2, <2>1, <2>2
<1>10. CASE Finish
  <2>1. Emit("turn_end", 0, -1) \/ Emit("error", 0, 0) \/ Emit("agent_end", 0, 0)
    BY <1>10, Zenon DEF Finish
  <2>2. {"turn_end", "error", "agent_end"} \subseteq EventTypes
    BY DEF EventTypes
  <2> QED
    BY <1>1, <1>2, <2>1, <2>2
<1>11. ASSUME NEW c \in Calls, ToolStart(c) \/ ToolUpdate(c) \/ ToolEnd(c)
       PROVE  News
  <2>1. \E type \in {"tool_start", "tool_update", "tool_end"} : Emit(type, c, 0)
    BY <1>11, Zenon DEF ToolStart, ToolUpdate, ToolEnd
  <2>2. \A type \in {"tool_start", "tool_update", "tool_end"} :
          type \in EventTypes /\ type # "turn_end"
    BY DEF EventTypes
  <2> QED
    BY <1>1, <1>2, <2>1, <2>2
<1>12. CASE News
  <2>1. PICK e \in Event : sent' = Append(sent, e) /\ (e.type # "turn_end" \/ e.calls = -1)
    BY <1>12
  <2>2. /\ Len(sent) \in Nat /\ Len(sent') = Len(sent) + 1 /\ sent'[Len(sent) + 1] = e
        /\ \A i \in 1..Len(sent) : sent'[i] = sent[i]
    BY <2>1 DEF ChannelOK
  <2> QED
    BY <2>1, <2>2
<1> QED
  BY <1>3, <1>4, <1>5, <1>6, <1>7, <1>8, <1>9, <1>10, <1>11, <1>12, NextCases

Awaiting == {"stream", "partial", "record"}
Answered == {"turnEnd", "tools"}

(* The session and what the reader was told of agree at each control point. *)
Recorded ==
    /\ \A k \in 1..Len(session) : session[k].turn <= turn
    /\ pc \in Awaiting =>
          \A k \in 1..Len(session) : session[k].kind = "assistant" => session[k].turn < turn
    /\ \A i \in 1..Len(sent) : sent[i].type = "turn_end" /\ sent[i].calls >= 0 =>
          \E k \in 1..Len(session) : session[k] = Msg("assistant", sent[i].turn, sent[i].calls)
    /\ \A k \in 1..Len(session) : session[k].kind = "assistant" =>
          /\ Told(session[k]) \/ (pc = "turnEnd" /\ k = Len(session))
          /\ \A l \in 1..(k - 1) : session[l].kind = "assistant" =>
                session[l].turn < session[k].turn
    /\ pc \in Answered => Open(session)
    /\ pc \notin Answered => ResultsFollowCalls(session)

(* Steps that log no message. *)
LEMMA RecordedFrame ==
    ASSUME ControlOK, MessagesOK, [Next]_vars
    PROVE  \/ Prepare \/ Record \/ TurnEnd \/ AppendResults \/ TurnStart
           \/ /\ UNCHANGED <<session, turn>>
              /\ pc' \in Awaiting => pc \in Awaiting
              /\ pc' = "turnEnd" <=> pc = "turnEnd"
              /\ pc' \in Answered <=> pc \in Answered
              /\ pc \in Answered => calls' = calls
<1> USE DEF Awaiting, Answered, turnVars
<1>1. CASE Start \/ Outer \/ InnerTop \/ TextDelta \/ ToolCallDelta \/ PartialUpdate
  BY <1>1 DEF Start, Outer, InnerTop, TextDelta, ToolCallDelta, PartialUpdate
<1>2. CASE StreamError \/ StreamEnd \/ ApplyPatch \/ AfterTools
  BY <1>2 DEF StreamError, StreamEnd, ApplyPatch, AfterTools
<1>3. CASE Returned \/ Fatal \/ Finish \/ CloseChannel
  BY <1>3 DEF Returned, Fatal, Finish, CloseChannel
<1>4. ASSUME NEW c \in Calls, ToolStart(c) \/ ToolUpdate(c) \/ ToolEnd(c)
      PROVE  UNCHANGED <<session, turn, pc, calls>>
  BY <1>4 DEF ToolStart, ToolUpdate, ToolEnd
<1>5. CASE Cancel \/ Steer \/ FollowUp \/ SyncTurn \/ Receive \/ UNCHANGED vars
  BY <1>5 DEF Cancel, Steer, FollowUp, SyncTurn, Receive, vars
<1> QED
  BY <1>1, <1>2, <1>3, <1>4, <1>5, NextCases

(* Logging anything but an answer of the model, with no news of a turn. *)
LEMMA RecordedGrows ==
    ASSUME MessagesOK, Recorded, turn \in Nat, NEW r \in Seq(Message), session' = session \o r,
           \A i \in 1..Len(r) : r[i].turn <= turn /\ r[i].kind # "assistant",
           turn' = turn, sent' = sent, pc # "turnEnd", pc' \notin Awaiting \cup {"turnEnd"}
    PROVE  /\ \A k \in 1..Len(session') : session'[k].turn <= turn'
           /\ \A i \in 1..Len(sent') : sent'[i].type = "turn_end" /\ sent'[i].calls >= 0 =>
                \E k \in 1..Len(session') :
                    session'[k] = Msg("assistant", sent'[i].turn, sent'[i].calls)
           /\ \A k \in 1..Len(session') : session'[k].kind = "assistant" =>
                /\ Told(session[k])'
                /\ \A l \in 1..(k - 1) : session'[l].kind = "assistant" =>
                      session'[l].turn < session'[k].turn
<1>1. /\ Len(session) \in Nat /\ Len(r) \in Nat /\ Len(session') = Len(session) + Len(r)
      /\ \A i \in 1..Len(session) : i \in 1..Len(session') /\ session'[i] = session[i]
      /\ \A i \in 1..Len(r) :
            Len(session) + i \in 1..Len(session') /\ session'[Len(session) + i] = r[i]
  BY GrownElements DEF MessagesOK
<1>2. ASSUME NEW k \in 1..Len(session'), k \notin 1..Len(session)
      PROVE  session'[k].turn <= turn /\ session'[k].kind # "assistant"
  <2>1. k - Len(session) \in 1..Len(r) /\ Len(session) + (k - Len(session)) = k
    BY <1>1, <1>2
  <2> QED
    BY <1>1, <2>1
<1>3. \A k \in 1..Len(session') : session'[k].turn <= turn'
  BY <1>1, <1>2 DEF Recorded
<1>4. \A i \in 1..Len(sent') : sent'[i].type = "turn_end" /\ sent'[i].calls >= 0 =>
        \E k \in 1..Len(session') : session'[k] = Msg("assistant", sent'[i].turn, sent'[i].calls)
  BY <1>1 DEF Recorded
<1>5. ASSUME NEW k \in 1..Len(session'), session'[k].kind = "assistant"
      PROVE  /\ Told(session[k])'
             /\ \A l \in 1..(k - 1) : session'[l].kind = "assistant" =>
                   session'[l].turn < session'[k].turn
  <2>1. k \in 1..Len(session) /\ session'[k] = session[k]
    BY <1>1, <1>2, <1>5
  <2>2. Told(session[k])
    BY <1>5, <2>1 DEF Recorded
  <2>3. \A l \in 1..(k - 1) : l \in 1..Len(session) /\ session'[l] = session[l]
    BY <1>1, <2>1
  <2>4. \A l \in 1..(k - 1) : session[l].kind = "assistant" => session[l].turn < session[k].turn
    BY <1>5, <2>1 DEF Recorded
  <2>5. Told(session[k])'
    BY <2>1, <2>2 DEF Told
  <2> QED
    BY <2>1, <2>3, <2>4, <2>5
<1> QED
  BY <1>3, <1>4, <1>5

LEMMA RecordedStep ==
    ASSUME Session = "reliable", ControlOK, MessagesOK, ChannelOK, Promise, Recorded, [Next]_vars
    PROVE  Recorded'
<1>0. turn \in Nat
  BY DEF ControlOK
<1>1. /\ session \in Seq(Message) /\ Len(session) \in Nat /\ turn \in 0..MaxTurns /\ calls \in Nat
      /\ \A k \in 1..Len(session) : session[k].turn \in Nat
  BY LenProperties, MessageFields, ElementOfSeq DEF MessagesOK, ControlOK
<1>2. CASE Prepare
  <2>1. /\ UNCHANGED <<turn, calls, sent>> /\ pc = "prepare" /\ pc' = "turnStart"
        /\ Persist(<<Msg("summary", turn, 0)>>) \/ UNCHANGED session
    BY <1>2 DEF Prepare, turnVars, chanVars
  <2>2. CASE UNCHANGED session
    BY <2>1, <2>2 DEF Recorded, Told, Awaiting, Answered
  <2>3. CASE Persist(<<Msg("summary", turn, 0)>>)
    <3> DEFINE m == Msg("summary", turn, 0)
    <3>1. m \in Message /\ m.turn <= turn /\ m.kind = "summary"
      BY <1>1, MsgType DEF Msg, Kinds
    <3>2. Persist(<<m>>)
      BY <2>3
    <3> HIDE DEF m
    <3>3. <<m>> \in Seq(Message) /\ Len(<<m>>) = 1 /\ <<m>>[1] = m
      BY <3>1
    <3>4. session' = session \o <<m>> /\ session' = Append(session, m)
      BY <1>1, <3>1, <3>2, <3>3, PersistReliable, AppendIsConcat
    <3>5. ResultsFollowCalls(session')
      BY <1>1, <2>1, <3>1, <3>4, AppendNeutral DEF Recorded, Answered
    <3>6. \A i \in 1..Len(<<m>>) : <<m>>[i].turn <= turn /\ <<m>>[i].kind # "assistant"
      BY <3>1, <3>3
    <3>7. /\ turn' = turn /\ sent' = sent /\ pc # "turnEnd" /\ pc' \notin Awaiting \cup {"turnEnd"}
          /\ pc' \notin Answered
      BY <2>1 DEF Awaiting, Answered
    <3>8. /\ \A k \in 1..Len(session') : session'[k].turn <= turn'
          /\ \A i \in 1..Len(sent') : sent'[i].type = "turn_end" /\ sent'[i].calls >= 0 =>
               \E k \in 1..Len(session') :
                   session'[k] = Msg("assistant", sent'[i].turn, sent'[i].calls)
          /\ \A k \in 1..Len(session') : session'[k].kind = "assistant" =>
               /\ Told(session[k])'
               /\ \A l \in 1..(k - 1) : session'[l].kind = "assistant" =>
                     session'[l].turn < session'[k].turn
      BY <1>0, <3>3, <3>4, <3>6, <3>7, RecordedGrows
    <3> QED
      BY <3>5, <3>7, <3>8 DEF Recorded
  <2> QED
    BY <2>1, <2>2, <2>3
<1>3. CASE AppendResults
  <2>1. /\ UNCHANGED <<turn, calls, sent>> /\ pc = "tools" /\ pc' = "patches" /\ Persist(Results)
    BY <1>3 DEF AppendResults, turnVars, chanVars
  <2>2. Results \in Seq(Message) /\ session' = session \o Results
    BY <1>1, <2>1, ResultsType, PersistReliable
  <2>3. ResultsFollowCalls(session')
    BY <1>1, <2>1, <2>2, AppendResultsCloses DEF Recorded, Answered
  <2>4. \A i \in 1..Len(Results) : Results[i].turn <= turn /\ Results[i].kind # "assistant"
    BY <1>1, ResultsType DEF Results, Msg
  <2>5. /\ turn' = turn /\ sent' = sent /\ pc # "turnEnd" /\ pc' \notin Awaiting \cup {"turnEnd"}
        /\ pc' \notin Answered
    BY <2>1 DEF Awaiting, Answered
  <2>6. /\ \A k \in 1..Len(session') : session'[k].turn <= turn'
        /\ \A i \in 1..Len(sent') : sent'[i].type = "turn_end" /\ sent'[i].calls >= 0 =>
             \E k \in 1..Len(session') :
                 session'[k] = Msg("assistant", sent'[i].turn, sent'[i].calls)
        /\ \A k \in 1..Len(session') : session'[k].kind = "assistant" =>
             /\ Told(session[k])'
             /\ \A l \in 1..(k - 1) : session'[l].kind = "assistant" =>
                   session'[l].turn < session'[k].turn
    BY <1>0, <2>2, <2>4, <2>5, RecordedGrows, Zenon
  <2> QED
    BY <2>3, <2>5, <2>6 DEF Recorded
<1>4. CASE Record
  <2> DEFINE m == Msg("assistant", turn, calls)
  <2>1. /\ UNCHANGED <<turn, calls, sent>> /\ pc = "record" /\ pc' = "turnEnd" /\ Persist(<<m>>)
    BY <1>4 DEF Record, turnVars, chanVars
  <2>2. m \in Message /\ m.turn = turn /\ m.kind = "assistant"
    BY <1>1, MsgType DEF Msg, Kinds
  <2>3. Open(Append(session, m))
    BY <1>1, <2>1, AppendAssistant DEF Recorded, Answered
  <2> HIDE DEF m
  <2>4. <<m>> \in Seq(Message)
    BY <2>2
  <2>5. session' = Append(session, m)
    BY <1>1, <2>1, <2>2, <2>4, PersistReliable, AppendIsConcat
  <2>6. /\ Len(session') = Len(session) + 1 /\ session'[Len(session) + 1] = m
        /\ \A k \in 1..Len(session) : k \in 1..Len(session') /\ session'[k] = session[k]
        /\ \A k \in 1..Len(session') : k \in 1..Len(session) \/ k = Len(session) + 1
    BY <1>1, <2>2, <2>5, AppendProperties
  <2>7. Open(session)'
    BY <2>1, <2>3, <2>5 DEF Open
  <2>8. \A k \in 1..Len(session') : session'[k].turn <= turn'
    BY <1>1, <2>1, <2>2, <2>6 DEF Recorded
  <2>9. \A i \in 1..Len(sent') : sent'[i].type = "turn_end" /\ sent'[i].calls >= 0 =>
          \E k \in 1..Len(session') : session'[k] = Msg("assistant", sent'[i].turn, sent'[i].calls)
    BY <2>1, <2>6 DEF Recorded
  <2>10. ASSUME NEW k \in 1..Len(session'), session'[k].kind = "assistant"
         PROVE  /\ Told(session[k])' \/ (pc' = "turnEnd" /\ k = Len(session'))
                /\ \A l \in 1..(k - 1) : session'[l].kind = "assistant" =>
                      session'[l].turn < session'[k].turn
    <3>1. CASE k = Len(session) + 1
      <4>1. \A l \in 1..(k - 1) : l \in 1..Len(session) /\ session'[l] = session[l]
        BY <1>1, <2>6, <3>1
      <4>2. \A l \in 1..Len(session) : session[l].kind = "assistant" => session[l].turn < turn
        BY <2>1 DEF Recorded, Awaiting
      <4> QED
        BY <2>1, <2>2, <2>6, <3>1, <4>1, <4>2
    <3>2. CASE k \in 1..Len(session)
      <4>1. session'[k] = session[k] /\ k # Len(session) + 1
        BY <1>1, <2>6, <3>2
      <4>2. Told(session[k])
        BY <2>1, <2>10, <3>2, <4>1 DEF Recorded
      <4>3. Told(session[k])'
        BY <2>1, <4>1, <4>2 DEF Told
      <4>4. \A l \in 1..(k - 1) : l \in 1..Len(session) /\ session'[l] = session[l]
        BY <1>1, <2>6, <3>2
      <4>5. \A l \in 1..(k - 1) : session[l].kind = "assistant" => session[l].turn < session[k].turn
        BY <2>10, <3>2, <4>1 DEF Recorded
      <4> QED
        BY <4>1, <4>3, <4>4, <4>5
    <3> QED
      BY <2>6, <3>1, <3>2
  <2>11. pc' \notin Awaiting /\ pc' \in Answered
    BY <2>1 DEF Awaiting, Answered
  <2> QED
    BY <2>7, <2>8, <2>9, <2>10, <2>11 DEF Recorded
<1>5. CASE TurnEnd
  <2> DEFINE m == Msg("assistant", turn, calls)
             e == E!Ev("turn_end", turn, 0, calls)
  <2>1. /\ UNCHANGED <<turn, calls, session>> /\ sent' = Append(sent, e)
        /\ pc = "turnEnd" /\ pc' = IF calls = 0 THEN "returned" ELSE "tools"
    BY <1>5 DEF TurnEnd, turnVars, Emit, Ev, E!Ev
  <2>2. e \in Event /\ e.type = "turn_end" /\ e.turn = turn /\ e.calls = calls
    BY <1>1 DEF E!Ev, Event, EventTypes, ControlOK
  <2>3. Open(session) /\ Len(session) > 0 /\ session[Len(session)] = m
    BY <2>1 DEF Recorded, Answered, Open
  <2> HIDE DEF e
  <2>4. /\ Len(sent) \in Nat /\ Len(sent') = Len(sent) + 1 /\ sent'[Len(sent) + 1] = e
        /\ \A i \in 1..Len(sent) : i \in 1..Len(sent') /\ sent'[i] = sent[i]
        /\ \A i \in 1..Len(sent') : i \in 1..Len(sent) \/ i = Len(sent) + 1
    BY <2>1, <2>2 DEF ChannelOK
  <2>5. ASSUME NEW i \in 1..Len(sent'), sent'[i].type = "turn_end", sent'[i].calls >= 0
        PROVE  \E k \in 1..Len(session') :
                  session'[k] = Msg("assistant", sent'[i].turn, sent'[i].calls)
    <3>1. CASE i = Len(sent) + 1
      <4>1. Len(session) \in 1..Len(session') /\ session'[Len(session)] = m
        BY <1>1, <2>1, <2>3
      <4>2. m = Msg("assistant", sent'[i].turn, sent'[i].calls)
        BY <2>2, <2>4, <3>1
      <4> QED
        BY <4>1, <4>2
    <3>2. CASE i \in 1..Len(sent)
      BY <2>1, <2>4, <2>5, <3>2 DEF Recorded
    <3> QED
      BY <2>4, <3>1, <3>2
  <2>6. \A x : Told(x) => Told(x)'
    BY <2>4 DEF Told
  <2>7. Told(m)'
    <3>1. m = Msg("assistant", sent'[Len(sent) + 1].turn, sent'[Len(sent) + 1].calls)
      BY <2>2, <2>4
    <3> HIDE DEF m
    <3>2. m' = m
      BY <2>1 DEF m
    <3> QED
      BY <2>2, <2>4, <3>1, <3>2 DEF Told
  <2>8. ASSUME NEW k \in 1..Len(session'), session'[k].kind = "assistant"
        PROVE  /\ Told(session[k])'
               /\ \A l \in 1..(k - 1) : session'[l].kind = "assistant" =>
                     session'[l].turn < session'[k].turn
    <3>1. Told(session[k]) \/ session[k] = m
      BY <2>1, <2>3, <2>8 DEF Recorded
    <3>2. m' = m
      BY <2>1
    <3> QED
      BY <2>1, <2>6, <2>7, <2>8, <3>1, <3>2 DEF Recorded
  <2>9. pc' \in Answered => Open(session)'
    BY <2>1, <2>3 DEF Open
  <2>10. pc' \notin Answered => ResultsFollowCalls(session)'
    <3>1. pc' \notin Answered => calls = 0
      BY <2>1 DEF Answered
    <3> QED
      BY <1>1, <2>1, <2>3, <3>1, OpenWithoutCalls
  <2>11. pc' \notin Awaiting /\ \A k \in 1..Len(session') : session'[k].turn <= turn'
    BY <2>1 DEF Recorded, Awaiting
  <2> QED
    BY <2>5, <2>8, <2>9, <2>10, <2>11 DEF Recorded
<1>6. CASE ~TurnEnd /\ session' = session
           /\ \/ TurnStart
              \/ /\ turn' = turn
                 /\ pc' \in Awaiting => pc \in Awaiting
                 /\ pc' = "turnEnd" <=> pc = "turnEnd"
                 /\ pc' \in Answered <=> pc \in Answered
                 /\ pc \in Answered => calls' = calls
  <2>1. /\ \A i \in 1..Len(sent) : i \in 1..Len(sent') /\ sent'[i] = sent[i]
        /\ \A i \in 1..Len(sent') : i \notin 1..Len(sent) =>
             sent'[i].type # "turn_end" \/ sent'[i].calls = -1
    BY <1>6, OtherSends
  <2>2. \A x : Told(x) => Told(x)'
    BY <2>1 DEF Told
  <2>3. \A i \in 1..Len(sent') : sent'[i].type = "turn_end" /\ sent'[i].calls >= 0 =>
          \E k \in 1..Len(session') : session'[k] = Msg("assistant", sent'[i].turn, sent'[i].calls)
    <3> SUFFICES ASSUME NEW i \in 1..Len(sent'), sent'[i].type = "turn_end", sent'[i].calls >= 0
                 PROVE  \E k \in 1..Len(session') :
                           session'[k] = Msg("assistant", sent'[i].turn, sent'[i].calls)
      OBVIOUS
    <3>1. i \in 1..Len(sent) /\ sent'[i] = sent[i]
      BY <2>1
    <3> QED
      BY <1>6, <3>1 DEF Recorded
  <2>4. CASE TurnStart
    <3>1. turn' = turn + 1 /\ pc = "turnStart" /\ pc' = "stream"
      BY <2>4, Zenon DEF TurnStart
    <3>2. \A k \in 1..Len(session') : session'[k].turn < turn'
      BY <1>1, <1>6, <3>1 DEF Recorded
    <3>3. \A k \in 1..Len(session') : session'[k].turn <= turn'
      BY <1>1, <1>6, <3>1 DEF Recorded
    <3>4. pc' \notin Answered /\ ResultsFollowCalls(session')
      BY <1>6, <3>1 DEF Recorded, Answered
    <3>5. \A k \in 1..Len(session') : session'[k].kind = "assistant" =>
            /\ Told(session[k])'
            /\ \A l \in 1..(k - 1) : session'[l].kind = "assistant" =>
                  session'[l].turn < session'[k].turn
      BY <1>6, <2>2, <3>1 DEF Recorded
    <3> QED
      BY <2>3, <3>2, <3>3, <3>4, <3>5 DEF Recorded
  <2>5. CASE /\ turn' = turn
             /\ pc' \in Awaiting => pc \in Awaiting
             /\ pc' = "turnEnd" <=> pc = "turnEnd"
             /\ pc' \in Answered <=> pc \in Answered
             /\ pc \in Answered => calls' = calls
    <3>1. \A k \in 1..Len(session') : session'[k].kind = "assistant" =>
            /\ Told(session[k])' \/ (pc' = "turnEnd" /\ k = Len(session'))
            /\ \A l \in 1..(k - 1) : session'[l].kind = "assistant" =>
                  session'[l].turn < session'[k].turn
      BY <1>6, <2>2, <2>5 DEF Recorded
    <3>2. /\ \A k \in 1..Len(session') : session'[k].turn <= turn'
          /\ pc' \in Awaiting =>
               \A k \in 1..Len(session') : session'[k].kind = "assistant" => session'[k].turn < turn'
      BY <1>6, <2>5 DEF Recorded
    <3>3. /\ pc' \in Answered => Open(session)'
          /\ pc' \notin Answered => ResultsFollowCalls(session)'
      BY <1>6, <2>5 DEF Recorded, Open
    <3> QED
      BY <2>3, <3>1, <3>2, <3>3 DEF Recorded
  <2> QED
    BY <1>6, <2>4, <2>5
<1>7. TurnStart => session' = session
  BY Zenon DEF TurnStart
<1> QED
  BY <1>2, <1>3, <1>4, <1>5, <1>6, <1>7, RecordedFrame

(* Whatever the engine does to the conversation, a reliable session holds  *)
(* every turn the reader was told of, no other, in order, and with its     *)
(* results (loop.go:132-148, 196-211, 234-245).                            *)
THEOREM SessionAlwaysOutlivesCompaction == Spec => []SessionOutlivesCompaction
<1>1. CASE Session = "reliable"
  <2>1. Init => TypeOK /\ Promise /\ Recorded
    <3> SUFFICES ASSUME Init PROVE TypeOK /\ Promise /\ Recorded
      OBVIOUS
    <3>1. session = <<>> /\ sent = <<>> /\ Len(session) = 0 /\ Len(sent) = 0 /\ pc = "start"
      BY DEF Init
    <3>2. Recorded
      BY <3>1 DEF Recorded, Awaiting, Answered, ResultsFollowCalls
    <3> QED
      BY <3>2, InitType, InitPromise
  <2>2. TypeOK /\ Promise /\ Recorded /\ [Next]_vars => (TypeOK /\ Promise /\ Recorded)'
    BY <1>1, PromiseInvariant, RecordedStep DEF TypeOK
  <2>3. Recorded => SessionOutlivesCompaction
    BY DEF Recorded, SessionOutlivesCompaction, Answered
  <2> QED
    BY <2>1, <2>2, <2>3, PTL DEF Spec
<1>2. CASE Session # "reliable"
  <2>1. SessionOutlivesCompaction
    BY <1>2 DEF SessionOutlivesCompaction
  <2> QED
    BY <2>1, PTL
<1> QED
  BY <1>1, <1>2
================================================================================
