------------------------------- MODULE AgentLoop -------------------------------
(***************************************************************************)
(* One run of the agent loop: RunAgentLoop in agentcore/loop.go with the   *)
(* budget of agentcore/budget.go and the queues of agentcore/types.go.     *)
(*                                                                         *)
(* The loop goroutine calls the model, executes the tools the answer asks  *)
(* for (one after another, or each on a goroutine of its own), appends to  *)
(* the conversation and to the session log, and sends every event to a     *)
(* bounded channel.  Around it run the reader of the channel, callers of   *)
(* Steer and FollowUp, whoever cancels the context, the model's stream and *)
(* the goroutines that hand turns to the memory backend.                   *)
(*                                                                         *)
(* A message is a record: its kind, the turn it belongs to and a number,   *)
(* which is the tool call it answers, the number of calls it asks for, or  *)
(* the position of a steering message in its queue.  Texts, arguments and  *)
(* model options are left out; the hooks (BeforeToolCall, AfterToolCall,   *)
(* ShouldStopAfterTurn) are choices.                                       *)
(***************************************************************************)
EXTENDS Integers, Sequences, FiniteSets

CONSTANTS
    MaxIterations, MaxCost, MaxTokens,   \* the budget's limits; 0 = unlimited
    Costs, Tokens,    \* cost and output tokens a model call may report
    Parallel,         \* cfg.ToolExecution is "parallel"
    Session,          \* cfg.Session: "none", "reliable" or "failing"
    HasMemory,        \* cfg.Memory is set
    CompactAt,        \* conversation length that triggers compaction; 0 = no engine
    ChanCap,          \* capacity of the event channel (64 in the code)
    Histories,        \* conversations a run may start from
    MaxTurns,         \* bound: model calls (only needed without an iteration limit)
    MaxCalls,         \* bound: tool calls in one message
    MaxDeltas,        \* bound: stream events of one model call
    MaxUpdates,       \* bound: partial results of one tool
    MaxSteers, MaxFollowUps   \* bound: messages given to Steer, and to FollowUp

ASSUME LoopAssumption ==
    /\ MaxIterations \in Nat /\ MaxCost \in Nat /\ MaxTokens \in Nat
    /\ Costs \subseteq Nat /\ Tokens \subseteq Nat
    /\ Parallel \in BOOLEAN /\ HasMemory \in BOOLEAN
    /\ Session \in {"none", "reliable", "failing"}
    /\ CompactAt \in Nat
    /\ ChanCap \in Nat \ {0}
    /\ MaxTurns \in Nat /\ MaxCalls \in Nat /\ MaxDeltas \in Nat
    /\ MaxUpdates \in Nat /\ MaxSteers \in Nat /\ MaxFollowUps \in Nat

Calls == 1..MaxCalls
Kinds == {"user", "assistant", "tool", "patch", "steer", "failure", "summary"}
Msg(kind, turn, n) == [kind |-> kind, turn |-> turn, n |-> n]
Message == [kind : Kinds, turn : 0..MaxTurns, n : Nat]

ASSUME HistoriesAssumption == Histories \subseteq Seq(Message)

VARIABLES
    pc,          \* control point of the loop goroutine
    cancelled,   \* ctx.Err() # nil
    budget,      \* the counters of IterationBudget
    spent,       \* what the model calls really cost (history)
    conv,        \* conv.Messages
    session,     \* entries appended to cfg.Session
    turn,        \* model calls started
    deltas,      \* stream events of this call seen so far
    calls,       \* tool calls in the message being received, or received
    partial,     \* partialStarted
    mode,        \* how this turn's tools run
    tool,        \* control point of each tool call
    result,      \* what each tool call returned
    patchAt,     \* the tool call whose ContextModifier is applied next
    steerQ, steers,    \* steering queue; number of Steer calls
    followQ, follows,  \* follow-up queue; number of FollowUp calls
    syncing,     \* SyncTurn goroutines not yet run: what each will persist
    sent,        \* every event sent to the channel, in order
    received,    \* how many of them the reader has taken
    closed       \* the channel is closed

queueVars == <<steerQ, steers, followQ, follows>>
turnVars  == <<turn, deltas, calls, partial>>
toolVars  == <<mode, tool, result, patchAt>>
chanVars  == <<sent, received, closed>>
vars == <<pc, cancelled, budget, spent, conv, session, turn, deltas, calls, partial,
          mode, tool, result, patchAt, steerQ, steers, followQ, follows, syncing,
          sent, received, closed>>

NoResult == [terminate |-> FALSE, patch |-> FALSE]

Init ==
    /\ pc = "start"
    /\ cancelled = FALSE
    /\ budget = [iterations |-> 0, cost |-> 0, tokens |-> 0]
    /\ spent = [cost |-> 0, tokens |-> 0]
    /\ conv \in Histories
    /\ session = <<>>
    /\ turn = 0 /\ deltas = 0 /\ calls = 0 /\ partial = FALSE
    /\ mode = "sequential"
    /\ tool = [c \in Calls |-> "none"]
    /\ result = [c \in Calls |-> NoResult]
    /\ patchAt = 1
    /\ steerQ = <<>> /\ steers = 0 /\ followQ = <<>> /\ follows = 0
    /\ syncing = {}
    /\ sent = <<>> /\ received = 0 /\ closed = FALSE

-----------------------------------------------------------------------------
(* emit, loop.go:774-781: a send that blocks while the channel is full. *)
Ev(type, c, n) == [type |-> type, turn |-> turn, call |-> c, calls |-> n]

(* Mutant: emit drops its reader's bound. *)
RoomUnbounded == TRUE

Room == Len(sent) - received < ChanCap

Emit(type, c, n) ==
    /\ Room
    /\ sent' = Append(sent, Ev(type, c, n))
    /\ UNCHANGED <<received, closed>>

(* Session.AppendEntry for each entry in turn; its error is ignored, so a  *)
(* failing session loses any of them.  kept[i] is the i-th one written.    *)
Increasing(n) ==
    {kept \in UNION {[1..k -> 1..n] : k \in 0..n} :
        \A i, j \in DOMAIN kept : i < j => kept[i] < kept[j]}

Persist(entries) ==
    \E kept \in Increasing(Len(entries)) :
        /\ Session = "none" => Len(kept) = 0
        /\ Session = "reliable" => kept = [i \in 1..Len(entries) |-> i]
        /\ session' = session \o [i \in 1..Len(kept) |-> entries[kept[i]]]

-----------------------------------------------------------------------------
(* runLoop and the top of runInnerLoop, loop.go:41-61 and 107-117. *)
Start ==
    /\ pc = "start"
    /\ Emit("agent_start", 0, 0)
    /\ pc' = "outer"
    /\ UNCHANGED <<cancelled, budget, spent, conv, session, turnVars, toolVars,
                   queueVars, syncing>>

Outer ==
    /\ pc = "outer"
    /\ pc' = IF cancelled THEN "error" ELSE "inner"
    /\ UNCHANGED <<cancelled, budget, spent, conv, session, turnVars, toolVars,
                   queueVars, syncing, chanVars>>

(* Mutant: the limit is compared before the iteration is added. *)
FitsLate(iterations, cost) ==
    /\ MaxIterations > 0 => budget.iterations <= MaxIterations
    /\ MaxCost > 0 => budget.cost + cost <= MaxCost

(* IterationBudget.Consume, budget.go:62-84: refused as a whole if either  *)
(* limit would be passed; a refusal records nothing.                       *)
Fits(iterations, cost) ==
    /\ MaxIterations > 0 => budget.iterations + iterations <= MaxIterations
    /\ MaxCost > 0 => budget.cost + cost <= MaxCost

(* Mutant: the inner loop does not look at its context. *)
InnerTopBlind ==
    /\ pc = "inner"
    /\ IF ~Fits(1, 0)
         THEN pc' = "fatal" /\ UNCHANGED budget
         ELSE pc' = "prepare" /\ budget' = [budget EXCEPT !.iterations = @ + 1]
    /\ UNCHANGED <<cancelled, spent, conv, session, turnVars, toolVars, queueVars,
                   syncing, chanVars>>

(* A cancelled context or a refused iteration ends the loop; "fatal" is    *)
(* the return to runLoop, which looks at the context again.                *)
InnerTop ==
    /\ pc = "inner"
    /\ IF cancelled \/ ~Fits(1, 0)
         THEN pc' = "fatal" /\ UNCHANGED budget
         ELSE pc' = "prepare" /\ budget' = [budget EXCEPT !.iterations = @ + 1]
    /\ UNCHANGED <<cancelled, spent, conv, session, turnVars, toolVars, queueVars,
                   syncing, chanVars>>

(* CompactMessages keeps the first messages and the last ones and puts a   *)
(* summary between them; which ones is the context engine's choice.        *)
Compact ==
    \E i \in 0..Len(conv) : \E j \in (i + 2)..(Len(conv) + 1) :
        conv' = SubSeq(conv, 1, i) \o <<Msg("summary", turn, 0)>> \o SubSeq(conv, j, Len(conv))

(* loop.go:132-148: over the threshold the conversation is compacted, or   *)
(* left as it is if the engine fails, and an entry is logged either way.   *)
Prepare ==
    /\ pc = "prepare"
    /\ IF CompactAt > 0 /\ Len(conv) >= CompactAt
         THEN /\ Compact \/ UNCHANGED conv
              /\ Persist(<<Msg("summary", turn, 0)>>)
         ELSE UNCHANGED <<conv, session>>
    /\ pc' = "turnStart"
    /\ UNCHANGED <<cancelled, budget, spent, turnVars, toolVars, queueVars, syncing,
                   chanVars>>

TurnStart ==
    /\ pc = "turnStart"
    /\ turn < MaxTurns
    /\ Room
    /\ turn' = turn + 1
    /\ sent' = Append(sent, [Ev("turn_start", 0, 0) EXCEPT !.turn = turn + 1])
    /\ deltas' = 0 /\ calls' = 0 /\ partial' = FALSE
    /\ pc' = "stream"
    /\ UNCHANGED <<cancelled, budget, spent, conv, session, toolVars, queueVars,
                   syncing, received, closed>>

-----------------------------------------------------------------------------
(* collectLLMTurn, loop.go:307-434.  A text or thinking delta is sent on as *)
(* such; an event about a tool call opens one more call or adds to an open *)
(* one.  After each the partial message is sent.                           *)
TextDelta ==
    /\ pc = "stream"
    /\ deltas < MaxDeltas
    /\ deltas' = deltas + 1
    /\ Emit("delta", 0, 0)
    /\ pc' = "partial"
    /\ UNCHANGED <<cancelled, budget, spent, conv, session, turn, calls, partial, toolVars,
                   queueVars, syncing>>

ToolCallDelta ==
    /\ pc = "stream"
    /\ deltas < MaxDeltas
    /\ deltas' = deltas + 1
    /\ calls' \in {calls, calls + 1} \cap Calls
    /\ pc' = "partial"
    /\ UNCHANGED <<cancelled, budget, spent, conv, session, turn, partial, toolVars,
                   queueVars, syncing, chanVars>>

(* emitPartialUpdate, lines 346-354. *)
PartialUpdate ==
    /\ pc = "partial"
    /\ Emit(IF partial THEN "message_update" ELSE "message_start", 0, 0)
    /\ partial' = TRUE
    /\ pc' = "stream"
    /\ UNCHANGED <<cancelled, budget, spent, conv, session, turn, deltas, calls, toolVars,
                   queueVars, syncing>>

(* The stream reports an error: what was received is dropped. *)
StreamError ==
    /\ pc = "stream"
    /\ pc' = "fatal"
    /\ UNCHANGED <<cancelled, budget, spent, conv, session, turnVars, toolVars,
                   queueVars, syncing, chanVars>>

(* Mutant: usage is added first and compared afterwards. *)
RecordUsageUnchecked(cost, tokens) ==
    /\ spent' = [cost |-> spent.cost + cost, tokens |-> spent.tokens + tokens]
    /\ budget' = [budget EXCEPT !.cost = @ + cost, !.tokens = @ + tokens]

(* The stream is closed, with usage from a message_end event or without.   *)
(* Cost and tokens are recorded unless that would pass a limit, and the    *)
(* refusal is ignored (loop.go:187-194, budget.go:129-141).                *)
RecordUsage(cost, tokens) ==
    /\ spent' = [cost |-> spent.cost + cost, tokens |-> spent.tokens + tokens]
    /\ budget' = [budget EXCEPT
         !.cost = IF Fits(0, cost) THEN @ + cost ELSE @,
         !.tokens = IF MaxTokens > 0 /\ @ + tokens > MaxTokens THEN @ ELSE @ + tokens]

StreamEnd ==
    /\ pc = "stream"
    /\ \/ \E cost \in Costs, tokens \in Tokens : RecordUsage(cost, tokens)
       \/ UNCHANGED <<budget, spent>>
    /\ IF partial THEN Emit("message_end", 0, 0) ELSE UNCHANGED chanVars
    /\ pc' = "record"
    /\ UNCHANGED <<cancelled, conv, session, turnVars, toolVars, queueVars, syncing>>

(* Mutant: only answers without tool calls are logged. *)
RecordFinalOnly ==
    /\ pc = "record"
    /\ conv' = Append(conv, Msg("assistant", turn, calls))
    /\ IF calls = 0 THEN Persist(<<Msg("assistant", turn, calls)>>) ELSE UNCHANGED session
    /\ pc' = "turnEnd"
    /\ UNCHANGED <<cancelled, budget, spent, turnVars, toolVars, queueVars, syncing,
                   chanVars>>

(* The assistant message enters the conversation and the session, and      *)
(* turn_end is sent (loop.go:196-211).                                     *)
Record ==
    /\ pc = "record"
    /\ conv' = Append(conv, Msg("assistant", turn, calls))
    /\ Persist(<<Msg("assistant", turn, calls)>>)
    /\ pc' = "turnEnd"
    /\ UNCHANGED <<cancelled, budget, spent, turnVars, toolVars, queueVars, syncing,
                   chanVars>>

TurnEnd ==
    /\ pc = "turnEnd"
    /\ Emit("turn_end", 0, calls)
    /\ pc' = IF calls = 0 THEN "returned" ELSE "tools"
    /\ \E m \in IF Parallel /\ calls > 1 THEN {"sequential", "parallel"} ELSE {"sequential"} :
         mode' = m
    /\ tool' = [c \in Calls |-> IF calls # 0 /\ c <= calls THEN "waiting" ELSE "none"]
    /\ result' = [c \in Calls |-> NoResult]
    /\ patchAt' = 1
    /\ UNCHANGED <<cancelled, budget, spent, conv, session, turnVars, queueVars, syncing>>

-----------------------------------------------------------------------------
(* executeTools, loop.go:470-737.  "blocked" is a call refused by          *)
(* BeforeToolCall, "failed" one that is unknown, invalid, denied or that   *)
(* panics, "running" one whose Execute is called.                          *)
MayStart(c) ==
    tool[c] = "waiting" /\ (mode = "sequential" => \A d \in 1..(c - 1) : tool[d] = "done")

ToolStart(c) ==
    /\ pc = "tools"
    /\ MayStart(c)
    /\ Emit("tool_start", c, 0)
    /\ \E state \in {"blocked", "failed", "running"} : tool' = [tool EXCEPT ![c] = state]
    /\ UNCHANGED <<pc, cancelled, budget, spent, conv, session, turnVars, mode, result,
                   patchAt, queueVars, syncing>>

Updates(c) ==
    Cardinality({i \in 1..Len(sent) : sent[i] = Ev("tool_update", c, 0)})

ToolUpdate(c) ==
    /\ tool[c] = "running"
    /\ Updates(c) < MaxUpdates
    /\ Emit("tool_update", c, 0)
    /\ UNCHANGED <<pc, cancelled, budget, spent, conv, session, turnVars, toolVars,
                   queueVars, syncing>>

(* AfterToolCall may set Terminate on any result but a blocked one; only   *)
(* an executed tool returns a ContextModifier.                             *)
ToolEnd(c) ==
    /\ tool[c] \in {"blocked", "failed", "running"}
    /\ Emit("tool_end", c, 0)
    /\ \E terminate, patch \in BOOLEAN :
         /\ terminate => tool[c] # "blocked"
         /\ patch => tool[c] = "running"
         /\ result' = [result EXCEPT ![c] = [terminate |-> terminate, patch |-> patch]]
    /\ tool' = [tool EXCEPT ![c] = "done"]
    /\ UNCHANGED <<pc, cancelled, budget, spent, conv, session, turnVars, mode, patchAt,
                   queueVars, syncing>>

(* Mutant: results in the order the tools ended. *)
EndOrder ==
    LET ends == SelectSeq(sent, LAMBDA e : e.type = "tool_end" /\ e.turn = turn)
    IN  [i \in 1..Len(ends) |-> Msg("tool", turn, ends[i].call)]

(* All results, in source order, before any context patch (lines 234-245). *)
Results == [c \in 1..calls |-> Msg("tool", turn, c)]

(* Mutant: does not wait for every tool goroutine. *)
AppendResultsEarly ==
    /\ pc = "tools"
    /\ \E c \in 1..calls : tool[c] = "done"
    /\ conv' = conv \o Results
    /\ Persist(Results)
    /\ pc' = "patches"
    /\ UNCHANGED <<cancelled, budget, spent, turnVars, toolVars, queueVars, syncing, chanVars>>

(* Mutant: results are logged as they arrive. *)
AppendResultsLogsEndOrder ==
    /\ pc = "tools"
    /\ \A c \in 1..calls : tool[c] = "done"
    /\ conv' = conv \o Results
    /\ Persist(EndOrder)
    /\ pc' = "patches"
    /\ UNCHANGED <<cancelled, budget, spent, turnVars, toolVars, queueVars, syncing, chanVars>>

AppendResults ==
    /\ pc = "tools"
    /\ \A c \in 1..calls : tool[c] = "done"
    /\ conv' = conv \o Results
    /\ Persist(Results)
    /\ pc' = "patches"
    /\ UNCHANGED <<cancelled, budget, spent, turnVars, toolVars, queueVars, syncing, chanVars>>

(* The ContextModifiers, in source order (lines 249-260). *)
ApplyPatch ==
    /\ pc = "patches"
    /\ patchAt <= calls
    /\ IF result[patchAt].patch
         THEN /\ conv' = Append(conv, Msg("patch", turn, patchAt))
              /\ Emit("context_patch", patchAt, 0)
         ELSE UNCHANGED <<conv, chanVars>>
    /\ patchAt' = patchAt + 1
    /\ UNCHANGED <<pc, cancelled, budget, spent, session, turnVars, mode, tool, result,
                   queueVars, syncing>>

(* lastTurnMessages, lines 757-770: the scan from the end stops overwriting *)
(* at a message with an ID, and of the assistant messages only the         *)
(* synthetic failures have one.                                            *)
AssistantAt(s) == {i \in 1..Len(s) : s[i].kind \in {"assistant", "failure"}}

LastTurnAssistant(s) ==
    LET named == {i \in AssistantAt(s) : s[i].kind = "failure"}
        Found(i) == IF named # {} THEN i \in named /\ \A j \in named : j <= i
                                  ELSE \A j \in AssistantAt(s) : i <= j
    IN  {s[i] : i \in {j \in AssistantAt(s) : Found(j)}}

(* Drain of a one-at-a-time queue (types.go:367-379). *)
Drained(q) == IF q = <<>> THEN <<>> ELSE <<Head(q)>>
(* Mutant: a drain empties the queue whatever it returned. *)
RestNone(q) == <<>>

Rest(q) == IF q = <<>> THEN <<>> ELSE Tail(q)

(* Lines 265-297: SyncTurn is started, one steering message is taken, and  *)
(* the loop stops if the hook or a tool asked for it.                      *)
AfterTools ==
    /\ pc = "patches"
    /\ patchAt > calls
    /\ syncing' = IF HasMemory /\ Len(conv) >= 2
                    THEN syncing \cup [turn : {turn}, assistant : LastTurnAssistant(conv)]
                    ELSE syncing
    /\ conv' = conv \o [i \in 1..Len(Drained(steerQ)) |->
                          Msg("steer", turn, Drained(steerQ)[i])]
    /\ steerQ' = Rest(steerQ)
    /\ \E stop \in BOOLEAN :
         pc' = IF stop \/ \E c \in 1..calls : result[c].terminate THEN "returned" ELSE "inner"
    /\ UNCHANGED <<cancelled, budget, spent, session, turnVars, toolVars, steers, followQ,
                   follows, chanVars>>

-----------------------------------------------------------------------------
(* The end of runLoop.  Every return of runInnerLoop that is not an error  *)
(* says stop = true (lines 223, 226, 291, 296), so runLoop breaks out of   *)
(* its outer loop (line 79) and never reaches lines 82-93.                 *)
Returned ==
    /\ pc = "returned"
    /\ pc' = "end"
    /\ UNCHANGED <<cancelled, budget, spent, conv, session, turnVars, toolVars, queueVars,
                   syncing, chanVars>>

(* Mutant: a failed inner loop is tried again. *)
FatalRetries ==
    /\ pc = "fatal"
    /\ IF cancelled
         THEN pc' = "error" /\ UNCHANGED conv
         ELSE pc' = "outer" /\ UNCHANGED conv
    /\ UNCHANGED <<cancelled, budget, spent, session, turnVars, toolVars, queueVars, syncing,
                   chanVars>>

(* runInnerLoop returned an error (lines 58-77). *)
Fatal ==
    /\ pc = "fatal"
    /\ IF cancelled
         THEN pc' = "error" /\ UNCHANGED conv
         ELSE pc' = "failure" /\ conv' = Append(conv, Msg("failure", turn, 0))
    /\ UNCHANGED <<cancelled, budget, spent, session, turnVars, toolVars, queueVars, syncing,
                   chanVars>>

Finish ==
    /\ \/ pc = "failure" /\ Emit("turn_end", 0, -1) /\ pc' = "end"
       \/ pc = "error" /\ Emit("error", 0, 0) /\ pc' = "close"
       \/ pc = "end" /\ Emit("agent_end", 0, 0) /\ pc' = "close"
    /\ UNCHANGED <<cancelled, budget, spent, conv, session, turnVars, toolVars, queueVars,
                   syncing>>

CloseChannel ==
    /\ pc = "close"
    /\ closed' = TRUE
    /\ pc' = "done"
    /\ UNCHANGED <<cancelled, budget, spent, conv, session, turnVars, toolVars, queueVars,
                   syncing, sent, received>>

Loop ==
    \/ Start \/ Outer \/ InnerTop \/ Prepare \/ TurnStart
    \/ TextDelta \/ ToolCallDelta \/ PartialUpdate \/ StreamError \/ StreamEnd \/ Record \/ TurnEnd
    \/ AppendResults \/ ApplyPatch \/ AfterTools
    \/ Returned \/ Fatal \/ Finish \/ CloseChannel

ToolGoroutine(c) == ToolStart(c) \/ ToolUpdate(c) \/ ToolEnd(c)

-----------------------------------------------------------------------------
(* The world around the loop. *)
Cancel ==
    /\ ~cancelled /\ ~closed
    /\ cancelled' = TRUE
    /\ UNCHANGED <<pc, budget, spent, conv, session, turnVars, toolVars, queueVars, syncing,
                   chanVars>>

Steer ==
    /\ steers < MaxSteers /\ ~closed
    /\ steers' = steers + 1
    /\ steerQ' = Append(steerQ, steers + 1)
    /\ UNCHANGED <<pc, cancelled, budget, spent, conv, session, turnVars, toolVars, followQ,
                   follows, syncing, chanVars>>

FollowUp ==
    /\ follows < MaxFollowUps /\ ~closed
    /\ follows' = follows + 1
    /\ followQ' = Append(followQ, follows + 1)
    /\ UNCHANGED <<pc, cancelled, budget, spent, conv, session, turnVars, toolVars, steerQ,
                   steers, syncing, chanVars>>

(* A SyncTurn goroutine runs; they may run in any order. *)
SyncTurn ==
    /\ \E s \in syncing : syncing' = syncing \ {s}
    /\ UNCHANGED <<pc, cancelled, budget, spent, conv, session, turnVars, toolVars, queueVars,
                   chanVars>>

Receive ==
    /\ received < Len(sent)
    /\ received' = received + 1
    /\ UNCHANGED <<pc, cancelled, budget, spent, conv, session, turnVars, toolVars, queueVars,
                   syncing, sent, closed>>

Next ==
    \/ Loop
    \/ \E c \in Calls : ToolGoroutine(c)
    \/ Cancel \/ Steer \/ FollowUp \/ SyncTurn \/ Receive
(* The scheduler runs every goroutine that can run, the model's stream and *)
(* the tools end, and the reader drains the channel as Prompt asks it to   *)
(* (agent.go:81); nobody has to cancel or to queue messages.               *)
Fairness ==
    /\ WF_vars(Loop)
    /\ \A c \in Calls : WF_vars(ToolGoroutine(c))
    /\ WF_vars(SyncTurn)
    /\ WF_vars(Receive)

Spec == Init /\ [][Next]_vars /\ Fairness

-----------------------------------------------------------------------------
PcLabels == {"start", "outer", "inner", "prepare", "turnStart", "stream", "partial",
             "record", "turnEnd", "tools", "patches", "returned", "fatal", "failure", "error",
             "end", "close", "done"}
EventTypes == {"agent_start", "turn_start", "delta", "message_start", "message_update",
               "message_end", "turn_end", "tool_start", "tool_update", "tool_end",
               "context_patch", "agent_end", "error"}
Event == [type : EventTypes, turn : 0..MaxTurns, call : 0..MaxCalls, calls : -1..MaxCalls]

ControlOK ==
    /\ pc \in PcLabels
    /\ cancelled \in BOOLEAN
    /\ turn \in 0..MaxTurns
    /\ deltas \in 0..MaxDeltas
    /\ calls \in 0..MaxCalls
    /\ partial \in BOOLEAN
    /\ mode \in {"sequential", "parallel"}
    /\ tool \in [Calls -> {"none", "waiting", "blocked", "failed", "running", "done"}]
    /\ result \in [Calls -> [terminate : BOOLEAN, patch : BOOLEAN]]
    /\ patchAt \in 1..(MaxCalls + 1)

BudgetOK ==
    /\ budget \in [iterations : Nat, cost : Nat, tokens : Nat]
    /\ spent \in [cost : Nat, tokens : Nat]

MessagesOK ==
    /\ conv \in Seq(Message)
    /\ session \in Seq(Message)
    /\ steerQ \in Seq(1..MaxSteers) /\ steers \in 0..MaxSteers
    /\ followQ \in Seq(1..MaxFollowUps) /\ follows \in 0..MaxFollowUps
    /\ syncing \subseteq [turn : 0..MaxTurns, assistant : Message]

ChannelOK ==
    /\ sent \in Seq(Event)
    /\ received \in 0..Len(sent) /\ Len(sent) - received <= ChanCap
    /\ closed \in BOOLEAN

(* Every variable has its type and the channel holds no more than it can. *)
TypeOK == ControlOK /\ BudgetOK /\ MessagesOK /\ ChannelOK

(* Outside the turn's own tool phase, each assistant message that asks for *)
(* tools is followed at once by exactly its results, in source order,      *)
(* whatever order the tools ran in, and no result stands elsewhere: the    *)
(* order that strict endpoints demand (loop.go:234-235, 554-561, 731-735). *)
(* Holds of a conversation that is not compacted.                          *)
ResultsFollowCalls(s) ==
    /\ \A i \in 1..Len(s) : s[i].kind = "assistant" =>
          \A k \in 1..s[i].n : i + k <= Len(s) /\ s[i + k] = Msg("tool", s[i].turn, k)
    /\ \A i \in 1..Len(s) : s[i].kind = "tool" =>
          /\ s[i].n < i
          /\ s[i - s[i].n].kind = "assistant" /\ s[i - s[i].n].turn = s[i].turn

ToolResultsPaired ==
    pc \notin {"turnEnd", "tools"} => ResultsFollowCalls(conv)

(* The iteration limit holds: no run makes more model calls than it allows *)
(* and every call was paid for (loop.go:113-117, budget.go:66-72).         *)
IterationLimit ==
    /\ MaxIterations > 0 => turn <= MaxIterations
    /\ turn <= budget.iterations

(* The counters never pass their limits and never exceed what was really   *)
(* used; while nothing was refused they are exact (budget.go:60-84,        *)
(* 126-141).                                                               *)
BudgetHonest ==
    /\ MaxCost > 0 => budget.cost <= MaxCost
    /\ MaxTokens > 0 => budget.tokens <= MaxTokens
    /\ budget.cost <= spent.cost /\ budget.tokens <= spent.tokens
    /\ MaxCost = 0 \/ spent.cost <= MaxCost => budget.cost = spent.cost
    /\ MaxTokens = 0 \/ spent.tokens <= MaxTokens => budget.tokens = spent.tokens

(* Steering messages reach the conversation in the order they were given,  *)
(* each exactly once, and none is lost while the run goes on: those not    *)
(* yet there are queued (agent.go:135-144, types.go:367-379,               *)
(* loop.go:271-276).                                                       *)
SteeringInOrder ==
    LET drained == steers - Len(steerQ)
        At == {i \in 1..Len(conv) : conv[i].kind = "steer"}
    IN  /\ {conv[i].n : i \in At} = 1..drained
        /\ \A i, j \in At : i < j => conv[i].n < conv[j].n
        /\ \A i \in 1..Len(steerQ) : steerQ[i] = drained + i

(* A session is a replay of the run: what it holds are messages of the     *)
(* conversation the loop persists, in the same order, even when the tools  *)
(* ended in another order or the run failed; a reliable one has them all   *)
(* (loop.go:200-205, 236-245).  Holds of a conversation that is not        *)
(* compacted.                                                              *)
Persisted(m) == m.turn > 0 /\ m.kind \in {"assistant", "tool"}

SessionReplays ==
    /\ \A k \in 1..Len(session) :
          Persisted(session[k]) /\ \E i \in 1..Len(conv) : session[k] = conv[i]
    /\ \A k, l \in 1..Len(session) : k < l =>
          \E i, j \in 1..Len(conv) : i < j /\ session[k] = conv[i] /\ session[l] = conv[j]
    /\ Session = "reliable" =>
          \A i \in 1..Len(conv) : Persisted(conv[i]) =>
              \E k \in 1..Len(session) : session[k] = conv[i]

(* The session outlives compaction: whatever the engine drops from the     *)
(* conversation, a reliable session holds every turn its reader was told   *)
(* of and no other, in order, and outside the tool phase each with its     *)
(* results.                                                                *)
Told(m) ==
    \E i \in 1..Len(sent) :
        sent[i].type = "turn_end" /\ m = Msg("assistant", sent[i].turn, sent[i].calls)

SessionOutlivesCompaction ==
    Session = "reliable" =>
        /\ \A i \in 1..Len(sent) : sent[i].type = "turn_end" /\ sent[i].calls >= 0 =>
              \E k \in 1..Len(session) :
                  session[k] = Msg("assistant", sent[i].turn, sent[i].calls)
        /\ \A k \in 1..Len(session) : session[k].kind = "assistant" =>
              /\ Told(session[k]) \/ (pc = "turnEnd" /\ k = Len(session))
              /\ \A l \in 1..(k - 1) : session[l].kind = "assistant" =>
                    session[l].turn < session[k].turn
        /\ pc \notin {"turnEnd", "tools"} => ResultsFollowCalls(session)

(* A cancelled run starts at most one more model call: the one whose       *)
(* checks were already passed (loop.go:51, 108).                           *)
CancelStopsWithinATurn ==
    \A t \in 0..MaxTurns : [](cancelled /\ turn = t => [](turn <= t + 1))

(* The channel is closed at last, whatever fails: a reader that drains it  *)
(* is never left waiting (loop.go:25, 33).                                 *)
ChannelCloses == <>closed

(* The events sent are one of the streams AgentEvents promises: this loop  *)
(* implements it.                                                          *)
E == INSTANCE AgentEvents WITH stream <- sent
EventsAsPromised == E!Spec

(* agent.go:146-147 says FollowUp "enqueues a message that triggers a new  *)
(* outer-loop iteration after the current inner loop completes": a run     *)
(* whose model has no more tools to call does not end with messages        *)
(* waiting.                                                                *)
FollowUpDelivered ==
    [][pc = "returned" /\ pc' = "end" /\ calls = 0 => followQ = <<>>]_vars
================================================================================
