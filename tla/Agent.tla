-------------------------------- MODULE Agent --------------------------------
(***************************************************************************)
(* The agent of agentcore/agent.go: runs of the loop one after another,    *)
(* each on a goroutine of its own, and the tracker goroutine of            *)
(* runAndTrack, which reads the loop's events, keeps the agent's state     *)
(* current and passes the events on to whoever called Prompt.              *)
(*                                                                         *)
(* The loop of a run is any process that sends a stream AgentEvents        *)
(* allows; AgentLoop is one.  A run that was aborted may be given up by    *)
(* its tracker while its loop goes on, so that loops and trackers of       *)
(* several runs exist at once.  A message in the history is a record: its  *)
(* kind, the run and the turn it belongs to and, for a tool result or a    *)
(* patch, its call, for an assistant message the number of its calls.      *)
(***************************************************************************)
EXTENDS Integers, Sequences

CONSTANTS
    MaxRuns,              \* bound: runs started by Prompt or Continue
    MaxTurns, MaxCalls,   \* bounds: turns of a run, tool calls of a message
    LoopCap, OutCap,      \* capacities of loopCh and outCh (both 64 in the code)
    SentEvents            \* bound: the events the loop of each run sends

ASSUME AgentAssumption ==
    /\ MaxRuns \in Nat /\ MaxTurns \in Nat /\ MaxCalls \in Nat
    /\ LoopCap \in Nat \ {0} /\ OutCap \in Nat \ {0}

Runs == 1..MaxRuns
Event == [type : STRING, turn : 0..MaxTurns, call : 0..MaxCalls, calls : -1..MaxCalls]

ASSUME SentAssumption == \A r \in Runs : \A e \in SentEvents[r] : e \in Event

VARIABLES
    caller,      \* control point of the goroutine inside Prompt or Continue
    run,         \* runs started
    messages,    \* state.Messages
    streaming,   \* state.IsStreaming
    partial,     \* state.StreamingMessage: the turn it belongs to, 0 if nil
    pending,     \* state.PendingToolCalls of the current run, as a set of calls
    failed,      \* state.ErrorMessage # ""
    cancelFn,    \* the run cancelFn belongs to, 0 if nil
    idleCh,      \* the run idleCh belongs to, 0 the channel of NewAgent
    idle,        \* idle[r]: the idle channel of r is closed
    cancelled,   \* cancelled[r]: runCtx of r is done
    sent,        \* sent[r]: all events the loop of r has put into its channel
    loopDone,    \* loopDone[r]: that channel is closed
    tracker,     \* tracker[r]: control point of the tracker of r
    taken,       \* taken[r]: events of sent[r] the tracker has taken
    unread       \* unread[r]: events in outCh the caller has not taken, until
                 \*   the tracker leaves the channel to it

stateVars == <<messages, streaming, partial, pending, failed>>
idleVars  == <<cancelFn, idleCh, idle, cancelled>>
loopVars  == <<sent, loopDone>>
trackVars == <<tracker, taken, unread>>
vars == <<caller, run, messages, streaming, partial, pending, failed, cancelFn, idleCh,
          idle, cancelled, sent, loopDone, tracker, taken, unread>>

Msg(kind, r, turn, n) == [kind |-> kind, run |-> r, turn |-> turn, n |-> n]

(* NewAgent, agent.go:50-64. *)
Init ==
    /\ caller = "free" /\ run = 0
    /\ messages = <<>> /\ streaming = FALSE /\ partial = 0 /\ pending = {}
    /\ failed = FALSE
    /\ cancelFn = 0 /\ idleCh = 0
    /\ idle = [r \in 0..MaxRuns |-> r = 0]
    /\ cancelled = [r \in Runs |-> FALSE]
    /\ sent = [r \in Runs |-> <<>>]
    /\ loopDone = [r \in Runs |-> FALSE]
    /\ tracker = [r \in Runs |-> "none"]
    /\ taken = [r \in Runs |-> 0]
    /\ unread = [r \in Runs |-> 0]

-----------------------------------------------------------------------------
(* Prompt and Continue "must be called one at a time" (agent.go:29): a     *)
(* caller waits for the agent to be idle.                                  *)
MayCall == caller = "free" /\ run < MaxRuns /\ idle[idleCh]

Prompt ==
    /\ MayCall
    /\ run' = run + 1
    /\ messages' = Append(messages, Msg("user", run + 1, 0, 0))
    /\ caller' = "setCancel"
    /\ UNCHANGED <<streaming, partial, pending, failed, idleVars, loopVars, trackVars>>

(* Continue refuses, with an error event on a channel of its own and no    *)
(* other effect, when the history ends with an assistant message.          *)
Continue ==
    /\ MayCall
    /\ messages # <<>> => messages[Len(messages)].kind \notin {"assistant", "failure"}
    /\ run' = run + 1
    /\ caller' = "setCancel"
    /\ UNCHANGED <<stateVars, idleVars, loopVars, trackVars>>

(* AppendMessage, lines 124-131, which asks whether a run is active no     *)
(* more than the code; bound: one message, once the last run was called.   *)
AppendMessage ==
    /\ run = MaxRuns /\ caller = "free"
    /\ \A i \in 1..Len(messages) : messages[i].kind # "appended"
    /\ messages' = Append(messages, Msg("appended", run, 0, 0))
    /\ UNCHANGED <<caller, run, streaming, partial, pending, failed, idleVars, loopVars,
                   trackVars>>

(* runAndTrack, lines 263-284: three locks, one after another, and the     *)
(* loop is already running when the state is reset under the third.        *)
SetCancel ==
    /\ caller = "setCancel"
    /\ cancelFn' = run
    /\ caller' = "setIdle"
    /\ UNCHANGED <<run, stateVars, idleCh, idle, cancelled, loopVars, trackVars>>

SetIdle ==
    /\ caller = "setIdle"
    /\ idleCh' = run
    /\ caller' = "setState"
    /\ UNCHANGED <<run, stateVars, cancelFn, idle, cancelled, loopVars, trackVars>>

SetState ==
    /\ caller = "setState"
    /\ streaming' = TRUE /\ pending' = {} /\ failed' = FALSE
    /\ tracker' = [tracker EXCEPT ![run] = "range"]
    /\ caller' = "free"
    /\ UNCHANGED <<run, messages, partial, idleVars, loopVars, taken, unread>>

-----------------------------------------------------------------------------
(* The loop of a run, as its reader may rely on it: the next event is one  *)
(* AgentEvents allows.  Each kind of event is sent once per turn or call,  *)
(* which bounds deltas and updates.                                        *)
L(r) == INSTANCE AgentEvents WITH stream <- sent[r], closed <- loopDone[r]

Launched(r) == r < run \/ (r = run /\ caller \in {"setState", "free"})

LoopSend(r) ==
    /\ Launched(r)
    /\ Len(sent[r]) - taken[r] < LoopCap
    /\ \E e \in SentEvents[r] :
         /\ \A i \in 1..Len(sent[r]) : sent[r][i] # e
         /\ L(r)!May(e)
         /\ sent' = [sent EXCEPT ![r] = Append(@, e)]
    /\ UNCHANGED <<caller, run, stateVars, idleVars, loopDone, trackVars>>

LoopClose(r) ==
    /\ Launched(r)
    /\ L(r)!Over /\ ~loopDone[r]
    /\ loopDone' = [loopDone EXCEPT ![r] = TRUE]
    /\ UNCHANGED <<caller, run, stateVars, idleVars, sent, trackVars>>

Loop(r) == LoopSend(r) \/ LoopClose(r)

-----------------------------------------------------------------------------

(* The message an event adds to the history; none for the others. *)
Recorded(r, e) ==
    CASE e.type = "turn_end" /\ e.calls >= 0 -> <<Msg("assistant", r, e.turn, e.calls)>>
      [] e.type = "turn_end" /\ e.calls < 0 -> <<Msg("failure", r, e.turn, 0)>>
      [] e.type = "tool_end" -> <<Msg("tool", r, e.turn, e.call)>>
      [] e.type = "context_patch" -> <<Msg("patch", r, e.turn, e.call)>>
      [] OTHER -> <<>>

(* Lines 308-381, one event: each case holds a.mu once.  pendingTCs is     *)
(* local to the tracker, but always equal to state.PendingToolCalls while  *)
(* its run is the current one; the order of the calls in it tells nothing. *)
Record(r, e) ==
    /\ messages' = messages \o Recorded(r, e)
    /\ partial' = CASE e.type \in {"message_start", "message_update"} -> e.turn
                    [] e.type \in {"message_end", "turn_end"} -> 0
                    [] OTHER -> partial
    /\ pending' = CASE e.type = "tool_start" -> pending \cup {e.call}
                    [] e.type = "tool_end" -> pending \ {e.call}
                    [] OTHER -> pending
    /\ failed' = (failed \/ e.type = "error" \/ (e.type = "turn_end" /\ e.calls < 0))
    /\ UNCHANGED streaming

(* Mutant: the message of an event is recorded only when the next is taken. *)
TakeLate(r) ==
    /\ tracker[r] = "range"
    /\ taken[r] < Len(sent[r])
    /\ taken' = [taken EXCEPT ![r] = @ + 1]
    /\ IF taken[r] > 0 THEN Record(r, sent[r][taken[r]]) ELSE UNCHANGED stateVars
    /\ tracker' = [tracker EXCEPT ![r] = "forward"]
    /\ UNCHANGED <<caller, run, idleVars, loopVars, unread>>

Take(r) ==
    /\ tracker[r] = "range"
    /\ taken[r] < Len(sent[r])
    /\ taken' = [taken EXCEPT ![r] = @ + 1]
    /\ Record(r, sent[r][taken[r] + 1])
    /\ tracker' = [tracker EXCEPT ![r] = "forward"]
    /\ UNCHANGED <<caller, run, idleVars, loopVars, unread>>

(* Mutant: waiters are told before the state is reset. *)
LoopOverSignals(r) ==
    /\ tracker[r] = "range"
    /\ taken[r] = Len(sent[r]) /\ loopDone[r]
    /\ tracker' = [tracker EXCEPT ![r] = "reset"]
    /\ idle' = [idle EXCEPT ![r] = TRUE]
    /\ UNCHANGED <<caller, run, stateVars, cancelFn, idleCh, cancelled, loopVars, taken,
                   unread>>

LoopOver(r) ==
    /\ tracker[r] = "range"
    /\ taken[r] = Len(sent[r]) /\ loopDone[r]
    /\ tracker' = [tracker EXCEPT ![r] = "reset"]
    /\ UNCHANGED <<caller, run, stateVars, idleVars, loopVars, taken, unread>>

(* Mutant: an event is put into outCh without looking for room. *)
ForwardUnbounded(r) ==
    /\ tracker[r] = "forward"
    /\ unread' = [unread EXCEPT ![r] = @ + 1]
    /\ tracker' = [tracker EXCEPT ![r] = "range"]
    /\ UNCHANGED <<caller, run, stateVars, idleVars, loopVars, taken>>

(* Lines 391-395: the select takes either branch when both can be taken. *)
Forward(r) ==
    /\ tracker[r] = "forward"
    /\ unread[r] < OutCap
    /\ unread' = [unread EXCEPT ![r] = @ + 1]
    /\ tracker' = [tracker EXCEPT ![r] = "range"]
    /\ UNCHANGED <<caller, run, stateVars, idleVars, loopVars, taken>>

(* Mutant: the tracker waits for room whatever happens to its context. *)
GiveUpNever(r) == FALSE /\ UNCHANGED vars

GiveUp(r) ==
    /\ tracker[r] = "forward"
    /\ cancelled[r]
    /\ tracker' = [tracker EXCEPT ![r] = "reset"]
    /\ UNCHANGED <<caller, run, stateVars, idleVars, loopVars, taken, unread>>

(* The deferred calls, lines 286-300: state, idle channel, cancelFn, then  *)
(* cancel and the close of the caller's channel.                           *)
ResetState(r) ==
    /\ tracker[r] = "reset"
    /\ streaming' = FALSE /\ partial' = 0 /\ pending' = {}
    /\ tracker' = [tracker EXCEPT ![r] = "signal"]
    /\ UNCHANGED <<caller, run, messages, failed, idleVars, loopVars, taken, unread>>

SignalIdle(r) ==
    /\ tracker[r] = "signal"
    /\ idle' = [idle EXCEPT ![r] = TRUE]
    /\ tracker' = [tracker EXCEPT ![r] = "unset"]
    /\ UNCHANGED <<caller, run, stateVars, cancelFn, idleCh, cancelled, loopVars, taken,
                   unread>>

UnsetCancel(r) ==
    /\ tracker[r] = "unset"
    /\ cancelFn' = 0
    /\ tracker' = [tracker EXCEPT ![r] = "release"]
    /\ UNCHANGED <<caller, run, stateVars, idleCh, idle, cancelled, loopVars, taken,
                   unread>>

Release(r) ==
    /\ tracker[r] = "release"
    /\ cancelled' = [cancelled EXCEPT ![r] = TRUE]
    /\ unread' = [unread EXCEPT ![r] = 0]
    /\ tracker' = [tracker EXCEPT ![r] = "done"]
    /\ UNCHANGED <<caller, run, stateVars, cancelFn, idleCh, idle, loopVars, taken>>

Tracker(r) ==
    \/ Take(r) \/ LoopOver(r) \/ Forward(r) \/ GiveUp(r)
    \/ ResetState(r) \/ SignalIdle(r) \/ UnsetCancel(r) \/ Release(r)

-----------------------------------------------------------------------------
(* Abort, lines 187-193, from any goroutine at any time. *)
Abort ==
    /\ cancelFn # 0
    /\ cancelled' = [cancelled EXCEPT ![cancelFn] = TRUE]
    /\ UNCHANGED <<caller, run, stateVars, cancelFn, idleCh, idle, loopVars, trackVars>>

(* The caller takes an event; it need not take any. *)
Read(r) ==
    /\ unread[r] > 0
    /\ unread' = [unread EXCEPT ![r] = @ - 1]
    /\ UNCHANGED <<caller, run, stateVars, idleVars, loopVars, tracker, taken>>

Call == SetCancel \/ SetIdle \/ SetState

Next ==
    \/ Prompt \/ Continue \/ AppendMessage \/ Call \/ Abort
    \/ \E r \in Runs : Loop(r) \/ Tracker(r) \/ Read(r)

(* The scheduler runs every goroutine that can run, and a loop with room   *)
(* in its channel ends (AgentLoop, ChannelCloses); nobody has to call,     *)
(* abort or read.                                                          *)
Fairness ==
    /\ WF_vars(Call)
    /\ \A r \in Runs : WF_vars(Loop(r)) /\ WF_vars(Tracker(r))

Spec == Init /\ [][Next]_vars /\ Fairness

-----------------------------------------------------------------------------
Kinds == {"user", "appended", "assistant", "failure", "tool", "patch"}
TrackerLabels == {"none", "range", "forward", "reset", "signal", "unset", "release",
                  "done"}

(* Every variable has its type, both channels hold no more than they can,  *)
(* and a tracker is never ahead of its loop, nor a reader of its tracker.  *)
TypeOK ==
    /\ caller \in {"free", "setCancel", "setIdle", "setState"}
    /\ run \in 0..MaxRuns
    /\ messages \in Seq([kind : Kinds, run : 0..MaxRuns, turn : 0..MaxTurns,
                     n : 0..MaxCalls])
    /\ streaming \in BOOLEAN /\ failed \in BOOLEAN
    /\ partial \in 0..MaxTurns
    /\ pending \subseteq 0..MaxCalls
    /\ cancelFn \in 0..MaxRuns /\ idleCh \in 0..MaxRuns
    /\ idle \in [0..MaxRuns -> BOOLEAN]
    /\ cancelled \in [Runs -> BOOLEAN] /\ loopDone \in [Runs -> BOOLEAN]
    /\ sent \in [Runs -> Seq(Event)]
    /\ tracker \in [Runs -> TrackerLabels]
    /\ taken \in [Runs -> Nat] /\ unread \in [Runs -> 0..OutCap]
    /\ \A r \in Runs : /\ unread[r] <= taken[r] /\ taken[r] <= Len(sent[r])
                       /\ Len(sent[r]) - taken[r] <= LoopCap

(* A snapshot taken by someone who waited for idle is settled: no partial  *)
(* message, no pending call, not streaming (agent.go:288-296).             *)
IdleIsSettled ==
    idle[idleCh] => ~streaming /\ partial = 0 /\ pending = {}

(* What a run recorded stands between its own prompt and the next run's:   *)
(* a loop that was given up writes nothing into a later run's history.     *)
RunsDoNotMix ==
    \A i, j \in 1..Len(messages) : i < j => messages[i].run <= messages[j].run

(* Whoever has read an event finds its message in the history, in the      *)
(* order of the events, before acting on it (agent.go:306-395).            *)
HistoryBeforeEvent ==
    \A r \in Runs : tracker[r] = "range" => \A i \in 1..taken[r] :
        Recorded(r, sent[r][i]) # <<>> =>
            \E k \in 1..Len(messages) : <<messages[k]>> = Recorded(r, sent[r][i])

(* A tool result in the history stands behind the message that asked for   *)
(* it, with no other assistant message in between, whatever was aborted    *)
(* (agent.go:339-345).                                                     *)
ResultsFollowRequest ==
    \A i \in 1..Len(messages) : messages[i].kind = "tool" =>
        \E j \in 1..(i - 1) :
            /\ messages[j].kind = "assistant" /\ messages[j].n >= messages[i].n
            /\ messages[j].run = messages[i].run /\ messages[j].turn = messages[i].turn
            /\ \A k \in (j + 1)..(i - 1) : messages[k].kind # "assistant"

(* The history keeps step with what was sent and asked, together: no run   *)
(* writes into another's, none is behind its events, no result is astray.  *)
HistoryInStep == RunsDoNotMix /\ HistoryBeforeEvent /\ ResultsFollowRequest

(* An aborted run becomes idle even if its events are not read: AbortAndWait *)
(* returns (agent.go:204-213, 391-395).                                    *)
AbortIdles == \A r \in Runs : cancelled[r] ~> idle[r]

(* agent.go:186 says Abort "cancels the currently running agent loop. No-op *)
(* if the agent is idle": while a run is active, Abort reaches it.         *)
AbortReachesRun ==
    run > 0 /\ caller = "free" /\ ~idle[run] => cancelFn = run
================================================================================
