------------------------------ MODULE AgentEvents ------------------------------
(***************************************************************************)
(* What the channel returned by RunAgentLoop promises its reader, as a     *)
(* specification of the event stream alone (agentcore/types.go:31-51 and   *)
(* the header of agentcore/loop.go).  Readers such as Agent, the SafeAgent *)
(* orchestrator and the SSE handlers are written against this order:       *)
(*                                                                         *)
(*   agent_start                                                           *)
(*   ( turn_start  message*  turn_end  tool events  context_patch* )*      *)
(*   agent_end, or error, or turn_end of a synthetic error and agent_end   *)
(*                                                                         *)
(* An event carries the number of its turn, the tool call it is about (0   *)
(* if none), and, for turn_end, how many tool calls the message asks for.  *)
(***************************************************************************)
EXTENDS Integers, Sequences

CONSTANTS MaxTurns, MaxCalls

VARIABLES
    stream,   \* the events sent so far
    closed    \* the channel is closed

Ev(type, turn, call, calls) ==
    [type |-> type, turn |-> turn, call |-> call, calls |-> calls]

Seen(type, turn) ==
    \E i \in 1..Len(stream) : stream[i].type = type /\ stream[i].turn = turn

SeenCall(type, turn, c) ==
    \E i \in 1..Len(stream) :
        stream[i].type = type /\ stream[i].turn = turn /\ stream[i].call = c

AllToolsEnded(turn) ==
    \A i \in 1..Len(stream) :
        stream[i].type = "turn_end" /\ stream[i].turn = turn =>
            \A c \in 1..stream[i].calls : SeenCall("tool_end", turn, c)

Complete(turn) == turn = 0 \/ (Seen("turn_end", turn) /\ AllToolsEnded(turn))

Over == stream # <<>> /\ stream[Len(stream)].type \in {"agent_end", "error"}

(* The synthetic message of a failed loop has turn_end with calls = -1. *)
Failed == stream # <<>> /\ stream[Len(stream)].calls = -1

Started == stream # <<>> /\ ~Over /\ ~Failed

Turns == 1..MaxTurns
Calls == 1..MaxCalls

InMessage(t) == Seen("turn_start", t) /\ ~Seen("turn_end", t)

Asked(t, c) ==
    \E i \in 1..Len(stream) :
        stream[i].type = "turn_end" /\ stream[i].turn = t /\ stream[i].calls >= c

(* The last turn that was started. *)
Current(t) == IF t = 0 THEN \A u \in Turns : ~Seen("turn_start", u)
                       ELSE Seen("turn_start", t) /\ ~Seen("turn_start", t + 1)

(* A message that was started is ended before its turn is, and one that    *)
(* asks for tools was started.                                             *)
MessageMay(type, t) ==
    /\ InMessage(t) /\ ~Seen("message_end", t)
    /\ type \in {"message_update", "message_end"} => Seen("message_start", t)
    /\ type = "message_start" => ~Seen("message_start", t)

TurnEndMay(t, n) ==
    /\ InMessage(t)
    /\ n > 0 \/ Seen("message_start", t) => Seen("message_end", t)

(* Each call that was asked for starts once and then ends once; patches    *)
(* come after all results of the turn.                                     *)
ToolMay(type, t, c) ==
    CASE type = "tool_start" -> Asked(t, c) /\ ~SeenCall("tool_start", t, c)
      [] type \in {"tool_update", "tool_end"} ->
            SeenCall("tool_start", t, c) /\ ~SeenCall("tool_end", t, c)
      [] type = "context_patch" ->
            /\ SeenCall("tool_end", t, c) /\ AllToolsEnded(t)
            /\ ~SeenCall("context_patch", t, c)

(* May(e): the stream may go on with e.  A turn starts once the one before *)
(* it is complete: its message has been delivered and every tool call it   *)
(* asked for has ended.  A failed loop reports one synthetic message, then *)
(* ends.                                                                   *)
May(e) ==
    \/ e = Ev("agent_start", 0, 0, 0) /\ stream = <<>>
    \/ /\ Started
       /\ \E t \in Turns :
            \/ e = Ev("turn_start", t, 0, 0) /\ ~Seen("turn_start", t) /\ Complete(t - 1)
            \/ \E type \in {"delta", "message_start", "message_update", "message_end"} :
                 e = Ev(type, t, 0, 0) /\ MessageMay(type, t)
            \/ \E n \in 0..MaxCalls : e = Ev("turn_end", t, 0, n) /\ TurnEndMay(t, n)
            \/ \E c \in Calls :
                 \E type \in {"tool_start", "tool_update", "tool_end", "context_patch"} :
                    e = Ev(type, t, c, 0) /\ ToolMay(type, t, c)
    \/ /\ Started
       /\ \E t \in 0..MaxTurns :
            /\ e \in {Ev("turn_end", t, 0, -1), Ev("error", t, 0, 0)}
            /\ Current(t) /\ AllToolsEnded(t)
    \/ /\ stream # <<>> /\ ~Over
       /\ \E t \in 0..MaxTurns :
            /\ e = Ev("agent_end", t, 0, 0)
            /\ Current(t)
            /\ Failed \/ (t > 0 /\ Complete(t))

Types == {"agent_start", "turn_start", "delta", "message_start", "message_update",
          "message_end", "turn_end", "tool_start", "tool_update", "tool_end",
          "context_patch", "agent_end", "error"}

Send ==
    /\ ~closed /\ UNCHANGED closed
    /\ \E type \in Types, t \in 0..MaxTurns, c \in 0..MaxCalls, n \in -1..MaxCalls :
         LET e == Ev(type, t, c, n) IN stream' = Append(stream, e) /\ May(e)

Close == Over /\ ~closed /\ closed' = TRUE /\ UNCHANGED stream

Init == stream = <<>> /\ closed = FALSE

Next == Send \/ Close

Spec == Init /\ [][Next]_<<stream, closed>>
================================================================================
