------------------------------- MODULE ToolCalls -------------------------------
(***************************************************************************)
(* What both ways of running the tool calls of a message promise, as a     *)
(* specification of the calls alone: Orchestrator, which has the whole     *)
(* message (tools/orchestration.go:42-97), and StreamingToolExecutor,      *)
(* which sees the calls as they stream in (streaming_executor.go:50-56).   *)
(*                                                                         *)
(* A call begins once every call before it is over, or may run beside it;  *)
(* answers are given in the order of the calls, each once, and never that  *)
(* of a call that still runs or that has one before it which is not over.  *)
(* A call may be over that never began, as when it is refused, and a call  *)
(* may be answered that did not run, as when it is cancelled.              *)
(***************************************************************************)
EXTENDS Integers, Sequences

CONSTANTS MaxCalls    \* bound: calls of a message

VARIABLES
    safe,      \* calls that may run beside others that may
    running,
    over,      \* calls that have ended, or been answered
    given      \* calls answered, in the order of the answers

(* The calls, by their places in the message. *)
Calls == 1..MaxCalls

(* A call may begin, or be answered, however many do in the same step. *)
MayBegin(i, j) == i \in over \/ {i, j} \subseteq safe

Begin(S) ==
    /\ S \cap (running \cup over) = {}
    /\ \A j \in S, i \in Calls : i < j => MayBegin(i, j)
    /\ running' = running \cup S
    /\ UNCHANGED <<safe, over, given>>

End(S) ==
    /\ S \cap over = {}
    /\ over' = over \cup S
    /\ running' = running \ S
    /\ UNCHANGED <<safe, given>>

(* The calls S one after the other. *)
InTurn(S) ==
    {f \in UNION {[1..n -> S] : n \in 0..MaxCalls} :
        /\ \A k, l \in DOMAIN f : k < l => f[k] < f[l]
        /\ \A i \in S : \E k \in DOMAIN f : f[k] = i}

Answer(S) ==
    /\ S \cap running = {}
    /\ \A k \in DOMAIN given, j \in S : given[k] < j
    /\ over' = over \cup S
    /\ \A j \in S, i \in Calls : i < j => i \in over'
    /\ \E f \in InTurn(S) : given' = given \o f
    /\ UNCHANGED <<safe, running>>

Init == safe \in SUBSET Calls /\ running = {} /\ over = {} /\ given = <<>>

Next == \E S \in SUBSET Calls : Begin(S) \/ End(S) \/ Answer(S)

Spec == Init /\ [][Next]_<<safe, running, over, given>>
================================================================================
