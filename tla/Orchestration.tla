---------------------------- MODULE Orchestration ----------------------------
(***************************************************************************)
(* Orchestrator of tools/orchestration.go: the calls of one message in     *)
(* groups, the safe ones that follow each other at once on an errgroup,    *)
(* every other one on its own.  A call is its place in the message.        *)
(***************************************************************************)
EXTENDS Integers, Sequences, SequencesExt, FiniteSets, Selections

CONSTANTS
    MaxCalls    \* bound: calls of a message

ASSUME CallsAssumption == MaxCalls \in Nat

VARIABLES
    callKind,    \* "safe", "exclusive" or "unknown" of each call
    groupFrom, groupTo, \* the group begun last, from its first call to its last
    run,         \* of each call: "waiting", "running" or how it ended
    results,     \* calls answered, in the order of result.Messages
    interrupted, \* ctx is done
    runTools     \* "groups" between two groups, "group" within one, "returned"

orchestrationVars == <<callKind, groupFrom, groupTo, run, results, interrupted, runTools>>

(* A tool that is not found is not safe. *)
IsSafe(i) == callKind[i] = "safe"

(* Mutant: an exclusive call joins the safe ones it should have flushed. *)
GroupUnflushed(i, j) ==
    /\ \A k \in i..(j - 1) : IsSafe(k)
    /\ j < Len(callKind) => ~IsSafe(j)

(* partitionToolCalls: the group that begins with call i ends with call j. *)
Group(i, j) ==
    /\ \A k \in i..j : k = i \/ (IsSafe(i) /\ IsSafe(k))
    /\ IsSafe(i) /\ j < Len(callKind) => ~IsSafe(j + 1)

Current == groupFrom..groupTo

OrchestrationInit ==
    /\ callKind \in SeqOf({"safe", "exclusive", "unknown"}, MaxCalls) \ {<<>>}
    /\ groupFrom = 1 /\ groupTo = 0
    /\ results = <<>> /\ interrupted = FALSE /\ runTools = "groups"
    /\ run = [i \in 1..Len(callKind) |-> "waiting"]

-----------------------------------------------------------------------------
NextGroup ==
    /\ runTools = "groups" /\ ~interrupted
    /\ \E j \in (groupTo + 1)..Len(callKind) : Group(groupTo + 1, j) /\ groupTo' = j
    /\ groupFrom' = groupTo + 1 /\ runTools' = "group"
    /\ UNCHANGED <<callKind, run, results, interrupted>>

(* A cancel seen before a group: the calls of that group are answered, and *)
(* RunTools returns.                                                       *)
StopBeforeGroup ==
    /\ runTools = "groups" /\ interrupted
    /\ \E j \in (groupTo + 1)..Len(callKind) :
          /\ Group(groupTo + 1, j)
          /\ results' = results \o Ascending((groupTo + 1)..j)
    /\ runTools' = "returned"
    /\ UNCHANGED <<callKind, groupFrom, groupTo, run, interrupted>>

ReturnResults ==
    /\ runTools = "groups" /\ groupTo = Len(callKind)
    /\ runTools' = "returned"
    /\ UNCHANGED <<callKind, groupFrom, groupTo, run, results, interrupted>>

(* A call of the group begins, on its goroutine if there are others. *)
StartCall(i) ==
    /\ runTools = "group" /\ i \in Current /\ run[i] = "waiting"
    /\ groupFrom = groupTo => ~interrupted
    /\ run' = [run EXCEPT ![i] = "running"]
    /\ UNCHANGED <<callKind, groupFrom, groupTo, results, interrupted, runTools>>

(* A call on its own is not begun after a cancel. *)
SkipCall(i) ==
    /\ runTools = "group" /\ i = groupFrom /\ i = groupTo /\ run[i] = "waiting" /\ interrupted
    /\ run' = [run EXCEPT ![i] = "error"]
    /\ UNCHANGED <<callKind, groupFrom, groupTo, results, interrupted, runTools>>

(* executeSingleTool: not found, not valid, not permitted or failed is an  *)
(* error message; a tool may also give no result or no block of it.        *)
EndCall(i) ==
    /\ runTools = "group" /\ i \in Current /\ run[i] = "running"
    /\ \E outcome \in IF callKind[i] = "unknown" THEN {"error"} ELSE {"error", "result", "nothing"} :
         run' = [run EXCEPT ![i] = outcome]
    /\ UNCHANGED <<callKind, groupFrom, groupTo, results, interrupted, runTools>>

(* All of the group has ended; the results are taken in the calls' order. *)
CollectGroup ==
    /\ runTools = "group" /\ \A i \in Current : run[i] \notin {"waiting", "running"}
    /\ results' = results \o Ascending({i \in Current : run[i] \in {"error", "result"}})
    /\ runTools' = "groups"
    /\ UNCHANGED <<callKind, groupFrom, groupTo, run, interrupted>>

Interrupt ==
    /\ ~interrupted /\ runTools # "returned"
    /\ interrupted' = TRUE
    /\ UNCHANGED <<callKind, groupFrom, groupTo, run, results, runTools>>

OrchestrationNext ==
    \/ NextGroup \/ StopBeforeGroup \/ ReturnResults \/ CollectGroup \/ Interrupt
    \/ \E i \in 1..Len(callKind) : StartCall(i) \/ SkipCall(i) \/ EndCall(i)

-----------------------------------------------------------------------------
OrchestrationTypeOK ==
    /\ groupFrom \in 1..(groupTo + 1) /\ groupTo \in 0..Len(callKind)
    /\ DOMAIN run = 1..Len(callKind)
    /\ \A i \in DOMAIN run : run[i] \in {"waiting", "running", "error", "result", "nothing"}
    /\ runTools \in {"groups", "group", "returned"}
    /\ \A k \in 1..Len(results) : results[k] \in DOMAIN run

(* What the model reads back is in the order of its calls, each answered   *)
(* once; every call before one that runs has ended, but for safe ones      *)
(* beside a safe one; what a cancel leaves without an answer comes after   *)
(* all that was answered, and nothing is left if nobody cancelled and      *)
(* every tool gave something (orchestration.go:42-97).                     *)
OneAnswerEachInOrder ==
    /\ \A j, k \in 1..Len(results) : j < k => results[j] < results[k]
    /\ \A i, j \in DOMAIN run :
          i < j /\ run[j] = "running" =>
              run[i] \notin {"waiting", "running"} \/ \A k \in i..j : IsSafe(k)
    /\ \A k \in 1..Len(results) : \A i \in 1..results[k] :
          run[i] = "nothing" \/ i \in ToSet(results)
    /\ runTools = "returned" /\ ~interrupted =>
          {i \in DOMAIN run : run[i] # "nothing"} = ToSet(results)

(* RunTools keeps the promise of ToolCalls (orchestration.go:42-97): a     *)
(* call begins once those before it allow it, and is answered once, in     *)
(* turn, when it and all before it are over.                               *)
RunningCalls == {i \in DOMAIN run : run[i] = "running"}
OverCalls    == {i \in DOMAIN run : run[i] \notin {"waiting", "running"}} \cup ToSet(results)

Promised ==
    INSTANCE ToolCalls WITH
        safe    <- {i \in DOMAIN callKind : IsSafe(i)},
        running <- RunningCalls,
        over    <- OverCalls,
        given   <- results

CallsKeepPromise == Promised!Spec
==============================================================================
