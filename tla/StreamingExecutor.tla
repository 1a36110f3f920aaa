-------------------------- MODULE StreamingExecutor --------------------------
(***************************************************************************)
(* StreamingToolExecutor of tools/streaming_executor.go: tools are added   *)
(* as they stream in, run on goroutines of their own under a rule of       *)
(* exclusion, and their results are collected in order.                    *)
(*                                                                         *)
(* One client goroutine adds tools and collects results, as the query loop *)
(* the comments describe does; another may discard the executor, a third   *)
(* cancel the context.  A tool is its place in the stream; its kind says   *)
(* whether it may share the executor (a read), needs it for itself (a      *)
(* shell, whose failure cancels its siblings; one that never fails stands  *)
(* for every other such tool) or is not known.  Inputs, results and        *)
(* context modifiers are left out.                                         *)
(***************************************************************************)
EXTENDS Integers, Sequences

CONSTANTS
    N,         \* bound: tools added
    Streams,   \* the kinds of tools they may be, in the order of the stream
    MaxGets    \* bound: calls of the collecting operations

Tools == 1..N
Kinds == {"read", "shell", "unknown"}

ASSUME ExecutorAssumption ==
    N \in Nat /\ MaxGets \in Nat /\ Streams \subseteq [Tools -> Kinds]

VARIABLES
    kind,        \* kind[i] of the i-th tool of the stream
    added,       \* tools added
    status,      \* tools[i].Status; "absent" before AddTool
    exec,        \* control point of the goroutine executeTool(i)
    scans,       \* goroutines that are about to run processQueue
    hasErrored,
    discarded,
    cancelled,   \* toolCtx.Ctx is done
    client,      \* control point of the client
    marking,     \* its wait is one of GetRemainingResults
    gets,        \* collecting operations begun
    delivered    \* tools whose results were handed out and marked yielded

vars == <<kind, added, status, exec, scans, hasErrored, discarded, cancelled,
          client, marking, gets, delivered>>
flags == <<hasErrored, discarded, cancelled>>
clientVars == <<client, marking, gets, delivered>>

(* IsConcurrencySafe; a tool that is not known counts as safe (line 124). *)
Safe(i) == kind[i] \in {"read", "unknown"}

Init ==
    /\ kind \in Streams
    /\ added = 0
    /\ status = [i \in Tools |-> "absent"]
    /\ exec = [i \in Tools |-> "none"]
    /\ scans = 0
    /\ hasErrored = FALSE /\ discarded = FALSE /\ cancelled = FALSE
    /\ client = "free" /\ marking = FALSE /\ gets = 0 /\ delivered = <<>>

(* completedCond.Broadcast() wakes the client if it sleeps on the          *)
(* condition; a client that has seen that not all is done, but is not yet  *)
(* on the list of sleepers, is not woken: no caller of Broadcast holds L.  *)
Woken == IF client = "asleep" THEN "check" ELSE client

-----------------------------------------------------------------------------
(* AddTool, lines 113-145.  Its Broadcast for a tool that is not known     *)
(* finds nobody asleep: the client is here.                                *)
AddTool ==
    /\ client = "free" /\ added < N
    /\ added' = added + 1
    /\ IF kind[added + 1] = "unknown"
         THEN status' = [status EXCEPT ![added + 1] = "completed"] /\ UNCHANGED scans
         ELSE status' = [status EXCEPT ![added + 1] = "queued"] /\ scans' = scans + 1
    /\ UNCHANGED <<kind, exec, flags, clientVars>>

Queued    == {i \in Tools : status[i] = "queued"}
Executing == {i \in Tools : status[i] = "executing"}

(* Mutant: one of two tools that share the executor has to be safe. *)
CompatibleEither(i, j) == Safe(i) \/ Safe(j)

(* canExecute, lines 224-233. *)
Compatible(i, j) == Safe(i) /\ Safe(j)

(* The tools one scan of the queue starts, lines 202-220: each queued tool *)
(* in turn, if it is compatible with those executing and those the scan    *)
(* has started; the first that needs the executor for itself and cannot    *)
(* have it ends the scan.  So none starts beside a queued one before it    *)
(* with which it is not compatible, started or not.                        *)
Startable ==
    {i \in Queued : /\ \A j \in Executing : Compatible(i, j)
                    /\ \A j \in Queued : j < i => Compatible(i, j)}

(* processQueue, lines 198-221: under e.mu, in one step. *)
ProcessQueue ==
    /\ scans > 0
    /\ scans' = scans - 1
    /\ IF discarded
         THEN /\ status' = [i \in Tools |-> IF i \in Queued THEN "completed" ELSE status[i]]
              /\ client' = IF Queued # {} THEN Woken ELSE client
              /\ UNCHANGED exec
         ELSE /\ status' = [i \in Tools |-> IF i \in Startable THEN "executing" ELSE status[i]]
              /\ exec' = [i \in Tools |-> IF i \in Startable THEN "start" ELSE exec[i]]
              /\ UNCHANGED client
    /\ UNCHANGED <<kind, added, flags, marking, gets, delivered>>

-----------------------------------------------------------------------------
(* getAbortReason, lines 405-419. *)
AbortReason ==
    IF discarded THEN "discarded"
    ELSE IF hasErrored THEN "sibling"
    ELSE IF cancelled THEN "interrupted" ELSE "none"

(* Mutant: the synthetic result replaces no status. *)
CompleteQuietly(i) ==
    /\ exec' = [exec EXCEPT ![i] = "completed"]
    /\ status' = IF exec[i] = "aborted" THEN status ELSE [status EXCEPT ![i] = "completed"]

(* A result and the status completed are stored under one lock, lines      *)
(* 323-334, 342-348 and 444-450.                                           *)
Complete(i) ==
    /\ status' = [status EXCEPT ![i] = "completed"]
    /\ exec' = [exec EXCEPT ![i] = "completed"]

(* executeTool, lines 237-338: first the abort check ... *)
CheckAbort(i) ==
    /\ exec[i] = "start"
    /\ exec' = [exec EXCEPT ![i] = IF AbortReason = "none" THEN "checked" ELSE "aborted"]
    /\ UNCHANGED <<kind, added, status, scans, flags, clientVars>>

(* ... whose synthetic result is stored under a lock of its own, ... *)
Synthesise(i) ==
    /\ exec[i] = "aborted"
    /\ Complete(i)
    /\ UNCHANGED <<kind, added, scans, flags, clientVars>>

(* ... then validation and permission, and the call.  An error of a shell  *)
(* cancels its siblings before it is stored.                               *)
Refuse(i) ==
    /\ exec[i] = "checked"
    /\ Complete(i)
    /\ UNCHANGED <<kind, added, scans, flags, clientVars>>

Call(i) ==
    /\ exec[i] = "checked"
    /\ exec' = [exec EXCEPT ![i] = "called"]
    /\ \/ UNCHANGED hasErrored
       \/ kind[i] = "shell" /\ hasErrored' = TRUE
    /\ UNCHANGED <<kind, added, status, scans, discarded, cancelled, clientVars>>

Store(i) ==
    /\ exec[i] = "called"
    /\ Complete(i)
    /\ UNCHANGED <<kind, added, scans, flags, clientVars>>

(* Mutant: the queue is not looked at once a shell has failed. *)
AnnounceOk(i) ==
    /\ exec[i] = "completed"
    /\ client' = Woken
    /\ scans' = IF hasErrored THEN scans ELSE scans + 1
    /\ exec' = [exec EXCEPT ![i] = "ended"]
    /\ UNCHANGED <<kind, added, status, flags, marking, gets, delivered>>

(* Broadcast and go processQueue, without any lock. *)
Announce(i) ==
    /\ exec[i] = "completed"
    /\ client' = Woken
    /\ scans' = scans + 1
    /\ exec' = [exec EXCEPT ![i] = "ended"]
    /\ UNCHANGED <<kind, added, status, flags, marking, gets, delivered>>

ExecuteTool(i) ==
    \/ CheckAbort(i) \/ Synthesise(i) \/ Refuse(i) \/ Call(i) \/ Store(i) \/ Announce(i)

-----------------------------------------------------------------------------
(* Mutant: tools that are not completed are skipped. *)
YieldableSkipping == {i \in Tools : status[i] = "completed"}

(* GetCompletedResults, lines 149-162: the first tools, as long as they    *)
(* are completed; one that was yielded before ends the scan like any other *)
(* that is not completed.                                                  *)
Yieldable == {i \in Tools : \A j \in 1..i : status[j] = "completed"}

InOrder(s) ==
    {f \in UNION {[1..n -> s] : n \in 0..N} :
        /\ \A k, l \in DOMAIN f : k < l => f[k] < f[l]
        /\ \A i \in s : \E k \in DOMAIN f : f[k] = i}

Yield(s) ==
    /\ status' = [i \in Tools |-> IF i \in s THEN "yielded" ELSE status[i]]
    /\ \E results \in InOrder(s) : delivered' = delivered \o results

GetCompletedResults ==
    /\ client = "free" /\ gets < MaxGets
    /\ gets' = gets + 1
    /\ Yield(Yieldable)
    /\ UNCHANGED <<kind, added, exec, scans, flags, client, marking>>

(* GetRemainingResults, lines 359-385, and GetAllResults, 165-183, wait    *)
(* alike; a discarded executor has no remaining results.                   *)
AwaitResults ==
    /\ client = "free" /\ gets < MaxGets
    /\ gets' = gets + 1
    /\ \/ ~discarded /\ marking' = TRUE
       \/ marking' = FALSE
    /\ client' = "check"
    /\ UNCHANGED <<kind, added, status, exec, scans, flags, delivered>>

AllDone == \A i \in Tools : status[i] \notin {"queued", "executing"}

CheckDone ==
    /\ client = "check"
    /\ client' = IF AllDone THEN "collect" ELSE "wait"
    /\ UNCHANGED <<kind, added, status, exec, scans, flags, marking, gets, delivered>>

(* completedCond.Wait() puts the caller on the list of sleepers. *)
Wait ==
    /\ client = "wait"
    /\ client' = "asleep"
    /\ UNCHANGED <<kind, added, status, exec, scans, flags, marking, gets, delivered>>

(* GetRemainingResults marks what it returns; GetAllResults returns every  *)
(* result, those handed out before too, and marks none.                    *)
Collect ==
    /\ client = "collect"
    /\ client' = "free" /\ marking' = FALSE
    /\ IF marking THEN Yield({i \in Tools : status[i] = "completed"})
                  ELSE UNCHANGED <<status, delivered>>
    /\ UNCHANGED <<kind, added, exec, scans, flags, gets>>

Client == CheckDone \/ Wait \/ Collect

(* Discard, lines 105-110: it starts no scan of the queue. *)
Discard ==
    /\ ~discarded
    /\ discarded' = TRUE
    /\ UNCHANGED <<kind, added, status, exec, scans, hasErrored, cancelled, client,
                   marking, gets, delivered>>

Interrupt ==
    /\ ~cancelled
    /\ cancelled' = TRUE
    /\ UNCHANGED <<kind, added, status, exec, scans, hasErrored, discarded, client,
                   marking, gets, delivered>>

Next ==
    \/ AddTool \/ ProcessQueue \/ GetCompletedResults \/ AwaitResults \/ Client
    \/ Discard \/ Interrupt
    \/ \E i \in Tools : ExecuteTool(i)

(* The scheduler runs every goroutine, and a call of a tool returns: its   *)
(* context ends it if nothing else does.  Nobody has to add or collect.    *)
Fairness ==
    /\ WF_vars(ProcessQueue) /\ WF_vars(Client)
    /\ \A i \in Tools : WF_vars(ExecuteTool(i))

Spec == Init /\ [][Next]_vars /\ Fairness

-----------------------------------------------------------------------------
Statuses == {"absent", "queued", "executing", "completed", "yielded"}
ExecLabels == {"none", "start", "aborted", "checked", "called", "completed", "ended"}
ClientLabels == {"free", "check", "wait", "asleep", "collect"}

(* Every variable has its type, and a tool is executing exactly while its  *)
(* goroutine has no result yet.                                            *)
TypeOK ==
    /\ kind \in [Tools -> Kinds]
    /\ added \in 0..N
    /\ status \in [Tools -> Statuses]
    /\ exec \in [Tools -> ExecLabels]
    /\ scans \in Nat /\ gets \in 0..MaxGets
    /\ hasErrored \in BOOLEAN /\ discarded \in BOOLEAN /\ cancelled \in BOOLEAN
    /\ client \in ClientLabels /\ marking \in BOOLEAN
    /\ delivered \in Seq(Tools)
    /\ \A i \in Tools :
         /\ status[i] = "absent" <=> i > added
         /\ status[i] = "executing" <=> exec[i] \in {"start", "aborted", "checked", "called"}

(* "Non-concurrent tools execute alone": a tool that may not share the     *)
(* executor is never executing beside another (lines 54, 224-233).         *)
Exclusive ==
    \A i, j \in Tools :
        i # j /\ status[i] = "executing" /\ status[j] = "executing" => Safe(i) /\ Safe(j)

(* No tool overtakes one that was asked for before it: as long as a tool   *)
(* is queued, every known tool behind it is (line 218).                    *)
StartsInOrder ==
    \A i, j \in Tools :
        i < j /\ status[i] = "queued" /\ kind[j] # "unknown"
            => status[j] \in {"absent", "queued"}

(* Which tools run together, and in which order they are started. *)
SchedulingKept == Exclusive /\ StartsInOrder

(* Results are handed out in the order of the stream and each at most once *)
(* (lines 55, 148), however the tools end and whichever operation collects *)
(* them.                                                                   *)
DeliveredInOrderOnce ==
    \A i, j \in 1..Len(delivered) : i < j => delivered[i] < delivered[j]

(* The executor keeps the promise of ToolCalls (lines 51-56): a tool that  *)
(* is known starts when those before it allow it, and its result is handed *)
(* out once, in turn, after it and all before it have ended.               *)
Over == {i \in Tools : status[i] \in {"completed", "yielded"}}

Promised ==
    INSTANCE ToolCalls WITH
        MaxCalls <- N,
        safe     <- {i \in Tools : Safe(i)},
        running  <- Executing,
        over     <- Over,
        given    <- delivered

KeepsPromise == Promised!Spec

(* Every tool that was added gets a result, whatever fails, is discarded   *)
(* or is cancelled meanwhile: none stays in the queue for want of a scan.  *)
AllSettle == \A i \in Tools : status[i] = "queued" ~> status[i] \in {"completed", "yielded"}

(* streaming_executor.go:164 says GetAllResults "blocks until all tools    *)
(* are completed and returns all results", and 353 that GetRemainingResults *)
(* "waits for all in-flight tools to complete": the wait ends.             *)
WaitEnds == client = "check" ~> client = "collect"
================================================================================
