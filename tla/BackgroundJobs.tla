---------------------------- MODULE BackgroundJobs ----------------------------
(***************************************************************************)
(* A background shell job of tools/bg/manager.go: the goroutine that runs  *)
(* it, and the tool calls (TaskOutput, TaskStop) that read and stop it at  *)
(* the same time.  The jobs of a manager share nothing but the map that    *)
(* holds them, so one job is modelled.  Output is counted in chunks; the   *)
(* runner is a shell of tools/bash or tools/powershell, which ends when    *)
(* its context does.                                                       *)
(***************************************************************************)
EXTENDS Integers

CONSTANTS
    Callers,   \* tool calls that may be going on at once
    Cap        \* chunks the output buffer holds (maxOutputBytes)

ASSUME BackgroundJobsAssumption == Cap \in Nat

VARIABLES
    registered,  \* the job is in m.jobs
    runner,      \* control point of the job's goroutine
    failed,      \* its runner returned an error
    cancelled,   \* ctx is cancelled
    written,     \* chunks in the buffer
    truncated,   \* chunks were dropped because the buffer was full
    jobStatus,   \* st.job.Status
    cursor,      \* st.outputCursor
    pc,          \* control point of each caller
    snap,        \* the chunks in the snapshot a caller holds
    read         \* chunks some incremental read has returned

jobState == <<registered, runner, failed, cancelled, written, truncated, jobStatus>>
jobsVars == <<registered, runner, failed, cancelled, written, truncated, jobStatus,
          cursor, pc, snap, read>>

JobsInit ==
    /\ registered = FALSE
    /\ runner = "none"
    /\ failed = FALSE /\ cancelled = FALSE
    /\ written = 0 /\ truncated = FALSE
    /\ jobStatus = "none"
    /\ cursor = 0
    /\ pc = [c \in Callers |-> "idle"]
    /\ snap = [c \in Callers |-> 0]
    /\ read = {}

-----------------------------------------------------------------------------
(* Start, lines 109-148. *)
StartJob ==
    /\ runner = "none"
    /\ registered' = TRUE
    /\ runner' = "running"
    /\ jobStatus' = "running"
    /\ UNCHANGED <<failed, cancelled, written, truncated, cursor, pc, snap, read>>

(* Mutant: the limit of the buffer is tested after the write. *)
WriteOver ==
    /\ runner = "running" /\ ~truncated
    /\ written' = written + 1
    /\ truncated' = (written >= Cap)
    /\ UNCHANGED <<registered, runner, failed, cancelled, jobStatus, cursor, pc, snap, read>>

(* chunkedBuffer.Write. *)
Write ==
    /\ runner = "running"
    /\ IF written < Cap
         THEN written' = written + 1 /\ UNCHANGED truncated
         ELSE truncated' = TRUE /\ UNCHANGED written
    /\ UNCHANGED <<registered, runner, failed, cancelled, jobStatus, cursor, pc, snap, read>>

Return ==
    /\ runner = "running"
    /\ runner' = "returned"
    /\ failed' \in BOOLEAN
    /\ UNCHANGED <<registered, cancelled, written, truncated, jobStatus, cursor, pc, snap, read>>

(* The outcome is recorded under m.mu ... *)
Record ==
    /\ runner = "returned"
    /\ runner' = "recorded"
    /\ jobStatus' = IF ~failed THEN "succeeded" ELSE IF cancelled THEN "cancelled" ELSE "failed"
    /\ UNCHANGED <<registered, failed, cancelled, written, truncated, cursor, pc, snap, read>>

(* ... and done is closed after the lock is given back. *)
Done ==
    /\ runner = "recorded"
    /\ runner' = "done"
    /\ UNCHANGED <<registered, failed, cancelled, written, truncated, jobStatus, cursor,
                   pc, snap, read>>

-----------------------------------------------------------------------------
Goto(c, label) == pc' = [pc EXCEPT ![c] = label]

(* What st.output.Snapshot returns, under the lock of the buffer alone. *)
Snapshot(c) == snap' = [snap EXCEPT ![c] = written]

(* ReadOutput, lines 184-207: the snapshot is taken first, ... *)
ReadSnapshot(c) ==
    /\ pc[c] = "idle" /\ registered
    /\ Snapshot(c)
    /\ Goto(c, "reading")
    /\ UNCHANGED <<jobState, cursor, read>>

(* Mutant: the cursor goes to the end of the buffer, not of the snapshot. *)
ReadAdvanceToEnd(c) ==
    /\ pc[c] = "reading"
    /\ read' = read \cup {k \in 1..snap[c] : k > cursor}
    /\ cursor' = written
    /\ Goto(c, "idle")
    /\ UNCHANGED <<jobState, snap>>

(* ... and the slice and the cursor under m.mu, when another caller may    *)
(* have moved the cursor past the snapshot: it is then moved back.         *)
ReadAdvance(c) ==
    /\ pc[c] = "reading"
    /\ read' = read \cup {k \in 1..snap[c] : k > cursor}
    /\ cursor' = snap[c]
    /\ Goto(c, "idle")
    /\ UNCHANGED <<jobState, snap>>

(* A read that is not incremental leaves the cursor. *)
ReadFull(c) ==
    /\ pc[c] = "reading"
    /\ Goto(c, "idle")
    /\ UNCHANGED <<jobState, cursor, snap, read>>

(* Stop, lines 228-242, and WaitForTerminal, 260-275, wait for done; the   *)
(* first gives up after a timeout, the second when its context ends.  Both *)
(* return what Get finds.                                                  *)
StopJob(c) ==
    /\ pc[c] = "idle" /\ registered
    /\ cancelled' = TRUE
    /\ Goto(c, "waiting")
    /\ UNCHANGED <<registered, runner, failed, written, truncated, jobStatus, cursor, snap, read>>

WaitForTerminal(c) ==
    /\ pc[c] = "idle" /\ registered
    /\ Goto(c, "waiting")
    /\ UNCHANGED <<jobState, cursor, snap, read>>

SeeDone(c) ==
    /\ pc[c] = "waiting" /\ runner = "done"
    /\ Goto(c, "ended")
    /\ UNCHANGED <<jobState, cursor, snap, read>>

GiveUp(c) ==
    /\ pc[c] = "waiting"
    /\ Goto(c, "gave up")
    /\ UNCHANGED <<jobState, cursor, snap, read>>

(* Get and snapshot, lines 151-179: output before status.  A job that was  *)
(* removed meanwhile is not found, and the call answers with an empty Job. *)
GetSnapshot(c) ==
    /\ pc[c] \in {"ended", "gave up"} /\ registered
    /\ Snapshot(c)
    /\ Goto(c, IF pc[c] = "ended" THEN "final" ELSE "answer")
    /\ UNCHANGED <<jobState, cursor, read>>

GetNothing(c) ==
    /\ pc[c] \in {"ended", "gave up"} /\ ~registered
    /\ Goto(c, "idle")
    /\ UNCHANGED <<jobState, cursor, snap, read>>

GetStatus(c) ==
    /\ pc[c] \in {"final", "answer"}
    /\ Goto(c, "idle")
    /\ UNCHANGED <<jobState, cursor, snap, read>>

(* Remove, lines 245-257. *)
RemoveJob ==
    /\ registered /\ jobStatus # "running"
    /\ registered' = FALSE
    /\ UNCHANGED <<runner, failed, cancelled, written, truncated, jobStatus, cursor, pc,
                   snap, read>>

Job == StartJob \/ Write \/ Return \/ Record \/ Done

Call(c) ==
    \/ ReadSnapshot(c) \/ ReadAdvance(c) \/ ReadFull(c)
    \/ StopJob(c) \/ WaitForTerminal(c) \/ SeeDone(c) \/ GiveUp(c)
    \/ GetSnapshot(c) \/ GetNothing(c) \/ GetStatus(c)

JobsNext == Job \/ RemoveJob \/ \E c \in Callers : Call(c)

JobsSpec == JobsInit /\ [][JobsNext]_jobsVars

-----------------------------------------------------------------------------
JobStatuses == {"none", "running", "succeeded", "failed", "cancelled"}
RunnerLabels == {"none", "running", "returned", "recorded", "done"}
CallerLabels == {"idle", "reading", "waiting", "ended", "gave up", "final", "answer"}

(* Every variable has its type, the buffer keeps its limit, and the status *)
(* is terminal exactly once the outcome is recorded.                       *)
JobsTypeOK ==
    /\ registered \in BOOLEAN /\ failed \in BOOLEAN
    /\ cancelled \in BOOLEAN /\ truncated \in BOOLEAN
    /\ runner \in RunnerLabels
    /\ written \in 0..Cap
    /\ jobStatus \in JobStatuses
    /\ cursor \in 0..written
    /\ pc \in [Callers -> CallerLabels]
    /\ snap \in [Callers -> 0..written]
    /\ read \subseteq 1..Cap
    /\ jobStatus = "none" <=> runner = "none"
    /\ jobStatus = "running" <=> runner \in {"running", "returned"}

(* Incremental reads that overlap may repeat output but never skip any:    *)
(* all that lies before the cursor has been returned to some caller (lines *)
(* 191-199).                                                               *)
NothingSkipped == 1..cursor \subseteq read

(* "WaitForTerminal blocks until the job terminates" (line 259): what a    *)
(* caller that saw the job end is told is final: a terminal status and the *)
(* whole output, although output and status are read one after the other.  *)
WaitedIsFinal ==
    \A c \in Callers : pc[c] = "final" => jobStatus \notin {"none", "running"} /\ snap[c] = written

(* What readers and waiters are told of a job, together. *)
OutputTold == NothingSkipped /\ WaitedIsFinal
===============================================================================
