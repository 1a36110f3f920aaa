----------------------------- MODULE VideoSession -----------------------------
(***************************************************************************)
(* The sliding-window inspection session of safeagent/video_session.go.    *)
(*                                                                         *)
(* HTTP handlers call Submit, one handler (or the two-hour timer) calls    *)
(* Stop, one goroutine per started frame runs the agent pipeline, a        *)
(* cleaner closes the event channel, and an SSE handler consumes it.       *)
(*                                                                         *)
(* A job is named by the order in which Submit accepted it (1, 2, ...);    *)
(* idxOf[j] is the frame index the client gave it, which need not grow,    *)
(* because the browser posts frames without waiting for one another.       *)
(* The mutex s.mu is free, or held by a Submit (submitPc # "free"), or by  *)
(* the end of a frame (some pc[j] = "finishing").  Stop and getPendingIdx  *)
(* hold it for one step only.                                              *)
(***************************************************************************)
EXTENDS Integers, Sequences, FiniteSets

CONSTANTS
    MaxJobs,      \* bound: number of Submit calls that find the session open
    FrameOrders,  \* the indices the frames may carry, in the order they are accepted
    HistoryCap,   \* submitted frames remembered (100 in the code)
    WindowSize,   \* frames handed to the pipeline (3 in the code)
    EventCap,     \* capacity of eventCh (256 in the code)
    MaxProgress   \* bound: events one run of the pipeline produces

ASSUME VideoSessionAssumption ==
    /\ MaxJobs \in Nat \ {0}
    /\ FrameOrders \subseteq [1..MaxJobs -> Int]
    /\ HistoryCap \in Nat \ {0}
    /\ WindowSize \in Nat \ {0}
    /\ EventCap \in Nat \ {0}
    /\ MaxProgress \in Nat

Jobs == 1..MaxJobs
None == 0                        \* the nil *FrameJob

VARIABLES
    submitted,    \* number of accepted jobs; the newest one is this number
    submitPc,     \* progress of the Submit that holds s.mu
    idxOf,        \* FrameJob.Idx
    running,      \* s.running
    pending,      \* s.pending
    cancelRun,    \* the job whose cancel function s.cancelRun holds
    cancelled,    \* jobs whose context has been cancelled
    pc,           \* control point of each job's runFrame goroutine
    window,       \* the frames a job's pipeline is given
    progress,     \* events the job's pipeline has produced
    stopPc,       \* "open", "cancelled" (cancelRun called), "closed" (closeCh closed)
    events,       \* contents of eventCh
    eventsClosed, \* eventCh is closed
    panicked      \* a send hit the closed eventCh: the process is gone, no action is left

sessionVars == <<running, pending, cancelRun, cancelled>>
runnerVars  == <<pc, window, progress>>
channelVars == <<events, panicked>>
vars == <<submitted, submitPc, idxOf, running, pending, cancelRun,
          cancelled, pc, window, progress, stopPc, events, eventsClosed, panicked>>

(* Goroutines counted by s.wg: from wg.Add to wg.Done. *)
Live == {"window", "ranging", "forward", "draining", "done", "finish",
         "finishing", "exit"}
Counted == {j \in Jobs : pc[j] \in Live}

(* Mutant: finishFrame takes the waiting frame without s.mu. *)
MuFreeUnlessSubmit == submitPc = "free"

MuFree == submitPc = "free" /\ \A j \in Jobs : pc[j] # "finishing"
Closed == stopPc = "closed"

EventType == {"frame_start", "frame_drop", "queue_status", "progress", "frame_done"}
Event == [type : EventType, job : Jobs]

(* Mutant: the capacity of eventCh is not respected. *)
SafeSendUnbounded(type, j) ==
    /\ events' = IF ~eventsClosed THEN Append(events, [type |-> type, job |-> j])
                                  ELSE events
    /\ panicked' = eventsClosed

(* safeSend: drop the event if the channel is full; a send on a closed    *)
(* channel panics even inside a select with a default.                     *)
SafeSend(type, j) ==
    /\ events' = IF ~eventsClosed /\ Len(events) < EventCap
                   THEN Append(events, [type |-> type, job |-> j])
                   ELSE events
    /\ panicked' = eventsClosed

(* s.history, trimmed to the last HistoryCap jobs at each Submit. *)
History == {k \in 1..submitted : k > submitted - HistoryCap}

Init ==
    /\ submitted = 0
    /\ submitPc = "free"
    /\ idxOf \in FrameOrders
    /\ running = None
    /\ pending = None
    /\ cancelRun = None
    /\ cancelled = {}
    /\ pc = [j \in Jobs |-> "idle"]
    /\ window = [j \in Jobs |-> {}]
    /\ progress = [j \in Jobs |-> 0]
    /\ stopPc = "open"
    /\ events = <<>>
    /\ eventsClosed = FALSE
    /\ panicked = FALSE

-----------------------------------------------------------------------------
(* Mutant: Submit does not ask whether a frame is running. *)
SubmitAcceptEager ==
    /\ ~panicked
    /\ MuFree
    /\ ~Closed
    /\ submitted < MaxJobs
    /\ submitted' = submitted + 1
    /\ submitPc' = "start"
    /\ UNCHANGED <<idxOf, running, pending, cancelRun, cancelled, stopPc,
                   eventsClosed, runnerVars, channelVars>>

(* Submit, lines 86-121.  A Submit that finds the session closed returns   *)
(* at once and changes nothing, so only the others are steps.              *)
SubmitAccept ==
    /\ ~panicked
    /\ MuFree
    /\ ~Closed
    /\ submitted < MaxJobs
    /\ submitted' = submitted + 1
    /\ submitPc' = IF running = None THEN "start" ELSE "replace"
    /\ UNCHANGED <<idxOf, running, pending, cancelRun, cancelled, stopPc,
                   eventsClosed, runnerVars, channelVars>>

(* startLocked up to its send; the goroutine is counted one step later.    *)
SubmitStart ==
    /\ ~panicked
    /\ submitPc = "start"
    /\ running' = submitted
    /\ cancelRun' = submitted
    /\ SafeSend("frame_start", submitted)
    /\ submitPc' = "spawn"
    /\ UNCHANGED <<submitted, idxOf, pending, cancelled, stopPc,
                   eventsClosed, runnerVars>>

SubmitSpawn ==
    /\ ~panicked
    /\ submitPc = "spawn"
    /\ pc' = [pc EXCEPT ![submitted] = "window"]
    /\ submitPc' = "free"
    /\ UNCHANGED <<submitted, idxOf, sessionVars, window, progress, stopPc,
                   eventsClosed, channelVars>>

(* Mutant: the oldest waiting frame keeps the slot. *)
SubmitReplaceKeepsOld ==
    /\ ~panicked
    /\ submitPc = "replace"
    /\ pending' = IF pending # None THEN pending ELSE submitted
    /\ submitPc' = "status"
    /\ UNCHANGED <<submitted, idxOf, running, cancelRun, cancelled,
                   stopPc, eventsClosed, runnerVars, channelVars>>

(* A pending frame is overwritten and reported dropped. *)
SubmitReplace ==
    /\ ~panicked
    /\ submitPc = "replace"
    /\ IF pending # None THEN SafeSend("frame_drop", pending)
                         ELSE UNCHANGED channelVars
    /\ pending' = submitted
    /\ submitPc' = "status"
    /\ UNCHANGED <<submitted, idxOf, running, cancelRun, cancelled,
                   stopPc, eventsClosed, runnerVars>>

SubmitStatus ==
    /\ ~panicked
    /\ submitPc = "status"
    /\ SafeSend("queue_status", submitted)
    /\ submitPc' = "free"
    /\ UNCHANGED <<submitted, idxOf, sessionVars, stopPc, eventsClosed, runnerVars>>

Submit == SubmitAccept \/ SubmitStart \/ SubmitSpawn \/ SubmitReplace \/ SubmitStatus

-----------------------------------------------------------------------------
(* Stop, lines 124-140: the cancel is under s.mu, the close is not. *)
StopCancel ==
    /\ ~panicked
    /\ stopPc = "open"
    /\ MuFree
    /\ stopPc' = "cancelled"
    /\ cancelled' = cancelled \cup ({cancelRun} \ {None})
    /\ UNCHANGED <<submitted, submitPc, idxOf, running, pending,
                   cancelRun, eventsClosed, runnerVars, channelVars>>

StopClose ==
    /\ ~panicked
    /\ stopPc = "cancelled"
    /\ stopPc' = "closed"
    /\ UNCHANGED <<submitted, submitPc, idxOf, sessionVars, eventsClosed,
                   runnerVars, channelVars>>

(* The goroutine Stop starts: wg.Wait(), then close(eventCh). *)
CloseEvents ==
    /\ ~panicked
    /\ Closed
    /\ ~eventsClosed
    /\ Counted = {}
    /\ eventsClosed' = TRUE
    /\ UNCHANGED <<submitted, submitPc, idxOf, sessionVars, stopPc, runnerVars,
                   channelVars>>

-----------------------------------------------------------------------------
(* runFrame, lines 197-298. *)
Goto(j, label) == pc' = [pc EXCEPT ![j] = label]

(* The last WindowSize members of a set of frames. *)
Newest(frames) ==
    {k \in frames : Cardinality({l \in frames : l > k}) < WindowSize}

(* Mutant: the window stops short of the frame's own index. *)
FrameWindowStrict(j) == Newest({k \in History : idxOf[k] < idxOf[j]})

(* getFrameWindow: the last WindowSize remembered frames whose index does  *)
(* not exceed this frame's.                                                *)
FrameWindow(j) == Newest({k \in History : idxOf[k] <= idxOf[j]})

RunWindow(j) ==
    /\ ~panicked
    /\ pc[j] = "window"
    /\ MuFree
    /\ window' = [window EXCEPT ![j] = FrameWindow(j)]
    /\ Goto(j, "ranging")
    /\ UNCHANGED <<submitted, submitPc, idxOf, sessionVars, progress, stopPc,
                   eventsClosed, channelVars>>

(* One event of the pipeline; the closeCh test decides what becomes of it. *)
RunEvent(j) ==
    /\ ~panicked
    /\ pc[j] = "ranging"
    /\ progress[j] < MaxProgress
    /\ progress' = [progress EXCEPT ![j] = @ + 1]
    /\ Goto(j, IF Closed THEN "draining" ELSE "forward")
    /\ UNCHANGED <<submitted, submitPc, idxOf, sessionVars, window, stopPc,
                   eventsClosed, channelVars>>

(* getPendingIdx needs s.mu, then the event goes to the SSE stream.  The   *)
(* five kinds of event the code forwards are one here.                     *)
RunForward(j) ==
    /\ ~panicked
    /\ pc[j] = "forward"
    /\ MuFree
    /\ SafeSend("progress", j)
    /\ Goto(j, "ranging")
    /\ UNCHANGED <<submitted, submitPc, idxOf, sessionVars, window, progress,
                   stopPc, eventsClosed>>

(* Mutant: the drain of a stopped frame never ends. *)
RunEndNoDrain(j) ==
    /\ ~panicked
    /\ pc[j] = "ranging"
    /\ Goto(j, "done")
    /\ UNCHANGED <<submitted, submitPc, idxOf, sessionVars, window, progress,
                   stopPc, eventsClosed, channelVars>>

(* The pipeline's channel is closed: the frame is done, and a frame_done   *)
(* is due unless the loop had seen closeCh closed.                         *)
RunEnd(j) ==
    /\ ~panicked
    /\ \/ pc[j] = "ranging" /\ Goto(j, "done")
       \/ pc[j] = "draining" /\ Goto(j, "finish")
    /\ UNCHANGED <<submitted, submitPc, idxOf, sessionVars, window, progress,
                   stopPc, eventsClosed, channelVars>>

(* finishFrame, lines 301-328. *)
FinishDone(j) ==
    /\ ~panicked
    /\ pc[j] = "done"
    /\ MuFree
    /\ SafeSend("frame_done", j)
    /\ Goto(j, "finish")
    /\ UNCHANGED <<submitted, submitPc, idxOf, sessionVars, window, progress,
                   stopPc, eventsClosed>>

(* Mutant: the waiting frame is thrown away. *)
FinishTakeForgets(j) ==
    /\ ~panicked
    /\ pc[j] = "finish"
    /\ MuFree
    /\ running' = None
    /\ cancelRun' = None
    /\ pending' = None
    /\ Goto(j, "exit")
    /\ UNCHANGED <<submitted, submitPc, idxOf, cancelled, window,
                   progress, stopPc, eventsClosed, channelVars>>

(* The critical section up to the closeCh test; it goes on under s.mu when *)
(* a frame is waiting and the session looked open.                         *)
FinishTake(j) ==
    /\ ~panicked
    /\ pc[j] = "finish"
    /\ MuFree
    /\ running' = None
    /\ cancelRun' = None
    /\ IF pending # None /\ ~Closed
         THEN Goto(j, "finishing") /\ UNCHANGED pending
         ELSE Goto(j, "exit") /\ pending' = None
    /\ UNCHANGED <<submitted, submitPc, idxOf, cancelled, window,
                   progress, stopPc, eventsClosed, channelVars>>

FinishStart(j) ==
    /\ ~panicked
    /\ pc[j] = "finishing"
    /\ running' = pending
    /\ cancelRun' = pending
    /\ pending' = None
    /\ SafeSend("frame_start", pending)
    /\ pc' = [pc EXCEPT ![j] = "exit", ![pending] = "window"]
    /\ UNCHANGED <<submitted, submitPc, idxOf, cancelled, window,
                   progress, stopPc, eventsClosed>>

(* Mutant: frame_done is sent after the next frame has been started. *)
RunExitLateDone(j) ==
    /\ ~panicked
    /\ pc[j] = "exit"
    /\ SafeSend("frame_done", j)
    /\ Goto(j, "gone")
    /\ UNCHANGED <<submitted, submitPc, idxOf, sessionVars, window, progress,
                   stopPc, eventsClosed>>

(* wg.Done *)
RunExit(j) ==
    /\ ~panicked
    /\ pc[j] = "exit"
    /\ Goto(j, "gone")
    /\ UNCHANGED <<submitted, submitPc, idxOf, sessionVars, window, progress,
                   stopPc, eventsClosed, channelVars>>

Runner(j) ==
    \/ RunWindow(j) \/ RunEvent(j) \/ RunForward(j) \/ RunEnd(j)
    \/ FinishDone(j) \/ FinishTake(j) \/ FinishStart(j) \/ RunExit(j)

(* The SSE handler takes one event. *)
Consume ==
    /\ ~panicked
    /\ events # <<>>
    /\ events' = Tail(events)
    /\ UNCHANGED <<submitted, submitPc, idxOf, sessionVars, runnerVars, stopPc,
                   eventsClosed, panicked>>

Next ==
    \/ Submit \/ StopCancel \/ StopClose \/ CloseEvents \/ Consume
    \/ \E j \in Jobs : Runner(j)

(* Submit and Stop run on their own goroutines once called and the         *)
(* pipeline of a frame always ends; nobody has to call Submit or Stop, or  *)
(* to read the events.                                                     *)
Fairness ==
    /\ WF_vars(SubmitStart \/ SubmitSpawn \/ SubmitReplace \/ SubmitStatus)
    /\ WF_vars(StopClose \/ CloseEvents)
    /\ \A j \in Jobs : WF_vars(Runner(j))

Spec == Init /\ [][Next]_vars /\ Fairness

-----------------------------------------------------------------------------
TypeOK ==
    /\ submitted \in 0..MaxJobs
    /\ submitPc \in {"free", "start", "spawn", "replace", "status"}
    /\ idxOf \in FrameOrders
    /\ running \in Jobs \cup {None}
    /\ pending \in Jobs \cup {None}
    /\ cancelRun \in Jobs \cup {None}
    /\ cancelled \subseteq Jobs
    /\ pc \in [Jobs -> Live \cup {"idle", "gone"}]
    /\ window \in [Jobs -> SUBSET Jobs]
    /\ progress \in [Jobs -> 0..MaxProgress]
    /\ stopPc \in {"open", "cancelled", "closed"}
    /\ events \in Seq(Event)
    /\ Len(events) <= EventCap
    /\ eventsClosed \in BOOLEAN
    /\ panicked \in BOOLEAN

(* The frames whose pipeline may still be at work: started and not yet     *)
(* past the critical section of finishFrame.                               *)
InPipeline == {j \in Jobs : pc[j] \in Live \ {"finishing", "exit"}}

(* "At most 1 running": no two pipelines ever overlap, whatever the order  *)
(* of Submit, Stop and the ends of frames, and s.running names the one at  *)
(* work (video_session.go:53-54, 100, 319-326).                            *)
OnePipeline == \A j \in InPipeline : running = j /\ cancelRun = j

(* "Only the most recent frame is ever enqueued": the pending frame is the *)
(* newest one accepted, except while Submit is about to overwrite it, and  *)
(* no frame waits while the pipeline is idle (lines 53-54, 105-115).       *)
NewestPending ==
    pending # None =>
        /\ pc[pending] = "idle"
        /\ submitPc # "replace" => pending = submitted
        /\ running # None \/ \E j \in Jobs : pc[j] = "finishing"

(* No frame vanishes: an accepted frame that never ran is still waiting,   *)
(* is being placed by Submit, was overtaken by a newer frame, or the       *)
(* session was closed before its turn (lines 100-115, 319-326).            *)
NoFrameLost ==
    \A j \in 1..submitted :
        pc[j] = "idle" =>
            \/ j = pending
            \/ j = submitted /\ submitPc # "free"
            \/ j < submitted
            \/ Closed

(* Of the frames accepted, the newest waits and none vanishes. *)
FramesKept == NewestPending /\ NoFrameLost

(* The SSE stream never shows the start of a frame before the end of an    *)
(* earlier one: within the channel, no frame_done or progress of a frame   *)
(* follows the frame_start of a newer frame.  finishFrame sends frame_done *)
(* outside the mutex and must be done before the next start (lines         *)
(* 307-327).                                                               *)
StreamInFrameOrder ==
    \A m, n \in 1..Len(events) :
        m < n /\ events[m].type = "frame_start"
              /\ events[n].type \in {"progress", "frame_done"}
            => events[m].job <= events[n].job

(* A frame whose start or end is reported was not also reported dropped    *)
(* (lines 106-114, 158-164).                                               *)
DroppedNeverRuns ==
    \A m \in 1..Len(events) :
        events[m].type = "frame_drop" => pc[events[m].job] = "idle"

(* What the stream says of the frames is what came of them, in their order. *)
StreamHonest == StreamInFrameOrder /\ DroppedNeverRuns

(* When every accepted frame has a larger index than the ones before it,   *)
(* the window read by the pipeline ends with the frame being inspected,    *)
(* as long as fewer than HistoryCap frames came after it (lines 173-194).  *)
WindowEndsWithFrame ==
    \A j \in Jobs :
        /\ pc[j] \notin {"idle", "window"}
        /\ submitted - j < HistoryCap
        /\ \A a, b \in 1..submitted : a < b => idxOf[a] < idxOf[b]
        => j \in window[j] /\ \A k \in window[j] : k <= j

(* Frames start in the order they were accepted: a step never starts a     *)
(* frame once a newer one has started (lines 100-103, 321-326).            *)
StartsInOrder ==
    [][\A j \in Jobs :
         pc[j] = "idle" /\ pc'[j] # "idle" =>
            \A k \in Jobs : k > j => pc[k] = "idle"]_vars

(* The newest frame is inspected: a frame that waits is started, unless a  *)
(* newer frame replaces it or the session is stopped (lines 321-326).      *)
PendingStarts ==
    \A j \in Jobs :
        (pending = j /\ stopPc = "open") ~>
            (pc[j] # "idle" \/ submitted > j \/ stopPc # "open")

(* "It is closed after Stop() is called and any in-flight frame finishes": *)
(* once Stop has been called the event channel is eventually closed, or    *)
(* the process has panicked (lines 79-80, 135-138).                        *)
StopClosesEvents == (stopPc # "open") ~> (eventsClosed \/ panicked)

(* video_session.go:80 says the event channel "is closed after Stop() is   *)
(* called and any in-flight frame finishes": with the channel closed no    *)
(* goroutine of a frame is left.                                           *)
ClosedAfterFrames == eventsClosed => Counted = {}
=============================================================================
