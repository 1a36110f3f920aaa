-------------------------- MODULE VideoSessionProofs --------------------------
(***************************************************************************)
(* Proofs about VideoSession for any number of frames, any channel         *)
(* capacity and any pipeline length.  The inductive invariant is TypeOK    *)
(* together with Control, which ties the control points of Submit and of   *)
(* the frames' goroutines to s.running, s.cancelRun and s.pending.  For    *)
(* what the channel still holds, Stream says of each event and those       *)
(* behind it that they are true and in frame order.                        *)
(***************************************************************************)
EXTENDS VideoSession, FiniteSetTheorems, TLAPS

USE VideoSessionAssumption DEF Jobs, None

(* Every step of the session, wherever it comes from. *)
LEMMA NextCases ==
    ASSUME Next
    PROVE  \/ SubmitAccept \/ SubmitStart \/ SubmitSpawn \/ SubmitReplace
           \/ SubmitStatus \/ StopCancel \/ StopClose \/ CloseEvents \/ Consume
           \/ \E j \in Jobs :
                \/ RunWindow(j) \/ RunEvent(j) \/ RunForward(j) \/ RunEnd(j)
                \/ FinishDone(j) \/ FinishTake(j) \/ FinishStart(j) \/ RunExit(j)
  BY DEF Next, Submit, Runner

-----------------------------------------------------------------------------
(* What a Submit in progress knows while it holds s.mu. *)
SubmitHolds ==
    /\ submitPc # "free" => submitted \in Jobs /\ pc[submitted] = "idle"
    /\ submitPc = "start" => running = None /\ pending = None
    /\ submitPc = "spawn" => running = submitted /\ cancelRun = submitted /\ pending = None
    /\ submitPc \in {"replace", "status"} => running # None
    /\ submitPc = "status" => pending = submitted

(* What a frame that is about to start the waiting one knows: s.mu is its  *)
(* own, nothing runs and a frame waits.                                    *)
FinishHolds ==
    \A j \in Jobs : pc[j] = "finishing" =>
        /\ submitPc = "free"
        /\ running = None
        /\ pending \in Jobs
        /\ \A k \in Jobs : pc[k] = "finishing" => k = j

(* s.running names a frame at work, or the one Submit is about to spawn. *)
RunningWorks == running # None => running \in InPipeline \/ submitPc = "spawn"

(* Goroutines exist only for accepted frames, and the newest one, once     *)
(* Submit has returned, has run or waits, unless the session was closed.   *)
Accepted ==
    /\ \A j \in Jobs : j > submitted => pc[j] = "idle"
    /\ submitted \in Jobs /\ submitPc = "free" /\ pc[submitted] = "idle" =>
          pending = submitted \/ Closed

Control == /\ SubmitHolds
           /\ FinishHolds
           /\ RunningWorks
           /\ Accepted
           /\ OnePipeline
           /\ NewestPending

LEMMA InitControl == Init => TypeOK /\ Control
<1> SUFFICES ASSUME Init PROVE TypeOK /\ Control
  OBVIOUS
<1>1. events \in Seq(Event) /\ Len(events) <= EventCap
  BY DEF Init
<1>2. /\ window \in [Jobs -> SUBSET Jobs] /\ progress \in [Jobs -> 0..MaxProgress]
      /\ pc \in [Jobs -> Live \cup {"idle", "gone"}] /\ \A j \in Jobs : pc[j] = "idle"
  BY DEF Init, Live
<1>3. /\ submitted \in 0..MaxJobs
      /\ submitPc \in {"free", "start", "spawn", "replace", "status"}
      /\ idxOf \in FrameOrders
      /\ running \in Jobs \cup {None} /\ pending \in Jobs \cup {None}
      /\ cancelRun \in Jobs \cup {None} /\ cancelled \subseteq Jobs
  BY DEF Init
<1>4. /\ stopPc \in {"open", "cancelled", "closed"}
      /\ eventsClosed \in BOOLEAN /\ panicked \in BOOLEAN
  BY DEF Init
<1>5. TypeOK
  BY <1>1, <1>2, <1>3, <1>4 DEF TypeOK
<1>6. Control
  BY <1>2 DEF Init, Control, SubmitHolds, FinishHolds, RunningWorks, Accepted,
              OnePipeline, NewestPending, InPipeline, Live
<1> QED
  BY <1>5, <1>6

(* The channel keeps its type and its capacity through a send. *)
LEMMA SafeSendType ==
    ASSUME TypeOK, NEW j \in Jobs, NEW type \in EventType, SafeSend(type, j)
    PROVE  events' \in Seq(Event) /\ Len(events') <= EventCap /\ panicked' \in BOOLEAN
<1> DEFINE e == [type |-> type, job |-> j]
<1>1. e \in Event
  BY DEF Event
<1>2. events \in Seq(Event) /\ Len(events) <= EventCap /\ eventsClosed \in BOOLEAN
  BY DEF TypeOK
<1>3. events' = (IF ~eventsClosed /\ Len(events) < EventCap THEN Append(events, e)
                                                            ELSE events)
      /\ panicked' = eventsClosed
  BY DEF SafeSend
<1> HIDE DEF e
<1>4. Append(events, e) \in Seq(Event) /\ Len(Append(events, e)) = Len(events) + 1
  BY <1>1, <1>2
<1> QED
  BY <1>2, <1>3, <1>4

LEMMA NextType ==
    ASSUME TypeOK, Control, [Next]_vars
    PROVE  TypeOK'
<1> USE DEF Live, EventType, runnerVars, channelVars, sessionVars, Goto
<1>1. CASE SubmitAccept
  BY <1>1 DEF TypeOK, SubmitAccept
<1>2. CASE SubmitStart
  BY <1>2, SafeSendType DEF TypeOK, Control, SubmitHolds, SubmitStart
<1>3. CASE SubmitSpawn
  BY <1>3 DEF TypeOK, SubmitSpawn
<1>4. CASE SubmitReplace
  <2>1. submitted \in Jobs /\ pending \in Jobs \cup {None}
    BY <1>4 DEF TypeOK, Control, SubmitHolds, SubmitReplace
  <2>2. events' \in Seq(Event) /\ Len(events') <= EventCap /\ panicked' \in BOOLEAN
    <3>1. CASE pending # None
      BY <1>4, <2>1, <3>1, SafeSendType DEF SubmitReplace
    <3>2. CASE pending = None
      BY <1>4, <3>2 DEF SubmitReplace, TypeOK
    <3> QED
      BY <3>1, <3>2
  <2> QED
    BY <1>4, <2>1, <2>2 DEF TypeOK, SubmitReplace
<1>5. CASE SubmitStatus
  BY <1>5, SafeSendType DEF TypeOK, Control, SubmitHolds, SubmitStatus
<1>6. CASE StopCancel
  BY <1>6 DEF TypeOK, StopCancel
<1>7. CASE StopClose
  BY <1>7 DEF TypeOK, StopClose
<1>8. CASE CloseEvents
  BY <1>8 DEF TypeOK, CloseEvents
<1>9. CASE Consume
  BY <1>9 DEF TypeOK, Consume
<1>10. ASSUME NEW j \in Jobs, RunWindow(j) PROVE TypeOK'
  <2>1. FrameWindow(j) \subseteq Jobs
    BY DEF FrameWindow, Newest, History, TypeOK
  <2> QED
    BY <1>10, <2>1 DEF TypeOK, RunWindow
<1>11. ASSUME NEW j \in Jobs, RunEvent(j) PROVE TypeOK'
  BY <1>11 DEF TypeOK, RunEvent
<1>12. ASSUME NEW j \in Jobs, RunForward(j) PROVE TypeOK'
  BY <1>12, SafeSendType DEF TypeOK, RunForward
<1>13. ASSUME NEW j \in Jobs, RunEnd(j) PROVE TypeOK'
  BY <1>13 DEF TypeOK, RunEnd
<1>14. ASSUME NEW j \in Jobs, FinishDone(j) PROVE TypeOK'
  BY <1>14, SafeSendType DEF TypeOK, FinishDone
<1>15. ASSUME NEW j \in Jobs, FinishTake(j) PROVE TypeOK'
  BY <1>15 DEF TypeOK, FinishTake
<1>16. ASSUME NEW j \in Jobs, FinishStart(j) PROVE TypeOK'
  <2>1. pending \in Jobs
    BY <1>16 DEF Control, FinishHolds, FinishStart
  <2> QED
    BY <1>16, <2>1, SafeSendType DEF TypeOK, FinishStart
<1>17. ASSUME NEW j \in Jobs, RunExit(j) PROVE TypeOK'
  BY <1>17 DEF TypeOK, RunExit
<1>18. CASE UNCHANGED vars
  BY <1>18 DEF TypeOK, vars
<1> QED
  BY <1>1, <1>2, <1>3, <1>4, <1>5, <1>6, <1>7, <1>8, <1>9, <1>10, <1>11, <1>12,
     <1>13, <1>14, <1>15, <1>16, <1>17, <1>18, NextCases

LEMMA NextControl ==
    ASSUME TypeOK, Control, [Next]_vars
    PROVE  Control'
<1> USE DEF TypeOK, Control, SubmitHolds, FinishHolds, RunningWorks, Accepted,
            OnePipeline, NewestPending, InPipeline, Live, Closed,
            runnerVars, sessionVars, Goto
<1>1. CASE SubmitAccept
  BY <1>1 DEF SubmitAccept, MuFree
<1>2. CASE SubmitStart
  BY <1>2 DEF SubmitStart
<1>3. CASE SubmitSpawn
  BY <1>3 DEF SubmitSpawn
<1>4. CASE SubmitReplace
  BY <1>4 DEF SubmitReplace
<1>5. CASE SubmitStatus
  BY <1>5 DEF SubmitStatus
<1>6. CASE StopCancel
  BY <1>6 DEF StopCancel, MuFree
<1>7. CASE StopClose
  BY <1>7 DEF StopClose
<1>8. CASE CloseEvents
  BY <1>8 DEF CloseEvents
<1>9. CASE Consume
  BY <1>9 DEF Consume
<1>10. ASSUME NEW j \in Jobs, RunWindow(j) PROVE Control'
  BY <1>10 DEF RunWindow, MuFree
<1>11. ASSUME NEW j \in Jobs, RunEvent(j) PROVE Control'
  BY <1>11, SMTT(30) DEF RunEvent
<1>12. ASSUME NEW j \in Jobs, RunForward(j) PROVE Control'
  BY <1>12 DEF RunForward, MuFree
<1>13. ASSUME NEW j \in Jobs, RunEnd(j) PROVE Control'
  <2>1. CASE pc[j] = "ranging" /\ Goto(j, "done")
    BY <1>13, <2>1 DEF RunEnd
  <2>2. CASE pc[j] = "draining" /\ Goto(j, "finish")
    BY <1>13, <2>2 DEF RunEnd
  <2> QED
    BY <1>13, <2>1, <2>2 DEF RunEnd
<1>14. ASSUME NEW j \in Jobs, FinishDone(j) PROVE Control'
  BY <1>14 DEF FinishDone, MuFree
<1>15. ASSUME NEW j \in Jobs, FinishTake(j) PROVE Control'
  <2>1. /\ pc[j] = "finish" /\ running = j /\ running' = None /\ submitPc = "free"
        /\ \A k \in Jobs : pc[k] # "finishing"
        /\ \A k \in InPipeline : k = j
        /\ pending # None => pending = submitted /\ pc[pending] = "idle"
    BY <1>15 DEF FinishTake, MuFree
  <2>2. CASE pending # None /\ ~Closed
    <3>1. pc' = [pc EXCEPT ![j] = "finishing"] /\ pending' = pending
      BY <1>15, <2>2 DEF FinishTake
    <3> QED
      BY <1>15, <2>1, <2>2, <3>1 DEF FinishTake
  <2>3. CASE ~(pending # None /\ ~Closed)
    <3>1. pc' = [pc EXCEPT ![j] = "exit"] /\ pending' = None
      BY <1>15, <2>3 DEF FinishTake
    <3> QED
      BY <1>15, <2>1, <2>3, <3>1 DEF FinishTake
  <2> QED
    BY <2>2, <2>3
<1>16. ASSUME NEW j \in Jobs, FinishStart(j) PROVE Control'
  <2>1. /\ submitPc = "free" /\ running = None /\ pending = submitted
        /\ pending \in Jobs /\ pc[pending] = "idle" /\ j # pending
        /\ \A k \in Jobs : pc[k] = "finishing" => k = j
        /\ InPipeline = {}
    BY <1>16 DEF FinishStart
  <2>2. /\ pc' = [pc EXCEPT ![j] = "exit", ![pending] = "window"]
        /\ running' = pending /\ cancelRun' = pending /\ pending' = None
        /\ submitted' = submitted /\ submitPc' = submitPc /\ stopPc' = stopPc
    BY <1>16 DEF FinishStart
  <2>3. InPipeline' = {pending}
    BY <2>1, <2>2, SMTT(30)
  <2>4. \A k \in Jobs : pc'[k] # "finishing" /\ (pc'[k] = "idle" <=> pc[k] = "idle" /\ k # pending)
    BY <2>1, <2>2, SMTT(30)
  <2>5. SubmitHolds' /\ FinishHolds' /\ NewestPending'
    BY <2>1, <2>2, <2>4
  <2>6. RunningWorks' /\ OnePipeline'
    BY <2>2, <2>3
  <2>7. Accepted'
    BY <2>1, <2>2, <2>4
  <2> QED
    BY <2>5, <2>6, <2>7
<1>17. ASSUME NEW j \in Jobs, RunExit(j) PROVE Control'
  BY <1>17, SMTT(30) DEF RunExit
<1>18. CASE UNCHANGED vars
  BY <1>18 DEF vars
<1> QED
  BY <1>1, <1>2, <1>3, <1>4, <1>5, <1>6, <1>7, <1>8, <1>9, <1>10, <1>11, <1>12,
     <1>13, <1>14, <1>15, <1>16, <1>17, <1>18, NextCases

(* Type correctness: the session's variables keep their types, and the     *)
(* event channel never holds more than its capacity (video_session.go:339).*)
THEOREM TypeCorrect == Spec => []TypeOK
<1>1. TypeOK /\ Control /\ [Next]_vars => TypeOK' /\ Control'
  BY NextType, NextControl
<1> QED
  BY InitControl, <1>1, PTL DEF Spec

THEOREM ControlInvariant == Spec => [](TypeOK /\ Control)
<1>1. TypeOK /\ Control /\ [Next]_vars => TypeOK' /\ Control'
  BY NextType, NextControl
<1> QED
  BY InitControl, <1>1, PTL DEF Spec

(* No two pipelines ever overlap, for any number of frames and whatever    *)
(* the order of Submit, Stop and the ends of frames                        *)
(* (video_session.go:53-54).                                               *)
THEOREM OnePipelineAlways == Spec => []OnePipeline
<1>1. Control => OnePipeline
  BY DEF Control
<1> QED
  BY ControlInvariant, <1>1, PTL

(* The waiting frame is always the newest one accepted, and none waits     *)
(* while nothing runs (video_session.go:53-54, 105-115).                   *)
THEOREM NewestPendingAlways == Spec => []NewestPending
<1>1. Control => NewestPending
  BY DEF Control
<1> QED
  BY ControlInvariant, <1>1, PTL

(* Every accepted frame has run, waits, was overtaken by a newer one, or   *)
(* found the session closed (video_session.go:100-115, 319-326).           *)
THEOREM NoFrameLostAlways == Spec => []NoFrameLost
<1>1. TypeOK /\ Control => NoFrameLost
  BY DEF TypeOK, Control, Accepted, NoFrameLost
<1> QED
  BY ControlInvariant, <1>1, PTL

(* Frames start in the order they were accepted: a frame is spawned by     *)
(* SubmitSpawn or FinishStart only, and is then the newest one.            *)
THEOREM StartsInOrderAlways == Spec => StartsInOrder
<1> DEFINE InOrder ==
      \A j \in Jobs : pc[j] = "idle" /\ pc'[j] # "idle" =>
         \A k \in Jobs : k > j => pc[k] = "idle"
<1>1. ASSUME TypeOK, Control, Next PROVE InOrder
  <2> SUFFICES \/ \A k \in Jobs : pc[k] = "idle" => pc'[k] = "idle"
               \/ /\ submitted \in Jobs
                  /\ \A k \in Jobs : pc[k] = "idle" /\ pc'[k] # "idle" => k = submitted
    BY <1>1 DEF TypeOK, Control, Accepted
  <2>0. pc \in [Jobs -> Live \cup {"idle", "gone"}]
    BY <1>1 DEF TypeOK
  <2>1. CASE SubmitAccept \/ SubmitStart \/ SubmitReplace \/ SubmitStatus
             \/ StopCancel \/ StopClose \/ CloseEvents \/ Consume
    <3>1. pc' = pc
      BY <2>1 DEF SubmitAccept, SubmitStart, SubmitReplace, SubmitStatus,
                  StopCancel, StopClose, CloseEvents, Consume, runnerVars
    <3> QED
      BY <3>1
  <2>2. CASE SubmitSpawn
    BY <1>1, <2>0, <2>2 DEF SubmitSpawn, Control, SubmitHolds
  <2>3. ASSUME NEW j \in Jobs,
               RunWindow(j) \/ RunEvent(j) \/ RunForward(j) \/ RunEnd(j)
               \/ FinishDone(j) \/ FinishTake(j) \/ RunExit(j)
        PROVE  \A k \in Jobs : pc[k] = "idle" => pc'[k] = "idle"
    <3>1. pc[j] # "idle" /\ \E label \in Live \cup {"gone"} : Goto(j, label)
      BY <2>3 DEF RunWindow, RunEvent, RunForward, RunEnd, FinishDone,
                  FinishTake, RunExit, Live
    <3> QED
      BY <2>0, <3>1 DEF Goto
  <2>4. ASSUME NEW j \in Jobs, FinishStart(j)
        PROVE  /\ submitted \in Jobs
               /\ \A k \in Jobs : pc[k] = "idle" /\ pc'[k] # "idle" => k = submitted
    <3>1. pc[j] = "finishing"
      BY <2>4 DEF FinishStart
    <3>2. submitPc = "free" /\ pending \in Jobs
      BY <1>1, <3>1 DEF Control, FinishHolds
    <3>3. pending = submitted
      BY <1>1, <3>2 DEF Control, NewestPending
    <3>4. pc' = [pc EXCEPT ![j] = "exit", ![pending] = "window"]
      BY <2>4 DEF FinishStart
    <3> QED
      BY <2>0, <3>1, <3>2, <3>3, <3>4
  <2> QED
    BY <1>1, <2>1, <2>2, <2>3, <2>4, NextCases
<1>2. TypeOK /\ Control /\ [Next]_vars => [InOrder]_vars
  BY <1>1
<1> QED
  BY ControlInvariant, <1>2, PTL DEF Spec, StartsInOrder

(* Of the frames accepted, the newest waits and none vanishes. *)
THEOREM FramesKeptAlways == Spec => []FramesKept
<1>1. NewestPending /\ NoFrameLost => FramesKept
  BY DEF FramesKept
<1> QED
  BY <1>1, NewestPendingAlways, NoFrameLostAlways, PTL

-----------------------------------------------------------------------------
(* Only the newest frame is ever spawned, by Submit or by the end of the   *)
(* frame before it.                                                        *)
LEMMA OnlyNewestStarts ==
    ASSUME TypeOK, Control, [Next]_vars, NEW k \in Jobs, pc[k] = "idle", pc'[k] # "idle"
    PROVE  k = submitted
<1>0. pc \in [Jobs -> Live \cup {"idle", "gone"}]
  BY DEF TypeOK
<1>1. CASE SubmitAccept \/ SubmitStart \/ SubmitReplace \/ SubmitStatus
           \/ StopCancel \/ StopClose \/ CloseEvents \/ Consume \/ UNCHANGED vars
  <2>1. pc' = pc
    BY <1>1 DEF SubmitAccept, SubmitStart, SubmitReplace, SubmitStatus,
                StopCancel, StopClose, CloseEvents, Consume, runnerVars, vars
  <2> QED
    BY <2>1
<1>2. CASE SubmitSpawn
  BY <1>0, <1>2 DEF SubmitSpawn, Control, SubmitHolds
<1>3. ASSUME NEW j \in Jobs,
             RunWindow(j) \/ RunEvent(j) \/ RunForward(j) \/ RunEnd(j)
             \/ FinishDone(j) \/ FinishTake(j) \/ RunExit(j)
      PROVE  FALSE
  <2>1. pc[j] # "idle" /\ \E label \in Live \cup {"gone"} : Goto(j, label)
    BY <1>3 DEF RunWindow, RunEvent, RunForward, RunEnd, FinishDone,
                FinishTake, RunExit, Live
  <2> QED
    BY <1>0, <2>1 DEF Goto
<1>4. ASSUME NEW j \in Jobs, FinishStart(j)
      PROVE  k = submitted
  <2>1. pc[j] = "finishing"
    BY <1>4 DEF FinishStart
  <2>2. submitPc = "free" /\ pending \in Jobs
    BY <2>1 DEF Control, FinishHolds
  <2>3. pending = submitted
    BY <2>2 DEF Control, NewestPending
  <2>4. pc' = [pc EXCEPT ![j] = "exit", ![pending] = "window"]
    BY <1>4 DEF FinishStart
  <2> QED
    BY <1>0, <2>1, <2>2, <2>3, <2>4
<1> QED
  BY <1>1, <1>2, <1>3, <1>4, NextCases

(* Frames are accepted one at a time and none is taken back. *)
LEMMA SubmittedGrows ==
    ASSUME TypeOK, [Next]_vars
    PROVE  /\ submitted \in Nat /\ submitted' \in Nat
           /\ submitted <= submitted'
<1>1. submitted \in Nat
  BY DEF TypeOK
<1>2. CASE SubmitAccept
  BY <1>1, <1>2 DEF SubmitAccept
<1>3. ASSUME \/ SubmitStart \/ SubmitSpawn \/ SubmitReplace \/ SubmitStatus
             \/ StopCancel \/ StopClose \/ CloseEvents \/ Consume \/ UNCHANGED vars
      PROVE  submitted' = submitted
  BY <1>3 DEF SubmitStart, SubmitSpawn, SubmitReplace, SubmitStatus,
              StopCancel, StopClose, CloseEvents, Consume, vars
<1>4. ASSUME NEW j \in Jobs,
             \/ RunWindow(j) \/ RunEvent(j) \/ RunForward(j) \/ RunEnd(j)
             \/ FinishDone(j) \/ FinishTake(j) \/ FinishStart(j) \/ RunExit(j)
      PROVE  submitted' = submitted
  BY <1>4 DEF RunWindow, RunEvent, RunForward, RunEnd, FinishDone, FinishTake,
              FinishStart, RunExit
<1> QED
  BY <1>1, <1>2, <1>3, <1>4, NextCases

-----------------------------------------------------------------------------
(* A frame has begun once its frame_start may have been sent; one that is  *)
(* passed over while idle will never begin.                                *)
Begun == {k \in Jobs : pc[k] # "idle" \/ (submitPc = "spawn" /\ k = submitted)}
PassedOver == {k \in Jobs : pc[k] = "idle" /\ k < submitted}

(* No frame newer than the one at work has begun, and Submit overwrites    *)
(* only an older frame.                                                    *)
Newer ==
    /\ \A j \in InPipeline, k \in Begun : k <= j
    /\ submitPc = "replace" /\ pending # None => pending < submitted

(* What an event in the channel says of its frame is still true: a frame   *)
(* reported started has begun, one reported dropped never will.            *)
StillTrue ==
    \A m \in 1..Len(events) :
        /\ events[m].type = "frame_start" => events[m].job \in Begun
        /\ events[m].type = "frame_drop" => events[m].job \in PassedOver

Stream == /\ Newer
          /\ StillTrue
          /\ StreamInFrameOrder

LEMMA InitStream == Init => Stream
  BY DEF Init, Stream, Newer, StillTrue, InPipeline, Live, StreamInFrameOrder

(* A frame that has begun stays so, and one that is not the newest stays   *)
(* where it is.                                                            *)
LEMMA NextBegun ==
    ASSUME TypeOK, Control, [Next]_vars
    PROVE  Begun \subseteq Begun' /\ PassedOver \subseteq PassedOver'
<1>0. pc \in [Jobs -> Live \cup {"idle", "gone"}]
  BY DEF TypeOK
<1>1. ASSUME NEW k \in Jobs PROVE pc[k] # "idle" => pc'[k] # "idle"
  <2>1. CASE SubmitAccept \/ SubmitStart \/ SubmitReplace \/ SubmitStatus
             \/ StopCancel \/ StopClose \/ CloseEvents \/ Consume \/ UNCHANGED vars
    BY <2>1 DEF SubmitAccept, SubmitStart, SubmitReplace, SubmitStatus,
                StopCancel, StopClose, CloseEvents, Consume, runnerVars, vars
  <2>2. CASE SubmitSpawn
    BY <1>0, <2>2 DEF SubmitSpawn
  <2>3. ASSUME NEW j \in Jobs,
               RunWindow(j) \/ RunEvent(j) \/ RunForward(j) \/ RunEnd(j)
               \/ FinishDone(j) \/ FinishTake(j) \/ RunExit(j)
        PROVE  pc[k] # "idle" => pc'[k] # "idle"
    <3>1. \E label \in Live \cup {"gone"} : Goto(j, label)
      BY <2>3 DEF RunWindow, RunEvent, RunForward, RunEnd, FinishDone,
                  FinishTake, RunExit, Live
    <3> QED
      BY <1>0, <3>1 DEF Goto, Live
  <2>4. ASSUME NEW j \in Jobs, FinishStart(j)
        PROVE  pc[k] # "idle" => pc'[k] # "idle"
    BY <1>0, <2>4 DEF FinishStart
  <2> QED
    BY <2>1, <2>2, <2>3, <2>4, NextCases
<1>2. submitPc = "spawn" => submitted \in Begun'
  <2> SUFFICES ASSUME submitPc = "spawn" PROVE submitted \in Begun'
    OBVIOUS
  <2>1. submitted \in Jobs
    BY DEF Control, SubmitHolds
  <2>2. CASE SubmitSpawn
    BY <1>0, <2>1, <2>2 DEF SubmitSpawn, Begun
  <2>3. ~SubmitAccept /\ ~SubmitStart /\ ~SubmitReplace /\ ~SubmitStatus
    BY DEF SubmitAccept, SubmitStart, SubmitReplace, SubmitStatus, MuFree
  <2>4. CASE ~SubmitSpawn
    <3>1. submitPc' = submitPc /\ submitted' = submitted
      <4>1. CASE StopCancel \/ StopClose \/ CloseEvents \/ Consume \/ UNCHANGED vars
        BY <4>1 DEF StopCancel, StopClose, CloseEvents, Consume, vars
      <4>2. ASSUME NEW j \in Jobs,
                   \/ RunWindow(j) \/ RunEvent(j) \/ RunForward(j) \/ RunEnd(j)
                   \/ FinishDone(j) \/ FinishTake(j) \/ FinishStart(j) \/ RunExit(j)
            PROVE  submitPc' = submitPc /\ submitted' = submitted
        BY <4>2 DEF RunWindow, RunEvent, RunForward, RunEnd, FinishDone, FinishTake,
                    FinishStart, RunExit
      <4> QED
        BY <2>3, <2>4, <4>1, <4>2, NextCases
    <3> QED
      BY <2>1, <3>1 DEF Begun
  <2> QED
    BY <2>2, <2>4
<1>3. Begun \subseteq Begun'
  <2> SUFFICES ASSUME NEW k \in Begun PROVE k \in Begun'
    OBVIOUS
  <2> QED
    BY <1>1, <1>2 DEF Begun
<1>4. PassedOver \subseteq PassedOver'
  <2> SUFFICES ASSUME NEW k \in PassedOver PROVE pc'[k] = "idle" /\ k < submitted'
    BY DEF PassedOver
  <2>1. k \in Jobs /\ pc[k] = "idle" /\ k < submitted
    BY DEF PassedOver
  <2>2. submitted <= submitted' /\ submitted \in Nat /\ submitted' \in Nat
    BY SubmittedGrows
  <2>3. pc'[k] = "idle"
    BY <2>1, <2>2, OnlyNewestStarts
  <2> QED
    BY <2>1, <2>2, <2>3
<1> QED
  BY <1>3, <1>4

LEMMA NextNewer ==
    ASSUME TypeOK, Control, Newer, [Next]_vars
    PROVE  Newer'
<1> USE DEF TypeOK, Control, SubmitHolds, FinishHolds, Accepted, OnePipeline,
            NewestPending, InPipeline, Live, Newer, Begun, runnerVars, sessionVars, Goto
<1>1. CASE SubmitAccept
  BY <1>1 DEF SubmitAccept, MuFree
<1>2. CASE SubmitStart
  BY <1>2 DEF SubmitStart
<1>3. CASE SubmitSpawn
  BY <1>3 DEF SubmitSpawn
<1>4. CASE SubmitReplace
  BY <1>4 DEF SubmitReplace
<1>5. CASE SubmitStatus
  BY <1>5 DEF SubmitStatus
<1>6. CASE StopCancel
  BY <1>6 DEF StopCancel
<1>7. CASE StopClose
  BY <1>7 DEF StopClose
<1>8. CASE CloseEvents
  BY <1>8 DEF CloseEvents
<1>9. CASE Consume
  BY <1>9 DEF Consume
<1>10. ASSUME NEW j \in Jobs, RunWindow(j) PROVE Newer'
  BY <1>10 DEF RunWindow
<1>11. ASSUME NEW j \in Jobs, RunEvent(j) PROVE Newer'
  BY <1>11 DEF RunEvent
<1>12. ASSUME NEW j \in Jobs, RunForward(j) PROVE Newer'
  BY <1>12 DEF RunForward
<1>13. ASSUME NEW j \in Jobs, RunEnd(j) PROVE Newer'
  <2>1. CASE pc[j] = "ranging" /\ Goto(j, "done")
    BY <1>13, <2>1 DEF RunEnd
  <2>2. CASE pc[j] = "draining" /\ Goto(j, "finish")
    BY <1>13, <2>2 DEF RunEnd
  <2> QED
    BY <1>13, <2>1, <2>2 DEF RunEnd
<1>14. ASSUME NEW j \in Jobs, FinishDone(j) PROVE Newer'
  BY <1>14 DEF FinishDone
<1>15. ASSUME NEW j \in Jobs, FinishTake(j) PROVE Newer'
  BY <1>15, ZenonT(30) DEF FinishTake, MuFree
<1>16. ASSUME NEW j \in Jobs, FinishStart(j) PROVE Newer'
  <2>1. submitPc = "free" /\ pending \in Jobs /\ pending = submitted /\ InPipeline = {}
        /\ pc[j] = "finishing"
    BY <1>16 DEF FinishStart
  <2>2. /\ pc' = [pc EXCEPT ![j] = "exit", ![pending] = "window"]
        /\ submitted' = submitted /\ submitPc' = submitPc
    BY <1>16 DEF FinishStart
  <2>3. \A i \in Jobs : i \in InPipeline' => i = submitted
    BY <2>1, <2>2
  <2>4. \A k \in Jobs : k \in Begun' => k <= submitted
    BY <2>1, <2>2
  <2>5. (\A i \in InPipeline, k \in Begun : k <= i)'
    BY <2>3, <2>4
  <2>6. submitPc' = "free"
    BY <2>1, <2>2
  <2> QED
    BY <2>5, <2>6
<1>17. ASSUME NEW j \in Jobs, RunExit(j) PROVE Newer'
  BY <1>17 DEF RunExit
<1>18. CASE UNCHANGED vars
  BY <1>18 DEF vars
<1> QED
  BY <1>1, <1>2, <1>3, <1>4, <1>5, <1>6, <1>7, <1>8, <1>9, <1>10, <1>11, <1>12,
     <1>13, <1>14, <1>15, <1>16, <1>17, <1>18, NextCases

(* A channel that keeps, loses its head or grows by one event stays in     *)
(* frame order when no frame that has begun is newer than the one whose    *)
(* progress or end is sent.                                                *)
InStream(e) ==
    /\ e.type = "frame_start" => e.job \in Begun'
    /\ e.type = "frame_drop" => e.job \in PassedOver'
    /\ e.type \in {"progress", "frame_done"} => e.job \in InPipeline /\ MuFree

LEMMA SendStream ==
    ASSUME TypeOK, Control, Stream, [Next]_vars,
           NEW j \in Jobs, NEW type \in EventType, SafeSend(type, j),
           InStream([type |-> type, job |-> j])
    PROVE  StillTrue' /\ StreamInFrameOrder'
<1> DEFINE e == [type |-> type, job |-> j]
<1>1. events \in Seq(Event) /\ Len(events) \in Nat
  BY DEF TypeOK
<1>2. \A m \in 1..Len(events) : events[m] \in Event
  BY <1>1
<1>3. \A m \in 1..Len(events) :
        /\ events[m].type = "frame_start" => events[m].job \in Begun'
        /\ events[m].type = "frame_drop" => events[m].job \in PassedOver'
  BY NextBegun DEF Stream, StillTrue
<1>4. CASE events' = events
  BY <1>3, <1>4 DEF Stream, StillTrue, StreamInFrameOrder
<1>5. CASE events' = Append(events, e)
  <2>1. /\ e \in Event
        /\ e.type = "frame_start" => e.job \in Begun'
        /\ e.type = "frame_drop" => e.job \in PassedOver'
        /\ e.type \in {"progress", "frame_done"} => e.job \in InPipeline
    BY DEF InStream, Event
  <2> HIDE DEF e
  <2>2. /\ Len(events') = Len(events) + 1 /\ events'[Len(events) + 1] = e
        /\ \A m \in 1..Len(events) : events'[m] = events[m]
    BY <1>1, <1>5, <2>1
  <2>3. StillTrue'
    <3> SUFFICES ASSUME NEW m \in 1..Len(events')
                 PROVE  /\ events'[m].type = "frame_start" => events'[m].job \in Begun'
                        /\ events'[m].type = "frame_drop" => events'[m].job \in PassedOver'
      BY DEF StillTrue
    <3>1. CASE m \in 1..Len(events)
      BY <2>2, <3>1, <1>3
    <3>2. CASE m = Len(events) + 1
      BY <2>1, <2>2, <3>2
    <3> QED
      BY <1>1, <2>2, <3>1, <3>2
  <2>4. ASSUME NEW m \in 1..Len(events), events[m].type = "frame_start",
               e.type \in {"progress", "frame_done"}
        PROVE  events[m].job <= e.job
    <3>1. events[m].job \in Begun
      BY <1>2, <2>4 DEF Stream, StillTrue
    <3>2. e.job \in InPipeline
      BY <2>1, <2>4
    <3> QED
      BY <3>1, <3>2 DEF Stream, Newer
  <2>5. StreamInFrameOrder'
    <3> SUFFICES ASSUME NEW m \in 1..Len(events'), NEW n \in 1..Len(events'),
                        m < n, events'[m].type = "frame_start",
                        events'[n].type \in {"progress", "frame_done"}
                 PROVE  events'[m].job <= events'[n].job
      BY DEF StreamInFrameOrder
    <3>1. m \in 1..Len(events) /\ events'[m] = events[m]
      BY <1>1, <2>2
    <3>2. CASE n \in 1..Len(events)
      <4>1. events'[n] = events[n]
        BY <2>2, <3>2
      <4> QED
        BY <3>1, <3>2, <4>1 DEF Stream, StreamInFrameOrder
    <3>3. CASE n = Len(events) + 1
      BY <2>2, <2>4, <3>1, <3>3
    <3> QED
      BY <1>1, <2>2, <3>2, <3>3
  <2> QED
    BY <2>3, <2>5
<1> QED
  BY <1>4, <1>5 DEF SafeSend

LEMMA NextStream ==
    ASSUME TypeOK, Control, Stream, [Next]_vars
    PROVE  Stream'
<1> DEFINE Kept == StillTrue' /\ StreamInFrameOrder'
<1>0. Newer'
  BY NextNewer DEF Stream
<1> SUFFICES Kept
  BY <1>0 DEF Stream
<1>a. \A m \in 1..Len(events) :
        /\ events[m].type = "frame_start" => events[m].job \in Begun'
        /\ events[m].type = "frame_drop" => events[m].job \in PassedOver'
  BY NextBegun DEF Stream, StillTrue
<1>1. ASSUME events' = events PROVE Kept
  BY <1>1, <1>a DEF Stream, StillTrue, StreamInFrameOrder
<1>2. CASE Consume
  <2>0. events \in Seq(Event) /\ Len(events) \in Nat /\ events # <<>> /\ events' = Tail(events)
    BY <1>2 DEF TypeOK, Consume
  <2>1. Len(events') = Len(events) - 1 /\ \A m \in 1..Len(events') :
          events'[m] = events[m + 1] /\ m + 1 \in 1..Len(events)
    BY <2>0
  <2>2. StillTrue'
    BY <2>1, <1>a DEF StillTrue
  <2>3. StreamInFrameOrder'
    BY <2>0, <2>1 DEF Stream, StreamInFrameOrder
  <2> QED
    BY <2>2, <2>3
<1>3. CASE SubmitStart
  <2>1. submitted \in Jobs /\ submitted' = submitted /\ submitPc' = "spawn"
        /\ SafeSend("frame_start", submitted)
    BY <1>3 DEF SubmitStart, Control, SubmitHolds
  <2>2. InStream([type |-> "frame_start", job |-> submitted])
    BY <2>1 DEF InStream, Begun
  <2> QED
    BY <2>1, <2>2, SendStream DEF EventType
<1>4. CASE SubmitReplace
  <2>1. pending # None => pending \in Jobs /\ pc[pending] = "idle" /\ pending < submitted
    BY <1>4 DEF SubmitReplace, TypeOK, Control, NewestPending, Stream, Newer
  <2>2. pc' = pc /\ submitted' = submitted
    BY <1>4 DEF SubmitReplace, runnerVars
  <2>3. pending # None => InStream([type |-> "frame_drop", job |-> pending])
    BY <2>1, <2>2 DEF InStream, PassedOver
  <2>4. CASE pending # None
    <3>1. SafeSend("frame_drop", pending)
      BY <1>4, <2>4 DEF SubmitReplace
    <3> QED
      BY <3>1, <2>1, <2>3, <2>4, SendStream DEF EventType
  <2>5. CASE pending = None
    BY <1>4, <2>5, <1>1 DEF SubmitReplace, channelVars
  <2> QED
    BY <2>4, <2>5
<1>5. CASE SubmitStatus
  <2>1. submitted \in Jobs /\ SafeSend("queue_status", submitted)
    BY <1>5 DEF SubmitStatus, Control, SubmitHolds
  <2>2. InStream([type |-> "queue_status", job |-> submitted])
    BY <2>1 DEF InStream, PassedOver
  <2> QED
    BY <2>1, <2>2, SendStream DEF EventType
<1>6. ASSUME NEW j \in Jobs, RunForward(j) PROVE Kept
  <2>1. SafeSend("progress", j) /\ MuFree /\ j \in InPipeline
    BY <1>6 DEF RunForward, InPipeline, Live
  <2>2. InStream([type |-> "progress", job |-> j])
    BY <2>1 DEF InStream, PassedOver
  <2> QED
    BY <2>1, <2>2, SendStream DEF EventType
<1>7. ASSUME NEW j \in Jobs, FinishDone(j) PROVE Kept
  <2>1. SafeSend("frame_done", j) /\ MuFree /\ j \in InPipeline
    BY <1>7 DEF FinishDone, InPipeline, Live
  <2>2. InStream([type |-> "frame_done", job |-> j])
    BY <2>1 DEF InStream, PassedOver
  <2> QED
    BY <2>1, <2>2, SendStream DEF EventType
<1>8. ASSUME NEW j \in Jobs, FinishStart(j) PROVE Kept
  <2>1. SafeSend("frame_start", pending) /\ pending \in Jobs
    BY <1>8 DEF FinishStart, Control, FinishHolds
  <2>2. pc' = [pc EXCEPT ![j] = "exit", ![pending] = "window"]
    BY <1>8 DEF FinishStart
  <2>3. pc'[pending] # "idle"
    BY <2>1, <2>2 DEF TypeOK
  <2>4. InStream([type |-> "frame_start", job |-> pending])
    BY <2>1, <2>3 DEF InStream, Begun
  <2> QED
    BY <2>1, <2>4, SendStream DEF EventType
<1>9. CASE SubmitAccept \/ SubmitSpawn \/ StopCancel \/ StopClose \/ CloseEvents
           \/ UNCHANGED vars
  BY <1>1, <1>9 DEF SubmitAccept, SubmitSpawn, StopCancel, StopClose, CloseEvents,
                    channelVars, vars
<1>10. ASSUME NEW j \in Jobs,
              RunWindow(j) \/ RunEvent(j) \/ RunEnd(j) \/ FinishTake(j) \/ RunExit(j)
       PROVE  Kept
  BY <1>1, <1>10 DEF RunWindow, RunEvent, RunEnd, FinishTake, RunExit, channelVars
<1>11. Kept
  BY <1>2, <1>3, <1>4, <1>5, <1>6, <1>7, <1>8, <1>9, <1>10, NextCases
<1> QED
  BY <1>11

THEOREM StreamInvariant == Spec => []Stream
<1>1. TypeOK /\ Control /\ Stream /\ [Next]_vars => Stream'
  BY NextStream
<1> QED
  BY InitStream, ControlInvariant, <1>1, PTL DEF Spec

(* Whatever is still in the channel is true and in order: no frame's       *)
(* progress or end follows the start of a newer frame, and a frame         *)
(* reported dropped has not run (video_session.go:106-114, 307-327).       *)
THEOREM StreamHonestAlways == Spec => []StreamHonest
<1>1. TypeOK /\ Stream => StreamHonest
  BY DEF Stream, StillTrue, PassedOver, StreamHonest, DroppedNeverRuns
<1> QED
  BY TypeCorrect, StreamInvariant, <1>1, PTL

-----------------------------------------------------------------------------
(* The frame itself is the last of its window when the indices grow with   *)
(* the frames and it is still remembered.                                  *)
LEMMA FrameEndsWindow ==
    ASSUME TypeOK, NEW j \in Jobs, j <= submitted, submitted - j < HistoryCap,
           \A a, b \in 1..submitted : a < b => idxOf[a] < idxOf[b]
    PROVE  j \in FrameWindow(j) /\ \A k \in FrameWindow(j) : k <= j
<1> DEFINE F == {k \in History : idxOf[k] <= idxOf[j]}
<1>1. idxOf \in [1..MaxJobs -> Int] /\ submitted \in 0..MaxJobs
  BY DEF TypeOK
<1>2. j \in F
  BY <1>1 DEF History
<1>3. \A k \in F : k \in Jobs /\ k <= j
  <2> SUFFICES ASSUME NEW k \in F PROVE k \in Jobs /\ k <= j
    OBVIOUS
  <2>1. k \in 1..submitted /\ j \in 1..submitted /\ idxOf[k] <= idxOf[j]
    BY <1>1 DEF History
  <2>2. ~(j < k)
    BY <1>1, <2>1
  <2> QED
    BY <1>1, <2>1, <2>2
<1>4. {l \in F : l > j} = {}
  BY <1>3
<1>5. Cardinality({l \in F : l > j}) < WindowSize
  BY <1>4, FS_EmptySet
<1> QED
  BY <1>2, <1>3, <1>5 DEF FrameWindow, Newest

LEMMA NextWindow ==
    ASSUME TypeOK, Control, WindowEndsWithFrame, [Next]_vars
    PROVE  WindowEndsWithFrame'
<1> SUFFICES ASSUME NEW j \in Jobs,
                    pc'[j] \notin {"idle", "window"},
                    submitted' - j < HistoryCap,
                    \A a, b \in 1..submitted' : a < b => idxOf'[a] < idxOf'[b]
             PROVE  j \in window'[j] /\ \A k \in window'[j] : k <= j
  BY DEF WindowEndsWithFrame
<1>0. /\ pc \in [Jobs -> Live \cup {"idle", "gone"}]
      /\ window \in [Jobs -> SUBSET Jobs]
  BY DEF TypeOK
<1>1. idxOf' = idxOf
  <2>1. CASE SubmitAccept \/ SubmitStart \/ SubmitSpawn \/ SubmitReplace \/ SubmitStatus
             \/ StopCancel \/ StopClose \/ CloseEvents \/ Consume \/ UNCHANGED vars
    BY <2>1 DEF SubmitAccept, SubmitStart, SubmitSpawn, SubmitReplace, SubmitStatus,
                StopCancel, StopClose, CloseEvents, Consume, vars
  <2>2. ASSUME NEW i \in Jobs,
               \/ RunWindow(i) \/ RunEvent(i) \/ RunForward(i) \/ RunEnd(i)
               \/ FinishDone(i) \/ FinishTake(i) \/ FinishStart(i) \/ RunExit(i)
        PROVE  idxOf' = idxOf
    BY <2>2 DEF RunWindow, RunEvent, RunForward, RunEnd, FinishDone, FinishTake,
                FinishStart, RunExit
  <2> QED
    BY <2>1, <2>2, NextCases
<1>2. /\ submitted - j < HistoryCap
      /\ \A a, b \in 1..submitted : a < b => idxOf[a] < idxOf[b]
  <2>1. submitted \in Nat /\ submitted' \in Nat /\ submitted <= submitted'
    BY SubmittedGrows
  <2>2. submitted - j < HistoryCap
    <3>1. \A a, b, i, c \in Int : a <= b /\ b - i < c => a - i < c
      OBVIOUS
    <3>2. submitted \in Int /\ submitted' \in Int /\ j \in Int /\ HistoryCap \in Int
      BY <2>1
    <3>3. submitted' - j < HistoryCap
      OBVIOUS
    <3> QED
      BY <2>1, <3>1, <3>2, <3>3, Zenon
  <2>3. \A a, b \in 1..submitted : a < b => idxOf[a] < idxOf[b]
    <3> SUFFICES ASSUME NEW a \in 1..submitted, NEW b \in 1..submitted, a < b
                 PROVE  idxOf[a] < idxOf[b]
      OBVIOUS
    <3>1. a \in 1..submitted' /\ b \in 1..submitted'
      BY <2>1
    <3> QED
      BY <1>1, <3>1
  <2> QED
    BY <2>2, <2>3
<1>3. CASE window' = window /\ pc[j] \notin {"idle", "window"}
  BY <1>2, <1>3 DEF WindowEndsWithFrame
<1>4. CASE SubmitAccept \/ SubmitStart \/ SubmitReplace \/ SubmitStatus
           \/ StopCancel \/ StopClose \/ CloseEvents \/ Consume \/ UNCHANGED vars
  BY <1>3, <1>4 DEF SubmitAccept, SubmitStart, SubmitReplace, SubmitStatus,
                    StopCancel, StopClose, CloseEvents, Consume, runnerVars, vars
<1>5. CASE SubmitSpawn
  BY <1>0, <1>3, <1>5 DEF SubmitSpawn, Control, SubmitHolds
<1>6. ASSUME NEW i \in Jobs,
             RunEvent(i) \/ RunForward(i) \/ RunEnd(i) \/ FinishDone(i)
             \/ FinishTake(i) \/ RunExit(i)
      PROVE  window' = window /\ pc[j] \notin {"idle", "window"}
  <2>1. window' = window
    BY <1>6 DEF RunEvent, RunForward, RunEnd, FinishDone, FinishTake, RunExit, runnerVars
  <2>2. pc[i] \notin {"idle", "window"}
    BY <1>6 DEF RunEvent, RunForward, RunEnd, FinishDone, FinishTake, RunExit
  <2>3. \E label \in Live \cup {"gone"} : pc' = [pc EXCEPT ![i] = label]
    BY <1>6 DEF RunEvent, RunForward, RunEnd, FinishDone, FinishTake, RunExit, Goto, Live
  <2> QED
    BY <1>0, <2>1, <2>2, <2>3
<1>7. ASSUME NEW i \in Jobs, FinishStart(i)
      PROVE  window' = window /\ pc[j] \notin {"idle", "window"}
  <2>1. pc[i] = "finishing" /\ pending \in Jobs /\ window' = window
        /\ pc' = [pc EXCEPT ![i] = "exit", ![pending] = "window"]
    BY <1>7 DEF FinishStart, Control, FinishHolds
  <2> QED
    BY <1>0, <2>1
<1>8. ASSUME NEW i \in Jobs, RunWindow(i)
      PROVE  j \in window'[j] /\ \A k \in window'[j] : k <= j
  <2>1. pc[i] = "window" /\ window' = [window EXCEPT ![i] = FrameWindow(i)]
        /\ pc' = [pc EXCEPT ![i] = "ranging"]
    BY <1>8 DEF RunWindow, Goto
  <2>2. CASE i = j
    <3>1. j <= submitted
      BY <2>1, <2>2 DEF Control, Accepted, TypeOK
    <3>2. j \in FrameWindow(j) /\ \A k \in FrameWindow(j) : k <= j
      BY <1>2, <3>1, FrameEndsWindow
    <3>3. window'[j] = FrameWindow(j)
      BY <1>0, <2>1, <2>2
    <3> QED
      BY <3>2, <3>3
  <2>3. CASE i # j
    <3>1. window'[j] = window[j] /\ pc'[j] = pc[j]
      BY <1>0, <2>1, <2>3
    <3> QED
      BY <1>2, <3>1 DEF WindowEndsWithFrame
  <2> QED
    BY <2>2, <2>3
<1> QED
  BY <1>3, <1>4, <1>5, <1>6, <1>7, <1>8, NextCases

(* When the indices grow with the frames, the window handed to the         *)
(* pipeline ends with the frame it inspects, whatever was submitted since  *)
(* (video_session.go:173-194).                                             *)
THEOREM WindowEndsWithFrameAlways == Spec => []WindowEndsWithFrame
<1>1. Init => WindowEndsWithFrame
  BY DEF Init, WindowEndsWithFrame
<1>2. TypeOK /\ Control /\ WindowEndsWithFrame /\ [Next]_vars => WindowEndsWithFrame'
  BY NextWindow
<1> QED
  BY <1>1, ControlInvariant, <1>2, PTL DEF Spec
===============================================================================
