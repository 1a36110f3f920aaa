------------------------------ MODULE AgentProofs ------------------------------
(***************************************************************************)
(* Proofs about Agent: its types, that an idle agent is settled, and that  *)
(* its history keeps step with what was sent, for any number of runs, of   *)
(* turns and of calls, any capacities, and any loops that send what        *)
(* AgentEvents allows.                                                     *)
(***************************************************************************)
EXTENDS Agent, SequenceTheorems, TLAPS

USE AgentAssumption DEF Runs

(* Every step of the callers, the loops, the trackers and the readers. *)
LEMMA NextCases ==
    ASSUME Next
    PROVE  \/ Prompt \/ Continue \/ AppendMessage \/ SetCancel \/ SetIdle \/ SetState
           \/ Abort
           \/ \E r \in Runs : \/ LoopSend(r) \/ LoopClose(r)
                              \/ Take(r) \/ LoopOver(r) \/ Forward(r) \/ GiveUp(r)
                              \/ ResetState(r) \/ SignalIdle(r) \/ UnsetCancel(r)
                              \/ Release(r) \/ Read(r)
  BY DEF Next, Call, Loop, Tracker

-----------------------------------------------------------------------------
(* The control points, the flags and the channels' ends. *)
FlagsOK ==
    /\ caller \in {"free", "setCancel", "setIdle", "setState"}
    /\ run \in 0..MaxRuns
    /\ streaming \in BOOLEAN /\ failed \in BOOLEAN
    /\ cancelFn \in 0..MaxRuns /\ idleCh \in 0..MaxRuns
    /\ idle \in [0..MaxRuns -> BOOLEAN]
    /\ cancelled \in [Runs -> BOOLEAN] /\ loopDone \in [Runs -> BOOLEAN]
    /\ tracker \in [Runs -> TrackerLabels]

Message == [kind : Kinds, run : 0..MaxRuns, turn : 0..MaxTurns, n : 0..MaxCalls]

(* The two channels of a run; the event being forwarded has been taken but *)
(* is not yet unread.                                                      *)
ChannelsOK(r) ==
    /\ unread[r] <= taken[r] /\ taken[r] <= Len(sent[r])
    /\ Len(sent[r]) - taken[r] <= LoopCap
    /\ tracker[r] = "forward" => unread[r] < taken[r]

(* What is counted and recorded. *)
DataOK ==
    /\ messages \in Seq(Message)
    /\ partial \in 0..MaxTurns
    /\ pending \subseteq 0..MaxCalls
    /\ sent \in [Runs -> Seq(Event)]
    /\ taken \in [Runs -> Nat] /\ unread \in [Runs -> 0..OutCap]
    /\ \A r \in Runs : ChannelsOK(r)

LEMMA FlagsStep ==
    ASSUME FlagsOK, [Next]_vars
    PROVE  FlagsOK'
<1> USE DEF FlagsOK, TrackerLabels
<1>1. CASE Prompt \/ Continue \/ AppendMessage
  BY <1>1 DEF Prompt, Continue, AppendMessage, MayCall, stateVars, idleVars, loopVars, trackVars
<1>2. CASE SetCancel \/ SetIdle \/ SetState
  BY <1>2 DEF SetCancel, SetIdle, SetState, stateVars, idleVars, loopVars, trackVars
<1>3. CASE Abort
  BY <1>3 DEF Abort, stateVars, loopVars, trackVars
<1>4. ASSUME NEW r \in Runs, LoopSend(r) \/ LoopClose(r) PROVE FlagsOK'
  BY <1>4 DEF LoopSend, LoopClose, stateVars, idleVars, trackVars
<1>5. ASSUME NEW r \in Runs, Take(r) PROVE FlagsOK'
  <2>1. failed' \in BOOLEAN /\ UNCHANGED streaming
    BY <1>5, Zenon DEF Take, Record
  <2>2. UNCHANGED <<caller, run, idleVars, loopVars>> /\ tracker' = [tracker EXCEPT ![r] = "forward"]
    BY <1>5 DEF Take
  <2> QED
    BY <2>1, <2>2 DEF idleVars, loopVars
<1>6. ASSUME NEW r \in Runs, LoopOver(r) \/ Forward(r) \/ GiveUp(r) \/ Read(r) PROVE FlagsOK'
  BY <1>6 DEF LoopOver, Forward, GiveUp, Read, stateVars, idleVars, loopVars
<1>7. ASSUME NEW r \in Runs, ResetState(r) \/ SignalIdle(r) PROVE FlagsOK'
  BY <1>7 DEF ResetState, SignalIdle, stateVars, idleVars, loopVars
<1>9. ASSUME NEW r \in Runs, UnsetCancel(r) PROVE FlagsOK'
  BY <1>9 DEF UnsetCancel, stateVars, loopVars
<1>10. ASSUME NEW r \in Runs, Release(r) PROVE FlagsOK'
  BY <1>10 DEF Release, stateVars, loopVars
<1>8. CASE UNCHANGED vars
  BY <1>8 DEF vars
<1> QED
  BY <1>1, <1>2, <1>3, <1>4, <1>5, <1>6, <1>7, <1>8, <1>9, <1>10, NextCases

(* What an event adds to the history is at most one message. *)
LEMMA RecordedType ==
    ASSUME NEW r \in Runs, NEW e \in Event
    PROVE  /\ Recorded(r, e) \in Seq(Message)
           /\ Recorded(r, e) = <<>> \/ \E m \in Message : Recorded(r, e) = <<m>> /\ m.run = r
<1>1. /\ e.turn \in 0..MaxTurns /\ e.call \in 0..MaxCalls
      /\ e.calls \in Int /\ e.calls <= MaxCalls
  BY DEF Event
<1>2. CASE e.type = "turn_end" /\ e.calls >= 0
  <2>1. Recorded(r, e) = <<Msg("assistant", r, e.turn, e.calls)>>
    <3>1. ~(e.calls < 0)
      BY <1>1, <1>2
    <3> QED
      BY <1>2, <3>1, Zenon DEF Recorded
  <2>2. Msg("assistant", r, e.turn, e.calls) \in Message /\ Msg("assistant", r, e.turn, e.calls).run = r
    BY <1>1, <1>2 DEF Msg, Message, Kinds
  <2> QED
    BY <2>1, <2>2
<1>3. CASE e.type = "turn_end" /\ e.calls < 0
  <2>1. Recorded(r, e) = <<Msg("failure", r, e.turn, 0)>>
    BY <1>1, <1>3 DEF Recorded
  <2>2. Msg("failure", r, e.turn, 0) \in Message /\ Msg("failure", r, e.turn, 0).run = r
    BY <1>1 DEF Msg, Message, Kinds
  <2> QED
    BY <2>1, <2>2
<1>4. CASE e.type = "tool_end"
  <2>1. Recorded(r, e) = <<Msg("tool", r, e.turn, e.call)>>
    BY <1>4 DEF Recorded
  <2>2. Msg("tool", r, e.turn, e.call) \in Message /\ Msg("tool", r, e.turn, e.call).run = r
    BY <1>1 DEF Msg, Message, Kinds
  <2> QED
    BY <2>1, <2>2
<1>5. CASE e.type = "context_patch"
  <2>1. Recorded(r, e) = <<Msg("patch", r, e.turn, e.call)>>
    BY <1>5 DEF Recorded
  <2>2. Msg("patch", r, e.turn, e.call) \in Message /\ Msg("patch", r, e.turn, e.call).run = r
    BY <1>1 DEF Msg, Message, Kinds
  <2> QED
    BY <2>1, <2>2
<1>6. CASE e.type \notin {"turn_end", "tool_end", "context_patch"}
  <2>1. Recorded(r, e) = <<>>
    BY <1>6 DEF Recorded
  <2> QED
    BY <2>1
<1> QED
  BY <1>1, <1>2, <1>3, <1>4, <1>5, <1>6

(* The history, the channels and their readers. *)
LEMMA DataStep ==
    ASSUME FlagsOK, DataOK, [Next]_vars
    PROVE  DataOK'
<1> USE DEF DataOK
<1>1. CASE Prompt
  <2>1. Msg("user", run + 1, 0, 0) \in Message
    BY <1>1 DEF Prompt, MayCall, FlagsOK, Msg, Message, Kinds
  <2>2. messages' \in Seq(Message)
    BY <1>1, <2>1 DEF Prompt
  <2> QED
    BY <1>1, <2>2 DEF Prompt, loopVars, trackVars, ChannelsOK
<1>2. CASE AppendMessage
  <2>1. Msg("appended", run, 0, 0) \in Message
    BY DEF FlagsOK, Msg, Message, Kinds
  <2>2. messages' \in Seq(Message)
    BY <1>2, <2>1 DEF AppendMessage
  <2> QED
    BY <1>2, <2>2 DEF AppendMessage, loopVars, trackVars, ChannelsOK
<1>3. CASE Continue \/ SetCancel \/ SetIdle \/ Abort
  BY <1>3 DEF Continue, SetCancel, SetIdle, Abort, stateVars, loopVars, trackVars,
                     ChannelsOK
<1>4. CASE SetState
  BY <1>4 DEF SetState, loopVars, FlagsOK, ChannelsOK
<1>5. ASSUME NEW r \in Runs, LoopSend(r) PROVE DataOK'
  <2>1. PICK e \in SentEvents[r] : sent' = [sent EXCEPT ![r] = Append(@, e)]
    BY <1>5 DEF LoopSend
  <2>2. e \in Event
    BY SentAssumption
  <2>3. Append(sent[r], e) \in Seq(Event) /\ Len(Append(sent[r], e)) = Len(sent[r]) + 1
    BY <2>2
  <2>4. Len(sent[r]) - taken[r] < LoopCap /\ UNCHANGED <<stateVars, trackVars>>
    BY <1>5 DEF LoopSend
  <2>5. \A q \in Runs : taken[q] \in Nat /\ Len(sent[q]) \in Nat
    OBVIOUS
  <2>6. sent' \in [Runs -> Seq(Event)]
    BY <2>1, <2>3
  <2>7. \A q \in Runs : ChannelsOK(q)'
    BY <2>1, <2>3, <2>4, <2>5 DEF trackVars, ChannelsOK
  <2> QED
    BY <2>4, <2>6, <2>7 DEF stateVars, trackVars
<1>6. ASSUME NEW r \in Runs, LoopClose(r) PROVE DataOK'
  BY <1>6 DEF LoopClose, stateVars, trackVars, ChannelsOK
<1>7. ASSUME NEW r \in Runs, Take(r) PROVE DataOK'
  <2> DEFINE e == sent[r][taken[r] + 1]
  <2>1. /\ taken[r] < Len(sent[r])
        /\ taken' = [taken EXCEPT ![r] = taken[r] + 1]
        /\ tracker' = [tracker EXCEPT ![r] = "forward"]
        /\ Record(r, e) /\ UNCHANGED <<loopVars, unread>>
    BY <1>7 DEF Take
  <2>2. e \in Event
    BY <2>1
  <2>3. e.turn \in 0..MaxTurns /\ e.call \in 0..MaxCalls
    BY <2>2 DEF Event
  <2> HIDE DEF e
  <2>4. messages' \in Seq(Message)
    BY <2>1, <2>2, RecordedType DEF Record
  <2>5. partial' \in 0..MaxTurns /\ pending' \subseteq 0..MaxCalls
    BY <2>1, <2>3 DEF Record
  <2>6. \A q \in Runs : taken[q] \in Nat /\ Len(sent[q]) \in Nat
    OBVIOUS
  <2>7. taken' \in [Runs -> Nat]
    BY <2>1
  <2>8. \A q \in Runs : ChannelsOK(q)'
    BY <2>1, <2>6, SMTT(30) DEF loopVars, FlagsOK, ChannelsOK
  <2> QED
    BY <2>1, <2>4, <2>5, <2>7, <2>8 DEF loopVars
<1>8. ASSUME NEW r \in Runs, LoopOver(r) \/ GiveUp(r) PROVE DataOK'
  BY <1>8 DEF LoopOver, GiveUp, stateVars, loopVars, FlagsOK, ChannelsOK
<1>9. ASSUME NEW r \in Runs, Forward(r) PROVE DataOK'
  BY <1>9 DEF Forward, stateVars, loopVars, FlagsOK, ChannelsOK
<1>10. ASSUME NEW r \in Runs, ResetState(r) PROVE DataOK'
  <2>1. \A q \in Runs : ChannelsOK(q)'
    BY <1>10 DEF ResetState, loopVars, FlagsOK, ChannelsOK
  <2> QED
    BY <1>10, <2>1 DEF ResetState, loopVars
<1>13. ASSUME NEW r \in Runs, SignalIdle(r) \/ UnsetCancel(r) PROVE DataOK'
  <2>1. \A q \in Runs : ChannelsOK(q)'
    BY <1>13 DEF SignalIdle, UnsetCancel, loopVars, FlagsOK, ChannelsOK
  <2> QED
    BY <1>13, <2>1 DEF SignalIdle, UnsetCancel, stateVars, loopVars
<1>11. ASSUME NEW r \in Runs, Release(r) \/ Read(r) PROVE DataOK'
  <2>1. \A q \in Runs : taken[q] \in Nat /\ unread[q] \in 0..OutCap
    OBVIOUS
  <2>2. PICK n \in 0..unread[r] : unread' = [unread EXCEPT ![r] = n]
    <3>1. CASE Release(r)
      <4>1. 0 \in 0..unread[r] /\ unread' = [unread EXCEPT ![r] = 0]
        BY <2>1, <3>1 DEF Release
      <4> QED
        BY <4>1, Zenon
    <3>2. CASE Read(r)
      <4>1. /\ unread[r] - 1 \in 0..unread[r]
            /\ unread' = [unread EXCEPT ![r] = unread[r] - 1]
        BY <2>1, <3>2 DEF Read
      <4> QED
        BY <4>1, Zenon
    <3> QED
      BY <1>11, <3>1, <3>2
  <2>3. UNCHANGED <<taken, stateVars, loopVars>>
    BY <1>11 DEF Release, Read
  <2>4. \A q \in Runs : tracker'[q] = "forward" => tracker[q] = "forward"
    BY <1>11 DEF Release, Read, FlagsOK
  <2>5. unread' \in [Runs -> 0..OutCap] /\ \A q \in Runs : unread'[q] <= unread[q]
    BY <2>1, <2>2
  <2>6. \A q \in Runs : ChannelsOK(q)'
    BY <2>1, <2>3, <2>4, <2>5 DEF loopVars, ChannelsOK
  <2> QED
    BY <2>3, <2>5, <2>6 DEF stateVars, loopVars
<1>12. CASE UNCHANGED vars
  BY <1>12 DEF vars, ChannelsOK
<1> QED
  BY <1>1, <1>2, <1>3, <1>4, <1>5, <1>6, <1>7, <1>8, <1>9, <1>10, <1>11, <1>12, <1>13,
     NextCases

LEMMA InitType == Init => FlagsOK /\ DataOK
<1> SUFFICES ASSUME Init PROVE FlagsOK /\ DataOK
  OBVIOUS
<1>1. FlagsOK
  <2>1. /\ run \in 0..MaxRuns /\ idle \in [0..MaxRuns -> BOOLEAN]
        /\ cancelFn \in 0..MaxRuns /\ idleCh \in 0..MaxRuns
    BY DEF Init
  <2>2. /\ caller = "free" /\ streaming = FALSE /\ failed = FALSE
        /\ cancelled \in [Runs -> BOOLEAN] /\ loopDone \in [Runs -> BOOLEAN]
        /\ tracker = [r \in Runs |-> "none"]
    BY DEF Init
  <2> QED
    BY <2>1, <2>2 DEF FlagsOK, TrackerLabels
<1>2. messages \in Seq(Message) /\ \A r \in Runs : sent[r] \in Seq(Event) /\ Len(sent[r]) = 0
  BY DEF Init
<1> QED
  BY <1>1, <1>2 DEF Init, DataOK, ChannelsOK

LEMMA TypeInvariant == Spec => [](FlagsOK /\ DataOK)
<1>1. FlagsOK /\ DataOK /\ [Next]_vars => (FlagsOK /\ DataOK)'
  BY FlagsStep, DataStep
<1> QED
  BY <1>1, InitType, PTL DEF Spec

(* Every variable of the agent has its type, both channels hold no more    *)
(* than they can, and a tracker is never ahead of its loop, nor a reader   *)
(* of its tracker (agent.go:263-300).                                      *)
THEOREM TypeCorrect == Spec => []TypeOK
<1>1. FlagsOK /\ DataOK => TypeOK
  BY DEF FlagsOK, DataOK, ChannelsOK, TypeOK, Message
<1> QED
  BY <1>1, TypeInvariant, PTL

-----------------------------------------------------------------------------
(* The life of a run, which IdleIsSettled rests on.  A tracker that may    *)
(* still write the agent's state is that of the last run, its idle channel *)
(* is open and Prompt has returned; a tracker that has told it is idle     *)
(* writes no more, so the next run may overlap with it.                    *)
Working == {"range", "forward", "reset", "signal"}
Ended   == {"unset", "release", "done"}

LifeOf(r) ==
    /\ tracker[r] = "none" <=> r > run \/ (r = run /\ caller # "free")
    /\ tracker[r] \in Working => r = run /\ ~idle[r]
    /\ tracker[r] \in Ended => idle[r]
    /\ tracker[r] = "none" => ~idle[r] /\ taken[r] = 0
    /\ ~Launched(r) => sent[r] = <<>>

Settled == ~streaming /\ partial = 0 /\ pending = {}

Writes(r) == tracker[r] \in {"range", "forward", "reset"}

IdleOfLast ==
    /\ idleCh = IF caller \in {"setCancel", "setIdle"} THEN run - 1 ELSE run
    /\ idle[0]
    /\ caller # "free" => run > 0

Life ==
    /\ IdleOfLast
    /\ \A r \in Runs : LifeOf(r)
    /\ (\A r \in Runs : ~Writes(r)) => Settled

LEMMA SettledWhenIdle ==
    ASSUME FlagsOK, Life
    PROVE  IdleIsSettled
<1> SUFFICES ASSUME idle[idleCh] PROVE \A r \in Runs : ~Writes(r)
  BY DEF Life, IdleIsSettled, Settled
<1>1. ASSUME NEW r \in Runs, Writes(r) PROVE FALSE
  <2>1. tracker[r] # "none" /\ r = run /\ ~idle[r]
    BY <1>1 DEF Life, LifeOf, Writes, Working
  <2>2. caller = "free"
    BY <2>1 DEF Life, LifeOf
  <2> QED
    BY <2>1, <2>2 DEF Life, IdleOfLast
<1> QED
  BY <1>1

LEMMA LifeStep ==
    ASSUME FlagsOK, DataOK, Life, [Next]_vars
    PROVE  Life'
<1> USE DEF FlagsOK
<1>1. CASE Prompt \/ Continue
  <2>1. /\ caller = "free" /\ run < MaxRuns /\ idle[idleCh]
        /\ run' = run + 1 /\ caller' = "setCancel"
        /\ UNCHANGED <<streaming, partial, pending, idleVars, loopVars, trackVars>>
    BY <1>1 DEF Prompt, Continue, MayCall, stateVars
  <2>2. idle[run]
    BY <2>1 DEF Life, IdleOfLast
  <2>3. ASSUME NEW r \in Runs PROVE LifeOf(r)'
    <3>1. LifeOf(r)
      BY DEF Life
    <3>2. ~Launched(r)' <=> r > run
      BY <2>1 DEF Launched
    <3>3. ~Launched(r) <=> r > run
      BY <2>1 DEF Launched
    <3>4. tracker[r] \notin Working
      BY <2>2, <3>1 DEF LifeOf
    <3> QED
      BY <2>1, <3>1, <3>2, <3>3, <3>4 DEF LifeOf, idleVars, loopVars, trackVars
  <2>4. IdleOfLast'
    BY <2>1 DEF Life, IdleOfLast, idleVars
  <2> QED
    BY <2>1, <2>3, <2>4 DEF Life, Settled, Writes, trackVars
<1>2. CASE AppendMessage \/ Abort
  BY <1>2 DEF AppendMessage, Abort, Life, IdleOfLast, LifeOf, Launched, Settled, Writes,
              idleVars, loopVars, trackVars, stateVars
<1>3. CASE SetCancel
  BY <1>3 DEF SetCancel, Life, IdleOfLast, LifeOf, Launched, Settled, Writes,
              loopVars, trackVars, stateVars
<1>4. CASE SetIdle
  BY <1>4 DEF SetIdle, Life, IdleOfLast, LifeOf, Launched, Settled, Writes,
              loopVars, trackVars, stateVars
<1>5. CASE SetState
  <2>1. /\ caller = "setState" /\ caller' = "free"
        /\ tracker' = [tracker EXCEPT ![run] = "range"]
        /\ UNCHANGED <<run, idleVars, loopVars, taken, unread>>
    BY <1>5 DEF SetState
  <2>2. run \in Runs
    BY <2>1 DEF Life, IdleOfLast
  <2>3. ~idle[run]
    BY <2>1, <2>2 DEF Life, LifeOf
  <2>4. ASSUME NEW r \in Runs PROVE LifeOf(r)'
    <3>1. LifeOf(r)
      BY DEF Life
    <3>2. Launched(r)' <=> Launched(r)
      BY <2>1 DEF Launched
    <3> QED
      BY <2>1, <2>2, <2>3, <3>1, <3>2 DEF LifeOf, idleVars, loopVars, Working, Ended
  <2>5. Writes(run)'
    BY <2>1, <2>2 DEF Writes
  <2> QED
    BY <2>1, <2>2, <2>4, <2>5 DEF Life, IdleOfLast, idleVars
<1>6. ASSUME NEW r \in Runs, LoopSend(r) \/ LoopClose(r) PROVE Life'
  <2>1. Launched(r) /\ UNCHANGED <<caller, run, stateVars, idleVars, trackVars>>
    BY <1>6 DEF LoopSend, LoopClose
  <2>2. \A q \in Runs : q # r => sent'[q] = sent[q]
    BY <1>6 DEF LoopSend, LoopClose, DataOK
  <2> QED
    BY <2>1, <2>2 DEF Life, IdleOfLast, LifeOf, Launched, Settled, Writes, idleVars,
                      trackVars, stateVars
<1>7. ASSUME NEW r \in Runs, Take(r) \/ LoopOver(r) \/ Forward(r) \/ GiveUp(r) PROVE Life'
  <2>1. PICK label \in {"range", "forward", "reset"} :
            tracker' = [tracker EXCEPT ![r] = label]
    BY <1>7 DEF Take, LoopOver, Forward, GiveUp
  <2>2. /\ tracker[r] \in {"range", "forward"}
        /\ UNCHANGED <<caller, run, idleVars, loopVars>>
        /\ \A q \in Runs : q # r => taken'[q] = taken[q]
    BY <1>7 DEF Take, LoopOver, Forward, GiveUp, DataOK
  <2>3. ASSUME NEW q \in Runs PROVE LifeOf(q)'
    <3>1. LifeOf(q) /\ (Launched(q)' <=> Launched(q))
      BY <2>2 DEF Life, Launched
    <3> QED
      BY <2>1, <2>2, <3>1 DEF LifeOf, idleVars, loopVars, Working, Ended
  <2>4. Writes(r)'
    BY <2>1 DEF Writes
  <2> QED
    BY <2>2, <2>3, <2>4 DEF Life, IdleOfLast, idleVars
<1>8. ASSUME NEW r \in Runs, ResetState(r) PROVE Life'
  <2>1. /\ tracker[r] = "reset" /\ tracker' = [tracker EXCEPT ![r] = "signal"]
        /\ UNCHANGED <<caller, run, idleVars, loopVars, taken, unread>>
    BY <1>8 DEF ResetState
  <2>2. ASSUME NEW q \in Runs PROVE LifeOf(q)'
    <3>1. LifeOf(q) /\ (Launched(q)' <=> Launched(q))
      BY <2>1 DEF Life, Launched
    <3> QED
      BY <2>1, <3>1 DEF LifeOf, idleVars, loopVars, Working, Ended
  <2>3. Settled'
    BY <1>8 DEF ResetState, Settled
  <2> QED
    BY <2>1, <2>2, <2>3 DEF Life, IdleOfLast, idleVars
<1>9. ASSUME NEW r \in Runs, SignalIdle(r) PROVE Life'
  <2>1. /\ tracker[r] = "signal" /\ tracker' = [tracker EXCEPT ![r] = "unset"]
        /\ idle' = [idle EXCEPT ![r] = TRUE]
        /\ UNCHANGED <<caller, run, stateVars, cancelFn, idleCh, loopVars, taken, unread>>
    BY <1>9 DEF SignalIdle
  <2>2. ASSUME NEW q \in Runs PROVE LifeOf(q)'
    <3>1. LifeOf(q) /\ (Launched(q)' <=> Launched(q))
      BY <2>1 DEF Life, Launched
    <3> QED
      BY <2>1, <3>1 DEF LifeOf, loopVars, Working, Ended
  <2>3. \A q \in Runs : Writes(q)' <=> Writes(q)
    BY <2>1 DEF Writes
  <2> QED
    BY <2>1, <2>2, <2>3 DEF Life, IdleOfLast, Settled, stateVars
<1>10. ASSUME NEW r \in Runs, UnsetCancel(r) \/ Release(r) PROVE Life'
  <2>1. PICK label \in Ended : tracker' = [tracker EXCEPT ![r] = label]
    BY <1>10 DEF UnsetCancel, Release, Ended
  <2>2. /\ tracker[r] \in Ended
        /\ UNCHANGED <<caller, run, stateVars, idleCh, idle, loopVars, taken>>
    BY <1>10 DEF UnsetCancel, Release, Ended
  <2>3. ASSUME NEW q \in Runs PROVE LifeOf(q)'
    <3>1. LifeOf(q) /\ (Launched(q)' <=> Launched(q))
      BY <2>2 DEF Life, Launched
    <3> QED
      BY <2>1, <2>2, <3>1 DEF LifeOf, loopVars, Working, Ended
  <2>4. \A q \in Runs : Writes(q)' <=> Writes(q)
    BY <2>1, <2>2 DEF Writes, Ended
  <2> QED
    BY <2>2, <2>3, <2>4 DEF Life, IdleOfLast, Settled, stateVars
<1>11. ASSUME NEW r \in Runs, Read(r) PROVE Life'
  BY <1>11 DEF Read, Life, IdleOfLast, LifeOf, Launched, Settled, Writes, stateVars,
               idleVars, loopVars
<1>12. CASE UNCHANGED vars
  BY <1>12 DEF vars, Life, IdleOfLast, LifeOf, Launched, Settled, Writes
<1> QED
  BY <1>1, <1>2, <1>3, <1>4, <1>5, <1>6, <1>7, <1>8, <1>9, <1>10, <1>11, <1>12, NextCases

LEMMA InitLife == Init => Life
<1> SUFFICES ASSUME Init PROVE Life
  OBVIOUS
<1>1. IdleOfLast /\ Settled
  BY DEF Init, IdleOfLast, Settled
<1>2. ASSUME NEW r \in Runs PROVE LifeOf(r)
  <2>1. tracker[r] = "none" /\ taken[r] = 0 /\ sent[r] = <<>>
    BY DEF Init
  <2>2. ~idle[r]
    <3>1. r \in 0..MaxRuns /\ r # 0
      OBVIOUS
    <3> QED
      BY <3>1, Zenon DEF Init
  <2> QED
    BY <2>1, <2>2 DEF Init, LifeOf, Working, Ended
<1> QED
  BY <1>1, <1>2 DEF Life

LEMMA LifeInvariant == Spec => [](FlagsOK /\ DataOK /\ Life)
<1>1. Life /\ FlagsOK /\ DataOK /\ [Next]_vars => Life'
  BY LifeStep
<1> QED
  BY <1>1, InitLife, TypeInvariant, PTL DEF Spec

(* Whoever has waited for idle finds the state settled: nothing streams,   *)
(* no partial message, no pending call, however runs were aborted and      *)
(* given up (agent.go:288-296).                                            *)
THEOREM IdleIsSettledAlways == Spec => []IdleIsSettled
  BY LifeInvariant, SettledWhenIdle, PTL

-----------------------------------------------------------------------------
(* The events of one run as a sequence s: what AgentEvents lets a loop     *)
(* send, seen from its reader.                                             *)
SeenIn(s, type, t) == \E i \in 1..Len(s) : s[i].type = type /\ s[i].turn = t

SeenCallIn(s, type, t, c) ==
    \E i \in 1..Len(s) : s[i].type = type /\ s[i].turn = t /\ s[i].call = c

AllEndedIn(s, t) ==
    \A i \in 1..Len(s) : s[i].type = "turn_end" /\ s[i].turn = t =>
        \A c \in 1..s[i].calls : SeenCallIn(s, "tool_end", t, c)

Answer(e) == e.type = "turn_end" /\ e.calls >= 0

AnswerTo(e, t, c) == Answer(e) /\ e.turn = t /\ e.calls >= c

(* A turn starts when every turn before it is complete. *)
TurnsComplete(s) == \A t, u \in 1..MaxTurns :
    u < t /\ SeenIn(s, "turn_start", t) =>
        SeenIn(s, "turn_start", u) /\ SeenIn(s, "turn_end", u) /\ AllEndedIn(s, u)

EndsStarted(s) == \A i \in 1..Len(s) :
    s[i].type = "turn_end" /\ s[i].turn > 0 => SeenIn(s, "turn_start", s[i].turn)

AnswersCounted(s) == \A i \in 1..Len(s) : Answer(s[i]) => s[i].turn > 0

CallsAsked(s) == \A i \in 1..Len(s) : s[i].type = "tool_start" =>
    \E j \in 1..Len(s) : AnswerTo(s[j], s[i].turn, s[i].call)

(* No answer comes after one whose tools have not all ended. *)
NoneAfterOpen(s) == \A j, k \in 1..Len(s) :
    j < k /\ Answer(s[j]) /\ Answer(s[k]) =>
        \A c \in 1..s[j].calls : SeenCallIn(s, "tool_end", s[j].turn, c)

(* A tool ends under the answer that asked for it. *)
EndsUnderAnswer(s) == \A i \in 1..Len(s) : s[i].type = "tool_end" =>
    \E j \in 1..(i - 1) :
        /\ AnswerTo(s[j], s[i].turn, s[i].call)
        /\ \A k \in (j + 1)..(i - 1) : ~Answer(s[k])

Orderly(s) ==
    /\ TurnsComplete(s) /\ EndsStarted(s) /\ AnswersCounted(s)
    /\ CallsAsked(s) /\ NoneAfterOpen(s) /\ EndsUnderAnswer(s)

(* What AgentEvents says of the next event, case by case. *)
LEMMA MayTells ==
    ASSUME NEW r \in Runs, NEW e \in Event, L(r)!May(e)
    PROVE  /\ e.type = "turn_start" =>
                /\ e.turn \in 1..MaxTurns
                /\ e.turn = 1 \/ (SeenIn(sent[r], "turn_end", e.turn - 1)
                                    /\ AllEndedIn(sent[r], e.turn - 1))
           /\ e.type = "turn_end" /\ e.turn > 0 => SeenIn(sent[r], "turn_start", e.turn)
           /\ Answer(e) => e.turn > 0 /\ ~SeenIn(sent[r], "turn_end", e.turn)
           /\ e.type = "tool_start" =>
                \E i \in 1..Len(sent[r]) :
                    /\ sent[r][i].type = "turn_end" /\ sent[r][i].turn = e.turn
                    /\ sent[r][i].calls >= e.call
                    /\ e.call > 0
           /\ e.type = "tool_end" =>
                /\ e.call > 0
                /\ SeenCallIn(sent[r], "tool_start", e.turn, e.call)
                /\ ~SeenCallIn(sent[r], "tool_end", e.turn, e.call)
<1> USE DEF L!Ev, L!Turns, L!Calls, L!Seen, L!SeenCall, SeenIn, SeenCallIn, Answer
<1>1. CASE e = L(r)!Ev("agent_start", 0, 0, 0)
  BY <1>1
<1>2. ASSUME NEW t \in 1..MaxTurns, e = L(r)!Ev("turn_start", t, 0, 0), L(r)!Complete(t - 1)
      PROVE  /\ e.type = "turn_start" /\ e.turn = t
             /\ t = 1 \/ (SeenIn(sent[r], "turn_end", t - 1) /\ AllEndedIn(sent[r], t - 1))
  BY <1>2, SMTT(30) DEF L!Complete, L!AllToolsEnded, AllEndedIn
<1>3. ASSUME NEW t \in 1..MaxTurns,
             NEW type \in {"delta", "message_start", "message_update", "message_end"},
             e = L(r)!Ev(type, t, 0, 0)
      PROVE  e.type \notin {"turn_start", "turn_end", "tool_start", "tool_end"}
  BY <1>3
<1>4. ASSUME NEW t \in 1..MaxTurns, NEW n \in 0..MaxCalls,
             e = L(r)!Ev("turn_end", t, 0, n), L(r)!TurnEndMay(t, n)
      PROVE  /\ e.type = "turn_end" /\ e.turn = t
             /\ SeenIn(sent[r], "turn_start", t) /\ ~SeenIn(sent[r], "turn_end", t)
  BY <1>4 DEF L!TurnEndMay, L!InMessage
<1>5. ASSUME NEW t \in 1..MaxTurns, NEW c \in 1..MaxCalls,
             e = L(r)!Ev("tool_start", t, c, 0), L(r)!ToolMay("tool_start", t, c)
      PROVE  /\ e.type = "tool_start" /\ e.turn = t /\ e.call = c
             /\ \E i \in 1..Len(sent[r]) :
                    /\ sent[r][i].type = "turn_end" /\ sent[r][i].turn = t
                    /\ sent[r][i].calls >= c
  BY <1>5 DEF L!ToolMay, L!Asked
<1>6. ASSUME NEW t \in 1..MaxTurns, NEW c \in 1..MaxCalls,
             e = L(r)!Ev("tool_end", t, c, 0), L(r)!ToolMay("tool_end", t, c)
      PROVE  /\ e.type = "tool_end" /\ e.turn = t /\ e.call = c
             /\ SeenCallIn(sent[r], "tool_start", t, c)
             /\ ~SeenCallIn(sent[r], "tool_end", t, c)
  BY <1>6 DEF L!ToolMay
<1>7. ASSUME NEW t \in 1..MaxTurns, NEW c \in 1..MaxCalls,
             NEW type \in {"tool_update", "context_patch"},
             e = L(r)!Ev(type, t, c, 0)
      PROVE  e.type \notin {"turn_start", "turn_end", "tool_start", "tool_end"}
  BY <1>7
<1>8. ASSUME NEW t \in 0..MaxTurns, L(r)!Current(t), e = L(r)!Ev("turn_end", t, 0, -1)
      PROVE  /\ e.type = "turn_end" /\ e.turn = t /\ ~Answer(e)
             /\ t > 0 => SeenIn(sent[r], "turn_start", t)
  BY <1>8 DEF L!Current
<1>9. ASSUME NEW t \in 0..MaxTurns,
             e = L(r)!Ev("error", t, 0, 0) \/ e = L(r)!Ev("agent_end", t, 0, 0)
      PROVE  e.type \notin {"turn_start", "turn_end", "tool_start", "tool_end"}
  BY <1>9
<1> HIDE DEF L!Ev, L!Seen, L!SeenCall, SeenIn, SeenCallIn
<1>10. \/ e = L(r)!Ev("agent_start", 0, 0, 0)
       \/ \E t \in 1..MaxTurns :
            \/ e = L(r)!Ev("turn_start", t, 0, 0) /\ L(r)!Complete(t - 1)
            \/ \E type \in {"delta", "message_start", "message_update", "message_end"} :
                 e = L(r)!Ev(type, t, 0, 0)
            \/ \E n \in 0..MaxCalls : e = L(r)!Ev("turn_end", t, 0, n) /\ L(r)!TurnEndMay(t, n)
            \/ \E c \in 1..MaxCalls :
                 \E type \in {"tool_start", "tool_update", "tool_end", "context_patch"} :
                    e = L(r)!Ev(type, t, c, 0) /\ L(r)!ToolMay(type, t, c)
       \/ \E t \in 0..MaxTurns :
            \/ L(r)!Current(t) /\ e = L(r)!Ev("turn_end", t, 0, -1)
            \/ e = L(r)!Ev("error", t, 0, 0) \/ e = L(r)!Ev("agent_end", t, 0, 0)
  BY Zenon DEF L!May
<1> QED
  BY <1>1, <1>2, <1>3, <1>4, <1>5, <1>6, <1>7, <1>8, <1>9, <1>10

(* One more event leaves what was seen before in place. *)
LEMMA AppendSees ==
    ASSUME NEW s \in Seq(Event), NEW e \in Event
    PROVE  /\ Append(s, e) \in Seq(Event) /\ Len(Append(s, e)) = Len(s) + 1
           /\ Append(s, e)[Len(s) + 1] = e
           /\ \A i \in 1..Len(s) : Append(s, e)[i] = s[i]
           /\ \A type, t : SeenIn(Append(s, e), type, t) <=>
                    SeenIn(s, type, t) \/ (e.type = type /\ e.turn = t)
           /\ \A type, t, c : SeenCallIn(Append(s, e), type, t, c) <=>
                    SeenCallIn(s, type, t, c) \/ (e.type = type /\ e.turn = t /\ e.call = c)
<1>1. /\ Append(s, e) \in Seq(Event) /\ Len(Append(s, e)) = Len(s) + 1
      /\ Append(s, e)[Len(s) + 1] = e
      /\ \A i \in 1..Len(s) : Append(s, e)[i] = s[i]
  OBVIOUS
<1>2. \A i : i \in 1..(Len(s) + 1) <=> i \in 1..Len(s) \/ i = Len(s) + 1
  OBVIOUS
<1> DEFINE a == Append(s, e)
<1> HIDE DEF a
<1>3. ASSUME NEW type, NEW t
      PROVE  SeenIn(a, type, t) <=> SeenIn(s, type, t) \/ (e.type = type /\ e.turn = t)
  BY <1>1, <1>2 DEF SeenIn, a
<1>4. ASSUME NEW type, NEW t, NEW c
      PROVE  SeenCallIn(a, type, t, c) <=>
                SeenCallIn(s, type, t, c) \/ (e.type = type /\ e.turn = t /\ e.call = c)
  BY <1>1, <1>2 DEF SeenCallIn, a
<1> QED
  BY <1>1, <1>3, <1>4 DEF a

LEMMA OrderlyStep ==
    ASSUME NEW r \in Runs, sent[r] \in Seq(Event), Orderly(sent[r]),
           NEW e \in Event, L(r)!May(e)
    PROVE  Orderly(Append(sent[r], e))
<1> DEFINE s == sent[r]
           a == Append(sent[r], e)
           n == Len(sent[r]) + 1
<1>1. s \in Seq(Event) /\ Orderly(s)
  OBVIOUS
<1>2. /\ a \in Seq(Event) /\ Len(a) = n /\ a[n] = e /\ n \in Nat /\ Len(s) \in Nat
      /\ \A i \in 1..Len(s) : a[i] = s[i]
      /\ \A i : i \in 1..n <=> i \in 1..Len(s) \/ i = n
      /\ n = Len(s) + 1
  BY AppendSees
<1>3. /\ \A type, t : SeenIn(a, type, t) <=> SeenIn(s, type, t) \/ (e.type = type /\ e.turn = t)
      /\ \A type, t, c : SeenCallIn(a, type, t, c) <=>
                SeenCallIn(s, type, t, c) \/ (e.type = type /\ e.turn = t /\ e.call = c)
  BY AppendSees
<1>4. /\ e.type = "turn_start" =>
             /\ e.turn \in 1..MaxTurns
             /\ e.turn = 1 \/ (SeenIn(s, "turn_end", e.turn - 1) /\ AllEndedIn(s, e.turn - 1))
      /\ e.type = "turn_end" /\ e.turn > 0 => SeenIn(s, "turn_start", e.turn)
      /\ Answer(e) => e.turn > 0 /\ ~SeenIn(s, "turn_end", e.turn)
      /\ e.type = "tool_start" =>
             \E i \in 1..Len(s) : /\ s[i].type = "turn_end" /\ s[i].turn = e.turn
                                  /\ s[i].calls >= e.call /\ e.call > 0
      /\ e.type = "tool_end" =>
             /\ e.call > 0
             /\ SeenCallIn(s, "tool_start", e.turn, e.call)
             /\ ~SeenCallIn(s, "tool_end", e.turn, e.call)
  BY MayTells
<1>5. /\ \A i \in 1..Len(s) : s[i] \in Event
      /\ \A x \in Event : x.turn \in 0..MaxTurns /\ x.call \in 0..MaxCalls /\ x.calls \in Int
  <2>1. \A i \in 1..Len(s) : s[i] \in Event
    BY <1>1
  <2>2. \A x \in Event : x.turn \in 0..MaxTurns /\ x.call \in 0..MaxCalls /\ x.calls \in Int
    BY DEF Event
  <2> QED
    BY <2>1, <2>2
<1> HIDE DEF s, a, n
<1>6. ASSUME NEW u \in 1..MaxTurns, AllEndedIn(s, u),
             e.type = "turn_end" => e.turn # u \/ e.calls < 0
      PROVE  AllEndedIn(a, u)
  <2>1. ASSUME NEW i \in 1..n, a[i].type = "turn_end", a[i].turn = u,
               NEW c \in 1..a[i].calls
        PROVE  SeenCallIn(a, "tool_end", u, c)
    <3>1. CASE i = n
      BY <1>2, <1>5, <1>6, <2>1, <3>1
    <3>2. CASE i \in 1..Len(s)
      BY <1>2, <1>3, <1>6, <2>1, <3>2 DEF AllEndedIn
    <3> QED
      BY <1>2, <3>1, <3>2
  <2> QED
    BY <1>2, <2>1 DEF AllEndedIn
<1>7. TurnsComplete(a)
  <2>1. ASSUME NEW t \in 1..MaxTurns, NEW u \in 1..MaxTurns, u < t, SeenIn(a, "turn_start", t)
        PROVE  SeenIn(s, "turn_start", u) /\ SeenIn(s, "turn_end", u) /\ AllEndedIn(s, u)
    <3>1. CASE SeenIn(s, "turn_start", t)
      BY <1>1, <2>1, <3>1 DEF Orderly, TurnsComplete
    <3>2. CASE e.type = "turn_start" /\ e.turn = t
      <4>1. t # 1 /\ t - 1 \in 1..MaxTurns
        BY <2>1
      <4>2. SeenIn(s, "turn_end", t - 1) /\ AllEndedIn(s, t - 1)
        BY <1>4, <3>2, <4>1
      <4>3. SeenIn(s, "turn_start", t - 1)
        BY <1>1, <4>1, <4>2 DEF Orderly, EndsStarted, SeenIn
      <4>4. u = t - 1 \/ u < t - 1
        BY <2>1
      <4> QED
        BY <1>1, <4>1, <4>2, <4>3, <4>4 DEF Orderly, TurnsComplete
    <3> QED
      BY <1>3, <2>1, <3>1, <3>2
  <2>2. ASSUME NEW t \in 1..MaxTurns, NEW u \in 1..MaxTurns, u < t, SeenIn(a, "turn_start", t)
        PROVE  SeenIn(a, "turn_start", u) /\ SeenIn(a, "turn_end", u) /\ AllEndedIn(a, u)
    <3>1. SeenIn(s, "turn_start", u) /\ SeenIn(s, "turn_end", u) /\ AllEndedIn(s, u)
      BY <2>1, <2>2
    <3>2. e.type = "turn_end" => e.turn # u \/ e.calls < 0
      BY <1>4, <1>5, <3>1 DEF Answer
    <3> QED
      BY <1>3, <1>6, <3>1, <3>2
  <2> QED
    BY <2>2 DEF TurnsComplete
<1>8. EndsStarted(a) /\ AnswersCounted(a)
  BY <1>1, <1>2, <1>3, <1>4 DEF Orderly, EndsStarted, AnswersCounted
<1>9. CallsAsked(a)
  <2>1. ASSUME NEW i \in 1..n, a[i].type = "tool_start"
        PROVE  \E j \in 1..Len(s) : AnswerTo(s[j], a[i].turn, a[i].call)
    <3>1. CASE i \in 1..Len(s)
      BY <1>1, <1>2, <2>1, <3>1 DEF Orderly, CallsAsked
    <3>2. CASE i = n
      <4>1. PICK j \in 1..Len(s) : /\ s[j].type = "turn_end" /\ s[j].turn = e.turn
                                   /\ s[j].calls >= e.call /\ e.call > 0
        BY <1>2, <1>4, <2>1, <3>2
      <4>2. AnswerTo(s[j], e.turn, e.call)
        BY <1>5, <4>1 DEF AnswerTo, Answer
      <4> QED
        BY <1>2, <3>2, <4>2
    <3> QED
      BY <1>2, <3>1, <3>2
  <2> QED
    BY <1>2, <2>1 DEF CallsAsked
<1>10. NoneAfterOpen(a)
  <2>1. ASSUME NEW j \in 1..n, NEW k \in 1..n, j < k, Answer(a[j]), Answer(a[k]),
               NEW c \in 1..a[j].calls
        PROVE  SeenCallIn(s, "tool_end", a[j].turn, c)
    <3>1. j \in 1..Len(s)
      BY <1>2, <2>1
    <3>2. CASE k \in 1..Len(s)
      BY <1>1, <1>2, <2>1, <3>1, <3>2 DEF Orderly, NoneAfterOpen
    <3>3. CASE k = n
      <4>1. a[j] = s[j] /\ a[k] = e
        BY <1>2, <3>1, <3>3
      <4>2. s[j].type = "turn_end" /\ s[j].turn \in 1..MaxTurns /\ SeenIn(s, "turn_end", s[j].turn)
        BY <1>1, <1>5, <2>1, <3>1, <4>1 DEF Orderly, AnswersCounted, Answer, SeenIn
      <4>3. e.turn \in 1..MaxTurns /\ ~SeenIn(s, "turn_end", e.turn) /\ SeenIn(s, "turn_start", e.turn)
        BY <1>4, <1>5, <2>1, <4>1 DEF Answer
      <4>4. SeenIn(s, "turn_start", s[j].turn)
        BY <1>1, <3>1, <4>2 DEF Orderly, EndsStarted
      <4>5. s[j].turn < e.turn
        BY <1>1, <4>2, <4>3, <4>4 DEF Orderly, TurnsComplete
      <4>6. AllEndedIn(s, s[j].turn)
        BY <1>1, <4>2, <4>3, <4>5 DEF Orderly, TurnsComplete
      <4> QED
        BY <2>1, <3>1, <4>1, <4>2, <4>6 DEF AllEndedIn
    <3> QED
      BY <1>2, <3>2, <3>3
  <2> QED
    BY <1>2, <1>3, <2>1 DEF NoneAfterOpen
<1>11. EndsUnderAnswer(a)
  <2>1. ASSUME NEW i \in 1..Len(s), s[i].type = "tool_end"
        PROVE  \E j \in 1..(i - 1) : /\ AnswerTo(a[j], s[i].turn, s[i].call)
                                     /\ \A k \in (j + 1)..(i - 1) : ~Answer(a[k])
    <3>1. PICK j \in 1..(i - 1) : /\ AnswerTo(s[j], s[i].turn, s[i].call)
                                  /\ \A k \in (j + 1)..(i - 1) : ~Answer(s[k])
      BY <1>1, <2>1 DEF Orderly, EndsUnderAnswer
    <3>2. j \in 1..Len(s) /\ \A k \in (j + 1)..(i - 1) : k \in 1..Len(s)
      BY <1>2
    <3> QED
      BY <1>2, <3>1, <3>2
  <2>2. ASSUME e.type = "tool_end"
        PROVE  \E j \in 1..(n - 1) : /\ AnswerTo(a[j], e.turn, e.call)
                                     /\ \A k \in (j + 1)..(n - 1) : ~Answer(a[k])
    <3>1. PICK i \in 1..Len(s) : s[i].type = "tool_start" /\ s[i].turn = e.turn /\ s[i].call = e.call
      BY <1>4, <2>2 DEF SeenCallIn
    <3>2. PICK j \in 1..Len(s) : AnswerTo(s[j], e.turn, e.call)
      BY <1>1, <3>1 DEF Orderly, CallsAsked
    <3>3. e.call \in 1..s[j].calls /\ s[j].turn = e.turn /\ Answer(s[j])
      BY <1>4, <1>5, <2>2, <3>2 DEF AnswerTo
    <3>4. ~SeenCallIn(s, "tool_end", s[j].turn, e.call)
      BY <1>4, <2>2, <3>3
    <3>5. ASSUME NEW k \in (j + 1)..(n - 1) PROVE ~Answer(a[k])
      <4>1. k \in 1..Len(s) /\ j < k
        BY <1>2
      <4> QED
        BY <1>1, <1>2, <3>3, <3>4, <4>1 DEF Orderly, NoneAfterOpen
    <3>6. j \in 1..(n - 1) /\ a[j] = s[j]
      BY <1>2
    <3> QED
      BY <3>2, <3>5, <3>6
  <2> QED
    BY <1>2, <2>1, <2>2 DEF EndsUnderAnswer
<1>12. Orderly(a)
  BY <1>7, <1>8, <1>9, <1>10, <1>11 DEF Orderly
<1> QED
  BY <1>12 DEF a

(* Every run's stream is one AgentEvents allows. *)
StreamsOrderly == \A r \in Runs : Orderly(sent[r])

LEMMA StreamsStep ==
    ASSUME DataOK, StreamsOrderly, [Next]_vars
    PROVE  StreamsOrderly'
<1>1. ASSUME NEW r \in Runs, LoopSend(r) PROVE StreamsOrderly'
  <2>1. PICK e \in SentEvents[r] : L(r)!May(e) /\ sent' = [sent EXCEPT ![r] = Append(sent[r], e)]
    BY <1>1 DEF LoopSend
  <2>2. e \in Event
    BY SentAssumption
  <2>3. Orderly(Append(sent[r], e))
    BY <2>1, <2>2, OrderlyStep DEF DataOK, StreamsOrderly
  <2> QED
    BY <2>1, <2>3 DEF DataOK, StreamsOrderly
<1>2. CASE Prompt \/ Continue \/ AppendMessage \/ SetCancel \/ SetIdle \/ SetState \/ Abort
  BY <1>2 DEF Prompt, Continue, AppendMessage, SetCancel, SetIdle, SetState, Abort, loopVars,
              StreamsOrderly
<1>3. ASSUME NEW r \in Runs,
             LoopClose(r) \/ Take(r) \/ LoopOver(r) \/ Forward(r) \/ GiveUp(r) \/ Read(r)
      PROVE  StreamsOrderly'
  BY <1>3 DEF LoopClose, Take, LoopOver, Forward, GiveUp, Read, loopVars, StreamsOrderly
<1>4. ASSUME NEW r \in Runs, ResetState(r) \/ SignalIdle(r) \/ UnsetCancel(r) \/ Release(r)
      PROVE  StreamsOrderly'
  BY <1>4 DEF ResetState, SignalIdle, UnsetCancel, Release, loopVars, StreamsOrderly
<1>5. CASE UNCHANGED vars
  BY <1>5 DEF vars, StreamsOrderly
<1> QED
  BY <1>1, <1>2, <1>3, <1>4, <1>5, NextCases

-----------------------------------------------------------------------------
(* What the history owes the events.  Each run recorded what was taken of  *)
(* it, and behind the message of the last answer taken stands no other     *)
(* assistant message.                                                      *)
NoneFromLaterRuns == \A i \in 1..Len(messages) : messages[i].run <= run

InHistory(r, i) ==
    Recorded(r, sent[r][i]) # <<>> =>
        \E k \in 1..Len(messages) : <<messages[k]>> = Recorded(r, sent[r][i])

TakenRecorded == \A r \in Runs : \A i \in 1..taken[r] : InHistory(r, i)

LastAnswer(r, j) ==
    Answer(sent[r][j]) /\ \A l \in (j + 1)..taken[r] : ~Answer(sent[r][l])

Behind(m) ==
    \E k \in 1..Len(messages) :
        messages[k] = m /\ \A l \in (k + 1)..Len(messages) : messages[l].kind # "assistant"

AnswerOf(r, e) == Msg("assistant", r, e.turn, e.calls)

LastAnswerStands ==
    run > 0 => \A j \in 1..taken[run] : LastAnswer(run, j) => Behind(AnswerOf(run, sent[run][j]))

Recording ==
    /\ NoneFromLaterRuns /\ RunsDoNotMix /\ TakenRecorded /\ LastAnswerStands
    /\ ResultsFollowRequest

(* Steps that record nothing and take nothing: loops may send, runs end. *)
LEMMA RecordingFrame ==
    ASSUME DataOK, FlagsOK, Recording, UNCHANGED <<messages, run, taken>>,
           \A r \in Runs : \A i \in 1..taken[r] : sent'[r][i] = sent[r][i]
    PROVE  Recording'
<1>1. NoneFromLaterRuns' /\ RunsDoNotMix' /\ ResultsFollowRequest'
  BY DEF Recording, NoneFromLaterRuns, RunsDoNotMix, ResultsFollowRequest
<1>2. TakenRecorded'
  BY DEF Recording, TakenRecorded, InHistory
<1>3. LastAnswerStands'
  <2> SUFFICES ASSUME run > 0, NEW j \in 1..taken[run], LastAnswer(run, j)'
               PROVE  Behind(AnswerOf(run, sent[run][j]))'
    BY DEF LastAnswerStands
  <2>1. run \in Runs /\ taken[run] \in Nat
    BY DEF FlagsOK, DataOK
  <2>2. \A l \in (j + 1)..taken[run] : l \in 1..taken[run]
    BY <2>1
  <2>3. LastAnswer(run, j) /\ sent'[run][j] = sent[run][j]
    BY <2>1, <2>2 DEF LastAnswer
  <2> QED
    BY <2>3 DEF Recording, LastAnswerStands, Behind, AnswerOf
<1> QED
  BY <1>1, <1>2, <1>3 DEF Recording

(* A message that is neither an answer nor a result may join the history   *)
(* at any time, if it belongs to the last run.                             *)
LEMMA HistoryAppend ==
    ASSUME messages \in Seq(Message), Recording, run \in Nat,
           NEW m \in Message, messages' = Append(messages, m)
    PROVE  /\ Len(messages') = Len(messages) + 1 /\ messages'[Len(messages) + 1] = m
           /\ \A i \in 1..Len(messages) : messages'[i] = messages[i]
           /\ \A i : i \in 1..Len(messages') <=> i \in 1..Len(messages) \/ i = Len(messages) + 1
           /\ m.run = run' /\ run <= run' /\ run' \in Nat => NoneFromLaterRuns' /\ RunsDoNotMix'
<1>1. /\ Len(messages') = Len(messages) + 1 /\ messages'[Len(messages) + 1] = m
      /\ \A i \in 1..Len(messages) : messages'[i] = messages[i]
      /\ \A i : i \in 1..Len(messages') <=> i \in 1..Len(messages) \/ i = Len(messages) + 1
      /\ Len(messages) \in Nat
  OBVIOUS
<1>2. ASSUME m.run = run', run <= run', run' \in Nat
      PROVE  NoneFromLaterRuns' /\ RunsDoNotMix'
  <2>1. \A i \in 1..Len(messages) : messages[i].run \in Nat /\ messages[i].run <= run'
    <3>1. \A i \in 1..Len(messages) : messages[i] \in Message /\ messages[i].run <= run
      BY DEF Recording, NoneFromLaterRuns
    <3>2. \A x \in Message : x.run \in Nat
      BY DEF Message
    <3> QED
      BY <1>2, <3>1, <3>2
  <2>2. NoneFromLaterRuns'
    BY <1>1, <1>2, <2>1 DEF NoneFromLaterRuns
  <2>3. RunsDoNotMix'
    <3> SUFFICES ASSUME NEW i \in 1..Len(messages'), NEW j \in 1..Len(messages'), i < j
                 PROVE  messages'[i].run <= messages'[j].run
      BY DEF RunsDoNotMix
    <3>1. i \in 1..Len(messages) /\ (j \in 1..Len(messages) \/ j = Len(messages) + 1)
      BY <1>1
    <3> QED
      BY <1>1, <1>2, <2>1, <3>1 DEF Recording, RunsDoNotMix
  <2> QED
    BY <2>2, <2>3
<1> QED
  BY <1>1, <1>2

(* What was recorded stays recorded, and what followed its request still   *)
(* does.                                                                   *)
LEMMA HistoryStays ==
    ASSUME messages \in Seq(Message), Recording,
           Len(messages') \in Nat, Len(messages) <= Len(messages'),
           \A i \in 1..Len(messages) : messages'[i] = messages[i]
    PROVE  /\ \A r, i : sent'[r][i] = sent[r][i] /\ InHistory(r, i) => InHistory(r, i)'
           /\ \A i \in 1..Len(messages) : messages[i].kind = "tool" =>
                \E j \in 1..(i - 1) :
                    /\ messages'[j].kind = "assistant" /\ messages'[j].n >= messages'[i].n
                    /\ messages'[j].run = messages'[i].run
                    /\ messages'[j].turn = messages'[i].turn
                    /\ \A k \in (j + 1)..(i - 1) : messages'[k].kind # "assistant"
<1>1. Len(messages) \in Nat /\ \A i \in 1..Len(messages) : i \in 1..Len(messages')
  OBVIOUS
<1>2. ASSUME NEW r, NEW i, sent'[r][i] = sent[r][i], InHistory(r, i)
      PROVE  InHistory(r, i)'
  BY <1>1, <1>2 DEF InHistory, Recorded
<1>3. ASSUME NEW i \in 1..Len(messages), messages[i].kind = "tool"
      PROVE  \E j \in 1..(i - 1) :
                /\ messages'[j].kind = "assistant" /\ messages'[j].n >= messages'[i].n
                /\ messages'[j].run = messages'[i].run
                /\ messages'[j].turn = messages'[i].turn
                /\ \A k \in (j + 1)..(i - 1) : messages'[k].kind # "assistant"
  <2>1. PICK j \in 1..(i - 1) :
            /\ messages[j].kind = "assistant" /\ messages[j].n >= messages[i].n
            /\ messages[j].run = messages[i].run /\ messages[j].turn = messages[i].turn
            /\ \A k \in (j + 1)..(i - 1) : messages[k].kind # "assistant"
    BY <1>3 DEF Recording, ResultsFollowRequest
  <2>2. j \in 1..Len(messages) /\ \A k \in (j + 1)..(i - 1) : k \in 1..Len(messages)
    BY <1>1
  <2> QED
    BY <2>1, <2>2
<1> QED
  BY <1>2, <1>3

(* A prompt, or a message appended, perhaps while a run goes on. *)
LEMMA CallerRecords ==
    ASSUME FlagsOK, DataOK, Life, Recording, Prompt \/ AppendMessage
    PROVE  Recording'
<1>1. PICK m \in Message : /\ messages' = Append(messages, m) /\ m.run = run'
                           /\ m.kind \notin {"assistant", "tool"}
  <2>1. CASE Prompt
    <3>1. Msg("user", run + 1, 0, 0) \in Message
      BY <2>1 DEF Prompt, MayCall, FlagsOK, Msg, Message, Kinds
    <3> QED
      BY <2>1, <3>1 DEF Prompt, Msg
  <2>2. CASE AppendMessage
    <3>1. Msg("appended", run, 0, 0) \in Message
      BY DEF FlagsOK, Msg, Message, Kinds
    <3> QED
      BY <2>2, <3>1 DEF AppendMessage, Msg
  <2> QED
    BY <2>1, <2>2
<1>2. /\ run \in Nat /\ run' \in Nat /\ run <= run' /\ run' \in 0..MaxRuns
      /\ messages \in Seq(Message)
  BY DEF Prompt, AppendMessage, MayCall, FlagsOK, DataOK
<1>3. UNCHANGED <<sent, taken, tracker>>
  BY DEF Prompt, AppendMessage, loopVars, trackVars
<1>4. /\ Len(messages') = Len(messages) + 1 /\ messages'[Len(messages) + 1] = m
      /\ \A i \in 1..Len(messages) : messages'[i] = messages[i]
      /\ \A i : i \in 1..Len(messages') <=> i \in 1..Len(messages) \/ i = Len(messages) + 1
      /\ NoneFromLaterRuns' /\ RunsDoNotMix'
  BY <1>1, <1>2, HistoryAppend
<1>5. Len(messages) \in Nat /\ Len(messages') \in Nat /\ Len(messages) <= Len(messages')
  BY <1>2, <1>4
<1>6. TakenRecorded'
  BY <1>2, <1>3, <1>4, <1>5, HistoryStays DEF Recording, TakenRecorded
<1>7. ResultsFollowRequest'
  <2> SUFFICES ASSUME NEW i \in 1..Len(messages'), messages'[i].kind = "tool"
               PROVE  i \in 1..Len(messages) /\ messages[i].kind = "tool"
    BY <1>2, <1>4, <1>5, HistoryStays DEF ResultsFollowRequest
  <2> QED
    BY <1>1, <1>4
<1>8. LastAnswerStands'
  <2> SUFFICES ASSUME run' > 0, NEW j \in 1..taken'[run'], LastAnswer(run, j)'
               PROVE  Behind(AnswerOf(run, sent[run][j]))'
    BY DEF LastAnswerStands
  <2>1. CASE Prompt
    <3>1. run' = run + 1 /\ run' \in Runs
      BY <1>2, <2>1 DEF Prompt
    <3>2. taken[run'] = 0
      BY <1>2, <3>1 DEF Life, LifeOf
    <3> QED
      BY <1>3, <3>2
  <2>2. CASE AppendMessage
    <3>1. run' = run
      BY <2>2 DEF AppendMessage
    <3>2. LastAnswer(run, j) /\ Behind(AnswerOf(run, sent[run][j]))
      BY <1>3, <3>1 DEF LastAnswer, Recording, LastAnswerStands
    <3>3. PICK k \in 1..Len(messages) :
             /\ messages[k] = AnswerOf(run, sent[run][j])
             /\ \A l \in (k + 1)..Len(messages) : messages[l].kind # "assistant"
      BY <3>2 DEF Behind
    <3>4. /\ k \in 1..Len(messages') /\ messages'[k] = AnswerOf(run', sent'[run'][j])
          /\ \A l \in (k + 1)..Len(messages') : messages'[l].kind # "assistant"
      BY <1>1, <1>3, <1>4, <1>5, <3>1, <3>3
    <3> QED
      BY <1>3, <3>1, <3>4 DEF Behind, AnswerOf
  <2> QED
    BY <2>1, <2>2
<1> QED
  BY <1>4, <1>6, <1>7, <1>8 DEF Recording

(* Only an answer is recorded as an assistant message, only the end of a   *)
(* tool as a result.                                                       *)
LEMMA RecordedKinds ==
    ASSUME NEW r \in Runs, NEW e \in Event
    PROVE  /\ Answer(e) => Recorded(r, e) = <<AnswerOf(r, e)>>
           /\ e.type = "tool_end" => Recorded(r, e) = <<Msg("tool", r, e.turn, e.call)>>
           /\ \A m : Recorded(r, e) = <<m>> =>
                /\ ~Answer(e) => m.kind # "assistant"
                /\ m.kind = "tool" => e.type = "tool_end"
<1>1. e.calls \in Int
  BY DEF Event
<1>2. CASE Answer(e)
  <2>1. e.type = "turn_end" /\ e.calls >= 0 /\ ~(e.calls < 0)
    BY <1>1, <1>2 DEF Answer
  <2>2. Recorded(r, e) = <<AnswerOf(r, e)>>
    BY <2>1, Zenon DEF Recorded, AnswerOf
  <2>3. AnswerOf(r, e).kind = "assistant"
    BY DEF AnswerOf, Msg
  <2> QED
    BY <1>2, <2>1, <2>2, <2>3
<1>3. CASE e.type = "tool_end"
  <2>1. Recorded(r, e) = <<Msg("tool", r, e.turn, e.call)>>
    BY <1>3 DEF Recorded
  <2>2. Msg("tool", r, e.turn, e.call).kind = "tool"
    BY DEF Msg
  <2> QED
    BY <1>3, <2>1, <2>2 DEF Answer
<1>4. CASE ~Answer(e) /\ e.type # "tool_end"
  <2>1. \/ Recorded(r, e) = <<>>
        \/ Recorded(r, e) = <<Msg("failure", r, e.turn, 0)>>
        \/ Recorded(r, e) = <<Msg("patch", r, e.turn, e.call)>>
    <3>1. CASE e.type = "turn_end"
      <4>1. e.calls < 0 /\ ~(e.calls >= 0)
        BY <1>1, <1>4, <3>1 DEF Answer
      <4> QED
        BY <3>1, <4>1 DEF Recorded
    <3>2. CASE e.type = "context_patch"
      BY <3>2 DEF Recorded
    <3>3. CASE e.type \notin {"turn_end", "context_patch"}
      BY <1>4, <3>3 DEF Recorded
    <3> QED
      BY <3>1, <3>2, <3>3
  <2>2. /\ Msg("failure", r, e.turn, 0).kind = "failure"
        /\ Msg("patch", r, e.turn, e.call).kind = "patch"
    BY DEF Msg
  <2> QED
    BY <1>4, <2>1, <2>2, SMTT(30)
<1> QED
  BY <1>2, <1>3, <1>4

(* The tracker takes an event: what it records stands where it must. *)
LEMMA TrackerRecords ==
    ASSUME FlagsOK, DataOK, Life, StreamsOrderly, Recording, NEW r \in Runs, Take(r)
    PROVE  Recording'
<1> DEFINE n == taken[r] + 1
           e == sent[r][n]
<1>1. /\ tracker[r] = "range" /\ n \in 1..Len(sent[r]) /\ n \in Nat
      /\ taken' = [taken EXCEPT ![r] = n] /\ taken[r] \in Nat /\ n = taken[r] + 1
      /\ messages' = messages \o Recorded(r, e)
      /\ UNCHANGED <<run, sent>>
  BY DEF Take, Record, DataOK, loopVars
<1>2. r = run /\ run \in Nat /\ run > 0
  <2>1. LifeOf(r)
    BY DEF Life
  <2>2. r = run
    BY <1>1, <2>1 DEF LifeOf, Working
  <2> QED
    BY <2>2
<1>3. e \in Event /\ e = sent[r][n]
  BY <1>1 DEF DataOK
<1> HIDE DEF n, e
<1>4. taken'[r] = n /\ \A q \in Runs : q # r => taken'[q] = taken[q]
  BY <1>1 DEF DataOK
<1>5. messages \in Seq(Message) /\ messages' \in Seq(Message)
  BY <1>1, <1>3, RecordedType DEF DataOK
<1>6. /\ Len(messages) \in Nat /\ Len(messages') \in Nat /\ Len(messages) <= Len(messages')
      /\ \A i \in 1..Len(messages) : messages'[i] = messages[i]
      /\ Recorded(r, e) = <<>> =>
            Len(messages') = Len(messages) /\ NoneFromLaterRuns' /\ RunsDoNotMix'
      /\ \A m : Recorded(r, e) = <<m>> =>
            /\ Len(messages') = Len(messages) + 1 /\ messages'[Len(messages) + 1] = m
            /\ NoneFromLaterRuns' /\ RunsDoNotMix'
  <2>1. CASE Recorded(r, e) = <<>>
    <3>1. messages' = messages
      BY <1>1, <1>5, <2>1
    <3> QED
      BY <1>1, <1>5, <2>1, <3>1 DEF Recording, NoneFromLaterRuns, RunsDoNotMix
  <2>2. ASSUME NEW m \in Message, Recorded(r, e) = <<m>>, m.run = r
        PROVE  /\ Len(messages') = Len(messages) + 1 /\ messages'[Len(messages) + 1] = m
               /\ \A i \in 1..Len(messages) : messages'[i] = messages[i]
               /\ NoneFromLaterRuns' /\ RunsDoNotMix' /\ Len(messages) \in Nat
    <3>1. messages' = Append(messages, m)
      BY <1>1, <1>5, <2>2
    <3> QED
      BY <1>1, <1>2, <1>5, <2>2, <3>1, HistoryAppend
  <2>3. Recorded(r, e) = <<>> \/ \E m \in Message : Recorded(r, e) = <<m>> /\ m.run = r
    BY <1>3, RecordedType
  <2>4. \A m, k : <<m>> = <<k>> => m = k
    OBVIOUS
  <2> QED
    BY <2>1, <2>2, <2>3, <2>4
<1>7. Recorded(r, e) = <<>> \/ \E m \in Message : Recorded(r, e) = <<m>> /\ m.run = r
  BY <1>3, RecordedType
<1>8. NoneFromLaterRuns' /\ RunsDoNotMix'
  BY <1>6, <1>7
<1>9. TakenRecorded'
  <2> SUFFICES ASSUME NEW q \in Runs, NEW i \in 1..taken'[q] PROVE InHistory(q, i)'
    BY DEF TakenRecorded
  <2>1. CASE q = r /\ i = n
    <3>1. sent'[q][i] = e
      BY <1>1, <1>3, <2>1
    <3>2. SUFFICES ASSUME Recorded(r, e) # <<>>
                   PROVE  \E k \in 1..Len(messages') : <<messages'[k]>> = Recorded(r, e)
      BY <2>1, <3>1 DEF InHistory, Recorded
    <3> QED
      BY <1>6, <1>7, <3>2
  <2>2. CASE ~(q = r /\ i = n)
    <3>1. i \in 1..taken[q]
      BY <1>1, <1>4, <2>2
    <3>2. InHistory(q, i) /\ sent'[q][i] = sent[q][i]
      BY <1>1, <3>1 DEF Recording, TakenRecorded
    <3> QED
      BY <1>5, <1>6, <3>2, HistoryStays
  <2> QED
    BY <2>1, <2>2
<1>10. ASSUME NEW j \in 1..taken[r], LastAnswer(r, j)
       PROVE  \E k \in 1..Len(messages) :
                /\ messages[k] = AnswerOf(r, sent[r][j])
                /\ \A l \in (k + 1)..Len(messages) : messages[l].kind # "assistant"
  BY <1>2, <1>10 DEF Recording, LastAnswerStands, Behind
<1>11. LastAnswerStands'
  <2> SUFFICES ASSUME NEW j \in 1..n, LastAnswer(r, j)'
               PROVE  Behind(AnswerOf(r, sent[r][j]))'
    BY <1>1, <1>2, <1>4 DEF LastAnswerStands
  <2>0. Answer(sent[r][j]) /\ \A l \in (j + 1)..n : ~Answer(sent[r][l])
    BY <1>1, <1>4 DEF LastAnswer, Answer
  <2>1. CASE j = n
    <3>1. Recorded(r, e) = <<AnswerOf(r, e)>>
      BY <1>3, <2>0, <2>1, RecordedKinds
    <3>2. /\ Len(messages') = Len(messages) + 1
          /\ messages'[Len(messages) + 1] = AnswerOf(r, e)
      BY <1>6, <3>1
    <3>3. AnswerOf(r, sent[r][j])' = AnswerOf(r, e)
      BY <1>1, <1>3, <2>1 DEF AnswerOf
    <3> QED
      BY <1>6, <3>2, <3>3 DEF Behind
  <2>2. CASE j \in 1..taken[r]
    <3>0. n \in (j + 1)..n /\ \A l \in (j + 1)..taken[r] : l \in (j + 1)..n
      BY <1>1, <2>2
    <3>1. ~Answer(e) /\ LastAnswer(r, j)
      BY <1>3, <2>0, <3>0 DEF LastAnswer
    <3>2. PICK k \in 1..Len(messages) :
             /\ messages[k] = AnswerOf(r, sent[r][j])
             /\ \A l \in (k + 1)..Len(messages) : messages[l].kind # "assistant"
      BY <1>10, <2>2, <3>1
    <3>3. \A l \in (k + 1)..Len(messages') : messages'[l].kind # "assistant"
      <4> SUFFICES ASSUME NEW l \in (k + 1)..Len(messages') PROVE messages'[l].kind # "assistant"
        OBVIOUS
      <4>1. CASE l \in (k + 1)..Len(messages)
        BY <1>6, <3>2, <4>1
      <4>2. CASE l > Len(messages)
        <5>1. PICK m \in Message : Recorded(r, e) = <<m>>
          BY <1>6, <1>7, <4>2
        <5>2. l = Len(messages) + 1 /\ messages'[l] = m
          BY <1>6, <4>2, <5>1
        <5> QED
          BY <1>3, <3>1, <5>1, <5>2, RecordedKinds
      <4> QED
        BY <1>6, <4>1, <4>2
    <3>4. AnswerOf(r, sent[r][j])' = AnswerOf(r, sent[r][j])
      BY <1>1 DEF AnswerOf
    <3> QED
      BY <1>6, <3>2, <3>3, <3>4 DEF Behind
  <2> QED
    BY <1>1, <2>1, <2>2
<1>12. ResultsFollowRequest'
  <2> SUFFICES ASSUME NEW i \in 1..Len(messages'), messages'[i].kind = "tool"
               PROVE  \E j \in 1..(i - 1) :
                        /\ messages'[j].kind = "assistant" /\ messages'[j].n >= messages'[i].n
                        /\ messages'[j].run = messages'[i].run
                        /\ messages'[j].turn = messages'[i].turn
                        /\ \A k \in (j + 1)..(i - 1) : messages'[k].kind # "assistant"
    BY DEF ResultsFollowRequest
  <2>1. CASE i \in 1..Len(messages)
    BY <1>5, <1>6, <2>1, HistoryStays
  <2>2. CASE i \notin 1..Len(messages)
    <3>1. PICK m \in Message : Recorded(r, e) = <<m>>
      BY <1>6, <1>7, <2>2
    <3>2. i = Len(messages) + 1 /\ messages'[i] = m
      BY <1>6, <2>2, <3>1
    <3>3. e.type = "tool_end"
      BY <1>3, <3>1, <3>2, RecordedKinds
    <3>4. m = Msg("tool", r, e.turn, e.call)
      BY <1>3, <3>1, <3>3, RecordedKinds
    <3>5. PICK j \in 1..(n - 1) :
             /\ AnswerTo(sent[r][j], e.turn, e.call)
             /\ \A k \in (j + 1)..(n - 1) : ~Answer(sent[r][k])
      BY <1>1, <1>3, <3>3 DEF StreamsOrderly, Orderly, EndsUnderAnswer
    <3>6. j \in 1..taken[r] /\ LastAnswer(r, j)
      BY <1>1, <3>5 DEF LastAnswer, AnswerTo
    <3>7. PICK k \in 1..Len(messages) :
             /\ messages[k] = AnswerOf(r, sent[r][j])
             /\ \A l \in (k + 1)..Len(messages) : messages[l].kind # "assistant"
      BY <1>10, <3>6
    <3>8. /\ messages'[k].kind = "assistant" /\ messages'[k].n >= messages'[i].n
          /\ messages'[k].run = messages'[i].run /\ messages'[k].turn = messages'[i].turn
      BY <1>6, <3>2, <3>4, <3>5, <3>7 DEF AnswerOf, AnswerTo, Msg
    <3>9. \A l \in (k + 1)..(i - 1) : messages'[l].kind # "assistant"
      BY <1>6, <3>2, <3>7
    <3> QED
      BY <1>6, <3>2, <3>8, <3>9
  <2> QED
    BY <2>1, <2>2
<1> QED
  BY <1>8, <1>9, <1>11, <1>12 DEF Recording

LEMMA RecordingStep ==
    ASSUME FlagsOK, DataOK, Life, StreamsOrderly, Recording, [Next]_vars
    PROVE  Recording'
<1>1. CASE Prompt \/ AppendMessage
  BY <1>1, CallerRecords
<1>2. CASE Continue
  <2>1. /\ caller = "free" /\ run < MaxRuns /\ run' = run + 1 /\ run \in Nat
        /\ UNCHANGED <<messages, sent, taken>>
    BY <1>2 DEF Continue, MayCall, stateVars, loopVars, trackVars, FlagsOK
  <2>2. run' \in Runs /\ taken[run'] = 0
    BY <2>1 DEF Life, LifeOf
  <2>3. NoneFromLaterRuns'
    <3>1. \A i \in 1..Len(messages) : messages[i] \in Message /\ messages[i].run <= run
      BY DEF DataOK, Recording, NoneFromLaterRuns
    <3>2. \A x \in Message : x.run \in Nat
      BY DEF Message
    <3> QED
      BY <2>1, <3>1, <3>2 DEF NoneFromLaterRuns
  <2>4. RunsDoNotMix' /\ ResultsFollowRequest' /\ TakenRecorded'
    <3>1. RunsDoNotMix'
      BY <2>1 DEF Recording, RunsDoNotMix
    <3>2. ResultsFollowRequest'
      BY <2>1 DEF Recording, ResultsFollowRequest
    <3>3. TakenRecorded'
      BY <2>1 DEF Recording, TakenRecorded, InHistory
    <3> QED
      BY <3>1, <3>2, <3>3
  <2>5. LastAnswerStands'
    BY <2>1, <2>2 DEF LastAnswerStands
  <2> QED
    BY <2>3, <2>4, <2>5 DEF Recording
<1>3. ASSUME NEW r \in Runs, Take(r) PROVE Recording'
  BY <1>3, TrackerRecords
<1>4. CASE SetCancel \/ SetIdle \/ SetState \/ Abort
  <2>1. UNCHANGED <<messages, run, taken, sent>>
    BY <1>4 DEF SetCancel, SetIdle, SetState, Abort, stateVars, loopVars, trackVars
  <2> QED
    BY <2>1, RecordingFrame
<1>5. ASSUME NEW r \in Runs, LoopSend(r) PROVE Recording'
  <2>1. PICK e \in SentEvents[r] : sent' = [sent EXCEPT ![r] = Append(sent[r], e)]
    BY <1>5 DEF LoopSend
  <2>2. e \in Event
    BY SentAssumption
  <2>3. \A i \in 1..Len(sent[r]) : Append(sent[r], e)[i] = sent[r][i]
    BY <2>2 DEF DataOK
  <2>4. ASSUME NEW q \in Runs, NEW i \in 1..taken[q] PROVE sent'[q][i] = sent[q][i]
    <3>1. taken[q] \in Nat /\ taken[q] <= Len(sent[q]) /\ Len(sent[q]) \in Nat
      BY DEF DataOK, ChannelsOK
    <3>2. i \in 1..Len(sent[q])
      BY <3>1
    <3> QED
      BY <2>1, <2>3, <3>2 DEF DataOK
  <2>5. UNCHANGED <<messages, run, taken>>
    BY <1>5 DEF LoopSend, stateVars, trackVars
  <2> QED
    BY <2>4, <2>5, RecordingFrame
<1>6. ASSUME NEW r \in Runs, LoopClose(r) \/ LoopOver(r) \/ Forward(r) \/ GiveUp(r) \/ Read(r)
      PROVE  Recording'
  <2>1. UNCHANGED <<messages, run, taken, sent>>
    BY <1>6 DEF LoopClose, LoopOver, Forward, GiveUp, Read, stateVars, loopVars, trackVars
  <2> QED
    BY <2>1, RecordingFrame
<1>7. ASSUME NEW r \in Runs, ResetState(r) \/ SignalIdle(r) \/ UnsetCancel(r) \/ Release(r)
      PROVE  Recording'
  <2>1. UNCHANGED <<messages, run, taken, sent>>
    BY <1>7 DEF ResetState, SignalIdle, UnsetCancel, Release, stateVars, loopVars
  <2> QED
    BY <2>1, RecordingFrame
<1>8. CASE UNCHANGED vars
  <2>1. UNCHANGED <<messages, run, taken, sent>>
    BY <1>8 DEF vars
  <2> QED
    BY <2>1, RecordingFrame
<1> QED
  BY <1>1, <1>2, <1>3, <1>4, <1>5, <1>6, <1>7, <1>8, NextCases

LEMMA InitRecording == Init => StreamsOrderly /\ Recording
<1> SUFFICES ASSUME Init PROVE StreamsOrderly /\ Recording
  OBVIOUS
<1>1. /\ \A r \in Runs : sent[r] = <<>> /\ taken[r] = 0
      /\ messages = <<>> /\ run = 0
  BY DEF Init
<1>2. StreamsOrderly
  BY <1>1 DEF StreamsOrderly, Orderly, TurnsComplete, EndsStarted, AnswersCounted, CallsAsked,
              NoneAfterOpen, EndsUnderAnswer, SeenIn
<1> QED
  BY <1>1, <1>2 DEF Recording, NoneFromLaterRuns, RunsDoNotMix, TakenRecorded,
                    LastAnswerStands, ResultsFollowRequest

LEMMA RecordingInvariant == Spec => [](FlagsOK /\ DataOK /\ Life /\ StreamsOrderly /\ Recording)
<1>1. /\ FlagsOK /\ DataOK /\ Life /\ StreamsOrderly /\ Recording
      /\ [Next]_vars
      => StreamsOrderly' /\ Recording'
  BY StreamsStep, RecordingStep
<1> QED
  BY <1>1, InitRecording, LifeInvariant, PTL DEF Spec

(* The history keeps step with what was sent and asked, for any loops that *)
(* keep to AgentEvents and whatever is aborted: no run writes into the     *)
(* part of another, whoever was given an event finds its message, and each *)
(* tool result stands behind the message that asked for it                 *)
(* (agent.go:306-395).                                                     *)
THEOREM HistoryInStepAlways == Spec => []HistoryInStep
<1>1. Recording => HistoryInStep
  BY DEF Recording, TakenRecorded, InHistory, HistoryInStep, HistoryBeforeEvent
<1> QED
  BY <1>1, RecordingInvariant, PTL
================================================================================
