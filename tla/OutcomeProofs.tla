---------------------------- MODULE OutcomeProofs ----------------------------
(***************************************************************************)
(* Proofs that what came of a thing is told as it was: how a command       *)
(* ended, what an inspection saw, what its client is sent, what a search   *)
(* found.  Each has an inductive invariant (Told, Inspected, Answered,     *)
(* Forwards, Searching), for any globs, limits, contexts, frames, events,  *)
(* sessions and requests.  At the end, that every service keeps its types. *)
(***************************************************************************)
EXTENDS ConversationProofs, FunctionTheorems

(* What makes OutcomeNamesTheCause inductive: a command is told of when it *)
(* has been waited for, and nothing kills it while its context lives.      *)
Told ==
    /\ ShellTypeOK
    /\ OutcomeNamesTheCause
    /\ context = "cancelled" => stopped
    /\ shell = "killed" \/ exit = "killed" => context # "live"
    /\ commandOutcome \notin {"none", "refused", "failed"} => shell = "waited"

LEMMA ToldInit == ShellInit => Told
<1>1. 0 \in 0..MaxOutput
  BY OutputAssumption
<1> QED
  <2> SUFFICES ASSUME ShellInit PROVE Told
    OBVIOUS
  <2>1. printed \in [chunks : 0..MaxOutput, truncated : BOOLEAN]
    BY <1>1 DEF ShellInit
  <2>2. stopped \in BOOLEAN
    BY DEF ShellInit
  <2>3. ShellTypeOK
    BY <2>1, <2>2 DEF ShellInit, ShellTypeOK
  <2> QED
    BY <2>3 DEF ShellInit, Told, OutcomeNamesTheCause

LEMMA ToldStep == Told /\ [ShellNext]_shellVars => Told'
<1> SUFFICES ASSUME Told, [ShellNext]_shellVars PROVE Told'
  OBVIOUS
<1>0. ASSUME UNCHANGED <<tool, place, shell, exit, context, stopped, commandOutcome>>,
             holders' \subseteq {"group", "apart"},
             printed' \in [chunks : 0..MaxOutput, truncated : BOOLEAN]
      PROVE  Told'
  <2>1. ShellTypeOK'
    BY <1>0 DEF Told, ShellTypeOK
  <2>2. OutcomeNamesTheCause'
    BY <1>0 DEF Told, OutcomeNamesTheCause
  <2>3. (context' = "cancelled" => stopped') /\ (shell' = "killed" \/ exit' = "killed" => context' # "live")
    BY <1>0 DEF Told
  <2> QED
    BY <1>0, <2>1, <2>2, <2>3 DEF Told
<1> USE DEF Told, ShellTypeOK, OutcomeNamesTheCause
<1>1. CASE RefuseCommand
  BY <1>1 DEF RefuseCommand, Unstarted
<1>2. CASE CallBash \/ CallPowerShell \/ BackgroundBash \/ BackgroundPowerShell
  BY <1>2 DEF CallBash, CallPowerShell, BackgroundBash, BackgroundPowerShell, StartIn, Unstarted
<1>3. CASE WriteOutput
  <2>0. printed \in [chunks : 0..MaxOutput, truncated : BOOLEAN] /\ MaxOutput \in Nat
    BY OutputAssumption
  <2>1. printed' \in [chunks : 0..MaxOutput, truncated : BOOLEAN]
    <3> HIDE DEF Told, ShellTypeOK, OutcomeNamesTheCause
    <3>1. CASE printed.chunks < MaxOutput
      <4>1. printed.chunks + 1 \in 0..MaxOutput
        BY <2>0, <3>1
      <4> QED
        BY <1>3, <2>0, <3>1, <4>1 DEF WriteOutput
    <3>2. CASE ~(printed.chunks < MaxOutput)
      BY <1>3, <2>0, <3>2 DEF WriteOutput
    <3> QED
      BY <3>1, <3>2
  <2> QED
    BY <1>0, <1>3, <2>1 DEF WriteOutput
<1>4. CASE SpawnCommand
  BY <1>4 DEF SpawnCommand
<1>5. CASE ChildEnds
  <2>1. holders' \subseteq {"group", "apart"}
    BY <1>5 DEF ChildEnds
  <2> QED
    BY <1>0, <1>5, <2>1 DEF ChildEnds
<1>6. CASE ShellExits
  BY <1>6 DEF ShellExits
<1>7. CASE Deadline
  BY <1>7 DEF Deadline
<1>8. CASE Cancel
  BY <1>8 DEF Cancel
<1>9. CASE Kill
  BY <1>9 DEF Kill
<1>10. CASE Waited
  BY <1>10 DEF Waited
<1>11. CASE CallReturns
  BY <1>11 DEF CallReturns, Returned, Classified
<1>12. CASE JobReturns
  BY <1>12 DEF JobReturns, Returned, Classified
<1>13. CASE UNCHANGED shellVars
  BY <1>0, <1>13 DEF shellVars
<1> QED
  BY <1>1, <1>2, <1>3, <1>4, <1>5, <1>6, <1>7, <1>8, <1>9, <1>10, <1>11, <1>12, <1>13 DEF ShellNext

-------------------------------------------------------------------------------
(* What an inspection has: SafeWasSeen is kept by each of its steps.       *)
SubRuns == {"none", "running", "answered", "failed", "error event", "cut off"}

Inspected ==
    /\ \E n \in 1..MaxFrames : frames \in [1..n -> {"clean", "danger"}]
    /\ detector \in BOOLEAN /\ text \in 0..MaxText
    /\ sub \in [type : AgentTypes \cup {"none"}, run : SubRuns]
    /\ task \in [status : {"none", "error", "completed"}, run : SubRuns]
    /\ look \in [at : {"idle", "detector", "model"}, have : SUBSET DOMAIN frames]
    /\ verdict \in [says : {"nothing", "clear", "violations", "error"}, sure : BOOLEAN,
                    by : {"none", "detector", "model"},
                    of : SUBSET DOMAIN frames, had : SUBSET DOMAIN frames]
    /\ SafeWasSeen

LEMMA InspectedInit == InspectionInit => Inspected
<1> SUFFICES ASSUME InspectionInit PROVE Inspected
  OBVIOUS
<1>1. \E n \in 1..MaxFrames : frames \in [1..n -> {"clean", "danger"}]
  BY DEF InspectionInit
<1>2. 0 \in 0..MaxText
  BY InspectionAssumption
<1> QED
  BY <1>1, <1>2 DEF InspectionInit, Inspected, SafeWasSeen, CalledSafe, NoSub, NoLook, NoVerdict, NoResult, SubRuns

LEMMA InspectedStep == Inspected /\ [InspectionNext]_inspectionVars => Inspected'
<1> SUFFICES ASSUME Inspected, [InspectionNext]_inspectionVars PROVE Inspected'
  OBVIOUS
<1>0. PICK n \in 1..MaxFrames : frames \in [1..n -> {"clean", "danger"}]
  BY DEF Inspected
<1>1. ASSUME UNCHANGED <<frames, detector, look, verdict>>, text' \in 0..MaxText,
             sub' \in [type : AgentTypes \cup {"none"}, run : SubRuns],
             task' \in [status : {"none", "error", "completed"}, run : SubRuns],
             task'.status = "completed" => task'.run # "error event"
      PROVE  Inspected'
  BY <1>1 DEF Inspected, SafeWasSeen, CalledSafe, Shows
<1>2. ASSUME UNCHANGED <<frames, detector, sub, text, task>>,
             look' \in [at : {"idle", "detector", "model"}, have : SUBSET DOMAIN frames]
      PROVE  /\ UNCHANGED verdict => Inspected'
             /\ \A says \in {"clear", "violations", "error"}, sure \in BOOLEAN,
                   by \in {"detector", "model"}, of \in SUBSET DOMAIN frames :
                     /\ verdict' = [says |-> says, sure |-> sure, by |-> by, of |-> of, had |-> look.have]
                     /\ says = "clear" /\ sure =>
                           ~Shows(of, "danger") /\ ((by = "detector" /\ of = {1}) \/ of = look.have)
                     /\ says = "violations" => Shows(of, "danger") \/ look.have = {}
                   => Inspected'
  <2>1. UNCHANGED verdict => Inspected'
    BY <1>2 DEF Inspected, SafeWasSeen, CalledSafe, Shows
  <2> SUFFICES ASSUME NEW says \in {"clear", "violations", "error"}, NEW sure \in BOOLEAN,
                      NEW by \in {"detector", "model"}, NEW of \in SUBSET DOMAIN frames,
                      verdict' = [says |-> says, sure |-> sure, by |-> by, of |-> of, had |-> look.have],
                      says = "clear" /\ sure =>
                         ~Shows(of, "danger") /\ ((by = "detector" /\ of = {1}) \/ of = look.have),
                      says = "violations" => Shows(of, "danger") \/ look.have = {}
               PROVE  Inspected'
    BY <2>1
  <2>2. look.have \in SUBSET DOMAIN frames
    BY DEF Inspected
  <2>3. verdict' \in [says : {"nothing", "clear", "violations", "error"}, sure : BOOLEAN,
                       by : {"none", "detector", "model"},
                       of : SUBSET DOMAIN frames, had : SUBSET DOMAIN frames]
    BY <2>2
  <2>4. /\ verdict'.says = says /\ verdict'.sure = sure /\ verdict'.by = by
        /\ verdict'.of = of /\ verdict'.had = look.have
    OBVIOUS
  <2>5. task.status = "completed" => task.run # "error event"
    BY DEF Inspected, SafeWasSeen
  <2>6. SafeWasSeen'
    BY <1>2, <2>4, <2>5 DEF SafeWasSeen, CalledSafe, Shows
  <2> QED
    BY <1>2, <2>3, <2>6 DEF Inspected
<1>3. CASE SpawnUnknown
  BY <1>1, <1>3 DEF SpawnUnknown, TaskResult, Inspected, NoSub, SubRuns
<1>4. ASSUME NEW t \in AgentTypes, Spawn(t) PROVE Inspected'
  <2>1. frames' = frames /\ detector' = detector /\ 0 \in 0..MaxText /\ text' = 0
    BY <1>4, InspectionAssumption DEF Spawn
  <2>2. sub' \in [type : AgentTypes \cup {"none"}, run : SubRuns]
    BY <1>4 DEF Spawn, SubRuns
  <2>3. task' \in [status : {"none", "error", "completed"}, run : SubRuns] /\ task'.status = "none"
    BY <1>4 DEF Spawn, NoResult, SubRuns
  <2>4. look' \in [at : {"idle", "detector", "model"}, have : SUBSET DOMAIN frames]
    BY <1>4 DEF Spawn, NoLook
  <2>5. /\ verdict' \in [says : {"nothing", "clear", "violations", "error"}, sure : BOOLEAN,
                          by : {"none", "detector", "model"},
                          of : SUBSET DOMAIN frames, had : SUBSET DOMAIN frames]
        /\ verdict'.says = "nothing"
    BY <1>4 DEF Spawn, NoVerdict
  <2> QED
    BY <2>1, <2>2, <2>3, <2>4, <2>5 DEF Inspected, SafeWasSeen, CalledSafe
<1>5. CASE Says
  <2>1. text \in 0..MaxText /\ MaxText \in Nat /\ text < MaxText /\ text' = text + 1
    BY <1>5, InspectionAssumption DEF Says, Inspected
  <2>2. text' \in 0..MaxText
    BY <2>1
  <2> QED
    BY <1>1, <1>5, <2>2 DEF Says, Inspected, SafeWasSeen, CalledSafe
<1>6. ASSUME NEW how \in {"answered", "failed", "error event", "cut off"}, RunEnds(how) PROVE Inspected'
  BY <1>1, <1>6 DEF RunEnds, Inspected, SafeWasSeen, CalledSafe, SubRuns
<1>7. CASE Collect
  BY <1>1, <1>7 DEF Collect, TaskResult, Inspected, NoSub, SubRuns
<1>8. CASE FetchFrames
  BY <1>2, <1>8 DEF FetchFrames
<1>9. CASE Detector
  <2>1. look' \in [at : {"idle", "detector", "model"}, have : SUBSET DOMAIN frames] /\ {1} \in SUBSET DOMAIN frames
    <3>1. 1 \in look.have /\ look' = NoLook /\ look.have \in SUBSET DOMAIN frames
      BY <1>9 DEF Detector, Asks, Verdict, Inspected
    <3> QED
      BY <3>1 DEF NoLook
  <2>2. /\ Shows({1}, "danger") => verdict' = [says |-> "violations", sure |-> TRUE, by |-> "detector", of |-> {1}, had |-> look.have]
        /\ ~Shows({1}, "danger") => verdict' = [says |-> "clear", sure |-> TRUE, by |-> "detector", of |-> {1}, had |-> look.have]
    BY <1>9 DEF Detector, Verdict
  <2>3. UNCHANGED <<frames, detector, sub, text, task>>
    BY <1>9 DEF Detector, Verdict
  <2> QED
    BY <1>2, <2>1, <2>2, <2>3
<1>10. CASE AskModel
  BY <1>2, <1>10 DEF AskModel, Inspected
<1>11. CASE Model
  <2>1. /\ look' \in [at : {"idle", "detector", "model"}, have : SUBSET DOMAIN frames]
        /\ look.have \in SUBSET DOMAIN frames /\ {} \in SUBSET DOMAIN frames
    BY <1>11 DEF Model, Verdict, NoLook, Inspected
  <2>2. UNCHANGED <<frames, detector, sub, text, task>>
    BY <1>11 DEF Model, Verdict
  <2>3. \A says \in Sayings(look.have) :
           /\ says \in {"clear", "violations"}
           /\ says = "clear" => ~Shows(look.have, "danger")
           /\ says = "violations" => Shows(look.have, "danger") \/ look.have = {}
    BY DEF Sayings, Shows
  <2>4. CASE \E says \in Sayings(look.have), sure \in BOOLEAN :
                verdict' = [says |-> says, sure |-> sure, by |-> "model", of |-> look.have, had |-> look.have]
    BY <1>2, <2>1, <2>2, <2>3, <2>4
  <2>5. CASE \E says \in {"clear", "error"} :
                verdict' = [says |-> says, sure |-> FALSE, by |-> "model", of |-> {}, had |-> look.have]
    BY <1>2, <2>1, <2>2, <2>5
  <2> QED
    BY <1>11, <2>4, <2>5 DEF Model, Verdict
<1>12. CASE UNCHANGED inspectionVars
  BY <1>12 DEF inspectionVars, Inspected, SafeWasSeen, CalledSafe, Shows
<1> QED
  BY <1>3, <1>4, <1>5, <1>6, <1>7, <1>8, <1>9, <1>10, <1>11, <1>12 DEF InspectionNext

LEMMA InspectedTypes == Inspected => InspectionTypeOK
BY DEF Inspected, InspectionTypeOK

-------------------------------------------------------------------------------
(* What makes AcceptedUnlessStopped inductive: the session of a frame was  *)
(* in the table when it was looked up, and none comes back to it.          *)
PostStates ==
    [at : {"idle", "not found"}] \cup [at : {"found"}, id : VideoIds]
    \cup [at : {"saved"}, id : VideoIds, image : {"file", "none", "removed"}]
    \cup [at : {"accepted"}, id : VideoIds, image : {"file", "none", "removed"}, taken : BOOLEAN]

Posted(p) ==
    /\ post[p].at \in {"found", "saved", "accepted"} => video[post[p].id] # "none"
    /\ post[p].at = "accepted" /\ ~post[p].taken => video[post[p].id] \in {"stopped", "closed"}

Answered ==
    /\ sessions \subseteq VideoIds
    /\ video \in [VideoIds -> {"none", "open", "stopped", "closed"}]
    /\ \A id \in VideoIds : video[id] = "open" <=> id \in sessions
    /\ post \in [Posters -> PostStates]
    /\ \A p \in Posters : Posted(p)

(* What a frame's request has, by how far it is. *)
LEMMA PostHas ==
    ASSUME NEW x \in PostStates
    PROVE  /\ x.at \in {"idle", "not found", "found", "saved", "accepted"}
           /\ x.at \in {"found", "saved", "accepted"} => x.id \in VideoIds
           /\ x.at = "saved" => x \in [at : {"saved"}, id : VideoIds, image : {"file", "none", "removed"}]
           /\ x.at = "accepted" => x \in [at : {"accepted"}, id : VideoIds,
                                          image : {"file", "none", "removed"}, taken : BOOLEAN]
BY DEF PostStates

LEMMA AnsweredInit == ApiInit => Answered
<1> SUFFICES ASSUME ApiInit PROVE Answered
  OBVIOUS
<1>1. post \in [Posters -> PostStates] /\ \A p \in Posters : post[p].at = "idle"
  BY DEF ApiInit, PostStates
<1> QED
  BY <1>1 DEF ApiInit, Answered, Posted

LEMMA AnsweredStep == Answered /\ [VideoApiNext]_apiVars => Answered'
<1> SUFFICES ASSUME Answered, [VideoApiNext]_apiVars PROVE Answered'
  OBVIOUS
<1>0. /\ sessions \subseteq VideoIds
      /\ video \in [VideoIds -> {"none", "open", "stopped", "closed"}]
      /\ \A id \in VideoIds : video[id] = "open" <=> id \in sessions
      /\ post \in [Posters -> PostStates]
      /\ \A p \in Posters : Posted(p)
  BY DEF Answered
<1>1. ASSUME UNCHANGED post,
             sessions' \subseteq VideoIds,
             video' \in [VideoIds -> {"none", "open", "stopped", "closed"}],
             \A id \in VideoIds : video'[id] = "open" <=> id \in sessions',
             \A id \in VideoIds : /\ video[id] # "none" => video'[id] # "none"
                                  /\ video[id] \in {"stopped", "closed"} => video'[id] \in {"stopped", "closed"}
      PROVE  Answered'
  <2> SUFFICES ASSUME NEW p \in Posters PROVE Posted(p)'
    BY <1>0, <1>1 DEF Answered
  <2>1. post[p] \in PostStates /\ Posted(p) /\ post'[p] = post[p]
    BY <1>0, <1>1
  <2>2. post[p].at \in {"found", "saved", "accepted"} => post[p].id \in VideoIds
    BY <2>1, PostHas
  <2> QED
    BY <1>1, <2>1, <2>2 DEF Posted
<1>2. ASSUME UNCHANGED tableVars, NEW p \in Posters, NEW next \in PostStates, post' = [post EXCEPT ![p] = next],
             next.at \in {"found", "saved", "accepted"} => video[next.id] # "none",
             next.at = "accepted" /\ ~next.taken => video[next.id] \in {"stopped", "closed"}
      PROVE  Answered'
  <2>1. post' \in [Posters -> PostStates]
    BY <1>0, <1>2
  <2>2. sessions' = sessions /\ video' = video
    BY <1>2 DEF tableVars
  <2>3. ASSUME NEW q \in Posters PROVE Posted(q)'
    <3>1. CASE q = p
      BY <1>0, <1>2, <2>2, <3>1 DEF Posted
    <3>2. CASE q # p
      BY <1>0, <1>2, <2>2, <3>2 DEF Posted
    <3> QED
      BY <3>1, <3>2
  <2> QED
    BY <1>0, <2>1, <2>2, <2>3 DEF Answered
<1>3. ASSUME UNCHANGED <<tableVars, post>> PROVE Answered'
  <2>1. sessions' = sessions /\ video' = video /\ post' = post
    BY <1>3 DEF tableVars
  <2> QED
    BY <1>0, <1>1, <2>1
<1>4. ASSUME NEW id \in VideoIds, Create(id) PROVE Answered'
  BY <1>0, <1>1, <1>4 DEF Create, requestVars
<1>5. ASSUME NEW id \in VideoIds, RemoveVideo(id) PROVE Answered'
  BY <1>0, <1>1, <1>5 DEF RemoveVideo, requestVars
<1>6. ASSUME NEW id \in VideoIds, CloseEvents(id) PROVE Answered'
  BY <1>0, <1>1, <1>6 DEF CloseEvents, requestVars
<1>7. ASSUME NEW id \in VideoIds, Emit(id) PROVE Answered'
  BY <1>3, <1>7 DEF Emit, requestVars
<1>8. ASSUME NEW r \in Readers,
             (\E id \in VideoIds : FollowEvents(r, id)) \/ TakeEvent(r) \/ EventsOver(r)
             \/ ClientGoes(r) \/ Abandon(r)
      PROVE  Answered'
  BY <1>3, <1>8 DEF FollowEvents, TakeEvent, EventsOver, ClientGoes, Abandon, Reads
<1>9. ASSUME NEW p \in Posters, NEW id \in VideoIds, PostFrame(p, id) PROVE Answered'
  <2> DEFINE next == IF id \in sessions THEN [at |-> "found", id |-> id] ELSE [at |-> "not found"]
  <2>1. next \in PostStates /\ (next.at \in {"found", "not found"})
    BY DEF PostStates
  <2>2. next.at = "found" => video[next.id] # "none"
    BY <1>0
  <2>3. post' = [post EXCEPT ![p] = next] /\ UNCHANGED tableVars
    BY <1>9 DEF PostFrame, Posts
  <2> HIDE DEF next
  <2> QED
    BY <1>2, <2>1, <2>2, <2>3
<1>10. ASSUME NEW p \in Posters, SaveFrame(p) PROVE Answered'
  <2>1. PICK image \in {"file", "none"} :
             post' = [post EXCEPT ![p] = [at |-> "saved", id |-> post[p].id, image |-> image]]
    BY <1>10 DEF SaveFrame, Posts
  <2>2. post[p].at = "found" /\ UNCHANGED tableVars
    BY <1>10 DEF SaveFrame, Posts
  <2>3. post[p].id \in VideoIds /\ video[post[p].id] # "none"
    BY <1>0, <2>2, PostHas DEF Posted
  <2> DEFINE next == [at |-> "saved", id |-> post[p].id, image |-> image]
  <2>4. next \in PostStates /\ next.at = "saved" /\ next.id = post[p].id
    BY <2>3 DEF PostStates
  <2>5. post' = [post EXCEPT ![p] = next]
    BY <2>1
  <2> HIDE DEF next
  <2> QED
    BY <1>2, <2>2, <2>3, <2>4, <2>5
<1>11. ASSUME NEW p \in Posters, SubmitFrame(p) PROVE Answered'
  <2>1. post[p].at = "saved" /\ UNCHANGED tableVars
    BY <1>11 DEF SubmitFrame, Posts
  <2> DEFINE x == post[p]
             next == [at |-> "accepted", id |-> x.id, image |-> x.image, taken |-> video[x.id] = "open"]
  <2>2. x \in [at : {"saved"}, id : VideoIds, image : {"file", "none", "removed"}] /\ video[x.id] # "none"
    BY <1>0, <2>1, PostHas DEF Posted
  <2>3. post' = [post EXCEPT ![p] = next]
    BY <1>11 DEF SubmitFrame, Posts
  <2> HIDE DEF x
  <2>4. next \in PostStates /\ next.at = "accepted" /\ next.id = x.id /\ (next.taken <=> video[x.id] = "open")
    BY <2>2 DEF PostStates
  <2>5. ~next.taken => video[x.id] \in {"stopped", "closed"}
    BY <1>0, <2>2, <2>4
  <2> HIDE DEF next
  <2> QED
    BY <1>2, <2>1, <2>2, <2>3, <2>4, <2>5
<1>12. ASSUME NEW p \in Posters, RemoveFile(p) PROVE Answered'
  <2>1. post[p].at \in {"saved", "accepted"} /\ UNCHANGED tableVars
    BY <1>12 DEF RemoveFile, Posts
  <2> DEFINE x == post[p]
             next == [x EXCEPT !.image = "removed"]
  <2>2. x \in PostStates /\ Posted(p)
    BY <1>0
  <2>3. post' = [post EXCEPT ![p] = next]
    BY <1>12 DEF RemoveFile, Posts
  <2>4. next \in PostStates /\ next.at = x.at /\ next.id = x.id /\ (x.at = "accepted" => next.taken = x.taken)
    <3> HIDE DEF x
    <3>1. CASE x.at = "saved"
      BY <2>2, <3>1, PostHas DEF PostStates
    <3>2. CASE x.at = "accepted"
      BY <2>2, <3>2, PostHas DEF PostStates
    <3> QED
      BY <2>1, <3>1, <3>2 DEF x
  <2>5. /\ x.at \in {"found", "saved", "accepted"} => video[x.id] # "none"
        /\ x.at = "accepted" /\ ~x.taken => video[x.id] \in {"stopped", "closed"}
    BY <2>2 DEF Posted
  <2> HIDE DEF next, x
  <2> QED
    BY <1>2, <2>1, <2>3, <2>4, <2>5
<1> QED
  BY <1>3, <1>4, <1>5, <1>6, <1>7, <1>8, <1>9, <1>10, <1>11, <1>12
  DEF VideoApiNext, apiVars, requestVars

LEMMA AnsweredAccepts == Answered => AcceptedUnlessStopped
<1> SUFFICES ASSUME Answered, NEW p \in Posters, post[p].at = "accepted", ~post[p].taken
             PROVE  post[p].id \notin sessions
  BY DEF AcceptedUnlessStopped
<1>1. post[p].id \in VideoIds /\ video[post[p].id] \in {"stopped", "closed"}
  BY PostHas DEF Answered, Posted
<1> QED
  BY <1>1 DEF Answered

-------------------------------------------------------------------------------
(* What makes InspectionForwarded inductive: what waits in the channel are *)
(* the newest events of the run, what was forwarded the oldest, and what   *)
(* lies between them was drained after an error.                           *)
RunEvents == {"event", "error"}

Gone == Len(inspectRun.events) - Len(inspectChannel)

Forwards ==
    /\ inspect \in {"idle", "forwarding", "draining", "returned"}
    /\ inspectRun \in [events : Seq(RunEvents), closed : BOOLEAN]
    /\ inspectChannel \in Seq(RunEvents) /\ forwarded \in Seq(RunEvents)
    /\ Len(forwarded) <= Gone
    /\ \A i \in 1..Len(inspectChannel) : inspectChannel[i] = inspectRun.events[Gone + i]
    /\ \A i \in 1..Len(forwarded) : forwarded[i] = inspectRun.events[i]
    /\ \A i \in 1..(Len(forwarded) - 1) : forwarded[i] # "error"
    /\ \/ Len(forwarded) = Gone /\ inspect # "draining" /\ \A i \in 1..Len(forwarded) : forwarded[i] # "error"
       \/ /\ inspect \in {"draining", "returned"}
          /\ Len(forwarded) # 0 /\ forwarded[Len(forwarded)] = "error"
    /\ inspect = "returned" => inspectRun.closed /\ inspectChannel = <<>>

LEMMA ForwardsInit == ApiInit => Forwards
BY DEF ApiInit, Forwards, Gone, RunEvents

(* One more at the end, or two sequences end to end. *)
LEMMA AtTheEnd ==
    ASSUME NEW S, NEW s \in Seq(S), NEW e \in S
    PROVE  /\ Append(s, e) \in Seq(S) /\ Len(Append(s, e)) = Len(s) + 1 /\ Len(s) \in Nat
           /\ \A i \in 1..Len(s) : Append(s, e)[i] = s[i]
           /\ Append(s, e)[Len(s) + 1] = e
OBVIOUS

LEMMA EndToEnd ==
    ASSUME NEW S, NEW s \in Seq(S), NEW t \in Seq(S)
    PROVE  /\ s \o t \in Seq(S) /\ Len(s \o t) = Len(s) + Len(t) /\ Len(s) \in Nat /\ Len(t) \in Nat
           /\ \A i \in 1..(Len(s) + Len(t)) : (s \o t)[i] = IF i <= Len(s) THEN s[i] ELSE t[i - Len(s)]
OBVIOUS

LEMMA EqualSequences ==
    ASSUME NEW S, NEW s \in Seq(S), NEW t \in Seq(S), Len(s) = Len(t), \A i \in 1..Len(s) : s[i] = t[i]
    PROVE  s = t
OBVIOUS

LEMMA ForwardsStep == Forwards /\ [InspectApiNext]_inspectVars => Forwards'
<1> SUFFICES ASSUME Forwards, [InspectApiNext]_inspectVars PROVE Forwards'
  OBVIOUS
<1> DEFINE ran == inspectRun.events
           waiting == inspectChannel
           sentOn == forwarded
<1>0. /\ ran \in Seq(RunEvents) /\ waiting \in Seq(RunEvents) /\ sentOn \in Seq(RunEvents)
      /\ inspectRun \in [events : Seq(RunEvents), closed : BOOLEAN]
      /\ Len(ran) \in Nat /\ Len(waiting) \in Nat /\ Len(sentOn) \in Nat
      /\ Gone = Len(ran) - Len(waiting) /\ Len(sentOn) <= Gone
      /\ \A i \in 1..Len(waiting) : waiting[i] = ran[Gone + i]
      /\ \A i \in 1..Len(sentOn) : sentOn[i] = ran[i]
      /\ \A i \in 1..(Len(sentOn) - 1) : sentOn[i] # "error"
  BY DEF Forwards, Gone
<1>1. CASE StartInspect
  BY <1>1 DEF StartInspect, Forwards, Gone
<1>2. ASSUME NEW type \in RunEvents, RunSends(type) PROVE Forwards'
  <2>1. /\ inspect # "idle" /\ inspect # "returned"
        /\ inspectRun' = [inspectRun EXCEPT !.events = Append(ran, type)]
        /\ waiting' = Append(waiting, type) /\ UNCHANGED <<inspect, forwarded>>
    BY <1>2 DEF RunSends, Forwards
  <2>2. inspectRun' \in [events : Seq(RunEvents), closed : BOOLEAN] /\ ran' = Append(ran, type)
    <3>1. Append(ran, type) \in Seq(RunEvents)
      BY <1>0, AtTheEnd
    <3> QED
      BY <1>0, <2>1, <3>1
  <2>3. waiting' \in Seq(RunEvents) /\ sentOn' = sentOn /\ inspect' = inspect
    BY <1>0, <2>1
  <2> HIDE DEF ran, waiting, sentOn
  <2>4. Len(ran') = Len(ran) + 1 /\ Len(waiting') = Len(waiting) + 1
    BY <1>0, <2>1, <2>2
  <2>5. Gone' = Gone
    BY <1>0, <2>4 DEF Gone, ran, waiting
  <2>6. ASSUME NEW i \in 1..Len(waiting') PROVE waiting'[i] = ran'[Gone + i]
    <3>1. CASE i = Len(waiting) + 1
      BY <1>0, <2>1, <2>2, <2>4, <3>1
    <3>2. CASE i # Len(waiting) + 1
      <4>1. i \in 1..Len(waiting) /\ Gone + i \in 1..Len(ran)
        BY <1>0, <2>4, <3>2
      <4> QED
        BY <1>0, <2>1, <2>2, <4>1
    <3> QED
      BY <3>1, <3>2
  <2>7. ASSUME NEW i \in 1..Len(sentOn) PROVE sentOn[i] = ran'[i]
    BY <1>0, <2>2
  <2> QED
    BY <1>0, <2>1, <2>2, <2>3, <2>5, <2>6, <2>7 DEF Forwards, ran, waiting, sentOn
<1>3. CASE RunCloses
  <2>1. inspectRun' \in [events : Seq(RunEvents), closed : BOOLEAN] /\ ran' = ran /\ inspectRun'.closed
    BY <1>0, <1>3 DEF RunCloses
  <2> QED
    BY <1>3, <2>1 DEF RunCloses, Forwards, Gone
<1>4. CASE ForwardEvent \/ DrainEvent
  <2> DEFINE e == Head(waiting)
  <2>0. waiting # <<>> /\ waiting' = Tail(waiting) /\ UNCHANGED inspectRun /\ inspect \in {"forwarding", "draining"}
    BY <1>4 DEF ForwardEvent, DrainEvent
  <2>1. /\ waiting' \in Seq(RunEvents) /\ Len(waiting') = Len(waiting) - 1 /\ Len(waiting) # 0
        /\ \A i \in 1..Len(waiting') : waiting'[i] = waiting[i + 1]
        /\ e = waiting[1] /\ e \in RunEvents
    BY <1>0, <2>0
  <2>2. ran' = ran
    BY <2>0
  <2> HIDE DEF ran, waiting, sentOn, e
  <2>3. Gone' = Gone + 1 /\ Gone \in Nat
    BY <1>0, <2>1, <2>2 DEF Gone, ran, waiting
  <2>4. \A i \in 1..Len(waiting') : waiting'[i] = ran[Gone' + i]
    <3> SUFFICES ASSUME NEW i \in 1..Len(waiting') PROVE waiting'[i] = ran[Gone' + i]
      OBVIOUS
    <3>1. i + 1 \in 1..Len(waiting) /\ Gone + (i + 1) = Gone' + i
      BY <1>0, <2>1, <2>3
    <3> QED
      BY <1>0, <2>1, <3>1
  <2>5. e = ran[Gone + 1]
    <3>1. 1 \in 1..Len(waiting)
      BY <1>0, <2>1
    <3> QED
      BY <1>0, <2>1, <3>1
  <2>6. CASE ForwardEvent
    <3>1. /\ inspect = "forwarding" /\ sentOn' = Append(sentOn, e)
          /\ inspect' = IF e = "error" THEN "draining" ELSE "forwarding"
      BY <2>6 DEF ForwardEvent, e, waiting, sentOn
    <3>2. Len(sentOn) = Gone /\ \A i \in 1..Len(sentOn) : sentOn[i] # "error"
      BY <3>1 DEF Forwards, sentOn
    <3>0. /\ sentOn' \in Seq(RunEvents) /\ Len(sentOn') = Len(sentOn) + 1
          /\ \A i \in 1..Len(sentOn) : sentOn'[i] = sentOn[i]
          /\ sentOn'[Len(sentOn) + 1] = e
      BY <1>0, <2>1, <3>1, AtTheEnd
    <3>3. sentOn' \in Seq(RunEvents) /\ Len(sentOn') = Gone'
      BY <2>3, <3>0, <3>2
    <3>4. /\ \A i \in 1..Len(sentOn) : sentOn'[i] = sentOn[i]
          /\ sentOn'[Len(sentOn')] = e /\ Len(sentOn') = Len(sentOn) + 1
      BY <1>0, <2>1, <3>1
    <3>5. \A i \in 1..Len(sentOn') : sentOn'[i] = ran[i]
      <4> SUFFICES ASSUME NEW i \in 1..Len(sentOn') PROVE sentOn'[i] = ran[i]
        OBVIOUS
      <4>1. CASE i \in 1..Len(sentOn)
        BY <1>0, <3>4, <4>1
      <4>2. CASE i = Len(sentOn')
        BY <2>3, <2>5, <3>3, <3>4, <4>2
      <4> QED
        BY <1>0, <3>4, <4>1, <4>2
    <3>6. \A i \in 1..(Len(sentOn') - 1) : sentOn'[i] # "error"
      <4> SUFFICES ASSUME NEW i \in 1..(Len(sentOn') - 1) PROVE sentOn'[i] # "error"
        OBVIOUS
      <4>1. i \in 1..Len(sentOn)
        BY <1>0, <3>4
      <4> QED
        BY <3>2, <3>4, <4>1
    <3>7. e # "error" => \A i \in 1..Len(sentOn') : sentOn'[i] # "error"
      BY <1>0, <3>4, <3>6
    <3>8. inspectRun' = inspectRun /\ Len(sentOn') # 0
      BY <1>0, <2>0, <3>4
    <3>9. Len(sentOn') <= Gone'
      BY <2>3, <3>3
    <3>10. inspectRun' \in [events : Seq(RunEvents), closed : BOOLEAN] /\ inspect' \in {"forwarding", "draining"}
      BY <1>0, <3>1, <3>8
    <3> QED
      BY <2>1, <2>2, <2>4, <3>1, <3>3, <3>4, <3>5, <3>6, <3>7, <3>8, <3>9, <3>10 DEF Forwards, ran, waiting, sentOn
  <2>7. CASE DrainEvent
    <3>1. inspect = "draining" /\ sentOn' = sentOn /\ inspect' = inspect /\ inspectRun' = inspectRun
      BY <2>7 DEF DrainEvent, sentOn
    <3>2. Len(sentOn) # 0 /\ sentOn[Len(sentOn)] = "error"
      BY <3>1 DEF Forwards, sentOn
    <3>3. Len(sentOn) <= Gone'
      BY <1>0, <2>3
    <3> QED
      BY <1>0, <2>1, <2>2, <2>4, <3>1, <3>2, <3>3 DEF Forwards, ran, waiting, sentOn
  <2> QED
    BY <1>4, <2>6, <2>7
<1>5. CASE InspectReturns
  <2>1. inspect' = "returned" /\ waiting = <<>> /\ inspectRun.closed /\ UNCHANGED <<inspectRun, inspectChannel, forwarded>>
    BY <1>5 DEF InspectReturns
  <2>2. Gone' = Gone
    BY <2>1 DEF Gone
  <2> QED
    BY <2>1, <2>2 DEF Forwards
<1>6. CASE UNCHANGED inspectVars
  BY <1>6 DEF inspectVars, Forwards, Gone
<1> QED
  BY <1>1, <1>2, <1>3, <1>4, <1>5, <1>6 DEF InspectApiNext, RunEvents

LEMMA ForwardsAll == Forwards => InspectionForwarded
<1> SUFFICES ASSUME Forwards PROVE InspectionForwarded
  OBVIOUS
<1> DEFINE ran == inspectRun.events
           waiting == inspectChannel
           sentOn == forwarded
<1>0. /\ ran \in Seq(RunEvents) /\ waiting \in Seq(RunEvents) /\ sentOn \in Seq(RunEvents)
      /\ Len(ran) \in Nat /\ Len(waiting) \in Nat /\ Len(sentOn) \in Nat
      /\ Gone = Len(ran) - Len(waiting) /\ Len(sentOn) <= Gone
      /\ \A i \in 1..Len(waiting) : waiting[i] = ran[Gone + i]
      /\ \A i \in 1..Len(sentOn) : sentOn[i] = ran[i]
      /\ \A i \in 1..(Len(sentOn) - 1) : sentOn[i] # "error"
  BY DEF Forwards, Gone
<1> HIDE DEF ran, waiting, sentOn
<1>1. Len(sentOn) <= Len(ran)
  BY <1>0
<1>2. IsPrefix(sentOn, ran)
  <2>1. \A i \in 1..Len(sentOn) : i \in 1..Len(ran)
    BY <1>0, <1>1
  <2>2. DOMAIN sentOn = 1..Len(sentOn) /\ DOMAIN ran = 1..Len(ran)
    BY <1>0
  <2>3. sentOn = [i \in 1..Len(sentOn) |-> ran[i]]
    BY <1>0, <2>2
  <2> QED
    BY <1>0, <1>1, <2>1, <2>2, <2>3 DEF IsPrefix
<1>3. ASSUME inspect = "forwarding" PROVE sentOn \o waiting = ran
  <2>1. Len(sentOn) = Gone
    BY <1>3 DEF Forwards, sentOn
  <2>2. sentOn \o waiting \in Seq(RunEvents) /\ Len(sentOn \o waiting) = Len(ran)
    <3>1. /\ sentOn \o waiting \in Seq(RunEvents)
          /\ Len(sentOn \o waiting) = Len(sentOn) + Len(waiting)
      BY <1>0, EndToEnd
    <3> QED
      BY <1>0, <2>1, <3>1
  <2>3. ASSUME NEW i \in 1..Len(ran) PROVE (sentOn \o waiting)[i] = ran[i]
    <3>1. CASE i <= Len(sentOn)
      BY <1>0, <2>2, <3>1
    <3>2. CASE ~(i <= Len(sentOn))
      <4>1. i - Len(sentOn) \in 1..Len(waiting) /\ Gone + (i - Len(sentOn)) = i
        BY <1>0, <2>1, <3>2
      <4>2. (sentOn \o waiting)[i] = waiting[i - Len(sentOn)]
        <5>1. i \in 1..(Len(sentOn) + Len(waiting))
          BY <1>0, <2>1
        <5> QED
          BY <1>0, <3>2, <5>1, EndToEnd
      <4> QED
        BY <1>0, <4>1, <4>2
    <3> QED
      BY <3>1, <3>2
  <2> QED
    BY <1>0, <2>2, <2>3, EqualSequences
<1>4. ASSUME inspect = "returned"
      PROVE  /\ inspectRun.closed /\ waiting = <<>>
             /\ "error" \in ToSet(ran) => Last(sentOn) = "error"
             /\ "error" \notin ToSet(ran) => sentOn = ran
  <2>1. inspectRun.closed /\ waiting = <<>>
    BY <1>4 DEF Forwards, waiting
  <2>2. \/ Len(sentOn) = Gone /\ \A i \in 1..Len(sentOn) : sentOn[i] # "error"
        \/ Len(sentOn) # 0 /\ sentOn[Len(sentOn)] = "error"
    BY <1>4 DEF Forwards, sentOn
  <2>3. CASE Len(sentOn) = Gone /\ \A i \in 1..Len(sentOn) : sentOn[i] # "error"
    <3>1. Len(sentOn) = Len(ran)
      BY <1>0, <2>1, <2>3
    <3>2. sentOn = ran
      BY <1>0, <3>1
    <3>3. "error" \notin ToSet(sentOn)
      BY <1>0, <2>3 DEF ToSet
    <3> QED
      BY <2>1, <3>2, <3>3
  <2>4. CASE Len(sentOn) # 0 /\ sentOn[Len(sentOn)] = "error"
    <3>1. Len(sentOn) \in 1..Len(sentOn) /\ Len(sentOn) \in 1..Len(ran)
      BY <1>0, <1>1, <2>4
    <3>2. ran[Len(sentOn)] = "error"
      BY <1>0, <2>4, <3>1
    <3>3. "error" \in ToSet(ran)
      BY <1>0, <3>1, <3>2 DEF ToSet
    <3> QED
      BY <2>1, <2>4, <3>3 DEF Last
  <2> QED
    BY <2>2, <2>3, <2>4
<1> QED
  BY <1>0, <1>2, <1>3, <1>4 DEF InspectionForwarded, ran, waiting, sentOn

-------------------------------------------------------------------------------

(* Where in the path the last n segments match what is left of it. *)
LeftAt(path, segs) ==
    CHOOSE left : left = [n \in 0..Len(segs) |->
            IF n = 0 THEN {Len(path) + 1}
            ELSE IF segs[Len(segs) - n + 1] = "**"
                 THEN {p \in 1..(Len(path) + 1) : \E k \in left[n - 1] : p <= k}
            ELSE {p \in 1..Len(path) : /\ segs[Len(segs) - n + 1] \in {"*", path[p]}
                                       /\ p + 1 \in left[n - 1]}]

(* The places where one segment can begin that ends at one of these. *)
Taking(path, seg, ends) ==
    IF seg = "**" THEN {p \in 1..(Len(path) + 1) : \E k \in ends : p <= k}
    ELSE {p \in 1..Len(path) : seg \in {"*", path[p]} /\ p + 1 \in ends}

(* There is such a function, as with Sums. *)
LEMMA LeftAtIs ==
    ASSUME NEW path, NEW segs, Len(path) \in Nat, Len(segs) \in Nat
    PROVE  /\ LeftAt(path, segs)[0] = {Len(path) + 1}
           /\ \A n \in 1..Len(segs) :
                 LeftAt(path, segs)[n] = Taking(path, segs[Len(segs) - n + 1], LeftAt(path, segs)[n - 1])
<1> DEFINE L == Len(segs)
           Body(n, rest) ==
               IF n = 0 THEN {Len(path) + 1}
               ELSE IF segs[L - n + 1] = "**" THEN {p \in 1..(Len(path) + 1) : \E k \in rest : p <= k}
               ELSE {p \in 1..Len(path) : segs[L - n + 1] \in {"*", path[p]} /\ p + 1 \in rest}
           F(f, m) == f = [n \in 0..m |-> Body(n, f[n - 1])]
           B == {m \in Nat : ~ \E f : F(f, m)}
<1>1. \A x, y : Body(0, x) = Body(0, y)
  OBVIOUS
<1>2. L \in Nat
  OBVIOUS
<1>3. LeftAt(path, segs) = CHOOSE f : F(f, L)
  BY DEF LeftAt
<1>4. \A x : /\ Body(0, x) = {Len(path) + 1}
             /\ \A n \in 1..L : Body(n, x) = Taking(path, segs[L - n + 1], x)
  BY DEF Taking
<1> HIDE DEF Body, L
<1>5. B = {}
  <2> SUFFICES ASSUME B # {} PROVE FALSE
    OBVIOUS
  <2>1. PICK m \in B : \A y \in B : m <= y
    BY Least, B \subseteq Nat
  <2>2. m # 0
    <3> DEFINE f == [n \in 0..0 |-> Body(0, 0)]
    <3>1. f = [n \in 0..0 |-> Body(n, f[n - 1])]
      <4>1. \A n \in 0..0 : n = 0 /\ f[n] = Body(n, f[n - 1])
        BY <1>1
      <4> QED
        BY <4>1
    <3> QED
      BY <2>1, <3>1
  <2>3. m - 1 \in Nat /\ ~(m <= m - 1)
    BY <2>1, <2>2
  <2>4. PICK f : F(f, m - 1)
    BY <2>1, <2>3
  <2> DEFINE g == [n \in 0..m |-> IF n = m THEN Body(m, f[m - 1]) ELSE f[n]]
  <2>5. \A n \in 0..m : n # m => g[n] = f[n] /\ n \in 0..(m - 1) /\ (n # 0 => g[n - 1] = f[n - 1])
    BY <2>1, <2>3
  <2>6. g[m] = Body(m, f[m - 1]) /\ g[m - 1] = f[m - 1]
    BY <2>1, <2>3
  <2>7. \A n \in 0..m : g[n] = Body(n, g[n - 1])
    <3> SUFFICES ASSUME NEW n \in 0..m PROVE g[n] = Body(n, g[n - 1])
      OBVIOUS
    <3>1. CASE n = m
      BY <2>6, <3>1
    <3>2. CASE n # m
      <4>1. f[n] = Body(n, f[n - 1])
        BY <2>4, <2>5, <3>2
      <4>2. CASE n = 0
        BY <1>1, <2>5, <3>2, <4>1, <4>2
      <4>3. CASE n # 0
        BY <2>5, <3>2, <4>1, <4>3
      <4> QED
        BY <4>2, <4>3
    <3> QED
      BY <3>1, <3>2
  <2>8. g = [n \in 0..m |-> g[n]]
    OBVIOUS
  <2> HIDE DEF g
  <2>9. F(g, m)
    BY <2>7, <2>8
  <2> QED
    BY <2>1, <2>9
<1>6. PICK f : F(f, L)
  <2> HIDE DEF F
  <2> QED
    BY <1>2, <1>5
<1> DEFINE r == LeftAt(path, segs)
<1>7. F(r, L)
  <2> HIDE DEF F
  <2> QED
    BY <1>3, <1>6
<1> HIDE DEF r
<1>8. \A n \in 0..L : r[n] = Body(n, r[n - 1])
  BY <1>7
<1>9. r[0] = Body(0, r[0 - 1]) /\ \A n \in 1..L : r[n] = Body(n, r[n - 1])
  BY <1>2, <1>8
<1> QED
  BY <1>4, <1>9 DEF r, L

(* Matches is told of by the same sets, counted from its other end. *)
LEMMA MatchesIs ==
    ASSUME NEW path, NEW segs, Len(path) \in Nat, Len(segs) \in Nat
    PROVE  Matches(path, segs) <=> 1 \in LeftAt(path, segs)[Len(segs)]
<1> DEFINE L == Len(segs)
           P == Len(path) + 1
           r == LeftAt(path, segs)
           Body(s, rest) ==
               IF s > L THEN {P}
               ELSE IF segs[s] = "**" THEN {p \in 1..P : \E k \in p..P : k \in rest}
               ELSE {p \in 1..Len(path) : segs[s] \in {"*", path[p]} /\ p + 1 \in rest}
           F(f) == f = [s \in 1..(L + 1) |-> Body(s, f[s + 1])]
           from == CHOOSE f : F(f)
           g == [s \in 1..(L + 1) |-> r[L - s + 1]]
<1>0. L \in Nat /\ P \in Nat /\ P = Len(path) + 1 /\ Len(path) \in Nat
  OBVIOUS
<1>1. Matches(path, segs) <=> 1 \in from[1]
  BY DEF Matches
<1>2. /\ r[0] = {P}
      /\ \A n \in 1..L : r[n] = Taking(path, segs[L - n + 1], r[n - 1])
  BY LeftAtIs
<1>3. \A s \in 1..L, rest \in SUBSET (1..P) : Body(s, rest) = Taking(path, segs[s], rest)
  <2> SUFFICES ASSUME NEW s \in 1..L, NEW rest \in SUBSET (1..P)
               PROVE  Body(s, rest) = Taking(path, segs[s], rest)
    OBVIOUS
  <2>1. ~(s > L)
    BY <1>0
  <2>2. \A p \in 1..P : (\E k \in p..P : k \in rest) <=> (\E k \in rest : p <= k)
    BY <1>0
  <2> QED
    BY <1>0, <2>1, <2>2 DEF Taking
<1>4. \A x : Body(L + 1, x) = {P}
  BY <1>0
<1> HIDE DEF L, P, r, Body
<1>5. \A n \in 0..L : r[n] \subseteq 1..P
  <2>1. r[0] \subseteq 1..P
    BY <1>0, <1>2
  <2>2. 1..Len(path) \subseteq 1..P
    BY <1>0
  <2>3. \A n \in 1..L : r[n] \subseteq 1..P
    BY <1>0, <1>2, <2>2 DEF Taking
  <2>4. \A n \in 0..L : n = 0 \/ n \in 1..L
    BY <1>0
  <2> QED
    BY <2>1, <2>3, <2>4
<1>6. ASSUME NEW s \in 1..(L + 1) PROVE g[s] = Body(s, g[s + 1])
  <2>1. CASE s = L + 1
    <3>1. L - s + 1 = 0
      BY <1>0, <2>1
    <3> QED
      BY <1>2, <1>4, <2>1, <3>1
  <2>2. CASE s # L + 1
    <3>1. /\ s \in 1..L /\ L - s + 1 \in 1..L /\ L - (L - s + 1) + 1 = s
          /\ L - (s + 1) + 1 = (L - s + 1) - 1 /\ (L - s + 1) - 1 \in 0..L
          /\ s + 1 \in 1..(L + 1)
      BY <1>0, <2>2
    <3> DEFINE n == L - s + 1
    <3>2. n \in 1..L /\ n - 1 \in 0..L /\ L - n + 1 = s /\ g[s] = r[n] /\ g[s + 1] = r[n - 1]
      BY <3>1
    <3> HIDE DEF g, n
    <3>3. r[n] = Taking(path, segs[s], r[n - 1]) /\ r[n - 1] \in SUBSET (1..P)
      BY <1>2, <1>5, <3>2
    <3> QED
      BY <1>3, <3>1, <3>2, <3>3
  <2> QED
    BY <2>1, <2>2
<1>7. F(g)
  <2>1. g = [s \in 1..(L + 1) |-> g[s]]
    OBVIOUS
  <2> HIDE DEF g
  <2> QED
    BY <1>6, <2>1
<1>8. F(from)
  <2> HIDE DEF F
  <2> QED
    BY <1>7
<1> HIDE DEF from
<1>9. \A s \in 1..(L + 1) : from[s] = Body(s, from[s + 1])
  BY <1>8
<1> HIDE DEF g, F
<1> DEFINE B == {d \in 0..L : from[L + 1 - d] # g[L + 1 - d]}
<1>10. B = {}
  <2> SUFFICES ASSUME B # {} PROVE FALSE
    OBVIOUS
  <2>1. PICK d \in B : \A y \in B : d <= y
    BY Least, B \subseteq Nat
  <2>2. d \in 0..L /\ L + 1 - d \in 1..(L + 1) /\ from[L + 1 - d] # g[L + 1 - d]
    BY <1>0
  <2>3. d # 0
    <3> SUFFICES ASSUME d = 0 PROVE FALSE
      OBVIOUS
    <3>1. L + 1 - d = L + 1 /\ L + 1 \in 1..(L + 1)
      BY <1>0
    <3>2. from[L + 1] = {P} /\ g[L + 1] = {P}
      BY <1>4, <1>6, <1>9, <3>1
    <3> QED
      BY <2>2, <3>1, <3>2
  <2>4. d - 1 \in 0..L /\ ~(d <= d - 1) /\ (L + 1 - d) + 1 = L + 1 - (d - 1)
    BY <1>0, <2>2, <2>3
  <2>5. from[L + 1 - (d - 1)] = g[L + 1 - (d - 1)]
    BY <2>1, <2>4
  <2>6. /\ from[L + 1 - d] = Body(L + 1 - d, from[(L + 1 - d) + 1])
        /\ g[L + 1 - d] = Body(L + 1 - d, g[(L + 1 - d) + 1])
    BY <1>6, <1>9, <2>2
  <2> QED
    BY <2>2, <2>4, <2>5, <2>6
<1>11. from[1] = r[L]
  <2>1. L \in 0..L /\ L + 1 - L = 1 /\ 1 \in 1..(L + 1) /\ L - 1 + 1 = L
    BY <1>0
  <2>2. from[1] = g[1]
    BY <1>10, <2>1
  <2> QED
    BY <2>1, <2>2 DEF g
<1> QED
  BY <1>1, <1>11 DEF r, L

(* The segment at i takes what lies between two places of the path. *)
Fits(path, segs, i, a, b) ==
    a <= b /\ (segs[i] = "**" \/ (b = a + 1 /\ segs[i] \in {"*", path[a]}))

(* What the last n segments match is what they mean, for each n.           *)
LEMMA MatchesMeans ==
    ASSUME NEW path, NEW segs, Len(path) \in Nat, Len(segs) \in Nat, DOMAIN segs = 1..Len(segs)
    PROVE  Matches(path, segs) <=> Means(path, segs)
<1> DEFINE L == Len(segs)
           P == Len(path) + 1
           r == LeftAt(path, segs)
           Cuts(n, p) == \E cut \in [1..(L + 1) -> 1..P] :
                            /\ cut[L - n + 1] = p /\ cut[L + 1] = P
                            /\ \A i \in (L - n + 1)..L : Fits(path, segs, i, cut[i], cut[i + 1])
           B == {n \in 0..L : ~ \A p \in 1..P : p \in r[n] <=> Cuts(n, p)}
<1>0. L \in Nat /\ P \in Nat /\ P # 0 /\ P = Len(path) + 1 /\ Len(path) \in Nat
  OBVIOUS
<1>1. /\ r[0] = {P}
      /\ \A n \in 1..L : r[n] = Taking(path, segs[L - n + 1], r[n - 1])
  BY LeftAtIs
<1>2. Means(path, segs) <=> Cuts(L, 1)
  <2>1. L - L + 1 = 1
    BY <1>0
  <2> QED
    BY <2>1 DEF Means, Fits
<1>3. Matches(path, segs) <=> 1 \in r[L]
  BY MatchesIs
<1> HIDE DEF L, P, r
<1>4. \A n \in 0..L : r[n] \subseteq 1..P
  <2>1. r[0] \subseteq 1..P
    BY <1>0, <1>1
  <2>2. 1..Len(path) \subseteq 1..P
    BY <1>0
  <2>3. \A n \in 1..L : r[n] \subseteq 1..P
    BY <1>0, <1>1, <2>2 DEF Taking
  <2>4. \A n \in 0..L : n = 0 \/ n \in 1..L
    BY <1>0
  <2> QED
    BY <2>1, <2>3, <2>4
<1>5. ASSUME NEW p \in 1..P PROVE p \in r[0] <=> Cuts(0, p)
  <2>1. L - 0 + 1 = L + 1 /\ \A i \in (L - 0 + 1)..L : FALSE
    BY <1>0
  <2>2. p = P => Cuts(0, p)
    <3> SUFFICES ASSUME p = P PROVE Cuts(0, p)
      OBVIOUS
    <3> DEFINE cut == [i \in 1..(L + 1) |-> P]
    <3>1. cut \in [1..(L + 1) -> 1..P] /\ cut[L + 1] = P
      BY <1>0
    <3> HIDE DEF cut
    <3> QED
      BY <2>1, <3>1
  <2>3. Cuts(0, p) => p = P
    BY <2>1
  <2> QED
    BY <1>1, <2>2, <2>3
<1>6. ASSUME NEW n \in 1..L, NEW p \in 1..P
      PROVE  p \in r[n] <=> \E k \in r[n - 1] : Fits(path, segs, L - n + 1, p, k)
  <2>1. r[n - 1] \subseteq 1..P
    BY <1>0, <1>4
  <2>2. CASE segs[L - n + 1] = "**"
    BY <1>0, <1>1, <2>2 DEF Fits, Taking
  <2>3. CASE segs[L - n + 1] # "**"
    <3>1. p \in r[n] <=> p \in 1..Len(path) /\ segs[L - n + 1] \in {"*", path[p]} /\ p + 1 \in r[n - 1]
      BY <1>1, <2>3 DEF Taking
    <3>2. p + 1 \in r[n - 1] => p \in 1..Len(path)
      BY <1>0, <2>1
    <3>3. p <= p + 1
      BY <1>0
    <3>4. (\E k \in r[n - 1] : Fits(path, segs, L - n + 1, p, k))
             <=> segs[L - n + 1] \in {"*", path[p]} /\ p + 1 \in r[n - 1]
      BY <2>3, <3>3 DEF Fits
    <3> QED
      BY <3>1, <3>2, <3>4
  <2> QED
    BY <2>2, <2>3
<1>7. ASSUME NEW n \in 1..L, NEW p \in 1..P
      PROVE  Cuts(n, p) <=> \E k \in 1..P : Fits(path, segs, L - n + 1, p, k) /\ Cuts(n - 1, k)
  <2> DEFINE s == L - n + 1
  <2>1. s \in 1..L /\ L - (n - 1) + 1 = s + 1 /\ s + 1 \in 1..(L + 1) /\ s # L + 1 /\ s \in 1..(L + 1)
    BY <1>0
  <2>2. \A i \in s..L : i = s \/ i \in (s + 1)..L
    BY <2>1
  <2>3. \A i \in (s + 1)..L : i # s /\ i + 1 # s /\ i \in 1..(L + 1) /\ i + 1 \in 1..(L + 1) /\ i \in s..L
    BY <1>0, <2>1
  <2>4. s \in s..L
    BY <1>0, <2>1
  <2>5. \A m, k : Cuts(m, k) <=> \E cut \in [1..(L + 1) -> 1..P] :
                            /\ cut[L - m + 1] = k /\ cut[L + 1] = P
                            /\ \A i \in (L - m + 1)..L : Fits(path, segs, i, cut[i], cut[i + 1])
    OBVIOUS
  <2> HIDE DEF s, Cuts
  <2>6. ASSUME Cuts(n, p) PROVE \E k \in 1..P : Fits(path, segs, s, p, k) /\ Cuts(n - 1, k)
    <3>1. PICK cut \in [1..(L + 1) -> 1..P] :
             /\ cut[s] = p /\ cut[L + 1] = P
             /\ \A i \in s..L : Fits(path, segs, i, cut[i], cut[i + 1])
      BY <2>5, <2>6 DEF s
    <3>2. cut[s + 1] \in 1..P /\ Fits(path, segs, s, p, cut[s + 1])
      BY <2>1, <2>4, <3>1
    <3>3. \A i \in (s + 1)..L : Fits(path, segs, i, cut[i], cut[i + 1])
      BY <2>3, <3>1
    <3>4. Cuts(n - 1, cut[s + 1])
      BY <2>1, <2>5, <3>1, <3>3
    <3> QED
      BY <3>2, <3>4
  <2>7. ASSUME NEW k \in 1..P, Fits(path, segs, s, p, k), Cuts(n - 1, k) PROVE Cuts(n, p)
    <3>1. PICK cut \in [1..(L + 1) -> 1..P] :
             /\ cut[s + 1] = k /\ cut[L + 1] = P
             /\ \A i \in (s + 1)..L : Fits(path, segs, i, cut[i], cut[i + 1])
      BY <2>1, <2>5, <2>7
    <3> DEFINE c == [cut EXCEPT ![s] = p]
    <3>2. c \in [1..(L + 1) -> 1..P] /\ c[s] = p /\ \A i \in 1..(L + 1) : i # s => c[i] = cut[i]
      BY <2>1
    <3> HIDE DEF c
    <3>3. L + 1 \in 1..(L + 1) /\ s + 1 # s
      BY <1>0, <2>1
    <3>4. c[L + 1] = P /\ c[s + 1] = k
      BY <2>1, <3>1, <3>2, <3>3
    <3>5. \A i \in (s + 1)..L : Fits(path, segs, i, c[i], c[i + 1])
      BY <2>3, <3>1, <3>2
    <3>6. \A i \in s..L : Fits(path, segs, i, c[i], c[i + 1])
      BY <2>2, <2>7, <3>2, <3>4, <3>5
    <3> QED
      BY <2>5, <3>2, <3>4, <3>6 DEF s
  <2> QED
    BY <2>6, <2>7 DEF s
<1>8. B = {}
  <2> SUFFICES ASSUME B # {} PROVE FALSE
    OBVIOUS
  <2>1. PICK n \in B : \A y \in B : n <= y
    BY Least, B \subseteq Nat
  <2>2. n # 0 /\ n \in 0..L
    BY <1>5, <2>1
  <2>3. n \in 1..L /\ n - 1 \in 0..L /\ ~(n <= n - 1)
    BY <1>0, <2>2
  <2>4. \A k \in 1..P : k \in r[n - 1] <=> Cuts(n - 1, k)
    BY <2>1, <2>3
  <2> HIDE DEF Cuts
  <2>5. ASSUME NEW p \in 1..P PROVE p \in r[n] <=> Cuts(n, p)
    <3>1. (\E k \in r[n - 1] : Fits(path, segs, L - n + 1, p, k))
             <=> \E k \in 1..P : Fits(path, segs, L - n + 1, p, k) /\ Cuts(n - 1, k)
      BY <1>4, <2>3, <2>4
    <3> QED
      BY <1>6, <1>7, <2>3, <3>1
  <2> QED
    BY <2>1, <2>5
<1>9. 1 \in r[L] <=> Cuts(L, 1)
  <2>1. L \in 0..L /\ 1 \in 1..P
    BY <1>0
  <2> HIDE DEF Cuts
  <2> QED
    BY <1>8, <2>1
<1> QED
  BY <1>2, <1>3, <1>9

-------------------------------------------------------------------------------

(* What is in the sequences one after the other is what is in each. *)
LEMMA FlattenHas ==
    ASSUME NEW S, NEW n \in Nat \ {0}, NEW ss \in [1..n -> Seq(S)]
    PROVE  FlattenSeq(ss) \in Seq(S) /\ ToSet(FlattenSeq(ss)) = UNION {ToSet(ss[i]) : i \in 1..n}
<1> DEFINE t == FlattenSeq(ss)
<1>1. PICK at \in [1..(n + 1) -> Nat] :
              /\ at[1] = 0 /\ \A i \in 1..n : at[i + 1] = at[i] + Len(ss[i])
              /\ t \in Seq(S) /\ Len(t) = at[n + 1]
              /\ \A i \in 1..n : \A k \in 1..Len(ss[i]) : t[at[i] + k] = ss[i][k]
              /\ \A x \in 1..at[n + 1] : \E i \in 1..n : x - at[i] \in 1..Len(ss[i])
  BY FlattenIs
<1> HIDE DEF t
<1>2. \A i \in 1..n : ss[i] \in Seq(S) /\ Len(ss[i]) \in Nat
  OBVIOUS
<1> DEFINE B == {d \in 0..n : ~(at[n + 1 - d] <= at[n + 1])}
<1>3. B = {}
  <2> SUFFICES ASSUME B # {} PROVE FALSE
    OBVIOUS
  <2>1. PICK d \in B : \A y \in B : d <= y
    BY Least, B \subseteq Nat
  <2>2. d \in 0..n /\ n + 1 \in 1..(n + 1) /\ at[n + 1] \in Nat
    OBVIOUS
  <2>3. d # 0
    BY <2>1, <2>2
  <2> DEFINE j == n + 1 - d
  <2>4. j \in 1..n /\ j + 1 = n + 1 - (d - 1) /\ d - 1 \in 0..n /\ ~(d <= d - 1)
    BY <2>2, <2>3
  <2>5. at[n + 1 - (d - 1)] <= at[n + 1]
    BY <2>1, <2>4
  <2>6. at[j + 1] = at[j] + Len(ss[j]) /\ Len(ss[j]) \in Nat /\ at[j] \in Nat /\ at[j + 1] \in Nat
    BY <1>1, <1>2, <2>4
  <2>7. ~(at[j] <= at[n + 1])
    BY <2>1
  <2>8. at[j + 1] <= at[n + 1]
    BY <2>4, <2>5
  <2> HIDE DEF j
  <2> DEFINE a == at[j]
             b == at[j + 1]
             c == at[n + 1]
  <2> HIDE DEF a, b, c
  <2>9. b = a + Len(ss[j]) /\ a \in Nat /\ b \in Nat /\ c \in Nat /\ Len(ss[j]) \in Nat /\ ~(a <= c) /\ b <= c
    BY <2>2, <2>6, <2>7, <2>8 DEF a, b, c
  <2> QED
    BY <2>9
<1>4. ASSUME NEW i \in 1..n, NEW k \in 1..Len(ss[i]) PROVE at[i] + k \in 1..Len(t)
  <2> DEFINE a == at[i]
             b == at[i + 1]
             c == at[n + 1]
  <2>1. /\ n + 1 - i \in 0..n /\ n + 1 - (n + 1 - i) = i /\ i + 1 \in 1..(n + 1)
        /\ n - i \in 0..n /\ n + 1 - (n - i) = i + 1 /\ n + 1 \in 1..(n + 1)
    OBVIOUS
  <2>2. b <= c
    BY <1>3, <2>1
  <2>3. a \in Nat /\ b \in Nat /\ c \in Nat /\ b = a + Len(ss[i]) /\ Len(ss[i]) \in Nat /\ Len(t) = c
    BY <1>1, <1>2, <2>1
  <2> HIDE DEF a, b, c
  <2>4. a + k \in 1..Len(t)
    BY <2>2, <2>3
  <2> QED
    BY <2>4 DEF a
<1>5. ASSUME NEW e \in ToSet(t) PROVE \E i \in 1..n : e \in ToSet(ss[i])
  <2>1. PICK x \in 1..Len(t) : e = t[x]
    BY <1>1 DEF ToSet
  <2>2. PICK i \in 1..n : x - at[i] \in 1..Len(ss[i])
    BY <1>1
  <2>3. at[i] \in Nat /\ i \in 1..(n + 1)
    OBVIOUS
  <2>4. at[i] + (x - at[i]) = x
    BY <2>3
  <2>5. e = ss[i][x - at[i]]
    BY <1>1, <2>1, <2>2, <2>4
  <2>6. x - at[i] \in DOMAIN ss[i]
    BY <1>2, <2>2
  <2> QED
    BY <2>5, <2>6 DEF ToSet
<1>6. ASSUME NEW i \in 1..n, NEW e \in ToSet(ss[i]) PROVE e \in ToSet(t)
  <2>1. PICK k \in 1..Len(ss[i]) : e = ss[i][k]
    BY <1>2 DEF ToSet
  <2>2. at[i] + k \in DOMAIN t /\ t[at[i] + k] = e
    <3>1. DOMAIN t = 1..Len(t) /\ at[i] + k \in 1..Len(t)
      BY <1>1, <1>4
    <3>2. t[at[i] + k] = ss[i][k]
      BY <1>1
    <3> QED
      BY <2>1, <3>1, <3>2
  <2> QED
    BY <2>2 DEF ToSet
<1>7. ToSet(t) = UNION {ToSet(ss[i]) : i \in 1..n}
  <2> DEFINE U == {ToSet(ss[i]) : i \in 1..n}
  <2>1. \A e : e \in UNION U <=> \E i \in 1..n : e \in ToSet(ss[i])
    OBVIOUS
  <2> HIDE DEF U
  <2>2. \A e : e \in ToSet(t) <=> e \in UNION U
    BY <1>5, <1>6, <2>1
  <2>3. ToSet(t) = UNION U
    BY <2>2
  <2> QED
    BY <2>3 DEF U
<1> QED
  BY <1>1, <1>7 DEF t

LEMMA LeastOfTwo ==
    ASSUME NEW a \in Int, NEW b \in Int
    PROVE  /\ Min({a, b}) = IF a <= b THEN a ELSE b
           /\ Max({a, b}) = IF a >= b THEN a ELSE b
<1>1. \E x \in {a, b} : \A y \in {a, b} : x <= y
  OBVIOUS
<1>2. Min({a, b}) \in {a, b} /\ \A y \in {a, b} : Min({a, b}) <= y
  BY <1>1 DEF Min
<1>3. \E x \in {a, b} : \A y \in {a, b} : x >= y
  OBVIOUS
<1>4. Max({a, b}) \in {a, b} /\ \A y \in {a, b} : Max({a, b}) >= y
  BY <1>3 DEF Max
<1>5. Min({a, b}) = IF a <= b THEN a ELSE b
  BY <1>2
<1> QED
  BY <1>4, <1>5

-------------------------------------------------------------------------------
(* What a search has from its start. *)
TreeRows == (1..5) \X Nat

SearchTypes ==
    /\ fileLines \in [Files -> Seq(BOOLEAN)]
    /\ ask.tool \in {"Grep", "Glob"} /\ DOMAIN ask.segs = 1..Len(ask.segs) /\ Len(ask.segs) \in Nat
    /\ ask.mode \in {"content", "files", "count"} /\ ask.head \in Nat \ {0}
    /\ ask.before \in Nat /\ ask.after \in Nat
    /\ searcher \in {"rg", "go"} /\ searchEnd \in {"walking", "returned", "error"}
    /\ unvisited \subseteq 1..5 /\ cutShort \in BOOLEAN
    /\ rowsFound \in Seq(TreeRows)

(* What a file owes to the answer, and the files that owe anything. *)
Near(i) == {l \in DOMAIN fileLines[i] : \E m \in Hits(i) : l \in (m - ask.before)..(m + ask.after)}
OwedBy(i) ==
    IF Hits(i) = {} THEN {}
    ELSE CASE ask.mode = "content" -> {<<i, l>> : l \in Near(i)}
           [] ask.mode = "files" -> {<<i, 0>>}
           [] ask.mode = "count" -> {<<i, Cardinality(Hits(i))>>}
InGlob(i) == ask.segs = <<>> \/ Means(Tree[i], ask.segs)

LEMMA OwedIs == ASSUME NEW D PROVE Owed(D) = UNION {OwedBy(i) : i \in {f \in D : InGlob(f)}}
BY DEF Owed, OwedBy, Near, InGlob

LEMMA TreeIs ==
    /\ DOMAIN Tree = 1..5 /\ Len(Tree) = 5
    /\ \A i \in 1..5 : Len(Tree[i]) \in Nat
BY DEF Tree

LEMMA WantedIs ==
    ASSUME SearchTypes, NEW i \in 1..5 PROVE Wanted(i) <=> InGlob(i)
BY TreeIs, MatchesMeans DEF Wanted, InGlob, SearchTypes

LEMMA ContextIs ==
    ASSUME SearchTypes, NEW i \in Files, NEW l \in Hits(i)
    PROVE  /\ Context(i, l) \in Seq(TreeRows)
           /\ ToSet(Context(i, l)) = {<<i, k>> : k \in {k \in DOMAIN fileLines[i] :
                                                            k \in (l - ask.before)..(l + ask.after)}}
<1> DEFINE n == Len(fileLines[i])
           lo == Max({l - ask.before, 1})
           hi == Min({l + ask.after, n})
           c == Context(i, l)
<1>1. fileLines[i] \in Seq(BOOLEAN) /\ n \in Nat /\ DOMAIN fileLines[i] = 1..n /\ i \in 1..5
  BY DEF SearchTypes, Files
<1>2. l \in 1..n /\ ask.before \in Nat /\ ask.after \in Nat
  BY <1>1 DEF Hits, SearchTypes
<1>3. /\ lo = IF l - ask.before >= 1 THEN l - ask.before ELSE 1
      /\ hi = IF l + ask.after <= n THEN l + ask.after ELSE n
  <2>1. l - ask.before \in Int /\ l + ask.after \in Int /\ n \in Int /\ 1 \in Int
    BY <1>1, <1>2
  <2> HIDE DEF n
  <2> QED
    BY <2>1, LeastOfTwo
<1>4. c = [k \in 1..(hi - lo + 1) |-> <<i, lo + k - 1>>]
  BY DEF Context
<1> HIDE DEF n, lo, hi, c
<1>5. lo \in 1..l /\ hi \in l..n
  BY <1>1, <1>2, <1>3
<1>6. hi - lo + 1 \in Nat /\ DOMAIN c = 1..(hi - lo + 1)
  BY <1>1, <1>2, <1>4, <1>5
<1>7. \A k \in 1..(hi - lo + 1) : c[k] = <<i, lo + k - 1>> /\ lo + k - 1 \in lo..hi
  BY <1>1, <1>2, <1>4, <1>5, <1>6
<1>8. c \in Seq(TreeRows)
  <2>1. \A k \in lo..hi : k \in Nat /\ <<i, k>> \in TreeRows
    BY <1>1, <1>2, <1>5 DEF TreeRows
  <2>2. \A k \in 1..(hi - lo + 1) : c[k] \in TreeRows
    BY <1>7, <2>1
  <2>3. c \in [1..(hi - lo + 1) -> TreeRows]
    BY <1>4, <2>2
  <2> QED
    BY <1>6, <2>3, SeqDef
<1>9. ASSUME NEW k PROVE k \in lo..hi <=> k \in 1..n /\ k \in (l - ask.before)..(l + ask.after)
  BY <1>1, <1>2, <1>3, <1>5
<1>10. ToSet(c) = {<<i, k>> : k \in lo..hi}
  <2>1. ASSUME NEW k \in lo..hi PROVE \E j \in DOMAIN c : c[j] = <<i, k>>
    <3>1. k - lo + 1 \in 1..(hi - lo + 1) /\ lo + (k - lo + 1) - 1 = k
      BY <1>1, <1>2, <1>5
    <3> QED
      BY <1>6, <1>7, <3>1
  <2> QED
    BY <1>6, <1>7, <2>1 DEF ToSet
<1>11. lo..hi = {k \in DOMAIN fileLines[i] : k \in (l - ask.before)..(l + ask.after)}
  BY <1>1, <1>9
<1> QED
  BY <1>8, <1>10, <1>11 DEF c

(* The walk shows of a file what the file owes, ripgrep the same. *)
LEMMA ShownAre ==
    ASSUME SearchTypes, NEW i \in Files
    PROVE  Shown(i) \in Seq(TreeRows) /\ ToSet(Shown(i)) = OwedBy(i)
<1> DEFINE P == Hits(i)
           n == Cardinality(P)
<1>1. fileLines[i] \in Seq(BOOLEAN) /\ Len(fileLines[i]) \in Nat /\ DOMAIN fileLines[i] = 1..Len(fileLines[i]) /\ i \in 1..5
  BY DEF SearchTypes, Files
<1>2. P \in SUBSET Nat /\ IsFiniteSet(P)
  <2>1. P \subseteq 1..Len(fileLines[i])
    BY <1>1 DEF Hits
  <2>2. IsFiniteSet(1..Len(fileLines[i]))
    BY <1>1, FS_Interval
  <2> HIDE DEF P
  <2>3. IsFiniteSet(P)
    BY <2>1, <2>2, FS_Subset
  <2> QED
    BY <1>1, <2>1, <2>3
<1>3. n \in Nat /\ (P # {} => n # 0)
  BY <1>2, FS_CardinalityType, FS_EmptySet
<1>4. CASE P = {}
  <2>1. Shown(i) = <<>> /\ OwedBy(i) = {}
    BY <1>4 DEF Shown, OwedBy
  <2> QED
    BY <2>1 DEF ToSet
<1>5. CASE P # {} /\ ask.mode = "content"
  <2> DEFINE at == Ascending(P)
             ss == [k \in 1..n |-> Context(i, at[k])]
  <2>1. at \in [1..n -> P] /\ \A l \in P : \E k \in 1..n : at[k] = l
    BY <1>2, AscendingIs
  <2>2. Shown(i) = FlattenSeq(ss)
    BY <1>5 DEF Shown
  <2>3. OwedBy(i) = {<<i, l>> : l \in Near(i)}
    BY <1>5 DEF OwedBy
  <2> HIDE DEF at
  <2>4. \A k \in 1..n : /\ ss[k] \in Seq(TreeRows)
                        /\ ToSet(ss[k]) = {<<i, l>> : l \in {l \in DOMAIN fileLines[i] :
                                              l \in (at[k] - ask.before)..(at[k] + ask.after)}}
    <3> SUFFICES ASSUME NEW k \in 1..n
                 PROVE  /\ ss[k] \in Seq(TreeRows)
                        /\ ToSet(ss[k]) = {<<i, l>> : l \in {l \in DOMAIN fileLines[i] :
                                              l \in (at[k] - ask.before)..(at[k] + ask.after)}}
      OBVIOUS
    <3>1. at[k] \in Hits(i) /\ ss[k] = Context(i, at[k])
      BY <2>1
    <3> HIDE DEF ss, P
    <3> QED
      BY <3>1, ContextIs
  <2>5. ss \in [1..n -> Seq(TreeRows)]
    BY <2>4
  <2> HIDE DEF ss
  <2>6. FlattenSeq(ss) \in Seq(TreeRows) /\ ToSet(FlattenSeq(ss)) = UNION {ToSet(ss[k]) : k \in 1..n}
    BY <1>3, <1>5, <2>5, FlattenHas
  <2>7. ASSUME NEW x PROVE (\E k \in 1..n : x \in ToSet(ss[k])) <=> x \in {<<i, l>> : l \in Near(i)}
    <3>1. ASSUME NEW k \in 1..n, x \in ToSet(ss[k]) PROVE x \in {<<i, l>> : l \in Near(i)}
      <4>1. PICK l \in DOMAIN fileLines[i] : x = <<i, l>> /\ l \in (at[k] - ask.before)..(at[k] + ask.after)
        BY <2>4, <3>1
      <4>2. at[k] \in Hits(i)
        BY <2>1
      <4> QED
        BY <4>1, <4>2 DEF Near
    <3>2. ASSUME NEW l \in Near(i), x = <<i, l>> PROVE \E k \in 1..n : x \in ToSet(ss[k])
      <4>1. PICK m \in Hits(i) : l \in (m - ask.before)..(m + ask.after)
        BY DEF Near
      <4>2. PICK k \in 1..n : at[k] = m
        BY <2>1
      <4>3. l \in DOMAIN fileLines[i]
        BY DEF Near
      <4> QED
        BY <2>4, <3>2, <4>1, <4>2, <4>3
    <3> QED
      BY <3>1, <3>2
  <2> QED
    BY <2>2, <2>3, <2>6, <2>7
<1>6. CASE P # {} /\ ask.mode = "files"
  <2>1. Shown(i) = << <<i, 0>> >> /\ OwedBy(i) = {<<i, 0>>}
    BY <1>6 DEF Shown, OwedBy
  <2>2. <<i, 0>> \in TreeRows
    BY <1>1 DEF TreeRows
  <2> QED
    BY <2>1, <2>2 DEF ToSet
<1>7. CASE P # {} /\ ask.mode = "count"
  <2>1. Shown(i) = << <<i, n>> >> /\ OwedBy(i) = {<<i, n>>}
    BY <1>7 DEF Shown, OwedBy
  <2>2. <<i, n>> \in TreeRows
    BY <1>1, <1>3 DEF TreeRows
  <2> HIDE DEF n
  <2> QED
    BY <2>1, <2>2 DEF ToSet
<1> QED
  BY <1>4, <1>5, <1>6, <1>7 DEF SearchTypes

-------------------------------------------------------------------------------

(* The files a search looks at, and the rows a glob means in some entries. *)
Scope == IF searcher = "rg" THEN Files ELSE Files \ Noisy
Meant(D) == {<<i, 0>> : i \in {e \in D : Means(Tree[e], ask.segs)}}
OwedNow == Owed(Scope)
(* ripgrep asked for files or counts tells nothing. *)
Silent == searcher = "rg" /\ ask.mode # "content"
OwedSoFar == IF Silent THEN {} ELSE Owed(Scope \ unvisited)
Adds(i) == IF InGlob(i) /\ ~Silent THEN OwedBy(i) ELSE {}

(* What makes GrepTellsAll and GlobTellsAll inductive: what a search has   *)
(* found so far is what it owes for the entries it has visited, if it is   *)
(* told anything.                                                          *)
Grepping ==
    /\ unvisited \subseteq Scope
    /\ searchEnd = "walking" =>
          /\ ToSet(rowsFound) = OwedSoFar /\ ~cutShort
          /\ ask.mode = "content" => Len(rowsFound) < ask.head
    /\ GrepTellsAll

Globbing ==
    /\ searcher = "go"
    /\ searchEnd = "walking" =>
          /\ ToSet(rowsFound) = Meant(1..5 \ unvisited) /\ ~cutShort
          /\ IsInjective(rowsFound) /\ Len(rowsFound) < MaxResults
    /\ GlobTellsAll

Searching == SearchTypes /\ (ask.tool = "Grep" => Grepping) /\ (ask.tool = "Glob" => Globbing)

LEMMA SearchingInit == SearchToolsInit => Searching
<1> SUFFICES ASSUME SearchToolsInit PROVE Searching
  OBVIOUS
<1>0. rowsFound = <<>> /\ cutShort = FALSE /\ searchEnd = "walking" /\ ToSet(<<>>) = {}
  BY DEF SearchToolsInit, ToSet
<1>1. fileLines \in [Files -> Seq(BOOLEAN)]
  <2>1. PICK first, second \in {<<>>, <<FALSE>>, <<FALSE, TRUE, FALSE>>, <<TRUE, FALSE, TRUE>>} :
          fileLines = [i \in Files |-> CASE i = 2 -> first [] i = 3 -> second [] i = 5 -> <<TRUE>>]
    BY DEF SearchToolsInit
  <2>2. first \in Seq(BOOLEAN) /\ second \in Seq(BOOLEAN) /\ <<TRUE>> \in Seq(BOOLEAN)
    <3>1. \A a \in BOOLEAN : <<a>> \in Seq(BOOLEAN)
      OBVIOUS
    <3>2. \A a, b, c \in BOOLEAN : <<a, b, c>> \in Seq(BOOLEAN)
      OBVIOUS
    <3>3. <<>> \in Seq(BOOLEAN)
      OBVIOUS
    <3>4. TRUE \in BOOLEAN /\ FALSE \in BOOLEAN
      OBVIOUS
    <3> QED
      BY <3>1, <3>2, <3>3, <3>4, Zenon
  <2> QED
    BY <2>1, <2>2 DEF Files
<1>2. CASE ask.tool = "Glob"
  <2>1. PICK segs \in BoundedSeq(GlobNames, MaxSegments) :
          ask = Ask("Glob", segs, "files", MaxResults, <<0, 0>>)
    BY <1>2 DEF SearchToolsInit, Ask
  <2>2. searcher = "go" /\ unvisited = 1..5
    BY <1>2, TreeIs DEF SearchToolsInit, Ask
  <2>3. DOMAIN segs = 1..Len(segs) /\ Len(segs) \in Nat
    <3>1. PICK m \in 0..MaxSegments : segs \in [1..m -> GlobNames]
      BY <2>1 DEF BoundedSeq, SeqOf
    <3>2. m \in Nat /\ DOMAIN segs = 1..m
      BY <3>1
    <3>3. Len(segs) = m
      BY <3>1, <3>2
    <3> QED
      BY <3>2, <3>3
  <2>4. SearchTypes
    <3>1. /\ ask.tool = "Glob" /\ ask.segs = segs /\ ask.mode = "files" /\ ask.head = MaxResults
          /\ ask.before = 0 /\ ask.after = 0
      BY <2>1 DEF Ask
    <3>2. rowsFound \in Seq(TreeRows) /\ 0 \in Nat /\ MaxResults \in Nat \ {0}
      BY <1>0, SearchAssumption
    <3> QED
      BY <1>0, <1>1, <2>2, <2>3, <3>1, <3>2 DEF SearchTypes
  <2>5. Meant(1..5 \ unvisited) = {}
    BY <2>2 DEF Meant
  <2>6. IsInjective(rowsFound) /\ Len(rowsFound) < MaxResults
    BY <1>0, SearchAssumption DEF IsInjective
  <2>7. Globbing
    BY <1>0, <2>2, <2>5, <2>6 DEF Globbing, GlobTellsAll
  <2> QED
    BY <1>2, <2>4, <2>7 DEF Searching
<1>3. CASE ask.tool # "Glob"
  <2>1. PICK segs \in {<<>>, <<"**", "b">>}, mode \in {"content", "files", "count"},
             head \in Heads, before, after \in Arounds :
          ask = Ask("Grep", segs, mode, head, <<before, after>>)
    BY <1>3 DEF SearchToolsInit, Ask
  <2>2. searcher \in {"rg", "go"} /\ unvisited = Scope
    <3>1. /\ searcher \in {"rg", "go"}
          /\ unvisited = Files \ (IF searcher = "go" THEN Noisy ELSE {})
      <4>1. \A glob : Ask("Glob", glob, "files", MaxResults, <<0, 0>>).tool = "Glob"
        BY DEF Ask
      <4> HIDE DEF Ask
      <4> QED
        BY <1>3, <4>1, Zenon DEF SearchToolsInit
    <3>2. CASE searcher = "go"
      BY <3>1, <3>2 DEF Scope
    <3>3. CASE searcher = "rg"
      BY <3>1, <3>3 DEF Scope, Files
    <3> QED
      BY <3>1, <3>2, <3>3
  <2>3. head \in Nat \ {0} /\ before \in Nat /\ after \in Nat
    BY SearchAssumption
  <2>4. DOMAIN segs = 1..Len(segs) /\ Len(segs) \in Nat
    OBVIOUS
  <2>5. unvisited \subseteq 1..5
    BY <2>2 DEF Scope, Files
  <2>6. SearchTypes
    <3>1. rowsFound \in Seq(TreeRows)
      BY <1>0
    <3> QED
      BY <1>0, <1>1, <2>1, <2>2, <2>3, <2>4, <2>5, <3>1 DEF SearchTypes, Ask
  <2>7. OwedSoFar = {}
    <3>1. Scope \ unvisited = {} /\ Owed({}) = {}
      BY <2>2, OwedIs
    <3> QED
      BY <3>1 DEF OwedSoFar
  <2>8. Len(rowsFound) < ask.head
    BY <1>0, <2>6 DEF SearchTypes
  <2>9. GrepTellsAll
    BY <1>0 DEF GrepTellsAll
  <2>10. Grepping
    BY <1>0, <2>2, <2>7, <2>8, <2>9 DEF Grepping
  <2> QED
    BY <1>3, <2>6, <2>10 DEF Searching
<1> QED
  BY <1>2, <1>3

-------------------------------------------------------------------------------
LEMMA FirstOnes ==
    ASSUME NEW S, NEW s \in Seq(S), NEW m \in Nat, Len(s) >= m
    PROVE  SubSeq(s, 1, m) \in Seq(S) /\ Len(SubSeq(s, 1, m)) = m /\ ToSet(SubSeq(s, 1, m)) \subseteq ToSet(s)
<1>1. /\ SubSeq(s, 1, m) \in Seq(S) /\ Len(SubSeq(s, 1, m)) = m
      /\ \A i \in 1..m : SubSeq(s, 1, m)[i] = s[i] /\ i \in 1..Len(s)
  OBVIOUS
<1> QED
  BY <1>1 DEF ToSet

LEMMA BothOnes ==
    ASSUME NEW S, NEW s \in Seq(S), NEW t \in Seq(S)
    PROVE  s \o t \in Seq(S) /\ ToSet(s \o t) = ToSet(s) \cup ToSet(t)
<1> DEFINE w == s \o t
           m == Len(s)
           n == Len(t)
<1>1. /\ w \in Seq(S) /\ Len(w) = m + n /\ m \in Nat /\ n \in Nat
      /\ \A i \in 1..(m + n) : w[i] = IF i <= m THEN s[i] ELSE t[i - m]
  BY EndToEnd
<1>2. DOMAIN s = 1..m /\ DOMAIN t = 1..n /\ DOMAIN w = 1..(m + n)
  BY <1>1
<1> HIDE DEF w, m, n
<1>3. ASSUME NEW i \in 1..m PROVE s[i] \in ToSet(w)
  <2>1. i \in 1..(m + n) /\ w[i] = s[i]
    BY <1>1
  <2> QED
    BY <1>2, <2>1 DEF ToSet
<1>4. ASSUME NEW i \in 1..n PROVE t[i] \in ToSet(w)
  <2>1. i + m \in 1..(m + n) /\ w[i + m] = t[i]
    <3>1. i + m \in 1..(m + n) /\ ~(i + m <= m) /\ (i + m) - m = i
      BY <1>1
    <3> QED
      BY <1>1, <3>1
  <2> QED
    BY <1>2, <2>1 DEF ToSet
<1>5. ASSUME NEW i \in 1..(m + n) PROVE w[i] \in ToSet(s) \cup ToSet(t)
  <2>1. CASE i <= m
    <3>1. i \in DOMAIN s /\ w[i] = s[i]
      BY <1>1, <1>2, <2>1
    <3> QED
      BY <3>1 DEF ToSet
  <2>2. CASE ~(i <= m)
    <3>1. i - m \in 1..n /\ w[i] = t[i - m]
      BY <1>1, <2>2
    <3> QED
      BY <1>2, <3>1 DEF ToSet
  <2> QED
    BY <2>1, <2>2
<1>6. ToSet(w) = ToSet(s) \cup ToSet(t)
  <2>1. ToSet(w) \subseteq ToSet(s) \cup ToSet(t)
    BY <1>2, <1>5 DEF ToSet
  <2>2. ToSet(s) \subseteq ToSet(w)
    <3>1. \A e \in ToSet(s) : \E i \in 1..m : e = s[i]
      BY <1>2 DEF ToSet
    <3> QED
      BY <1>3, <3>1
  <2>3. ToSet(t) \subseteq ToSet(w)
    <3>1. \A e \in ToSet(t) : \E i \in 1..n : e = t[i]
      BY <1>2 DEF ToSet
    <3> QED
      BY <1>4, <3>1
  <2> QED
    BY <2>1, <2>2, <2>3
<1> QED
  BY <1>1, <1>6 DEF w

LEMMA LeastVisited ==
    ASSUME NEW D \in SUBSET (1..5), D # {} PROVE Min(D) \in D
<1>1. D \in SUBSET Nat
  OBVIOUS
<1>2. \E x \in D : \A y \in D : x <= y
  BY <1>1, Least
<1> QED
  BY <1>2 DEF Min

LEMMA OwedMore ==
    ASSUME NEW D, NEW i PROVE Owed(D \cup {i}) = Owed(D) \cup (IF InGlob(i) THEN OwedBy(i) ELSE {})
<1>1. \A E, x : x \in Owed(E) <=> \E j \in E : InGlob(j) /\ x \in OwedBy(j)
  BY OwedIs
<1> QED
  BY <1>1

LEMMA OwedStays ==
    ASSUME UNCHANGED <<fileLines, ask, searcher>>
    PROVE  /\ Scope' = Scope /\ OwedNow' = OwedNow /\ Silent' = Silent
           /\ Owed(Scope \ unvisited)' = Owed(Scope \ unvisited')
           /\ OwedSoFar' = IF Silent THEN {} ELSE Owed(Scope \ unvisited')
BY DEF OwedNow, OwedSoFar, Scope, Silent, Owed, Hits

LEMMA NoRows == ASSUME NEW S, NEW s \in Seq(S), ToSet(s) = {} PROVE s = <<>>
<1>1. Len(s) \in Nat /\ DOMAIN s = 1..Len(s)
  OBVIOUS
<1>2. \A i \in DOMAIN s : s[i] \in ToSet(s)
  BY DEF ToSet
<1>3. Len(s) = 0
  <2>1. ~(1 \in 1..Len(s))
    BY <1>1, <1>2
  <2> QED
    BY <1>1, <2>1
<1> QED
  BY <1>3

LEMMA GrepTellsIs ==
    GrepTellsAll' <=>
        (ask'.tool = "Grep" /\ searchEnd' = "returned" =>
            /\ ToSet(rowsFound') \subseteq OwedNow'
            /\ cutShort' => Len(rowsFound') = ask'.head /\ ask'.mode # "count"
            /\ ~cutShort' /\ ask'.mode = "content" => Len(rowsFound') < ask'.head
            /\ IF Silent' THEN rowsFound' = <<>> /\ ~cutShort'
               ELSE ~cutShort' => Owed(Scope \ unvisited)' \subseteq ToSet(rowsFound')
            /\ searcher' = "go" /\ ~cutShort' => unvisited' = {})
BY DEF GrepTellsAll, OwedNow, Scope, Silent

(* An answer of Grep, and one more file. *)
LEMMA GrepAnswers ==
    ASSUME SearchTypes, ask.tool = "Grep", NEW rows \in Seq(TreeRows), NEW cut \in BOOLEAN,
           AnswerRows(rows, cut), unvisited' \subseteq Scope,
           ToSet(rows) \subseteq OwedNow,
           cut => Len(rows) = ask.head /\ ask.mode # "count",
           ~cut /\ ask.mode = "content" => Len(rows) < ask.head,
           Silent => rows = <<>> /\ ~cut,
           ~Silent /\ ~cut => Owed(Scope \ unvisited') \subseteq ToSet(rows),
           searcher = "go" /\ ~cut => unvisited' = {}
    PROVE  Searching'
<1>1. /\ rowsFound' = rows /\ cutShort' = cut /\ searchEnd' = "returned"
      /\ fileLines' = fileLines /\ ask' = ask /\ searcher' = searcher
  BY DEF AnswerRows
<1>2. /\ Scope' = Scope /\ OwedNow' = OwedNow /\ Silent' = Silent
      /\ Owed(Scope \ unvisited)' = Owed(Scope \ unvisited')
  BY <1>1, OwedStays
<1>3. unvisited' \subseteq 1..5
  BY DEF Scope, Files
<1>4. SearchTypes'
  BY <1>1, <1>3 DEF SearchTypes
<1>5. GrepTellsAll'
  BY <1>1, <1>2, GrepTellsIs
<1>6. Grepping'
  BY <1>1, <1>2, <1>5 DEF Grepping
<1> QED
  BY <1>1, <1>4, <1>6 DEF Searching

LEMMA GrepGoes ==
    ASSUME SearchTypes, ask.tool = "Grep", searchEnd = "walking", ~cutShort,
           NEW rows \in Seq(TreeRows), GoOn(rows),
           unvisited' \subseteq Scope, ToSet(rows) = IF Silent THEN {} ELSE Owed(Scope \ unvisited'),
           ask.mode = "content" => Len(rows) < ask.head
    PROVE  Searching'
<1>1. /\ rowsFound' = rows /\ cutShort' = cutShort /\ searchEnd' = "walking"
      /\ fileLines' = fileLines /\ ask' = ask /\ searcher' = searcher
  BY DEF GoOn
<1>2. Scope' = Scope /\ OwedSoFar' = IF Silent THEN {} ELSE Owed(Scope \ unvisited')
  BY <1>1, OwedStays
<1>3. unvisited' \subseteq 1..5
  BY DEF Scope, Files
<1>4. SearchTypes'
  BY <1>1, <1>3 DEF SearchTypes
<1>5. GrepTellsAll'
  BY <1>1, GrepTellsIs
<1>6. Grepping'
  BY <1>1, <1>2, <1>5 DEF Grepping
<1> QED
  BY <1>1, <1>4, <1>6 DEF Searching

(* A file that is looked at adds what it owes. *)
LEMMA FileAdds ==
    ASSUME SearchTypes, Grepping, searchEnd = "walking", NEW i \in unvisited, unvisited' = unvisited \ {i},
           NEW new \in Seq(TreeRows), ToSet(new) = Adds(i)
    PROVE  /\ rowsFound \o new \in Seq(TreeRows)
           /\ ToSet(rowsFound \o new) = IF Silent THEN {} ELSE Owed(Scope \ unvisited')
           /\ ToSet(rowsFound \o new) \subseteq OwedNow
           /\ unvisited' \subseteq Scope
<1>1. ToSet(rowsFound) = OwedSoFar /\ unvisited \subseteq Scope /\ rowsFound \in Seq(TreeRows)
  BY DEF Grepping, SearchTypes
<1>2. rowsFound \o new \in Seq(TreeRows) /\ ToSet(rowsFound \o new) = ToSet(rowsFound) \cup ToSet(new)
  BY <1>1, BothOnes
<1>3. Scope \ unvisited' = (Scope \ unvisited) \cup {i}
  BY <1>1
<1>4. ToSet(rowsFound \o new) = IF Silent THEN {} ELSE Owed(Scope \ unvisited')
  <2>1. CASE Silent
    BY <1>1, <1>2, <2>1 DEF OwedSoFar, Adds
  <2>2. CASE ~Silent
    <3>1. ToSet(rowsFound) = Owed(Scope \ unvisited)
      BY <1>1, <2>2 DEF OwedSoFar
    <3>2. ToSet(new) = IF InGlob(i) THEN OwedBy(i) ELSE {}
      BY <2>2 DEF Adds
    <3>3. ToSet(rowsFound \o new) = Owed(Scope \ unvisited')
      BY <1>2, <1>3, <3>1, <3>2, OwedMore
    <3> QED
      BY <2>2, <3>3
  <2> QED
    BY <2>1, <2>2
<1>5. Owed(Scope \ unvisited') \subseteq OwedNow
  <2>1. \A E, x : x \in Owed(E) <=> \E j \in E : InGlob(j) /\ x \in OwedBy(j)
    BY OwedIs
  <2> QED
    BY <2>1 DEF OwedNow
<1> QED
  BY <1>1, <1>2, <1>4, <1>5

LEMMA RgShows ==
    ASSUME SearchTypes, searcher = "rg", NEW i \in Files
    PROVE  ShownByRg(i) \in Seq(TreeRows) /\ ToSet(ShownByRg(i)) = Adds(i)
<1>1. Shown(i) \in Seq(TreeRows) /\ ToSet(Shown(i)) = OwedBy(i)
  BY ShownAre
<1>2. CASE ~(ask.mode = "content" /\ Wanted(i))
  <2>1. ShownByRg(i) = <<>> /\ ToSet(<<>>) = {}
    BY <1>2 DEF ShownByRg, ToSet
  <2>2. Adds(i) = {}
    <3>1. Wanted(i) <=> InGlob(i)
      BY WantedIs DEF Files
    <3> QED
      BY <1>2, <3>1 DEF Adds, Silent
  <2> QED
    BY <2>1, <2>2
<1>3. CASE ask.mode = "content" /\ Wanted(i)
  <2> DEFINE P == {r[2] : r \in OwedBy(i)}
             n == Cardinality(P)
             at == Ascending(P)
  <2>1. /\ fileLines[i] \in Seq(BOOLEAN) /\ Len(fileLines[i]) \in Nat
        /\ DOMAIN fileLines[i] = 1..Len(fileLines[i]) /\ i \in 1..5
    BY DEF SearchTypes, Files
  <2>2. \A r \in OwedBy(i) : \E l \in Near(i) : r = <<i, l>>
    BY <1>3 DEF OwedBy
  <2>3. \A l \in Near(i) : l \in 1..Len(fileLines[i])
    BY <2>1 DEF Near
  <2>4. P \subseteq 1..Len(fileLines[i]) /\ OwedBy(i) = {<<i, l>> : l \in P}
    BY <2>2, <2>3
  <2> HIDE DEF P
  <2>5. P \in SUBSET Nat /\ IsFiniteSet(P)
    <3>1. IsFiniteSet(1..Len(fileLines[i]))
      BY <2>1, FS_Interval
    <3>2. IsFiniteSet(P)
      BY <2>4, <3>1, FS_Subset
    <3> QED
      BY <2>1, <2>4, <3>2
  <2>6. n \in Nat /\ at \in [1..n -> P] /\ \A l \in P : \E k \in 1..n : at[k] = l
    BY <2>5, AscendingIs
  <2>7. ShownByRg(i) = [k \in DOMAIN at |-> <<i, at[k]>>]
    BY <1>1, <1>3 DEF ShownByRg, P
  <2> HIDE DEF n, at
  <2>8. ShownByRg(i) = [k \in 1..n |-> <<i, at[k]>>]
    BY <2>6, <2>7
  <2>9. \A k \in 1..n : at[k] \in Nat /\ <<i, at[k]>> \in TreeRows
    BY <2>1, <2>5, <2>6 DEF TreeRows
  <2>10. ShownByRg(i) \in [1..n -> TreeRows]
    BY <2>8, <2>9
  <2>11. ShownByRg(i) \in Seq(TreeRows)
    BY <2>6, <2>10, SeqDef
  <2>12. ToSet(ShownByRg(i)) = {<<i, l>> : l \in P}
    BY <2>6, <2>8 DEF ToSet
  <2>13. Adds(i) = OwedBy(i)
    <3>1. Wanted(i) <=> InGlob(i)
      BY WantedIs DEF Files
    <3> QED
      BY <1>3, <3>1 DEF Adds, Silent
  <2> QED
    BY <2>4, <2>11, <2>12, <2>13
<1> QED
  BY <1>2, <1>3

-------------------------------------------------------------------------------

LEMMA GrepStarts == ASSUME Searching, ask.tool = "Grep", RgStartFails PROVE Searching'
<1>1. /\ searchEnd = "walking" /\ rowsFound = <<>> /\ searcher' = "go" /\ unvisited' = Files \ Noisy
      /\ fileLines' = fileLines /\ ask' = ask /\ rowsFound' = rowsFound
      /\ cutShort' = cutShort /\ searchEnd' = searchEnd
  BY DEF RgStartFails
<1>2. SearchTypes /\ Grepping
  BY DEF Searching
<1>3. Scope' = unvisited'
  BY <1>1 DEF Scope
<1>4. OwedSoFar' = {}
  <2>1. OwedSoFar' = Owed(Scope' \ unvisited')
    BY <1>1 DEF OwedSoFar, Silent, Owed, Hits
  <2>2. Scope' \ unvisited' = {}
    BY <1>3
  <2>3. Owed({}) = {}
    BY OwedIs
  <2> QED
    BY <2>1, <2>2, <2>3
<1>5. ToSet(rowsFound') = {}
  BY <1>1 DEF ToSet
<1>6. Len(rowsFound') < ask'.head
  BY <1>1, <1>2 DEF SearchTypes
<1>7. SearchTypes'
  <2>1. unvisited' \subseteq 1..5
    BY <1>1 DEF Files
  <2> QED
    BY <1>1, <1>2, <2>1 DEF SearchTypes
<1>8. GrepTellsAll'
  BY <1>1, GrepTellsIs
<1>9. Grepping'
  BY <1>1, <1>2, <1>3, <1>4, <1>5, <1>6, <1>8 DEF Grepping
<1> QED
  BY <1>1, <1>7, <1>9 DEF Searching

(* One more file, of which these are the rows: the answer, or on.          *)
LEMMA GrepLooks ==
    ASSUME Searching, ask.tool = "Grep", searchEnd = "walking", NEW i \in unvisited,
           unvisited' = unvisited \ {i},
           NEW new \in Seq(TreeRows), ToSet(new) = Adds(i),
           IF ask.mode = "content" /\ Len(rowsFound \o new) >= ask.head
           THEN AnswerRows(SubSeq(rowsFound \o new, 1, ask.head), TRUE)
           ELSE GoOn(rowsFound \o new)
    PROVE  Searching'
<1> DEFINE rows == rowsFound \o new
<1>1. SearchTypes /\ Grepping
  BY DEF Searching
<1>2. /\ rows \in Seq(TreeRows) /\ ToSet(rows) = IF Silent THEN {} ELSE Owed(Scope \ unvisited')
      /\ ToSet(rows) \subseteq OwedNow /\ unvisited' \subseteq Scope
  BY <1>1, FileAdds
<1>3. IF ask.mode = "content" /\ Len(rows) >= ask.head
      THEN AnswerRows(SubSeq(rows, 1, ask.head), TRUE) ELSE GoOn(rows)
  OBVIOUS
<1> HIDE DEF rows
<1>4. ask.head \in Nat /\ Len(rows) \in Nat
  BY <1>1, <1>2 DEF SearchTypes
<1>5. CASE ask.mode = "content" /\ Len(rows) >= ask.head
  <2> DEFINE few == SubSeq(rows, 1, ask.head)
  <2>1. few \in Seq(TreeRows) /\ Len(few) = ask.head /\ ToSet(few) \subseteq ToSet(rows)
    BY <1>2, <1>4, <1>5, FirstOnes
  <2>2. AnswerRows(few, TRUE)
    BY <1>3, <1>5
  <2> HIDE DEF few
  <2>3. ToSet(few) \subseteq OwedNow /\ ask.mode # "count" /\ TRUE \in BOOLEAN /\ ~Silent
    BY <1>2, <1>5, <2>1 DEF Silent
  <2> QED
    BY <1>1, <1>2, <2>1, <2>2, <2>3, GrepAnswers
<1>6. CASE ~(ask.mode = "content" /\ Len(rows) >= ask.head)
  <2>1. GoOn(rows) /\ (ask.mode = "content" => Len(rows) < ask.head)
    <3>1. GoOn(rows)
      BY <1>3, <1>6
    <3>2. ask.mode = "content" => Len(rows) < ask.head
      BY <1>4, <1>6
    <3> QED
      BY <3>1, <3>2
  <2>2. ~cutShort
    BY <1>1 DEF Grepping
  <2> QED
    BY <1>1, <1>2, <2>1, <2>2, GrepGoes
<1> QED
  BY <1>5, <1>6

LEMMA GrepPrints == ASSUME Searching, ask.tool = "Grep", NEW i \in Files, RgPrints(i) PROVE Searching'
<1> DEFINE new == ShownByRg(i)
<1>1. /\ searchEnd = "walking" /\ searcher = "rg" /\ i \in unvisited /\ unvisited' = unvisited \ {i}
      /\ IF ask.mode = "content" /\ Len(rowsFound \o new) >= ask.head
         THEN AnswerRows(SubSeq(rowsFound \o new, 1, ask.head), TRUE)
         ELSE GoOn(rowsFound \o new)
  BY DEF RgPrints
<1>2. new \in Seq(TreeRows) /\ ToSet(new) = Adds(i)
  BY <1>1, RgShows DEF Searching
<1> HIDE DEF new
<1> QED
  BY <1>1, <1>2, GrepLooks

LEMMA GrepVisits == ASSUME Searching, ask.tool = "Grep", GrepVisit PROVE Searching'
<1> DEFINE i == Min(unvisited)
           new == IF Wanted(i) THEN Shown(i) ELSE <<>>
<1>1. /\ searchEnd = "walking" /\ searcher = "go" /\ unvisited # {} /\ unvisited' = unvisited \ {i}
      /\ IF ask.mode = "content" /\ Len(rowsFound \o new) >= ask.head
         THEN AnswerRows(SubSeq(rowsFound \o new, 1, ask.head), TRUE)
         ELSE GoOn(rowsFound \o new)
  BY DEF GrepVisit, Visiting
<1>2. SearchTypes /\ Grepping
  BY DEF Searching
<1>3. i \in unvisited /\ i \in Files /\ i \in 1..5
  <2>1. unvisited \in SUBSET (1..5)
    BY <1>2 DEF SearchTypes
  <2>2. i \in unvisited
    BY <1>1, <2>1, LeastVisited
  <2> QED
    BY <1>2, <2>1, <2>2 DEF Grepping, Scope
<1> HIDE DEF i
<1>4. new \in Seq(TreeRows) /\ ToSet(new) = Adds(i)
  <2>1. ToSet(<<>>) = {}
    BY DEF ToSet
  <2>2. Wanted(i) <=> InGlob(i)
    BY <1>2, <1>3, WantedIs
  <2>3. Shown(i) \in Seq(TreeRows) /\ ToSet(Shown(i)) = OwedBy(i)
    BY <1>2, <1>3, ShownAre
  <2>4. <<>> \in Seq(TreeRows)
    OBVIOUS
  <2>5. CASE InGlob(i)
    BY <1>1, <2>2, <2>3, <2>5 DEF Adds, Silent
  <2>6. CASE ~InGlob(i)
    BY <2>1, <2>2, <2>4, <2>6 DEF Adds
  <2> QED
    BY <2>5, <2>6
<1> HIDE DEF new
<1> QED
  BY <1>1, <1>3, <1>4, GrepLooks

(* ripgrep breaks off in the middle of a file's rows. *)
LEMMA RgBreaksOff ==
    ASSUME Searching, ask.tool = "Grep", searchEnd = "walking", searcher = "rg", unvisited' = unvisited,
           NEW i \in unvisited, NEW n \in 1..(Len(ShownByRg(i)) - 1), Len(rowsFound) + n < ask.head,
           AnswerRows(rowsFound \o SubSeq(ShownByRg(i), 1, n), FALSE)
    PROVE  Searching'
<1> DEFINE allRows == ShownByRg(i)
           few == SubSeq(allRows, 1, n)
           rows == rowsFound \o few
<1>1. SearchTypes /\ Grepping /\ rowsFound \in Seq(TreeRows) /\ ask.head \in Nat
  BY DEF Searching, SearchTypes
<1>2. unvisited \subseteq Scope /\ ToSet(rowsFound) = OwedSoFar /\ i \in Files /\ Scope = Files
  BY <1>1 DEF Grepping, Scope
<1>3. allRows \in Seq(TreeRows) /\ ToSet(allRows) = Adds(i)
  BY <1>1, <1>2, RgShows
<1>4. n \in 1..(Len(allRows) - 1) /\ Len(rowsFound) + n < ask.head /\ AnswerRows(rows, FALSE)
  OBVIOUS
<1> HIDE DEF allRows
<1>5. n \in Nat /\ Len(allRows) \in Nat /\ Len(allRows) >= n /\ Len(allRows) # 0
  BY <1>3, <1>4
<1>6. few \in Seq(TreeRows) /\ Len(few) = n /\ ToSet(few) \subseteq ToSet(allRows)
  BY <1>3, <1>5, FirstOnes
<1>7. ~Silent
  <2>1. Silent => Adds(i) = {}
    BY DEF Adds
  <2>2. Adds(i) = {} => allRows = <<>>
    BY <1>3, NoRows
  <2> QED
    BY <1>5, <2>1, <2>2
<1> HIDE DEF few
<1>8. rows \in Seq(TreeRows) /\ ToSet(rows) = ToSet(rowsFound) \cup ToSet(few)
  BY <1>1, <1>6, BothOnes
<1>9. Len(rows) < ask.head
  <2>1. Len(rows) = Len(rowsFound) + Len(few)
    BY <1>1, <1>6
  <2> QED
    BY <1>4, <1>6, <2>1
<1> HIDE DEF rows
<1>10. ToSet(rowsFound) = Owed(Scope \ unvisited)
  BY <1>2, <1>7 DEF OwedSoFar
<1>11. ToSet(rows) \subseteq OwedNow
  <2>1. \A E, x : x \in Owed(E) <=> \E j \in E : InGlob(j) /\ x \in OwedBy(j)
    BY OwedIs
  <2>2. \A x \in Adds(i) : InGlob(i) /\ x \in OwedBy(i)
    BY DEF Adds
  <2>3. i \in Scope
    BY <1>2
  <2>4. ToSet(few) \subseteq Owed(Scope)
    BY <1>3, <1>6, <2>1, <2>2, <2>3
  <2>5. ToSet(rowsFound) \subseteq Owed(Scope)
    BY <1>10, <2>1
  <2> QED
    BY <1>8, <2>4, <2>5 DEF OwedNow
<1>12. Owed(Scope \ unvisited') \subseteq ToSet(rows)
  BY <1>8, <1>10
<1>13. FALSE \in BOOLEAN /\ unvisited' \subseteq Scope /\ searcher # "go"
  BY <1>2
<1> QED
  BY <1>1, <1>4, <1>7, <1>8, <1>9, <1>11, <1>12, <1>13, GrepAnswers

LEMMA GrepStops == ASSUME Searching, ask.tool = "Grep", RgEnds \/ GrepEnds PROVE Searching'
<1>1. SearchTypes /\ Grepping /\ rowsFound \in Seq(TreeRows) /\ ask.head \in Nat
  BY DEF Searching, SearchTypes
<1>2. searchEnd = "walking" /\ unvisited' = unvisited
  BY DEF RgEnds, GrepEnds
<1>3. /\ unvisited \subseteq Scope /\ ToSet(rowsFound) = OwedSoFar
      /\ ask.mode = "content" => Len(rowsFound) < ask.head
  BY <1>1, <1>2 DEF Grepping
<1>4. /\ ToSet(rowsFound) \subseteq OwedNow /\ (Silent => rowsFound = <<>>)
      /\ ~Silent => Owed(Scope \ unvisited) \subseteq ToSet(rowsFound)
  <2>1. \A E, x : x \in Owed(E) <=> \E j \in E : InGlob(j) /\ x \in OwedBy(j)
    BY OwedIs
  <2>2. CASE Silent
    <3>1. ToSet(rowsFound) = {}
      BY <1>3, <2>2 DEF OwedSoFar
    <3> QED
      BY <1>1, <2>2, <3>1, NoRows
  <2>3. CASE ~Silent
    <3>1. ToSet(rowsFound) = Owed(Scope \ unvisited)
      BY <1>3, <2>3 DEF OwedSoFar
    <3> QED
      BY <2>1, <2>3, <3>1 DEF OwedNow
  <2> QED
    BY <2>2, <2>3
<1>5. Len(rowsFound) \in Nat /\ TRUE \in BOOLEAN /\ FALSE \in BOOLEAN
  BY <1>1
<1>6. CASE RgEnds
  <2>1. searcher = "rg"
    BY <1>6 DEF RgEnds
  <2>2. CASE AnswerRows(rowsFound, FALSE)
    BY <1>1, <1>2, <1>3, <1>4, <1>5, <2>1, <2>2, GrepAnswers
  <2>3. CASE ~AnswerRows(rowsFound, FALSE)
    <3>1. PICK i \in unvisited : \E n \in 1..(Len(ShownByRg(i)) - 1) :
             /\ Len(rowsFound) + n < ask.head
             /\ AnswerRows(rowsFound \o SubSeq(ShownByRg(i), 1, n), FALSE)
      BY <1>6, <2>3 DEF RgEnds
    <3> QED
      BY <1>2, <2>1, <3>1, RgBreaksOff
  <2> QED
    BY <2>2, <2>3
<1>7. CASE GrepEnds
  <2>1. /\ unvisited = {} /\ searcher = "go" /\ ~Silent
        /\ IF ask.mode = "files" /\ Len(rowsFound) > ask.head
           THEN AnswerRows(SubSeq(rowsFound, 1, ask.head), TRUE)
           ELSE AnswerRows(rowsFound, FALSE)
    BY <1>7 DEF GrepEnds, Silent
  <2>2. CASE ask.mode = "files" /\ Len(rowsFound) > ask.head
    <3> DEFINE few == SubSeq(rowsFound, 1, ask.head)
    <3>1. few \in Seq(TreeRows) /\ Len(few) = ask.head /\ ToSet(few) \subseteq ToSet(rowsFound)
      <4>1. Len(rowsFound) >= ask.head
        BY <1>1, <1>5, <2>2
      <4> QED
        BY <1>1, <4>1, FirstOnes
    <3>2. AnswerRows(few, TRUE) /\ ask.mode # "count"
      BY <2>1, <2>2
    <3> HIDE DEF few
    <3>3. ToSet(few) \subseteq OwedNow
      BY <1>4, <3>1
    <3> QED
      BY <1>1, <1>2, <1>3, <1>5, <2>1, <3>1, <3>2, <3>3, GrepAnswers
  <2>3. CASE ~(ask.mode = "files" /\ Len(rowsFound) > ask.head)
    <3>1. AnswerRows(rowsFound, FALSE)
      BY <2>1, <2>3
    <3> QED
      BY <1>1, <1>2, <1>3, <1>4, <1>5, <2>1, <3>1, GrepAnswers
  <2> QED
    BY <2>2, <2>3
<1> QED
  BY <1>6, <1>7

LEMMA SearchCancelled == ASSUME Searching, WalkCancelled PROVE Searching'
<1>1. searchEnd' = "error" /\ UNCHANGED <<fileLines, ask, searcher, unvisited, rowsFound, cutShort>>
  BY DEF WalkCancelled
<1>2. SearchTypes'
  BY <1>1 DEF Searching, SearchTypes
<1>3. Scope' = Scope
  BY <1>1 DEF Scope
<1>4. GrepTellsAll' /\ GlobTellsAll'
  BY <1>1, GrepTellsIs DEF GlobTellsAll
<1>5. (ask'.tool = "Grep" => Grepping')
  BY <1>1, <1>3, <1>4 DEF Searching, Grepping
<1>6. (ask'.tool = "Glob" => Globbing')
  BY <1>1, <1>4 DEF Searching, Globbing
<1> QED
  BY <1>2, <1>5, <1>6 DEF Searching

-------------------------------------------------------------------------------

(* As many numbers as there are different elements.                        *)
LEMMA EachOnce ==
    ASSUME NEW S, NEW s \in Seq(S), IsInjective(s)
    PROVE  IsFiniteSet(ToSet(s)) /\ Cardinality(ToSet(s)) = Len(s)
<1> DEFINE m == Len(s)
           D == 1..m
           T == ToSet(s)
<1>1. m \in Nat /\ s \in [D -> S] /\ DOMAIN s = D
  OBVIOUS
<1> HIDE DEF m
<1>2. s \in [D -> T] /\ \A e \in T : \E i \in D : s[i] = e
  BY <1>1 DEF ToSet
<1>3. \A i, j \in D : s[i] = s[j] => i = j
  BY <1>1 DEF IsInjective
<1>4. IsFiniteSet(D) /\ Cardinality(D) = m
  BY <1>1, FS_Interval
<1> HIDE DEF D, T
<1>5. s \in Injection(D, T) /\ s \in Surjection(D, T)
  BY <1>2, <1>3, Fun_IsInj, Fun_IsSurj
<1>6. IsFiniteSet(T) /\ (Cardinality(T) = Cardinality(D))
  BY <1>4, <1>5, FS_Surjection
<1> QED
  BY <1>4, <1>6 DEF T, m

(* The rows by age are the same rows. *)
LEMMA ByAgeIs ==
    ASSUME NEW S, NEW rows \in Seq(S), IsInjective(rows), NEW s \in ByAge(rows)
    PROVE  /\ s \in Seq(S) /\ ToSet(s) = ToSet(rows) /\ Len(s) = Len(rows)
           /\ \A i, j \in DOMAIN s : i < j => Modified[s[i][1]] >= Modified[s[j][1]]
<1> DEFINE T == ToSet(rows)
           n == Cardinality(T)
           D == 1..n
<1>1. IsFiniteSet(T) /\ n = Len(rows) /\ n \in Nat
  BY EachOnce
<1>2. s \in SetToSeqs(T) /\ \A i, j \in DOMAIN s : i < j => Modified[s[i][1]] >= Modified[s[j][1]]
  BY DEF ByAge
<1>3. s \in [D -> T] /\ \A i, j \in D : i # j => s[i] # s[j]
  BY <1>2 DEF SetToSeqs
<1>4. IsFiniteSet(D) /\ Cardinality(D) = n
  <2>1. n \in Nat
    BY <1>1
  <2> HIDE DEF n
  <2> QED
    BY <2>1, FS_Interval
<1>5. T \subseteq S
  BY DEF ToSet
<1> HIDE DEF T, n
<1>6. s \in [1..n -> S] /\ DOMAIN s = D
  BY <1>3, <1>5
<1>7. s \in Seq(S) /\ Len(s) = n
  BY <1>1, <1>6, SeqDef
<1>8. \A t \in T : \E i \in D : s[i] = t
  <2> HIDE DEF D
  <2>1. s \in Injection(D, T)
    BY <1>3, Fun_IsInj
  <2>2. Cardinality(D) = Cardinality(T)
    BY <1>4 DEF n
  <2>3. s \in Surjection(D, T)
    BY <1>1, <2>1, <2>2, FS_Injection
  <2> QED
    BY <2>3, Fun_SurjectionProperties
<1>9. ToSet(s) = T
  <2>1. \A e : e \in ToSet(s) <=> \E i \in D : e = s[i]
    BY <1>6 DEF ToSet
  <2>2. \A i \in D : s[i] \in T
    BY <1>3
  <2> QED
    BY <1>8, <2>1, <2>2
<1> QED
  BY <1>1, <1>2, <1>7, <1>9 DEF T

-------------------------------------------------------------------------------
(* An answer of Glob, and one more entry. *)
LEMMA GlobAnswers ==
    ASSUME Searching, ask.tool = "Glob", NEW rows \in Seq(TreeRows), IsInjective(rows),
           NEW cut \in BOOLEAN, NEW s \in ByAge(rows), AnswerRows(s, cut),
           unvisited' \subseteq 1..5, ToSet(rows) \subseteq Meant(1..5),
           IF cut THEN Len(rows) = MaxResults ELSE ToSet(rows) = Meant(1..5)
    PROVE  Searching'
<1>1. /\ rowsFound' = s /\ cutShort' = cut /\ searchEnd' = "returned"
      /\ fileLines' = fileLines /\ ask' = ask /\ searcher' = searcher
  BY DEF AnswerRows
<1>2. /\ s \in Seq(TreeRows) /\ ToSet(s) = ToSet(rows) /\ Len(s) = Len(rows)
      /\ \A i, j \in DOMAIN s : i < j => Modified[s[i][1]] >= Modified[s[j][1]]
  BY ByAgeIs
<1>3. SearchTypes /\ Globbing
  BY DEF Searching
<1>4. SearchTypes'
  BY <1>1, <1>2, <1>3 DEF SearchTypes
<1>5. Meant(1..5) = {<<i, 0>> : i \in {e \in DOMAIN Tree : Means(Tree[e], ask.segs)}}
  BY TreeIs DEF Meant
<1>6. GlobTellsAll'
  <2> HIDE DEF Meant
  <2>1. /\ ToSet(s) \subseteq Meant(1..5)
        /\ IF cut THEN Len(s) = MaxResults ELSE ToSet(s) = Meant(1..5)
    BY <1>2
  <2> QED
    BY <1>1, <1>2, <1>5, <2>1 DEF GlobTellsAll
<1>7. Globbing'
  BY <1>1, <1>3, <1>6 DEF Globbing
<1> QED
  BY <1>1, <1>4, <1>7 DEF Searching

LEMMA GlobLooks ==
    ASSUME Searching, ask.tool = "Glob", searchEnd = "walking", NEW i \in unvisited,
           unvisited' = unvisited \ {i},
           NEW rows, rows = IF Matches(Tree[i], ask.segs) THEN Append(rowsFound, <<i, 0>>) ELSE rowsFound
    PROVE  /\ rows \in Seq(TreeRows) /\ IsInjective(rows)
           /\ ToSet(rows) = Meant(1..5 \ unvisited') /\ ToSet(rows) \subseteq Meant(1..5)
           /\ unvisited' \subseteq 1..5 /\ Len(rows) <= MaxResults
<1>1. /\ SearchTypes /\ rowsFound \in Seq(TreeRows) /\ unvisited \subseteq 1..5 /\ MaxResults \in Nat
      /\ ToSet(rowsFound) = Meant(1..5 \ unvisited) /\ IsInjective(rowsFound) /\ Len(rowsFound) < MaxResults
  BY SearchAssumption DEF Searching, SearchTypes, Globbing
<1>2. i \in 1..5 /\ unvisited' \subseteq 1..5 /\ 1..5 \ unvisited' = (1..5 \ unvisited) \cup {i}
  BY <1>1
<1>3. Matches(Tree[i], ask.segs) <=> Means(Tree[i], ask.segs)
  BY <1>1, <1>2, TreeIs, MatchesMeans DEF SearchTypes
<1>4. \A D, x : x \in Meant(D) <=> \E e \in D : Means(Tree[e], ask.segs) /\ x = <<e, 0>>
  BY DEF Meant
<1>5. \A D : D \subseteq 1..5 => Meant(D) \subseteq Meant(1..5)
  BY <1>4
<1>6. CASE ~Means(Tree[i], ask.segs)
  <2>1. rows = rowsFound
    BY <1>3, <1>6
  <2>2. Meant(1..5 \ unvisited') = Meant(1..5 \ unvisited)
    <3> DEFINE D == 1..5 \ unvisited
               E == 1..5 \ unvisited'
    <3>1. E = D \cup {i}
      BY <1>2
    <3> HIDE DEF D, E
    <3>2. \A x : x \in Meant(E) <=> x \in Meant(D)
      BY <1>4, <1>6, <3>1
    <3>3. Meant(E) = Meant(D)
      BY <3>2 DEF Meant
    <3> QED
      BY <3>3 DEF D, E
  <2>3. Meant(1..5 \ unvisited') \subseteq Meant(1..5)
    BY <1>5
  <2>4. Len(rowsFound) <= MaxResults
    BY <1>1
  <2> QED
    BY <1>1, <1>2, <2>1, <2>2, <2>3, <2>4
<1>7. CASE Means(Tree[i], ask.segs)
  <2>1. rows = Append(rowsFound, <<i, 0>>)
    BY <1>3, <1>7
  <2>2. <<i, 0>> \in TreeRows
    BY <1>2 DEF TreeRows
  <2> DEFINE m == Len(rowsFound)
             x == <<i, 0>>
  <2>3. m \in Nat /\ DOMAIN rowsFound = 1..m
    BY <1>1
  <2>4. x \notin ToSet(rowsFound)
    BY <1>1, <1>4
  <2>5. x \in TreeRows /\ rows = Append(rowsFound, x)
    BY <2>1, <2>2
  <2> HIDE DEF x
  <2>6. /\ rows \in Seq(TreeRows) /\ Len(rows) = m + 1 /\ DOMAIN rows = 1..(m + 1)
        /\ rows[m + 1] = x /\ \A k \in 1..m : rows[k] = rowsFound[k]
    BY <1>1, <2>5
  <2> HIDE DEF m
  <2>7. \A k \in 1..(m + 1) : k = m + 1 \/ k \in 1..m
    BY <2>3
  <2>8. m + 1 \in 1..(m + 1) /\ \A k \in 1..m : k \in 1..(m + 1)
    BY <2>3
  <2>9. \A k \in 1..m : rows[k] \in ToSet(rowsFound)
    BY <2>3, <2>6 DEF ToSet
  <2>10. IsInjective(rows)
    <3>1. \A a, b \in 1..m : rowsFound[a] = rowsFound[b] => a = b
      BY <1>1, <2>3 DEF IsInjective
    <3>2. \A a, b \in 1..(m + 1) : rows[a] = rows[b] => a = b
      BY <2>4, <2>6, <2>7, <2>9, <3>1
    <3> QED
      BY <2>6, <3>2 DEF IsInjective
  <2>11. ToSet(rows) = ToSet(rowsFound) \cup {x}
    <3>1. \A e : e \in ToSet(rows) <=> \E k \in 1..(m + 1) : e = rows[k]
      BY <2>6 DEF ToSet
    <3>2. \A e : e \in ToSet(rowsFound) <=> \E k \in 1..m : e = rowsFound[k]
      BY <2>3 DEF ToSet
    <3>3. \A e : e \in ToSet(rows) <=> e \in ToSet(rowsFound) \/ e = x
      BY <2>6, <2>7, <2>8, <3>1, <3>2
    <3> QED
      BY <3>3 DEF ToSet
  <2>12. Meant(1..5 \ unvisited') = Meant(1..5 \ unvisited) \cup {x}
    BY <1>2, <1>4, <1>7 DEF x
  <2>13. ToSet(rows) = Meant(1..5 \ unvisited')
    BY <1>1, <2>11, <2>12
  <2>14. Meant(1..5 \ unvisited') \subseteq Meant(1..5)
    BY <1>5
  <2>15. m + 1 <= MaxResults
    BY <1>1, <2>3 DEF m
  <2> QED
    BY <1>2, <2>6, <2>10, <2>13, <2>14, <2>15
<1> QED
  BY <1>6, <1>7

LEMMA GlobVisits == ASSUME Searching, ask.tool = "Glob", GlobVisit PROVE Searching'
<1> DEFINE i == Min(unvisited)
           rows == IF Matches(Tree[i], ask.segs) THEN Append(rowsFound, <<i, 0>>) ELSE rowsFound
<1>1. /\ searchEnd = "walking" /\ unvisited # {} /\ unvisited' = unvisited \ {i}
      /\ IF rows # rowsFound /\ Len(rows) >= MaxResults
         THEN \E s \in ByAge(rows) : AnswerRows(s, TRUE)
         ELSE GoOn(rows)
  BY DEF GlobVisit, Visiting
<1>2. SearchTypes /\ Globbing /\ unvisited \in SUBSET (1..5) /\ MaxResults \in Nat
  BY SearchAssumption DEF Searching, SearchTypes
<1>3. i \in unvisited
  BY <1>1, <1>2, LeastVisited
<1> HIDE DEF i
<1>4. rows = IF Matches(Tree[i], ask.segs) THEN Append(rowsFound, <<i, 0>>) ELSE rowsFound
  OBVIOUS
<1> HIDE DEF rows
<1>5. /\ rows \in Seq(TreeRows) /\ IsInjective(rows)
      /\ ToSet(rows) = Meant(1..5 \ unvisited') /\ ToSet(rows) \subseteq Meant(1..5)
      /\ unvisited' \subseteq 1..5 /\ Len(rows) <= MaxResults
  BY <1>1, <1>3, <1>4, GlobLooks
<1>6. CASE rows # rowsFound /\ Len(rows) >= MaxResults
  <2>1. PICK s \in ByAge(rows) : AnswerRows(s, TRUE)
    BY <1>1, <1>6
  <2>2. Len(rows) = MaxResults /\ TRUE \in BOOLEAN
    BY <1>2, <1>5, <1>6
  <2> QED
    BY <1>5, <2>1, <2>2, GlobAnswers
<1>7. CASE ~(rows # rowsFound /\ Len(rows) >= MaxResults)
  <2>1. GoOn(rows)
    BY <1>1, <1>7
  <2>2. /\ rowsFound' = rows /\ cutShort' = cutShort /\ searchEnd' = "walking"
        /\ fileLines' = fileLines /\ ask' = ask /\ searcher' = searcher
    BY <1>1, <2>1 DEF GoOn
  <2>3. Len(rows) < MaxResults /\ ~cutShort
    BY <1>1, <1>2, <1>5, <1>7 DEF Globbing
  <2>4. SearchTypes'
    BY <1>2, <1>5, <2>2 DEF SearchTypes
  <2>5. Meant(1..5 \ unvisited)' = Meant(1..5 \ unvisited')
    BY <2>2 DEF Meant
  <2>6. Globbing'
    <3>1. GlobTellsAll'
      BY <2>2 DEF GlobTellsAll
    <3> QED
      BY <1>2, <1>5, <2>2, <2>3, <2>5, <3>1 DEF Globbing
  <2> QED
    BY <2>2, <2>4, <2>6 DEF Searching
<1> QED
  BY <1>6, <1>7

LEMMA GlobStops == ASSUME Searching, ask.tool = "Glob", GlobEnds PROVE Searching'
<1>1. PICK s \in ByAge(rowsFound) : AnswerRows(s, FALSE)
  BY DEF GlobEnds
<1>2. /\ searchEnd = "walking" /\ unvisited = {} /\ unvisited' \subseteq 1..5
      /\ FALSE \in BOOLEAN
  BY DEF GlobEnds
<1>3. /\ rowsFound \in Seq(TreeRows) /\ IsInjective(rowsFound)
      /\ ToSet(rowsFound) = Meant(1..5 \ unvisited)
  BY <1>2 DEF Searching, SearchTypes, Globbing
<1>4. 1..5 \ unvisited = 1..5
  BY <1>2
<1>5. ToSet(rowsFound) = Meant(1..5)
  BY <1>3, <1>4
<1> QED
  BY <1>1, <1>2, <1>3, <1>5, GlobAnswers

LEMMA SearchingStep == Searching /\ [FindNext]_findVars => Searching'
<1> SUFFICES ASSUME Searching, [FindNext]_findVars PROVE Searching'
  OBVIOUS
<1>1. CASE UNCHANGED findVars
  <2>1. UNCHANGED <<fileLines, ask, searcher, unvisited, rowsFound, cutShort, searchEnd>>
    BY <1>1 DEF findVars
  <2>2. SearchTypes'
    BY <2>1 DEF Searching, SearchTypes
  <2>3. Scope' = Scope /\ OwedNow' = OwedNow /\ OwedSoFar' = OwedSoFar
    BY <2>1 DEF Scope, OwedNow, OwedSoFar, Silent, Owed, Hits
  <2>4. Meant(1..5 \ unvisited)' = Meant(1..5 \ unvisited)
    BY <2>1 DEF Meant
  <2>5. GrepTellsAll' <=> GrepTellsAll
    BY <2>1, OwedStays, GrepTellsIs DEF GrepTellsAll, OwedNow, Scope, Silent
  <2>6. GlobTellsAll' <=> GlobTellsAll
    BY <2>1 DEF GlobTellsAll
  <2>7. ask.tool = "Grep" => Grepping'
    BY <2>1, <2>3, <2>5 DEF Searching, Grepping
  <2>8. ask.tool = "Glob" => Globbing'
    BY <2>1, <2>4, <2>6 DEF Searching, Globbing
  <2> QED
    BY <2>1, <2>2, <2>7, <2>8 DEF Searching
<1>2. CASE ask.tool = "Grep" /\ FindNext
  <2>1. ~GlobVisit
    BY <1>2 DEF GlobVisit, Visiting
  <2>2. ~GlobEnds
    BY <1>2 DEF GlobEnds
  <2> QED
    BY <1>2, <2>1, <2>2, GrepStarts, GrepPrints, GrepVisits, GrepStops, SearchCancelled DEF FindNext
<1>3. CASE ask.tool = "Glob" /\ FindNext
  <2>1. searcher = "go"
    BY <1>3 DEF Searching, Globbing
  <2>2. ~RgStartFails /\ ~RgEnds /\ ~GrepVisit /\ ~GrepEnds /\ \A i \in Files : ~RgPrints(i)
    BY <1>3, <2>1 DEF RgStartFails, RgEnds, RgPrints, GrepVisit, GrepEnds, Visiting
  <2> QED
    BY <1>3, <2>2, GlobVisits, GlobStops, SearchCancelled DEF FindNext
<1>4. ask.tool \in {"Grep", "Glob"}
  BY DEF Searching, SearchTypes
<1> QED
  BY <1>1, <1>2, <1>3, <1>4

(* What GrepTellsAll, GlobTellsAll and FindTypeOK say of a search. *)
LEMMA SearchingTells == Searching => GrepTellsAll /\ GlobTellsAll /\ FindTypeOK
<1> SUFFICES ASSUME Searching PROVE GrepTellsAll /\ GlobTellsAll /\ FindTypeOK
  OBVIOUS
<1>1. ask.tool \in {"Grep", "Glob"} /\ SearchTypes
  BY DEF Searching, SearchTypes
<1>2. GrepTellsAll
  <2>1. CASE ask.tool = "Grep"
    BY <2>1 DEF Searching, Grepping
  <2>2. CASE ask.tool # "Grep"
    BY <2>2 DEF GrepTellsAll
  <2> QED
    BY <2>1, <2>2
<1>3. GlobTellsAll
  <2>1. CASE ask.tool = "Glob"
    BY <2>1 DEF Searching, Globbing
  <2>2. CASE ask.tool # "Glob"
    BY <2>2 DEF GlobTellsAll
  <2> QED
    BY <2>1, <2>2
<1>4. FindTypeOK
  <2>1. \A k \in DOMAIN rowsFound : rowsFound[k][1] \in 1..5
    BY <1>1 DEF SearchTypes, TreeRows
  <2> QED
    BY <1>1, <2>1, TreeIs DEF SearchTypes, FindTypeOK
<1> QED
  BY <1>2, <1>3, <1>4

-------------------------------------------------------------------------------

(* What came of a thing is told as it was: how a command ended, what an    *)
(* inspection saw and what its client is sent, what a search found         *)
(* (shell/exec.go, safeagent.go, tools.go, video_inspect.go, grep.go,      *)
(* glob.go).  For any globs, limits and contexts of a search, any number   *)
(* of frames, events, sessions and requests.                               *)
THEOREM OutcomesTrueAlways == Spec => []OutcomesTrue
<1> DEFINE Kept == /\ focus = "shell" => Told
                   /\ focus = "inspection" => Inspected
                   /\ focus = "find" => Searching
                   /\ focus = "videoApi" => Delivered /\ Answered
                   /\ focus = "inspectApi" => Forwards
<1>1. Init => Kept
  BY ToldInit, InspectedInit, SearchingInit, DeliveredInit, AnsweredInit, ForwardsInit DEF Init
<1>2. Kept /\ [Next \/ (Stopped /\ UNCHANGED vars)]_vars => Kept'
  <2> SUFFICES ASSUME Kept, [Next \/ (Stopped /\ UNCHANGED vars)]_vars PROVE Kept'
    OBVIOUS
  <2>1. /\ focus' = focus
        /\ focus = "shell" => [ShellNext]_shellVars
        /\ focus = "inspection" => [InspectionNext]_inspectionVars
        /\ focus = "find" => [FindNext]_findVars
        /\ focus = "videoApi" => [VideoApiNext]_apiVars
        /\ focus = "inspectApi" => [InspectApiNext]_inspectVars
    BY DEF Next, Others, vars
  <2>2. focus = "shell" => Told'
    BY <2>1, ToldStep
  <2>3. focus = "inspection" => Inspected'
    BY <2>1, InspectedStep
  <2>4. focus = "find" => Searching'
    BY <2>1, SearchingStep
  <2>5. focus = "videoApi" => Delivered' /\ Answered'
    BY <2>1, DeliveredStep, AnsweredStep
  <2>6. focus = "inspectApi" => Forwards'
    BY <2>1, ForwardsStep
  <2> QED
    BY <2>1, <2>2, <2>3, <2>4, <2>5, <2>6
<1>3. Kept => OutcomesTrue
  <2>1. Told => OutcomeNamesTheCause
    BY DEF Told
  <2>2. Inspected => SafeWasSeen
    BY DEF Inspected
  <2>3. Delivered => NoSessionLeft
    BY DEF Delivered, TableIsOpen, NoSessionLeft
  <2> QED
    BY <2>1, <2>2, <2>3, SearchingTells, DeliveredOnce, AnsweredAccepts, ForwardsAll DEF OutcomesTrue
<1> HIDE DEF Kept
<1> QED
  BY <1>1, <1>2, <1>3, PTL DEF Spec

-------------------------------------------------------------------------------
(* The types of the services' state.  Most follow from what the proofs     *)
(* above keep; the others have an invariant here.                          *)
LEMMA CompactionTypes == Remembered => CompactionTypeOK
<1> SUFFICES ASSUME Remembered PROVE CompactionTypeOK
  OBVIOUS
<1>1. Len(history) \in Nat /\ Len(kept) \in Nat
  BY DEF Remembered, InOrder
<1>2. ASSUME NEW i \in 1..Len(kept)
      PROVE  /\ kept[i].n \in 0..Len(history)
             /\ kept[i].n > 0 => kept[i].kind = history[kept[i].n].kind
                                 /\ kept[i].size <= history[kept[i].n].size
  <2>1. Recalls(kept[i], history)
    BY DEF Remembered, InOrder
  <2> QED
    BY <1>1, <2>1 DEF Recalls
<1> QED
  BY <1>2 DEF Remembered, CompactionTypeOK

LEMMA RegistryTyped == Registered => RegistryTypeOK
  BY DEF Registered, RegistryTypes, ServesRightly, RegistryTypeOK

LEMMA PoolTyped == Pooled => PoolTypeOK
  BY DEF Pooled, PoolTypes, PoolTypeOK

LEMMA HooksTyped == Hooked /\ Based => ToolHooksTypeOK
<1> SUFFICES ASSUME Hooked, Based PROVE ToolHooksTypeOK
  OBVIOUS
<1>1. hooks.len <= Len(hooks.array) /\ Len(hookRun.said) <= Len(hookRun.copy)
  BY DEF Hooked, HookTypes
<1>2. \A r \in Requests : schemaCall[r].step \in {"new", "computed", "answered"}
  BY DEF Based
<1>3. schemaCache \cup answered \subseteq SUBSET Features
  BY DEF Based
<1> QED
  BY <1>1, <1>2, <1>3 DEF ToolHooksTypeOK

LEMMA FilesTyped == Gate => FilesTypeOK
<1> SUFFICES ASSUME Gate PROVE FilesTypeOK
  OBVIOUS
<1>1. disk.version \in 0..Newest
  BY DEF Gate, FilesTypes, Newest
<1>2. call.step \in {"idle", "record", "match", "write"}
  BY DEF Gate, FilesTypes, FileCalls
<1> QED
  BY <1>1, <1>2 DEF Gate, FilesTypes, FilesTypeOK

(* SessionTools *)
LEMMA TodosInit == SessionToolsInit => ValidList(todos)
<1> SUFFICES ASSUME SessionToolsInit PROVE ValidList(todos)
  OBVIOUS
<1>1. DOMAIN todos = {}
  BY DEF SessionToolsInit
<1>2. {i \in DOMAIN todos : todos[i].status = "in_progress"} = {}
  BY <1>1
<1>3. Cardinality({i \in DOMAIN todos : todos[i].status = "in_progress"}) <= 1
  BY <1>2, FS_EmptySet
<1> QED
  BY <1>1, <1>3 DEF ValidList

LEMMA TodosStep == ValidList(todos) /\ [SessionToolsNext]_sessionToolVars => ValidList(todos')
<1> SUFFICES ASSUME ValidList(todos), [SessionToolsNext]_sessionToolVars PROVE ValidList(todos')
  OBVIOUS
<1>1. CASE TodoWrite
  BY <1>1 DEF TodoWrite
<1>2. CASE UNCHANGED todos
  BY <1>2
<1>3. TodoWrite \/ UNCHANGED todos
  BY DEF SessionToolsNext, sessionToolVars, LookAtMode, EnterPlanMode, AskUser, UserAnswers, ExitPlanMode, Brief
<1> QED
  BY <1>1, <1>2, <1>3

LEMMA SessionToolsTyped == Moded /\ ValidList(todos) => SessionToolsTypeOK
  BY DEF Moded, ModeTypes, Modes, SessionToolsTypeOK

(* BrowserCookies: the proxies take turns. *)
LEMMA TurnsInit == CookiesInit => proxyTurn \in 0..(ProxyCount - 1)
  BY CookiesAssumption DEF CookiesInit

LEMMA TurnsStep ==
    proxyTurn \in 0..(ProxyCount - 1) /\ [CookiesNext]_cookieVars => proxyTurn' \in 0..(ProxyCount - 1)
<1> SUFFICES ASSUME proxyTurn \in 0..(ProxyCount - 1), [CookiesNext]_cookieVars
             PROVE  proxyTurn' \in 0..(ProxyCount - 1)
  OBVIOUS
<1>1. proxyTurn' \in {proxyTurn, (proxyTurn + 1) % ProxyCount}
  BY DEF CookiesNext, cookieVars, ReadPageCookies, TakeJar, FillJar, ReadJar, GivePage, HTTPClose, SendRequest,
         GetResponse, PageCookieChanges
<1>2. (proxyTurn + 1) % ProxyCount \in 0..(ProxyCount - 1)
  BY CookiesAssumption
<1> QED
  BY <1>1, <1>2

LEMMA CookiesTyped == Jarred /\ proxyTurn \in 0..(ProxyCount - 1) => CookiesTypeOK
<1> SUFFICES ASSUME Jarred, proxyTurn \in 0..(ProxyCount - 1) PROVE CookiesTypeOK
  OBVIOUS
<1>1. \A j \in DOMAIN jars : jars[j] \in JarCookies
  BY DEF Jarred, CookieTypes
<1>2. httpJar \in DOMAIN jars
  BY DEF Jarred, CookieTypes
<1>3. {expected, firstCookie} \subseteq JarCookies \union {"unsure"}
  BY DEF Jarred, CookieTypes
<1> QED
  BY <1>1, <1>2, <1>3 DEF CookiesTypeOK, JarCookies

(* WebTools: the web has so many versions, and an answer names one. *)
Versions == page <= MaxVersionsOfPage /\ told \in Answers

LEMMA VersionsInit == FetchInit => Versions
  BY WebAssumption DEF FetchInit, Versions, NotTold, Answers

LEMMA VersionsStep == Fetched /\ Versions /\ [FetchNext]_fetchVars => Versions'
<1> SUFFICES ASSUME Fetched, Versions, [FetchNext]_fetchVars PROVE Versions'
  OBVIOUS
<1> USE DEF Versions
<1>0. page \in 1..MaxVersionsOfPage
  BY WebAssumption DEF Fetched, FetchTypes
<1>1. ASSUME NEW v \in 1..page, NEW by \in {"cache", "web"} PROVE [from |-> by, version |-> v] \in Answers
  BY <1>0, WebAssumption DEF Answers
<1>2. \A by \in {"nothing", "refused", "redirect", "error"} : [from |-> by] \in Answers
  BY DEF Answers
<1>3. ASSUME NEW c \in Fetchers, NEW url \in Urls, LookUp(c, url) PROVE Versions'
  <2>1. CASE Cached(url)
    <3>1. cache[url].version \in 1..page
      BY <2>1 DEF Cached, Fetched, FetchTypes
    <3>2. told' = [from |-> "cache", version |-> cache[url].version] /\ page' = page
      BY <1>3, <2>1 DEF LookUp
    <3> QED
      BY <1>1, <3>1, <3>2 DEF Answers
  <2>2. CASE ~Cached(url)
    BY <1>3, <2>2 DEF LookUp, Answers
  <2> QED
    BY <2>1, <2>2
<1>4. ASSUME NEW c \in Fetchers, ReturnPage(c) PROVE Versions'
  <2>1. fetch[c].version \in 1..page
    BY <1>4 DEF ReturnPage, Fetched, FetchTypes
  <2>2. told' = [from |-> "web", version |-> fetch[c].version] /\ page' = page
    BY <1>4 DEF ReturnPage, Ends
  <2> QED
    BY <1>1, <2>1, <2>2 DEF Answers
<1>5. ASSUME NEW c \in Fetchers, Invalid(c) \/ NotPermitted(c) \/ Redirected(c) \/ FetchFails(c) PROVE Versions'
  <2>1. page' = page /\ told' \in {[from |-> "refused"], [from |-> "redirect"], [from |-> "error"]}
    BY <1>5 DEF Invalid, NotPermitted, Redirected, FetchFails, Ends
  <2> QED
    BY <1>2, <2>1 DEF Answers
<1>6. CASE Tick
  BY <1>2, <1>6 DEF Tick, NotTold, Answers
<1>7. CASE Publish
  <2>1. page' = page + 1 /\ page < MaxVersionsOfPage /\ told' = told
    BY <1>7 DEF Publish
  <2>2. page' <= MaxVersionsOfPage
    BY <1>0, <2>1, WebAssumption
  <2> QED
    BY <2>1, <2>2 DEF Answers
<1>8. ASSUME page' = page, told' = told PROVE Versions'
  BY <1>8 DEF Answers
<1>9. ASSUME NEW c \in Fetchers, Follow(c) \/ Read(c) \/ Store(c) PROVE page' = page /\ told' = told
  BY <1>9 DEF Follow, Read, Store
<1>10. ClearCache \/ UNCHANGED fetchVars => page' = page /\ told' = told
  BY DEF ClearCache, fetchVars
<1> QED
  BY <1>3, <1>4, <1>5, <1>6, <1>7, <1>8, <1>9, <1>10 DEF FetchNext

LEMMA WebTyped == Fetched /\ Versions /\ Searched => WebTypeOK
<1> SUFFICES ASSUME Fetched, Versions, Searched PROVE WebTypeOK
  OBVIOUS
<1>1. page \in 1..MaxVersionsOfPage
  BY WebAssumption DEF Fetched, FetchTypes, Versions
<1>2. outdated \in [1..page - 1 -> 0..TTL + 1]
  <2>1. outdated \in Seq(Ticks) /\ Len(outdated) = page - 1
    BY DEF Fetched, FetchTypes
  <2>2. outdated \in [1..Len(outdated) -> Ticks]
    BY <2>1
  <2>3. Ticks = 0..TTL + 1
    BY DEF Ticks
  <2> QED
    BY <2>1, <2>2, <2>3
<1>3. /\ DOMAIN cache \subseteq Urls
      /\ \A u \in DOMAIN cache : cache[u] \in [version : 1..page, age : 0..TTL + 1]
  BY DEF Fetched, FetchTypes, Ticks
<1>4. \A c \in Fetchers : fetch[c].at \in {"idle", "request", "read", "stored"}
  BY DEF Fetched, FetchTypes, FetchCalls
<1>5. told \in Answers /\ search.result \in {"none", "hits", "nothing", "error"}
  BY DEF Versions, Searched
<1> QED
  BY <1>1, <1>2, <1>3, <1>4, <1>5 DEF WebTypeOK

(* InspectApi: events and channels keep within their bounds. *)
Roomy == \A id \in VideoIds : eventsMade[id] <= MaxEvents /\ Len(channel[id]) <= ChannelSize

LEMMA RoomyInit == ApiInit => Roomy
  BY ApiAssumption DEF ApiInit, Roomy

LEMMA RoomyStep == Delivered /\ Roomy /\ [VideoApiNext]_apiVars => Roomy'
<1> SUFFICES ASSUME Delivered, Roomy, [VideoApiNext]_apiVars, NEW id \in VideoIds
             PROVE  eventsMade'[id] <= MaxEvents /\ Len(channel'[id]) <= ChannelSize
  BY DEF Roomy
<1>1. /\ eventsMade \in [VideoIds -> Nat] /\ channel \in [VideoIds -> Seq(Nat)]
      /\ eventsMade[id] <= MaxEvents /\ Len(channel[id]) <= ChannelSize
  BY DEF Delivered, ApiTypes, Roomy
<1>2. ASSUME NEW i \in VideoIds, Emit(i)
      PROVE  eventsMade'[id] <= MaxEvents /\ Len(channel'[id]) <= ChannelSize
  <2>1. eventsMade'[i] = eventsMade[i] + 1 /\ eventsMade[i] < MaxEvents
    BY <1>1, <1>2 DEF Emit
  <2>2. eventsMade'[id] = eventsMade[id] \/ id = i
    BY <1>1, <1>2 DEF Emit
  <2>3. eventsMade'[id] <= MaxEvents
    BY <1>1, <2>1, <2>2, ApiAssumption
  <2>4. channel'[id] = channel[id] \/ (channel'[id] = Append(channel[id], eventsMade'[i]) /\ Len(channel[id]) < ChannelSize)
    BY <1>1, <1>2 DEF Emit
  <2>5. eventsMade'[i] \in Nat
    BY <1>1, <2>1
  <2>6. Len(channel'[id]) <= ChannelSize
    BY <1>1, <2>4, <2>5, ApiAssumption
  <2> QED
    BY <2>3, <2>6
<1>3. ASSUME NEW r \in Readers, TakeEvent(r)
      PROVE  eventsMade'[id] <= MaxEvents /\ Len(channel'[id]) <= ChannelSize
  <2>1. eventsMade' = eventsMade
    BY <1>3 DEF TakeEvent, Reads
  <2>2. channel'[id] = channel[id] \/ (channel'[id] = Tail(channel[id]) /\ channel[id] # <<>>)
    BY <1>1, <1>3 DEF TakeEvent
  <2>3. Len(channel'[id]) <= ChannelSize
    BY <1>1, <2>2, ApiAssumption
  <2> QED
    BY <1>1, <2>1, <2>3
<1>4. ASSUME NEW i \in VideoIds, Create(i) \/ RemoveVideo(i) \/ CloseEvents(i)
      PROVE  UNCHANGED <<eventsMade, channel>>
  BY <1>4 DEF Create, RemoveVideo, CloseEvents, eventVars
<1>5. ASSUME NEW r \in Readers, NEW i \in VideoIds, FollowEvents(r, i) \/ EventsOver(r) \/ ClientGoes(r) \/ Abandon(r)
      PROVE  UNCHANGED <<eventsMade, channel>>
  BY <1>5 DEF FollowEvents, EventsOver, ClientGoes, Abandon, Reads
<1>6. ASSUME NEW p \in Posters, NEW i \in VideoIds, PostFrame(p, i) \/ SaveFrame(p) \/ SubmitFrame(p) \/ RemoveFile(p)
      PROVE  UNCHANGED <<eventsMade, channel>>
  BY <1>6 DEF PostFrame, SaveFrame, SubmitFrame, RemoveFile, Posts, eventVars
<1>7. UNCHANGED apiVars => UNCHANGED <<eventsMade, channel>>
  BY DEF apiVars, eventVars
<1>8. UNCHANGED <<eventsMade, channel>> => eventsMade'[id] <= MaxEvents /\ Len(channel'[id]) <= ChannelSize
  BY <1>1
<1> QED
  BY <1>2, <1>3, <1>4, <1>5, <1>6, <1>7, <1>8 DEF VideoApiNext

LEMMA ApiTyped == Delivered /\ Roomy /\ Answered /\ Forwards => ApiTypeOK
<1> SUFFICES ASSUME Delivered, Roomy, Answered, Forwards PROVE ApiTypeOK
  OBVIOUS
<1>1. sessions \subseteq VideoIds
  BY DEF Answered
<1>2. inspect \in {"idle", "forwarding", "draining", "returned"}
  BY DEF Forwards
<1>3. ASSUME NEW id \in VideoIds
      PROVE  /\ video[id] \in {"none", "open", "stopped", "closed"}
             /\ eventsMade[id] \in 0..MaxEvents
             /\ Len(channel[id]) <= ChannelSize
  BY ApiAssumption DEF Delivered, ApiTypes, Roomy
<1> QED
  BY <1>1, <1>2, <1>3 DEF ApiTypeOK

(* SessionRepo: no storage counts more than there ever was. *)
CountsBelow ==
    /\ Len(parentOf) <= MaxRepoEntries
    /\ sidecar \in -1..Len(parentOf)
    /\ \A c \in RepoClients : store[c].count <= Len(parentOf)

LEMMA CountsInit == RepoInit => CountsBelow
  BY RepoAssumption DEF RepoInit, CountsBelow, Unopened

LEMMA CountsGiven ==
    ASSUME Stored, CountsBelow, NEW c \in RepoClients, NEW new, Gives(c, new),
           new.count <= Len(parentOf), UNCHANGED <<parentOf, sidecar>>
    PROVE  CountsBelow'
<1>1. ASSUME NEW d \in RepoClients PROVE store'[d].count <= Len(parentOf')
  <2>1. store \in [RepoClients -> Storages]
    BY DEF Stored, RepoTypes
  <2>2. store'[d] = IF d = c THEN new ELSE store[d]
    BY <2>1 DEF Gives
  <2> QED
    BY <2>2 DEF CountsBelow
<1> QED
  BY <1>1 DEF CountsBelow

LEMMA CountsStored ==
    ASSUME Stored, CountsBelow, NEW c \in RepoClients, NEW e, NEW saves, Stores(c, e, saves),
           Len(parentOf) < MaxRepoEntries, UNCHANGED sidecar
    PROVE  CountsBelow'
<1>1. parentOf \in Seq(Nat) /\ store \in [RepoClients -> Storages] /\ sidecar \in -1..Len(parentOf)
  BY DEF Stored, RepoTypes, CountsBelow
<1>2. store[c].last \in Nat /\ \A d \in RepoClients : store[d].count \in Nat /\ store[d].count <= Len(parentOf)
  BY <1>1 DEF Storages, CountsBelow
<1>3. parentOf' = Append(parentOf, store[c].last)
  BY DEF Stores
<1>4. Len(parentOf') = Len(parentOf) + 1 /\ Len(parentOf) \in Nat
  BY <1>1, <1>2, <1>3
<1>5. ASSUME NEW d \in RepoClients PROVE store'[d].count <= Len(parentOf) + 1
  <2>1. store'[d].count \in {store[d].count, store[d].count + 1}
    BY <1>1 DEF Stores, Storages
  <2> QED
    BY <1>2, <1>4, <2>1
<1>6. sidecar' \in -1..Len(parentOf') /\ Len(parentOf') <= MaxRepoEntries
  BY <1>1, <1>4, RepoAssumption
<1> QED
  BY <1>4, <1>5, <1>6 DEF CountsBelow

LEMMA CountsStep == Stored /\ CountsBelow /\ [RepoNext]_repoVars => CountsBelow'
<1> SUFFICES ASSUME Stored, CountsBelow, [RepoNext]_repoVars PROVE CountsBelow'
  OBVIOUS
<1>0. /\ parentOf \in Seq(Nat) /\ store \in [RepoClients -> Storages] /\ sidecar \in -1..Len(parentOf)
      /\ Len(parentOf) \in Nat
  BY DEF Stored, RepoTypes, CountsBelow
<1>1. ASSUME NEW c \in RepoClients, NEW has, Loaded(c, has), UNCHANGED <<parentOf, sidecar>> PROVE CountsBelow'
  <2> DEFINE new == NewStore("file", has, IF sidecar = -1 THEN 0 ELSE sidecar)
  <2>1. Gives(c, new)
    BY <1>1 DEF Loaded
  <2>2. new.count <= Len(parentOf)
    BY <1>0 DEF NewStore
  <2> HIDE DEF new
  <2> QED
    BY <1>1, <2>1, <2>2, CountsGiven
<1>2. ASSUME NEW c \in RepoClients, CreateSessionFile(c) \/ OpenSessionFile(c) PROVE CountsBelow'
  BY <1>1, <1>2 DEF CreateSessionFile, OpenSessionFile
<1>3. ASSUME NEW c \in RepoClients, Release(c) PROVE CountsBelow'
  <2>1. Gives(c, Unopened) /\ Unopened.count = 0 /\ UNCHANGED <<parentOf, sidecar>>
    BY <1>3 DEF Release, Unopened
  <2>2. Unopened.count <= Len(parentOf)
    BY <1>0, <2>1
  <2> QED
    BY <2>1, <2>2, CountsGiven
<1>4. ASSUME NEW c \in RepoClients, CreateInMemory(c) PROVE CountsBelow'
  <2> DEFINE new == NewStore("memory", <<>>, 0)
  <2>1. Gives(c, new) /\ new.count = 0 /\ UNCHANGED <<parentOf, sidecar>>
    BY <1>4 DEF CreateInMemory, NewStore
  <2> HIDE DEF new
  <2>2. new.count <= Len(parentOf)
    BY <1>0, <2>1
  <2> QED
    BY <2>1, <2>2, CountsGiven
<1>5. ASSUME NEW c \in RepoClients, NEW d \in RepoClients, ForkInMemory(c, d) PROVE CountsBelow'
  <2>1. PICK n \in DOMAIN store[c].mem :
            Gives(d, [NewStore("memory", SubSeq(store[c].mem, 1, n), 0) EXCEPT !.last = store[c].mem[n]])
    BY <1>5 DEF ForkInMemory
  <2> DEFINE new == [NewStore("memory", SubSeq(store[c].mem, 1, n), 0) EXCEPT !.last = store[c].mem[n]]
  <2>2. new.count = 0 /\ UNCHANGED <<parentOf, sidecar>>
    BY <1>5 DEF ForkInMemory, NewStore
  <2> HIDE DEF new
  <2>3. new.count <= Len(parentOf)
    BY <1>0, <2>2
  <2>4. Gives(d, new)
    BY <2>1 DEF new
  <2> QED
    BY <2>2, <2>3, <2>4, CountsGiven
<1>6. ASSUME NEW c \in RepoClients, AppendToFile(c) \/ AppendToMemory(c) PROVE CountsBelow'
  BY <1>6, CountsStored DEF AppendToFile, AppendToMemory
<1>7. ASSUME NEW c \in RepoClients, SaveSidecar(c) PROVE CountsBelow'
  <2>1. sidecar' = store[c].count /\ parentOf' = parentOf /\ store' = [store EXCEPT ![c].saving = FALSE]
    BY <1>7 DEF SaveSidecar
  <2>2. store[c].count \in Nat /\ store[c].count <= Len(parentOf)
    BY <1>0 DEF Storages, CountsBelow
  <2>3. \A d \in RepoClients : store'[d].count = store[d].count
    BY <1>0, <2>1 DEF Storages
  <2> QED
    BY <1>0, <2>1, <2>2, <2>3 DEF CountsBelow
<1>8. CASE DeleteSession
  BY <1>0, <1>8 DEF DeleteSession, CountsBelow
<1>9. CASE UNCHANGED repoVars
  BY <1>9 DEF repoVars, CountsBelow
<1> QED
  BY <1>2, <1>3, <1>4, <1>5, <1>6, <1>7, <1>8, <1>9 DEF RepoNext

LEMMA RepoTyped == Stored /\ CountsBelow => RepoTypeOK
<1> SUFFICES ASSUME Stored, CountsBelow PROVE RepoTypeOK
  OBVIOUS
<1>1. sidecar \in -1..MaxRepoEntries
  BY RepoAssumption DEF Stored, RepoTypes, CountsBelow
<1>2. \A c \in RepoClients : store[c].kind \in {"none", "file", "memory"}
  BY DEF Stored, RepoTypes, Storages
<1> QED
  BY <1>1, <1>2 DEF RepoTypeOK

(* SessionLog: the count and the metadata run behind the messages there    *)
(* are, those of a file that parses being at least those in memory.        *)
Tally(s, said) == Cardinality(Elements(s) \cap said)

Tallied ==
    /\ lines \in Seq(0..MaxEntries) /\ parentID \in [Entries -> 0..MaxEntries]
    /\ messages \subseteq 1..created
    /\ count \in Nat /\ count <= Tally(mem, messages)
    /\ saved \in {NoMeta} \cup 0..MaxEntries
    /\ Garbage \notin Elements(lines) =>
          Elements(mem) \subseteq Elements(lines) /\ saved <= Tally(lines, messages)

LEMMA TallyType ==
    ASSUME NEW s, NEW said, said \subseteq 1..MaxEntries
    PROVE  Tally(s, said) \in 0..MaxEntries /\ IsFiniteSet(Elements(s) \cap said)
<1>1. IsFiniteSet(1..MaxEntries) /\ Cardinality(1..MaxEntries) = MaxEntries
  BY FS_Interval, SessionAssumption
<1>2. Elements(s) \cap said \in SUBSET (1..MaxEntries)
  OBVIOUS
<1>3. IsFiniteSet(Elements(s) \cap said) /\ Tally(s, said) <= MaxEntries
  BY <1>1, <1>2, FS_Subset DEF Tally
<1>4. Tally(s, said) \in Nat
  BY <1>3, FS_CardinalityType DEF Tally
<1> QED
  BY <1>3, <1>4, SessionAssumption

LEMMA TallyGrows ==
    ASSUME NEW s, NEW t, Elements(s) \subseteq Elements(t),
           NEW said, NEW more, said \subseteq more, more \subseteq 1..MaxEntries
    PROVE  Tally(s, said) <= Tally(t, more)
<1>1. IsFiniteSet(Elements(t) \cap more)
  BY TallyType
<1>2. Elements(s) \cap said \in SUBSET (Elements(t) \cap more)
  OBVIOUS
<1> QED
  BY <1>1, <1>2, FS_Subset DEF Tally

(* Entries that rise are counted by their places as by themselves. *)
LEMMA TallyOfPlaces ==
    ASSUME NEW n \in Nat, NEW s, Rises(s, n), messages \subseteq 1..MaxEntries
    PROVE  Cardinality(Messages(s)) = Tally(s, messages)
<1> DEFINE said == Elements(s) \cap messages
<1> DEFINE f == [i \in Messages(s) |-> s[i]]
<1>1. s \in Seq(1..n) /\ Len(s) \in Nat /\ DOMAIN s = 1..Len(s) /\ \A i, j \in DOMAIN s : i < j => s[i] < s[j]
  BY DEF Rises
<1>2. Messages(s) \subseteq 1..Len(s) /\ \A i \in 1..Len(s) : i \in Messages(s) <=> s[i] \in messages
  BY DEF Messages
<1>3. f \in [Messages(s) -> said]
  BY <1>2 DEF Elements
<1>4. \A i, j \in Messages(s) : f[i] = f[j] => i = j
  <2>1. \A i, j \in Messages(s) : i \in Nat /\ j \in Nat /\ s[i] \in Nat /\ s[j] \in Nat /\ i \in DOMAIN s /\ j \in DOMAIN s
    BY <1>1, <1>2
  <2> QED
    BY <1>1, <2>1
<1>5. \A x \in said : \E i \in Messages(s) : f[i] = x
  BY <1>2 DEF Elements
<1>6. f \in Injection(Messages(s), said) /\ f \in Surjection(Messages(s), said)
  BY ONLY <1>3, <1>4, <1>5 DEF Injection, Surjection, IsInjective
<1>7. IsFiniteSet(said)
  BY TallyType
<1> HIDE DEF f
<1>8. Cardinality(Messages(s)) = Cardinality(said)
  BY ONLY <1>6, <1>7, FS_Injection
<1> QED
  BY <1>8 DEF Tally

LEMMA TalliedInit == SessionInit => Tallied
<1> SUFFICES ASSUME SessionInit PROVE Tallied
  OBVIOUS
<1>1. Elements(mem) = {} /\ Elements(lines) = {}
  BY DEF SessionInit, Elements
<1>2. Tally(mem, messages) \in Nat /\ Tally(lines, messages) \in Nat
  <2>1. messages \subseteq 1..MaxEntries
    BY DEF SessionInit
  <2>2. Tally(mem, messages) \in 0..MaxEntries /\ Tally(lines, messages) \in 0..MaxEntries
    BY <2>1, TallyType
  <2> QED
    BY <2>2, SessionAssumption
<1>3. lines \in Seq(0..MaxEntries) /\ parentID \in [Entries -> 0..MaxEntries]
  BY SessionAssumption DEF SessionInit, Root
<1>4. count = 0 /\ saved = NoMeta /\ messages = {}
  BY DEF SessionInit
<1>5. count \in Nat /\ count <= Tally(mem, messages) /\ saved <= Tally(lines, messages)
  BY <1>2, <1>4 DEF NoMeta
<1> QED
  BY <1>1, <1>3, <1>4, <1>5 DEF Tallied

LEMMA SpoiltInSeq ==
    ASSUME NEW S, NEW s \in Seq(S), NEW x \in S
    PROVE  [s EXCEPT ![Len(s)] = x] \in Seq(S)
<1>1. Len(s) \in Nat /\ s \in [1..Len(s) -> S]
  OBVIOUS
<1>2. [s EXCEPT ![Len(s)] = x] \in [1..Len(s) -> S]
  BY <1>1
<1> QED
  BY <1>1, <1>2

LEMMA TalliedNew ==
    ASSUME Logged, Tallied, NEW m, NewEntry(m), UNCHANGED <<mem, count, saved>>,
           lines' = lines \/ lines' \in {Added(created + 1), Added(Garbage)}
    PROVE  Tallied'
<1>1. /\ created' = created + 1 /\ created + 1 \in 0..MaxEntries /\ created \in Nat
      /\ parentID' = [parentID EXCEPT ![created + 1] = lastID]
      /\ messages \subseteq messages' /\ messages' \subseteq messages \cup {created + 1}
  BY NewEntryFits DEF NewEntry
<1>2. messages' \subseteq 1..created' /\ messages' \subseteq 1..MaxEntries
  <2>1. messages \subseteq 1..created
    BY DEF Tallied
  <2> QED
    BY <1>1, <2>1, SessionAssumption
<1>3. lastID \in 0..MaxEntries
  <2>1. lastID = 0 \/ \E i \in DOMAIN mem : mem[i] = lastID
    BY DEF Logged, Memory, Root, Held
  <2>2. mem \in Seq(1..created) /\ \A i \in DOMAIN mem : mem[i] \in 1..created
    BY DEF Logged, LogTypes, Rises
  <2>3. lastID = 0 \/ lastID \in 1..created
    BY <2>1, <2>2
  <2> QED
    BY <1>1, <2>3, SessionAssumption
<1>4. parentID' \in [Entries -> 0..MaxEntries]
  BY <1>1, <1>3 DEF Tallied
<1>5. lines \in Seq(0..MaxEntries) /\ lines \in Seq(Nat) /\ ended \in BOOLEAN /\ (~ended => lines # <<>>)
  BY DEF Tallied, Logged, LogTypes
<1>6. /\ lines' \in Seq(0..MaxEntries)
      /\ Garbage \notin Elements(lines') => Garbage \notin Elements(lines) /\ Elements(lines) \subseteq Elements(lines')
  <2>1. CASE lines' = lines
    BY <1>5, <2>1
  <2>2. CASE lines' \in {Added(created + 1), Added(Garbage)}
    <3>1. PICK x \in {created + 1, Garbage} : lines' = Added(x)
      BY <2>2
    <3>2. x \in 0..MaxEntries /\ x \in Nat /\ Garbage \in 0..MaxEntries
      BY <1>1, <3>1, SessionAssumption DEF Garbage
    <3>3. Added(x) \in Seq(0..MaxEntries)
      <4>1. CASE ended
        BY <1>5, <3>2, <4>1 DEF Added
      <4>2. CASE ~ended
        <5>1. Added(x) = [lines EXCEPT ![Len(lines)] = Garbage]
          BY <4>2 DEF Added
        <5> DEFINE T == 0..MaxEntries
        <5>2. lines \in Seq(T) /\ Garbage \in T
          BY <1>5, <3>2
        <5> HIDE DEF T
        <5>3. [lines EXCEPT ![Len(lines)] = Garbage] \in Seq(T)
          BY ONLY <5>2, SpoiltInSeq
        <5> QED
          BY <5>1, <5>3 DEF T
      <4> QED
        BY <4>1, <4>2
    <3>4. ASSUME Garbage \notin Elements(lines')
          PROVE  lines' = Append(lines, x) /\ Garbage \notin Elements(lines)
      BY <1>5, <3>1, <3>2, <3>4, AddedLine
    <3>5. ASSUME lines' = Append(lines, x) PROVE Elements(lines) \subseteq Elements(lines')
      <4>1. \A y : Held(y, lines) => Held(y, lines')
        BY <1>5, <3>2, <3>5, HeldInAppend
      <4>2. lines' \in Seq(Nat)
        BY <1>5, <3>2, <3>5
      <4> QED
        BY <1>5, <4>1, <4>2, ElementsAre
    <3> QED
      BY <3>1, <3>3, <3>4, <3>5
  <2> QED
    BY <2>1, <2>2
<1>7. /\ Tally(mem, messages) <= Tally(mem, messages')
      /\ Tally(mem, messages) \in Int /\ Tally(mem, messages') \in Int
      /\ Tally(lines, messages) \in Int /\ Tally(lines', messages') \in Int
  <2>1. messages \subseteq 1..MaxEntries
    BY <1>1, <1>2
  <2>2. Tally(mem, messages) <= Tally(mem, messages')
    BY <1>1, <1>2, <2>1, TallyGrows
  <2>3. \A s : Tally(s, messages) \in 0..MaxEntries /\ Tally(s, messages') \in 0..MaxEntries
    BY <1>2, <2>1, TallyType
  <2> QED
    BY <2>2, <2>3, SessionAssumption
<1>8. count' \in Nat /\ count' <= Tally(mem', messages')
  <2>1. count \in Nat /\ count <= Tally(mem, messages) /\ count' = count /\ mem' = mem
    BY DEF Tallied
  <2> QED
    BY <1>7, <2>1
<1>9. saved' \in {NoMeta} \cup 0..MaxEntries
  BY DEF Tallied
<1>10. ASSUME Garbage \notin Elements(lines')
       PROVE  Elements(mem') \subseteq Elements(lines') /\ saved' <= Tally(lines', messages')
  <2>1. /\ Elements(mem) \subseteq Elements(lines) /\ saved <= Tally(lines, messages)
        /\ Elements(lines) \subseteq Elements(lines')
    BY <1>6, <1>10 DEF Tallied
  <2>2. Tally(lines, messages) <= Tally(lines', messages')
    BY <1>1, <1>2, <2>1, TallyGrows
  <2>3. saved \in Int /\ saved' = saved /\ mem' = mem
    BY SessionAssumption DEF Tallied, NoMeta
  <2> QED
    BY <1>7, <2>1, <2>2, <2>3
<1>11. (Elements(mem))' = Elements(mem') /\ (Elements(lines))' = Elements(lines')
       /\ Tally(mem, messages)' = Tally(mem', messages') /\ Tally(lines, messages)' = Tally(lines', messages')
  BY DEF Elements, Tally
<1> QED
  BY <1>2, <1>4, <1>6, <1>8, <1>9, <1>10, <1>11 DEF Tallied

(* What is in memory is in the file, and is counted. *)
LEMMA TalliedRemember == ASSUME Logged, Tallied, Remember PROVE Tallied'
<1>1. /\ op # None /\ op \notin Elements(mem) /\ mem' = Append(mem, op)
      /\ count' = IF op \in messages THEN count + 1 ELSE count
      /\ UNCHANGED <<lines, saved, parentID, messages, created>>
  BY DEF Remember
<1>2. op = created /\ created \in 0..MaxEntries /\ mem \in Seq(1..created)
  BY <1>1 DEF Logged, Underway, LogTypes, Rises
<1>3. op \in Nat /\ mem \in Seq(Nat)
  BY <1>2, SessionAssumption
<1>4. Elements(mem') = Elements(mem) \cup {op}
  <2>1. Len(mem) \in Nat /\ Len(mem') = Len(mem) + 1 /\ mem'[Len(mem) + 1] = op
        /\ \A i \in 1..Len(mem) : mem'[i] = mem[i]
    BY <1>1, <1>3
  <2> QED
    BY <2>1 DEF Elements
<1>5. messages \subseteq 1..MaxEntries /\ count \in Nat /\ count <= Tally(mem, messages)
  BY <1>2, SessionAssumption DEF Tallied
<1>6. count' \in Nat /\ count' <= Tally(mem', messages)
  <2>1. Tally(mem, messages) \in 0..MaxEntries /\ IsFiniteSet(Elements(mem) \cap messages)
    BY <1>5, TallyType
  <2>2. CASE op \in messages
    <3>1. Elements(mem') \cap messages = (Elements(mem) \cap messages) \cup {op} /\ op \notin Elements(mem) \cap messages
      BY <1>1, <1>4, <2>2
    <3>2. Tally(mem', messages) = Tally(mem, messages) + 1
      BY <2>1, <3>1, FS_AddElement DEF Tally
    <3> QED
      BY <1>1, <1>5, <2>1, <2>2, <3>2, SessionAssumption
  <2>3. CASE op \notin messages
    <3>1. Elements(mem') \cap messages = Elements(mem) \cap messages
      BY <1>4, <2>3
    <3> QED
      BY <1>1, <1>5, <2>3, <3>1 DEF Tally
  <2> QED
    BY <2>2, <2>3
<1>7. ASSUME Garbage \notin Elements(lines)
      PROVE  Elements(mem') \subseteq Elements(lines) /\ saved <= Tally(lines, messages)
  <2>1. Held(op, lines) /\ lines \in Seq(Nat)
    BY <1>1, <1>7 DEF Logged, Readable, LogTypes
  <2>2. op \in Elements(lines)
    BY <2>1, ElementsAre
  <2> QED
    BY <1>4, <1>7, <2>2 DEF Tallied
<1>8. (Elements(mem))' = Elements(mem') /\ (Elements(lines))' = Elements(lines)
      /\ Tally(mem, messages)' = Tally(mem', messages) /\ Tally(lines, messages)' = Tally(lines, messages)
  BY <1>1 DEF Elements, Tally
<1> QED
  BY <1>1, <1>6, <1>7, <1>8 DEF Tallied

LEMMA TalliedSaves == ASSUME Logged, Tallied, SaveMeta PROVE Tallied'
<1>1. saved' \in {count, saved, NoMeta} /\ UNCHANGED <<lines, mem, count, parentID, messages, created>>
  BY DEF SaveMeta
<1>2. messages \subseteq 1..MaxEntries
  BY SessionAssumption DEF Logged, LogTypes, Tallied
<1>3. Tally(mem, messages) \in 0..MaxEntries /\ Tally(lines, messages) \in 0..MaxEntries
  BY <1>2, TallyType
<1>4. count \in 0..MaxEntries /\ saved \in {NoMeta} \cup 0..MaxEntries /\ count <= Tally(mem, messages)
  BY <1>3, SessionAssumption DEF Tallied
<1>5. saved' \in {NoMeta} \cup 0..MaxEntries
  BY <1>1, <1>4
<1>6. ASSUME Garbage \notin Elements(lines)
      PROVE  Elements(mem) \subseteq Elements(lines) /\ saved' <= Tally(lines, messages)
  <2>1. Elements(mem) \subseteq Elements(lines) /\ saved <= Tally(lines, messages)
    BY <1>6 DEF Tallied
  <2>2. Tally(mem, messages) <= Tally(lines, messages)
    BY <1>2, <2>1, TallyGrows
  <2> QED
    BY <1>1, <1>3, <1>4, <2>1, <2>2, SessionAssumption DEF NoMeta
<1>7. (Elements(mem))' = Elements(mem) /\ (Elements(lines))' = Elements(lines)
      /\ Tally(mem, messages)' = Tally(mem, messages) /\ Tally(lines, messages)' = Tally(lines, messages)
  BY <1>1 DEF Elements, Tally
<1> QED
  BY <1>1, <1>5, <1>6, <1>7 DEF Tallied

LEMMA TalliedCrash == ASSUME Logged, Tallied, Crash PROVE Tallied'
<1>1. mem' = <<>> /\ count' = 0 /\ UNCHANGED <<lines, saved, parentID, messages, created>>
  BY DEF Crash
<1>2. messages \subseteq 1..MaxEntries
  BY SessionAssumption DEF Logged, LogTypes, Tallied
<1>3. Tally(mem', messages) \in 0..MaxEntries
  BY <1>2, TallyType
<1>4. Elements(mem') = {}
  BY <1>1 DEF Elements
<1>5. count' \in Nat /\ count' <= Tally(mem', messages)
  BY <1>1, <1>3, SessionAssumption
<1>6. (Elements(mem))' = Elements(mem') /\ (Elements(lines))' = Elements(lines)
      /\ Tally(mem, messages)' = Tally(mem', messages) /\ Tally(lines, messages)' = Tally(lines, messages)
  BY <1>1 DEF Elements, Tally
<1> QED
  BY <1>1, <1>4, <1>5, <1>6 DEF Tallied

LEMMA TalliedOpen == ASSUME Logged, Tallied, Open PROVE Tallied'
<1>1. /\ Garbage \notin Elements(lines) /\ mem' = lines /\ count' = IF saved = NoMeta THEN 0 ELSE saved
      /\ UNCHANGED <<lines, saved, parentID, messages, created>>
  BY DEF Open, Opened
<1>2. messages \subseteq 1..MaxEntries /\ saved \in {NoMeta} \cup 0..MaxEntries
  BY SessionAssumption DEF Logged, LogTypes, Tallied
<1>3. Tally(lines, messages) \in 0..MaxEntries /\ saved <= Tally(lines, messages)
  BY <1>1, <1>2, TallyType DEF Tallied
<1>4. count' \in Nat /\ count' <= Tally(mem', messages)
  BY <1>1, <1>2, <1>3, SessionAssumption
<1>5. (Elements(mem))' = Elements(lines) /\ (Elements(lines))' = Elements(lines)
      /\ Tally(mem, messages)' = Tally(mem', messages) /\ Tally(lines, messages)' = Tally(lines, messages)
  BY <1>1 DEF Elements, Tally
<1> QED
  BY <1>1, <1>3, <1>4, <1>5 DEF Tallied

LEMMA TalliedFork == ASSUME Logged, Tallied, NEW e \in Entries \cup {None}, Fork(e) PROVE Tallied'
<1>1. /\ mem' = lines' /\ count' = Cardinality(Messages(lines')) /\ saved' \in {count', NoMeta}
      /\ UNCHANGED <<parentID, messages, created>>
  BY DEF Fork
<1>2. created \in 0..MaxEntries /\ messages \subseteq 1..MaxEntries /\ messages \subseteq 1..created
      /\ parentID \in [Entries -> 0..MaxEntries]
  BY SessionAssumption DEF Logged, LogTypes, Tallied
<1>3. Rises(lines', created)
  <2>1. Logged'
    BY LoggedFork
  <2> QED
    BY <1>1, <2>1 DEF Logged, LogTypes
<1>4. lines' \in Seq(0..MaxEntries)
  BY <1>2, <1>3, SessionAssumption DEF Rises
<1>5. count' = Tally(lines', messages)
  BY <1>1, <1>2, <1>3, TallyOfPlaces, SessionAssumption
<1>6. Tally(lines', messages) \in 0..MaxEntries
  BY <1>2, TallyType
<1>7. count' \in Nat /\ count' <= Tally(mem', messages) /\ saved' \in {NoMeta} \cup 0..MaxEntries
      /\ saved' <= Tally(lines', messages)
  BY <1>1, <1>5, <1>6, SessionAssumption DEF NoMeta
<1>8. (Elements(mem))' = Elements(lines') /\ (Elements(lines))' = Elements(lines')
      /\ Tally(mem, messages)' = Tally(mem', messages) /\ Tally(lines, messages)' = Tally(lines', messages)
  BY <1>1 DEF Elements, Tally
<1> QED
  BY <1>1, <1>2, <1>4, <1>7, <1>8 DEF Tallied

LEMMA TalliedStep == Logged /\ Tallied /\ [SessionNext]_sessionVars => Tallied'
<1> SUFFICES ASSUME Logged, Tallied, [SessionNext]_sessionVars PROVE Tallied'
  OBVIOUS
<1>1. ASSUME NEW m \in BOOLEAN, AppendLine(m) \/ AppendFails(m) PROVE Tallied'
  <2>1. /\ NewEntry(m) /\ UNCHANGED <<mem, count, saved>>
        /\ lines' = lines \/ lines' \in {Added(created + 1), Added(Garbage)}
    BY <1>1 DEF AppendLine, AppendFails
  <2> QED
    BY <2>1, TalliedNew
<1>2. ASSUME NEW e \in Entries \cup {None}, Fork(e) PROVE Tallied'
  BY <1>2, TalliedFork
<1>3. CASE OpenRefused \/ UNCHANGED sessionVars
  BY <1>3 DEF OpenRefused, sessionVars, Tallied, Tally, Elements
<1> QED
  BY <1>1, <1>2, <1>3, TalliedRemember, TalliedSaves, TalliedCrash, TalliedOpen DEF SessionNext

LEMMA SessionTyped == Logged /\ Tallied => SessionTypeOK
<1> SUFFICES ASSUME Logged, Tallied PROVE SessionTypeOK
  OBVIOUS
<1> USE SessionAssumption
<1>1. /\ storage \in {"open", "closed", "refused"} /\ ended \in BOOLEAN /\ created \in 0..MaxEntries
      /\ Rises(mem, created) /\ Rises(acked, created)
  BY DEF Logged, LogTypes
<1>2. lines \in Seq(Entries \cup {Garbage})
  <2>1. Entries \cup {Garbage} = 0..MaxEntries
    BY DEF Entries, Garbage
  <2> QED
    BY <2>1 DEF Tallied
<1>3. mem \in Seq(Entries) /\ acked \in Seq(Entries)
  BY <1>1 DEF Rises, Entries
<1>4. parentID \in [Entries -> Entries \cup {Root}]
  <2>1. Entries \cup {Root} = 0..MaxEntries
    BY DEF Entries, Root
  <2> QED
    BY <2>1 DEF Tallied
<1>5. messages \subseteq Entries
  BY <1>1 DEF Tallied, Entries
<1>6. lastID \in Entries \cup {Root}
  <2>1. lastID = Root \/ \E i \in DOMAIN mem : mem[i] = lastID
    BY DEF Logged, Memory, Held
  <2> QED
    BY <1>3, <2>1
<1>7. op \in Entries \cup {None}
  BY <1>1 DEF Logged, Underway, Entries, None
<1>8. \A i, j \in 1..Len(mem) : mem[i] = mem[j] => i = j
  <2>1. DOMAIN mem = 1..Len(mem) /\ Len(mem) \in Nat /\ (\A i \in 1..Len(mem) : mem[i] \in Nat)
        /\ \A i, j \in 1..Len(mem) : i < j => mem[i] < mem[j]
    BY <1>1 DEF Rises
  <2> QED
    BY <2>1
<1>9. count \in 0..Cardinality(Messages(mem))
  <2>1. messages \subseteq 1..MaxEntries
    BY <1>5 DEF Entries
  <2>2. Cardinality(Messages(mem)) = Tally(mem, messages)
    BY <1>1, <2>1, TallyOfPlaces
  <2>3. Tally(mem, messages) \in 0..MaxEntries
    BY <2>1, TallyType
  <2> QED
    BY <2>2, <2>3 DEF Tallied
<1> QED
  BY <1>1, <1>2, <1>3, <1>4, <1>5, <1>6, <1>7, <1>8, <1>9 DEF SessionTypeOK, Tallied

(* A step of the whole is a step of each service, or leaves it alone. *)
LEMMA EachMoves ==
    ASSUME [Next \/ (Stopped /\ UNCHANGED vars)]_vars
    PROVE  /\ [GraphNext]_graphVars /\ [JobsNext]_jobsVars /\ [SessionNext]_sessionVars
           /\ [CompactionNext]_compactionVars /\ [StreamNext]_streamVars /\ [RegistryNext]_registryVars
           /\ [OrchestrationNext]_orchestrationVars /\ [PoolNext]_poolVars /\ [HooksNext]_hooksVars
           /\ [SchemasNext]_schemaVars /\ [FilesNext]_fileVars /\ [FetchNext]_fetchVars
           /\ [SearchNext]_searchVars /\ [ShellNext]_shellVars /\ [InspectionNext]_inspectionVars
           /\ [ManagerNext]_managerVars /\ [TabsNext]_tabVars /\ [RoutesNext]_routeVars
           /\ [ListenNext]_listenVars /\ [PageNext]_pageVars /\ [CookiesNext]_cookieVars
           /\ [FindNext]_findVars /\ [VideoApiNext]_apiVars /\ [InspectApiNext]_inspectVars
           /\ [SessionToolsNext]_sessionToolVars /\ [RepoNext]_repoVars
<1>1. CASE Next
  BY <1>1 DEF Next, Others
<1>2. CASE UNCHANGED vars
  BY <1>2 DEF vars
<1> QED
  BY <1>1, <1>2

(* The services keep their types: every variable of every service does, in *)
(* any number of steps and for any constants the assumptions allow, the    *)
(* count of a session's messages and the sidecar of its file included.     *)
THEOREM TypesOKAlways == Spec => []TypesOK
<1> DEFINE Tooled == /\ GraphTypeOK /\ JobsInv /\ Orchestrated /\ Pooled /\ Hooked /\ Based
                     /\ Gate /\ Fetched /\ Versions /\ Searched /\ Told /\ Inspected
                     /\ Searching /\ Moded /\ ValidList(todos)
           Talked == /\ Logged /\ Tallied /\ Stored /\ CountsBelow /\ Remembered /\ Streaming
                     /\ Registered /\ Delivered /\ Roomy /\ Answered /\ Forwards
           Browsed == /\ Managed /\ Tabbed /\ Routed /\ Heeded /\ Headed /\ Jarred
                      /\ proxyTurn \in 0..(ProxyCount - 1)
<1>1. Init => Tooled /\ Talked /\ Browsed
  <2> SUFFICES ASSUME Init PROVE Tooled /\ Talked /\ Browsed
    OBVIOUS
  <2>1. /\ GraphInit /\ JobsInit /\ OrchestrationInit /\ PoolInit /\ HooksInit /\ SchemasInit /\ FilesInit
        /\ FetchInit /\ SearchInit /\ ShellInit /\ InspectionInit /\ SearchToolsInit /\ SessionToolsInit
    BY DEF Init
  <2>2. /\ SessionInit /\ RepoInit /\ CompactionInit /\ StreamInit /\ RegistryInit /\ ApiInit
    BY DEF Init
  <2>3. /\ ManagerInit /\ TabsInit /\ RoutesInit /\ ListenInit /\ PageInit /\ CookiesInit
    BY DEF Init
  <2>4. GraphTypeOK
    BY <2>1 DEF GraphInit, GraphTypeOK, TaskStatuses, Refs
  <2>5. Tooled
    BY <2>1, <2>4, JobsInvInit, OrchestratedInit, PooledInit, HookedInit, BasedInit, GateInit, FetchedInit,
       VersionsInit, SearchedInit, ToldInit, InspectedInit, SearchingInit, ModedInit, TodosInit
  <2>6. Talked
    BY <2>2, LoggedInit, TalliedInit, StoredInit, CountsInit, RememberedInit, StreamingInit, RegisteredInit,
       DeliveredInit, RoomyInit, AnsweredInit, ForwardsInit
  <2>7. Browsed
    BY <2>3, ManagedInit, TabbedInit, RoutedInit, HeededInit, HeadedInit, JarredInit, TurnsInit
  <2> QED
    BY <2>5, <2>6, <2>7
<1>2. Tooled /\ Talked /\ Browsed /\ [Next \/ (Stopped /\ UNCHANGED vars)]_vars => (Tooled /\ Talked /\ Browsed)'
  <2> SUFFICES ASSUME Tooled, Talked, Browsed, [Next \/ (Stopped /\ UNCHANGED vars)]_vars
               PROVE  Tooled' /\ Talked' /\ Browsed'
    OBVIOUS
  <2>1. Tooled'
    <3>1. (ValidList(todos))' <=> ValidList(todos')
      BY DEF ValidList
    <3> QED
      BY <3>1, EachMoves, GraphTypePreserved, JobsInvPreserved, OrchestratedStep, PooledStep, HookedStep, BasedStep,
         GateStep, FetchedStep, VersionsStep, SearchedStep, ToldStep, InspectedStep, SearchingStep, ModedStep,
         TodosStep
  <2>2. Talked'
    BY EachMoves, LoggedStep, TalliedStep, StoredStep, CountsStep, RememberedStep, StreamingStep, RegistryStep,
       DeliveredStep, RoomyStep, AnsweredStep, ForwardsStep
  <2>3. Browsed'
    BY EachMoves, ManagedStep, TabbedStep, RoutedStep, HeededStep, HeadedStep, JarredStep, TurnsStep
  <2> QED
    BY <2>1, <2>2, <2>3
<1>3. Tooled /\ Talked /\ Browsed => TypesOK
  <2> SUFFICES ASSUME Tooled, Talked, Browsed PROVE TypesOK
    OBVIOUS
  <2>1. /\ GraphTypeOK /\ JobsTypeOK /\ OrchestrationTypeOK /\ PoolTypeOK /\ ToolHooksTypeOK /\ FilesTypeOK
        /\ WebTypeOK /\ FindTypeOK /\ SessionToolsTypeOK
    BY OrchestratedAnswers, PoolTyped, HooksTyped, FilesTyped, WebTyped, SearchingTells, SessionToolsTyped
       DEF JobsInv
  <2>2. ShellTypeOK /\ InspectionTypeOK
    BY InspectedTypes DEF Told
  <2>3. /\ SessionTypeOK /\ RepoTypeOK /\ CompactionTypeOK /\ StreamTypeOK /\ RegistryTypeOK /\ ApiTypeOK
    BY SessionTyped, RepoTyped, CompactionTypes, StreamingTypes, RegistryTyped, ApiTyped
  <2>4. /\ ManagerTypeOK /\ TabsTypeOK /\ RoutesTypeOK /\ ListenTypeOK /\ PageTypeOK /\ CookiesTypeOK
    BY ManagedAccounts, TabbedReaches, RoutedApplies, HeededServes, HeadedKeeps, CookiesTyped
  <2> QED
    BY <2>1, <2>2, <2>3, <2>4 DEF TypesOK
<1> HIDE DEF Tooled, Talked, Browsed
<1> QED
  BY <1>1, <1>2, <1>3, PTL DEF Spec
===============================================================================
