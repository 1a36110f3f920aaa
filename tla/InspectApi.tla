----------------------------- MODULE InspectApi -----------------------------
(***************************************************************************)
(* The HTTP handlers of inspections (app/api): the table of video sessions *)
(* with the requests that start, feed, follow and stop them, and the one   *)
(* request that runs the orchestrator and streams its events.              *)
(*                                                                         *)
(* Of a session (VideoSession) only this is left: it numbers its events,   *)
(* drops those its channel has no room for, and closes the channel some    *)
(* time after it was stopped.  Of a run (Agent), that its channel carries  *)
(* events, an error among them or not, and is closed.                      *)
(***************************************************************************)
EXTENDS Integers, Sequences, SequencesExt, FiniteSets

CONSTANTS
    VideoIds,      \* ids of sessions; each is made once
    Readers,       \* requests for a session's events
    Posters,       \* requests with a frame
    MaxEvents,     \* bound: events of a session, and of a run
    ChannelSize    \* of both channels: 256, and 64 for a run

ASSUME ApiAssumption == MaxEvents \in Nat /\ ChannelSize \in Nat

VARIABLES
    sessions,      \* the manager's table
    video,         \* of each id: "none", "open", "stopped" or "closed"
    channel,       \* events in a session's channel
    eventsMade,    \* how many a session made or dropped
    dropped,       \* those its channel had no room for
    reader,        \* of each request: where it is and whose events it reads
    got,           \* events each request took
    post,          \* of each frame: how far its request is
    inspect,       \* "idle", "forwarding", "draining" or "returned"
    inspectRun,    \* events of the run and whether its channel is closed
    inspectChannel,
    forwarded      \* events the client of the run was sent

tableVars == <<sessions, video>>
eventVars == <<channel, eventsMade, dropped>>
requestVars == <<reader, got, post>>
apiVars == <<tableVars, eventVars, requestVars>>
inspectVars == <<inspect, inspectRun, inspectChannel, forwarded>>

ApiInit ==
    /\ sessions = {} /\ video = [id \in VideoIds |-> "none"]
    /\ channel = [id \in VideoIds |-> <<>>]
    /\ eventsMade = [id \in VideoIds |-> 0] /\ dropped = [id \in VideoIds |-> {}]
    /\ reader = [r \in Readers |-> [at |-> "idle", client |-> TRUE]]
    /\ got = [r \in Readers |-> <<>>]
    /\ post = [p \in Posters |-> [at |-> "idle"]]
    /\ inspect = "idle" /\ inspectRun = [events |-> <<>>, closed |-> FALSE]
    /\ inspectChannel = <<>> /\ forwarded = <<>>

-----------------------------------------------------------------------------
(* The table.                                                               *)

Create(id) ==
    /\ video[id] = "none"
    /\ video' = [video EXCEPT ![id] = "open"]
    /\ sessions' = sessions \union {id}
    /\ UNCHANGED <<eventVars, requestVars>>

(* A stop request, or the timer of two hours: the lock is held throughout, *)
(* and a session that is not there is left alone.                          *)
RemoveVideo(id) ==
    /\ id \in sessions
    /\ sessions' = sessions \ {id}
    /\ video' = [video EXCEPT ![id] = "stopped"]
    /\ UNCHANGED <<eventVars, requestVars>>

-----------------------------------------------------------------------------
(* A session.                                                               *)

Emit(id) ==
    /\ video[id] \in {"open", "stopped"} /\ eventsMade[id] < MaxEvents
    /\ eventsMade' = [eventsMade EXCEPT ![id] = @ + 1]
    /\ IF Len(channel[id]) < ChannelSize
       THEN channel' = [channel EXCEPT ![id] = Append(@, eventsMade'[id])] /\ UNCHANGED dropped
       ELSE dropped' = [dropped EXCEPT ![id] = @ \union {eventsMade'[id]}] /\ UNCHANGED channel
    /\ UNCHANGED <<tableVars, requestVars>>

CloseEvents(id) ==
    /\ video[id] = "stopped"
    /\ video' = [video EXCEPT ![id] = "closed"]
    /\ UNCHANGED <<sessions, eventVars, requestVars>>

-----------------------------------------------------------------------------
(* Requests for events.                                                     *)

Reads(r, next) ==
    /\ reader' = [reader EXCEPT ![r] = next]
    /\ UNCHANGED <<tableVars, eventsMade, dropped, post>>

FollowEvents(r, id) ==
    /\ reader[r].at = "idle"
    /\ Reads(r, IF id \in sessions THEN [at |-> "reading", id |-> id, client |-> TRUE]
                                   ELSE [at |-> "not found", client |-> TRUE])
    /\ UNCHANGED <<channel, got>>

(* An event is taken for good, even for a client that has gone. *)
TakeEvent(r) ==
    /\ reader[r].at = "reading"
    /\ LET id == reader[r].id
       IN /\ channel[id] # <<>>
          /\ got' = [got EXCEPT ![r] = Append(@, Head(channel[id]))]
          /\ channel' = [channel EXCEPT ![id] = Tail(@)]
    /\ Reads(r, reader[r])

(* The channel is closed and empty. *)
EventsOver(r) ==
    /\ reader[r].at = "reading"
    /\ video[reader[r].id] = "closed" /\ channel[reader[r].id] = <<>>
    /\ Reads(r, [reader[r] EXCEPT !.at = "over"])
    /\ UNCHANGED <<channel, got>>

ClientGoes(r) ==
    /\ reader[r].at = "reading" /\ reader[r].client
    /\ Reads(r, [reader[r] EXCEPT !.client = FALSE])
    /\ UNCHANGED <<channel, got>>

(* select takes either of two cases that are ready. *)
Abandon(r) ==
    /\ reader[r].at = "reading" /\ ~reader[r].client
    /\ Reads(r, [reader[r] EXCEPT !.at = "gone"])
    /\ UNCHANGED <<channel, got>>

-----------------------------------------------------------------------------
(* Frames.  The session is looked up before the frame is saved and given   *)
(* the frame after; by then it may be stopped.                             *)

Posts(p, next) ==
    /\ post' = [post EXCEPT ![p] = next]
    /\ UNCHANGED <<tableVars, eventVars, reader, got>>

PostFrame(p, id) ==
    /\ post[p].at = "idle"
    /\ Posts(p, IF id \in sessions THEN [at |-> "found", id |-> id] ELSE [at |-> "not found"])

(* The file may not be written: the frame is submitted without an image. *)
SaveFrame(p) ==
    /\ post[p].at = "found"
    /\ \E image \in {"file", "none"} :
          Posts(p, [at |-> "saved", id |-> post[p].id, image |-> image])

SubmitFrame(p) ==
    /\ post[p].at = "saved"
    /\ Posts(p, [at |-> "accepted", id |-> post[p].id, image |-> post[p].image,
                 taken |-> video[post[p].id] = "open"])

(* Ten minutes later the file is removed, whoever may still want it. *)
RemoveFile(p) ==
    /\ post[p].at \in {"saved", "accepted"} /\ post[p].image = "file"
    /\ Posts(p, [post[p] EXCEPT !.image = "removed"])

-----------------------------------------------------------------------------
(* HandleInspect.                                                           *)

StartInspect ==
    /\ inspect = "idle" /\ inspect' = "forwarding"
    /\ UNCHANGED <<inspectRun, inspectChannel, forwarded>>

RunSends(type) ==
    /\ inspect # "idle" /\ ~inspectRun.closed
    /\ Len(inspectRun.events) < MaxEvents /\ Len(inspectChannel) < ChannelSize
    /\ inspectRun' = [inspectRun EXCEPT !.events = Append(@, type)]
    /\ inspectChannel' = Append(inspectChannel, type)
    /\ UNCHANGED <<inspect, forwarded>>

RunCloses ==
    /\ inspect # "idle" /\ ~inspectRun.closed
    /\ inspectRun' = [inspectRun EXCEPT !.closed = TRUE]
    /\ UNCHANGED <<inspect, inspectChannel, forwarded>>

(* An error is the last event forwarded; what follows is drained. *)
ForwardEvent ==
    /\ inspect = "forwarding" /\ inspectChannel # <<>>
    /\ forwarded' = Append(forwarded, Head(inspectChannel))
    /\ inspect' = IF Head(inspectChannel) = "error" THEN "draining" ELSE inspect
    /\ inspectChannel' = Tail(inspectChannel)
    /\ UNCHANGED inspectRun

DrainEvent ==
    /\ inspect = "draining" /\ inspectChannel # <<>>
    /\ inspectChannel' = Tail(inspectChannel)
    /\ UNCHANGED <<inspect, inspectRun, forwarded>>

InspectReturns ==
    /\ inspect \in {"forwarding", "draining"}
    /\ inspectChannel = <<>> /\ inspectRun.closed
    /\ inspect' = "returned"
    /\ UNCHANGED <<inspectRun, inspectChannel, forwarded>>

VideoApiNext ==
    \/ \E id \in VideoIds : Create(id) \/ RemoveVideo(id) \/ Emit(id) \/ CloseEvents(id)
    \/ \E r \in Readers : \/ \E id \in VideoIds : FollowEvents(r, id)
                          \/ TakeEvent(r) \/ EventsOver(r) \/ ClientGoes(r) \/ Abandon(r)
    \/ \E p \in Posters : \/ \E id \in VideoIds : PostFrame(p, id)
                          \/ SaveFrame(p) \/ SubmitFrame(p) \/ RemoveFile(p)

InspectApiNext ==
    \/ StartInspect
    \/ \E type \in {"event", "error"} : RunSends(type)
    \/ RunCloses
    \/ ForwardEvent
    \/ DrainEvent
    \/ InspectReturns

(* Sessions that have ended, or sent all they may here, and requests that *)
(* have.                                                                   *)
VideoApiStopped ==
    \A id \in VideoIds : video[id] = "closed" \/ (video[id] # "none" /\ eventsMade[id] = MaxEvents)
InspectApiStopped == inspect = "returned"

-----------------------------------------------------------------------------
ApiTypeOK ==
    /\ sessions \subseteq VideoIds
    /\ \A id \in VideoIds : /\ video[id] \in {"none", "open", "stopped", "closed"}
                            /\ eventsMade[id] \in 0..MaxEvents
                            /\ Len(channel[id]) <= ChannelSize
    /\ inspect \in {"idle", "forwarding", "draining", "returned"}

Following(id) == {r \in Readers : "id" \in DOMAIN reader[r] /\ reader[r].id = id}

(* A session that can no longer be stopped by its id has been stopped: the *)
(* table loses none that still inspects frames (video_inspect.go:39-68).   *)
NoSessionLeft == \A id \in VideoIds : video[id] = "open" => id \in sessions

(* Every event of a session that its channel had room for goes to exactly  *)
(* one request, and each request gets its own in order; one that ends with *)
(* the session leaves none behind (video_inspect.go:94-129).               *)
EventsGoOnce ==
    \A id \in VideoIds :
        LET taken == UNION {ToSet(got[r]) : r \in Following(id)}
        IN  /\ \A r \in Following(id) : \A i, j \in DOMAIN got[r] : i < j => got[r][i] < got[r][j]
            /\ \A r, s \in Following(id) : r = s \/ ToSet(got[r]) \intersect ToSet(got[s]) = {}
            /\ taken \union ToSet(channel[id]) = 1..eventsMade[id] \ dropped[id]
            /\ (\E r \in Following(id) : reader[r].at = "over") =>
                   taken = 1..eventsMade[id] \ dropped[id]

(* A frame that was answered "accepted" and is not inspected was overtaken *)
(* by a stop (video_inspect.go:144-192).                                   *)
AcceptedUnlessStopped ==
    \A p \in Posters : post[p].at = "accepted" /\ ~post[p].taken => post[p].id \notin sessions

(* The client of an inspection is sent the run's events up to an error and *)
(* none after it, and the request ends with the run, so that no sender is  *)
(* left waiting for it (safeagent.go:58-74).                               *)
InspectionForwarded ==
    /\ IsPrefix(forwarded, inspectRun.events)
    /\ \A i \in 1..(Len(forwarded) - 1) : forwarded[i] # "error"
    /\ inspect = "forwarding" => forwarded \o inspectChannel = inspectRun.events
    /\ inspect = "returned" => /\ inspectRun.closed /\ inspectChannel = <<>>
                               /\ "error" \in ToSet(inspectRun.events) => Last(forwarded) = "error"
                               /\ "error" \notin ToSet(inspectRun.events) => forwarded = inspectRun.events
=============================================================================
