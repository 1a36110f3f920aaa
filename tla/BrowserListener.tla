---------------------------- MODULE BrowserListener ----------------------------
(***************************************************************************)
(* The network listener of a browser session: the requests and responses   *)
(* the page tells of, the packets made of them, and the calls that start,  *)
(* stop, clear and wait for it.                                            *)
(*                                                                         *)
(* A call looks at the session's listener, starts a new one outside of the *)
(* session's lock and stores it: of two that start at once one is lost,    *)
(* and goes on listening with nobody who could stop it.                    *)
(***************************************************************************)
EXTENDS Integers, Sequences, FiniteSets, SequencesExt

CONSTANTS
    ListenClients,   \* calls that may run at once
    Requested,       \* requests the page makes
    MaxPackets,      \* NetworkListener.maxPackets
    MaxListeners     \* bound: listeners started

ASSUME ListenAssumption == MaxPackets \in Nat

VARIABLES
    listeners,       \* of each listener: whether it is active, what is pending, its packets
    listener,        \* BrowserSession.networkListener, 0 for nil
    listenCall,      \* of each call: its step and its listener
    traffic,         \* of each request: whether it was sent and answered
    heard,           \* of each listener, the requests sent while it was active
    overlapped       \* calls started listeners at once

listenVars == <<listeners, listener, listenCall, traffic, heard, overlapped>>

Active(l) == l # 0 /\ listeners[l].active
NoListenCall == [step |-> "idle", listener |-> 0]
Does(c, step, l) == listenCall' = [listenCall EXCEPT ![c] = [step |-> step, listener |-> l]]
Doing(c, step) == listenCall[c].step = step
Starting == {c \in ListenClients : listenCall[c].step \in {"start", "starts", "store", "stores"}}

ListenInit ==
    /\ listeners = << >> /\ listener = 0 /\ heard = << >> /\ overlapped = FALSE
    /\ listenCall = [c \in ListenClients |-> NoListenCall]
    /\ traffic = [r \in Requested |-> "none"]

-----------------------------------------------------------------------------

(* doNetworkListenStart, which refuses while one is active, and            *)
(* doNetworkListenSteps, which then waits for that one.                    *)
LookFirst(c) ==
    /\ Doing(c, "idle")
    /\ \/ ~Active(listener) /\ \E step \in {"start", "starts"} : Does(c, step, 0)
       \/ Active(listener) /\ Does(c, "steps", listener)
    /\ overlapped' = (overlapped \/ Starting # {})
    /\ UNCHANGED <<listeners, listener, traffic, heard>>

StartListener(c) ==
    /\ Doing(c, "start") \/ Doing(c, "starts")
    /\ Len(listeners) < MaxListeners
    /\ listeners' = Append(listeners, [active |-> TRUE, pending |-> {}, packets |-> << >>])
    /\ heard' = Append(heard, {})
    /\ Does(c, IF Doing(c, "start") THEN "store" ELSE "stores", Len(listeners) + 1)
    /\ UNCHANGED <<listener, traffic, overlapped>>

StoreListener(c) ==
    /\ Doing(c, "store") \/ Doing(c, "stores")
    /\ listener' = listenCall[c].listener
    /\ IF Doing(c, "store") THEN Does(c, "idle", 0) ELSE Does(c, "steps", listener')
    /\ UNCHANGED <<listeners, traffic, heard, overlapped>>

Silenced(l) == [listeners EXCEPT ![l].active = FALSE]

(* doNetworkListenStop, and BrowserSession.close *)
StopListener ==
    /\ listener # 0 /\ listeners' = Silenced(listener)
    /\ UNCHANGED <<listener, listenCall, traffic, heard, overlapped>>

ClearPackets ==
    /\ listener # 0 /\ listeners' = [listeners EXCEPT ![listener].packets = << >>]
    /\ UNCHANGED <<listener, listenCall, traffic, heard, overlapped>>

(* doNetworkListenWait, and the end of doNetworkListenSteps: the packets   *)
(* are enough or the time is over; steps then stops its listener.          *)
WaitForCount(c) ==
    /\ Doing(c, "idle") /\ Active(listener)
    /\ Does(c, "wait", listener)
    /\ UNCHANGED <<listeners, listener, traffic, heard, overlapped>>

WaitEnds(c) ==
    /\ Doing(c, "wait") \/ Doing(c, "steps")
    /\ listeners' = IF Doing(c, "steps") THEN Silenced(listenCall[c].listener) ELSE listeners
    /\ Does(c, "idle", 0)
    /\ UNCHANGED <<listener, traffic, heard, overlapped>>

-----------------------------------------------------------------------------
(* onRequest, of a request that matches the filters. *)
OnRequest(l, r) ==
    IF Active(l) THEN [listeners[l] EXCEPT !.pending = @ \cup {r}] ELSE listeners[l]

(* Mutant: a response is a packet whoever asked, and the request stays. *)
OnResponseUnpaired(l, r) ==
    IF ~Active(l) \/ Len(listeners[l].packets) >= MaxPackets THEN listeners[l]
    ELSE [listeners[l] EXCEPT !.packets = Append(@, r)]

(* onResponse: one that is not pending, or does not fit, is dropped. *)
OnResponse(l, r) ==
    IF ~Active(l) \/ r \notin listeners[l].pending THEN listeners[l]
    ELSE [listeners[l] EXCEPT !.pending = @ \ {r},
                              !.packets = IF Len(@) >= MaxPackets THEN @ ELSE Append(@, r)]

(* Each listener is told of each event of its page, stopped or not. *)
PageRequests(r) ==
    /\ traffic[r] = "none" /\ traffic' = [traffic EXCEPT ![r] = "sent"]
    /\ listeners' = [l \in DOMAIN listeners |-> OnRequest(l, r)]
    /\ heard' = [l \in DOMAIN heard |-> IF Active(l) THEN heard[l] \cup {r} ELSE heard[l]]
    /\ UNCHANGED <<listener, listenCall, overlapped>>

PageResponds(r) ==
    /\ traffic[r] = "sent" /\ traffic' = [traffic EXCEPT ![r] = "answered"]
    /\ listeners' = [l \in DOMAIN listeners |-> OnResponse(l, r)]
    /\ UNCHANGED <<listener, listenCall, heard, overlapped>>

(* Bound: no listener is left to start. *)
ListenStopped == Len(listeners) = MaxListeners

ListenNext ==
    \/ \E c \in ListenClients :
          LookFirst(c) \/ StartListener(c) \/ StoreListener(c) \/ WaitForCount(c) \/ WaitEnds(c)
    \/ StopListener \/ ClearPackets
    \/ \E r \in Requested : PageRequests(r) \/ PageResponds(r)

-----------------------------------------------------------------------------
ListenTypeOK ==
    /\ listener \in 0..Len(listeners) /\ Len(heard) = Len(listeners)
    /\ \A l \in DOMAIN listeners :
          listeners[l].pending \cup ToSet(listeners[l].packets) \subseteq Requested

(* A packet is a request the listener heard of while it was active, with   *)
(* its answer, once; of what is pending none was answered while it         *)
(* listened; there are never more than maxPackets.                         *)
PacketsPaired ==
    \A l \in DOMAIN listeners :
       /\ IsInjective(listeners[l].packets) /\ Len(listeners[l].packets) <= MaxPackets
       /\ ToSet(listeners[l].packets) \subseteq {r \in heard[l] : traffic[r] = "answered"}
       /\ listeners[l].pending \subseteq heard[l]
       /\ Active(l) => \A r \in listeners[l].pending : traffic[r] = "sent"

(* Once no call is starting one, the listener that listens is the one the  *)
(* session knows and can stop, unless calls started listeners at once.     *)
OthersAreSilent ==
    Starting = {} /\ ~overlapped => \A l \in DOMAIN listeners : Active(l) => l = listener
===============================================================================
