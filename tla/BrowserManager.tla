---------------------------- MODULE BrowserManager ----------------------------
(***************************************************************************)
(* The one SessionManager of the process: the browsers it launched, the    *)
(* table of sessions, the calls of the agents that share it and the        *)
(* goroutine that closes idle sessions.                                    *)
(*                                                                         *)
(* Launching, using and closing a browser happen outside of the table's    *)
(* lock.  The limit is checked before the launch and not again; the sweep  *)
(* collects idle sessions and removes them under another lock.             *)
(***************************************************************************)
EXTENDS Integers, Sequences, FiniteSets, SequencesExt

CONSTANTS
    Clients,        \* calls of the browser tool that may run at once
    MaxSessions,    \* SessionManager.maxSessions
    MaxLaunches     \* bound: browsers launched

ASSUME SessionsAssumption == MaxSessions \in Nat \ {0} /\ IsFiniteSet(Clients)

VARIABLES
    browsers,    \* of each browser launched: "running" or "closed"
    table,       \* SessionManager.sessions, by LastUsed, the latest last
    idle,        \* sessions not used for longer than idleTimeout
    client,      \* of each call: its step and its session
    sweep,       \* the step of cleanupIdle and its sessions
    asking,      \* sessions with a page that asks before it unloads
    strays       \* browsers whose connection failed

managerVars == <<browsers, table, idle, client, sweep, asking, strays>>

Launched == 1..Len(browsers)
InTable == ToSet(table)
At(step) == {c \in Clients : client[c].step = step}
Of(c) == client[c].session
NoCallYet == [step |-> "idle", session |-> 0]
Goes(c, step, s) == client' = [client EXCEPT ![c] = [step |-> step, session |-> s]]

ManagerInit ==
    /\ browsers = << >> /\ table = << >> /\ idle = {} /\ asking = {} /\ strays = {}
    /\ client = [c \in Clients |-> NoCallYet]
    /\ sweep = [step |-> "waiting", sessions |-> {}]

-----------------------------------------------------------------------------
(* CreateSession: the check, the launch, the connection and the first      *)
(* page, and the table.  With a CDP URL nothing is launched and a failed   *)
(* connection is no stray; the rest is the same.                           *)
CheckLimit(c) ==
    /\ c \in At("idle") /\ Len(table) < MaxSessions
    /\ Goes(c, "launching", 0)
    /\ UNCHANGED <<browsers, table, idle, sweep, asking, strays>>

Launch(c) ==
    /\ c \in At("launching")
    /\ \/ Goes(c, "idle", 0) /\ UNCHANGED browsers
       \/ /\ Len(browsers) < MaxLaunches
          /\ browsers' = Append(browsers, "running")
          /\ Goes(c, "connecting", Len(browsers) + 1)
    /\ UNCHANGED <<table, idle, sweep, asking, strays>>

ConnectFails(c) ==
    /\ c \in At("connecting")
    /\ strays' = strays \cup {Of(c)} /\ Goes(c, "idle", 0)
    /\ UNCHANGED <<browsers, table, idle, sweep, asking>>

(* Mutant: a browser whose first page fails is left to itself. *)
FirstPageFailsOpen(c) ==
    /\ c \in At("connecting") /\ Goes(c, "idle", 0)
    /\ UNCHANGED <<browsers, table, idle, sweep, asking, strays>>

FirstPageFails(c) ==
    /\ c \in At("connecting")
    /\ browsers' = [browsers EXCEPT ![Of(c)] = "closed"] /\ Goes(c, "idle", 0)
    /\ UNCHANGED <<table, idle, sweep, asking, strays>>

Insert(c) ==
    /\ c \in At("connecting")
    /\ table' = Append(table, Of(c)) /\ Goes(c, "using", Of(c))
    /\ UNCHANGED <<browsers, idle, sweep, asking, strays>>

-----------------------------------------------------------------------------
(* GetSession, of an id or of the session used last, which it touches.     *)
GetSession(c) ==
    /\ c \in At("idle")
    /\ \E i \in DOMAIN table :
         /\ table' = Append(RemoveAt(table, i), table[i])
         /\ idle' = idle \ {table[i]}
         /\ Goes(c, "using", table[i])
    /\ UNCHANGED <<browsers, sweep, asking, strays>>

(* What the call does with the page: a click may make it ask. *)
UsePage(c) ==
    /\ c \in At("using")
    /\ \E asks \in BOOLEAN :
         asking' = IF asks /\ browsers[Of(c)] = "running" THEN asking \cup {Of(c)} ELSE asking
    /\ Goes(c, "idle", 0)
    /\ UNCHANGED <<browsers, table, idle, sweep, strays>>

(* CloseSession *)
RemoveSession(c) ==
    /\ c \in At("idle")
    /\ \E i \in DOMAIN table :
         /\ table' = RemoveAt(table, i) /\ idle' = idle \ {table[i]}
         /\ Goes(c, "closing", table[i])
    /\ UNCHANGED <<browsers, sweep, asking, strays>>

(* BrowserSession.close holds the session's lock while the pages close: a  *)
(* page that asks waits for an answer that handleDialogs, which needs the  *)
(* lock, cannot give.                                                      *)
CloseEnds(s) == s \notin asking /\ browsers' = [browsers EXCEPT ![s] = "closed"]

CloseSession(c) ==
    /\ c \in At("closing") /\ CloseEnds(Of(c)) /\ Goes(c, "idle", 0)
    /\ UNCHANGED <<table, idle, sweep, asking, strays>>

-----------------------------------------------------------------------------
(* Time: a session, and those used before it, are idle for too long. *)
GrowIdle ==
    /\ \E i \in DOMAIN table : idle' = idle \cup {table[j] : j \in 1..i}
    /\ UNCHANGED <<browsers, table, client, sweep, asking, strays>>

(* The table when some sessions are taken out: the others, in their order. *)
Without(gone) ==
    {left \in SeqOf(InTable \ gone, Len(table)) :
        /\ ToSet(left) = InTable \ gone
        /\ \A i, j \in DOMAIN left : i < j =>
              \E k, l \in DOMAIN table : k < l /\ table[k] = left[i] /\ table[l] = left[j]}

(* cleanupIdle *)
CollectIdle ==
    /\ sweep.step = "waiting" /\ idle # {}
    /\ sweep' = [step |-> "collected", sessions |-> idle]
    /\ UNCHANGED <<browsers, table, idle, client, asking, strays>>

RemoveIdle ==
    /\ sweep.step = "collected"
    /\ table' \in Without(sweep.sessions) /\ idle' = idle \ sweep.sessions
    /\ sweep' = [step |-> "closing", sessions |-> sweep.sessions \cap InTable]
    /\ UNCHANGED <<browsers, client, asking, strays>>

CloseIdle ==
    /\ sweep.step = "closing"
    /\ IF sweep.sessions = {}
       THEN sweep' = [sweep EXCEPT !.step = "waiting"] /\ UNCHANGED browsers
       ELSE \E s \in sweep.sessions :
               CloseEnds(s) /\ sweep' = [sweep EXCEPT !.sessions = @ \ {s}]
    /\ UNCHANGED <<table, idle, client, asking, strays>>

(* Every call and the sweep wait for a page, or the bound is reached. *)
ManagerStopped ==
    /\ \A c \in Clients :
          \/ c \in At("closing") /\ Of(c) \in asking
          \/ c \in At("idle") /\ table = << >> /\ Len(browsers) = MaxLaunches
    /\ sweep.step = "closing" => sweep.sessions \subseteq asking /\ sweep.sessions # {}

ManagerNext ==
    \/ \E c \in Clients :
          \/ CheckLimit(c) \/ Launch(c) \/ ConnectFails(c) \/ FirstPageFails(c) \/ Insert(c)
          \/ GetSession(c) \/ UsePage(c) \/ RemoveSession(c) \/ CloseSession(c)
    \/ GrowIdle \/ CollectIdle \/ RemoveIdle \/ CloseIdle

-----------------------------------------------------------------------------
ManagerTypeOK ==
    /\ InTable \cup asking \cup strays \subseteq Launched
    /\ idle \subseteq InTable
    /\ \A c \in Clients : Of(c) \in Launched \cup {0}
    /\ sweep.step \in {"waiting", "collected", "closing"}

(* A browser runs only as long as somebody will close it: its session is   *)
(* in the table once, or exactly one call or the sweep is to close or      *)
(* insert it.  Only one whose connection failed runs on for nobody.        *)
Holders(s) ==
    {c \in At("connecting") \cup At("closing") : Of(c) = s}
        \cup (IF s \in InTable THEN {"table"} ELSE {})
        \cup (IF sweep.step = "closing" /\ s \in sweep.sessions THEN {"sweep"} ELSE {})

BrowsersAccounted ==
    /\ IsInjective(table)
    /\ \A s \in Launched \ strays : Cardinality(Holders(s)) = IF browsers[s] = "running" THEN 1 ELSE 0

(* "max sessions (%d) reached" (session.go:200): the limit is passed only  *)
(* by calls that create sessions at once, by one session each.             *)
LimitByRaceOnly ==
    Len(table) + Cardinality(At("launching") \cup At("connecting")) < MaxSessions + Cardinality(Clients)
===============================================================================
