----------------------------- MODULE BrowserRoutes -----------------------------
(***************************************************************************)
(* The routes of a browser session: the requests of a page that its Fetch  *)
(* domain pauses, and the loops that continue, mock or abort them.         *)
(*                                                                         *)
(* The routes belong to the session, the Fetch domain to a page.  A loop   *)
(* that is stopped disables Fetch once more, later, and its handler goes   *)
(* on as long as the page.  fetch_intercept_start has no loop, and its     *)
(* patterns take the place of those the page had.  Requests that           *)
(* set_blocked_urls keeps a page from making are left out.                 *)
(***************************************************************************)
EXTENDS Integers, Sequences, FiniteSets

CONSTANTS
    RouteClients,   \* calls that may run at once
    Routes,         \* ids of routes
    Tabs,           \* pages of the session
    MaxLoops        \* bound: loops started

ASSUME RoutesAssumption == Tabs # {}

VARIABLES
    routes,         \* BrowserSession.routes
    routeActive,    \* BrowserSession.routeActive
    routeStop,      \* the loop whose channel is BrowserSession.routeStopCh, 0 for nil
    loops,          \* of each loop: its page, and whether it is to stop
    fetching,       \* requests the Fetch domain of a page pauses: "no", "some" or "all"
    routeCall,      \* of each call: its step and its page
    current,        \* the active page
    lapsed          \* something took Fetch from the active page since it was last enabled

routeVars == <<routes, routeActive, routeStop, loops, fetching, routeCall, current, lapsed>>

(* A handler that answers each request the page is told of, with the first *)
(* route that matches or as it came.                                       *)
Fulfilling(page) == \E l \in DOMAIN loops : loops[l].page = page
Steps(c, step, page) == routeCall' = [routeCall EXCEPT ![c] = [step |-> step, page |-> page]]
IsAt(c, step) == routeCall[c].step = step
PageOf(c) == routeCall[c].page
NewRoutes == [step |-> "idle", page |-> CHOOSE t \in Tabs : TRUE]
RouteDone(c) == routeCall' = [routeCall EXCEPT ![c] = NewRoutes]
Pauses(page, requests) == fetching' = [fetching EXCEPT ![page] = requests]
Calm == \A c \in RouteClients : IsAt(c, "idle")

RoutesInit ==
    /\ routes = {} /\ routeActive = FALSE /\ routeStop = 0 /\ loops = << >>
    /\ fetching = [t \in Tabs |-> "no"] /\ current = NewRoutes.page /\ lapsed = FALSE
    /\ routeCall = [c \in RouteClients |-> NewRoutes]

-----------------------------------------------------------------------------
(* doRouteAdd: interception starts unless it is active already. *)
AddRoute(c) ==
    /\ IsAt(c, "idle")
    /\ \E r \in Routes \ routes : routes' = routes \cup {r}
    /\ IF routeActive THEN UNCHANGED routeCall ELSE Steps(c, "enable", current)
    /\ lapsed' = (lapsed \/ ~Calm)
    /\ UNCHANGED <<routeActive, routeStop, loops, fetching, current>>

(* startRouteInterception *)
EnableFetch(c) ==
    /\ IsAt(c, "enable")
    /\ \/ RouteDone(c) /\ lapsed' = TRUE /\ UNCHANGED fetching
       \/ /\ Len(loops) < MaxLoops
          /\ Steps(c, "start", PageOf(c)) /\ Pauses(PageOf(c), "all")
          /\ lapsed' = (PageOf(c) # current \/ \E d \in RouteClients \ {c} : ~IsAt(d, "idle"))
    /\ UNCHANGED <<routes, routeActive, routeStop, loops, current>>

StartLoop(c) ==
    /\ IsAt(c, "start") /\ Len(loops) < MaxLoops
    /\ routeActive' = TRUE /\ routeStop' = Len(loops) + 1
    /\ loops' = Append(loops, [page |-> PageOf(c), stopping |-> FALSE])
    /\ RouteDone(c)
    /\ UNCHANGED <<routes, fetching, current, lapsed>>

(* doRouteRemove: with the last route interception stops. *)
RemoveRoute(c) ==
    /\ IsAt(c, "idle")
    /\ \E r \in Routes : routes' = routes \ {r}
    /\ IF routes' = {} THEN Steps(c, "stop", current) ELSE UNCHANGED routeCall
    /\ lapsed' = (lapsed \/ ~Calm)
    /\ UNCHANGED <<routeActive, routeStop, loops, fetching, current>>

(* stopRouteInterception *)
StopLoop(c) ==
    /\ IsAt(c, "stop") /\ Steps(c, "disable", PageOf(c))
    /\ routeActive' = (routeActive /\ routeStop = 0) /\ routeStop' = 0
    /\ loops' = [l \in DOMAIN loops |-> IF l = routeStop THEN [loops[l] EXCEPT !.stopping = TRUE] ELSE loops[l]]
    /\ UNCHANGED <<routes, fetching, current, lapsed>>

DisableFetch(c) ==
    /\ IsAt(c, "disable") /\ RouteDone(c)
    /\ Pauses(PageOf(c), "no")
    /\ UNCHANGED <<routes, routeActive, routeStop, loops, current, lapsed>>

(* The goroutine of a stopped loop disables Fetch, whoever enabled it since. *)
LoopDisables ==
    \E l \in DOMAIN loops :
       /\ loops[l].stopping
       /\ Pauses(loops[l].page, "no")
       /\ loops' = [loops EXCEPT ![l].stopping = FALSE]
       /\ lapsed' = TRUE
       /\ UNCHANGED <<routes, routeActive, routeStop, routeCall, current>>

-----------------------------------------------------------------------------
(* doFetchInterceptStart: the patterns are the caller's, or all there is. *)
FetchInterceptStart ==
    /\ \E requests \in {"some", "all"} :
          Pauses(current, requests) /\ lapsed' = (lapsed \/ requests = "some")
    /\ UNCHANGED <<routes, routeActive, routeStop, loops, routeCall, current>>

(* doFetchInterceptStop *)
FetchInterceptStop ==
    /\ Pauses(current, "no") /\ lapsed' = TRUE
    /\ UNCHANGED <<routes, routeActive, routeStop, loops, routeCall, current>>

(* Another tab becomes the active one. *)
GoToTab ==
    /\ \E t \in Tabs \ {current} : current' = t
    /\ lapsed' = TRUE
    /\ UNCHANGED <<routes, routeActive, routeStop, loops, fetching, routeCall>>

RoutesNext ==
    \/ \E c \in RouteClients :
          AddRoute(c) \/ EnableFetch(c) \/ StartLoop(c) \/ RemoveRoute(c) \/ StopLoop(c) \/ DisableFetch(c)
    \/ LoopDisables \/ FetchInterceptStart \/ FetchInterceptStop \/ GoToTab

-----------------------------------------------------------------------------
RoutesTypeOK ==
    /\ routes \subseteq Routes /\ fetching \in [Tabs -> {"no", "some", "all"}]
    /\ routeStop \in 0..Len(loops)
    /\ \A c \in RouteClients :
          routeCall[c].step \in {"idle", "enable", "start", "stop", "disable"}

(* A "route" is "active" (session.go:48): once no call runs, a registered  *)
(* one gets the requests of the active page.                               *)
RoutesApply == Calm /\ routes # {} => fetching[current] = "all" /\ Fulfilling(current)

(* A registered route gets them unless Fetch could not be enabled, calls   *)
(* overlapped, a stopped loop disabled Fetch late, fetch_intercept_stop    *)
(* did, fetch_intercept_start put narrower patterns in their place, or     *)
(* another tab was made the active one.                                    *)
RoutesLapseOnlyBy == lapsed \/ RoutesApply
===============================================================================
