------------------------------ MODULE BrowserPage ------------------------------
(***************************************************************************)
(* The extra headers a browser session gives the requests of its page.     *)
(*                                                                         *)
(* The session keeps the headers, and each call sends a copy it took under *)
(* the lock to its page once the lock is gone.  navigate_with_headers puts *)
(* back, after the page has loaded, the headers as it had found them.      *)
(***************************************************************************)
EXTENDS Integers, FiniteSets

CONSTANTS
    HeaderClients,   \* calls that may run at once
    Headers,         \* names of headers, "Authorization" among them
    Views,           \* pages of the session
    FirstView        \* the one it begins with

ASSUME HeadersAssumption == "Authorization" \in Headers /\ FirstView \in Views

VARIABLES
    extraHeaders,    \* BrowserSession.extraHeaders
    pageHeaders,     \* of each page, the headers its requests get
    view,            \* the active page
    headerCall,      \* of each call: its step, its page, its copy, what it will restore
    wanted,          \* the headers set and not cleared, call by call
    disturbed        \* something that may have given the page others happened

pageVars == <<extraHeaders, pageHeaders, view, headerCall, wanted, disturbed>>

Rest == [step |-> "idle", page |-> FirstView, copy |-> {}, old |-> {}]
InStep(c, step) == headerCall[c].step = step
Resting == \A c \in HeaderClients : InStep(c, "idle")
Overlaps == disturbed' = ~Resting
Sending(c, step, copy, old) ==
    headerCall' = [headerCall EXCEPT ![c] = [step |-> step, page |-> view, copy |-> copy, old |-> old]]

PageInit ==
    /\ extraHeaders = {} /\ pageHeaders = [v \in Views |-> {}] /\ view = FirstView
    /\ headerCall = [c \in HeaderClients |-> Rest]
    /\ wanted = {} /\ disturbed = FALSE

-----------------------------------------------------------------------------
(* Bound: once something disturbed the page no call begins, and those that *)
(* run come to their end.                                                  *)
Begins(c) == InStep(c, "idle") /\ ~disturbed

(* doSetExtraHeaders, doInjectAuthToken *)
SetExtraHeaders(c) ==
    /\ Begins(c)
    /\ \E names \in (SUBSET Headers) \ {{}} :
          extraHeaders' = extraHeaders \cup names /\ wanted' = wanted \cup names
    /\ Sending(c, "send", extraHeaders', {}) /\ Overlaps
    /\ UNCHANGED <<pageHeaders, view>>

(* doClearExtraHeaders: the ones named, or all. *)
ClearExtraHeaders(c) ==
    /\ Begins(c)
    /\ \E names \in (SUBSET Headers) \ {{}} :
          extraHeaders' = extraHeaders \ names /\ wanted' = wanted \ names
    /\ Sending(c, "send", extraHeaders', {}) /\ Overlaps
    /\ UNCHANGED <<pageHeaders, view>>

(* NetworkSetExtraHTTPHeaders replaces all of the page's; it may fail. *)
SendHeaders(c) ==
    /\ InStep(c, "send")
    /\ \/ pageHeaders' = [pageHeaders EXCEPT ![headerCall[c].page] = headerCall[c].copy] /\ UNCHANGED disturbed
       \/ UNCHANGED pageHeaders /\ disturbed' = TRUE
    /\ headerCall' = [headerCall EXCEPT ![c] = Rest]
    /\ UNCHANGED <<extraHeaders, view, wanted>>

(* doSetHTTPAuth: the session does not know of it. *)
SetHTTPAuth ==
    /\ ~disturbed
    /\ pageHeaders' = [pageHeaders EXCEPT ![view] = {"Authorization"}]
    /\ disturbed' = TRUE
    /\ UNCHANGED <<extraHeaders, view, headerCall, wanted>>

-----------------------------------------------------------------------------
(* doNavigateWithHeaders *)
NavigateWithHeaders(c) ==
    /\ Begins(c)
    /\ \E names \in (SUBSET Headers) \ {{}} : extraHeaders' = extraHeaders \cup names
    /\ Sending(c, "navigate", extraHeaders', extraHeaders) /\ Overlaps
    /\ UNCHANGED <<pageHeaders, view, wanted>>

Navigate(c) ==
    /\ InStep(c, "navigate")
    /\ pageHeaders' = [pageHeaders EXCEPT ![headerCall[c].page] = headerCall[c].copy]
    /\ headerCall' = [headerCall EXCEPT ![c].step = "restore"]
    /\ UNCHANGED <<extraHeaders, view, wanted, disturbed>>

RestoreHeaders(c) ==
    /\ InStep(c, "restore")
    /\ extraHeaders' = headerCall[c].old
    /\ headerCall' = [headerCall EXCEPT ![c] = [@ EXCEPT !.step = "send", !.copy = headerCall[c].old]]
    /\ UNCHANGED <<pageHeaders, view, wanted, disturbed>>

(* Another page becomes the active one. *)
ShowOther ==
    /\ ~disturbed
    /\ view' \in Views \ {view} /\ disturbed' = TRUE
    /\ UNCHANGED <<extraHeaders, pageHeaders, headerCall, wanted>>

PageStopped == disturbed /\ Resting

PageNext ==
    \/ \E c \in HeaderClients :
          \/ SetExtraHeaders(c) \/ ClearExtraHeaders(c) \/ SendHeaders(c)
          \/ NavigateWithHeaders(c) \/ Navigate(c) \/ RestoreHeaders(c)
    \/ SetHTTPAuth \/ ShowOther

-----------------------------------------------------------------------------
PageTypeOK ==
    /\ extraHeaders \cup wanted \subseteq Headers
    /\ \A v \in Views : pageHeaders[v] \subseteq Headers
    /\ \A c \in HeaderClients : InStep(c, "idle") \/ InStep(c, "send") \/ InStep(c, "navigate") \/ InStep(c, "restore")

(* Once no call runs, the session and the page have the headers that were  *)
(* set and not cleared, unless calls overlapped, the page refused them,    *)
(* set_http_auth replaced them or another page was made the active one.    *)
HeadersAsSet == Resting /\ ~disturbed => extraHeaders = wanted /\ pageHeaders[view] = wanted
===============================================================================
