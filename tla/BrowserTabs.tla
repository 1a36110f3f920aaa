------------------------------ MODULE BrowserTabs ------------------------------
(***************************************************************************)
(* The tabs of a browser session, the frame its calls go to, and the calls *)
(* of the agents that share it.                                            *)
(*                                                                         *)
(* The session knows the pages it opened or found; the browser has others, *)
(* those a page opened or that were left behind, and a page may close by   *)
(* itself.  A call takes its page first and the lock later.                *)
(***************************************************************************)
EXTENDS Integers, Sequences, FiniteSets

CONSTANTS
    TabClients,   \* calls that may run at once
    MaxPages,     \* bound: pages ever opened
    MaxTabs       \* bound: tab ids ever given

VARIABLES
    pages,        \* pages open in the browser, numbered as they were opened
    opened,       \* pages ever opened
    tabs,         \* of each tab id given, its page
    closedTabs,   \* tab ids that are in BrowserSession.pages no more
    activeTab,    \* its active tab
    iframeCtx,    \* the page of the frame calls go to, 0 for none
    tabCall,      \* of each call: its step and its page or count
    selfClosed    \* pages that closed by themselves

tabVars == <<pages, opened, tabs, closedTabs, activeTab, iframeCtx, tabCall, selfClosed>>

TabIds == DOMAIN tabs \ closedTabs
Ready == [step |-> "idle", arg |-> 0]
CallTo(c, step, arg) == tabCall' = [tabCall EXCEPT ![c] = [step |-> step, arg |-> arg]]
CallAt(c, step) == tabCall[c].step = step

(* activePage: the frame, or the page of the active tab. *)
ActivePage ==
    IF iframeCtx # 0 THEN iframeCtx ELSE IF activeTab \in TabIds THEN tabs[activeTab] ELSE 0

TabsInit ==
    /\ pages = {1} /\ opened = 1
    /\ tabs = <<1>> /\ closedTabs = {} /\ activeTab = 1 /\ iframeCtx = 0
    /\ tabCall = [c \in TabClients |-> Ready]
    /\ selfClosed = {}

-----------------------------------------------------------------------------
OpenPage == opened < MaxPages /\ opened' = opened + 1 /\ pages' = pages \cup {opened + 1}

(* A page under a new tab id, which becomes the active one. *)
AddTab(c, page) ==
    /\ Len(tabs) < MaxTabs
    /\ tabs' = Append(tabs, page) /\ activeTab' = Len(tabs) + 1 /\ iframeCtx' = 0
    /\ CallTo(c, "idle", 0)

(* doNewTab, whose page stays behind when it cannot navigate. *)
NewTab(c) ==
    /\ CallAt(c, "idle") /\ ActivePage # 0 /\ OpenPage
    /\ \/ CallTo(c, "idle", 0)
       \/ CallTo(c, "opened", opened')
    /\ UNCHANGED <<tabs, closedTabs, activeTab, iframeCtx, selfClosed>>

NewTabAdded(c) ==
    /\ CallAt(c, "opened") /\ AddTab(c, tabCall[c].arg)
    /\ UNCHANGED <<pages, opened, closedTabs, selfClosed>>

(* doSwitchTab: what Activate returns changes nothing. *)
SwitchTab(t) ==
    /\ ActivePage # 0 /\ t \in TabIds
    /\ activeTab' = t /\ iframeCtx' = 0
    /\ UNCHANGED <<pages, opened, tabs, closedTabs, tabCall, selfClosed>>

(* Some other tab, if there is one. *)
NextActive(t) ==
    IF activeTab = t /\ TabIds \ {t} # {} THEN activeTab' \in TabIds \ {t} ELSE activeTab' = activeTab

(* doCloseTab: the frame stays what it was.  The page closes at once: one  *)
(* that asks whether it may be left keeps the call, and the session's      *)
(* lock with it, until it is answered, which is left out.                  *)
CloseTab(t) ==
    /\ ActivePage # 0 /\ t \in TabIds
    /\ pages' = pages \ {tabs[t]}
    /\ closedTabs' = closedTabs \cup {t}
    /\ NextActive(t)
    /\ UNCHANGED <<opened, tabs, iframeCtx, tabCall, selfClosed>>

(* doClickForNewTab: the click may open a page; then the pages of the      *)
(* browser are counted until they are more than the tabs were, and the     *)
(* last one is taken for the new one.                                      *)
ClickForNewTab(c) ==
    /\ CallAt(c, "idle") /\ ActivePage \in pages
    /\ CallTo(c, "clicked", Cardinality(TabIds))
    /\ \/ OpenPage
       \/ UNCHANGED <<pages, opened>>
    /\ UNCHANGED <<tabs, closedTabs, activeTab, iframeCtx, selfClosed>>

ClickFindsTab(c) ==
    /\ CallAt(c, "clicked") /\ Cardinality(pages) > tabCall[c].arg
    /\ \E page \in pages : (\A other \in pages : other <= page) /\ AddTab(c, page)
    /\ UNCHANGED <<pages, opened, closedTabs, selfClosed>>

ClickFindsNone(c) ==
    /\ CallAt(c, "clicked") /\ CallTo(c, "idle", 0)
    /\ UNCHANGED <<pages, opened, tabs, closedTabs, activeTab, iframeCtx, selfClosed>>

(* doEnterIframe, doExitIframe *)
FindIframe(c) ==
    /\ CallAt(c, "idle") /\ ActivePage \in pages
    /\ CallTo(c, "frame", ActivePage)
    /\ UNCHANGED <<pages, opened, tabs, closedTabs, activeTab, iframeCtx, selfClosed>>

EnterIframe(c) ==
    /\ CallAt(c, "frame") /\ CallTo(c, "idle", 0)
    /\ iframeCtx' = tabCall[c].arg
    /\ UNCHANGED <<pages, opened, tabs, closedTabs, activeTab, selfClosed>>

ExitIframe ==
    /\ ActivePage # 0 /\ iframeCtx' = 0
    /\ UNCHANGED <<pages, opened, tabs, closedTabs, activeTab, tabCall, selfClosed>>

(* The pages themselves: one opens another, one closes. *)
PagePopsUp ==
    /\ pages # {} /\ OpenPage
    /\ UNCHANGED <<tabs, closedTabs, activeTab, iframeCtx, tabCall, selfClosed>>

PageCloses ==
    /\ \E page \in pages : pages' = pages \ {page} /\ selfClosed' = selfClosed \cup {page}
    /\ UNCHANGED <<opened, tabs, closedTabs, activeTab, iframeCtx, tabCall>>

(* No tab is left, which nothing can change, or the bounds are reached. *)
TabsStopped ==
    \A c \in TabClients : CallAt(c, "idle") \/ (CallAt(c, "opened") /\ Len(tabs) = MaxTabs)

TabsNext ==
    \/ \E c \in TabClients :
          \/ NewTab(c) \/ NewTabAdded(c) \/ FindIframe(c) \/ EnterIframe(c)
          \/ ClickForNewTab(c) \/ ClickFindsTab(c) \/ ClickFindsNone(c)
    \/ \E t \in TabIds : SwitchTab(t) \/ CloseTab(t)
    \/ ExitIframe \/ PagePopsUp \/ PageCloses

-----------------------------------------------------------------------------
TabsTypeOK ==
    /\ pages \cup selfClosed \subseteq 1..opened /\ iframeCtx \in 0..opened
    /\ activeTab \in DOMAIN tabs
    /\ closedTabs \subseteq DOMAIN tabs /\ \A t \in DOMAIN tabs : tabs[t] \in 1..opened

(* A call goes to an open page unless the session has no tab left, the     *)
(* page closed by itself, it was the page of a frame that was entered, or  *)
(* a click had put it under two tabs: close_tab alone never leaves the     *)
(* session at a closed page.                                               *)
UnreachableOnlyBy ==
    \/ ActivePage \in pages \cup selfClosed \/ TabIds = {} \/ iframeCtx # 0
    \/ \E t \in closedTabs : tabs[t] = ActivePage
===============================================================================
