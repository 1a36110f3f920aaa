--------------------------- MODULE BrowserCookies ---------------------------
(***************************************************************************)
(* The cookies of a browser session that its page and its HTTP clients     *)
(* hand each other (actions_http.go, tls_client.go): one site, one cookie. *)
(*                                                                         *)
(* A session has an http.Client and, if it was asked to impersonate a      *)
(* browser's TLS, a second client that then sends all requests.  Both are  *)
(* made with one jar.                                                      *)
(***************************************************************************)
EXTENDS Integers, Sequences

CONSTANTS
    CookieClients,   \* calls that may run at once
    CookieValues,
    MaxJars,         \* bound: jars a session goes through
    ProxyCount       \* proxies that take turns

ASSUME CookiesAssumption == ProxyCount \in Nat \ {0}

VARIABLES
    impersonates,    \* the session has a TLS client
    jars,            \* the cookie in each jar, "none" or a value
    httpJar,         \* that of the http.Client
    pageCookie,      \* that of the page
    cookieCall,      \* of each call: its step, its jar and the cookie it carries
    proxyTurn,       \* ProxyRotator.current
    beside,          \* calls of now have run side by side
    expected,        \* cookie that the answers so far let a caller expect, or "unsure"
    firstCookie      \* cookie that was put in the first jar, whatever was closed since

cookieVars == <<impersonates, jars, httpJar, pageCookie, cookieCall, proxyTurn, beside, expected, firstCookie>>

NoCookieCall == [step |-> "idle", jar |-> 0, cookie |-> "none"]
CookieAt(c, step) == cookieCall[c].step = step
NoCookieCalls == \A c \in CookieClients : CookieAt(c, "idle")

(* The TLS client keeps the jar it was made with. *)
RequestJar == IF impersonates THEN 1 ELSE httpJar

CookiesInit ==
    /\ impersonates \in BOOLEAN
    /\ jars = <<"none">> /\ httpJar = 1 /\ pageCookie = "none"
    /\ cookieCall = [c \in CookieClients |-> NoCookieCall]
    /\ proxyTurn = 0 /\ beside = FALSE /\ expected = "none" /\ firstCookie = "none"

CookieGoes(c, step, jar, cookie) ==
    cookieCall' = [cookieCall EXCEPT ![c] = [step |-> step, jar |-> jar, cookie |-> cookie]]

BeginsCall(c) == CookieAt(c, "idle") /\ beside' = ~NoCookieCalls

AnswersCall(c, next, first) ==
    /\ cookieCall' = [cookieCall EXCEPT ![c] = NoCookieCall]
    /\ expected' = IF beside THEN "unsure" ELSE next
    /\ firstCookie' = IF beside THEN "unsure" ELSE first

(* A call ends and leaves the cookies as they were, or puts one in its jar. *)
EndsCall(c) == AnswersCall(c, expected, firstCookie) /\ UNCHANGED jars

Puts(c, cookie) ==
    /\ jars' = [jars EXCEPT ![cookieCall[c].jar] = cookie]
    /\ AnswersCall(c, cookie, IF cookieCall[c].jar = 1 THEN cookie ELSE firstCookie)

-----------------------------------------------------------------------------
(* cookies_to_http: the page's cookies are asked for, then the client's    *)
(* jar is looked up without the lock, then filled.                         *)
ReadPageCookies(c) ==
    /\ BeginsCall(c)
    /\ CookieGoes(c, "read", 0, pageCookie)
    /\ UNCHANGED <<impersonates, jars, httpJar, pageCookie, proxyTurn, expected, firstCookie>>

TakeJar(c) ==
    /\ CookieAt(c, "read")
    /\ CookieGoes(c, "fill", httpJar, cookieCall[c].cookie)
    /\ UNCHANGED <<impersonates, jars, httpJar, pageCookie, proxyTurn, beside, expected, firstCookie>>

(* A cookie the page no longer has stays in the jar. *)
FillJar(c) ==
    /\ CookieAt(c, "fill")
    /\ IF cookieCall[c].cookie = "none"
       THEN EndsCall(c)
       ELSE Puts(c, cookieCall[c].cookie)
    /\ UNCHANGED <<impersonates, httpJar, pageCookie, proxyTurn, beside>>

(* http_to_browser_cookies *)
ReadJar(c) ==
    /\ BeginsCall(c)
    /\ CookieGoes(c, "transfer", httpJar, jars[httpJar])
    /\ UNCHANGED <<impersonates, jars, httpJar, pageCookie, proxyTurn, expected, firstCookie>>

GivePage(c) ==
    /\ CookieAt(c, "transfer")
    /\ pageCookie' = IF cookieCall[c].cookie = "none" THEN pageCookie ELSE cookieCall[c].cookie
    /\ EndsCall(c)
    /\ UNCHANGED <<impersonates, httpJar, proxyTurn, beside>>

(* http_close: a new client with a new jar, under the lock. *)
HTTPClose(c) ==
    /\ CookieAt(c, "idle") /\ Len(jars) < MaxJars
    /\ jars' = Append(jars, "none") /\ httpJar' = Len(jars')
    /\ expected' = IF NoCookieCalls THEN "none" ELSE "unsure"
    /\ beside' = ~NoCookieCalls
    /\ UNCHANGED <<impersonates, pageCookie, cookieCall, proxyTurn, firstCookie>>

(* http_get, http_post.  The http.Client has no transport of its own, so   *)
(* that the proxy whose turn it is goes unused (and those that             *)
(* RandomRotation would choose as well).                                   *)
SendRequest(c) ==
    /\ BeginsCall(c)
    /\ CookieGoes(c, "request", RequestJar, jars[RequestJar])
    /\ proxyTurn' = IF impersonates THEN proxyTurn ELSE (proxyTurn + 1) % ProxyCount
    /\ UNCHANGED <<impersonates, jars, httpJar, pageCookie, expected, firstCookie>>

(* The response may set or delete the cookie, in the jar of the client     *)
(* that asked.                                                             *)
GetResponse(c) ==
    /\ CookieAt(c, "request")
    /\ \/ EndsCall(c)
       \/ \E v \in CookieValues \union {"none"} : Puts(c, v)
    /\ UNCHANGED <<impersonates, httpJar, pageCookie, proxyTurn, beside>>

(* The site, set_cookies or clear_cookies. *)
PageCookieChanges ==
    /\ pageCookie' \in CookieValues \union {"none"}
    /\ UNCHANGED <<impersonates, jars, httpJar, cookieCall, proxyTurn, beside, expected, firstCookie>>

CookiesNext ==
    \/ \E c \in CookieClients :
          \/ ReadPageCookies(c) \/ TakeJar(c) \/ FillJar(c)
          \/ ReadJar(c) \/ GivePage(c)
          \/ HTTPClose(c)
          \/ SendRequest(c) \/ GetResponse(c)
    \/ PageCookieChanges

-----------------------------------------------------------------------------
CookiesTypeOK ==
    /\ \A j \in DOMAIN jars : jars[j] \in CookieValues \union {"none"}
    /\ httpJar \in DOMAIN jars /\ proxyTurn \in 0..(ProxyCount - 1)
    /\ {expected, firstCookie} \subseteq CookieValues \union {"none", "unsure"}

(* Calls that did not overlap can be believed: the next request carries    *)
(* the cookie last synced or received, and none after "Cookies cleared."   *)
(* But http_close leaves a TLS client its first jar, and from then on the  *)
(* client's requests carry what that one held, cleared or not, and what    *)
(* their own responses put in it (actions_http.go:58-71,                   *)
(* tls_client.go:153-164).                                                 *)
CookiesAsAnswered ==
    /\ expected = "unsure" \/ jars[RequestJar] = expected \/ (impersonates /\ httpJar # 1)
    /\ firstCookie = "unsure" \/ jars[1] = firstCookie
=============================================================================
