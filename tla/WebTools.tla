------------------------------- MODULE WebTools -------------------------------
(***************************************************************************)
(* WebFetch with the cache it keeps between calls (tools/webfetch) and     *)
(* WebSearch with its chain of providers (tools/websearch).                *)
(*                                                                         *)
(* The web is outside: a page has a version that its server changes at any *)
(* moment, and any request may be redirected, fail or answer an error      *)
(* status.  Time is counted in ticks of which TTL make the lifetime of a   *)
(* cache entry.  Two calls run at once: the tool says it is safe to        *)
(* (webfetch.go:129), and the cache's lock is held by Get and by Set only. *)
(***************************************************************************)
EXTENDS Integers, Sequences, FiniteSets, FiniteSetsExt

CONSTANTS
    Fetchers,    \* the calls of WebFetch that run at once
    Urls,
    CacheSize,   \* FetchCache.maxSize
    TTL,         \* cacheTTL, in ticks
    MaxHops,     \* maxRedirects
    MaxVersionsOfPage     \* bound: versions of the web

ASSUME WebAssumption ==
    /\ TTL \in Nat /\ CacheSize \in Nat \ {0} /\ IsFiniteSet(Urls)
    /\ MaxVersionsOfPage \in Nat \ {0}

VARIABLES
    page,        \* the version of every page on its server
    outdated,    \* per version: ticks since the servers replaced it
    cache,       \* FetchCache.entries: what is kept for a URL
    fetch,       \* per call: where it is and what it holds
    told,        \* the last answer
    engines,     \* the search providers, in the order they are tried
    search       \* the search in progress: engines tried and what came of it

fetchVars == <<page, outdated, cache, fetch, told>>
searchVars == <<engines, search>>

NoFetch == [at |-> "idle"]
NotTold == [from |-> "nothing"]

FetchInit ==
    /\ page = 1
    /\ outdated = <<>>
    /\ cache = <<>>
    /\ fetch = [c \in Fetchers |-> NoFetch]
    /\ told = NotTold

(* ResolveProvider: Brave first when there is a key for it. *)
SearchInit ==
    /\ engines \in {<<"ddg">>, <<"brave", "ddg">>}
    /\ search = [tried |-> <<>>, result |-> "none"]

-------------------------------------------------------------------------------
(* The cache.                                                               *)

IsExpired(entry) == entry.age > TTL

(* Get takes an expired entry for a missing one, and leaves it there. *)
Cached(url) == url \in DOMAIN cache /\ ~IsExpired(cache[url])

(* Set makes room whenever the cache is full, also when the key is there   *)
(* already; which entry goes is the choice of the map's iteration.         *)
StoredIn(entries, url, entry) ==
    {[u \in kept \cup {url} |-> IF u = url THEN entry ELSE entries[u]] :
        kept \in IF Cardinality(DOMAIN entries) >= CacheSize
                 THEN {DOMAIN entries \ {u} : u \in DOMAIN entries}
                 ELSE {DOMAIN entries}}

-------------------------------------------------------------------------------
(* One call of WebFetch.                                                    *)

(* A call looks into the cache first, by the URL alone: what it finds was  *)
(* made for the format of an earlier call and has no answer to a prompt.   *)
(* (Formats and prompts are left out.)                                     *)
LookUp(c, url) ==
    /\ fetch[c] = NoFetch
    /\ IF Cached(url)
       THEN /\ told' = [from |-> "cache", version |-> cache[url].version]
            /\ UNCHANGED fetch
       ELSE /\ fetch' = [fetch EXCEPT ![c] = [at |-> "request", url |-> url, hops |-> 0]]
            /\ UNCHANGED told
    /\ UNCHANGED <<page, outdated, cache>>

Ends(c, answer) ==
    /\ told' = answer
    /\ fetch' = [fetch EXCEPT ![c] = NoFetch]
    /\ UNCHANGED <<page, outdated, cache>>

(* An address that is not valid, or not permitted: the first one is asked  *)
(* about, those a redirect leads to are not.                               *)
Invalid(c) == fetch[c] = NoFetch /\ Ends(c, [from |-> "refused"])
NotPermitted(c) == fetch[c] = NoFetch /\ Ends(c, [from |-> "refused"])

(* A redirect to the same place but for "www." is followed. *)
Follow(c) ==
    /\ fetch[c].at = "request" /\ fetch[c].hops < MaxHops - 1
    /\ fetch' = [fetch EXCEPT ![c].hops = @ + 1]
    /\ UNCHANGED <<page, outdated, cache, told>>

(* One that leads elsewhere is told to the model; one too many, and every  *)
(* failure of the connection, is an error.  Nothing of it is cached.       *)
Redirected(c) == fetch[c].at = "request" /\ Ends(c, [from |-> "redirect"])
FetchFails(c) == fetch[c].at = "request" /\ Ends(c, [from |-> "error"])

(* The answer, whatever its status, is read and put into the format asked  *)
(* for (processBody).                                                      *)
Read(c) ==
    /\ fetch[c].at = "request"
    /\ fetch' = [fetch EXCEPT ![c] = [at |-> "read", url |-> @.url, version |-> page]]
    /\ UNCHANGED <<page, outdated, cache, told>>

(* It is kept, with the present time, before a prompt is applied to it. *)
Store(c) ==
    /\ fetch[c].at = "read"
    /\ cache' \in StoredIn(cache, fetch[c].url, [version |-> fetch[c].version, age |-> 0])
    /\ fetch' = [fetch EXCEPT ![c].at = "stored"]
    /\ UNCHANGED <<page, outdated, told>>

(* The prompt is applied by a second model if there is one; when that      *)
(* fails the page itself is returned.                                      *)
ReturnPage(c) ==
    /\ fetch[c].at = "stored"
    /\ Ends(c, [from |-> "web", version |-> fetch[c].version])

-------------------------------------------------------------------------------
(* The surroundings.  Between reading a page and storing it there is only   *)
(* computation, and the transfer of a body is taken to be shorter than a   *)
(* tick: the age of an entry counts from its end, however old the page is  *)
(* by then (redirect.go:100).  A call whose answer is in goes on to the    *)
(* next with the next LookUp.                                              *)

Tick ==
    /\ \A c \in Fetchers : fetch[c].at # "read"
    /\ cache # <<>>
    /\ outdated' = [v \in DOMAIN outdated |-> Min({outdated[v] + 1, TTL + 1})]
    /\ cache' = [u \in DOMAIN cache |->
                   [cache[u] EXCEPT !.age = Min({@ + 1, TTL + 1})]]
    /\ told' = NotTold
    /\ UNCHANGED <<page, fetch>>

Publish ==
    /\ page < MaxVersionsOfPage
    /\ page' = page + 1
    /\ outdated' = Append(outdated, 0)
    /\ UNCHANGED <<cache, fetch, told>>

ClearCache ==
    /\ cache # <<>>
    /\ cache' = <<>>
    /\ UNCHANGED <<page, outdated, fetch, told>>

-------------------------------------------------------------------------------
(* WebSearch.  An engine answers with hits, with none, or fails; a          *)
(* compressed answer that nobody decompresses is a failure to parse:       *)
(* BraveProvider asks for gzip itself, and net/http decompresses only what *)
(* it asked for.  A chain of one engine is that engine: it has no chain    *)
(* around it, and an empty answer is returned as it is.                    *)

Tried == Len(search.tried)

TryEngine(outcome) ==
    /\ search.result = "none"
    /\ Tried < Len(engines)
    /\ (engines[Tried + 1] = "ddg" => outcome # "garbled")
    /\ LET tried == Append(search.tried, outcome)
       IN search' = [tried |-> tried,
                     result |-> CASE outcome = "hits" -> "hits"
                                  [] outcome # "hits" /\ Len(tried) < Len(engines) -> "none"
                                  [] outcome = "empty" /\ Len(engines) = 1 -> "nothing"
                                  [] OTHER -> "error"]
    /\ UNCHANGED engines

NewSearch ==
    /\ search.result # "none"
    /\ search' = [tried |-> <<>>, result |-> "none"]
    /\ UNCHANGED engines

FetchNext ==
    \/ \E c \in Fetchers :
          \/ \E u \in Urls : LookUp(c, u)
          \/ Invalid(c) \/ NotPermitted(c) \/ Follow(c) \/ Redirected(c) \/ FetchFails(c)
          \/ Read(c) \/ Store(c) \/ ReturnPage(c)
    \/ Tick \/ Publish \/ ClearCache

SearchNext ==
    \/ \E o \in {"hits", "empty", "fails", "garbled"} : TryEngine(o)
    \/ NewSearch

-------------------------------------------------------------------------------
Answers == [from : {"nothing", "refused", "redirect", "error"}]
             \cup [from : {"cache", "web"}, version : 1..MaxVersionsOfPage]

(* Types of the web tools' state. *)
WebTypeOK ==
    /\ page \in 1..MaxVersionsOfPage
    /\ outdated \in [1..page - 1 -> 0..TTL + 1]
    /\ DOMAIN cache \subseteq Urls
    /\ \A u \in DOMAIN cache :
          cache[u] \in [version : 1..page, age : 0..TTL + 1]
    /\ \A c \in Fetchers : fetch[c].at \in {"idle", "request", "read", "stored"}
    /\ told \in Answers
    /\ search.result \in {"none", "hits", "nothing", "error"}

(* The cache never holds more entries than its size, whatever calls        *)
(* overlap (FetchCache.Set).                                               *)
CacheBounded == Cardinality(DOMAIN cache) <= CacheSize

(* "15-minute cache" (webfetch.go:175): what a hit returns was still on    *)
(* its server TTL ago, although calls that overlap may store an older page *)
(* over a newer one.                                                       *)
HitIsRecent ==
    told.from = "cache" /\ told.version < page => outdated[told.version] <= TTL

(* The chain of engines gives up only when every one was tried, and hands  *)
(* out hits of the first that had any (FallbackProvider.Search).           *)
SearchExhausts ==
    /\ search.result \in {"error", "nothing"} => Tried = Len(engines)
    /\ \A i \in 1..Tried : search.tried[i] = "hits" => i = Tried /\ search.result = "hits"
===============================================================================
