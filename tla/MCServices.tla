------------------------------ MODULE MCServices ------------------------------
(***************************************************************************)
(* Instances of the services around the agent loop, small enough for TLC.  *)
(* They share no state: what one tool does to another's goes through the   *)
(* model or through a file.  (TaskStop, which knows two services, sends an *)
(* id of a job to one and an id of a task to the other, bg/tools.go:287 to *)
(* 300.)  A behaviour of all is a tuple of behaviours of each, so that one *)
(* of them moves here while the others stay where they began.              *)
(***************************************************************************)
EXTENDS TaskGraph, BackgroundJobs, SessionLog, Compaction, ProviderStream, Providers,
        Orchestration, ToolPool, ToolHooks, FileTools, WebTools, Shells, Inspection,
        BrowserManager, BrowserTabs, BrowserRoutes, BrowserListener, BrowserPage,
        BrowserCookies, SearchTools, InspectApi, SessionTools, SessionRepo, TLC

CONSTANT Services   \* those that move, one in each behaviour

VARIABLE focus      \* the service that moves

vars == <<focus, graphVars, jobsVars, sessionVars, compactionVars, streamVars,
          registryVars, orchestrationVars, poolVars, hooksVars, schemaVars,
          fileVars, fetchVars, searchVars, shellVars, inspectionVars,
          managerVars, tabVars, routeVars, listenVars, pageVars, cookieVars,
          findVars, apiVars, inspectVars, sessionToolVars, repoVars>>

(* Who does not move begins in one of its states only. *)
Init ==
    /\ focus \in Services
    /\ GraphInit
    /\ JobsInit
    /\ SessionInit
    /\ CompactionInit
    /\ focus = "compaction" \/ (engine = "pipeline" /\ history[1].size = Min(Sizes))
    /\ StreamInit
    /\ focus = "stream" \/ (profile = "openai")
    /\ RegistryInit
    /\ OrchestrationInit
    /\ focus = "orchestration" \/ (callKind = <<"safe">>)
    /\ PoolInit
    /\ HooksInit
    /\ SchemasInit
    /\ FilesInit
    /\ focus = "files" \/ (host = "session" /\ disk.version = 0)
    /\ FetchInit
    /\ SearchInit
    /\ focus = "search" \/ (engines = <<"ddg">>)
    /\ ShellInit
    /\ focus = "shell" \/ (tool = "Bash")
    /\ InspectionInit
    /\ focus = "inspection" \/ (frames = <<"clean">> /\ detector)
    /\ ManagerInit
    /\ TabsInit
    /\ RoutesInit
    /\ ListenInit
    /\ PageInit
    /\ CookiesInit
    /\ focus = "cookies" \/ ~impersonates
    /\ SearchToolsInit
    /\ focus = "find" \/ (ask.tool = "Glob" /\ ask.segs = <<>>)
    /\ ApiInit
    /\ SessionToolsInit
    /\ focus = "sessionTools" \/ (callContext = "session")
    /\ RepoInit

Others ==
    /\ UNCHANGED focus
    /\ IF focus = "graph" THEN TRUE ELSE UNCHANGED graphVars
    /\ IF focus = "jobs" THEN TRUE ELSE UNCHANGED jobsVars
    /\ IF focus = "session" THEN TRUE ELSE UNCHANGED sessionVars
    /\ IF focus = "compaction" THEN TRUE ELSE UNCHANGED compactionVars
    /\ IF focus = "stream" THEN TRUE ELSE UNCHANGED streamVars
    /\ IF focus = "registry" THEN TRUE ELSE UNCHANGED registryVars
    /\ IF focus = "orchestration" THEN TRUE ELSE UNCHANGED orchestrationVars
    /\ IF focus = "pool" THEN TRUE ELSE UNCHANGED poolVars
    /\ IF focus = "hooks" THEN TRUE ELSE UNCHANGED hooksVars
    /\ IF focus = "schemas" THEN TRUE ELSE UNCHANGED schemaVars
    /\ IF focus = "files" THEN TRUE ELSE UNCHANGED fileVars
    /\ IF focus = "fetch" THEN TRUE ELSE UNCHANGED fetchVars
    /\ IF focus = "search" THEN TRUE ELSE UNCHANGED searchVars
    /\ IF focus = "shell" THEN TRUE ELSE UNCHANGED shellVars
    /\ IF focus = "inspection" THEN TRUE ELSE UNCHANGED inspectionVars
    /\ IF focus = "manager" THEN TRUE ELSE UNCHANGED managerVars
    /\ IF focus = "tabs" THEN TRUE ELSE UNCHANGED tabVars
    /\ IF focus = "routes" THEN TRUE ELSE UNCHANGED routeVars
    /\ IF focus = "listen" THEN TRUE ELSE UNCHANGED listenVars
    /\ IF focus = "headers" THEN TRUE ELSE UNCHANGED pageVars
    /\ IF focus = "cookies" THEN TRUE ELSE UNCHANGED cookieVars
    /\ IF focus = "find" THEN TRUE ELSE UNCHANGED findVars
    /\ IF focus = "videoApi" THEN TRUE ELSE UNCHANGED apiVars
    /\ IF focus = "inspectApi" THEN TRUE ELSE UNCHANGED inspectVars
    /\ IF focus = "sessionTools" THEN TRUE ELSE UNCHANGED sessionToolVars
    /\ IF focus = "repo" THEN TRUE ELSE UNCHANGED repoVars

Next ==
    \/ focus = "graph" /\ GraphNext /\ Others
    \/ focus = "jobs" /\ JobsNext /\ Others
    \/ focus = "session" /\ SessionNext /\ Others
    \/ focus = "compaction" /\ CompactionNext /\ Others
    \/ focus = "stream" /\ StreamNext /\ Others
    \/ focus = "registry" /\ RegistryNext /\ Others
    \/ focus = "orchestration" /\ OrchestrationNext /\ Others
    \/ focus = "pool" /\ PoolNext /\ Others
    \/ focus = "hooks" /\ HooksNext /\ Others
    \/ focus = "schemas" /\ SchemasNext /\ Others
    \/ focus = "files" /\ FilesNext /\ Others
    \/ focus = "fetch" /\ FetchNext /\ Others
    \/ focus = "search" /\ SearchNext /\ Others
    \/ focus = "shell" /\ ShellNext /\ Others
    \/ focus = "inspection" /\ InspectionNext /\ Others
    \/ focus = "manager" /\ ManagerNext /\ Others
    \/ focus = "tabs" /\ TabsNext /\ Others
    \/ focus = "routes" /\ RoutesNext /\ Others
    \/ focus = "listen" /\ ListenNext /\ Others
    \/ focus = "headers" /\ PageNext /\ Others
    \/ focus = "cookies" /\ CookiesNext /\ Others
    \/ focus = "find" /\ FindNext /\ Others
    \/ focus = "videoApi" /\ VideoApiNext /\ Others
    \/ focus = "inspectApi" /\ InspectApiNext /\ Others
    \/ focus = "sessionTools" /\ SessionToolsNext /\ Others
    \/ focus = "repo" /\ RepoNext /\ Others

(* The states without a step: a job that was removed and that nobody asks  *)
(* for, a session that cannot be loaded, an answer that was given, a shell *)
(* that has ended or whose children hold the output, pages that wait for   *)
(* an answer, and the ends of the bounds.  Any other is reported as a      *)
(* deadlock.                                                               *)
Stopped ==
    \/ focus = "jobs" /\ (runner = "done" /\ ~registered /\ \A c \in Callers : pc[c] = "idle")
    \/ focus = "session" /\ storage = "refused"
    \/ focus = "compaction" /\ (phase = "panicked" \/ (phase = "call" /\ Len(history) + 2 > MaxHistory))
    \/ focus = "stream" /\ (stream = "answered" \/ (stream = "closed" /\ Len(turns) = MaxTurns))
    \/ focus = "orchestration" /\ runTools = "returned"
    \/ focus = "files" /\ FilesStopped
    \/ focus = "shell" /\ (commandOutcome # "none" \/ shell = "waited")
    \/ focus = "manager" /\ ManagerStopped
    \/ focus = "tabs" /\ TabsStopped
    \/ focus = "listen" /\ ListenStopped
    \/ focus = "headers" /\ PageStopped
    \/ focus = "find" /\ FindStopped
    \/ focus = "videoApi" /\ VideoApiStopped
    \/ focus = "inspectApi" /\ InspectApiStopped
    \/ focus = "sessionTools" /\ SessionToolsStopped

Spec == Init /\ [][Next \/ (Stopped /\ UNCHANGED vars)]_vars

Symmetry == Permutations(Ids)

-------------------------------------------------------------------------------
(* The services keep their types.  Here as below, what holds of a service  *)
(* is looked at where that service moves: elsewhere it is as it began.     *)
TypesOK ==
    /\ focus = "graph" => GraphTypeOK
    /\ focus = "jobs" => JobsTypeOK
    /\ focus = "session" => SessionTypeOK
    /\ focus = "compaction" => CompactionTypeOK
    /\ focus = "stream" => StreamTypeOK
    /\ focus = "registry" => RegistryTypeOK
    /\ focus = "orchestration" => OrchestrationTypeOK
    /\ focus = "pool" => PoolTypeOK
    /\ focus \in {"hooks", "schemas"} => ToolHooksTypeOK
    /\ focus = "files" => FilesTypeOK
    /\ focus \in {"fetch", "search"} => WebTypeOK
    /\ focus = "shell" => ShellTypeOK
    /\ focus = "inspection" => InspectionTypeOK
    /\ focus = "manager" => ManagerTypeOK
    /\ focus = "tabs" => TabsTypeOK
    /\ focus = "routes" => RoutesTypeOK
    /\ focus = "listen" => ListenTypeOK
    /\ focus = "headers" => PageTypeOK
    /\ focus = "cookies" => CookiesTypeOK
    /\ focus = "find" => FindTypeOK
    /\ focus \in {"videoApi", "inspectApi"} => ApiTypeOK
    /\ focus = "sessionTools" => SessionToolsTypeOK
    /\ focus = "repo" => RepoTypeOK

(* What a provider is sent is what the conversation and the limits say:    *)
(* calls with their results, each frame once, a body that marshals but     *)
(* after a cut, a thinking budget that leaves room (llmprovider).          *)
RequestsFaithful ==
    /\ focus = "stream" => RequestPaired /\ FramesSentOnce /\ RefusedOnlyAfterCut
    /\ focus = "registry" => ThinkingFits

(* What tools are offered, asked and answered: an agent gets the tools its *)
(* list names, a call's hooks are those registered when it began, the      *)
(* schemas of a session are few, every call of a message is answered once, *)
(* in order, and the host knows the session's mode (orchestration.go,      *)
(* hooks.go, api_schema.go, resolve.go, planmode.go).                      *)
CallsServed ==
    /\ focus = "orchestration" => OneAnswerEachInOrder
    /\ focus = "hooks" => AskedAsRegistered
    /\ focus = "schemas" => FewBases
    /\ focus = "pool" => AgentGetsItsList
    /\ focus = "sessionTools" => HostKnowsMode

(* What a tool knows of a file or a page is no staler than it says: no     *)
(* edit over what the model has not seen but for what came unseen, no page *)
(* from a cache past its time, no search that gives up early; nor is a     *)
(* session's storage staler than its file (fileio, webfetch, websearch,    *)
(* session/repo.go).                                                       *)
NothingStale ==
    /\ focus = "files" => GateIsExact
    /\ focus = "fetch" => CacheBounded /\ HitIsRecent
    /\ focus = "search" => SearchExhausts
    /\ focus = "repo" => RepoKept

(* What came of a thing is told as it was: how a command ended, what an    *)
(* inspection saw and what its client is sent, what a search found         *)
(* (shell/exec.go, safeagent.go, tools.go, video_inspect.go, grep.go,      *)
(* glob.go).                                                               *)
OutcomesTrue ==
    /\ focus = "shell" => OutcomeNamesTheCause
    /\ focus = "inspection" => SafeWasSeen
    /\ focus = "find" => GrepTellsAll /\ GlobTellsAll
    /\ focus = "videoApi" => NoSessionLeft /\ EventsGoOnce /\ AcceptedUnlessStopped
    /\ focus = "inspectApi" => InspectionForwarded

(* The browser's sessions: who will close a browser, how many there are,   *)
(* and where calls go, however calls, pages and the sweep interleave.      *)
BrowserKept ==
    /\ focus = "manager" => BrowsersAccounted /\ LimitByRaceOnly
    /\ focus = "tabs" => UnreachableOnlyBy

(* What calls set up on a page stays what they asked for: routes, headers, *)
(* the listener, whose packets pair each request with its answer, and the  *)
(* cookies of the clients beside it.                                       *)
PageServed ==
    /\ focus = "routes" => RoutesLapseOnlyBy
    /\ focus = "headers" => HeadersAsSet
    /\ focus = "cookies" => CookiesAsAnswered
    /\ focus = "listen" => PacketsPaired /\ OthersAreSilent

(* What no step breaks: a provider is lost to its registrants alone, the   *)
(* tools a prompt begins with do not move when servers come and go, and    *)
(* the calls of a message run and are answered as ToolCalls allows         *)
(* (llmprovider/registry.go, tools/assembly.go, tools/orchestration.go).   *)
PromisesKept == LostOnlyToARegistrant /\ PrefixStable /\ CallsKeepPromise
===============================================================================
