# A formal model of uBuildingAgent

uBuildingAgent is an agent runtime in Go (`src/backend`) and a safety-inspection
application built on it: a browser sends video frames, an agent looks at each with
the help of a language model and tools, and streams what it finds back. This
directory holds TLA+ modules of the parts whose correctness depends on the order of
things (goroutines, channels, locks, cancellations, failed writes), the TLC
configurations that check them on small instances, and TLAPS proofs of the results
that do not depend on the size of the instance.

Contents: [1 The system](#1-the-system) · [2 Modules](#2-modules-and-the-code-they-model) ·
[3 Runs](#3-what-the-runs-check) · [4 Fairness](#4-fairness) · [5 Proofs](#5-what-is-proved) ·
[6 Disagreements](#6-where-code-and-words-disagree) · [7 Not modelled](#7-what-is-not-modelled) ·
[8 Plan](#8-plan)

To check a module: `tlc -config MCVideoSession.cfg MCVideoSession`; to check its
proofs: `tlapm VideoSessionProofs.tla`. `PROJECT.json` lists components, runs,
properties, mutants (the mistakes each property is known to catch), hazards, theorems
and, for every definition, the lines of code it models.

## 1 The system

Paths are under `src/backend`. The hard behaviours are in bold.

### Agent runtime (`agentcore`)

| Part | State it keeps | Operations | What makes it correct |
|---|---|---|---|
| agent (`agent.go`) | history, streaming flag, pending calls, error, `cancelFn`, idle channel, two queues, listeners | Prompt, Continue, AppendMessage, Steer, FollowUp, Abort, AbortAndWait, WaitForIdle, State, Subscribe | one run at a time; state matches the events already forwarded; idle means settled; abort always leads to idle; runs do not mix. **Three goroutines per run, four locks, an aborted loop outlives its tracker** |
| loop (`loop.go`, `budget.go`, `types.go`) | conversation, budget counters, event channel | one run: turns of stream, record, tools, patches, steering; compaction; end | events in the promised order; every tool call answered once, in source order; budget limits; nothing lost by compaction; the channel always closes. **Parallel tools and the loop write to one bounded channel; cancel; every step may fail** |
| context engine (`contextmgr`) | last token estimate | estimate, compact in three stages, summarise | keeps the newest messages, never separates calls and results, what is dropped is summarised |
| session (`session`) | JSONL file, its copy in memory, metadata file, last entry id | append, open, fork, list, delete | what was accepted is there when the session is opened again, or opening fails. **Torn writes, crashes between the three places** |
| messages, hooks, registry (`convert.go`, `hooks.go`, `tool_registry.go`) | tool table | convert, register | which messages the model sees |

The agent starts a loop goroutine (`RunAgentLoop`) and a tracker goroutine
(`runAndTrack`). The loop calls the provider, runs tools (a goroutine each when
parallel), appends to the session, asks the context engine to compact, hands turns to
the memory backend on goroutines of their own, and sends every event to a channel of
64. The tracker takes events, updates the agent's state, calls the listeners and
forwards the event to a second channel of 64 which the caller of Prompt reads. When
its context is cancelled the tracker may give up while the loop goes on.

### Providers (`llmprovider`)

| Part | State | Operations | What makes it correct |
|---|---|---|---|
| registry, options, models | providers by name and source | register, unregister by source, resolve; split of token limits and thinking budgets | a source takes away what it brought, no more; arithmetic within limits |
| decoders (anthropic, google, openaicompat, qwen, sseutil) | partial message, open blocks, tool arguments collected so far | decode one stream of server events | deltas add up to the final message; blocks close; exactly one end or error. **Truncated streams, interleaved blocks** |

### Tools (`tools`)

| Part | State | Operations | What makes it correct |
|---|---|---|---|
| streaming executor | tools with a status, error/discard flags, condition variable | AddTool, GetCompletedResults, GetAllResults, GetRemainingResults, Discard | exclusive tools run alone; starts and results in stream order; each result at most once; waiting ends. **A goroutine per tool and per scan, a condition variable** |
| orchestration | none across calls | run tools in groups, parallel inside a group | the same promise without the stream. **A cancel between any two steps** |
| registry, pool, hooks, schemas | tools with deny rules and switches, hooks, cached schemas | register, assemble a pool, resolve an agent's list, ask hooks | the pool's prefix is stable; a call is asked by the hooks it began with. **Registration meanwhile** |
| background jobs (`bg`) | job, bounded output buffer, cursor, status | Start, Get, ReadOutput, Stop, Wait, Remove | no output skipped; who waited sees the end. **Readers overlap with the runner and one another, copies taken under different locks** |
| task graph | nodes with parent, dependencies, status | Add, Update, Remove, Stop | the graph has no cycle and no new edge leads nowhere. **Updates that fail half-way** |
| file tools | what was read and when | read, edit, write, notebook edit | no edit of a file that was not read or has changed since. **Others write the file too** |
| shells | child process, its children, timeout | run, in front or as a job | the outcome names what ended the command. **Deadline, cancel, exit and children race** |
| web tools | expiring cache, provider order | fetch, search with fallback | no stale answer after expiry, no search given up early. **Overlapping fetches** |
| search tools | none | glob, grep by ripgrep or by a walk | all there is, or it says it was cut; ripgrep keeps this of one mode only. **A ripgrep that breaks off** |
| browser | sessions with tabs, frame, routes, listener, headers, HTTP clients; idle sweep | open, act, close, sweep, intercept, listen, fetch | every browser is somebody's to close; a limit; what was set up on a page stays. **Launch and close outside the lock, callbacks of the page, several agents** |
| todo, plan mode, ask user, sub-agents, MCP, registry | small | replace, enter/leave, ask, delegate | bookkeeping |

### Application (`agents`, `app`, `cmd`, `detector`, `frontend`)

| Part | State | Operations | What makes it correct |
|---|---|---|---|
| video session (`safeagent/video_session.go`) | newest pending frame, running flag, cancel function, history of frames, event channel of 256, wait group | Submit, Stop, per-frame goroutine | one pipeline at a time; newest frame wins and is started; no frame vanishes without a word; the stream of events is in order and closes after Stop. **HTTP handlers, runners, a cleaner and a consumer at once** |
| session table (`app/api/video_inspect.go`) | sessions by id, two-hour timer | create, frame, events, delete | no use of a session that was removed |
| orchestrator (`safeagent.go`, `subagents.go`) | none | an agent whose Task tool starts a vision, an analysis or a closure agent and waits for its answer | a sub-agent that fails or is cancelled ends as a tool result, never as silence |
| server, environment, code agent, skills, permissions | configuration | wiring | — |
| detector (Python), frontend (React) | — | HTTP service, user interface | — |

The browser posts frames without waiting for the previous request, so `Submit` sees
indices in any order. `Submit` starts a goroutine that runs the orchestrator over the
frame's window and forwards its events to the session's channel, which one SSE handler
reads.

## 2 Modules and the code they model

| Module | Code (under `src/backend`) | Proofs | Instance |
|---|---|---|---|
| `VideoSession` | `agents/safeagent/video_session.go` | `VideoSessionProofs` | `MCVideoSession` |
| `AgentLoop` | `agentcore/loop.go`, `budget.go`, queues of `types.go` | `AgentLoopProofs` | `MCAgentLoop` |
| `AgentEvents` | the event stream `agentcore/types.go` documents: abstract specification of the loop | `AgentLoopProofs` | through `AgentLoop` |
| `Agent` | `agentcore/agent.go` | `AgentProofs` | `MCAgent` |
| `StreamingExecutor` | `tools/streaming_executor.go` | `StreamingExecutorProofs` | `MCStreamingExecutor` |
| `ToolCalls` | what both ways of running a message's calls promise: abstract specification of `Orchestration` and `StreamingExecutor` | `StreamingExecutorProofs`, `ToolsProofs` | through both |
| `TaskGraph` | `tools/taskgraph/store.go`, `tools.go` | `ToolsProofs` | `MCServices`, `graph` |
| `BackgroundJobs` | `tools/bg/manager.go`, `tools.go` | `ToolsProofs` | `MCServices`, `jobs` |
| `SessionLog` | `agentcore/session/jsonl.go`, `adapter.go`, `repo.go` | `ServicesProofs` | `MCServices`, `session` |
| `SessionRepo` | `agentcore/session/repo.go`, `jsonl.go`, `memory.go` | `ServicesProofs` | `MCServices`, `repo` |
| `Compaction` | `agentcore/contextmgr`, `agentcore/convert.go` | `ConversationProofs` | `MCServices`, `compaction` |
| `ProviderStream` | `llmprovider/providers/*`: conversion, decoding, sending | `ConversationProofs` | `MCServices`, `stream` |
| `Providers` | `llmprovider/registry.go`, `stream_options.go` | `ServicesProofs`, `ToolsProofs`, `ConversationProofs` | `MCServices`, `registry` |
| `Orchestration` | `tools/orchestration.go` | `ToolsProofs` | `MCServices`, `orchestration` |
| `ToolPool` | `tools/registry.go`, `assembly.go`, `resolve.go` | `ToolsProofs` | `MCServices`, `pool` |
| `ToolHooks` | `tools/hooks.go`, `api_schema.go` | `ToolsProofs` | `MCServices`, `hooks` and `schemas` |
| `FileTools` | `tools/fileio`, `tools/notebook`, cache of `agents/api.go` | `ServicesProofs` | `MCServices`, `files` |
| `WebTools` | `tools/webfetch`, `tools/websearch` | `ServicesProofs` | `MCServices`, `fetch` and `search` |
| `Shells` | `tools/shell/exec.go`, `tools/bash`, `tools/powershell` | `OutcomeProofs` | `MCServices`, `shell` |
| `SearchTools` | `tools/grep`, `tools/glob` | `OutcomeProofs` | `MCServices`, `find` |
| `SessionTools` | `tools/planmode`, `askuser`, `todo`, `brief` | `ToolsProofs` | `MCServices`, `sessionTools` |
| `Inspection` | `agents/safeagent/safeagent.go`, `subagents.go`, `tools.go`, `tools/agenttool` | `OutcomeProofs` | `MCServices`, `inspection` |
| `InspectApi` | `app/api` | `ServicesProofs`, `OutcomeProofs` | `MCServices`, `videoApi` and `inspectApi` |
| `BrowserManager`, `BrowserTabs`, `BrowserRoutes`, `BrowserListener`, `BrowserPage`, `BrowserCookies` | `tools/browser`: `session.go`, `browser.go`, `actions_*.go`, `listener.go`, `tls_client.go` | `ToolsProofs` | `MCServices`, `manager`, `tabs`, `routes`, `listen`, `headers`, `cookies` |
| `Selections` | what a loop over a slice that skips elements leaves, as operators without recursion | `ToolsProofs` | used by `Compaction`, `ToolPool` and others |

Composition follows the code. `AgentLoop` implements `AgentEvents`, `Orchestration` and
`StreamingExecutor` implement `ToolCalls` (refinements, checked and proved); `Agent` is written over loops that send any stream of that shape, so the
two need not be multiplied. `VideoSession` takes the events of a pipeline as given,
`InspectApi` takes a session as something that numbers its events and closes its
channel, `Inspection` takes a sub-agent as what its events tell. The services share no
state in memory: `MCServices` is their union, one of them (`focus`) moving in each
behaviour while the others stay as they began. `PROJECT.json` gives the lines of code
for every definition.

Conventions. A step ends where the code lets another goroutine see or change what it
works on: at a lock, a channel operation, a blocking call. What is done with a lock
held is one step only where nobody can observe a part of it. Program counters (`pc`,
`tracker`, `exec`, `runner`, `stopPc`, ...) name the place a goroutine has reached. An
operator described as a mutant is a plausible mistake, used only to show that a
property would notice it. An MC module adds one stuttering step in the states where
the system may really stop, and leaves the search for deadlocks on.

### VideoSession

A job is a frame, numbered in the order Submit accepted it; its index is `idxOf`.
`submitPc` says how far a Submit that holds `s.mu` has come; a `pc` of `finishing` is a
`finishFrame` that holds it. `SubmitAccept` is the entry (closed test, history, branch
on `running`), `SubmitStart`/`SubmitSpawn` and `SubmitReplace`/`SubmitStatus` are the
two branches, cut where an event is sent, because the consumer runs beside it.
`StopCancel`, `StopClose` and `CloseEvents` are Stop and its cleaner, separate because
only the first holds the lock. A runner goes through window, pipeline events
(`RunEvent`, `RunForward`), the drain after a stop, `FinishDone` (the event outside
the lock), `FinishTake`/`FinishStart` (under it) and `RunExit` (`wg.Done`).
`SafeSend` drops an event when the channel is full and panics when it is closed; a
panic ends the process, so nothing moves after it. Bounds: jobs, progress events of a
pipeline; the capacities are parameters. Left out: the fields of a frame, the report.

### AgentLoop and AgentEvents

`pc` walks through `runLoop` and `runInnerLoop`: `Outer`, `InnerTop` (cancel and budget
tests), `Compact`/`Prepare`, `TurnStart`, the stream (`TextDelta`, `ToolCallDelta`,
`PartialUpdate`, `StreamError`, `StreamEnd` with `RecordUsage`), `Record` (conversation
and session), `TurnEnd`, the tools, `AppendResults`, `ApplyPatch`, `AfterTools` (memory,
hooks, steering), then `Returned`, `Fatal`, `Finish`, `CloseChannel`. `ToolStart`,
`ToolUpdate` and `ToolEnd` of a call belong to a goroutine of its own when parallel,
and wait for the calls before them when sequential. `Emit` waits for room in the
channel, as `emit` does. Steer, FollowUp, Cancel, Receive and SyncTurn are the
surroundings. The answer of the model (how many calls, of which mode), every hook,
every tool's failure and every append of a failing session are choices. A message is
kind, turn and number. `AgentEvents` is the grammar of the event stream as the comments
of `types.go` give it, over the history of events alone.

### Agent

`Prompt` and `Continue` take the caller through the three critical sections of
`runAndTrack` (`SetCancel`, `SetIdle`, `SetState`) one by one. The tracker of a run
takes an event and records it (`Take`, under `mu`), forwards it (`Forward`) or gives up
when cancelled (`GiveUp`), and then runs its deferred calls: `ResetState`, `SignalIdle`,
`UnsetCancel`, `Release`. `Abort` cancels whatever `cancelFn` holds. The loop of a run
goes on after its tracker gave up, until it has nothing more to send or its channel
is full: such loops and the next run exist together. `SentEvents` bounds the events a
loop may send.

### StreamingExecutor

A tool is its place in the stream with a kind: `read` (may share), `shell` (exclusive,
its failure cancels what is running) or `unknown` (completed at once with an error).
`AddTool` and every completion leave a scan behind (`scans`), a goroutine that runs
`ProcessQueue` under the lock. `exec` is the goroutine of a tool: abort test, refusal
or call, store of the result, announcement. The client's wait is split between the
test (`CheckDone`) and the sleep (`Wait`), because the condition variable has a lock of
its own. `Yield` is the marking of results in `GetCompletedResults` and
`GetRemainingResults`.

`ToolCalls` is the contract it shares with `Orchestration`, over calls alone: which may
run beside others (`safe`), which run, which are over and which were answered, in which
order. `Begin`, `End` and `Answer` take sets of calls, because a scan starts several tools
at once and a collection hands out several results. Yielded and completed tools are over;
in `Orchestration` calls that ended or were answered are, since a cancel answers calls that
never ran. Which tools may share differs (an unknown one does here, and does not there) and
is left to each.

### TaskGraph

Each operation holds `s.mu`, hence is one step. `Add`, `Update` (with
`UpdateRefused`, `UpdateBadParent`, `UpdateBadDeps` for the refusals that leave nothing,
the status, or status and parent behind), `RemoveTask`, `StopTask`. `DetectCycle` is the
search from the changed task: the task is in every set closed under what it refers to.

### BackgroundJobs

One job: the runner writes chunks until it returns (`Write`, `Return`), then the
goroutine records the outcome (`Record`) and closes the done channel (`Done`). A caller
reads incrementally in two steps (`ReadSnapshot` under the buffer's lock, `ReadAdvance`
under the manager's), in full, waits (`WaitForTerminal`, `SeeDone`, `GiveUp`), gets
(`GetSnapshot`, `GetStatus`) or stops the job; `RemoveJob` forgets it.

### SessionLog

`lines` is the file, `ended` whether its last line is complete, `saved` the metadata
file, `mem` and `count` their copies in memory. `AppendLine`, `Remember` and `SaveMeta`
are the three places an append writes to; a `Crash` may fall between them or leave a
part of a line, as `AppendFails` may. `Open` refuses a file with one line that does not
load. `Fork` copies a session or the path to one of its entries and goes on with the
copy.

### SessionRepo

`file` and `sidecar` are what is on disk under one id; `store` is what a client holds:
its copy of the entries, its count and its last entry. `CreateSessionFile`,
`OpenSessionFile` and `DeleteSession` hold the repository's lock, `AppendToFile` and
`SaveSidecar` a storage's own, so that two storages of one file, or one that outlives
its file, write without knowing of each other. `ForkInMemory` copies.

### Compaction

`kept` is `conv.Messages`, a message its kind, number and size in tokens. `CompactMiddle`
is the estimator's engine; `CompactStages` and `CompactEmergency` are the stages of the
pipeline, whose slice may go too far (`EmergencyPanics`). `Converse`, `UseTool` and
`AnswerAndAsk` let the conversation grow. `ToModel` is the conversion.

### ProviderStream and Providers

`profile` is the protocol. A request is the history converted (`DashScopeRequest`,
`AnthropicRequest`, with the compatibility switches for empty messages and user turns);
an answer arrives in chunks (`Say`, `OpenCall`, `MoreArguments`, `OpenAIChunk`,
`GoogleCall`, `AnthropicArguments`, ...), and may break off anywhere (`StreamFails`,
`EndOfStream`). The reader of the body and the loop that takes its events are joined by
a channel and share nothing else, so that one step decodes a chunk and does what its
event does: `inProgress` is the loop's `toolCallsInProgress` (`Started`, `Longer`,
`Repeated`), `unended` the reader's `toolMeta`, whose calls the finish reason ends one by
one in the order of a map (`CloseCall`). `Assembled` is what the loop makes of the
calls; `ToolTurn` puts it into the next request. `Providers` has the registry
(`Register`, `Unregister`, `ClearRegistry`, the lazy first call `StreamSimple`), and the
arithmetic of limits as operators over all pairs of `TokenLimits`.

### Orchestration, ToolPool, ToolHooks

`Orchestration` takes the calls of one message group by group: `NextGroup` or
`StopBeforeGroup`, per call `StartCall`, `SkipCall`, `EndCall`, then `CollectGroup`, with
`Interrupt` at any moment. `ToolPool` registers, denies and switches tools, assembles a
pool and resolves a sub-agent's list. `ToolHooks` asks hooks one by one from a copy of
the list while others come and go, and computes a schema by two requests at once.

### FileTools

One file: `disk` is a version and the stamp (size and time) the gate sees, `record` the
stamp remembered. A call reads, is gated (`CheckFresh`, `CheckMissing`), matches and
writes in separate steps; `OthersWrite` and `OthersRemove` come in between. `host` says
whether calls get a session's context or the one the adapter makes.

### WebTools, Shells, SearchTools

`WebTools`: pages change on their servers (`Publish`), time passes (`Tick`), two calls
look up, follow redirects, read and store in separate steps; the search tries its
engines. `Shells`: one command with the children that hold its output (`holders`), its
deadline, a cancel, the kill of its group and what is reported at last. `SearchTools`:
one search of a small tree by the walk or by ripgrep, whose output may stop at any row
and has no rows at all in the modes that list files or counts (`ShownByRg`).

### SessionTools, Inspection, InspectApi

`SessionTools`: EnterPlanMode in two steps by two calls, the list of todos replaced or
refused, a question to the host, each through three kinds of context. `Inspection`: a
Task call with the ends of its sub-agent (`RunEnds`), and `detect_objects` with frames
that cannot be fetched, a detector that may be away, and a model that is asked with the
text alone when there is no frame. An answer that does not parse becomes a result without
violations whose confidence of 0.7 is just not enough to be safe (`CalledSafe`).
`InspectApi`: the table with its timer, two readers of one channel, frames whose request
looks up, saves and submits in separate steps, and the inspection handler that forwards
and then drains.

### The browser

`BrowserManager`: the limit, the launch, the first page and the entry in the table are
separate steps; so are the sweep's collection and removal. `BrowserTabs`: calls take
their page first and the lock later; pages open and close by themselves.
`BrowserRoutes`: the Fetch domain of a page, which pauses none, some or all of its
requests, against the loops that serve it, with a loop that ends later than it was told
to and a `fetch_intercept_start` whose patterns take the place of the routes' own.
`BrowserListener`: a listener is looked up,
started and stored in three steps while requests and responses call back.
`BrowserPage`: extra headers are copied under the lock and sent without it.
`BrowserCookies`: two clients beside the page, of which one gets a new jar when it is
closed and the other keeps the first; a response may set or delete the cookie.

## 3 What the runs check

| Run | Question | Bounds, and why they suffice |
|---|---|---|
| `video_session` | Do Submit, Stop, runners, cleaner and a slow reader keep one pipeline at work, the newest frame waiting, and the stream in order, and is the channel closed at last? | 3 frames: one runs, one waits, one overtakes. History and window of 2, so that both overflow; a channel of 2, so that events are dropped; one progress event; indices in order, and late with a repeat. About 450 000 states |
| `loop_tools` | Whatever order two parallel (or sequential) tools of a turn end in, are results paired, the session in order and the events as promised? | 1 turn, 2 calls, 2 deltas, an update each, patches, a session whose appends fail. Order and overtaking need two calls; a later turn begins from the same kind of state |
| `loop_turns` | Do the iteration limit, steering and a cancel work over turns, and does the channel close? | limit of 3 with room for a 4th turn, 2 steering messages, cancel at any moment, a channel of 1 so that every send may block |
| `loop_long` | Does a conversation that began earlier, is compacted and is charged stay consistent? | limit of 3 on a cost of 2 per call, so that the second is refused; a limit of 1 token that may or may not be used; compaction from length 5, which two turns reach |
| `agent_runs` | Do two runs stay apart and idle mean settled, when the first may be aborted and its loop goes on? | 2 runs, the first with a tool call or a failure; both channels of 1, so that each side waits for the other; one message appended, at any moment of the last run. About 510 000 states |
| `tool_executor` | Exclusion, order of starts and results, and does everything queued finish? | 3 tools in all 27 combinations of kinds, 2 collecting calls, discard and cancel at any moment. Overtaking needs three: one that blocks, one that waits, one behind it |
| `services` | Is what each service stores, sends, serves and tells still what its callers did and what happened outside, when calls overlap, fail half-way, are cancelled or outlive their time? | below; about 725 000 states in all |
| `video_close_doc`, `loop_followup_doc`, `agent_abort_doc`, `tool_executor_wait_doc`, `task_graph_doc` | One sentence of the comments each, which the code does not keep (section 6) | the smallest instance that shows it |

The instances of `services`, each large enough for the case it is there for. *Graph*: 3
ids, for a cycle through a third task. *Jobs*: 2 callers on a buffer of 2, for an overlap
and an overflow. *Session*: 3 entries, one lost, one torn, one kept. *Repository*: 2
clients and 3 entries. *Compaction*: a window of 10 with messages of 2 and of 11, so that
one fits, many do not, and one alone does not. *Streams*: 4 protocols, answers of up to 3
blocks and 2 fragments, 2 turns, so that results of one turn are in the request of the
next. *Registry*: 2 protocols, 2 sources and the empty one, 3 providers, so that one is
replaced by another source; limits in units of 512 tokens at, below and above each
other. *Orchestration*: 3 calls of every kind. *Files*: 4 versions with 2 stamps, so that
a later version may look like an earlier one. *Fetches*: 2 calls, 2 addresses, a cache
of 1 that expires after 1 tick. *Shell*: every child, deadline and cancel at any moment.
*Search*: every pattern of up to 3 segments. *Browser*: 2 clients each; 2 sessions and 3
launches, for a limit that is passed. *API*: 1 session, 2 readers, a channel of 1. Callers
and ids are interchangeable; the symmetry used is that of the ids. Where nothing is
left to do the specification stutters (`Stopped`); any other state without a step would
be reported.

The properties, and what each would notice:

- **VideoSession.** `OnePipeline`: two runners between start and the release of
  `running`. `FramesKept` (`NewestPending`, `NoFrameLost`): an old frame kept, a frame that
  neither ran nor was overtaken, one that waits while nothing runs. `StreamHonest`
  (`StreamInFrameOrder`, `DroppedNeverRuns`): what the reader is told contradicts what
  happened. `WindowEndsWithFrame`: with indices in order, the pipeline looks at the frame
  it was started for and none after it. `StartsInOrder` (a step never starts an overtaken
  frame), `PendingStarts`, `StopClosesEvents` (liveness).
- **AgentLoop.** `ToolResultsPaired`: each message that asks for tools is followed by
  its results, in source order. `SessionReplays`: the log is the conversation, or a
  subsequence of it when appends fail. `SessionOutlivesCompaction`: every turn the reader
  was told of is in the log although the engine dropped it. `IterationLimit`,
  `BudgetHonest`: no call beyond the limit, counters neither beyond limits nor behind
  what was used. `SteeringInOrder`: what was queued is in the conversation or in the
  queue, once, in order. `CancelStopsWithinATurn`, `ChannelCloses`, and `EventsAsPromised`
  (the refinement).
- **Agent.** `IdleIsSettled`, `HistoryInStep` (`RunsDoNotMix`, `HistoryBeforeEvent`,
  `ResultsFollowRequest`), `AbortIdles`.
- **StreamingExecutor.** `SchedulingKept` (`Exclusive`, `StartsInOrder`), `AllSettle`, and
  `KeepsPromise` (the refinement of `ToolCalls`): a tool started before those ahead of it
  allow it, a result handed out twice, out of turn, or past a tool that is not over.
- **Services, what is kept.** `GraphKept` (`AcceptedKeepsAcyclic`,
  `DanglingOnlyByRemove`): both about steps, since the state itself may be bad after a
  refused patch. `OutputTold` (`NothingSkipped`, `WaitedIsFinal`): output nobody was
  given, a waiter told too early. `PathsComplete`, `NoSilentLoss`: a session that opens
  without an accepted entry, or with a path that breaks off. `ContextKept`: a compaction
  that loses an end of the conversation, or goes past the window where the engine says
  it fits; that the summary reaches the model is not claimed (section 6).
- **Services, what is sent.** `CallsAsSaid`: a call assembled with another's arguments,
  or from a part of them, without the stream having been cut. `RequestsFaithful`
  (`RequestPaired`, `FramesSentOnce`, `RefusedOnlyAfterCut`, `ThinkingFits`): a request
  with results apart from their call (but for the profile in section 6), a frame twice or
  not at all, a body that does not marshal, a budget beyond the limit.
- **Services, who is served.** `CallsServed` (`OneAnswerEachInOrder`, `AskedAsRegistered`,
  `FewBases`, `AgentGetsItsList`, `HostKnowsMode`); `PromisesKept`
  (`LostOnlyToARegistrant`, `PrefixStable`, and `CallsKeepPromise`, the refinement of
  `ToolCalls` by `Orchestration`), about steps.
- **Services, what is true.** `NothingStale` (`GateIsExact`, `CacheBounded`,
  `HitIsRecent`, `SearchExhausts`, `RepoKept`): an edit over content the model has not
  seen although the gate could tell, a page past its time, an engine not tried, entries
  of one session in another's file by anything but a storage that outlived it.
  `OutcomesTrue` (`OutcomeNamesTheCause`, `SafeWasSeen`, `GrepTellsAll`, `GlobTellsAll`,
  `NoSessionLeft`, `EventsGoOnce`, `AcceptedUnlessStopped`, `InspectionForwarded`): a
  command that was killed called ended; fetched frames called safe that nothing looked at,
  or with a danger that what looked at them saw; matches that the walk left out, or
  ripgrep in a file it had done with; an event given to two readers or to none.
- **Browser.** `BrowserKept` (`BrowsersAccounted`, `LimitByRaceOnly`,
  `UnreachableOnlyBy`): a browser nobody will close, a limit passed by anything but a
  race of launches, a tab that no call can reach. `PageServed` (`RoutesLapseOnlyBy`,
  `HeadersAsSet`, `CookiesAsAnswered`, `PacketsPaired`, `OthersAreSilent`): a registered
  route that loses the page's requests by anything but the causes it names, a header or a
  cookie other than calls asked for, a response paired with a request that is not its
  own. `CookiesAsAnswered` also says what a client whose jar was not reset goes on to send.

Several of these have the form "only by": the code does break the plain promise, and
the property says by which events alone. The exceptions are named in the definition and
described in section 6.

`TypeOK` (for the services `TypesOK`, the conjunction of theirs) is the one type
invariant of a module; it carries the small structural facts that proofs need, such as
"executing exactly while a goroutine has no result".

## 4 Fairness

Only steps a running goroutine takes by itself are fair, each weakly: the Go scheduler
runs what can run. Nobody has to call, stop, cancel, abort, steer, discard or collect.

- `VideoSession`: a Submit or Stop once begun, the cleaner, and each runner. This
  includes that a pipeline ends, which the context (cancelled by Stop) and the closing
  of the agent's channel give. The reader need not read: sends do not wait for it.
- `AgentLoop`: the loop, each tool goroutine, each SyncTurn goroutine and the reader,
  because `emit` waits for it and the comment on Prompt asks callers to drain. Model
  streams and tools are finite (`MaxDeltas`, `MaxUpdates`): an endless one is a
  provider's or a tool's fault, which the context is there for.
- `Agent`: a caller inside Prompt, each loop, each tracker; the reader of `outCh` need
  not read, which is the point of `AbortIdles`. That a loop ends is `ChannelCloses`.
- `StreamingExecutor`: scans, tool goroutines, the client once it waits.
- The services of `MCServices`: safety only, no fairness. What they owe over time
  depends on parties outside (servers, pages, children of a command, a user's answer).

## 5 What is proved

The theorems listed in `PROJECT.json` are these; lemmas carry them. They hold for every
value of the constants that the modules' ASSUMEs allow, hence for any number of frames,
tools, turns, tasks, callers or pages. Each property was first checked by TLC. An ASSUME
says what a constant is (a bound or a capacity is a natural number, a queue has room for
something) and where more is needed names why: `SessionsAssumption`, `WebAssumption` and
`RequestsAssumption` that clients, addresses and requests are finitely many, since the
limits compare cardinalities; `StampsAssumption` and `TaskGraphAssumption` that "none" is
not one of the values; `PoolAssumption` that every tool has its place in the order of
names; `HeadersAssumption` and `RoutesAssumption` that the header, the first page and a
tab the code starts with exist; `CookiesAssumption` that there is a proxy to take turns;
`SearchAssumption` that the limits on what a search shows are natural numbers;
`SentAssumption` that loops send events of `AgentEvents`' types. Sums, selections and sequences in order are defined without recursion
(`Selections`, `Compaction.Tokens` as a recursive function), and what would need induction
over them is proved from the least counterexample, a set of numbers that has a smallest
element.

**VideoSession** (`TypeCorrect`, `OnePipelineAlways`, `FramesKeptAlways`,
`StartsInOrderAlways`, `StreamHonestAlways`, `WindowEndsWithFrameAlways`). The invariant is
`TypeOK /\ Control`. `OnePipeline` is not inductive: that nobody starts a second pipeline
follows from who holds the mutex and what he has established. `SubmitHolds` states that of
a Submit in progress (with control at `start` nothing runs and nothing waits),
`FinishHolds` of the end of a frame (the lock is its own, `running` is nil, a frame waits),
`RunningWorks` that `running` names a frame really at work, `Accepted` that the newest
frame ran or waits once Submit is back. `StartsInOrder` is a property of steps: both places
that start a frame start the newest accepted one. For the stream, `Newer` adds that no
frame newer than the one at work has begun, and `StillTrue` that what an event in the
channel says of its frame has not become false while it waited. A frame that is
still remembered is in its own window and, where the indices grow, the last one in it
(`FrameEndsWindow`).

**AgentLoop** (`TypeCorrect`, `IterationLimitAlways`, `BudgetHonestAlways`,
`ToolResultsPairedAlways`, `EventsAlwaysAsPromised`, `SteeringInOrderAlways`,
`SessionReplaysAlways`, `SessionAlwaysOutlivesCompaction`). The limit rests on `Paid`: an
iteration is consumed before control reaches the model call, and between the two the turn
is still below the count. `BudgetHonest` is inductive with the types of the counters.
`ToolResultsPaired`: the conversation is paired except that, in the tool phase, its last
message may be an assistant's whose results are missing; three lemmas about appending
(`AppendNeutral`, `AppendAssistant`, `AppendResultsCloses`) say what an append does to
that.

`EventsAlwaysAsPromised` is the refinement: every step of the loop is a step of
`AgentEvents` or leaves its variable as it is. The invariant `Promise` ties the control
point to the events sent: the ends of the stream (`Shape`), the turns started
(`TurnsSeen`), the message being received (`MessageOpen`), the tools of the turn, each
with the events that its goroutine must have sent by now (`ToolsSeen`), and the turns that
are complete (`TurnComplete`). One lemma per kind of step shows both that the event is
allowed and that `Promise` is kept.

`SteeringInOrder` and `SessionReplays` rest on one lemma, `ConvGrows`: without an engine a
step adds to the conversation messages that go to the session too, or one steering message
off the queue, or messages of neither kind. `SessionOutlivesCompaction` needs no such
assumption: `Recorded` says how far session and events may be apart at each control point.
Three theorems assume that no context engine works (`CompactAt = 0`) and that initial
conversations are in order, which `loop_tools` and `loop_turns` satisfy. The first is not
a formality: a compaction may separate results from their call (section 6).

**Agent** (`TypeCorrect`, `IdleIsSettledAlways`, `HistoryInStepAlways`). `Life` is the life
of a run: a tracker that may still write the agent's state is that of the last run, its
idle channel is open and Prompt has returned, so that whoever found the channel closed
finds the state settled although older loops still send. For the history, the streams are
those `AgentEvents` allows (`StreamsOrderly`): no answer after one whose tools have not all
ended, a tool's end under the answer that asked for it. `Recording` says that what a
tracker took is in the history and that behind the last answer stands no other, from which
`ResultsFollowRequest` follows.

**StreamingExecutor** (`TypeCorrect`, `SchedulingKeptAlways` with `ExclusiveAlways` and
`StartsInOrderAlways`, `DeliveredInOrderOnceAlways`, `KeepsPromiseAlways`). The first two
follow from what a scan starts, once each action is reduced to what it does to the statuses
(`StatusSteps`). For the results the invariant `Ordered` adds: yielded tools are a prefix
of the stream, a client about to collect has seen every tool done, what was delivered is
yielded. The refinement (`PromiseStep`) rests on the same invariant: a scan is a `Begin` of what it
starts, a collection an `Answer` of what it yields, for which `HandingSteps` shows that
every tool before it is over; an unknown tool, a result stored and a queue dropped after
`Discard` are an `End`; the rest leaves the mapped state as it is.

**The services.** A property of `MCServices` says of each service what holds while it is
the one that moves. Its proof is one invariant per service, `focus = "..." => Inv`, because
a step either belongs to the focus or leaves its variables alone.

In `ServicesProofs`:

- *Files* (`Gate`, for `GateIsExact`). The gate compares a stamp, the write comes later,
  and others write at any moment, also with a stamp seen before. A stamp on record vouches
  for the version that has it (`RecordVouches`), a gated call for what is on disk whatever
  came after the gate (`CallVouches`), and what was shown is on record once the call that
  showed it is over.
- *Providers* (`Registered`, for `LostOnlyToARegistrant`). Whoever serves is there and
  serves rightly, is found by its source, and what a source is remembered for it did bring.
  That the provider taken may be another source's is section 6.
- *API* (`Delivered`, for `EventsGoOnce` and `NoSessionLeft`). What waits is in order, what
  each reader took came before all that waits, no two have the same, nothing that had room
  is lost, and a reader told "over" left a closed and empty channel.
- *Web* (`Fetched`, `Searched`, for `HitIsRecent`, `CacheBounded`, `SearchExhausts`). An
  entry of the cache is at least as old as the version it holds has been outdated, and no
  time passes between the reading of a page and its storing.
- *Session repository* (`Stored`, for `RepoKept`) and *log* (`Logged`, for `PathsComplete`
  and `NoSilentLoss`). Entries are numbered as they come, so that whoever holds some holds
  them in that order (`Rises`), and each entry's parent came before it (`ChainedBy`), in
  memory always and on disk unless a line does not parse; a fork selects places in order
  and a set of entries closed under parents.

In `ToolsProofs`:

- *Task graph* (`AcceptedKeepsAcyclicAlways`, `DanglingOnlyByRemoveAlways`, together
  `GraphKeptAlways`). The search that does not come back to the changed task leaves a
  closed set of tasks without it; a cycle through the task would have another in that set,
  where no edge changed (`NewEdgesKeepAcyclic`). No induction on paths is needed, because
  reachability is defined by closed sets, and the theorem holds from any acyclic graph,
  whatever refused patches did before.
- *Jobs* (`NothingSkippedAlways`, `WaitedIsFinalAlways`, together `OutputToldAlways`). A
  caller who saw the end did so after the outcome was recorded (`SawTheEnd`); from then on
  nothing is written, so the copies stay whole.
- *Orchestration, hooks, schemas, pool, session tools* (`CallsServedAlways`,
  `PromisesKeptAlways`, `CallsKeepPromiseAlways`). `Orchestrated`: the results are those of the groups collected,
  in order, and of the group that a cancel left; from it each step of `RunTools` is one of
  `ToolCalls` (`OrchestrationPromised`). `Hooked`: a run's copy tells its hooks
  apart and its first ones were asked. `Based`: every base but the first belongs to a
  request that was computing when the first was stored. `Moded`: the last change told is to
  the mode as it is. `Pooled`: no name twice, the registry's tools first in the order of
  names, for which the lemmas about `Ascending`, `Those` and `Only` say that a selection has
  exactly what was selected, in order and once.
- *Browser* (`BrowserKeptAlways`, `PageServedAlways`). Where several properties excuse what
  overlapping calls do, the invariants have the form "excused, or ...": `Managed` (each
  running browser but the strays has one holder: a call, the table or the sweep; the table
  never has one twice), `Tabbed`, `Routed` (until Fetch was taken away or narrowed, all
  requests of the active page are paused and served between calls), `Headed`, `Jarred` (what each jar was given last, the first one
  by itself), `Heeded` (until two calls started at once, one
  listener listens).

In `ConversationProofs`, `ContextKeptAlways`: `Remembered` says of the conversation kept,
whatever compactions it went through, that it is in order against what was said
(`InOrder`), each message what was said or a shorter form of it (`Recalls`), its head
protected and its end the newest message; `KeepNewestIs` says what the backwards sum of
tokens keeps, `TokensAdd` that sums add up, and from them the three stages fit the window.

There too, about a provider's stream:

- `CallsAsSaidAlways`. The property speaks of the end of an answer; the invariant
  `Streaming` speaks of every chunk: the call in progress at an index is the one said with
  that index (`CallsKept`, `IndexOf`, which differ by protocol), and its arguments are the
  fragments so far, in order. An end that repeats them therefore changes nothing, in
  whatever order the ends come. It also says that of an answer only the last call can be
  cut, so that what is refused later can be named (`RefusedOnlyAfterCut`). `AssembledIs`
  turns the indices looked at into the order of the calls.
- `RequestsFaithfulAlways`. `FlattenIs` says what `FlattenSeq` puts where. With it, the
  history has after each message with calls the result of each in turn (`Followed`), which
  every conversion but one keeps; and a grouped prompt consists of blocks that end with the
  part they stand for (`LaidOut`). What a converter has sent after each part and how much
  is left of a group is then an induction over the parts, which ends where the run of
  frames does. Assumed of the constants: limits of tokens are natural numbers, the profiles
  are the six that exist.

Both inductions are over a number, by the least counterexample (`Least`), since the
library's induction theorems cannot be used here.

In `OutcomeProofs`:

- *Outcomes* (`OutcomesTrueAlways`). For a command, `Told`: nothing kills it while its
  context lives, and it is told of only when it has been waited for. For an inspection,
  `Inspected`: an answer is of frames that were fetched, the detector's of the first one
  and the model's of all of them, or of none when it did not parse, and then it is not
  sure. So what is called safe shows no danger to the one who called it so; only where
  nothing was fetched is there nothing it could be held against. For the API, `Answered`
  (whoever was accepted and not
  taken had its session stopped in between) and `Forwards`, which splits the events of a
  run into those forwarded, those drained after an error and those that still wait.
- *Searches* (`Searching`, for `GrepTellsAll` and `GlobTellsAll`). At every entry of the
  walk, what was found so far is what is owed for the entries visited, in each output mode,
  with the limit and with noise between them; ripgrep's output is such a walk, without
  order, in content mode (`Adds`), which may break off inside a file (`RgBreaksOff`), and
  nothing in the other two (`Silent`, `NoRows`). That the matcher does what a
  pattern means (`MatchesMeans`) is an induction from the last segment backwards: the
  places from which the rest of the pattern matches are those from which a cut of the rest
  of the path exists.
- *Types* (`TypesOKAlways`). Most follow from the invariants above. Of their own are
  `Tallied` (a session's count and its metadata run behind the messages there are, those in
  memory being among those of a file that parses), `CountsBelow` for the sidecars of the
  repository, `Roomy` for events and channels, `Versions` for the web. The types include
  the bounds: what a channel holds, what is counted, which proxy is next.

**Only model-checked**, with the reason.

- Liveness under fairness (`PendingStarts`, `StopClosesEvents`, `CancelStopsWithinATurn`,
  `ChannelCloses`, `AbortIdles`, `AllSettle`): out of this prover's reach. These are all:
  every invariant and every property of steps that a run checks is proved.

## 6 Where code and words disagree

Nine findings. Five runs end in a violation: each states a sentence of the code's own comments and
finds a behaviour that does not keep it.

| Run | The words | What happens |
|---|---|---|
| `video_close_doc` | video_session.go:80, the channel closes after in-flight frames finish | Submit tests `isClosed` on entry and calls `wg.Add` later (166); Stop closes without `s.mu`, so the cleaner can close `eventCh` in between, and the frame then sends on a closed channel |
| `loop_followup_doc` | agent.go:146, a follow-up triggers a new outer iteration | every return of `runInnerLoop` that is not an error says stop, so `runLoop` never reaches the code that takes follow-ups (loop.go:82-93) |
| `agent_abort_doc` | agent.go:186, Abort cancels the running loop | the tracker signals idle (296) before it clears `cancelFn` (297-299); a run started in between loses its cancel function |
| `tool_executor_wait_doc` | streaming_executor.go:164, blocks until all tools are completed | the condition's lock does not protect the statuses; a completion between test and Wait wakes nobody |
| `task_graph_doc` | store.go:3-4, tasks form a DAG, cycles are rejected | a patch refused at its dependencies leaves its new parent behind, unsearched (173) |

Four more are findings whose run passes. The property of `services` that is named states
what the code does, as a law the model keeps, and the words are what it differs from:

| Property | The words | What happens |
|---|---|---|
| `OutcomesTrue` (`GrepTellsAll`: ripgrep, not content mode) | grep.go:153, modes "files_with_matches" and "count" | with ripgrep installed, `-l` and `-c` (511-514) print no JSON events, each line is skipped (552-554), and the call answers that nothing matched, uncut, without the walk |
| `OutcomesTrue` (`GrepTellsAll`: `unvisited`) | grep.go:213, fall through to the walk on an error of ripgrep | only one that cannot be started is an error; one that fails, is cancelled or prints too long a line half-way gives its part as the whole, uncut (526, 582) |
| `OutcomesTrue` (`SafeWasSeen`: `verdict.had`) | tools.go:160, analyses pictures with the vision model | with no picture fetched the model gets the text alone (67-75, 259), and its word may be that the scene is safe |
| `PageServed` (`CookiesAsAnswered`: `httpJar # 1`) | actions_http.go:70, "Cookies cleared." | the TLS client keeps the first jar and goes on sending what it holds (tls_client.go:153-164); cookies synced later go to the other jar |

Others that reading and modelling brought up. Where a model contains the behaviour,
that is said; none is hidden by a property that was weakened without saying so.

- **Loop.** A refused cost or token charge is ignored (loop.go:189-194) and not
  recorded, so exhaustion never stops the run, which the header (loop.go:22-23) lists
  among its exits; in the model (`RecordUsage`). `emit` blocks on a full channel (779)
  where its comment says it does not (771-772); in the model (`Room`). Steering messages,
  patches and the synthetic failure message are not written to the session, though
  types.go:260 says each message is; in the model, hence `Persisted`. Messages of this
  loop have no ID, so `lastTurnMessages` (754-770) does not stop at the last ones and
  hands SyncTurn the first assistant message of the conversation, or the last failure
  message (which has an ID) if there is one; in the model (`LastTurnAssistant`), no property.
  SyncTurn goroutines may reach the backend out of order; in the model.
- **Compaction.** Keeping the newest messages by number may start at a tool result
  whose call was dropped. The summary is `Hidden` and of source `system`
  (compactor.go:103), and conversion leaves out both (convert.go:15, 18), so what was
  summarised never reaches the model. The emergency stage may slice beyond its history
  and panic. All in the model.
- **Agent.** A run aborted between a message and its results leaves unanswered calls in
  the history the next Prompt sends; in the model (`ResultsFollowRequest` states the
  half that holds). The loop of an aborted run shares the steering queue with the next.
  Steering messages never enter the agent's history. `State` shares the array of
  pending calls with later filters (66, 331). A listener that unsubscribes in its
  callback waits for the lock its caller holds (384). Between `SetCancel` and `SetIdle`
  AbortAndWait sees the idle channel of the previous run.
- **Executor.** After its first productive call `GetCompletedResults` returns nothing
  more, since its scan breaks at a yielded tool (155); `GetAllResults` returns yielded
  results again. Both in the model.
- **Jobs.** Two overlapping incremental reads may set the cursor back and repeat output
  (manager.go:191-199), against 182-183; a reader that did not wait may get a terminal
  status with output of a moment before. Both in the model.
- **Video.** `getFrameWindow` filters by index and then takes the last in order of
  arrival; with late frames the window can lack the current one (173). Hence the
  assumption in `WindowEndsWithFrame`. A frame that starts between Stop's cancel (123)
  and the close of `closeCh` has a context nobody cancels; in the model, and
  `StopClosesEvents` holds because the drain ends.
- **Session.** One line torn or above 8 MiB makes the whole session impossible to load,
  a failed write destroys the line of the next accepted entry (jsonl.go:107), a new
  `LoopWriter` starts a new chain (adapter.go:20), and the count in the metadata lags
  after a crash. All in the model; `NoSilentLoss` is about what opens.
- **Orchestration.** After a cancel RunTools answers the next group only, though its
  comment speaks of the remaining tools (orchestration.go:58-66); post-hooks that are
  cancelled drop results. In the model: `OneAnswerEachInOrder` allows what a cancel
  leaves unanswered, at the end.
- **Provider streams.** Google's calls share index 0 and have no id, so that a second one
  is lost or merged; a profile's empty assistant messages (openaicompat/convert.go:49-53)
  come between a call and its results; a call cut off by the token limit makes every
  later Anthropic request fail to marshal; Anthropic drops the frames of a video, and an
  openai profile other than Qwen's sends a group marker as an empty image. All in the
  model, each an exception a property names. The thinking budget may leave an answer less
  than the 1024 tokens meant (stream_options.go:55), and removing a source takes the
  provider another source put in its place (registry.go:43); in the model.
- **Tool lists and hooks.** Schemas are cached by the tool's name alone
  (api_schema.go:94), whatever the features of the request; two first requests compute
  two; in the model.
- **Files.** The recorded hash is never compared, so a change that keeps size and time
  passes the gate (paths.go:113-131). Through the context the adapter makes
  (adapter.go:139-146) every Edit and every Write of an existing file asks to read first
  (edit.go:146, write.go:121), for each call gets a cache of its own. In the model.
- **Session tools.** Through that adapter ExitPlanMode always errors, as do
  AskUserQuestion and TodoWrite. EnterPlanMode calls itself safe to run beside others and
  reads the mode before it writes it (enter.go:40, 72-92). In the model.
- **Web.** The cache is keyed by address only and keeps error statuses; of two fetches
  the slower one's older page stays (webfetch.go:274, 336); a fetch does not end with its
  context. Brave's answers, compressed, never parse, so the chain always goes on. In the
  model but for the last. The age of an entry counts from the end of its transfer, which
  the model takes to be shorter than a tick (redirect.go:100).
- **Shells.** The deadline does not bound a command whose children left its group and
  hold the output (exec.go:33). A command that ended just before the deadline is
  reported timed out, a late stop turns a timeout into "cancelled", and a background
  command that exits with 1 has "succeeded". In the model.
- **Search.** The two findings above. `-S` makes ripgrep ignore case for a pattern in lower
  case, and its `-g` is not the walk's glob, so that the two searchers may differ about
  what matches (grep.go:491, 495-497); the model takes them to agree. The walk ignores the
  limit when it counts; in the model.
- **Sub-agents.** A run that ends without text or error, as a cancelled one, gives a Task
  "completed" with an empty result (agenttool.go:58, safeagent.go:128-140); the result is
  the text of all turns. The detector gets the oldest frame only, and if it finds nothing
  the model is not asked (tools.go:205-253). An answer that does not parse is passed on
  without violations and with a confidence of 0.7, for which the orchestrator's prompt has
  no rule (prompts.go:15-16). In the model: `SafeWasSeen` names the detector, and
  `CalledSafe` is what the prompt would skip.
- **API.** A frame is answered "accepted" although the session was stopped meanwhile; its
  file is removed after ten minutes whoever needs it; two readers share one channel's
  events between them (video_inspect.go:94-192). In the model.
- **Browser.** The limit may be passed by launches at once (session.go:198); a connection
  that fails leaves its browser running, with nobody to close it; the sweep may close a
  session used since it was collected (session.go:544); closing a session or a tab
  holds the session's lock while a page asks before it unloads (actions_tab.go:112-121),
  where `CloseTab` closes it at once. A click may put one page under two tabs
  (actions_tab.go:167). Routes end with their tab, a stopped loop may disable Fetch
  late, and narrower patterns of `fetch_intercept_start` take requests from them
  (actions_cdp.go:89-98); `doEnableBrowserLog` never calls the function that EachEvent gives it, so that
  nothing is logged. Rotated proxies never take effect. In the model but for the log and for the
  page that asks.
- **Session repository.** Create makes no file, so that two callers create one session
  (repo.go:33); Delete ignores a failure to remove the metadata; a storage outlives its
  file and writes it anew, without what came before. Forks differ: in memory the first
  entries in order of insertion, on disk the path. In the model (`RepoKept`).

## 7 What is not modelled

In the modelled files: texts, arguments, payloads, wording, times and identifiers;
listeners, `AddTool` and aliasing in `Agent`; progress messages and context modifiers in
`StreamingExecutor`; `UpdateMetadata`; ranges,
encodings and images of the file tools; conversion of pages to text; the report of a
video session.

Parts left out, by reason.

- *Decided by text, with no state*: which commands the shells allow
  (`tools/bash/security.go`), prompts, the descriptions and schemas of tools, option
  constructors and the table of models. Their hazard is in matching text, for which tests
  over examples are the better tool.
- *Driven by a page*: clicking and typing, waits for elements, challenge pages and
  stealth scripts of the browser. They are single calls of the page's protocol; what
  several calls do to a session is in the six browser modules.
- *Pure input and output*: the camera proxy, single HTTP requests of the inspection tools,
  the detector and the frontend.
- *Wiring and forwarding*: server and environment, code agent, skills, memory types, MCP
  resources, built-ins.

`PROJECT.json` names files and reason for each. Memory-model races are represented only
where the code leaves a variable without the lock that protects it elsewhere; the rest of
the code reads and writes under locks or through channels. Slices are values, so that
aliasing is out of reach.

## 8 Plan

What is left is liveness of the services where the code promises an end: a command whose
group was killed, an inspection request whose client went away, waits of the browser
against navigation by another call.

Runs stay few: a new component joins the union where it shares a question, and weaker
properties make room for deeper ones.
