------------------------------- MODULE ToolHooks -------------------------------
(***************************************************************************)
(* The hooks around a tool's call, and the schemas a request sends.        *)
(*                                                                         *)
(* A run of the hooks works on a copy of the list, so that hooks that come *)
(* and go meanwhile, which moves the others in the registry's own array,   *)
(* do not change who is asked.  A schema is computed once and cached for   *)
(* every request of the session; two requests may compute it at once.      *)
(***************************************************************************)
EXTENDS Integers, Sequences, FiniteSets

CONSTANTS
    Hooks,        \* hooks, told apart by their names
    Requests,     \* requests that need the schema of a tool
    Features,     \* the features a base schema is computed with
    MaxRuns       \* bound: runs of the hooks

(* One program has so many requests at a time. *)
ASSUME RequestsAssumption == IsFiniteSet(Requests)

VARIABLES
    hooks,        \* HookRegistry.hooks: the array and how much of it is in use
    hookRun,      \* the run under way: its copy, who was asked, what they said
    hookResult,   \* what the last run returned
    ctxDone,      \* the run's context was cancelled
    schemaCache,  \* the cached base of the tool, {} or one
    schemaCall,   \* of each request: its step and the base it computed or got
    answered      \* the bases answered since the cache was last cleared

hooksVars == <<hooks, hookRun, hookResult, ctxDone>>
schemaVars == <<schemaCache, schemaCall, answered>>

InUse == SubSeq(hooks.array, 1, hooks.len)
NoRun == [kind |-> "none", copy |-> << >>, said |-> << >>, runs |-> 0]
Quiet == [block |-> FALSE, context |-> << >>, input |-> {}, stop |-> FALSE]

HooksInit ==
    /\ hooks = [array |-> << >>, len |-> 0]
    /\ hookRun = NoRun /\ hookResult = Quiet /\ ctxDone = FALSE

-----------------------------------------------------------------------------
(* Register: a name that is there stays as it is. *)
RegisterHook(h) ==
    /\ \A i \in 1..hooks.len : InUse[i] # h
    /\ hooks' = [array |-> Append(InUse, h), len |-> hooks.len + 1]
    /\ UNCHANGED <<hookRun, hookResult, ctxDone>>

(* UnregisterHooks moves the later hooks down in place, and leaves the last one *)
(* where it was, behind what is in use.                                    *)
UnregisterHooks(h) ==
    \E i \in 1..hooks.len :
       /\ hooks.array[i] = h
       /\ hooks' = [array |-> [j \in DOMAIN hooks.array |->
                                 IF j \in i..(hooks.len - 1) THEN hooks.array[j + 1] ELSE hooks.array[j]],
                    len   |-> hooks.len - 1]
       /\ UNCHANGED <<hookRun, hookResult, ctxDone>>

(* RunPreToolUseHooks, RunPostToolUseHooks, RunPostToolUseFailureHooks *)
StartRun(kind) ==
    /\ hookRun.kind = "none" /\ hookRun.runs < MaxRuns
    /\ hookRun' = [kind |-> kind, copy |-> InUse, said |-> << >>, runs |-> hookRun.runs + 1]
    /\ hookResult' = Quiet /\ ctxDone' = FALSE
    /\ UNCHANGED hooks

NextHook == hookRun.copy[Len(hookRun.said) + 1]

(* What one hook's result does to the result of all.  Only a hook before   *)
(* the tool may give it another input, and only one after it may stop the  *)
(* loop; a failure hook's context is not read.                             *)
Aggregated(h, say) ==
    CASE say = "nothing" -> hookResult
      [] say = "block"   -> IF hookRun.kind = "pre" THEN [Quiet EXCEPT !.block = TRUE]
                            ELSE [hookResult EXCEPT !.block = TRUE]
      [] say = "context" -> IF hookRun.kind = "failure" THEN hookResult
                            ELSE [hookResult EXCEPT !.context = Append(@, h)]
      [] say = "input"   -> IF hookRun.kind = "pre" THEN [hookResult EXCEPT !.input = {h}] ELSE hookResult
      [] say = "stop"    -> IF hookRun.kind = "failure" THEN hookResult
                            ELSE [hookResult EXCEPT !.stop = TRUE]

RunHook(say) ==
    /\ hookRun.kind # "none" /\ ~ctxDone /\ Len(hookRun.said) < Len(hookRun.copy)
    /\ hookResult' = Aggregated(NextHook, say)
    /\ hookRun' = [hookRun EXCEPT !.said = Append(@, <<NextHook, say>>),
                                  !.kind = IF say = "block" /\ @ = "pre" THEN "none" ELSE @]
    /\ UNCHANGED <<hooks, ctxDone>>

(* A cancelled run before the tool refuses it; one after it returns nil,   *)
(* and what the hooks that ran had said is gone.                           *)
AbortRun ==
    /\ hookRun.kind # "none" /\ ctxDone /\ Len(hookRun.said) < Len(hookRun.copy)
    /\ hookResult' = [Quiet EXCEPT !.block = (hookRun.kind = "pre")]
    /\ hookRun' = [hookRun EXCEPT !.kind = "none"]
    /\ UNCHANGED <<hooks, ctxDone>>

EndHooks ==
    /\ hookRun.kind # "none" /\ Len(hookRun.said) = Len(hookRun.copy)
    /\ hookRun' = [hookRun EXCEPT !.kind = "none"]
    /\ UNCHANGED <<hooks, hookResult, ctxDone>>

CancelRun ==
    /\ hookRun.kind # "none" /\ ctxDone' = TRUE
    /\ UNCHANGED <<hooks, hookRun, hookResult>>

HooksNext ==
    \/ \E h \in Hooks : RegisterHook(h) \/ UnregisterHooks(h)
    \/ \E kind \in {"pre", "post", "failure"} : StartRun(kind)
    \/ \E say \in {"nothing", "block", "context", "input", "stop"} : RunHook(say)
    \/ AbortRun \/ EndHooks \/ CancelRun

-----------------------------------------------------------------------------
SchemasInit ==
    /\ schemaCache = {} /\ answered = {}
    /\ schemaCall = [r \in Requests |-> [step |-> "new", base |-> {}]]

(* ToolToAPISchema: the cached base, or the tool's schema and prompt with  *)
(* the features of this request.                                           *)
AskSchema(r, features) ==
    /\ schemaCall[r].step = "new"
    /\ IF schemaCache # {}
       THEN /\ schemaCall' = [schemaCall EXCEPT ![r] = [step |-> "answered", base |-> UNION schemaCache]]
            /\ answered' = answered \cup schemaCache
       ELSE /\ schemaCall' = [schemaCall EXCEPT ![r] = [step |-> "computed", base |-> features]]
            /\ UNCHANGED answered
    /\ UNCHANGED schemaCache

StoreSchema(r) ==
    /\ schemaCall[r].step = "computed"
    /\ schemaCache' = {schemaCall[r].base}
    /\ answered' = answered \cup {schemaCall[r].base}
    /\ schemaCall' = [schemaCall EXCEPT ![r].step = "answered"]

(* The next request of the caller. *)
AskAgain(r) ==
    /\ schemaCall[r].step = "answered"
    /\ schemaCall' = [schemaCall EXCEPT ![r].step = "new"]
    /\ UNCHANGED <<schemaCache, answered>>

ClearSchemaCache ==
    /\ schemaCache' = {} /\ answered' = {}
    /\ UNCHANGED schemaCall

SchemasNext ==
    \/ \E r \in Requests : StoreSchema(r) \/ AskAgain(r) \/ \E f \in SUBSET Features : AskSchema(r, f)
    \/ ClearSchemaCache

-----------------------------------------------------------------------------
ToolHooksTypeOK ==
    /\ hooks.len <= Len(hooks.array) /\ Len(hookRun.said) <= Len(hookRun.copy)
    /\ \A r \in Requests : schemaCall[r].step \in {"new", "computed", "answered"}
    /\ schemaCache \cup answered \subseteq SUBSET Features

(* The hooks that were registered when a run began are asked, each once    *)
(* and in the order of their registration, until one refuses the tool or   *)
(* the run is cancelled: whoever registers or leaves meanwhile.  A tool no *)
(* hook refused, in a run nobody cancelled, is not refused.                *)
AskedAsRegistered ==
    /\ \A i \in DOMAIN hookRun.said : hookRun.said[i][1] = hookRun.copy[i]
    /\ \A i, j \in DOMAIN hookRun.said : hookRun.said[i][1] = hookRun.said[j][1] => i = j
    /\ hookRun.kind = "none" /\ ~ctxDone =>
          /\ hookResult.block <=> \E i \in DOMAIN hookRun.said : hookRun.said[i][2] = "block"
          /\ ~hookResult.block => Len(hookRun.said) = Len(hookRun.copy)

(* "computed once per session and cached" (api_schema.go:94): requests of  *)
(* one session get different bases, which costs them the prompt cache,     *)
(* only where their first ones computed it at once, and never more of them *)
(* than there are requests at a time.                                      *)
FewBases == Cardinality(answered) <= Cardinality(Requests)
===============================================================================
