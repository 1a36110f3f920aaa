---------------------------- MODULE SessionTools ----------------------------
(***************************************************************************)
(* The tools that act on the session itself: EnterPlanMode, ExitPlanMode,  *)
(* AskUserQuestion, TodoWrite and Brief (tools/planmode, askuser, todo,    *)
(* brief).  Their state is in the ToolUseContext: that of a session, which *)
(* all its calls share, or the bare one the adapter makes for each call.   *)
(*                                                                         *)
(* The executor and the orchestrator run a call of these alone, all but    *)
(* EnterPlanMode, which says that it is safe next to others.               *)
(***************************************************************************)
EXTENDS Integers, Sequences, SequencesExt, FiniteSets

CONSTANTS
    PlanCalls,      \* calls of tools that may run at once
    Contexts,       \* "session", "bare" and "agent", the context of a sub-agent
    TodoIds,        \* ids of todos, "" among them
    MaxTodos,       \* bound: length of a list
    MaxPlanEvents   \* bound: events a session sees

VARIABLES
    callContext,  \* whose context the calls get
    planMode,     \* ToolUseContext.PlanMode
    todos,        \* the TodoStore
    sessionCall,  \* of each call: "idle", "entering" or "asking"
    together,     \* calls that entered while another was about to
    hostEvents    \* events the host was sent

sessionToolVars == <<callContext, planMode, todos, sessionCall, together, hostEvents>>

Item(id, status) == [id |-> id, status |-> status]
Items == {Item(id, status) : id \in TodoIds, status \in {"pending", "in_progress", "completed"}}

SessionToolsInit ==
    /\ callContext \in Contexts
    /\ planMode = "normal" /\ todos = <<>>
    /\ sessionCall = [c \in PlanCalls |-> "idle"] /\ together = {}
    /\ hostEvents = <<>>

Busy == {c \in PlanCalls : sessionCall[c] # "idle"}
Entering == {c \in PlanCalls : sessionCall[c] = "entering"}

(* Only a session's context has a host to tell. *)
Tell(event) ==
    hostEvents' = IF callContext = "bare" THEN hostEvents ELSE Append(hostEvents, event)

Change(from, to) == [type |-> "plan", from |-> from, to |-> to, together |-> FALSE]

EmitsRoom == Len(hostEvents) < MaxPlanEvents

(* EnterPlanMode looks at the mode ...  A call of a bare context finds it  *)
(* unset; a sub-agent may not.                                             *)
LookAtMode(c) ==
    /\ sessionCall[c] = "idle" /\ Busy = Entering
    /\ callContext # "agent" /\ (callContext = "bare" \/ planMode = "normal")
    /\ sessionCall' = [sessionCall EXCEPT ![c] = "entering"]
    /\ together' = IF Entering = {} THEN {} ELSE together \union Entering \union {c}
    /\ UNCHANGED <<callContext, planMode, todos, hostEvents>>

(* ... and then sets it; a bare context is dropped with the call. *)
EnterPlanMode(c) ==
    /\ sessionCall[c] = "entering" /\ EmitsRoom
    /\ planMode' = IF callContext = "bare" THEN "normal" ELSE "plan"
    /\ Tell([Change("normal", "plan") EXCEPT !.together = c \in together])
    /\ sessionCall' = [sessionCall EXCEPT ![c] = "idle"]
    /\ UNCHANGED <<callContext, todos, together>>

(* ExitPlanMode: an error unless the mode is "plan", so always in a bare   *)
(* context.                                                                *)
ExitPlanMode ==
    /\ Busy = {} /\ EmitsRoom
    /\ planMode = "plan"
    /\ planMode' = "normal"
    /\ Tell(Change("plan", "normal"))
    /\ UNCHANGED <<callContext, todos, sessionCall, together>>

(* validateList *)
ValidList(list) ==
    /\ \A i, j \in DOMAIN list : list[i].id = list[j].id => i = j
    /\ \A i \in DOMAIN list : list[i].id # ""
    /\ Cardinality({i \in DOMAIN list : list[i].status = "in_progress"}) <= 1

(* TodoWrite: an invalid list is refused before the call, and a bare       *)
(* context has no store.                                                   *)
TodoWrite ==
    /\ Busy = {} /\ callContext # "bare"
    /\ \E list \in BoundedSeq(Items, MaxTodos) : ValidList(list) /\ todos' = list
    /\ UNCHANGED <<callContext, planMode, sessionCall, together, hostEvents>>

(* AskUserQuestion tells the host and waits for the user, alone, for as    *)
(* long as it takes; Brief tells the host.                                 *)
AskUser(c) ==
    /\ Busy = {} /\ callContext # "bare" /\ EmitsRoom
    /\ sessionCall' = [sessionCall EXCEPT ![c] = "asking"]
    /\ Tell([type |-> "ask"])
    /\ UNCHANGED <<callContext, planMode, todos, together>>

UserAnswers(c) ==
    /\ sessionCall[c] = "asking"
    /\ sessionCall' = [sessionCall EXCEPT ![c] = "idle"]
    /\ UNCHANGED <<callContext, planMode, todos, together, hostEvents>>

Brief ==
    /\ Busy = {} /\ EmitsRoom
    /\ Tell([type |-> "brief"])
    /\ UNCHANGED <<callContext, planMode, todos, sessionCall, together>>

SessionToolsNext ==
    \/ \E c \in PlanCalls : \/ LookAtMode(c) \/ EnterPlanMode(c)
                            \/ AskUser(c) \/ UserAnswers(c)
    \/ ExitPlanMode
    \/ TodoWrite
    \/ Brief

SessionToolsStopped == ~EmitsRoom

-----------------------------------------------------------------------------
SessionToolsTypeOK ==
    /\ planMode \in {"normal", "plan"}
    /\ sessionCall \in [PlanCalls -> {"idle", "entering", "asking"}]
    /\ ValidList(todos)

(* The events that tell of the mode, by their places. *)
Changes == {i \in DOMAIN hostEvents : hostEvents[i].type = "plan"}

(* A host that follows the events knows the mode (planmode.go:80-101,      *)
(* enter.go:72-92): each change begins where the one before it ended, but  *)
(* for two EnterPlanMode calls of one message, which may both find the     *)
(* mode normal; and nobody is asked a second question before the first is  *)
(* answered.                                                               *)
HostKnowsMode ==
    /\ \A i, j \in Changes :
          i < j /\ (\A k \in Changes : k <= i \/ j <= k) =>
              \/ hostEvents[j].from = hostEvents[i].to
              \/ hostEvents[i].together /\ hostEvents[j].together
    /\ Changes = {} => planMode = "normal"
    /\ \A i \in Changes : (\A k \in Changes : k <= i) => planMode = hostEvents[i].to
    /\ Cardinality({c \in PlanCalls : sessionCall[c] = "asking"}) <= 1
=============================================================================
