------------------------------ MODULE TaskGraph ------------------------------
(***************************************************************************)
(* The task-graph store of tools/taskgraph/store.go, which the tools       *)
(* TaskCreate, TaskUpdate and TaskStop write to.                           *)
(*                                                                         *)
(* Every operation holds s.mu throughout, so each is one step, whichever   *)
(* tool calls run at once.  A task is its parent, what it depends on and   *)
(* whether it is finished; texts, owner, payload and times are left out.   *)
(* A pointer of a patch is the set of the value it points to, empty when   *)
(* it is nil.                                                              *)
(***************************************************************************)
CONSTANTS Ids, NoTask   \* task ids, and the empty ParentID

ASSUME TaskGraphAssumption == NoTask \notin Ids

VARIABLES
    exists,      \* the keys of s.nodes
    parent,      \* Node.ParentID; NoTask for a task that does not exist
    deps,        \* Node.DependsOn; empty for a task that does not exist
    taskStatus,  \* Node.Status; "open" stands for pending, in_progress and blocked,
                 \* "finished" for completed and failed
    outcome      \* how the last operation returned: with or without an error

graph == <<exists, parent, deps, taskStatus>>
graphVars == <<exists, parent, deps, taskStatus, outcome>>

TaskStatuses == {"open", "finished", "cancelled"}
Refs == Ids \cup {NoTask}

Nil == {}
Pointer(S) == {Nil} \cup {{x} : x \in S}
Deref(pointer, old) == IF pointer = Nil THEN old ELSE CHOOSE x \in pointer : TRUE

(* The tasks that one refers to; a task that does not exist refers to none. *)
Edges(ex, par, dep) ==
    [i \in Ids |-> IF i \in ex THEN dep[i] \cup ({par[i]} \ {NoTask}) ELSE {}]

(* Mutant: dependencies are not followed. *)
DetectCycleParents(ex, par, dep, start) ==
    LET edges == Edges(ex, par, [i \in Ids |-> {}])
    IN  \A C \in SUBSET Ids :
            edges[start] \subseteq C /\ (\A i \in C : edges[i] \subseteq C) => start \in C

(* detectCycleLocked: start is reached from the tasks it refers to, that   *)
(* is, it is in every set that holds them and what its members refer to.   *)
DetectCycle(ex, par, dep, start) ==
    LET edges == Edges(ex, par, dep)
    IN  \A C \in SUBSET Ids :
            edges[start] \subseteq C /\ (\A i \in C : edges[i] \subseteq C) => start \in C

GraphInit ==
    /\ exists = {}
    /\ parent = [i \in Ids |-> NoTask]
    /\ deps = [i \in Ids |-> {}]
    /\ taskStatus = [i \in Ids |-> "open"]
    /\ outcome = "accepted"

Refuse == outcome' = "refused"
Accept == outcome' = "accepted"

-----------------------------------------------------------------------------
(* Add.  A task comes with a new id, or with one the caller chose, which a *)
(* task that was removed may have had.                                     *)
Known(p, ds) == p \in exists \cup {NoTask} /\ ds \subseteq exists

Add(i, p, ds, st) ==
    LET par == [parent EXCEPT ![i] = p]
        dep == [deps EXCEPT ![i] = ds]
    IN  /\ i \notin exists /\ Known(p, ds)
        /\ ~DetectCycle(exists \cup {i}, par, dep, i)
        /\ exists' = exists \cup {i}
        /\ parent' = par /\ deps' = dep
        /\ taskStatus' = [taskStatus EXCEPT ![i] = st]
        /\ Accept

(* No title, a status that is not valid, an id that is taken, a parent or  *)
(* dependency that is not known, or a cycle.                               *)
AddRefused == Refuse /\ UNCHANGED graph

-----------------------------------------------------------------------------

(* Update checks and writes one field after the other; p and ds are        *)
(* pointers, the new status is the old one if none is given.               *)
GoodParent(i, p) == \A q \in p : q # i /\ q \in exists \cup {NoTask}
GoodDeps(i, ds)  == \A d \in ds : i \notin d /\ d \subseteq exists

(* Nothing is written yet when the task or the title is missing or the     *)
(* status is not valid.                                                    *)
UpdateRefused == Refuse /\ UNCHANGED graph

UpdateBadParent(i, p, st) ==
    /\ i \in exists /\ ~GoodParent(i, p)
    /\ taskStatus' = [taskStatus EXCEPT ![i] = st]
    /\ Refuse
    /\ UNCHANGED <<exists, parent, deps>>

UpdateBadDeps(i, p, ds, st) ==
    /\ i \in exists /\ GoodParent(i, p) /\ ~GoodDeps(i, ds)
    /\ taskStatus' = [taskStatus EXCEPT ![i] = st]
    /\ parent' = [parent EXCEPT ![i] = Deref(p, @)]
    /\ Refuse
    /\ UNCHANGED <<exists, deps>>

(* The check for a cycle follows the last field; only here is the task     *)
(* restored.                                                               *)
Update(i, p, ds, st) ==
    LET par == [parent EXCEPT ![i] = Deref(p, @)]
        dep == [deps EXCEPT ![i] = Deref(ds, @)]
    IN  /\ i \in exists /\ GoodParent(i, p) /\ GoodDeps(i, ds)
        /\ IF DetectCycle(exists, par, dep, i)
             THEN Refuse /\ UNCHANGED graph
             ELSE /\ parent' = par /\ deps' = dep
                  /\ taskStatus' = [taskStatus EXCEPT ![i] = st]
                  /\ Accept /\ UNCHANGED exists

-----------------------------------------------------------------------------
(* Remove leaves the edges to the task in those that refer to it. *)
RemoveTask(i) ==
    /\ i \in exists
    /\ exists' = exists \ {i}
    /\ parent' = [parent EXCEPT ![i] = NoTask]
    /\ deps' = [deps EXCEPT ![i] = {}]
    /\ taskStatus' = [taskStatus EXCEPT ![i] = "open"]
    /\ Accept

(* Stop, for TaskStop: a finished task keeps its status. *)
StopTask(i) ==
    /\ i \in exists
    /\ taskStatus' = [taskStatus EXCEPT ![i] = IF @ = "open" THEN "cancelled" ELSE @]
    /\ Accept
    /\ UNCHANGED <<exists, parent, deps>>

GraphNext ==
    \/ AddRefused \/ UpdateRefused
    \/ \E i \in Ids :
         \/ RemoveTask(i) \/ StopTask(i)
         \/ \E st \in TaskStatuses :
              \/ \E p \in Refs, ds \in SUBSET Ids : Add(i, p, ds, st)
              \/ \E p \in Pointer(Refs) :
                   \/ UpdateBadParent(i, p, st)
                   \/ \E ds \in Pointer(SUBSET Ids) :
                        UpdateBadDeps(i, p, ds, st) \/ Update(i, p, ds, st)

GraphSpec == GraphInit /\ [][GraphNext]_graphVars

-----------------------------------------------------------------------------
(* Every variable has its type, and a task that does not exist has no      *)
(* fields.                                                                 *)
GraphTypeOK ==
    /\ exists \subseteq Ids
    /\ parent \in [Ids -> Refs]
    /\ deps \in [Ids -> SUBSET Ids]
    /\ taskStatus \in [Ids -> TaskStatuses]
    /\ outcome \in {"accepted", "refused"}
    /\ \A i \in Ids \ exists : parent[i] = NoTask /\ deps[i] = {} /\ taskStatus[i] = "open"

refers == Edges(exists, parent, deps)

(* "Task nodes form a DAG.  Cycles are rejected at Add / Update time"      *)
(* (store.go:3-4): in every set of tasks there is one that waits for none  *)
(* of the set, so that some task can always be worked on.                  *)
Acyclic ==
    \A S \in SUBSET exists : S # {} => \E i \in S : refers[i] \cap S = {}

(* An operation that returns no error never closes a cycle: the search     *)
(* from the changed task alone finds every new one (lines 103, 190).       *)
AcceptedKeepsAcyclic ==
    [][outcome' = "accepted" /\ Acyclic => Acyclic']_graphVars

(* A task comes to refer to one that does not exist only by the removal of *)
(* that task: whatever an operation checked or left half done, the edges   *)
(* it added lead to tasks.                                                 *)
DanglingOnlyByRemove ==
    [][\A i, j \in Ids : j \in refers'[i] \ exists' => j \in refers[i]]_graphVars

(* What every operation keeps of the graph, together. *)
GraphKept == AcceptedKeepsAcyclic /\ DanglingOnlyByRemove
==============================================================================
