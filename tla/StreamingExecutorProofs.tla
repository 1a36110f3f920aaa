----------------------- MODULE StreamingExecutorProofs -----------------------
(***************************************************************************)
(* Proofs about StreamingExecutor: its types, the exclusion of tools, the  *)
(* order of starts and the order of results, and that it keeps the promise *)
(* of ToolCalls, for any number of tools and any stream.                   *)
(***************************************************************************)
EXTENDS StreamingExecutor, SequenceTheorems, TLAPS

USE ExecutorAssumption

(* What the order of results rests on: the yielded tools are the first of  *)
(* the stream, a client about to collect has seen every tool done, and     *)
(* what was delivered is yielded.                                          *)
YieldedFirst ==
    \A i, j \in Tools : i < j /\ status[j] = "yielded" => status[i] = "yielded"

CollectsWhenDone == client = "collect" => AllDone

DeliveredYielded == \A k \in 1..Len(delivered) : status[delivered[k]] = "yielded"

Ordered == YieldedFirst /\ CollectsWhenDone /\ DeliveredYielded /\ DeliveredInOrderOnce

-----------------------------------------------------------------------------
(* The sequences InOrder allows are sequences of tools. *)
LEMMA InOrderType ==
    ASSUME NEW s \in SUBSET Tools, NEW f \in InOrder(s)
    PROVE  f \in Seq(s) /\ f \in Seq(Tools) /\ DOMAIN f = 1..Len(f) /\ Len(f) \in Nat
<1>1. PICK n \in 0..N : f \in [1..n -> s]
  BY DEF InOrder
<1>2. f \in Seq(s)
  BY <1>1
<1> QED
  BY <1>2

LEMMA YieldType ==
    ASSUME NEW s \in SUBSET Tools, TypeOK, Yield(s), \A i \in s : status[i] = "completed",
           UNCHANGED <<kind, added, exec, scans, flags>>,
           client' \in ClientLabels, marking' \in BOOLEAN, gets' \in 0..MaxGets
    PROVE  TypeOK'
<1>1. status' = [i \in Tools |-> IF i \in s THEN "yielded" ELSE status[i]]
  BY DEF Yield
<1>2. delivered' \in Seq(Tools)
  <2>1. PICK results \in InOrder(s) : delivered' = delivered \o results
    BY DEF Yield
  <2> QED
    BY <2>1, InOrderType DEF TypeOK
<1>3. status' \in [Tools -> Statuses]
  BY <1>1 DEF TypeOK, Statuses
<1>4. ASSUME NEW i \in Tools
      PROVE  /\ status'[i] = "absent" <=> i > added
             /\ status'[i] = "executing" <=> exec[i] \in {"start", "aborted", "checked", "called"}
  BY <1>1, <1>4 DEF TypeOK
<1> QED
  BY <1>2, <1>3, <1>4 DEF TypeOK, flags

(* A tool's goroutine changes its own entries only. *)
LEMMA CompleteType ==
    ASSUME TypeOK, NEW i \in Tools, status[i] = "executing", Complete(i),
           UNCHANGED <<kind, added, scans, flags, clientVars>>
    PROVE  TypeOK'
<1>1. /\ status' = [status EXCEPT ![i] = "completed"]
      /\ exec' = [exec EXCEPT ![i] = "completed"]
  BY DEF Complete
<1>2. status' \in [Tools -> Statuses] /\ exec' \in [Tools -> ExecLabels]
  BY <1>1 DEF TypeOK, Statuses, ExecLabels
<1>3. ASSUME NEW j \in Tools
      PROVE  /\ status'[j] = "absent" <=> j > added
             /\ status'[j] = "executing" <=> exec'[j] \in {"start", "aborted", "checked", "called"}
  BY <1>1, <1>3 DEF TypeOK
<1> QED
  BY <1>2, <1>3 DEF TypeOK, flags, clientVars

LEMMA InitType == Init => TypeOK
<1> SUFFICES ASSUME Init PROVE TypeOK
  OBVIOUS
<1>1. kind \in [Tools -> Kinds] /\ delivered \in Seq(Tools)
  BY DEF Init
<1>2. status \in [Tools -> Statuses] /\ exec \in [Tools -> ExecLabels]
  BY DEF Init, Statuses, ExecLabels
<1>3. \A i \in Tools : i > added
  BY DEF Init, Tools
<1>4. \A i \in Tools : status[i] = "absent" /\ exec[i] = "none"
  BY DEF Init
<1>5. ASSUME NEW i \in Tools
      PROVE  /\ status[i] = "absent" <=> i > added
             /\ status[i] = "executing" <=> exec[i] \in {"start", "aborted", "checked", "called"}
  BY <1>3, <1>4
<1>6. added \in 0..N /\ scans \in Nat /\ gets \in 0..MaxGets /\ client \in ClientLabels
  BY DEF Init, ClientLabels
<1>7. /\ hasErrored \in BOOLEAN /\ discarded \in BOOLEAN /\ cancelled \in BOOLEAN
      /\ marking \in BOOLEAN
  BY Zenon DEF Init
<1> QED
  BY <1>1, <1>2, <1>5, <1>6, <1>7, Zenon DEF TypeOK

LEMMA NextType == TypeOK /\ [Next]_vars => TypeOK'
<1> SUFFICES ASSUME TypeOK, [Next]_vars PROVE TypeOK'
  OBVIOUS
<1>1. CASE AddTool
  <2>1. added + 1 \in Tools /\ added' = added + 1
    BY <1>1 DEF AddTool, TypeOK, Tools
  <2>2. PICK st \in {"completed", "queued"} : status' = [status EXCEPT ![added + 1] = st]
    BY <1>1 DEF AddTool
  <2>3. scans' \in Nat
    BY <1>1 DEF AddTool, TypeOK
  <2>4. status' \in [Tools -> Statuses]
    BY <2>1, <2>2 DEF TypeOK, Statuses
  <2>5. status[added + 1] = "absent"
    BY <2>1 DEF TypeOK
  <2>6. ASSUME NEW j \in Tools
        PROVE  /\ status'[j] = "absent" <=> j > added'
               /\ status'[j] = "executing" <=>
                      exec[j] \in {"start", "aborted", "checked", "called"}
    BY <2>1, <2>2, <2>5, <2>6 DEF TypeOK, Tools
  <2> QED
    BY <1>1, <2>1, <2>3, <2>4, <2>6 DEF AddTool, TypeOK, flags, clientVars, Tools
<1>2. CASE ProcessQueue
  <2>1. scans' \in Nat /\ client' \in ClientLabels
    BY <1>2 DEF ProcessQueue, TypeOK, Woken, ClientLabels
  <2>2. CASE discarded
    <3>1. status' = [i \in Tools |-> IF i \in Queued THEN "completed" ELSE status[i]]
          /\ exec' = exec
      BY <1>2, <2>2 DEF ProcessQueue
    <3>2. status' \in [Tools -> Statuses]
      BY <3>1 DEF TypeOK, Statuses
    <3>3. ASSUME NEW j \in Tools
          PROVE  /\ status'[j] = "absent" <=> j > added
                 /\ status'[j] = "executing" <=>
                        exec'[j] \in {"start", "aborted", "checked", "called"}
      BY <3>1, <3>3 DEF TypeOK, Queued
    <3> QED
      BY <1>2, <2>1, <3>1, <3>2, <3>3 DEF ProcessQueue, TypeOK, flags
  <2>3. CASE ~discarded
    <3>1. /\ status' = [i \in Tools |-> IF i \in Startable THEN "executing" ELSE status[i]]
          /\ exec' = [i \in Tools |-> IF i \in Startable THEN "start" ELSE exec[i]]
      BY <1>2, <2>3 DEF ProcessQueue
    <3>2. status' \in [Tools -> Statuses] /\ exec' \in [Tools -> ExecLabels]
      BY <3>1 DEF TypeOK, Statuses, ExecLabels
    <3>3. ASSUME NEW j \in Tools
          PROVE  /\ status'[j] = "absent" <=> j > added
                 /\ status'[j] = "executing" <=>
                        exec'[j] \in {"start", "aborted", "checked", "called"}
      BY <3>1, <3>3 DEF TypeOK, Startable, Queued
    <3> QED
      BY <1>2, <2>1, <3>2, <3>3 DEF ProcessQueue, TypeOK, flags
  <2> QED
    BY <2>2, <2>3
<1>3. CASE GetCompletedResults
  <2>1. Yieldable \in SUBSET Tools /\ \A i \in Yieldable : status[i] = "completed"
    BY DEF Yieldable, Tools
  <2>2. /\ Yield(Yieldable) /\ UNCHANGED <<kind, added, exec, scans, flags>>
        /\ client' = client /\ marking' = marking /\ gets' \in 0..MaxGets
    BY <1>3 DEF GetCompletedResults, TypeOK
  <2>3. client' \in ClientLabels /\ marking' \in BOOLEAN
    BY <2>2 DEF TypeOK
  <2> QED
    BY <2>1, <2>2, <2>3, YieldType
<1>4. CASE AwaitResults
  <2>1. marking' \in BOOLEAN
    BY <1>4, Zenon DEF AwaitResults
  <2>2. gets' \in 0..MaxGets
    BY <1>4 DEF AwaitResults, TypeOK
  <2>3. client' \in ClientLabels /\ UNCHANGED <<kind, added, status, exec, scans, flags, delivered>>
    BY <1>4 DEF AwaitResults, ClientLabels
  <2> QED
    BY <2>1, <2>2, <2>3 DEF TypeOK, flags
<1>5. CASE CheckDone \/ Wait
  BY <1>5 DEF CheckDone, Wait, TypeOK, ClientLabels, flags
<1>6. CASE Collect
  <2>1. CASE marking
    <3>1. {i \in Tools : status[i] = "completed"} \in SUBSET Tools
      OBVIOUS
    <3>2. /\ Yield({i \in Tools : status[i] = "completed"})
          /\ UNCHANGED <<kind, added, exec, scans, flags>>
          /\ client' \in ClientLabels /\ marking' \in BOOLEAN /\ gets' = gets
      BY <1>6, <2>1 DEF Collect, ClientLabels
    <3> QED
      BY <3>1, <3>2, YieldType DEF TypeOK
  <2>2. CASE ~marking
    BY <1>6, <2>2 DEF Collect, TypeOK, ClientLabels, flags
  <2> QED
    BY <2>1, <2>2
<1>7. CASE Discard \/ Interrupt
  BY <1>7 DEF Discard, Interrupt, TypeOK, clientVars
<1>8. ASSUME NEW i \in Tools, ExecuteTool(i) PROVE TypeOK'
  <2>1. CASE CheckAbort(i)
    <3>1. PICK e \in {"checked", "aborted"} : exec' = [exec EXCEPT ![i] = e]
      BY <2>1 DEF CheckAbort
    <3>2. exec' \in [Tools -> ExecLabels]
      BY <3>1 DEF TypeOK, ExecLabels
    <3>3. \A j \in Tools : exec[j] \in {"start", "aborted", "checked", "called"} <=>
                           exec'[j] \in {"start", "aborted", "checked", "called"}
      BY <2>1, <3>1 DEF CheckAbort, TypeOK
    <3> QED
      BY <2>1, <3>2, <3>3 DEF CheckAbort, TypeOK, flags, clientVars
  <2>2. CASE Synthesise(i) \/ Refuse(i) \/ Store(i)
    <3>1. /\ exec[i] \in {"aborted", "checked", "called"} /\ Complete(i)
          /\ UNCHANGED <<kind, added, scans, flags, clientVars>>
      BY <2>2 DEF Synthesise, Refuse, Store
    <3>2. status[i] = "executing"
      BY <3>1 DEF TypeOK
    <3> QED
      BY <3>1, <3>2, CompleteType
  <2>3. CASE Call(i)
    <3>1. exec[i] = "checked" /\ exec' = [exec EXCEPT ![i] = "called"] /\ hasErrored' \in BOOLEAN
      BY <2>3 DEF Call, TypeOK
    <3>2. exec' \in [Tools -> ExecLabels]
      BY <3>1 DEF TypeOK, ExecLabels
    <3>3. \A j \in Tools : exec[j] \in {"start", "aborted", "checked", "called"} <=>
                           exec'[j] \in {"start", "aborted", "checked", "called"}
      BY <3>1 DEF TypeOK
    <3> QED
      BY <2>3, <3>1, <3>2, <3>3 DEF Call, TypeOK, clientVars
  <2>4. CASE Announce(i)
    <3>1. exec[i] = "completed" /\ exec' = [exec EXCEPT ![i] = "ended"]
      BY <2>4 DEF Announce
    <3>2. scans' \in Nat /\ client' \in ClientLabels
      BY <2>4 DEF Announce, TypeOK, Woken, ClientLabels
    <3>3. exec' \in [Tools -> ExecLabels]
      BY <3>1 DEF TypeOK, ExecLabels
    <3>4. \A j \in Tools : exec[j] \in {"start", "aborted", "checked", "called"} <=>
                           exec'[j] \in {"start", "aborted", "checked", "called"}
      BY <3>1 DEF TypeOK
    <3> QED
      BY <2>4, <3>2, <3>3, <3>4 DEF Announce, TypeOK, flags
  <2> QED
    BY <1>8, <2>1, <2>2, <2>3, <2>4 DEF ExecuteTool
<1>9. CASE UNCHANGED vars
  BY <1>9 DEF vars, TypeOK
<1> QED
  BY <1>1, <1>2, <1>3, <1>4, <1>5, <1>6, <1>7, <1>8, <1>9 DEF Next, Client

(* The executor's state keeps its types, and a tool is executing exactly   *)
(* while its goroutine has no result yet.                                  *)
THEOREM TypeCorrect == Spec => []TypeOK
<1>1. Init => TypeOK
  BY InitType
<1>2. TypeOK /\ [Next]_vars => TypeOK'
  BY NextType
<1> QED
  BY <1>1, <1>2, PTL DEF Spec

-----------------------------------------------------------------------------
(* What a step may do to the statuses of the tools. *)
Adds ==
    /\ added + 1 \in Tools
    /\ \E st \in {"queued", "completed"} :
         /\ st = "completed" => kind[added + 1] = "unknown"
         /\ status' = [status EXCEPT ![added + 1] = st]

Drops == status' = [i \in Tools |-> IF i \in Queued THEN "completed" ELSE status[i]]

Starts == status' = [i \in Tools |-> IF i \in Startable THEN "executing" ELSE status[i]]

Yields ==
    \E s \in SUBSET Tools :
        /\ \A i \in s : status[i] = "completed"
        /\ status' = [i \in Tools |-> IF i \in s THEN "yielded" ELSE status[i]]

Finishes ==
    \E i \in Tools : status[i] = "executing" /\ status' = [status EXCEPT ![i] = "completed"]

LEMMA StatusSteps ==
    ASSUME TypeOK, [Next]_vars
    PROVE  /\ kind' = kind
           /\ Adds \/ Drops \/ Starts \/ Yields \/ Finishes \/ status' = status
<1>1. CASE AddTool
  <2>1. added + 1 \in Tools /\ kind' = kind
    BY <1>1 DEF AddTool, TypeOK, Tools
  <2>2. Adds
    BY <1>1, <2>1 DEF AddTool, Adds
  <2> QED
    BY <2>1, <2>2
<1>2. CASE ProcessQueue
  BY <1>2 DEF ProcessQueue, Drops, Starts
<1>3. CASE GetCompletedResults
  <2>1. Yieldable \in SUBSET Tools /\ \A i \in Yieldable : status[i] = "completed"
    BY DEF Yieldable, Tools
  <2> QED
    BY <1>3, <2>1 DEF GetCompletedResults, Yield, Yields
<1>4. CASE Collect
  <2>1. {i \in Tools : status[i] = "completed"} \in SUBSET Tools
    OBVIOUS
  <2> QED
    BY <1>4, <2>1 DEF Collect, Yield, Yields
<1>5. CASE AwaitResults \/ CheckDone \/ Wait \/ Discard \/ Interrupt
  BY <1>5 DEF AwaitResults, CheckDone, Wait, Discard, Interrupt
<1>6. ASSUME NEW i \in Tools, ExecuteTool(i)
      PROVE  kind' = kind /\ (Finishes \/ status' = status)
  <2>1. CASE CheckAbort(i) \/ Call(i) \/ Announce(i)
    BY <2>1 DEF CheckAbort, Call, Announce
  <2>2. CASE Synthesise(i) \/ Refuse(i) \/ Store(i)
    <3>1. exec[i] \in {"aborted", "checked", "called"} /\ Complete(i) /\ kind' = kind
      BY <2>2 DEF Synthesise, Refuse, Store
    <3>2. status[i] = "executing"
      BY <3>1 DEF TypeOK
    <3> QED
      BY <3>1, <3>2 DEF Complete, Finishes
  <2> QED
    BY <1>6, <2>1, <2>2 DEF ExecuteTool
<1>7. CASE UNCHANGED vars
  BY <1>7 DEF vars
<1> QED
  BY <1>1, <1>2, <1>3, <1>4, <1>5, <1>6, <1>7 DEF Next, Client

(* Starting what a scan may start adds no tool that needs the executor for *)
(* itself to others, nor others to it.                                     *)
LEMMA ExclusiveStep == TypeOK /\ Exclusive /\ [Next]_vars => Exclusive'
<1> SUFFICES ASSUME TypeOK, Exclusive, [Next]_vars,
                    NEW i \in Tools, NEW j \in Tools, i # j,
                    status'[i] = "executing", status'[j] = "executing"
             PROVE  Safe(i) /\ Safe(j)
  BY StatusSteps DEF Exclusive, Safe
<1>1. CASE Starts
  <2>1. CASE status[i] = "executing" /\ status[j] = "executing"
    BY <2>1 DEF Exclusive
  <2>2. CASE i \in Startable /\ status[j] = "executing"
    BY <2>2 DEF Startable, Executing, Compatible
  <2>3. CASE j \in Startable /\ status[i] = "executing"
    BY <2>3 DEF Startable, Executing, Compatible
  <2>4. CASE i \in Startable /\ j \in Startable
    <3>1. i \in Queued /\ j \in Queued /\ (i < j \/ j < i)
      BY <2>4 DEF Startable, Tools
    <3> QED
      BY <2>4, <3>1 DEF Startable, Compatible
  <2> QED
    BY <1>1, <2>1, <2>2, <2>3, <2>4 DEF Starts
<1>2. CASE Adds \/ Drops \/ Yields \/ Finishes \/ status' = status
  <2>1. status[i] = "executing" /\ status[j] = "executing"
    BY <1>2 DEF Adds, Drops, Yields, Finishes, TypeOK
  <2> QED
    BY <2>1 DEF Exclusive
<1> QED
  BY <1>1, <1>2, StatusSteps

(* "Non-concurrent tools execute alone", for any number of tools. *)
THEOREM ExclusiveAlways == Spec => []Exclusive
<1>1. Init => TypeOK /\ Exclusive
  BY InitType DEF Init, Exclusive
<1>2. TypeOK /\ Exclusive /\ [Next]_vars => TypeOK' /\ Exclusive'
  BY NextType, ExclusiveStep
<1> QED
  BY <1>1, <1>2, PTL DEF Spec

(* A scan that starts a tool starts every queued one before it: they would *)
(* both be safe, and what keeps the first waiting is not, so it would keep *)
(* the second waiting too.                                                 *)
LEMMA StartableFirst ==
    ASSUME NEW i \in Queued, NEW j \in Startable, i < j, TypeOK
    PROVE  i \in Startable
<1>1. Safe(i) /\ Safe(j) /\ j \in Tools /\ i \in Tools
  BY DEF Startable, Compatible, Queued
<1>2. ASSUME NEW k \in Executing PROVE Compatible(i, k)
  BY <1>1, <1>2 DEF Startable, Compatible
<1>3. ASSUME NEW k \in Queued, k < i PROVE Compatible(i, k)
  <2>1. k < j
    BY <1>1, <1>3 DEF Queued, Tools
  <2> QED
    BY <1>1, <2>1 DEF Startable, Compatible
<1> QED
  BY <1>2, <1>3 DEF Startable

LEMMA StartsInOrderStep == TypeOK /\ StartsInOrder /\ [Next]_vars => StartsInOrder'
<1> SUFFICES ASSUME TypeOK, StartsInOrder, [Next]_vars,
                    NEW i \in Tools, NEW j \in Tools, i < j,
                    status'[i] = "queued", kind[j] # "unknown"
             PROVE  status'[j] \in {"absent", "queued"}
  BY StatusSteps DEF StartsInOrder
<1>1. CASE Adds
  <2>1. PICK st \in {"queued", "completed"} :
            /\ st = "completed" => kind[added + 1] = "unknown"
            /\ status' = [status EXCEPT ![added + 1] = st]
    BY <1>1 DEF Adds
  <2>2. CASE i = added + 1
    <3>1. j > added + 1 /\ j > added
      BY <2>2 DEF TypeOK, Tools
    <3>2. status'[j] = status[j]
      BY <2>1, <3>1 DEF TypeOK, Tools
    <3> QED
      BY <3>1, <3>2 DEF TypeOK
  <2>3. CASE i # added + 1
    <3>1. status[i] = "queued"
      BY <2>1, <2>3 DEF TypeOK
    <3>2. CASE j = added + 1
      BY <1>1, <2>1, <3>2 DEF TypeOK, Adds
    <3>3. CASE j # added + 1
      BY <2>1, <3>1, <3>3 DEF TypeOK, StartsInOrder
    <3> QED
      BY <3>2, <3>3
  <2> QED
    BY <2>2, <2>3
<1>2. CASE Drops
  BY <1>2 DEF Drops, Queued
<1>3. CASE Starts
  <2>1. i \in Queued /\ i \notin Startable
    BY <1>3 DEF Starts, Queued
  <2>2. j \notin Startable
    BY <2>1, StartableFirst
  <2>3. status'[j] = status[j] /\ status[i] = "queued"
    BY <1>3, <2>1, <2>2 DEF Starts, Queued
  <2> QED
    BY <2>3 DEF StartsInOrder
<1>4. CASE Yields
  <2>1. PICK s \in SUBSET Tools :
            /\ \A k \in s : status[k] = "completed"
            /\ status' = [k \in Tools |-> IF k \in s THEN "yielded" ELSE status[k]]
    BY <1>4 DEF Yields
  <2>2. status[i] = "queued"
    BY <2>1
  <2>3. status[j] \in {"absent", "queued"}
    BY <2>2 DEF StartsInOrder
  <2> QED
    BY <2>1, <2>3
<1>5. CASE Finishes
  <2>1. PICK k \in Tools : status[k] = "executing" /\ status' = [status EXCEPT ![k] = "completed"]
    BY <1>5 DEF Finishes
  <2>2. status[i] = "queued"
    BY <2>1 DEF TypeOK
  <2>3. status[j] \in {"absent", "queued"}
    BY <2>2 DEF StartsInOrder
  <2> QED
    BY <2>1, <2>3 DEF TypeOK
<1>6. CASE status' = status
  BY <1>6 DEF StartsInOrder
<1> QED
  BY <1>1, <1>2, <1>3, <1>4, <1>5, <1>6, StatusSteps

(* No tool overtakes one that was asked for before it, for any number of   *)
(* tools.                                                                  *)
THEOREM StartsInOrderAlways == Spec => []StartsInOrder
<1>1. Init => TypeOK /\ StartsInOrder
  BY InitType DEF Init, StartsInOrder
<1>2. TypeOK /\ StartsInOrder /\ [Next]_vars => TypeOK' /\ StartsInOrder'
  BY NextType, StartsInOrderStep
<1> QED
  BY <1>1, <1>2, PTL DEF Spec

-----------------------------------------------------------------------------
(* Handing out a set of completed tools keeps the order, if all that was   *)
(* delivered comes before it.                                              *)
LEMMA DeliverStep ==
    ASSUME TypeOK, DeliveredYielded, DeliveredInOrderOnce, NEW s \in SUBSET Tools,
           Yield(s), \A i \in s : \A j \in Tools : status[j] = "yielded" => j < i
    PROVE  DeliveredYielded' /\ DeliveredInOrderOnce'
<1>1. PICK f \in InOrder(s) : delivered' = delivered \o f
  BY DEF Yield
<1>2. /\ f \in Seq(s) /\ f \in Seq(Tools) /\ Len(f) \in Nat
      /\ \A k, l \in 1..Len(f) : k < l => f[k] < f[l]
  BY InOrderType DEF InOrder
<1>3. /\ delivered \in Seq(Tools) /\ Len(delivered) \in Nat
      /\ Len(delivered') = Len(delivered) + Len(f)
  BY <1>1, <1>2 DEF TypeOK
<1>4. \A k \in 1..Len(delivered') :
          \/ k \in 1..Len(delivered) /\ delivered'[k] = delivered[k]
          \/ /\ k > Len(delivered) /\ k - Len(delivered) \in 1..Len(f)
             /\ delivered'[k] = f[k - Len(delivered)]
  BY <1>1, <1>2, <1>3
<1>5. \A k \in 1..Len(f) : f[k] \in s
  BY <1>2
<1>6. \A k \in 1..Len(delivered) : delivered[k] \in Tools /\ status[delivered[k]] = "yielded"
  BY <1>3 DEF DeliveredYielded
<1>7. status' = [i \in Tools |-> IF i \in s THEN "yielded" ELSE status[i]]
  BY DEF Yield
<1>8. DeliveredYielded'
  BY <1>4, <1>5, <1>6, <1>7 DEF DeliveredYielded
<1>9. ASSUME NEW k \in 1..Len(delivered'), NEW l \in 1..Len(delivered'), k < l
      PROVE  delivered'[k] < delivered'[l]
  <2>1. CASE l \in 1..Len(delivered) /\ k \in 1..Len(delivered)
    BY <1>3, <1>4, <1>9, <2>1 DEF DeliveredInOrderOnce
  <2>2. CASE l \notin 1..Len(delivered) /\ k \in 1..Len(delivered)
    <3>1. delivered'[l] \in s
      BY <1>4, <1>5, <2>2
    <3>2. /\ delivered'[k] = delivered[k]
          /\ delivered[k] \in Tools /\ status[delivered[k]] = "yielded"
      BY <1>3, <1>4, <1>6, <2>2
    <3> QED
      BY <3>1, <3>2
  <2>3. CASE k \notin 1..Len(delivered)
    <3>1. k > Len(delivered) /\ l > Len(delivered) /\ k - Len(delivered) < l - Len(delivered)
      BY <1>3, <1>4, <1>9, <2>3
    <3> QED
      BY <1>2, <1>4, <3>1
  <2>4. k \in 1..Len(delivered) \/ k \notin 1..Len(delivered)
    OBVIOUS
  <2> QED
    BY <2>1, <2>2, <2>3
<1> QED
  BY <1>8, <1>9 DEF DeliveredInOrderOnce

(* Statuses that change otherwise take no tool out of the yielded ones and *)
(* put none in, and leave everything done if it was.                       *)
LEMMA OtherSteps ==
    ASSUME TypeOK, Adds \/ Drops \/ Starts \/ Finishes \/ status' = status
    PROVE  \A i \in Tools : status'[i] = "yielded" <=> status[i] = "yielded"
<1>1. CASE Adds
  <2>1. status[added + 1] = "absent"
    BY <1>1 DEF Adds, TypeOK, Tools
  <2> QED
    BY <1>1, <2>1 DEF Adds, TypeOK
<1>2. CASE Drops \/ Starts \/ status' = status
  BY <1>2 DEF Drops, Starts, Startable, Queued
<1>3. CASE Finishes
  BY <1>3 DEF Finishes, TypeOK
<1> QED
  BY <1>1, <1>2, <1>3

LEMMA OrderedKept ==
    ASSUME TypeOK, Ordered, delivered' = delivered, CollectsWhenDone',
           Adds \/ Drops \/ Starts \/ Finishes \/ status' = status
    PROVE  Ordered'
<1>1. \A i \in Tools : status'[i] = "yielded" <=> status[i] = "yielded"
  BY OtherSteps
<1>2. YieldedFirst'
  BY <1>1 DEF YieldedFirst, Ordered
<1>3. DeliveredYielded'
  BY <1>1 DEF DeliveredYielded, Ordered, TypeOK
<1>4. DeliveredInOrderOnce'
  BY DEF DeliveredInOrderOnce, Ordered
<1> QED
  BY <1>2, <1>3, <1>4 DEF Ordered

LEMMA OrderedStep == TypeOK /\ Ordered /\ [Next]_vars => Ordered'
<1> SUFFICES ASSUME TypeOK, Ordered, [Next]_vars PROVE Ordered'
  OBVIOUS
<1>1. CASE GetCompletedResults
  <2>1. /\ Yieldable \in SUBSET Tools /\ Yield(Yieldable) /\ client' = "free"
        /\ status' = [i \in Tools |-> IF i \in Yieldable THEN "yielded" ELSE status[i]]
    BY <1>1 DEF GetCompletedResults, Yieldable, Yield
  <2>2. ASSUME NEW i \in Yieldable, NEW j \in Tools, status[j] = "yielded" PROVE j < i
    <3>1. 1 \in 1..i /\ i \in Tools /\ 1 \in Tools
      BY <2>2 DEF Yieldable, Tools
    <3>2. status[1] = "completed"
      BY <3>1 DEF Yieldable
    <3>3. 1 < j \/ j = 1
      BY DEF Tools
    <3> QED
      BY <2>2, <3>1, <3>2, <3>3 DEF Ordered, YieldedFirst
  <2>3. DeliveredYielded' /\ DeliveredInOrderOnce'
    BY <2>1, <2>2, DeliverStep DEF Ordered
  <2>4. ASSUME NEW i \in Tools, NEW j \in Tools, i < j, status'[j] = "yielded"
        PROVE  status'[i] = "yielded"
    <3>1. CASE j \in Yieldable
      <4>1. \A k \in 1..i : k \in 1..j
        BY <2>4 DEF Tools
      <4>2. i \in Yieldable
        BY <3>1, <4>1 DEF Yieldable
      <4> QED
        BY <2>1, <4>2
    <3>2. CASE j \notin Yieldable
      BY <2>1, <2>4, <3>2 DEF Ordered, YieldedFirst
    <3> QED
      BY <3>1, <3>2
  <2>5. CollectsWhenDone'
    BY <2>1 DEF CollectsWhenDone
  <2> QED
    BY <2>3, <2>4, <2>5 DEF Ordered, YieldedFirst
<1>2. CASE Collect
  <2> DEFINE s == {i \in Tools : status[i] = "completed"}
  <2>1. client' = "free" /\ AllDone
    BY <1>2 DEF Collect, Ordered, CollectsWhenDone
  <2>2. CASE marking
    <3>1. /\ s \in SUBSET Tools /\ Yield(s)
          /\ status' = [i \in Tools |-> IF i \in s THEN "yielded" ELSE status[i]]
      BY <1>2, <2>2 DEF Collect, Yield
    <3>2. ASSUME NEW i \in s, NEW j \in Tools, status[j] = "yielded" PROVE j < i
      <4>1. i \in Tools /\ status[i] = "completed"
        OBVIOUS
      <4>2. i # j /\ ~(i < j)
        BY <3>2, <4>1 DEF Ordered, YieldedFirst
      <4> QED
        BY <4>1, <4>2 DEF Tools
    <3>3. DeliveredYielded' /\ DeliveredInOrderOnce'
      <4> HIDE DEF s
      <4> QED
        BY <3>1, <3>2, DeliverStep DEF Ordered
    <3>4. ASSUME NEW i \in Tools, NEW j \in Tools, i < j, status'[j] = "yielded"
          PROVE  status'[i] = "yielded"
      <4>1. status[j] \in {"completed", "yielded"}
        BY <3>1, <3>4
      <4>2. status[i] # "absent"
        BY <3>4, <4>1 DEF TypeOK, Tools
      <4>3. status[i] \in {"completed", "yielded"}
        BY <2>1, <4>2 DEF AllDone, TypeOK, Statuses
      <4> QED
        BY <3>1, <4>3
    <3> QED
      BY <2>1, <3>3, <3>4 DEF Ordered, YieldedFirst, CollectsWhenDone
  <2>3. CASE ~marking
    <3>1. status' = status /\ delivered' = delivered /\ CollectsWhenDone'
      BY <1>2, <2>1, <2>3 DEF Collect, CollectsWhenDone
    <3> QED
      BY <3>1, OrderedKept
  <2> QED
    BY <2>2, <2>3
<1>3. CASE CheckDone
  <2>1. /\ status' = status /\ delivered' = delivered
        /\ client' = "collect" => AllDone
    BY <1>3 DEF CheckDone
  <2>2. CollectsWhenDone'
    BY <2>1 DEF CollectsWhenDone, AllDone
  <2> QED
    BY <2>1, <2>2, OrderedKept
<1>4. CASE AwaitResults \/ Wait
  <2>1. status' = status /\ delivered' = delivered /\ client' # "collect"
    BY <1>4 DEF AwaitResults, Wait
  <2> QED
    BY <2>1, OrderedKept DEF CollectsWhenDone
<1>5. CASE AddTool
  <2>1. Adds /\ delivered' = delivered /\ client' = "free"
    BY <1>5 DEF AddTool, Adds, clientVars, TypeOK, Tools
  <2> QED
    BY <2>1, OrderedKept DEF CollectsWhenDone
<1>6. ASSUME AllDone => status' = status, Drops \/ Starts \/ Finishes \/ status' = status,
             delivered' = delivered, client' = client \/ client' = Woken
      PROVE  Ordered'
  <2>1. client' = "collect" => client = "collect"
    BY <1>6 DEF Woken
  <2>2. CollectsWhenDone'
    BY <1>6, <2>1 DEF Ordered, CollectsWhenDone, AllDone
  <2> QED
    BY <1>6, <2>2, OrderedKept
<1>7. CASE ProcessQueue
  <2>1. /\ Drops \/ Starts
        /\ delivered' = delivered /\ (client' = client \/ client' = Woken)
    BY <1>7 DEF ProcessQueue, Drops, Starts
  <2>2. AllDone => status' = status
    <3>1. AllDone => Queued = {} /\ Startable = {}
      BY DEF AllDone, Queued, Startable
    <3>2. status = [i \in Tools |-> status[i]]
      BY DEF TypeOK
    <3> QED
      BY <2>1, <3>1, <3>2 DEF Drops, Starts
  <2> QED
    BY <1>6, <2>1, <2>2
<1>8. CASE Discard \/ Interrupt \/ UNCHANGED vars
  <2>1. status' = status /\ delivered' = delivered /\ client' = client
    BY <1>8 DEF Discard, Interrupt, vars
  <2> QED
    BY <1>6, <2>1
<1>9. ASSUME NEW i \in Tools, ExecuteTool(i) PROVE Ordered'
  <2>1. CASE CheckAbort(i) \/ Call(i) \/ Announce(i)
    <3>1. status' = status /\ delivered' = delivered /\ (client' = client \/ client' = Woken)
      BY <2>1 DEF CheckAbort, Call, Announce, clientVars
    <3> QED
      BY <1>6, <3>1
  <2>2. CASE Synthesise(i) \/ Refuse(i) \/ Store(i)
    <3>1. /\ exec[i] \in {"aborted", "checked", "called"} /\ Complete(i)
          /\ delivered' = delivered /\ client' = client
      BY <2>2 DEF Synthesise, Refuse, Store, clientVars
    <3>2. status[i] = "executing"
      BY <3>1 DEF TypeOK
    <3>3. Finishes /\ ~AllDone
      BY <3>1, <3>2 DEF Complete, Finishes, AllDone
    <3> QED
      BY <1>6, <3>1, <3>3
  <2> QED
    BY <1>9, <2>1, <2>2 DEF ExecuteTool
<1> QED
  BY <1>1, <1>2, <1>3, <1>4, <1>5, <1>7, <1>8, <1>9 DEF Next, Client

(* Results are handed out in the order of the stream and each at most      *)
(* once, for any number of tools and any number of collections.            *)
THEOREM DeliveredInOrderOnceAlways == Spec => []DeliveredInOrderOnce
<1>1. Init => TypeOK /\ Ordered
  <2>1. Init => YieldedFirst /\ CollectsWhenDone
    BY DEF Init, YieldedFirst, CollectsWhenDone
  <2>2. Init => DeliveredYielded /\ DeliveredInOrderOnce
    BY DEF Init, DeliveredYielded, DeliveredInOrderOnce
  <2> QED
    BY <2>1, <2>2, InitType DEF Ordered
<1>2. TypeOK /\ Ordered /\ [Next]_vars => TypeOK' /\ Ordered'
  BY NextType, OrderedStep
<1>3. Ordered => DeliveredInOrderOnce
  BY DEF Ordered
<1> QED
  BY <1>1, <1>2, <1>3, PTL DEF Spec

(* Which tools run together and in which order they start, for any number. *)
THEOREM SchedulingKeptAlways == Spec => []SchedulingKept
<1>1. Exclusive /\ StartsInOrder => SchedulingKept
  BY DEF SchedulingKept
<1> QED
  BY <1>1, ExclusiveAlways, StartsInOrderAlways, PTL

-----------------------------------------------------------------------------
(* A step hands out tools that are completed, with every one before them   *)
(* completed or yielded, or changes statuses otherwise.                    *)
HandsOut(s) ==
    /\ Yield(s)
    /\ \A i \in s : status[i] = "completed"
    /\ \A j \in s, i \in Tools : i < j => i \in Over

LEMMA HandingSteps ==
    ASSUME TypeOK, CollectsWhenDone, [Next]_vars
    PROVE  \/ \E s \in SUBSET Tools : HandsOut(s)
           \/ /\ Adds \/ Drops \/ Starts \/ Finishes \/ status' = status
              /\ delivered' = delivered
<1>1. CASE GetCompletedResults
  <2>1. Yieldable \in SUBSET Tools /\ \A i \in Yieldable : status[i] = "completed"
    BY DEF Yieldable, Tools
  <2>2. ASSUME NEW j \in Yieldable, NEW i \in Tools, i < j PROVE i \in Over
    <3>1. i \in 1..j
      BY <2>2 DEF Yieldable, Tools
    <3> QED
      BY <3>1 DEF Yieldable, Over
  <2>3. HandsOut(Yieldable)
    BY <1>1, <2>1, <2>2 DEF GetCompletedResults, HandsOut
  <2> QED
    BY <2>1, <2>3
<1>2. CASE Collect
  <2> DEFINE s == {i \in Tools : status[i] = "completed"}
  <2>1. CASE marking
    <3>1. s \in SUBSET Tools /\ Yield(s) /\ AllDone
      BY <1>2, <2>1 DEF Collect, CollectsWhenDone
    <3>2. ASSUME NEW j \in s, NEW i \in Tools, i < j PROVE i \in Over
      <4>1. ~(j > added)
        BY <3>2 DEF TypeOK
      <4>2. ~(i > added)
        BY <3>2, <4>1 DEF TypeOK, Tools
      <4>3. status[i] # "absent"
        BY <4>2 DEF TypeOK
      <4> QED
        BY <3>1, <4>3 DEF AllDone, Over, TypeOK, Statuses
    <3>3. HandsOut(s)
      BY <3>1, <3>2 DEF HandsOut
    <3> QED
      BY <3>1, <3>3
  <2>2. CASE ~marking
    BY <1>2, <2>2 DEF Collect
  <2> QED
    BY <2>1, <2>2
<1>3. CASE AddTool
  <2>1. Adds /\ delivered' = delivered
    BY <1>3 DEF AddTool, Adds, clientVars, TypeOK, Tools
  <2> QED
    BY <2>1
<1>4. CASE ProcessQueue
  BY <1>4 DEF ProcessQueue, Drops, Starts
<1>5. CASE AwaitResults \/ CheckDone \/ Wait \/ Discard \/ Interrupt \/ UNCHANGED vars
  BY <1>5 DEF AwaitResults, CheckDone, Wait, Discard, Interrupt, vars
<1>6. ASSUME NEW i \in Tools, ExecuteTool(i)
      PROVE  (Finishes \/ status' = status) /\ delivered' = delivered
  <2>1. CASE CheckAbort(i) \/ Call(i) \/ Announce(i)
    BY <2>1 DEF CheckAbort, Call, Announce, clientVars
  <2>2. CASE Synthesise(i) \/ Refuse(i) \/ Store(i)
    <3>1. /\ exec[i] \in {"aborted", "checked", "called"} /\ Complete(i)
          /\ delivered' = delivered
      BY <2>2 DEF Synthesise, Refuse, Store, clientVars
    <3>2. status[i] = "executing"
      BY <3>1 DEF TypeOK
    <3> QED
      BY <3>1, <3>2 DEF Complete, Finishes
  <2> QED
    BY <1>6, <2>1, <2>2 DEF ExecuteTool
<1> QED
  BY <1>1, <1>2, <1>3, <1>4, <1>5, <1>6 DEF Next, Client

promised == <<{i \in Tools : Safe(i)}, Executing, Over, delivered>>

(* Each step of the executor is one of the promise, or changes nothing     *)
(* that the promise speaks of.                                             *)
LEMMA PromiseStep ==
    ASSUME TypeOK, Ordered, [Next]_vars
    PROVE  [Promised!Next]_promised
<1> DEFINE sharing == {i \in Tools : Safe(i)}
<1>1. sharing' = sharing
  BY StatusSteps DEF Safe
<1>2. ASSUME NEW s \in SUBSET Tools, HandsOut(s) PROVE Promised!Answer(s)
  <2>1. status' = [i \in Tools |-> IF i \in s THEN "yielded" ELSE status[i]]
    BY <1>2 DEF HandsOut, Yield
  <2>2. \A i \in s : status[i] = "completed"
    BY <1>2 DEF HandsOut
  <2>3. s \cap Executing = {} /\ Executing' = Executing
    BY <2>1, <2>2 DEF Executing
  <2>4. Over' = Over \cup s
    BY <2>1, <2>2 DEF Over
  <2>5. \A j \in s, i \in Tools : i < j => i \in Over'
    BY <1>2, <2>4 DEF HandsOut
  <2>6. ASSUME NEW k \in DOMAIN delivered, NEW j \in s PROVE delivered[k] < j
    <3>1. status[delivered[k]] = "yielded" /\ delivered[k] \in Tools
      BY <2>6 DEF Ordered, DeliveredYielded, TypeOK
    <3>2. ~(j < delivered[k]) /\ j # delivered[k]
      BY <2>2, <3>1 DEF Ordered, YieldedFirst
    <3> QED
      BY <3>1, <3>2 DEF Tools
  <2>7. \E f \in Promised!InTurn(s) : delivered' = delivered \o f
    BY <1>2, Zenon DEF HandsOut, Yield, InOrder, Promised!InTurn
  <2> QED
    BY <1>1, <2>3, <2>4, <2>5, <2>6, <2>7 DEF Promised!Answer, Promised!Calls, Tools
<1>3. ASSUME Starts, delivered' = delivered PROVE Promised!Begin(Startable)
  <2>1. Startable \cap (Executing \cup Over) = {} /\ Executing' = Executing \cup Startable /\ Over' = Over
    BY <1>3 DEF Starts, Startable, Queued, Executing, Over
  <2>2. ASSUME NEW j \in Startable, NEW i \in Tools, i < j PROVE Promised!MayBegin(i, j)
    <3>1. j \in Queued /\ j \in Tools /\ status[j] = "queued"
      BY DEF Startable, Queued
    <3>2. status[i] # "absent"
      BY <2>2, <3>1 DEF TypeOK, Tools
    <3>3. CASE status[i] \in {"completed", "yielded"}
      BY <3>3 DEF Over, Promised!MayBegin
    <3>4. CASE status[i] \in {"queued", "executing"}
      <4>1. Compatible(j, i)
        BY <2>2, <3>4 DEF Startable, Queued, Executing
      <4> QED
        BY <3>1, <4>1 DEF Compatible, Promised!MayBegin
    <3> QED
      BY <3>2, <3>3, <3>4 DEF TypeOK, Statuses
  <2> QED
    BY <1>1, <1>3, <2>1, <2>2 DEF Promised!Begin, Promised!Calls, Tools
<1>4. ASSUME NEW s \in SUBSET Tools, delivered' = delivered, \A i \in s : status[i] \notin {"completed", "yielded"},
             status' = [i \in Tools |-> IF i \in s THEN "completed" ELSE status[i]]
      PROVE  Promised!End(s)
  <2>1. s \cap Over = {} /\ Over' = Over \cup s /\ Executing' = Executing \ s
    BY <1>4 DEF Over, Executing
  <2> QED
    BY <1>1, <1>4, <2>1 DEF Promised!End
<1>5. Startable \in SUBSET Tools /\ Queued \in SUBSET Tools
  BY DEF Startable, Queued
<1>6. ASSUME Adds, delivered' = delivered
      PROVE  Promised!End({added + 1}) \/ UNCHANGED promised
  <2>1. PICK st \in {"queued", "completed"} : status' = [status EXCEPT ![added + 1] = st]
    BY <1>6 DEF Adds
  <2>2. added + 1 \in Tools /\ status[added + 1] = "absent"
    BY <1>6 DEF Adds, TypeOK, Tools
  <2>3. CASE st = "completed"
    <3>1. status' = [i \in Tools |-> IF i \in {added + 1} THEN "completed" ELSE status[i]]
      BY <2>1, <2>3 DEF TypeOK
    <3> QED
      BY <1>4, <1>6, <2>2, <3>1
  <2>4. CASE st = "queued"
    <3>1. Executing' = Executing /\ Over' = Over
      BY <2>1, <2>2, <2>4 DEF TypeOK, Executing, Over
    <3> QED
      BY <1>1, <1>6, <3>1 DEF promised
  <2> QED
    BY <2>3, <2>4
<1>7. ASSUME Drops, delivered' = delivered PROVE Promised!End(Queued)
  BY <1>4, <1>5, <1>7 DEF Drops, Queued
<1>8. ASSUME Finishes, delivered' = delivered
      PROVE  \E i \in Tools : Promised!End({i})
  <2>1. PICK i \in Tools : status[i] = "executing" /\ status' = [status EXCEPT ![i] = "completed"]
    BY <1>8 DEF Finishes
  <2>2. status' = [j \in Tools |-> IF j \in {i} THEN "completed" ELSE status[j]]
    BY <2>1 DEF TypeOK
  <2> QED
    BY <1>4, <1>8, <2>1, <2>2
<1>9. ASSUME status' = status, delivered' = delivered PROVE UNCHANGED promised
  BY <1>1, <1>9 DEF promised, Executing, Over
<1>10. ASSUME NEW s \in SUBSET Tools, Promised!Begin(s) \/ Promised!End(s) \/ Promised!Answer(s)
       PROVE  Promised!Next
  BY <1>10 DEF Promised!Next, Promised!Calls, Tools
<1>11. Adds => {added + 1} \in SUBSET Tools
  BY DEF Adds
<1>12. \A i \in Tools : {i} \in SUBSET Tools
  OBVIOUS
<1> QED
  BY <1>2, <1>3, <1>5, <1>6, <1>7, <1>8, <1>9, <1>10, <1>11, <1>12, HandingSteps DEF Ordered

(* The executor implements ToolCalls: whichever tools fail, are discarded  *)
(* or cancelled, and whenever results are collected, for any number of     *)
(* tools, a tool begins, ends and is answered as the promise allows.       *)
THEOREM KeepsPromiseAlways == Spec => KeepsPromise
<1>1. Init => TypeOK /\ Ordered
  BY InitType DEF Init, Ordered, YieldedFirst, CollectsWhenDone, DeliveredYielded, DeliveredInOrderOnce
<1>2. Init => Promised!Init
  BY DEF Init, Promised!Init, Promised!Calls, Executing, Over, Tools
<1>3. TypeOK /\ Ordered /\ [Next]_vars => TypeOK' /\ Ordered' /\ [Promised!Next]_promised
  BY NextType, OrderedStep, PromiseStep
<1> QED
  BY <1>1, <1>2, <1>3, PTL DEF Spec, KeepsPromise, Promised!Spec, promised
================================================================================
