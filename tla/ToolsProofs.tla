------------------------------ MODULE ToolsProofs ------------------------------
(***************************************************************************)
(* Proofs about tools: what a loop that selects gives, which the proofs of *)
(* calls in order and of pools of names rest on; the calls of a message,   *)
(* hooks, schemas, the session's mode and the pool; the tasks and jobs     *)
(* that tools keep; and the browser's sessions with what calls set up on   *)
(* their pages.  Each for every value of its constants.  The services of   *)
(* the browser have an inductive invariant each: Managed, Tabbed, Routed,  *)
(* Headed, Jarred and Heeded.                                              *)
(*                                                                         *)
(* That an operation on a task closes no cycle needs no induction on       *)
(* paths: the search that did not come back to the changed task leaves a   *)
(* closed set of tasks without it, and a cycle through that task would     *)
(* have another inside this set, where no edge has changed.                *)
(***************************************************************************)
EXTENDS ServicesProofs, SequenceTheorems, WellFoundedInduction

(* Numbers have a least one: what proofs by induction are here.            *)
LEMMA Least ==
    ASSUME NEW T \in SUBSET Nat, T # {} PROVE \E x \in T : \A y \in T : x <= y
<1>1. PICK x \in T : \A y \in T : ~(<<y, x>> \in OpToRel(<, Nat))
  BY NatLessThanWellFounded, WFMin, Zenon
<1>2. \A y \in T : ~(y < x)
  BY <1>1 DEF OpToRel
<1> QED
  BY <1>2

(* The k-th of a set is the one with k of the set up to itself. *)
UpTo(P, i) == {j \in P : j <= i}

LEMMA Ranks ==
    ASSUME NEW P \in SUBSET Nat, IsFiniteSet(P)
    PROVE  /\ Cardinality(P) \in Nat
           /\ \A i \in P : Cardinality(UpTo(P, i)) \in 1..Cardinality(P)
           /\ \A i, k \in P : i < k => Cardinality(UpTo(P, i)) < Cardinality(UpTo(P, k))
<1>1. Cardinality(P) \in Nat
  BY FS_CardinalityType
<1>2. ASSUME NEW i \in P PROVE IsFiniteSet(UpTo(P, i)) /\ Cardinality(UpTo(P, i)) \in 1..Cardinality(P)
  <2>1. UpTo(P, i) \subseteq P /\ i \in UpTo(P, i)
    BY DEF UpTo
  <2> HIDE DEF UpTo
  <2>2. IsFiniteSet(UpTo(P, i)) /\ Cardinality(UpTo(P, i)) <= Cardinality(P)
    BY <2>1, FS_Subset
  <2>3. Cardinality(UpTo(P, i)) \in Nat /\ Cardinality(UpTo(P, i)) # 0
    BY <2>1, <2>2, FS_CardinalityType, FS_EmptySet
  <2> QED
    BY <1>1, <2>2, <2>3
<1>3. ASSUME NEW i \in P, NEW k \in P, i < k PROVE Cardinality(UpTo(P, i)) < Cardinality(UpTo(P, k))
  <2> DEFINE U == UpTo(P, k)
  <2>0. i \in Nat /\ k \in Nat /\ \A j \in P : j \in Nat
    OBVIOUS
  <2>1. UpTo(P, i) \subseteq U \ {k} /\ k \in U
    <3>1. \A j \in P : j <= i => j <= k /\ j # k
      BY <1>3, <2>0
    <3>2. k <= k
      BY <2>0
    <3> QED
      BY <3>1, <3>2 DEF UpTo
  <2> HIDE DEF U
  <2>2. IsFiniteSet(U) /\ Cardinality(U) \in Nat
    BY <1>2, FS_CardinalityType DEF U
  <2>3. IsFiniteSet(U \ {k}) /\ Cardinality(U \ {k}) = Cardinality(U) - 1
    BY <2>1, <2>2, FS_RemoveElement
  <2>4. Cardinality(UpTo(P, i)) <= Cardinality(U \ {k}) /\ Cardinality(UpTo(P, i)) \in Nat
    BY <1>1, <1>2, <2>1, <2>3, FS_Subset
  <2> QED
    BY <2>2, <2>3, <2>4 DEF U
<1> QED
  BY <1>1, <1>2, <1>3

(* There is one of every rank. *)
LEMMA EveryRank ==
    ASSUME NEW P \in SUBSET Nat, IsFiniteSet(P), NEW n \in 1..Cardinality(P)
    PROVE  \E i \in P : Cardinality(UpTo(P, i)) = n
<1> DEFINE T == {k \in 1..Cardinality(P) : \A i \in P : Cardinality(UpTo(P, i)) # k}
<1> SUFFICES ASSUME T # {} PROVE FALSE
  BY Zenon
<1>1. Cardinality(P) \in Nat
  BY Ranks
<1>2. PICK k \in T : \A l \in T : k <= l
  <2>1. T \subseteq Nat
    OBVIOUS
  <2> QED
    BY <2>1, Least
<1>3. k \in 1..Cardinality(P) /\ \A i \in P : Cardinality(UpTo(P, i)) # k
  BY DEF T
<1>4. \E B \in SUBSET P : /\ IsFiniteSet(B) /\ Cardinality(B) = k - 1
                          /\ \A i \in B, j \in P \ B : i < j
  <2>1. CASE k = 1
    <3>1. IsFiniteSet({}) /\ Cardinality({}) = k - 1
      BY <2>1, FS_EmptySet
    <3> QED
      BY <3>1
  <2>2. CASE k # 1
    <3>1. k - 1 \in 1..Cardinality(P) /\ ~(k <= k - 1)
      BY <1>1, <1>3, <2>2
    <3>2. PICK i \in P : Cardinality(UpTo(P, i)) = k - 1
      BY <1>2, <3>1
    <3>3. UpTo(P, i) \subseteq P /\ \A a \in UpTo(P, i), b \in P \ UpTo(P, i) : a < b
      BY DEF UpTo
    <3> HIDE DEF UpTo
    <3>4. IsFiniteSet(UpTo(P, i))
      BY <3>3, FS_Subset
    <3> QED
      BY <3>2, <3>3, <3>4
  <2> QED
    BY <2>1, <2>2
<1>5. PICK B \in SUBSET P : /\ IsFiniteSet(B) /\ Cardinality(B) = k - 1
                            /\ \A i \in B, j \in P \ B : i < j
  BY <1>4
<1>6. P \ B # {}
  <2> SUFFICES ASSUME P \ B = {} PROVE FALSE
    OBVIOUS
  <2>1. B = P
    OBVIOUS
  <2>2. k - 1 = Cardinality(P)
    BY <1>5, <2>1
  <2> QED
    BY <1>1, <1>3, <2>2
<1>7. PICK m \in P \ B : \A j \in P \ B : m <= j
  <2>1. P \ B \subseteq Nat
    OBVIOUS
  <2> QED
    BY <1>6, <2>1, Least
<1>8. UpTo(P, m) = B \cup {m}
  <2>1. \A j \in P : j <= m => j \in B \cup {m}
    BY <1>7
  <2>2. \A j \in B : j <= m
    BY <1>5, <1>7
  <2>3. m \in P /\ m <= m /\ B \subseteq P
    BY <1>5, <1>7
  <2> QED
    BY <2>1, <2>2, <2>3 DEF UpTo
<1>9. Cardinality(UpTo(P, m)) = k
  <2>1. Cardinality(B \cup {m}) = Cardinality(B) + 1
    BY <1>5, <1>7, FS_AddElement
  <2>2. k \in Int
    BY <1>1, <1>3
  <2> QED
    BY <1>5, <1>8, <2>1, <2>2
<1> QED
  BY <1>3, <1>7, <1>9

(* Ascending gives a finite set of numbers, each once, in order. *)
LEMMA AscendingIs ==
    ASSUME NEW P \in SUBSET Nat, IsFiniteSet(P)
    PROVE  /\ Cardinality(P) \in Nat
           /\ Ascending(P) \in [1..Cardinality(P) -> P]
           /\ \A j, k \in 1..Cardinality(P) : j < k => Ascending(P)[j] < Ascending(P)[k]
           /\ \A i \in P : \E k \in 1..Cardinality(P) : Ascending(P)[k] = i
<1> DEFINE n == Cardinality(P)
<1>1. /\ n \in Nat
      /\ \A i \in P : Cardinality(UpTo(P, i)) \in 1..n
      /\ \A i, k \in P : i < k => Cardinality(UpTo(P, i)) < Cardinality(UpTo(P, k))
  BY Ranks
<1>2. \A k \in 1..n : \E i \in P : Cardinality(UpTo(P, i)) = k
  BY EveryRank
<1>3. \A k \in 1..n : Ascending(P)[k] \in P /\ Cardinality(UpTo(P, Ascending(P)[k])) = k
  BY <1>2 DEF Ascending, UpTo
<1>4. Ascending(P) \in [1..n -> P]
  BY <1>3 DEF Ascending
<1> HIDE DEF UpTo
<1>5. ASSUME NEW j \in 1..n, NEW k \in 1..n, j < k PROVE Ascending(P)[j] < Ascending(P)[k]
  <2> DEFINE a == Ascending(P)[j]
             b == Ascending(P)[k]
  <2>1. a \in P /\ b \in P /\ Cardinality(UpTo(P, a)) = j /\ Cardinality(UpTo(P, b)) = k
    BY <1>3
  <2>2. b < a => k < j
    BY <1>1, <2>1
  <2>3. a # b
    BY <1>5, <2>1
  <2>4. a \in Int /\ b \in Int /\ j \in Int /\ k \in Int
    <3>1. \A x \in P : x \in Int
      OBVIOUS
    <3>2. \A x \in 1..n : x \in Int
      BY <1>1
    <3> QED
      BY <2>1, <3>1, <3>2
  <2> HIDE DEF a, b
  <2>5. a < b
    BY <1>5, <2>2, <2>3, <2>4
  <2> QED
    BY <2>5 DEF a, b
<1>6. ASSUME NEW i \in P PROVE \E k \in 1..n : Ascending(P)[k] = i
  <2> DEFINE k == Cardinality(UpTo(P, i))
             b == Ascending(P)[k]
  <2>1. k \in 1..n
    BY <1>1
  <2>2. b \in P /\ Cardinality(UpTo(P, b)) = k
    BY <1>3, <2>1
  <2>3. ~(b < i) /\ ~(i < b)
    <3>1. b < i => Cardinality(UpTo(P, b)) < k
      BY <1>1, <2>2
    <3>2. i < b => k < Cardinality(UpTo(P, b))
      BY <1>1, <2>2
    <3>3. k \in Int
      BY <1>1, <2>1
    <3> QED
      BY <2>2, <3>1, <3>2, <3>3
  <2>4. b \in Int /\ i \in Int
    <3>1. \A x \in P : x \in Int
      OBVIOUS
    <3> QED
      BY <2>2, <3>1
  <2> HIDE DEF b, k
  <2>5. b = i
    BY <2>3, <2>4
  <2> QED
    BY <2>1, <2>5 DEF b
<1> QED
  BY <1>1, <1>4, <1>5, <1>6

LEMMA ThoseAre ==
    ASSUME NEW S, NEW s \in Seq(S), NEW P \in SUBSET (DOMAIN s)
    PROVE  /\ Cardinality(P) \in Nat
           /\ Those(s, P) \in Seq(S) /\ Len(Those(s, P)) = Cardinality(P)
           /\ ToSet(Those(s, P)) = {s[i] : i \in P}
           /\ (\A i, j \in P : s[i] = s[j] => i = j) => IsInjective(Those(s, P))
<1> DEFINE n == Cardinality(P)
           t == Those(s, P)
           at == Ascending(P)
<1>1. P \in SUBSET Nat /\ IsFiniteSet(P)
  <2>1. DOMAIN s = 1..Len(s) /\ Len(s) \in Nat
    OBVIOUS
  <2>2. IsFiniteSet(1..Len(s)) /\ P \subseteq 1..Len(s)
    BY <2>1, FS_Interval
  <2>3. P \in SUBSET Nat
    BY <2>1
  <2> QED
    BY <2>2, <2>3, FS_Subset
<1>2. /\ n \in Nat /\ at \in [1..n -> P]
      /\ \A j, k \in 1..n : j < k => at[j] < at[k]
      /\ \A i \in P : \E k \in 1..n : at[k] = i
  BY <1>1, AscendingIs
<1>3. t = [k \in 1..n |-> s[at[k]]]
  BY <1>2 DEF Those
<1> HIDE DEF at, n, t
<1>4. \A k \in 1..n : at[k] \in P /\ s[at[k]] \in S /\ t[k] = s[at[k]]
  BY <1>2, <1>3, ElementOfSeq
<1>5. t \in [1..n -> S] /\ DOMAIN t = 1..n
  BY <1>3, <1>4
<1>6. t \in Seq(S) /\ Len(t) = n
  BY <1>2, <1>5, SeqDef
<1>7. ToSet(t) = {s[i] : i \in P}
  BY <1>2, <1>4, <1>5, SMTT(30) DEF ToSet
<1>8. ASSUME \A i, j \in P : s[i] = s[j] => i = j PROVE IsInjective(t)
  <2> SUFFICES ASSUME NEW j \in 1..n, NEW k \in 1..n, t[j] = t[k] PROVE j = k
    BY <1>5 DEF IsInjective
  <2>1. at[j] = at[k] /\ at[j] \in Nat
    BY <1>1, <1>4, <1>8
  <2> QED
    BY <1>2, <2>1
<1> QED
  BY <1>2, <1>6, <1>7, <1>8 DEF n, t

(* No name twice gives no name twice. *)
LEMMA OnlyAre ==
    ASSUME NEW S, NEW s \in Seq(S), NEW T
    PROVE  /\ Only(s, T) \in Seq(S)
           /\ ToSet(Only(s, T)) = ToSet(s) \cap T
           /\ IsInjective(s) => IsInjective(Only(s, T))
<1> DEFINE P == {i \in DOMAIN s : s[i] \in T}
<1>1. P \in SUBSET (DOMAIN s)
  OBVIOUS
<1>2. {s[i] : i \in P} = ToSet(s) \cap T
  BY DEF ToSet
<1>3. IsInjective(s) => \A i, j \in P : s[i] = s[j] => i = j
  BY DEF IsInjective
<1> HIDE DEF P
<1>4. /\ Those(s, P) \in Seq(S)
      /\ ToSet(Those(s, P)) = {s[i] : i \in P}
      /\ (\A i, j \in P : s[i] = s[j] => i = j) => IsInjective(Those(s, P))
  BY <1>1, ThoseAre
<1> QED
  BY <1>2, <1>3, <1>4 DEF Only, P

-------------------------------------------------------------------------------
(* The calls of the groups begun have an end each, but for those of the    *)
(* group that runs; and the results are those of the groups collected, in  *)
(* order, and of the group that a cancel left.                             *)
Ended == {"error", "result", "nothing"}
Speaks(i) == run[i] \in {"error", "result"}
Calls == 1..Len(callKind)

RunTypes ==
    /\ callKind \in Seq({"safe", "exclusive", "unknown"})
    /\ groupTo \in 0..Len(callKind) /\ groupFrom \in 1..(groupTo + 1)
    /\ run \in [Calls -> {"waiting", "running"} \cup Ended]
    /\ results \in Seq(Calls)
    /\ interrupted \in BOOLEAN
    /\ runTools \in {"groups", "group", "returned"}
GroupTogether ==
    /\ \A i, j \in groupFrom..groupTo : i = j \/ (IsSafe(i) /\ IsSafe(j))
    /\ runTools # "group" => \A i \in 1..groupTo : run[i] \in Ended
    /\ \A i \in 1..(groupFrom - 1) : run[i] \in Ended
    /\ \A i \in (groupTo + 1)..Len(callKind) : run[i] = "waiting"
Rising(s) == \A j, k \in DOMAIN s : j < k => s[j] < s[k]
Spoken(n) == {i \in 1..n : Speaks(i)}
AnswersSoFar ==
    /\ Rising(results)
    /\ runTools = "group" => ToSet(results) = Spoken(groupFrom - 1)
    /\ runTools = "groups" => ToSet(results) = Spoken(groupTo)
    /\ runTools = "returned" =>
          \/ groupTo = Len(callKind) /\ ToSet(results) = Spoken(groupTo)
          \/ interrupted /\ \E j \in Calls : ToSet(results) = Spoken(groupTo) \cup ((groupTo + 1)..j)

Orchestrated == RunTypes /\ GroupTogether /\ AnswersSoFar

-----------------------------------------------------------------------------
LEMMA OrchestratedInit == OrchestrationInit => Orchestrated
<1> SUFFICES ASSUME OrchestrationInit PROVE Orchestrated
  OBVIOUS
<1> USE DEF OrchestrationInit
<1>1. callKind \in Seq({"safe", "exclusive", "unknown"})
  BY CallsAssumption DEF SeqOf
<1>2. RunTypes
  <2>1. Len(callKind) \in Nat
    BY <1>1
  <2>2. groupTo \in 0..Len(callKind) /\ groupFrom \in 1..(groupTo + 1)
    BY <2>1
  <2>3. run \in [Calls -> {"waiting", "running"} \cup Ended]
    BY DEF Calls
  <2>4. results \in Seq(Calls) /\ interrupted \in BOOLEAN /\ runTools \in {"groups", "group", "returned"}
    BY EmptySeq
  <2> QED
    BY <1>1, <2>2, <2>3, <2>4 DEF RunTypes
<1>3. GroupTogether
  BY <1>1 DEF GroupTogether
<1>4. ToSet(results) = {} /\ Rising(results) /\ Spoken(groupTo) = {}
  BY DEF ToSet, Rising, Spoken
<1> QED
  BY <1>2, <1>3, <1>4 DEF Orchestrated, AnswersSoFar

(* Answers in order, put after others of earlier calls. *)
LEMMA AnswersFollow ==
    ASSUME NEW n \in Nat, NEW s \in Seq(1..n), Rising(s),
           NEW C \in SUBSET (1..n), \A i \in ToSet(s), j \in C : i < j
    PROVE  /\ s \o Ascending(C) \in Seq(1..n) /\ Rising(s \o Ascending(C))
           /\ ToSet(s \o Ascending(C)) = ToSet(s) \cup C
<1> DEFINE t == Ascending(C)
<1>0. C \in SUBSET Nat /\ IsFiniteSet(C)
  <2>1. IsFiniteSet(1..n) /\ 1..n \subseteq Nat
    BY FS_Interval
  <2> QED
    BY <2>1, FS_Subset
<1>1. /\ Cardinality(C) \in Nat /\ t \in [1..Cardinality(C) -> C]
      /\ \A j, k \in 1..Cardinality(C) : j < k => t[j] < t[k]
      /\ \A i \in C : \E k \in 1..Cardinality(C) : t[k] = i
  BY <1>0, AscendingIs
<1> HIDE DEF t
<1>2. t \in [1..Cardinality(C) -> 1..n]
  BY <1>1
<1>3. t \in Seq(1..n) /\ ToSet(t) = C /\ Rising(t)
  <2>1. t \in Seq(1..n) /\ DOMAIN t = 1..Cardinality(C)
    BY <1>1, <1>2, SeqDef
  <2>2. Rising(t)
    BY <1>1, <2>1 DEF Rising
  <2>3. ToSet(t) = C
    BY <1>1, <2>1 DEF ToSet
  <2> QED
    BY <2>1, <2>2, <2>3
<1> DEFINE u == s \o t
<1>4. /\ Len(s) \in Nat /\ Len(t) \in Nat /\ DOMAIN s = 1..Len(s) /\ DOMAIN t = 1..Len(t)
      /\ u \in Seq(1..n) /\ DOMAIN u = 1..(Len(s) + Len(t))
      /\ \A k \in 1..Len(s) : u[k] = s[k]
      /\ \A k \in 1..(Len(s) + Len(t)) : k > Len(s) => u[k] = t[k - Len(s)] /\ k - Len(s) \in 1..Len(t)
  BY <1>3
<1>5. /\ \A k \in 1..Len(s) : s[k] \in ToSet(s) /\ s[k] \in 1..n
      /\ \A k \in 1..Len(t) : t[k] \in C /\ t[k] \in 1..n
  BY <1>3, <1>4, ElementOfSeq DEF ToSet
<1> HIDE DEF u
<1>6. ASSUME NEW j \in DOMAIN u, NEW k \in DOMAIN u, j < k PROVE u[j] < u[k]
  <2>1. CASE k <= Len(s)
    <3>1. j \in DOMAIN s /\ k \in DOMAIN s /\ u[j] = s[j] /\ u[k] = s[k]
      BY <1>4, <1>6, <2>1
    <3> QED
      BY <1>6, <3>1 DEF Rising
  <2>2. CASE j > Len(s)
    <3>1. /\ j - Len(s) \in DOMAIN t /\ k - Len(s) \in DOMAIN t /\ j - Len(s) < k - Len(s)
          /\ u[j] = t[j - Len(s)] /\ u[k] = t[k - Len(s)]
      <4>1. j \in 1..(Len(s) + Len(t)) /\ k \in 1..(Len(s) + Len(t)) /\ k > Len(s)
        BY <1>4, <1>6, <2>2
      <4>2. /\ u[j] = t[j - Len(s)] /\ j - Len(s) \in 1..Len(t)
            /\ u[k] = t[k - Len(s)] /\ k - Len(s) \in 1..Len(t)
        BY <1>4, <2>2, <4>1
      <4> QED
        BY <1>4, <1>6, <4>1, <4>2
    <3> QED
      BY <1>3, <3>1 DEF Rising
  <2>3. CASE j <= Len(s) /\ k > Len(s)
    BY <1>4, <1>5, <1>6, <2>3
  <2> QED
    BY <1>4, <2>1, <2>2, <2>3, SMTT(30)
<1>7. ToSet(u) \subseteq ToSet(s) \cup C
  <2> SUFFICES ASSUME NEW k \in DOMAIN u PROVE u[k] \in ToSet(s) \cup C
    BY DEF ToSet
  <2>1. CASE k <= Len(s)
    BY <1>4, <1>5, <2>1
  <2>2. CASE k > Len(s)
    BY <1>4, <1>5, <2>2
  <2> QED
    BY <1>4, <2>1, <2>2
<1>8. ToSet(s) \subseteq ToSet(u)
  BY <1>4 DEF ToSet
<1>9. ASSUME NEW x \in C PROVE x \in ToSet(u)
  <2>1. PICK k \in DOMAIN t : t[k] = x
    BY <1>3 DEF ToSet
  <2>2. k + Len(s) \in DOMAIN u /\ k + Len(s) > Len(s) /\ (k + Len(s)) - Len(s) = k
    BY <1>4
  <2>3. u[k + Len(s)] = x
    BY <1>4, <2>1, <2>2
  <2> QED
    BY <2>2, <2>3 DEF ToSet
<1> QED
  BY <1>4, <1>6, <1>7, <1>8, <1>9 DEF Rising, u, t

LEMMA OrchestratedGroup == ASSUME Orchestrated, NextGroup PROVE Orchestrated'
<1>1. /\ runTools = "groups" /\ groupFrom' = groupTo + 1 /\ runTools' = "group"
      /\ UNCHANGED <<callKind, run, results, interrupted>>
  BY DEF NextGroup
<1>2. PICK j \in (groupTo + 1)..Len(callKind) : Group(groupTo + 1, j) /\ groupTo' = j
  BY DEF NextGroup
<1>3. RunTypes /\ GroupTogether /\ AnswersSoFar /\ Len(callKind) \in Nat /\ groupTo \in Nat
  BY DEF Orchestrated, RunTypes
<1>4. j \in Nat /\ groupTo + 1 <= j /\ j <= Len(callKind)
  BY <1>3
<1>5. RunTypes'
  <2>1. groupTo' \in 0..Len(callKind)
    BY <1>2, <1>3, <1>4
  <2>2. groupFrom' \in 1..(groupTo' + 1)
    BY <1>1, <1>2, <1>3, <1>4
  <2> QED
    BY <1>1, <1>3, <2>1, <2>2 DEF RunTypes, Calls
<1>6. GroupTogether'
  <2>1. \A i, k \in (groupTo + 1)..j : i = k \/ (IsSafe(i) /\ IsSafe(k))
    BY <1>2 DEF Group
  <2>2. \A i \in 1..((groupTo + 1) - 1) : run[i] \in Ended
    BY <1>1, <1>3 DEF GroupTogether
  <2>3. \A i \in (j + 1)..Len(callKind) : i \in (groupTo + 1)..Len(callKind)
    BY <1>3, <1>4
  <2>4. \A i \in (j + 1)..Len(callKind) : run[i] = "waiting"
    BY <1>3, <2>3 DEF GroupTogether
  <2> QED
    BY <1>1, <1>2, <2>1, <2>2, <2>4 DEF GroupTogether, IsSafe
<1>7. AnswersSoFar'
  <2>1. (groupTo + 1) - 1 = groupTo
    BY <1>3
  <2> QED
    BY <1>1, <1>3, <2>1 DEF AnswersSoFar, Spoken, Speaks, Rising, ToSet
<1> QED
  BY <1>5, <1>6, <1>7 DEF Orchestrated

LEMMA OrchestratedStops == ASSUME Orchestrated, StopBeforeGroup PROVE Orchestrated'
<1>1. /\ runTools = "groups" /\ interrupted /\ runTools' = "returned"
      /\ UNCHANGED <<callKind, groupFrom, groupTo, run, interrupted>>
  BY DEF StopBeforeGroup
<1>2. PICK j \in (groupTo + 1)..Len(callKind) : results' = results \o Ascending((groupTo + 1)..j)
  BY DEF StopBeforeGroup
<1> DEFINE C == (groupTo + 1)..j
<1>3. results' = results \o Ascending(C)
  BY <1>2
<1>4. RunTypes /\ GroupTogether /\ AnswersSoFar /\ Len(callKind) \in Nat /\ groupTo \in Nat
  BY DEF Orchestrated, RunTypes
<1>5. results \in Seq(1..Len(callKind)) /\ ToSet(results) = Spoken(groupTo) /\ Rising(results)
  BY <1>1, <1>4 DEF RunTypes, AnswersSoFar, Calls
<1>6. C \subseteq 1..Len(callKind) /\ j \in Calls
  BY <1>4 DEF Calls
<1>7. \A i \in ToSet(results), k \in C : i < k
  BY <1>4, <1>5 DEF Spoken
<1> HIDE DEF C
<1>8. results' \in Seq(1..Len(callKind)) /\ Rising(results') /\ ToSet(results') = ToSet(results) \cup C
  BY <1>3, <1>4, <1>5, <1>6, <1>7, AnswersFollow
<1>9. RunTypes' /\ GroupTogether'
  BY <1>1, <1>4, <1>8 DEF RunTypes, GroupTogether, Calls, IsSafe
<1>10. AnswersSoFar'
  BY <1>1, <1>5, <1>6, <1>8 DEF AnswersSoFar, Spoken, Speaks, Calls, Rising, ToSet, C
<1> QED
  BY <1>9, <1>10 DEF Orchestrated

LEMMA OrchestratedCollects == ASSUME Orchestrated, CollectGroup PROVE Orchestrated'
<1>1. /\ runTools = "group" /\ runTools' = "groups" /\ \A i \in Current : run[i] \notin {"waiting", "running"}
      /\ UNCHANGED <<callKind, groupFrom, groupTo, run, interrupted>>
  BY DEF CollectGroup
<1> DEFINE C == {i \in Current : run[i] \in {"error", "result"}}
<1>2. results' = results \o Ascending(C)
  BY DEF CollectGroup
<1>3. RunTypes /\ GroupTogether /\ AnswersSoFar /\ Len(callKind) \in Nat /\ groupTo \in Nat /\ groupFrom \in Nat
  BY DEF Orchestrated, RunTypes
<1>4. results \in Seq(1..Len(callKind)) /\ ToSet(results) = Spoken(groupFrom - 1) /\ Rising(results)
  BY <1>1, <1>3 DEF RunTypes, AnswersSoFar, Calls
<1>5. C \subseteq 1..Len(callKind) /\ \A i \in C : groupFrom <= i /\ i <= groupTo
  BY <1>3 DEF Current, RunTypes
<1>6. \A i \in ToSet(results), k \in C : i < k
  BY <1>3, <1>4, <1>5 DEF Spoken
<1>7. Spoken(groupTo) = Spoken(groupFrom - 1) \cup C
  BY <1>3 DEF Spoken, Speaks, Current, RunTypes
<1> HIDE DEF C
<1>8. results' \in Seq(1..Len(callKind)) /\ Rising(results') /\ ToSet(results') = ToSet(results) \cup C
  BY <1>2, <1>3, <1>4, <1>5, <1>6, AnswersFollow
<1>9. RunTypes'
  BY <1>1, <1>3, <1>8 DEF RunTypes, Calls
<1>10. GroupTogether'
  <2>1. \A i \in 1..groupTo : run[i] \in Ended
    BY <1>1, <1>3 DEF GroupTogether, RunTypes, Current, Calls
  <2> QED
    BY <1>1, <1>3, <2>1 DEF GroupTogether, IsSafe
<1>11. AnswersSoFar'
  BY <1>1, <1>4, <1>7, <1>8 DEF AnswersSoFar, Spoken, Speaks, Rising, ToSet
<1> QED
  BY <1>9, <1>10, <1>11 DEF Orchestrated

(* A call of the group that runs, and only one of it, gets another state. *)
LEMMA OrchestratedCalls ==
    ASSUME Orchestrated, NEW i \in Calls, NEW r \in {"running"} \cup Ended,
           runTools = "group", i \in Current, run' = [run EXCEPT ![i] = r],
           UNCHANGED <<callKind, groupFrom, groupTo, results, interrupted, runTools>>
    PROVE  Orchestrated'
<1>1. RunTypes /\ GroupTogether /\ AnswersSoFar /\ Len(callKind) \in Nat /\ groupTo \in Nat /\ groupFrom \in Nat
  BY DEF Orchestrated, RunTypes
<1>2. i \in Int /\ groupFrom <= i /\ i <= groupTo
  BY <1>1 DEF Current
<1>3. \A k \in Calls : k # i => run'[k] = run[k]
  BY <1>1 DEF RunTypes
<1>4. RunTypes'
  BY <1>1 DEF RunTypes, Calls
<1>5. GroupTogether'
  BY <1>1, <1>2, <1>3 DEF GroupTogether, IsSafe, Calls, RunTypes
<1>6. Spoken(groupFrom - 1)' = Spoken(groupFrom - 1)
  BY <1>1, <1>2, <1>3 DEF Spoken, Speaks, Calls, RunTypes
<1>7. AnswersSoFar'
  BY <1>1, <1>6 DEF AnswersSoFar, Rising, ToSet
<1> QED
  BY <1>4, <1>5, <1>7 DEF Orchestrated

LEMMA OrchestratedStep == Orchestrated /\ [OrchestrationNext]_orchestrationVars => Orchestrated'
<1> SUFFICES ASSUME Orchestrated, [OrchestrationNext]_orchestrationVars PROVE Orchestrated'
  OBVIOUS
<1>0. RunTypes /\ GroupTogether /\ AnswersSoFar
  BY DEF Orchestrated
<1> DEFINE Same == <<callKind, groupFrom, groupTo, run, results>>
<1>1. CASE UNCHANGED orchestrationVars
  <2>1. UNCHANGED <<callKind, groupFrom, groupTo, run, results, interrupted, runTools>>
    BY <1>1 DEF orchestrationVars
  <2>2. RunTypes' /\ GroupTogether'
    BY <1>0, <2>1 DEF RunTypes, GroupTogether, Calls, IsSafe
  <2>3. AnswersSoFar'
    BY <1>0, <2>1 DEF AnswersSoFar, Spoken, Speaks, Rising, ToSet, Calls
  <2> QED
    BY <2>2, <2>3 DEF Orchestrated
<1>2. CASE ReturnResults
  <2>1. groupTo = Len(callKind) /\ runTools = "groups" /\ runTools' = "returned"
        /\ UNCHANGED <<callKind, groupFrom, groupTo, run, results, interrupted>>
    BY <1>2 DEF ReturnResults
  <2>2. RunTypes' /\ GroupTogether'
    BY <1>0, <2>1 DEF RunTypes, GroupTogether, Calls, IsSafe
  <2>3. AnswersSoFar'
    BY <1>0, <2>1 DEF AnswersSoFar, Spoken, Speaks, Rising, ToSet
  <2> QED
    BY <2>2, <2>3 DEF Orchestrated
<1>3. CASE Interrupt
  <2>1. runTools # "returned" /\ interrupted' = TRUE
        /\ UNCHANGED <<callKind, groupFrom, groupTo, run, results, runTools>>
    BY <1>3 DEF Interrupt
  <2>2. RunTypes' /\ GroupTogether'
    BY <1>0, <2>1 DEF RunTypes, GroupTogether, Calls, IsSafe
  <2>3. AnswersSoFar'
    BY <1>0, <2>1 DEF AnswersSoFar, Spoken, Speaks, Rising, ToSet
  <2> QED
    BY <2>2, <2>3 DEF Orchestrated
<1>4. ASSUME NEW i \in Calls, StartCall(i) \/ SkipCall(i) \/ EndCall(i) PROVE Orchestrated'
  <2>1. CASE StartCall(i)
    BY <2>1, OrchestratedCalls DEF StartCall
  <2>2. CASE SkipCall(i)
    <3>1. i \in Current
      BY <1>0, <2>2 DEF SkipCall, Current, RunTypes
    <3> QED
      BY <2>2, <3>1, OrchestratedCalls DEF SkipCall, Ended
  <2>3. CASE EndCall(i)
    BY <2>3, OrchestratedCalls DEF EndCall, Ended
  <2> QED
    BY <1>4, <2>1, <2>2, <2>3
<1> QED
  BY <1>1, <1>2, <1>3, <1>4, OrchestratedGroup, OrchestratedStops, OrchestratedCollects
  DEF OrchestrationNext, Calls

LEMMA OrchestratedAnswers == Orchestrated => OneAnswerEachInOrder /\ OrchestrationTypeOK
<1> SUFFICES ASSUME Orchestrated PROVE OneAnswerEachInOrder /\ OrchestrationTypeOK
  OBVIOUS
<1>1. RunTypes /\ GroupTogether /\ AnswersSoFar /\ Len(callKind) \in Nat /\ groupTo \in Nat /\ groupFrom \in Nat
  BY DEF Orchestrated, RunTypes
<1>2. DOMAIN run = 1..Len(callKind) /\ DOMAIN results = 1..Len(results) /\ Len(results) \in Nat
  BY <1>1 DEF RunTypes, Calls
<1>3. \A j, k \in 1..Len(results) : j < k => results[j] < results[k]
  BY <1>1, <1>2 DEF AnswersSoFar, Rising
<1>4. ASSUME NEW i \in DOMAIN run, NEW j \in DOMAIN run, i < j, run[j] = "running", run[i] \in {"waiting", "running"}
      PROVE  \A k \in i..j : IsSafe(k)
  <2>1. j <= groupTo /\ j >= groupFrom /\ runTools = "group"
    BY <1>1, <1>2, <1>4 DEF GroupTogether, Ended
  <2>2. i >= groupFrom
    BY <1>1, <1>2, <1>4, <2>1 DEF GroupTogether, Ended
  <2>3. \A k \in i..j : k \in groupFrom..groupTo /\ (k # i \/ k # j)
    BY <1>1, <1>2, <1>4, <2>1, <2>2
  <2> QED
    BY <1>1, <1>2, <1>4, <2>1, <2>2, <2>3 DEF GroupTogether
<1>5. \A k \in 1..Len(results) : results[k] \in 1..Len(callKind) /\ results[k] \in ToSet(results)
  BY <1>1, <1>2 DEF RunTypes, Calls, ToSet
<1>6. ASSUME NEW k \in 1..Len(results), NEW i \in 1..results[k]
      PROVE  run[i] = "nothing" \/ i \in ToSet(results)
  <2>1. i \in 1..Len(callKind) /\ i <= results[k]
    BY <1>1, <1>5
  <2>2. CASE runTools = "group"
    <3>1. i \in 1..(groupFrom - 1)
      BY <1>1, <1>5, <2>1, <2>2 DEF AnswersSoFar, Spoken
    <3>2. run[i] \in Ended
      BY <1>1, <3>1 DEF GroupTogether
    <3> QED
      BY <1>1, <2>2, <3>1, <3>2 DEF AnswersSoFar, Spoken, Speaks, Ended
  <2>3. CASE runTools # "group"
    <3>1. Spoken(groupTo) \subseteq ToSet(results)
      BY <1>1, <2>3 DEF AnswersSoFar, RunTypes
    <3>2. CASE i <= groupTo
      <4>1. i \in 1..groupTo
        BY <1>1, <2>1, <3>2
      <4>2. run[i] \in Ended
        BY <1>1, <2>3, <4>1 DEF GroupTogether
      <4> QED
        BY <3>1, <4>1, <4>2 DEF Spoken, Speaks, Ended
    <3>3. CASE i > groupTo
      <4>1. results[k] \notin Spoken(groupTo)
        BY <1>1, <1>5, <2>1, <3>3 DEF Spoken
      <4>2. PICK e \in Calls : ToSet(results) = Spoken(groupTo) \cup ((groupTo + 1)..e)
        BY <1>1, <1>5, <2>3, <4>1 DEF AnswersSoFar, RunTypes
      <4>3. results[k] \in (groupTo + 1)..e
        BY <1>5, <4>1, <4>2
      <4>4. i \in (groupTo + 1)..e
        BY <1>1, <2>1, <3>3, <4>3 DEF Calls
      <4> QED
        BY <4>2, <4>4
    <3> QED
      BY <1>1, <2>1, <3>2, <3>3
  <2> QED
    BY <2>2, <2>3
<1>7. ASSUME runTools = "returned", ~interrupted
      PROVE  {i \in DOMAIN run : run[i] # "nothing"} = ToSet(results)
  <2>1. groupTo = Len(callKind) /\ ToSet(results) = Spoken(groupTo)
    BY <1>1, <1>7 DEF AnswersSoFar
  <2>2. \A i \in 1..groupTo : run[i] \in Ended
    BY <1>1, <1>7 DEF GroupTogether
  <2> QED
    BY <1>2, <2>1, <2>2 DEF Spoken, Speaks, Ended
<1>8. OneAnswerEachInOrder
  BY <1>3, <1>4, <1>6, <1>7 DEF OneAnswerEachInOrder
<1>9. OrchestrationTypeOK
  BY <1>1, <1>2, <1>5 DEF OrchestrationTypeOK, RunTypes, Calls, Ended
<1> QED
  BY <1>8, <1>9

(* The calls answered after those of the first n are over, in turn, as the *)
(* promise asks, if those before them are.                                 *)
LEMMA AnswersPromised ==
    ASSUME Orchestrated, NEW n \in Nat, ToSet(results) = Spoken(n),
           NEW C \in SUBSET Calls, \A j \in C : n < j /\ run[j] # "running",
           \A j \in C, i \in Calls : i < j => i \in C \/ run[i] \in Ended,
           Len(callKind) <= MaxCalls,
           results' = results \o Ascending(C), UNCHANGED <<callKind, run>>
    PROVE  Promised!Answer(C)
<1>1. Len(callKind) \in Nat /\ results \in Seq(1..Len(callKind)) /\ Rising(results) /\ DOMAIN run = Calls
  BY DEF Orchestrated, RunTypes, AnswersSoFar, Calls
<1>2. C \in SUBSET (1..Len(callKind)) /\ C \in SUBSET Nat /\ IsFiniteSet(C)
  <2>1. IsFiniteSet(1..Len(callKind)) /\ 1..Len(callKind) \subseteq Nat
    BY <1>1, FS_Interval
  <2> QED
    BY <2>1, FS_Subset DEF Calls
<1>3. \A i \in ToSet(results), j \in C : i < j
  <2>1. \A i \in Spoken(n) : i \in Nat /\ i <= n
    BY DEF Spoken
  <2> QED
    BY <1>2, <2>1
<1>4. ToSet(results') = ToSet(results) \cup C
  BY <1>1, <1>2, <1>3, AnswersFollow
<1>5. RunningCalls' = RunningCalls /\ C \cap RunningCalls = {}
  BY DEF RunningCalls
<1>6. OverCalls' = OverCalls \cup C
  BY <1>4 DEF OverCalls
<1>7. \A k \in DOMAIN results, j \in C : results[k] < j
  BY <1>3 DEF ToSet
<1>8. ASSUME NEW j \in C, NEW i \in 1..MaxCalls, i < j PROVE i \in OverCalls'
  <2>1. i \in Calls
    BY <1>1, <1>2, <1>8 DEF Calls
  <2>2. i \in C \/ run[i] \in Ended
    BY <1>8, <2>1
  <2> QED
    BY <1>1, <1>6, <2>1, <2>2 DEF OverCalls, Ended
<1>9. Ascending(C) \in Promised!InTurn(C)
  <2> DEFINE m == Cardinality(C)
  <2>1. /\ m \in Nat /\ Ascending(C) \in [1..m -> C]
        /\ \A j, k \in 1..m : j < k => Ascending(C)[j] < Ascending(C)[k]
        /\ \A i \in C : \E k \in 1..m : Ascending(C)[k] = i
    BY <1>2, AscendingIs
  <2>2. m <= Len(callKind)
    <3> DEFINE l == Len(callKind)
               all == 1..l
    <3>1. l \in Int /\ 1 \in Int /\ l >= 0
      BY <1>1
    <3> HIDE DEF l
    <3>2. IsFiniteSet(all) /\ Cardinality(all) = IF 1 > l THEN 0 ELSE (l - 1) + 1
      BY <3>1, FS_Interval
    <3>3. Cardinality(all) = l
      BY <3>1, <3>2
    <3>4. C \subseteq all
      BY <1>2 DEF l
    <3> HIDE DEF all
    <3> QED
      BY <3>2, <3>3, <3>4, FS_Subset DEF l
  <2> HIDE DEF m
  <2>3. m \in 0..MaxCalls
    BY <1>1, <2>1, <2>2, CallsAssumption
  <2> QED
    BY <2>1, <2>3, Zenon DEF Promised!InTurn
<1>10. {i \in DOMAIN callKind : IsSafe(i)}' = {i \in DOMAIN callKind : IsSafe(i)}
  BY DEF IsSafe
<1> QED
  BY <1>5, <1>6, <1>7, <1>8, <1>9, <1>10 DEF Promised!Answer, Promised!Calls

promised == <<{i \in DOMAIN callKind : IsSafe(i)}, RunningCalls, OverCalls, results>>

(* Each step of RunTools is one of the promise, or changes nothing that    *)
(* the promise speaks of.                                                  *)
LEMMA OrchestrationPromised ==
    ASSUME Orchestrated, Len(callKind) <= MaxCalls, [OrchestrationNext]_orchestrationVars
    PROVE  [Promised!Next]_promised
<1>1. /\ RunTypes /\ GroupTogether /\ AnswersSoFar /\ Len(callKind) \in Nat /\ groupTo \in Nat /\ groupFrom \in Nat
      /\ DOMAIN run = Calls
  BY DEF Orchestrated, RunTypes, Calls
<1>2. Calls \subseteq 1..MaxCalls /\ Calls \subseteq Nat
  BY <1>1, CallsAssumption DEF Calls
<1>3. CASE NextGroup \/ ReturnResults \/ Interrupt \/ UNCHANGED orchestrationVars
  <2>1. UNCHANGED <<callKind, run, results>>
    BY <1>3 DEF NextGroup, ReturnResults, Interrupt, orchestrationVars
  <2> QED
    BY <2>1 DEF promised, IsSafe, RunningCalls, OverCalls
<1>4. CASE StopBeforeGroup
  <2>1. PICK j \in (groupTo + 1)..Len(callKind) : results' = results \o Ascending((groupTo + 1)..j)
    BY <1>4 DEF StopBeforeGroup
  <2> DEFINE C == (groupTo + 1)..j
  <2>2. C \in SUBSET Calls /\ \A k \in C : groupTo < k /\ k \in (groupTo + 1)..Len(callKind)
    BY <1>1 DEF Calls
  <2>3. runTools = "groups" /\ UNCHANGED <<callKind, run>>
    BY <1>4 DEF StopBeforeGroup
  <2>4. \A k \in C : run[k] # "running"
    BY <1>1, <2>2 DEF GroupTogether
  <2>5. ASSUME NEW k \in C, NEW i \in Calls, i < k PROVE i \in C \/ run[i] \in Ended
    <3>1. i \in 1..groupTo \/ i \in C
      BY <1>1, <1>2, <2>2, <2>5
    <3> QED
      BY <1>1, <2>3, <3>1 DEF GroupTogether
  <2>6. results' = results \o Ascending(C) /\ ToSet(results) = Spoken(groupTo)
    BY <1>1, <2>1, <2>3 DEF AnswersSoFar
  <2> HIDE DEF C
  <2>7. Promised!Answer(C)
    BY <1>1, <2>2, <2>3, <2>4, <2>5, <2>6, AnswersPromised
  <2> QED
    BY <1>2, <2>2, <2>7 DEF Promised!Next, Promised!Calls
<1>5. CASE CollectGroup
  <2> DEFINE C == {i \in Current : run[i] \in {"error", "result"}}
             n == groupFrom - 1
  <2>1. /\ runTools = "group" /\ \A i \in Current : run[i] \notin {"waiting", "running"}
        /\ UNCHANGED <<callKind, run>> /\ results' = results \o Ascending(C)
    BY <1>5 DEF CollectGroup
  <2>2. n \in Nat /\ ToSet(results) = Spoken(n)
    BY <1>1, <2>1 DEF AnswersSoFar, RunTypes
  <2>3. C \in SUBSET Calls /\ \A k \in C : n < k /\ k <= groupTo /\ run[k] # "running"
    BY <1>1 DEF Calls, Current, RunTypes
  <2>4. ASSUME NEW k \in C, NEW i \in Calls, i < k PROVE run[i] \in Ended
    <3>1. i \in 1..(groupFrom - 1) \/ i \in Current
      BY <1>1, <1>2, <2>3, <2>4 DEF Current
    <3> QED
      BY <1>1, <2>1, <3>1 DEF GroupTogether, RunTypes
  <2> HIDE DEF C, n
  <2>5. Promised!Answer(C)
    BY <2>1, <2>2, <2>3, <2>4, AnswersPromised
  <2> QED
    BY <1>2, <2>3, <2>5 DEF Promised!Next, Promised!Calls
<1>6. ASSUME NEW i \in Calls, NEW r \in {"running"} \cup Ended, runTools = "group", i \in Current,
             run[i] \in {"waiting", "running"}, run' = [run EXCEPT ![i] = r],
             UNCHANGED <<callKind, results>>
      PROVE  /\ i \notin OverCalls
             /\ {k \in DOMAIN callKind : IsSafe(k)}' = {k \in DOMAIN callKind : IsSafe(k)}
             /\ r = "running" => OverCalls' = OverCalls /\ RunningCalls' = RunningCalls \cup {i}
             /\ r \in Ended => OverCalls' = OverCalls \cup {i} /\ RunningCalls' = RunningCalls \ {i}
  <2>1. i \notin ToSet(results)
    <3>1. groupFrom <= i
      BY <1>1, <1>2, <1>6 DEF Current
    <3>2. i \notin 1..(groupFrom - 1)
      BY <1>1, <3>1
    <3> QED
      BY <1>1, <1>6, <3>2 DEF AnswersSoFar, Spoken
  <2>2. DOMAIN run' = DOMAIN run /\ \A k \in DOMAIN run : run'[k] = IF k = i THEN r ELSE run[k]
    BY <1>1, <1>6
  <2>3. ToSet(results') = ToSet(results)
    BY <1>6
  <2>4. {k \in DOMAIN callKind : IsSafe(k)}' = {k \in DOMAIN callKind : IsSafe(k)}
    BY <1>6 DEF IsSafe
  <2> QED
    BY <1>1, <1>6, <2>1, <2>2, <2>3, <2>4 DEF OverCalls, RunningCalls, Ended
<1>7. ASSUME NEW i \in Calls, StartCall(i) PROVE Promised!Begin({i})
  <2>1. /\ runTools = "group" /\ i \in Current /\ run[i] = "waiting" /\ run' = [run EXCEPT ![i] = "running"]
        /\ UNCHANGED <<callKind, results>>
    BY <1>7 DEF StartCall
  <2>2. /\ i \notin OverCalls /\ OverCalls' = OverCalls /\ RunningCalls' = RunningCalls \cup {i}
        /\ {k \in DOMAIN callKind : IsSafe(k)}' = {k \in DOMAIN callKind : IsSafe(k)}
    BY <1>6, <2>1
  <2>3. i \notin RunningCalls
    BY <2>1 DEF RunningCalls
  <2>4. ASSUME NEW k \in 1..MaxCalls, k < i PROVE Promised!MayBegin(k, i)
    <3>1. k \in Calls /\ (k \in 1..(groupFrom - 1) \/ k \in Current) /\ k # i
      BY <1>1, <1>2, <2>1, <2>4 DEF Calls, Current
    <3>2. CASE k \in 1..(groupFrom - 1)
      <4>1. run[k] \in Ended
        BY <1>1, <3>2 DEF GroupTogether
      <4> QED
        BY <1>1, <3>1, <4>1 DEF OverCalls, Ended, Promised!MayBegin
    <3>3. CASE k \in Current
      <4>1. IsSafe(k) /\ IsSafe(i)
        BY <1>1, <2>1, <3>1, <3>3 DEF GroupTogether, Current
      <4>2. DOMAIN callKind = Calls
        BY <1>1 DEF RunTypes, Calls
      <4> QED
        BY <3>1, <4>1, <4>2 DEF Promised!MayBegin
    <3> QED
      BY <3>1, <3>2, <3>3
  <2> QED
    BY <2>1, <2>2, <2>3, <2>4 DEF Promised!Begin, Promised!Calls
<1>8. ASSUME NEW i \in Calls, SkipCall(i) \/ EndCall(i) PROVE Promised!End({i})
  <2>1. i \in Current
    BY <1>1, <1>2, <1>8 DEF SkipCall, EndCall, Current
  <2>2. /\ runTools = "group" /\ run[i] \in {"waiting", "running"} /\ UNCHANGED <<callKind, results>>
        /\ \E r \in Ended : run' = [run EXCEPT ![i] = r]
    BY <1>8 DEF SkipCall, EndCall, Ended
  <2>3. PICK r \in Ended : run' = [run EXCEPT ![i] = r]
    BY <2>2
  <2>4. /\ i \notin OverCalls /\ OverCalls' = OverCalls \cup {i} /\ RunningCalls' = RunningCalls \ {i}
        /\ {k \in DOMAIN callKind : IsSafe(k)}' = {k \in DOMAIN callKind : IsSafe(k)}
    BY <1>6, <2>1, <2>2, <2>3
  <2> QED
    BY <2>2, <2>4 DEF Promised!End
<1>9. \A i \in Calls : {i} \in SUBSET (1..MaxCalls)
  BY <1>2
<1>10. ASSUME NEW i \in Calls, StartCall(i) \/ SkipCall(i) \/ EndCall(i) PROVE Promised!Next
  BY <1>7, <1>8, <1>9, <1>10 DEF Promised!Next, Promised!Calls
<1> QED
  BY <1>3, <1>4, <1>5, <1>10 DEF OrchestrationNext, Calls

-------------------------------------------------------------------------------
(* The hooks in use are told apart, and so are those of a run's copy, of   *)
(* which the first ones were asked; what they said of the tool is what the *)
(* run's result says of it, for as long as nobody cancels the run.         *)
HookSays == {"nothing", "block", "context", "input", "stop"}
HookTypes ==
    /\ hooks.array \in Seq(Hooks) /\ hooks.len \in 0..Len(hooks.array)
    /\ hookRun.kind \in {"none", "pre", "post", "failure"}
    /\ hookRun.copy \in Seq(Hooks) /\ hookRun.said \in Seq(Hooks \X HookSays)
    /\ Len(hookRun.said) <= Len(hookRun.copy)
    /\ hookResult \in [block : BOOLEAN, context : Seq(Hooks), input : SUBSET Hooks, stop : BOOLEAN]
    /\ ctxDone \in BOOLEAN
Apart(s, n) == \A i, j \in 1..n : s[i] = s[j] => i = j
Blocked == \E i \in DOMAIN hookRun.said : hookRun.said[i][2] = "block"
Asking ==
    /\ Apart(hooks.array, hooks.len) /\ Apart(hookRun.copy, Len(hookRun.copy))
    /\ \A i \in DOMAIN hookRun.said : hookRun.said[i][1] = hookRun.copy[i]
    /\ hookRun.kind # "none" \/ ~ctxDone => (hookResult.block <=> Blocked)
    /\ hookRun.kind = "none" /\ ~ctxDone /\ ~hookResult.block => Len(hookRun.said) = Len(hookRun.copy)

Hooked == DOMAIN hookRun = {"kind", "copy", "said", "runs"} /\ HookTypes /\ Asking

LEMMA QuietIs == Quiet \in [block : BOOLEAN, context : Seq(Hooks), input : SUBSET Hooks, stop : BOOLEAN]
BY EmptySeq DEF Quiet

LEMMA HookedInit == HooksInit => Hooked
<1> SUFFICES ASSUME HooksInit PROVE Hooked
  OBVIOUS
<1>1. /\ hooks.array = <<>> /\ hooks.len = 0 /\ hookRun.copy = <<>> /\ hookRun.said = <<>>
      /\ hookRun.kind = "none" /\ hookResult = Quiet /\ ctxDone = FALSE
      /\ DOMAIN hookRun = {"kind", "copy", "said", "runs"}
  BY DEF HooksInit, NoRun
<1>2. HookTypes
  <2>1. <<>> \in Seq(Hooks) /\ <<>> \in Seq(Hooks \X HookSays) /\ Len(<<>>) = 0
    BY EmptySeq
  <2>2. hookResult \in [block : BOOLEAN, context : Seq(Hooks), input : SUBSET Hooks, stop : BOOLEAN]
    BY <1>1, QuietIs
  <2>3. hooks.array \in Seq(Hooks) /\ hooks.len \in 0..Len(hooks.array)
    BY <2>1 DEF HooksInit
  <2>5. ctxDone \in BOOLEAN
    BY <1>1
  <2>4. hookRun.copy \in Seq(Hooks) /\ hookRun.said \in Seq(Hooks \X HookSays) /\ Len(hookRun.said) <= Len(hookRun.copy)
    BY <1>1, <2>1
  <2> QED
    BY <1>1, <2>2, <2>3, <2>4, <2>5 DEF HookTypes
<1>3. Asking
  BY <1>1 DEF Asking, Apart, Blocked, Quiet
<1> QED
  BY <1>1, <1>2, <1>3 DEF Hooked

LEMMA InUseIs ==
    ASSUME HookTypes
    PROVE  /\ InUse \in Seq(Hooks) /\ Len(InUse) = hooks.len
           /\ \A i \in 1..hooks.len : InUse[i] = hooks.array[i]
<1>1. hooks.array \in Seq(Hooks) /\ hooks.len \in 0..Len(hooks.array) /\ Len(hooks.array) \in Nat
  BY DEF HookTypes
<1>2. \A i \in 1..hooks.len : hooks.array[i] \in Hooks
  BY <1>1, ElementOfSeq
<1> DEFINE a == hooks.array
           n == hooks.len
<1>3. /\ SubSeq(a, 1, n) \in Seq(Hooks) /\ Len(SubSeq(a, 1, n)) = n
      /\ \A i \in 1..n : SubSeq(a, 1, n)[i] = a[i]
  BY <1>1
<1> QED
  BY <1>3 DEF InUse

LEMMA HookedRegisters == ASSUME Hooked, NEW h \in Hooks, RegisterHook(h) PROVE Hooked'
<1>1. HookTypes /\ Asking
  BY DEF Hooked
<1> DEFINE n == hooks.len
<1>2. /\ n \in Nat /\ InUse \in Seq(Hooks) /\ Len(InUse) = n
      /\ \A i \in 1..n : InUse[i] = hooks.array[i] /\ InUse[i] # h
  BY <1>1, InUseIs DEF HookTypes, RegisterHook
<1>3. /\ hooks'.array = Append(InUse, h) /\ hooks'.len = n + 1
      /\ UNCHANGED <<hookRun, hookResult, ctxDone>>
  BY DEF RegisterHook
<1>4. /\ hooks'.array \in Seq(Hooks) /\ Len(hooks'.array) = n + 1
      /\ \A i \in 1..(n + 1) : hooks'.array[i] = IF i = n + 1 THEN h ELSE InUse[i]
  BY <1>2, <1>3
<1>5. HookTypes'
  BY <1>1, <1>2, <1>3, <1>4 DEF HookTypes
<1>6. Apart(hooks'.array, n + 1)
  <2> SUFFICES ASSUME NEW i \in 1..(n + 1), NEW j \in 1..(n + 1), hooks'.array[i] = hooks'.array[j]
               PROVE  i = j
    BY DEF Apart
  <2>1. \A k \in 1..(n + 1) : k = n + 1 \/ k \in 1..n
    BY <1>2
  <2>2. \A k \in 1..n : k # n + 1 /\ hooks'.array[k] = hooks.array[k] /\ hooks.array[k] # h
    <3>1. \A k \in 1..n : k # n + 1 /\ k \in 1..(n + 1)
      BY <1>2
    <3> QED
      BY <1>2, <1>4, <3>1
  <2>3. n + 1 \in 1..(n + 1) /\ hooks'.array[n + 1] = h
    BY <1>2, <1>4
  <2>4. Apart(hooks.array, n)
    BY <1>1 DEF Asking
  <2> QED
    BY <2>1, <2>2, <2>3, <2>4 DEF Apart
<1> QED
  BY <1>1, <1>3, <1>5, <1>6 DEF Asking, Hooked, Blocked

LEMMA HookedUnregisters == ASSUME Hooked, NEW h \in Hooks, UnregisterHooks(h) PROVE Hooked'
<1>1. HookTypes /\ Asking /\ hooks.array \in Seq(Hooks)
  BY DEF Hooked, HookTypes
<1> DEFINE n == hooks.len
           moved(i, j) == IF j \in i..(n - 1) THEN j + 1 ELSE j
<1>2. PICK i \in 1..n :
        hooks' = [array |-> [j \in DOMAIN hooks.array |->
                                 IF j \in i..(hooks.len - 1) THEN hooks.array[j + 1] ELSE hooks.array[j]],
                  len   |-> hooks.len - 1]
  BY DEF UnregisterHooks
<1>3. n \in Nat /\ Len(hooks.array) \in Nat /\ n <= Len(hooks.array) /\ DOMAIN hooks.array = 1..Len(hooks.array)
  BY <1>1 DEF HookTypes
<1>4. /\ hooks'.len = n - 1 /\ n - 1 \in Nat
      /\ hooks'.array = [j \in 1..Len(hooks.array) |-> hooks.array[moved(i, j)]]
  BY <1>2, <1>3
<1>5. \A j \in 1..Len(hooks.array) : moved(i, j) \in 1..Len(hooks.array) /\ (j <= n - 1 => moved(i, j) \in 1..n)
  BY <1>3
<1>6. \A j, k \in 1..(n - 1) : moved(i, j) = moved(i, k) => j = k
  BY <1>3
<1> HIDE DEF moved
<1>7. hooks'.array \in [1..Len(hooks.array) -> Hooks]
  BY <1>1, <1>4, <1>5, ElementOfSeq
<1>8. hooks'.array \in Seq(Hooks) /\ Len(hooks'.array) = Len(hooks.array)
  BY <1>3, <1>7, SeqDef
<1>9. Apart(hooks'.array, n - 1)
  <2> SUFFICES ASSUME NEW j \in 1..(n - 1), NEW k \in 1..(n - 1), hooks'.array[j] = hooks'.array[k] PROVE j = k
    BY DEF Apart
  <2>1. j \in 1..Len(hooks.array) /\ k \in 1..Len(hooks.array) /\ j <= n - 1 /\ k <= n - 1
    BY <1>3
  <2>2. moved(i, j) \in 1..n /\ moved(i, k) \in 1..n /\ hooks.array[moved(i, j)] = hooks.array[moved(i, k)]
    BY <1>4, <1>5, <2>1
  <2> QED
    BY <1>1, <1>6, <2>2 DEF Asking, Apart
<1>10. UNCHANGED <<hookRun, hookResult, ctxDone>>
  BY DEF UnregisterHooks
<1>11. HookTypes'
  BY <1>1, <1>3, <1>4, <1>8, <1>10 DEF HookTypes
<1> QED
  BY <1>1, <1>4, <1>9, <1>10, <1>11 DEF Asking, Hooked, Blocked

LEMMA HookedStarts ==
    ASSUME Hooked, NEW kind \in {"pre", "post", "failure"}, StartRun(kind) PROVE Hooked'
<1>1. HookTypes /\ Asking
  BY DEF Hooked
<1>2. /\ hookRun'.kind = kind /\ hookRun'.copy = InUse /\ hookRun'.said = <<>>
      /\ DOMAIN hookRun' = {"kind", "copy", "said", "runs"}
      /\ hookResult' = Quiet /\ ctxDone' = FALSE /\ hooks' = hooks
  BY DEF StartRun
<1>3. /\ InUse \in Seq(Hooks) /\ Len(InUse) = hooks.len
      /\ \A i \in 1..hooks.len : InUse[i] = hooks.array[i]
  BY <1>1, InUseIs
<1>4. HookTypes'
  <2>1. <<>> \in Seq(Hooks \X HookSays) /\ Len(<<>>) = 0 /\ Len(InUse) \in Nat
    BY <1>3, EmptySeq
  <2>2. hookResult' \in [block : BOOLEAN, context : Seq(Hooks), input : SUBSET Hooks, stop : BOOLEAN]
    BY <1>2, QuietIs
  <2>3. /\ hookRun'.copy \in Seq(Hooks) /\ hookRun'.said \in Seq(Hooks \X HookSays)
        /\ Len(hookRun'.said) <= Len(hookRun'.copy)
    BY <1>2, <1>3, <2>1
  <2> QED
    BY <1>1, <1>2, <2>2, <2>3 DEF HookTypes
<1>5. Asking'
  BY <1>1, <1>2, <1>3 DEF Asking, Apart, Blocked, Quiet
<1> QED
  BY <1>2, <1>4, <1>5 DEF Hooked

(* What a hook says changes the result to one of the same fields, refused  *)
(* if it was or if this one refuses.                                       *)
LEMMA AggregatedIs ==
    ASSUME HookTypes, NEW h \in Hooks, NEW say \in HookSays
    PROVE  /\ Aggregated(h, say) \in [block : BOOLEAN, context : Seq(Hooks), input : SUBSET Hooks, stop : BOOLEAN]
           /\ Aggregated(h, say).block <=> (hookResult.block \/ say = "block")
<1>1. /\ hookResult \in [block : BOOLEAN, context : Seq(Hooks), input : SUBSET Hooks, stop : BOOLEAN]
      /\ Quiet \in [block : BOOLEAN, context : Seq(Hooks), input : SUBSET Hooks, stop : BOOLEAN]
  BY EmptySeq DEF HookTypes, Quiet
<1>2. CASE say = "nothing"
  BY <1>1, <1>2 DEF Aggregated
<1>3. CASE say = "block"
  BY <1>1, <1>3 DEF Aggregated
<1>4. CASE say = "context"
  <2>1. Append(hookResult.context, h) \in Seq(Hooks)
    BY <1>1
  <2> QED
    BY <1>1, <1>4, <2>1 DEF Aggregated
<1>5. CASE say = "input"
  BY <1>1, <1>5 DEF Aggregated
<1>6. CASE say = "stop"
  BY <1>1, <1>6 DEF Aggregated
<1> QED
  BY <1>2, <1>3, <1>4, <1>5, <1>6 DEF HookSays

LEMMA HookedAsks == ASSUME Hooked, NEW say \in HookSays, RunHook(say) PROVE Hooked'
<1>1. HookTypes /\ Asking
  BY DEF Hooked
<1> DEFINE n == Len(hookRun.said)
           h == hookRun.copy[n + 1]
           said == Append(hookRun.said, <<h, say>>)
<1>2. hookRun.kind # "none" /\ ~ctxDone /\ n < Len(hookRun.copy) /\ n \in Nat
  BY <1>1 DEF RunHook, HookTypes
<1>3. /\ hookRun'.said = said /\ hookRun'.copy = hookRun.copy
      /\ hookRun'.kind = IF say = "block" /\ hookRun.kind = "pre" THEN "none" ELSE hookRun.kind
      /\ DOMAIN hookRun' = DOMAIN hookRun
      /\ hookResult' = Aggregated(h, say) /\ UNCHANGED <<hooks, ctxDone>>
  BY DEF RunHook, Hooked, NextHook
<1>4. h \in Hooks
  BY <1>1, <1>2, ElementOfSeq DEF HookTypes
<1>5. /\ said \in Seq(Hooks \X HookSays) /\ Len(said) = n + 1
      /\ DOMAIN said = 1..(n + 1) /\ DOMAIN hookRun.said = 1..n
      /\ \A i \in 1..n : said[i] = hookRun.said[i]
      /\ said[n + 1] = <<h, say>>
  BY <1>1, <1>4 DEF HookTypes
<1>6. /\ hookResult' \in [block : BOOLEAN, context : Seq(Hooks), input : SUBSET Hooks, stop : BOOLEAN]
      /\ hookResult'.block <=> (hookResult.block \/ say = "block")
  BY <1>1, <1>3, <1>4, AggregatedIs
<1>7. HookTypes'
  BY <1>1, <1>2, <1>3, <1>5, <1>6 DEF HookTypes
<1>8. \A i \in DOMAIN said : said[i][1] = hookRun.copy[i]
  BY <1>1, <1>5 DEF Asking
<1>9. (\E i \in DOMAIN said : said[i][2] = "block") <=> (Blocked \/ say = "block")
  BY <1>2, <1>5 DEF Blocked
<1>10. Asking'
  BY <1>1, <1>2, <1>3, <1>6, <1>8, <1>9 DEF Asking, Blocked
<1> QED
  BY <1>3, <1>7, <1>10 DEF Hooked

LEMMA HookedEnds == ASSUME Hooked, AbortRun \/ EndHooks \/ CancelRun PROVE Hooked'
<1>1. HookTypes /\ Asking
  BY DEF Hooked
<1>2. CASE AbortRun
  <2>1. /\ hookRun'.said = hookRun.said /\ hookRun'.copy = hookRun.copy /\ hookRun'.kind = "none"
        /\ DOMAIN hookRun' = DOMAIN hookRun /\ ctxDone /\ UNCHANGED <<hooks, ctxDone>>
    BY <1>2 DEF AbortRun, Hooked
  <2>2. hookResult' \in [block : BOOLEAN, context : Seq(Hooks), input : SUBSET Hooks, stop : BOOLEAN]
    BY <1>2, EmptySeq DEF AbortRun, Quiet
  <2> QED
    BY <1>1, <2>1, <2>2 DEF Hooked, HookTypes, Asking
<1>3. CASE EndHooks
  <2>1. /\ hookRun'.said = hookRun.said /\ hookRun'.copy = hookRun.copy /\ hookRun'.kind = "none"
        /\ DOMAIN hookRun' = DOMAIN hookRun /\ UNCHANGED <<hooks, hookResult, ctxDone>>
        /\ hookRun.kind # "none" /\ Len(hookRun.said) = Len(hookRun.copy)
    BY <1>3 DEF EndHooks, Hooked
  <2> QED
    BY <1>1, <2>1 DEF Hooked, HookTypes, Asking, Blocked
<1>4. CASE CancelRun
  <2>1. hookRun.kind # "none" /\ ctxDone' = TRUE /\ UNCHANGED <<hooks, hookRun, hookResult>>
    BY <1>4 DEF CancelRun
  <2> QED
    BY <1>1, <2>1 DEF Hooked, HookTypes, Asking, Blocked
<1> QED
  BY <1>2, <1>3, <1>4

LEMMA HookedStep == Hooked /\ [HooksNext]_hooksVars => Hooked'
<1> SUFFICES ASSUME Hooked, [HooksNext]_hooksVars PROVE Hooked'
  OBVIOUS
<1>1. CASE UNCHANGED hooksVars
  BY <1>1 DEF hooksVars, Hooked, HookTypes, Asking, Blocked
<1> QED
  BY <1>1, HookedRegisters, HookedUnregisters, HookedStarts, HookedAsks, HookedEnds DEF HooksNext, HookSays

LEMMA HookedAsked == Hooked => AskedAsRegistered
<1> SUFFICES ASSUME Hooked PROVE AskedAsRegistered
  OBVIOUS
<1>1. HookTypes /\ Asking
  BY DEF Hooked
<1>2. DOMAIN hookRun.said = 1..Len(hookRun.said) /\ Len(hookRun.said) \in Nat /\ Len(hookRun.copy) \in Nat
      /\ Len(hookRun.said) <= Len(hookRun.copy)
  BY <1>1 DEF HookTypes
<1>3. \A i \in DOMAIN hookRun.said : i \in 1..Len(hookRun.copy)
  BY <1>2
<1>4. \A i, j \in DOMAIN hookRun.said : hookRun.said[i][1] = hookRun.said[j][1] => i = j
  BY <1>1, <1>3 DEF Asking, Apart
<1> QED
  BY <1>1, <1>4 DEF AskedAsRegistered, Asking, Blocked

-----------------------------------------------------------------------------
(* Every base but the first of a cache that was just cleared is one of a   *)
(* request that was computing it when the first was stored.                *)
Computing == {r \in Requests : schemaCall[r].step = "computed"}
Based ==
    /\ schemaCall \in [Requests -> [step : {"new", "computed", "answered"}, base : SUBSET Features]]
    /\ schemaCache \subseteq answered /\ answered \subseteq SUBSET Features
    /\ schemaCache = {} \/ \E b \in SUBSET Features : schemaCache = {b}
    /\ IsFiniteSet(answered)
    /\ schemaCache = {} => answered = {}
    /\ Cardinality(answered) + Cardinality(Computing) <= Cardinality(Requests)

(* A set of requests is no larger than all of them. *)
LEMMA SomeRequests ==
    ASSUME NEW T \in SUBSET Requests
    PROVE  /\ IsFiniteSet(T) /\ Cardinality(T) \in Nat /\ Cardinality(Requests) \in Nat
           /\ Cardinality(T) <= Cardinality(Requests)
BY RequestsAssumption, FS_Subset, FS_CardinalityType

LEMMA BasedInit == SchemasInit => Based
<1> SUFFICES ASSUME SchemasInit PROVE Based
  OBVIOUS
<1>1. /\ schemaCall \in [Requests -> [step : {"new", "computed", "answered"}, base : SUBSET Features]]
      /\ Computing = {}
  BY DEF SchemasInit, Computing
<1>2. IsFiniteSet({}) /\ Cardinality({}) = 0
  BY FS_EmptySet
<1>3. Cardinality(Requests) \in Nat
  BY SomeRequests
<1> QED
  BY <1>1, <1>2, <1>3 DEF SchemasInit, Based

(* A request whose step changes joins those that compute, or leaves them. *)
LEMMA OneRequest ==
    ASSUME Based, NEW r \in Requests, NEW now \in [step : {"new", "computed", "answered"}, base : SUBSET Features],
           schemaCall' = [schemaCall EXCEPT ![r] = now]
    PROVE  /\ schemaCall' \in [Requests -> [step : {"new", "computed", "answered"}, base : SUBSET Features]]
           /\ Computing' = IF now.step = "computed" THEN Computing \cup {r} ELSE Computing \ {r}
<1>1. schemaCall \in [Requests -> [step : {"new", "computed", "answered"}, base : SUBSET Features]]
  BY DEF Based
<1>2. \A q \in Requests : schemaCall'[q] = IF q = r THEN now ELSE schemaCall[q]
  BY <1>1
<1> QED
  BY <1>1, <1>2 DEF Computing

LEMMA BasedAsks ==
    ASSUME Based, NEW r \in Requests, NEW f \in SUBSET Features, AskSchema(r, f) PROVE Based'
<1>1. schemaCall[r].step = "new" /\ schemaCache' = schemaCache
  BY DEF AskSchema
<1>2. /\ schemaCache \subseteq answered /\ answered \subseteq SUBSET Features
      /\ schemaCache = {} \/ \E b \in SUBSET Features : schemaCache = {b}
      /\ IsFiniteSet(answered) /\ (schemaCache = {} => answered = {})
      /\ Cardinality(answered) + Cardinality(Computing) <= Cardinality(Requests)
  BY DEF Based
<1>3. CASE schemaCache # {}
  <2> DEFINE now == [step |-> "answered", base |-> UNION schemaCache]
  <2>1. schemaCall' = [schemaCall EXCEPT ![r] = now] /\ answered' = answered
    BY <1>2, <1>3 DEF AskSchema
  <2>2. UNION schemaCache \in SUBSET Features
    BY <1>2
  <2>3. Computing' = Computing \ {r}
        /\ schemaCall' \in [Requests -> [step : {"new", "computed", "answered"}, base : SUBSET Features]]
    BY <2>1, <2>2, OneRequest
  <2>4. Computing' = Computing
    BY <1>1, <2>3 DEF Computing
  <2> QED
    BY <1>1, <1>2, <2>1, <2>3, <2>4 DEF Based
<1>4. CASE schemaCache = {}
  <2> DEFINE now == [step |-> "computed", base |-> f]
  <2>1. schemaCall' = [schemaCall EXCEPT ![r] = now] /\ answered' = answered
    BY <1>4 DEF AskSchema
  <2>2. schemaCall' \in [Requests -> [step : {"new", "computed", "answered"}, base : SUBSET Features]]
    BY <2>1, OneRequest
  <2>3. answered = {} /\ Cardinality({}) = 0
    BY <1>2, <1>4, FS_EmptySet
  <2>4. Computing' \in SUBSET Requests
    BY DEF Computing
  <2>5. Cardinality(answered') + Cardinality(Computing') <= Cardinality(Requests)
    BY <2>1, <2>3, <2>4, SomeRequests
  <2> QED
    BY <1>1, <1>2, <2>1, <2>2, <2>5 DEF Based
<1> QED
  BY <1>3, <1>4

LEMMA BasedStores == ASSUME Based, NEW r \in Requests, StoreSchema(r) PROVE Based'
<1> DEFINE b == schemaCall[r].base
           now == [step |-> "answered", base |-> b]
<1>1. /\ schemaCall \in [Requests -> [step : {"new", "computed", "answered"}, base : SUBSET Features]]
      /\ answered \subseteq SUBSET Features /\ IsFiniteSet(answered)
      /\ Cardinality(answered) + Cardinality(Computing) <= Cardinality(Requests)
  BY DEF Based
<1>2. /\ schemaCall[r].step = "computed" /\ schemaCache' = {b} /\ answered' = answered \cup {b}
      /\ schemaCall' = [schemaCall EXCEPT ![r].step = "answered"]
  BY DEF StoreSchema
<1>3. b \in SUBSET Features
  BY <1>1
<1>4. schemaCall' = [schemaCall EXCEPT ![r] = now]
  <2>1. [schemaCall[r] EXCEPT !.step = "answered"] = now
    <3>1. schemaCall[r] \in [step : {"new", "computed", "answered"}, base : SUBSET Features]
      BY <1>1
    <3> QED
      BY <3>1
  <2> QED
    BY <1>2, <2>1
<1>5. /\ Computing' = Computing \ {r} /\ r \in Computing
      /\ schemaCall' \in [Requests -> [step : {"new", "computed", "answered"}, base : SUBSET Features]]
  <2>1. r \in Computing
    BY <1>2 DEF Computing
  <2>2. now \in [step : {"new", "computed", "answered"}, base : SUBSET Features] /\ now.step # "computed"
    BY <1>3
  <2> QED
    BY <1>4, <2>1, <2>2, OneRequest
<1>6. Computing \in SUBSET Requests
  BY DEF Computing
<1>7. Cardinality(Computing \ {r}) = Cardinality(Computing) - 1 /\ Cardinality(Computing) \in Nat
  BY <1>5, <1>6, SomeRequests, FS_RemoveElement
<1>8. /\ IsFiniteSet(answered \cup {b}) /\ Cardinality(answered) \in Nat
      /\ Cardinality(answered \cup {b}) <= Cardinality(answered) + 1
  <2>1. Cardinality(answered) \in Nat
    BY <1>1, FS_CardinalityType
  <2>2. IsFiniteSet(answered \cup {b})
        /\ (\/ Cardinality(answered \cup {b}) = Cardinality(answered)
            \/ Cardinality(answered \cup {b}) = Cardinality(answered) + 1)
    BY <1>1, FS_AddElement
  <2> QED
    BY <2>1, <2>2
<1>9. Cardinality(Requests) \in Nat
  BY SomeRequests
<1>10. Cardinality(answered') + Cardinality(Computing') <= Cardinality(Requests)
  <2>1. Cardinality(answered') \in Nat
    BY <1>2, <1>8, FS_CardinalityType
  <2> QED
    BY <1>1, <1>2, <1>5, <1>7, <1>8, <1>9, <2>1
<1> QED
  BY <1>1, <1>2, <1>3, <1>5, <1>8, <1>10 DEF Based

LEMMA BasedAgain == ASSUME Based, NEW r \in Requests, AskAgain(r) PROVE Based'
<1> DEFINE now == [step |-> "new", base |-> schemaCall[r].base]
<1>1. schemaCall \in [Requests -> [step : {"new", "computed", "answered"}, base : SUBSET Features]]
  BY DEF Based
<1>2. /\ schemaCall[r].step = "answered" /\ UNCHANGED <<schemaCache, answered>>
      /\ schemaCall' = [schemaCall EXCEPT ![r] = now]
  <2>1. [schemaCall[r] EXCEPT !.step = "new"] = now
    <3>1. schemaCall[r] \in [step : {"new", "computed", "answered"}, base : SUBSET Features]
      BY <1>1
    <3> QED
      BY <3>1
  <2> QED
    BY <2>1 DEF AskAgain
<1>3. schemaCall[r].base \in SUBSET Features
  BY <1>1
<1>4. /\ Computing' = Computing \ {r} /\ r \notin Computing
      /\ schemaCall' \in [Requests -> [step : {"new", "computed", "answered"}, base : SUBSET Features]]
  BY <1>2, <1>3, OneRequest DEF Computing
<1>5. Computing' = Computing
  BY <1>4
<1> QED
  BY <1>2, <1>4, <1>5 DEF Based

LEMMA BasedStep == Based /\ [SchemasNext]_schemaVars => Based'
<1> SUFFICES ASSUME Based, [SchemasNext]_schemaVars PROVE Based'
  OBVIOUS
<1>1. CASE UNCHANGED schemaVars
  BY <1>1 DEF schemaVars, Based, Computing
<1>2. CASE ClearSchemaCache
  <2>1. schemaCache' = {} /\ answered' = {} /\ schemaCall' = schemaCall
    BY <1>2 DEF ClearSchemaCache
  <2>2. IsFiniteSet({}) /\ Cardinality({}) = 0
    BY FS_EmptySet
  <2>3. Computing' = Computing /\ Computing \in SUBSET Requests
    BY <2>1 DEF Computing
  <2>4. Cardinality(answered') + Cardinality(Computing') <= Cardinality(Requests)
    BY <2>1, <2>2, <2>3, SomeRequests
  <2> QED
    BY <2>1, <2>2, <2>4 DEF Based
<1> QED
  BY <1>1, <1>2, BasedAsks, BasedStores, BasedAgain DEF SchemasNext

LEMMA BasedFew == Based => FewBases
<1> SUFFICES ASSUME Based PROVE FewBases
  OBVIOUS
<1>1. Computing \in SUBSET Requests
  BY DEF Computing
<1>2. Cardinality(Computing) \in Nat /\ Cardinality(Requests) \in Nat /\ Cardinality(answered) \in Nat
  BY <1>1, SomeRequests, FS_CardinalityType DEF Based
<1> QED
  BY <1>2 DEF Based, FewBases

-------------------------------------------------------------------------------
(* The last change told is to the mode as it is; calls that enter beside   *)
(* others know of it, and if one of them was first, it told so too.        *)
Modes == {"normal", "plan"}
HostEvents ==
    [type : {"plan"}, from : Modes, to : Modes, together : BOOLEAN] \cup [type : {"ask", "brief"}]
IsLast(i) == i \in Changes /\ \A k \in Changes : k <= i
ModeTypes ==
    /\ planMode \in Modes /\ hostEvents \in Seq(HostEvents)
    /\ sessionCall \in [PlanCalls -> {"idle", "entering", "asking"}]
    /\ together \subseteq PlanCalls
ModeTold ==
    /\ \A i, j \in Changes :
          i < j /\ (\A k \in Changes : k <= i \/ j <= k) =>
              \/ hostEvents[j].from = hostEvents[i].to
              \/ hostEvents[i].together /\ hostEvents[j].together
    /\ Changes = {} => planMode = "normal"
    /\ \A i \in Changes : IsLast(i) => planMode = hostEvents[i].to
EnteringTold ==
    /\ callContext = "bare" => planMode = "normal" /\ hostEvents = <<>>
    /\ callContext # "bare" =>
          /\ planMode = "normal" => \A c, d \in Entering : c = d \/ c \in together
          /\ planMode = "plan" =>
                /\ Entering \subseteq together
                /\ Entering # {} => \A i \in Changes : IsLast(i) => hostEvents[i].together
    /\ \A c \in PlanCalls : sessionCall[c] = "asking" => Busy = {c}

Moded == ModeTypes /\ ModeTold /\ EnteringTold

LEMMA ModedInit == SessionToolsInit => Moded
<1> SUFFICES ASSUME SessionToolsInit PROVE Moded
  OBVIOUS
<1>1. /\ planMode = "normal" /\ hostEvents = <<>> /\ together = {}
      /\ sessionCall = [c \in PlanCalls |-> "idle"]
  BY DEF SessionToolsInit
<1>2. Changes = {} /\ Entering = {}
  BY <1>1 DEF Changes, Entering
<1> QED
  BY <1>1, <1>2 DEF Moded, ModeTypes, Modes, ModeTold, EnteringTold

(* One event more. *)
LEMMA OneMoreEvent ==
    ASSUME ModeTypes, NEW e \in HostEvents, hostEvents' = Append(hostEvents, e)
    PROVE  /\ hostEvents' \in Seq(HostEvents) /\ Len(hostEvents) \in Nat
           /\ Changes' = Changes \cup (IF e.type = "plan" THEN {Len(hostEvents) + 1} ELSE {})
           /\ \A i \in Changes : i \in 1..Len(hostEvents) /\ hostEvents'[i] = hostEvents[i]
           /\ hostEvents'[Len(hostEvents) + 1] = e
<1> DEFINE n == Len(hostEvents)
<1>1. /\ n \in Nat /\ hostEvents' \in Seq(HostEvents) /\ DOMAIN hostEvents = 1..n /\ DOMAIN hostEvents' = 1..(n + 1)
      /\ \A i \in 1..n : hostEvents'[i] = hostEvents[i]
      /\ hostEvents'[n + 1] = e
  BY DEF ModeTypes
<1>2. Changes \subseteq 1..n
  BY <1>1 DEF Changes
<1>3. \A i \in 1..(n + 1) : i = n + 1 \/ i \in 1..n
  BY <1>1
<1>4. n + 1 \in 1..(n + 1) /\ \A i \in 1..n : i \in 1..(n + 1)
  BY <1>1
<1>5. Changes' = Changes \cup (IF e.type = "plan" THEN {n + 1} ELSE {})
  BY <1>1, <1>3, <1>4 DEF Changes
<1> QED
  BY <1>1, <1>2, <1>5

(* An event that is no change leaves the changes as they are. *)
LEMMA OtherEvent ==
    ASSUME Moded, NEW e \in HostEvents, e.type # "plan",
           hostEvents' = Append(hostEvents, e) \/ hostEvents' = hostEvents, UNCHANGED planMode
    PROVE  /\ ModeTold' /\ hostEvents' \in Seq(HostEvents) /\ Changes' = Changes
           /\ \A i \in Changes : hostEvents'[i] = hostEvents[i]
<1>1. ModeTypes /\ ModeTold
  BY DEF Moded
<1>2. /\ hostEvents' \in Seq(HostEvents) /\ Changes' = Changes
      /\ \A i \in Changes : hostEvents'[i] = hostEvents[i]
  <2>1. CASE hostEvents' = hostEvents
    BY <1>1, <2>1 DEF ModeTypes, Changes
  <2>2. CASE hostEvents' = Append(hostEvents, e)
    BY <1>1, <2>2, OneMoreEvent
  <2> QED
    BY <2>1, <2>2
<1> QED
  BY <1>1, <1>2 DEF ModeTold, IsLast

(* A change from the mode as it is, or beside the change before it. *)
LEMMA OneMoreChange ==
    ASSUME Moded, NEW f \in Modes, NEW t \in Modes, NEW b \in BOOLEAN,
           hostEvents' = Append(hostEvents, [type |-> "plan", from |-> f, to |-> t, together |-> b]),
           planMode' = t,
           \/ f = planMode
           \/ b /\ \A i \in Changes : IsLast(i) => hostEvents[i].together
    PROVE  /\ hostEvents' \in Seq(HostEvents) /\ ModeTold'
           /\ \A i \in Changes' : IsLast(i)' => hostEvents'[i].together = b
<1> DEFINE e == [type |-> "plan", from |-> f, to |-> t, together |-> b]
           n == Len(hostEvents)
<1>1. ModeTypes /\ ModeTold
  BY DEF Moded
<1>2. e \in HostEvents /\ e.type = "plan" /\ e.from = f /\ e.to = t /\ e.together = b
  BY DEF HostEvents
<1> HIDE DEF e
<1>3. /\ hostEvents' \in Seq(HostEvents) /\ n \in Nat
      /\ Changes' = Changes \cup {n + 1}
      /\ \A i \in Changes : i \in 1..n /\ hostEvents'[i] = hostEvents[i]
      /\ hostEvents'[n + 1] = e
  BY <1>1, <1>2, OneMoreEvent DEF e
<1>4. \A i \in Changes' : i <= n + 1
  BY <1>3
<1>5. \A i \in Changes' : IsLast(i)' => i = n + 1
  BY <1>3 DEF IsLast
<1>6. ASSUME NEW i \in Changes', NEW j \in Changes', i < j, \A k \in Changes' : k <= i \/ j <= k
      PROVE  \/ hostEvents'[j].from = hostEvents'[i].to
             \/ hostEvents'[i].together /\ hostEvents'[j].together
  <2>1. i \in Changes
    BY <1>3, <1>6
  <2>2. CASE j \in Changes
    <3>1. \A k \in Changes : k <= i \/ j <= k
      BY <1>3, <1>6
    <3> QED
      BY <1>1, <1>3, <1>6, <2>1, <2>2, <3>1 DEF ModeTold
  <2>3. CASE j = n + 1
    <3>1. \A k \in Changes : k <= i
      BY <1>3, <1>6, <2>3
    <3>2. IsLast(i)
      BY <2>1, <3>1 DEF IsLast
    <3>3. planMode = hostEvents[i].to
      BY <1>1, <2>1, <3>2 DEF ModeTold
    <3> QED
      BY <1>2, <1>3, <2>1, <2>3, <3>2, <3>3
  <2> QED
    BY <1>3, <2>2, <2>3
<1>7. ModeTold'
  BY <1>2, <1>3, <1>5, <1>6 DEF ModeTold
<1> QED
  BY <1>2, <1>3, <1>5, <1>7

LEMMA ModedLooks == ASSUME Moded, NEW c \in PlanCalls, LookAtMode(c) PROVE Moded'
<1>1. ModeTypes /\ ModeTold /\ EnteringTold
  BY DEF Moded
<1>2. /\ sessionCall[c] = "idle" /\ Busy = Entering
      /\ callContext = "bare" \/ planMode = "normal"
      /\ sessionCall' = [sessionCall EXCEPT ![c] = "entering"]
      /\ together' = IF Entering = {} THEN {} ELSE together \cup Entering \cup {c}
      /\ UNCHANGED <<callContext, planMode, todos, hostEvents>>
  BY DEF LookAtMode
<1>3. ModeTypes'
  BY <1>1, <1>2 DEF ModeTypes, Entering
<1>4. ModeTold'
  BY <1>1, <1>2 DEF ModeTold, Changes, IsLast
<1>5. Entering' = Entering \cup {c} /\ \A d \in PlanCalls : sessionCall'[d] # "asking"
  <2>1. \A d \in PlanCalls : sessionCall'[d] = IF d = c THEN "entering" ELSE sessionCall[d]
    BY <1>1, <1>2 DEF ModeTypes
  <2>2. \A d \in PlanCalls : sessionCall[d] # "asking"
    BY <1>2 DEF Busy, Entering
  <2> QED
    BY <2>1, <2>2 DEF Entering
<1>6. EnteringTold'
  BY <1>1, <1>2, <1>5 DEF EnteringTold
<1> QED
  BY <1>3, <1>4, <1>6 DEF Moded

LEMMA ModedEnters == ASSUME Moded, NEW c \in PlanCalls, EnterPlanMode(c) PROVE Moded'
<1>1. ModeTypes /\ ModeTold /\ EnteringTold
  BY DEF Moded
<1>2. /\ sessionCall[c] = "entering"
      /\ planMode' = IF callContext = "bare" THEN "normal" ELSE "plan"
      /\ sessionCall' = [sessionCall EXCEPT ![c] = "idle"]
      /\ UNCHANGED <<callContext, todos, together>>
  BY DEF EnterPlanMode
<1>3. c \in Entering /\ Entering' = Entering \ {c} /\ Busy' = Busy \ {c} /\ c \in Busy
      /\ \A d \in PlanCalls : sessionCall'[d] = "asking" => sessionCall[d] = "asking"
  <2>1. \A d \in PlanCalls : sessionCall'[d] = IF d = c THEN "idle" ELSE sessionCall[d]
    BY <1>1, <1>2 DEF ModeTypes
  <2> QED
    BY <1>2, <2>1 DEF Entering, Busy
<1>4. \A d \in PlanCalls : sessionCall'[d] = "asking" => Busy' = {d}
  <2> SUFFICES ASSUME NEW d \in PlanCalls, sessionCall'[d] = "asking" PROVE FALSE
    OBVIOUS
  <2>1. sessionCall[d] = "asking" /\ Busy = {d}
    BY <1>1, <1>3 DEF EnteringTold
  <2> QED
    BY <1>2, <1>3, <2>1
<1>5. sessionCall' \in [PlanCalls -> {"idle", "entering", "asking"}]
  BY <1>1, <1>2 DEF ModeTypes
<1>6. CASE callContext = "bare"
  <2>1. hostEvents' = hostEvents /\ planMode' = planMode
    BY <1>1, <1>2, <1>6 DEF EnterPlanMode, Tell, EnteringTold
  <2>2. ModeTold'
    BY <1>1, <2>1 DEF ModeTold, Changes, IsLast
  <2> QED
    BY <1>1, <1>2, <1>4, <1>5, <1>6, <2>1, <2>2 DEF Moded, ModeTypes, EnteringTold
<1>7. CASE callContext # "bare"
  <2> DEFINE b == c \in together
  <2>1. hostEvents' = Append(hostEvents, [type |-> "plan", from |-> "normal", to |-> "plan", together |-> b])
    BY <1>7 DEF EnterPlanMode, Tell, Change
  <2>2. planMode' = "plan"
    BY <1>2, <1>7
  <2>3. \/ "normal" = planMode
        \/ b /\ \A i \in Changes : IsLast(i) => hostEvents[i].together
    BY <1>1, <1>3, <1>7 DEF EnteringTold, ModeTypes, Modes
  <2>4. /\ hostEvents' \in Seq(HostEvents) /\ ModeTold'
        /\ \A i \in Changes' : IsLast(i)' => hostEvents'[i].together = b
    <3>1. b \in BOOLEAN
      OBVIOUS
    <3> HIDE DEF b
    <3> QED
      BY <2>1, <2>2, <2>3, <3>1, OneMoreChange DEF Modes
  <2>5. Entering' # {} => b
    BY <1>1, <1>3, <1>7 DEF EnteringTold, ModeTypes, Modes
  <2>6. Entering' \subseteq together
    <3> SUFFICES ASSUME NEW d \in Entering, d # c PROVE d \in together
      BY <1>3
    <3> QED
      BY <1>1, <1>3, <1>7 DEF EnteringTold, ModeTypes, Modes
  <2>7. EnteringTold'
    BY <1>2, <1>4, <1>7, <2>2, <2>4, <2>5, <2>6 DEF EnteringTold
  <2>8. ModeTypes'
    BY <1>1, <1>2, <1>5, <2>2, <2>4 DEF ModeTypes, Modes
  <2> QED
    BY <2>4, <2>7, <2>8 DEF Moded
<1> QED
  BY <1>6, <1>7

LEMMA ModedExits == ASSUME Moded, ExitPlanMode PROVE Moded'
<1>1. ModeTypes /\ ModeTold /\ EnteringTold
  BY DEF Moded
<1>2. /\ Busy = {} /\ planMode = "plan" /\ planMode' = "normal"
      /\ UNCHANGED <<callContext, todos, sessionCall, together>>
  BY DEF ExitPlanMode
<1>3. callContext # "bare"
  BY <1>1, <1>2 DEF EnteringTold
<1>4. hostEvents' = Append(hostEvents, [type |-> "plan", from |-> "plan", to |-> "normal", together |-> FALSE])
  BY <1>3 DEF ExitPlanMode, Tell, Change
<1>5. hostEvents' \in Seq(HostEvents) /\ ModeTold'
  BY <1>2, <1>4, OneMoreChange DEF Modes
<1>6. Entering = {} /\ Entering' = Entering /\ Busy' = Busy
  BY <1>2 DEF Busy, Entering
<1>7. EnteringTold'
  BY <1>1, <1>2, <1>3, <1>6 DEF EnteringTold
<1> QED
  BY <1>1, <1>2, <1>5, <1>7 DEF Moded, ModeTypes, Modes

LEMMA ModedTells ==
    ASSUME Moded, NEW c \in PlanCalls, AskUser(c) \/ UserAnswers(c) PROVE Moded'
<1>1. ModeTypes /\ ModeTold /\ EnteringTold
  BY DEF Moded
<1>2. CASE AskUser(c)
  <2> DEFINE e == [type |-> "ask"]
  <2>1. /\ Busy = {} /\ callContext # "bare" /\ sessionCall' = [sessionCall EXCEPT ![c] = "asking"]
        /\ hostEvents' = Append(hostEvents, e) /\ UNCHANGED <<callContext, planMode, todos, together>>
    BY <1>2 DEF AskUser, Tell
  <2>2. e \in HostEvents /\ e.type # "plan"
    BY DEF HostEvents
  <2>3. ModeTold' /\ hostEvents' \in Seq(HostEvents)
    <3> HIDE DEF e
    <3> QED
      BY <2>1, <2>2, OtherEvent
  <2>4. Entering' = {} /\ Busy' = {c} /\ \A d \in PlanCalls : sessionCall'[d] = "asking" => d = c
    <3>1. \A d \in PlanCalls : sessionCall'[d] = (IF d = c THEN "asking" ELSE sessionCall[d])
      BY <1>1, <2>1 DEF ModeTypes
    <3>2. \A d \in PlanCalls : sessionCall[d] = "idle"
      BY <2>1 DEF Busy
    <3> QED
      BY <3>1, <3>2 DEF Entering, Busy
  <2>5. EnteringTold'
    BY <2>1, <2>4 DEF EnteringTold
  <2> QED
    BY <1>1, <2>1, <2>3, <2>5 DEF Moded, ModeTypes
<1>3. CASE UserAnswers(c)
  <2>1. /\ sessionCall[c] = "asking" /\ sessionCall' = [sessionCall EXCEPT ![c] = "idle"]
        /\ UNCHANGED <<callContext, planMode, todos, together, hostEvents>>
    BY <1>3 DEF UserAnswers
  <2>2. Busy = {c}
    BY <1>1, <2>1 DEF EnteringTold
  <2>3. \A d \in PlanCalls : sessionCall'[d] = "idle"
    BY <1>1, <2>1, <2>2 DEF ModeTypes, Busy
  <2>4. Entering' = {}
    BY <2>3 DEF Entering
  <2>5. EnteringTold'
    BY <1>1, <2>1, <2>3, <2>4 DEF EnteringTold
  <2>6. ModeTold'
    BY <1>1, <2>1 DEF ModeTold, Changes, IsLast
  <2> QED
    BY <1>1, <2>1, <2>5, <2>6 DEF Moded, ModeTypes
<1> QED
  BY <1>2, <1>3

LEMMA ModedBriefs == ASSUME Moded, Brief PROVE Moded'
<1>1. ModeTypes /\ ModeTold /\ EnteringTold
  BY DEF Moded
<1> DEFINE e == [type |-> "brief"]
<1>2. /\ Busy = {} /\ UNCHANGED <<callContext, planMode, todos, sessionCall, together>>
      /\ hostEvents' = IF callContext = "bare" THEN hostEvents ELSE Append(hostEvents, e)
  BY DEF Brief, Tell
<1>3. e \in HostEvents /\ e.type # "plan"
  BY DEF HostEvents
<1> HIDE DEF e
<1>4. /\ ModeTold' /\ hostEvents' \in Seq(HostEvents)
  BY <1>2, <1>3, OtherEvent
<1>5. Busy' = Busy /\ Entering' = {} /\ Entering = {}
  BY <1>2 DEF Busy, Entering
<1>6. EnteringTold'
  BY <1>1, <1>2, <1>5 DEF EnteringTold
<1> QED
  BY <1>1, <1>2, <1>4, <1>6 DEF Moded, ModeTypes

LEMMA ModedStep == Moded /\ [SessionToolsNext]_sessionToolVars => Moded'
<1> SUFFICES ASSUME Moded, [SessionToolsNext]_sessionToolVars PROVE Moded'
  OBVIOUS
<1>1. CASE UNCHANGED sessionToolVars \/ TodoWrite
  <2>1. UNCHANGED <<callContext, planMode, sessionCall, together, hostEvents>>
    BY <1>1 DEF sessionToolVars, TodoWrite
  <2> QED
    BY <2>1 DEF Moded, ModeTypes, ModeTold, EnteringTold, Changes, IsLast, Entering, Busy
<1> QED
  BY <1>1, ModedLooks, ModedEnters, ModedExits, ModedTells, ModedBriefs DEF SessionToolsNext

LEMMA ModedKnows == Moded => HostKnowsMode
<1> SUFFICES ASSUME Moded PROVE HostKnowsMode
  OBVIOUS
<1>1. ModeTypes /\ ModeTold /\ EnteringTold
  BY DEF Moded
<1> DEFINE inQuestion == {c \in PlanCalls : sessionCall[c] = "asking"}
<1>2. inQuestion = {} \/ \E c \in PlanCalls : inQuestion = {c}
  BY <1>1 DEF EnteringTold, Busy
<1>3. Cardinality({}) = 0 /\ \A c \in PlanCalls : Cardinality({c}) = 1
  BY FS_EmptySet, FS_Singleton
<1>4. Cardinality(inQuestion) <= 1
  BY <1>2, <1>3
<1> QED
  BY <1>1, <1>4 DEF HostKnowsMode, ModeTold, IsLast

-------------------------------------------------------------------------------
(* The pool has no name twice and begins with the registry's tools it was  *)
(* assembled from, in the order of the names.                              *)
PoolNames == ToSet(NameOrder)
PoolTypes ==
    /\ registry.tools \cup registry.denied \cup registry.disabled \subseteq Registrable
    /\ DOMAIN registry = {"tools", "denied", "disabled"}
    /\ asked \subseteq Registrable
    /\ pool \in Seq(PoolNames) /\ ToSet(pool) \subseteq Registrable \cup Offered
PoolBegins ==
    /\ IsInjective(pool)
    /\ Len(Sorted(asked)) <= Len(pool)
    /\ \A i \in 1..Len(Sorted(asked)) : pool[i] = Sorted(asked)[i]

Pooled == PoolTypes /\ PoolBegins /\ AgentGetsItsList

LEMMA NamesApart == NameOrder \in Seq(PoolNames) /\ IsInjective(NameOrder)
<1>1. NameOrder \in Seq(PoolNames)
  <2>1. DOMAIN NameOrder = 1..8
    BY DEF NameOrder
  <2>2. NameOrder = [i \in 1..8 |-> NameOrder[i]]
    BY DEF NameOrder
  <2>3. \A i \in 1..8 : NameOrder[i] \in PoolNames
    BY <2>1 DEF PoolNames, ToSet
  <2> QED
    BY <2>2, <2>3, SeqDef
<1>2. IsInjective(NameOrder)
  BY DEF IsInjective, NameOrder
<1> QED
  BY <1>1, <1>2

LEMMA SortedIs ==
    ASSUME NEW S \in SUBSET PoolNames
    PROVE  /\ Sorted(S) \in Seq(PoolNames) /\ ToSet(Sorted(S)) = S /\ IsInjective(Sorted(S))
           /\ Len(Sorted(S)) \in Nat /\ Len(Sorted(S)) = Cardinality(S)
<1> DEFINE t == Sorted(S)
           n == Len(t)
<1>1. t \in Seq(PoolNames) /\ ToSet(t) = PoolNames \cap S /\ IsInjective(t)
  BY NamesApart, OnlyAre DEF Sorted, PoolNames
<1> HIDE DEF t
<1>2. n \in Nat /\ DOMAIN t = 1..n
  BY <1>1
<1>3. ToSet(t) = S
  BY <1>1
<1>4. t \in [1..n -> S]
  <2>1. \A i \in 1..n : t[i] \in S
    BY <1>2, <1>3 DEF ToSet
  <2>2. t = [i \in 1..n |-> t[i]]
    BY <1>1, <1>2
  <2> QED
    BY <2>1, <2>2
<1>5. t \in Bijection(1..n, S)
  <2>1. \A x \in S : \E i \in 1..n : t[i] = x
    BY <1>2, <1>3 DEF ToSet
  <2> QED
    BY <1>1, <1>4, <2>1 DEF Bijection, Injection, Surjection
<1>6. IsFiniteSet(1..n) /\ Cardinality(1..n) = n
  <2>1. IsFiniteSet(1..n) /\ Cardinality(1..n) = IF 1 > n THEN 0 ELSE (n - 1) + 1
    BY <1>2, FS_Interval
  <2> QED
    BY <1>2, <2>1
<1>7. Cardinality(S) = n
  BY <1>5, <1>6, FS_Bijection DEF ExistsBijection
<1> QED
  BY <1>1, <1>2, <1>3, <1>7 DEF t

LEMMA InjectiveConcat ==
    ASSUME NEW S, NEW u \in Seq(S), NEW v \in Seq(S), IsInjective(u), IsInjective(v),
           ToSet(u) \cap ToSet(v) = {}
    PROVE  /\ u \o v \in Seq(S) /\ IsInjective(u \o v) /\ ToSet(u \o v) = ToSet(u) \cup ToSet(v)
           /\ Len(u) \in Nat /\ Len(u) <= Len(u \o v) /\ \A i \in 1..Len(u) : (u \o v)[i] = u[i]
<1> DEFINE w == u \o v
           m == Len(u)
           n == Len(v)
<1>1. /\ m \in Nat /\ n \in Nat /\ DOMAIN u = 1..m /\ DOMAIN v = 1..n
      /\ w \in Seq(S) /\ DOMAIN w = 1..(m + n) /\ Len(w) = m + n
      /\ \A i \in 1..m : w[i] = u[i]
      /\ \A i \in 1..n : w[m + i] = v[i]
  OBVIOUS
<1> HIDE DEF w, m, n
<1>2. \A i \in 1..(m + n) : i \in 1..m \/ \E k \in 1..n : i = m + k
  <2> SUFFICES ASSUME NEW i \in 1..(m + n), i \notin 1..m PROVE i - m \in 1..n /\ i = m + (i - m)
    OBVIOUS
  <2> QED
    BY <1>1
<1>3. /\ \A i \in 1..m : i \in 1..(m + n) /\ u[i] \in ToSet(u)
      /\ \A k \in 1..n : m + k \in 1..(m + n) /\ v[k] \in ToSet(v)
  <2>1. /\ \A i \in 1..m : i \in 1..(m + n)
        /\ \A k \in 1..n : m + k \in 1..(m + n)
    BY <1>1
  <2>2. /\ \A i \in DOMAIN u : u[i] \in ToSet(u)
        /\ \A i \in DOMAIN v : v[i] \in ToSet(v)
    BY DEF ToSet
  <2> QED
    BY <1>1, <2>1, <2>2
<1>4. IsInjective(w)
  <2> SUFFICES ASSUME NEW i \in 1..(m + n), NEW j \in 1..(m + n), w[i] = w[j] PROVE i = j
    BY <1>1 DEF IsInjective
  <2>1. CASE i \in 1..m /\ j \in 1..m
    BY <1>1, <2>1 DEF IsInjective
  <2>2. CASE \E k \in 1..n : i = m + k
    <3>1. PICK k \in 1..n : i = m + k
      BY <2>2
    <3>2. j \notin 1..m
      BY <1>1, <1>3, <3>1
    <3>3. PICK l \in 1..n : j = m + l
      BY <1>2, <3>2
    <3> QED
      BY <1>1, <3>1, <3>3, ZenonT(30) DEF IsInjective
  <2>3. CASE \E l \in 1..n : j = m + l
    <3>1. PICK l \in 1..n : j = m + l
      BY <2>3
    <3>2. i \notin 1..m
      BY <1>1, <1>3, <3>1
    <3>3. PICK k \in 1..n : i = m + k
      BY <1>2, <3>2
    <3> QED
      BY <1>1, <3>1, <3>3, ZenonT(30) DEF IsInjective
  <2> QED
    BY <1>2, <2>1, <2>2, <2>3
<1>5. ToSet(w) = ToSet(u) \cup ToSet(v)
  <2>1. ToSet(w) \subseteq ToSet(u) \cup ToSet(v)
    <3> SUFFICES ASSUME NEW i \in 1..(m + n) PROVE w[i] \in ToSet(u) \cup ToSet(v)
      BY <1>1 DEF ToSet
    <3> QED
      BY <1>1, <1>2, <1>3
  <2>2. ASSUME NEW x \in ToSet(u) PROVE x \in ToSet(w)
    <3>1. PICK i \in 1..m : u[i] = x
      BY <1>1, <2>2 DEF ToSet
    <3>2. i \in DOMAIN w /\ w[i] = x
      BY <1>1, <1>3, <3>1
    <3> QED
      BY <3>2 DEF ToSet
  <2>3. ASSUME NEW x \in ToSet(v) PROVE x \in ToSet(w)
    <3>1. PICK k \in 1..n : v[k] = x
      BY <1>1, <2>3 DEF ToSet
    <3>2. m + k \in DOMAIN w /\ w[m + k] = x
      BY <1>1, <1>3, <3>1
    <3> QED
      BY <3>2 DEF ToSet
  <2> QED
    BY <2>1, <2>2, <2>3
<1> QED
  BY <1>1, <1>4, <1>5 DEF w, m, n

LEMMA NoAgentGets == ASSUME agent = NoAgent PROVE AgentGetsItsList
<1>1. agent.main = TRUE /\ agent.tools = <<>> /\ agent.valid = <<>> /\ agent.invalid = <<>>
  BY DEF NoAgent
<1>2. IsInjective(<<>>) /\ ToSet(<<>>) = {}
  BY DEF IsInjective, ToSet
<1> QED
  BY <1>1, <1>2 DEF AgentGetsItsList

LEMMA PooledInit == PoolInit => Pooled
<1> SUFFICES ASSUME PoolInit PROVE Pooled
  OBVIOUS
<1>1. /\ registry = [tools |-> {}, denied |-> {}, disabled |-> {}] /\ pool = <<>> /\ agent = NoAgent /\ asked = {}
  BY DEF PoolInit
<1>2. {} \in SUBSET PoolNames /\ Sorted({}) \in Seq(PoolNames) /\ ToSet(Sorted({})) = {}
  BY SortedIs
<1>3. Len(Sorted({})) = 0
  BY SortedIs, FS_EmptySet
<1>4. ToSet(<<>>) = {} /\ IsInjective(<<>>) /\ <<>> \in Seq(PoolNames)
  BY DEF ToSet, IsInjective
<1>5. PoolTypes
  BY <1>1, <1>4 DEF PoolTypes
<1>6. PoolBegins
  BY <1>1, <1>3, <1>4 DEF PoolBegins
<1> QED
  BY <1>1, <1>5, <1>6, NoAgentGets DEF Pooled

(* The registry changes, the pool stays. *)
LEMMA PooledRegistry ==
    ASSUME Pooled, NEW n \in Registrable, RegisterTool(n) \/ Deny(n) \/ Undeny(n) \/ TurnOnOrOff(n)
    PROVE  Pooled'
<1>1. PoolTypes /\ PoolBegins
  BY DEF Pooled
<1>2. agent' = NoAgent /\ UNCHANGED <<pool, asked>>
  BY DEF RegisterTool, Deny, Undeny, TurnOnOrOff
<1>3. /\ registry'.tools \cup registry'.denied \cup registry'.disabled \subseteq Registrable
      /\ DOMAIN registry' = {"tools", "denied", "disabled"}
  <2>1. CASE RegisterTool(n)
    <3>1. /\ registry'.tools = registry.tools \cup {n} /\ registry'.denied = registry.denied
          /\ registry'.disabled = registry.disabled /\ DOMAIN registry' = DOMAIN registry
      BY <1>1, <2>1 DEF RegisterTool, PoolTypes
    <3> QED
      BY <1>1, <3>1 DEF PoolTypes
  <2>2. CASE Deny(n)
    <3>1. /\ registry'.tools = registry.tools /\ registry'.denied = registry.denied \cup {n}
          /\ registry'.disabled = registry.disabled /\ DOMAIN registry' = DOMAIN registry
      BY <1>1, <2>2 DEF Deny, PoolTypes
    <3> QED
      BY <1>1, <3>1 DEF PoolTypes
  <2>3. CASE Undeny(n)
    <3>1. /\ registry'.tools = registry.tools /\ registry'.denied \subseteq registry.denied
          /\ registry'.disabled = registry.disabled /\ DOMAIN registry' = DOMAIN registry
      BY <1>1, <2>3 DEF Undeny, PoolTypes
    <3> QED
      BY <1>1, <3>1 DEF PoolTypes
  <2>4. CASE TurnOnOrOff(n)
    <3>1. /\ registry'.tools = registry.tools /\ registry'.denied = registry.denied
          /\ registry'.disabled \subseteq registry.disabled \cup {n} /\ DOMAIN registry' = DOMAIN registry
      BY <1>1, <2>4 DEF TurnOnOrOff, PoolTypes
    <3> QED
      BY <1>1, <3>1 DEF PoolTypes
  <2> QED
    BY <2>1, <2>2, <2>3, <2>4
<1>4. PoolTypes' /\ PoolBegins'
  BY <1>1, <1>2, <1>3 DEF PoolTypes, PoolBegins, Sorted, ToSet, IsInjective
<1>5. AgentGetsItsList'
  BY <1>2, NoAgentGets DEF AgentGetsItsList, NoAgent, ToSet, IsInjective
<1> QED
  BY <1>4, <1>5 DEF Pooled

LEMMA PooledAssembles ==
    ASSUME Pooled, NEW rules, NEW external \in SUBSET Offered, AssembleToolPool(rules, external)
    PROVE  Pooled'
<1> DEFINE base == FilterByDenyRules(GetTools, rules)
           servers == FilterByDenyRules(external, rules)
           u == Sorted(base)
           v == Sorted(servers \ base)
<1>1. pool' = u \o v /\ asked' = base /\ agent' = NoAgent /\ registry' = registry
  BY DEF AssembleToolPool, AssembledPool
<1>2. base \subseteq Registrable /\ servers \subseteq Offered
  BY DEF FilterByDenyRules, GetTools, Pooled, PoolTypes
<1>3. base \in SUBSET PoolNames /\ servers \ base \in SUBSET PoolNames
  BY <1>2, PoolAssumption DEF PoolNames
<1> HIDE DEF base, servers
<1>4. /\ u \in Seq(PoolNames) /\ ToSet(u) = base /\ IsInjective(u)
      /\ v \in Seq(PoolNames) /\ ToSet(v) = servers \ base /\ IsInjective(v)
  BY <1>3, SortedIs
<1>5. ToSet(u) \cap ToSet(v) = {}
  BY <1>4
<1>6. u = Sorted(asked')
  BY <1>1
<1> HIDE DEF u, v
<1>7. /\ u \o v \in Seq(PoolNames) /\ IsInjective(u \o v) /\ ToSet(u \o v) = ToSet(u) \cup ToSet(v)
      /\ Len(u) <= Len(u \o v) /\ \A i \in 1..Len(u) : (u \o v)[i] = u[i]
  BY <1>4, <1>5, InjectiveConcat
<1>8. PoolTypes'
  BY <1>1, <1>2, <1>4, <1>7 DEF PoolTypes, Pooled, ToSet
<1>9. PoolBegins'
  BY <1>1, <1>6, <1>7 DEF PoolBegins, Sorted, IsInjective
<1>10. AgentGetsItsList'
  BY <1>1, NoAgentGets DEF AgentGetsItsList, NoAgent, ToSet, IsInjective
<1> QED
  BY <1>8, <1>9, <1>10 DEF Pooled

(* A list's tools, each where it is listed first. *)
LEMMA ChosenAre ==
    ASSUME NEW S, NEW s \in Seq(S), NEW T
    PROVE  IsInjective(Chosen(s, T)) /\ ToSet(Chosen(s, T)) = ToSet(s) \cap T
<1> DEFINE P == {i \in DOMAIN s : s[i] \in T /\ \A j \in 1..(i - 1) : s[j] # s[i]}
<1>1. DOMAIN s = 1..Len(s) /\ Len(s) \in Nat
  OBVIOUS
<1>2. P \in SUBSET (DOMAIN s)
  OBVIOUS
<1>3. \A i, j \in P : s[i] = s[j] => i = j
  <2> SUFFICES ASSUME NEW i \in P, NEW j \in P, s[i] = s[j], i # j PROVE FALSE
    OBVIOUS
  <2>1. i \in 1..Len(s) /\ j \in 1..Len(s)
    BY <1>1
  <2>2. CASE i < j
    BY <1>1, <2>1, <2>2
  <2>3. CASE j < i
    BY <1>1, <2>1, <2>3
  <2> QED
    BY <1>1, <2>1, <2>2, <2>3
<1>4. {s[i] : i \in P} = ToSet(s) \cap T
  <2>1. {s[i] : i \in P} \subseteq ToSet(s) \cap T
    BY DEF ToSet
  <2>2. ASSUME NEW x \in ToSet(s) \cap T PROVE x \in {s[i] : i \in P}
    <3> DEFINE Q == {i \in 1..Len(s) : s[i] = x}
    <3>1. Q # {} /\ Q \subseteq Nat
      BY <1>1, <2>2 DEF ToSet
    <3>2. PICK i \in Q : \A j \in Q : i <= j
      BY <3>1, Least
    <3>3. \A j \in 1..(i - 1) : j \notin Q
      BY <1>1, <3>1, <3>2
    <3>4. i \in P
      BY <1>1, <2>2, <3>2, <3>3
    <3> QED
      BY <3>2, <3>4
  <2> QED
    BY <2>1, <2>2
<1> HIDE DEF P
<1>5. /\ ToSet(Those(s, P)) = {s[i] : i \in P}
      /\ (\A i, j \in P : s[i] = s[j] => i = j) => IsInjective(Those(s, P))
  BY <1>2, ThoseAre
<1> QED
  BY <1>3, <1>4, <1>5 DEF Chosen, P

LEMMA PooledResolves ==
    ASSUME Pooled, NEW specs \in Seq(Specs), NEW denied, NEW spawn, ResolveAgentTools(specs, denied, spawn)
    PROVE  Pooled'
<1>1. PoolTypes /\ PoolBegins
  BY DEF Pooled
<1>2. UNCHANGED <<registry, pool, asked>>
  BY DEF ResolveAgentTools
<1> DEFINE main == "main" \in spawn
           filter == {n \in ToSet(pool) :
                        \/ IsMCPTool(n)
                        \/ "plan" \in spawn /\ n = "ExitPlanMode"
                        \/ n \notin {"Task", "ExitPlanMode", "AskUserQuestion"} /\ ("async" \in spawn => n \in {"Bash", "Read"})}
           offered == IF main THEN pool ELSE FilterToolsForAgent(pool, "plan" \in spawn, "async" \in spawn)
           afterDeny == Only(offered, ToSet(offered) \ denied)
           tools == ToSet(afterDeny)
           meta == IF main THEN {} ELSE {"Task", "Agent"}
           named == Only(specs, ToSet(specs) \ meta)
<1>3. agent' = IF specs = << >> THEN [NoAgent EXCEPT !.main = main, !.tools = afterDeny]
               ELSE [main    |-> main,
                     tools   |-> Chosen(named, tools),
                     valid   |-> Only(specs, meta \cup tools),
                     invalid |-> Only(named, ToSet(named) \ tools)]
  BY DEF ResolveAgentTools
<1>4. /\ offered \in Seq(PoolNames) /\ IsInjective(offered)
      /\ main \/ "Task" \notin ToSet(offered)
  <2>1. pool \in Seq(PoolNames) /\ IsInjective(pool)
    BY <1>1 DEF PoolTypes, PoolBegins
  <2>2. CASE main
    BY <2>1, <2>2
  <2>3. CASE ~main
    <3>1. offered = Only(pool, filter)
      BY <2>3 DEF FilterToolsForAgent
    <3>2. "Task" \notin filter
      BY DEF IsMCPTool
    <3> HIDE DEF filter
    <3>3. /\ Only(pool, filter) \in Seq(PoolNames) /\ IsInjective(Only(pool, filter))
          /\ ToSet(Only(pool, filter)) = ToSet(pool) \cap filter
      BY <2>1, OnlyAre
    <3> QED
      BY <3>1, <3>2, <3>3
  <2> QED
    BY <2>2, <2>3
<1> HIDE DEF offered, filter
<1>5. /\ IsInjective(afterDeny) /\ tools \subseteq ToSet(offered)
  BY <1>4, OnlyAre
<1>6. main \/ "Task" \notin tools
  BY <1>4, <1>5
<1> HIDE DEF afterDeny, tools
<1>7. named \in Seq(Specs) /\ ToSet(named) = ToSet(specs) \ meta
  <2>1. named \in Seq(Specs) /\ ToSet(named) = ToSet(specs) \cap (ToSet(specs) \ meta)
    BY OnlyAre
  <2> QED
    BY <2>1
<1>8. ToSet(Only(specs, meta \cup tools)) = ToSet(specs) \cap (meta \cup tools)
  BY OnlyAre
<1> HIDE DEF named
<1>9. IsInjective(Chosen(named, tools)) /\ ToSet(Chosen(named, tools)) = ToSet(named) \cap tools
  BY <1>7, ChosenAre
<1>10. ToSet(Only(named, ToSet(named) \ tools)) = ToSet(named) \ tools
  <2>1. ToSet(Only(named, ToSet(named) \ tools)) = ToSet(named) \cap (ToSet(named) \ tools)
    BY <1>7, OnlyAre
  <2> QED
    BY <2>1
<1>11. AgentGetsItsList'
  <2>1. CASE specs = << >>
    <3>1. /\ agent'.main = main /\ agent'.tools = afterDeny /\ agent'.valid = <<>> /\ agent'.invalid = <<>>
      BY <1>3, <2>1 DEF NoAgent
    <3>2. ToSet(<<>>) = {}
      BY DEF ToSet
    <3>3. agent'.main \/ "Task" \notin ToSet(agent'.tools)
      BY <1>6, <3>1 DEF tools
    <3>4. IsInjective(agent'.tools)
      BY <1>5, <3>1
    <3>5. ToSet(agent'.valid) \cap ToSet(agent'.invalid) = {}
      BY <3>1, <3>2
    <3> QED
      BY <3>1, <3>3, <3>4, <3>5 DEF AgentGetsItsList, ToSet, IsInjective
  <2>2. CASE specs # << >>
    <3>1. /\ agent'.main = main /\ agent'.tools = Chosen(named, tools)
          /\ agent'.valid = Only(specs, meta \cup tools)
          /\ agent'.invalid = Only(named, ToSet(named) \ tools)
      BY <1>3, <2>2
    <3>2. /\ ToSet(agent'.tools) = (ToSet(specs) \ meta) \cap tools
          /\ ToSet(agent'.valid) = ToSet(specs) \cap (meta \cup tools)
          /\ ToSet(agent'.invalid) = (ToSet(specs) \ meta) \ tools
      BY <1>7, <1>8, <1>9, <1>10, <3>1
    <3>3. agent'.main \/ "Task" \notin ToSet(agent'.tools)
      BY <1>6, <3>1, <3>2
    <3>4. IsInjective(agent'.tools)
      BY <1>9, <3>1
    <3>5. ToSet(agent'.valid) \cap ToSet(agent'.invalid) = {}
      BY <3>2
    <3>6. ToSet(agent'.tools) \cup {"Task", "Agent"} = ToSet(agent'.valid) \cup {"Task", "Agent"}
      BY <3>2
    <3> QED
      BY <3>3, <3>4, <3>5, <3>6 DEF AgentGetsItsList, ToSet, IsInjective
  <2> QED
    BY <2>1, <2>2
<1>12. PoolTypes' /\ PoolBegins'
  BY <1>1, <1>2 DEF PoolTypes, PoolBegins, Sorted, ToSet, IsInjective
<1> QED
  BY <1>11, <1>12 DEF Pooled

LEMMA PooledStep == Pooled /\ [PoolNext]_poolVars => Pooled'
<1> SUFFICES ASSUME Pooled, [PoolNext]_poolVars PROVE Pooled'
  OBVIOUS
<1>1. CASE UNCHANGED poolVars
  <2>1. UNCHANGED <<registry, pool, asked, agent>>
    BY <1>1 DEF poolVars
  <2>2. PoolTypes' /\ PoolBegins'
    BY <2>1 DEF Pooled, PoolTypes, PoolBegins, Sorted, ToSet, IsInjective
  <2>3. AgentGetsItsList'
    BY <2>1, SMTT(30) DEF Pooled, AgentGetsItsList, ToSet, IsInjective
  <2> QED
    BY <2>2, <2>3 DEF Pooled
<1>2. ASSUME NEW specs \in BoundedSeq(Specs, 2), NEW denied \in {{}, Switched},
             NEW spawn \in (SUBSET {"plan", "async"}) \cup {{"main"}}, ResolveAgentTools(specs, denied, spawn)
      PROVE  Pooled'
  <2>1. specs \in Seq(Specs)
    <3>1. PICK m \in 0..2 : specs \in [1..m -> Specs]
      BY DEF BoundedSeq, SeqOf
    <3> QED
      BY <3>1, SeqDef
  <2> QED
    BY <1>2, <2>1, PooledResolves
<1>3. ASSUME NEW rules \in SUBSET (Switched \cup {"mcp__a"}), NEW external \in SUBSET Offered,
             AssembleToolPool(rules, external)
      PROVE  Pooled'
  BY <1>3, PooledAssembles
<1>4. ASSUME NEW n \in Registrable, RegisterTool(n) \/ (n \in Switched /\ (Deny(n) \/ Undeny(n) \/ TurnOnOrOff(n)))
      PROVE  Pooled'
  BY <1>4, PooledRegistry
<1> QED
  BY <1>1, <1>2, <1>3, <1>4, PoolAssumption DEF PoolNext

LEMMA PooledStable ==
    ASSUME Pooled, Pooled'
    PROVE  /\ IsInjective(pool')
           /\ asked' = asked => \A i \in 1..Cardinality(asked) : pool'[i] = pool[i]
<1>1. PoolBegins /\ asked \in SUBSET PoolNames
  BY PoolAssumption DEF Pooled, PoolTypes, PoolNames
<1>2. Len(Sorted(asked)) = Cardinality(asked)
  BY <1>1, SortedIs
<1>3. IsInjective(pool') /\ \A i \in 1..Len(Sorted(asked')) : pool'[i] = Sorted(asked')[i]
  BY DEF Pooled, PoolBegins, Sorted, IsInjective
<1> QED
  BY <1>1, <1>2, <1>3 DEF PoolBegins

-------------------------------------------------------------------------------
(* What a pointer of a patch yields. *)
LEMMA DerefValue ==
    ASSUME NEW S, NEW p \in Pointer(S), NEW old
    PROVE  \/ p = Nil /\ Deref(p, old) = old
           \/ p # Nil /\ Deref(p, old) \in p /\ Deref(p, old) \in S
<1>1. CASE p = Nil
  BY <1>1 DEF Deref
<1>2. CASE p # Nil
  <2>1. PICK x \in S : p = {x}
    BY <1>2 DEF Pointer, Nil
  <2>2. Deref(p, old) \in p
    BY <1>2, <2>1 DEF Deref
  <2> QED
    BY <1>2, <2>1, <2>2
<1> QED
  BY <1>1, <1>2

(* Acyclic of any tasks and edges, and a set of tasks that shows that a    *)
(* task is not reached from those it refers to.                            *)
NoCycle(X, E) == \A S \in SUBSET X : S # {} => \E j \in S : E[j] \cap S = {}

Avoids(C, F, i) ==
    F[i] \subseteq C /\ (\A j \in C : F[j] \subseteq C) /\ i \notin C

(* The heart: if only the edges of i changed, and i is not reached from    *)
(* them, then tasks that had no cycle have none together with i.           *)
LEMMA NewEdgesKeepAcyclic ==
    ASSUME NEW X \in SUBSET Ids, NEW i \in Ids, NEW E, NEW F,
           NoCycle(X, E),
           \A j \in Ids \ {i} : F[j] = E[j],
           NEW C \in SUBSET Ids, Avoids(C, F, i)
    PROVE  NoCycle(X \cup {i}, F)
<1> USE DEF NoCycle, Avoids
<1> SUFFICES ASSUME NEW S \in SUBSET (X \cup {i}), S # {}
             PROVE  \E j \in S : F[j] \cap S = {}
  OBVIOUS
<1>1. CASE i \notin S
  BY <1>1
<1>2. CASE i \in S /\ F[i] \cap S = {}
  BY <1>2
<1>3. CASE i \in S /\ F[i] \cap S # {}
  <2> DEFINE T == S \cap C
  <2>1. T \in SUBSET X /\ T # {}
    BY <1>3
  <2>2. PICK j \in T : E[j] \cap T = {}
    BY <2>1
  <2>3. F[j] = E[j] /\ F[j] \subseteq C
    OBVIOUS
  <2>4. F[j] \cap S = {}
    BY <2>2, <2>3
  <2> QED
    BY <2>4
<1> QED
  BY <1>1, <1>2, <1>3

(* What the search answers if it finds no cycle. *)
LEMMA NoCycleClosedSet ==
    ASSUME NEW ex, NEW par, NEW dep, NEW i \in Ids, ~DetectCycle(ex, par, dep, i)
    PROVE  \E C \in SUBSET Ids : Avoids(C, Edges(ex, par, dep), i)
BY DEF DetectCycle, Avoids

-----------------------------------------------------------------------------
(* Type correctness. *)
LEMMA GraphTypePreserved == GraphTypeOK /\ [GraphNext]_graphVars => GraphTypeOK'
<1> SUFFICES ASSUME GraphTypeOK, [GraphNext]_graphVars
             PROVE  GraphTypeOK'
  OBVIOUS
<1> USE DEF TaskStatuses, Refs, Refuse, Accept, graph
<1>1. CASE AddRefused
  BY <1>1 DEF GraphTypeOK, AddRefused
<1>2. CASE UpdateRefused
  BY <1>2 DEF GraphTypeOK, UpdateRefused
<1>3. ASSUME NEW i \in Ids, RemoveTask(i)
      PROVE  GraphTypeOK'
  BY <1>3 DEF GraphTypeOK, RemoveTask
<1>4. ASSUME NEW i \in Ids, StopTask(i)
      PROVE  GraphTypeOK'
  BY <1>4 DEF GraphTypeOK, StopTask
<1>5. ASSUME NEW i \in Ids, NEW st \in TaskStatuses, NEW p \in Refs, NEW ds \in SUBSET Ids,
             Add(i, p, ds, st)
      PROVE  GraphTypeOK'
  BY <1>5 DEF GraphTypeOK, Add
<1>6. ASSUME NEW i \in Ids, NEW st \in TaskStatuses, NEW p \in Pointer(Refs),
             UpdateBadParent(i, p, st)
      PROVE  GraphTypeOK'
  BY <1>6 DEF GraphTypeOK, UpdateBadParent
<1>7. ASSUME NEW i \in Ids, NEW st \in TaskStatuses, NEW p \in Pointer(Refs),
             NEW ds \in Pointer(SUBSET Ids), UpdateBadDeps(i, p, ds, st)
      PROVE  GraphTypeOK'
  <2>1. Deref(p, parent[i]) \in Refs
    BY DerefValue DEF GraphTypeOK
  <2> QED
    BY <1>7, <2>1 DEF GraphTypeOK, UpdateBadDeps
<1>8. ASSUME NEW i \in Ids, NEW st \in TaskStatuses, NEW p \in Pointer(Refs),
             NEW ds \in Pointer(SUBSET Ids), Update(i, p, ds, st)
      PROVE  GraphTypeOK'
  <2>1. Deref(p, parent[i]) \in Refs
    BY DerefValue DEF GraphTypeOK
  <2>2. Deref(ds, deps[i]) \in SUBSET Ids
    BY DerefValue DEF GraphTypeOK
  <2> QED
    BY <1>8, <2>1, <2>2 DEF GraphTypeOK, Update
<1>9. CASE UNCHANGED graphVars
  BY <1>9 DEF GraphTypeOK, graphVars
<1> QED
  BY <1>1, <1>2, <1>3, <1>4, <1>5, <1>6, <1>7, <1>8, <1>9 DEF GraphNext

(* Every variable keeps its type. *)
THEOREM GraphTypeCorrect == GraphSpec => []GraphTypeOK
<1>1. GraphInit => GraphTypeOK
  BY DEF GraphInit, GraphTypeOK, TaskStatuses, Refs
<1> QED
  BY <1>1, GraphTypePreserved, PTL DEF GraphSpec

-----------------------------------------------------------------------------
(* An operation that is accepted leaves the graph without a cycle.         *)
LEMMA AddKeepsAcyclic ==
    ASSUME GraphTypeOK, Acyclic, NEW i \in Ids, NEW st \in TaskStatuses, NEW p \in Refs,
           NEW ds \in SUBSET Ids, Add(i, p, ds, st)
    PROVE  Acyclic'
<1> DEFINE F == Edges(exists', parent', deps')
<1>1. exists' = exists \cup {i}
  BY DEF Add
<1>2. \A j \in Ids \ {i} : F[j] = refers[j]
  BY DEF Add, GraphTypeOK, refers, Edges
<1>3. PICK C \in SUBSET Ids : Avoids(C, F, i)
  BY NoCycleClosedSet DEF Add
<1>4. NoCycle(exists \cup {i}, F)
  <2>1. NoCycle(exists, refers)
    BY DEF NoCycle, Acyclic
  <2> HIDE DEF F
  <2> QED
    BY <1>2, <1>3, <2>1, NewEdgesKeepAcyclic DEF GraphTypeOK
<1> QED
  BY <1>1, <1>4 DEF NoCycle, Acyclic, refers

LEMMA UpdateKeepsAcyclic ==
    ASSUME GraphTypeOK, Acyclic, NEW i \in Ids, NEW st \in TaskStatuses, NEW p \in Pointer(Refs),
           NEW ds \in Pointer(SUBSET Ids), Update(i, p, ds, st), outcome' = "accepted"
    PROVE  Acyclic'
<1> DEFINE F == Edges(exists', parent', deps')
<1>0. Update(i, p, ds, st) /\ outcome' # "refused"
  OBVIOUS
<1>1. /\ i \in exists /\ exists' = exists
      /\ parent' = [parent EXCEPT ![i] = Deref(p, @)]
      /\ deps' = [deps EXCEPT ![i] = Deref(ds, @)]
      /\ ~DetectCycle(exists', parent', deps', i)
  BY <1>0 DEF Update, Refuse
<1>2. \A j \in Ids \ {i} : F[j] = refers[j]
  BY <1>1 DEF GraphTypeOK, refers, Edges
<1>3. PICK C \in SUBSET Ids : Avoids(C, F, i)
  BY <1>1, NoCycleClosedSet
<1>4. NoCycle(exists \cup {i}, F)
  <2>1. NoCycle(exists, refers)
    BY DEF NoCycle, Acyclic
  <2> HIDE DEF F
  <2> QED
    BY <1>2, <1>3, <2>1, NewEdgesKeepAcyclic DEF GraphTypeOK
<1> QED
  BY <1>1, <1>4 DEF NoCycle, Acyclic, refers

(* Whatever happened before, an operation that returns no error closes no  *)
(* cycle: the search from the changed task alone finds every new one.      *)
THEOREM AcceptedKeepsAcyclicAlways == GraphSpec => AcceptedKeepsAcyclic
<1>1. GraphTypeOK /\ [GraphNext]_graphVars => [outcome' = "accepted" /\ Acyclic => Acyclic']_graphVars
  <2> SUFFICES ASSUME GraphTypeOK, GraphNext, outcome' = "accepted", Acyclic
               PROVE  Acyclic'
    OBVIOUS
  <2>1. ~AddRefused /\ ~UpdateRefused
    BY DEF AddRefused, UpdateRefused, Refuse
  <2>2. ASSUME NEW i \in Ids, RemoveTask(i)
        PROVE  Acyclic'
    <3>1. exists' \subseteq exists /\ i \notin exists'
      BY <2>2 DEF RemoveTask
    <3>2. \A j \in exists' : refers'[j] = refers[j]
      BY <2>2, <3>1 DEF RemoveTask, GraphTypeOK, refers, Edges
    <3> QED
      BY <3>1, <3>2 DEF Acyclic
  <2>3. ASSUME NEW i \in Ids, StopTask(i)
        PROVE  Acyclic'
    BY <2>3 DEF StopTask, Acyclic, refers
  <2>4. ASSUME NEW i \in Ids, NEW st \in TaskStatuses, NEW p \in Pointer(Refs),
               NEW ds \in Pointer(SUBSET Ids)
        PROVE  ~UpdateBadParent(i, p, st) /\ ~UpdateBadDeps(i, p, ds, st)
    BY DEF UpdateBadParent, UpdateBadDeps, Refuse
  <2>5. \A i \in Ids, st \in TaskStatuses, p \in Pointer(Refs) : ~UpdateBadParent(i, p, st)
    BY DEF UpdateBadParent, Refuse
  <2> QED
    BY <2>1, <2>2, <2>3, <2>4, <2>5, AddKeepsAcyclic, UpdateKeepsAcyclic DEF GraphNext
<1>2. GraphSpec => []GraphTypeOK
  BY GraphTypeCorrect
<1> QED
  BY <1>1, <1>2, PTL DEF GraphSpec, AcceptedKeepsAcyclic

-----------------------------------------------------------------------------
(* The edges an operation adds lead to tasks, even when it fails half-way: *)
(* only a removal leaves an edge to a task that does not exist.            *)
LEMMA NextKeepsEdges ==
    ASSUME GraphTypeOK, GraphNext
    PROVE  \A i, j \in Ids : j \in refers'[i] \ exists' => j \in refers[i]
<1> SUFFICES ASSUME NEW a \in Ids, NEW b \in Ids, b \in refers'[a], b \notin exists'
             PROVE  b \in refers[a]
  OBVIOUS
<1>0. /\ a \in exists'
      /\ b \in deps'[a] \/ (b = parent'[a] /\ b # NoTask)
  BY DEF refers, Edges
<1>1. ASSUME a \in exists, parent'[a] = parent[a], deps'[a] = deps[a]
      PROVE  b \in refers[a]
  BY <1>0, <1>1 DEF refers, Edges
<1>2. CASE AddRefused \/ UpdateRefused
  BY <1>0, <1>1, <1>2 DEF AddRefused, UpdateRefused, graph
<1>3. ASSUME NEW i \in Ids, RemoveTask(i) \/ StopTask(i)
      PROVE  b \in refers[a]
  BY <1>0, <1>1, <1>3 DEF RemoveTask, StopTask, GraphTypeOK
<1>4. ASSUME NEW i \in Ids, NEW st \in TaskStatuses, NEW p \in Refs, NEW ds \in SUBSET Ids,
             Add(i, p, ds, st)
      PROVE  b \in refers[a]
  <2>1. CASE a = i
    BY <1>0, <1>4, <2>1 DEF Add, Known, GraphTypeOK
  <2>2. CASE a # i
    BY <1>0, <1>1, <1>4, <2>2 DEF Add, GraphTypeOK
  <2> QED
    BY <2>1, <2>2
<1>5. ASSUME NEW i \in Ids, NEW st \in TaskStatuses, NEW p \in Pointer(Refs),
             UpdateBadParent(i, p, st)
      PROVE  b \in refers[a]
  BY <1>0, <1>1, <1>5 DEF UpdateBadParent
<1>6. ASSUME NEW i \in Ids, NEW p \in Pointer(Refs), GoodParent(i, p), i \in exists,
             exists' = exists, parent' = [parent EXCEPT ![i] = Deref(p, @)], b = parent'[a],
             b # NoTask
      PROVE  b = parent[a]
  <2>1. CASE a # i
    BY <1>6, <2>1 DEF GraphTypeOK
  <2>2. CASE a = i
    <3>1. b = Deref(p, parent[i])
      BY <1>6, <2>2 DEF GraphTypeOK
    <3>2. Deref(p, parent[i]) \in p => b \in exists
      BY <1>6, <3>1 DEF GoodParent
    <3> QED
      BY <1>6, <2>2, <3>1, <3>2, DerefValue
  <2> QED
    BY <2>1, <2>2
<1>7. ASSUME NEW i \in Ids, NEW st \in TaskStatuses, NEW p \in Pointer(Refs),
             NEW ds \in Pointer(SUBSET Ids), UpdateBadDeps(i, p, ds, st)
      PROVE  b \in refers[a]
  <2>1. b \in deps[a] \/ (b = parent[a] /\ b # NoTask)
    BY <1>0, <1>6, <1>7 DEF UpdateBadDeps
  <2> QED
    BY <1>0, <1>7, <2>1 DEF UpdateBadDeps, refers, Edges
<1>8. ASSUME NEW i \in Ids, NEW st \in TaskStatuses, NEW p \in Pointer(Refs),
             NEW ds \in Pointer(SUBSET Ids), Update(i, p, ds, st)
      PROVE  b \in refers[a]
  <2>1. CASE UNCHANGED graph
    BY <1>0, <1>1, <2>1 DEF graph
  <2>2. CASE /\ parent' = [parent EXCEPT ![i] = Deref(p, @)]
             /\ deps' = [deps EXCEPT ![i] = Deref(ds, @)]
             /\ exists' = exists
    <3>1. CASE b \in deps'[a]
      <4>1. a # i => b \in deps[a]
        BY <2>2, <3>1 DEF GraphTypeOK
      <4>2. a = i => b \in Deref(ds, deps[i])
        BY <2>2, <3>1 DEF GraphTypeOK
      <4>3. Deref(ds, deps[i]) \in ds => Deref(ds, deps[i]) \subseteq exists
        BY <1>8 DEF Update, GoodDeps
      <4>4. Deref(ds, deps[i]) = deps[i] \/ Deref(ds, deps[i]) \in ds
        BY DerefValue
      <4>5. b \in deps[a]
        BY <2>2, <4>1, <4>2, <4>3, <4>4
      <4> QED
        BY <1>0, <2>2, <4>5 DEF refers, Edges
    <3>2. CASE b = parent'[a] /\ b # NoTask
      <4>1. b = parent[a]
        BY <1>6, <1>8, <2>2, <3>2 DEF Update
      <4> QED
        BY <1>0, <2>2, <3>2, <4>1 DEF refers, Edges
    <3> QED
      BY <1>0, <3>1, <3>2
  <2> QED
    BY <1>8, <2>1, <2>2 DEF Update
<1> QED
  BY <1>2, <1>3, <1>4, <1>5, <1>7, <1>8 DEF GraphNext

(* A task comes to refer to one that does not exist only by its removal.   *)
THEOREM DanglingOnlyByRemoveAlways == GraphSpec => DanglingOnlyByRemove
<1>1. GraphTypeOK /\ [GraphNext]_graphVars
          => [\A i, j \in Ids : j \in refers'[i] \ exists' => j \in refers[i]]_graphVars
  BY NextKeepsEdges
<1>2. GraphSpec => []GraphTypeOK
  BY GraphTypeCorrect
<1> QED
  BY <1>1, <1>2, PTL DEF GraphSpec, DanglingOnlyByRemove

(* What an operation keeps of the graph, for any set of tasks. *)
THEOREM GraphKeptAlways == GraphSpec => GraphKept
  BY AcceptedKeepsAcyclicAlways, DanglingOnlyByRemoveAlways DEF GraphKept

-------------------------------------------------------------------------------
USE BackgroundJobsAssumption

(* A caller that saw done closed did so after the outcome was recorded;    *)
(* nothing is written after that, so its snapshot stays whole.             *)
SawTheEnd == \A c \in Callers : pc[c] \in {"ended", "final"} => runner = "done"

JobsInv == JobsTypeOK /\ NothingSkipped /\ SawTheEnd /\ WaitedIsFinal

LEMMA JobsInvInit == JobsInit => JobsInv
<1> SUFFICES ASSUME JobsInit
             PROVE  JobsInv
  OBVIOUS
<1>1. JobsTypeOK
  <2>1. registered \in BOOLEAN /\ failed \in BOOLEAN
    BY DEF JobsInit
  <2>2. cancelled \in BOOLEAN /\ truncated \in BOOLEAN
    BY DEF JobsInit
  <2> QED
    BY <2>1, <2>2 DEF JobsInit, JobsTypeOK, JobStatuses, RunnerLabels, CallerLabels
<1>2. NothingSkipped
  BY DEF JobsInit, NothingSkipped
<1>3. SawTheEnd /\ WaitedIsFinal
  BY DEF JobsInit, SawTheEnd, WaitedIsFinal
<1> QED
  BY <1>1, <1>2, <1>3 DEF JobsInv

-----------------------------------------------------------------------------
(* The job's own steps and Remove: the callers do not move, and nothing is *)
(* written once the job is done.                                           *)
LEMMA JobPreserves == JobsInv /\ (Job \/ RemoveJob) => JobsInv'
<1> SUFFICES ASSUME JobsInv, Job \/ RemoveJob
             PROVE  JobsInv'
  OBVIOUS
<1>1. UNCHANGED <<cursor, pc, snap, read>>
  BY DEF Job, StartJob, Write, Return, Record, Done, RemoveJob
<1>2. runner = "done" => runner' = "done" /\ UNCHANGED <<written, jobStatus>>
  BY DEF Job, StartJob, Write, Return, Record, Done, RemoveJob
<1>3. JobsTypeOK'
  <2>1. CASE StartJob
    BY <2>1 DEF JobsInv, JobsTypeOK, JobStatuses, RunnerLabels, StartJob
  <2>2. CASE Write
    <3>0. written \in 0..Cap /\ cursor \in 0..written /\ snap \in [Callers -> 0..written]
      BY DEF JobsInv, JobsTypeOK
    <3>1. written' \in 0..Cap /\ written <= written'
      BY <2>2, <3>0 DEF Write
    <3>2. cursor' \in 0..written' /\ snap' \in [Callers -> 0..written']
      BY <1>1, <3>0, <3>1
    <3>3. truncated' \in BOOLEAN
      BY <2>2 DEF JobsInv, JobsTypeOK, Write
    <3> QED
      BY <2>2, <3>1, <3>2, <3>3 DEF JobsInv, JobsTypeOK, Write
  <2>3. CASE Return
    BY <2>3 DEF JobsInv, JobsTypeOK, JobStatuses, RunnerLabels, Return
  <2>4. CASE Record
    BY <2>4 DEF JobsInv, JobsTypeOK, JobStatuses, RunnerLabels, Record
  <2>5. CASE Done
    BY <2>5 DEF JobsInv, JobsTypeOK, JobStatuses, RunnerLabels, Done
  <2>6. CASE RemoveJob
    BY <2>6 DEF JobsInv, JobsTypeOK, JobStatuses, RunnerLabels, RemoveJob
  <2> QED
    BY <2>1, <2>2, <2>3, <2>4, <2>5, <2>6 DEF Job
<1>4. NothingSkipped'
  BY <1>1 DEF JobsInv, NothingSkipped
<1>5. SawTheEnd'
  BY <1>1, <1>2 DEF JobsInv, SawTheEnd
<1>6. WaitedIsFinal'
  <2> SUFFICES ASSUME NEW c \in Callers, pc'[c] = "final"
               PROVE  jobStatus' \notin {"none", "running"} /\ snap'[c] = written'
    BY DEF WaitedIsFinal
  <2>1. runner = "done"
    BY <1>1 DEF JobsInv, SawTheEnd
  <2> QED
    BY <1>1, <1>2, <2>1 DEF JobsInv, WaitedIsFinal
<1> QED
  BY <1>3, <1>4, <1>5, <1>6 DEF JobsInv

(* A caller's steps leave the job alone, but for a Stop, which cancels it. *)
LEMMA CallPreserves ==
    ASSUME JobsInv, NEW c \in Callers, Call(c)
    PROVE  JobsInv'
<1> USE DEF Goto, Snapshot, jobState
<1>1. UNCHANGED <<registered, runner, failed, written, truncated, jobStatus>>
  BY DEF Call, ReadSnapshot, ReadAdvance, ReadFull, StopJob, WaitForTerminal, SeeDone, GiveUp,
         GetSnapshot, GetNothing, GetStatus
<1>2. JobsTypeOK'
  <2>0. ASSUME Snapshot(c)
        PROVE  snap' \in [Callers -> 0..written]
    <3>1. snap \in [Callers -> 0..written] /\ written \in 0..written
      BY DEF JobsInv, JobsTypeOK
    <3> QED
      BY <2>0, <3>1
  <2>1. CASE ReadSnapshot(c)
    <3>1. snap' \in [Callers -> 0..written]
      BY <2>0, <2>1 DEF ReadSnapshot
    <3>2. pc' \in [Callers -> CallerLabels]
      BY <2>1 DEF JobsInv, JobsTypeOK, CallerLabels, ReadSnapshot
    <3> QED
      BY <2>1, <3>1, <3>2 DEF JobsInv, JobsTypeOK, ReadSnapshot
  <2>2. CASE ReadAdvance(c)
    <3>1. cursor' \in 0..written
      BY <2>2 DEF JobsInv, JobsTypeOK, ReadAdvance
    <3>2. read' \subseteq 1..Cap
      <4>1. snap[c] \in 0..Cap /\ cursor \in Int /\ read \subseteq 1..Cap
        BY DEF JobsInv, JobsTypeOK
      <4>2. 1..snap[c] \subseteq 1..Cap
        BY <4>1
      <4>3. read' \subseteq read \cup 1..snap[c]
        BY <2>2 DEF ReadAdvance
      <4> QED
        BY <4>1, <4>2, <4>3
    <3> QED
      BY <2>2, <3>1, <3>2 DEF JobsInv, JobsTypeOK, CallerLabels, ReadAdvance
  <2>3. CASE ReadFull(c)
    BY <2>3 DEF JobsInv, JobsTypeOK, CallerLabels, ReadFull
  <2>4. CASE StopJob(c)
    BY <2>4 DEF JobsInv, JobsTypeOK, CallerLabels, StopJob
  <2>5. CASE WaitForTerminal(c)
    BY <2>5 DEF JobsInv, JobsTypeOK, CallerLabels, WaitForTerminal
  <2>6. CASE SeeDone(c)
    BY <2>6 DEF JobsInv, JobsTypeOK, CallerLabels, SeeDone
  <2>7. CASE GiveUp(c)
    BY <2>7 DEF JobsInv, JobsTypeOK, CallerLabels, GiveUp
  <2>8. CASE GetSnapshot(c)
    <3>1. snap' \in [Callers -> 0..written]
      BY <2>0, <2>8 DEF GetSnapshot
    <3>2. pc' \in [Callers -> CallerLabels]
      BY <2>8 DEF JobsInv, JobsTypeOK, CallerLabels, GetSnapshot
    <3> QED
      BY <2>8, <3>1, <3>2 DEF JobsInv, JobsTypeOK, GetSnapshot
  <2>9. CASE GetNothing(c)
    BY <2>9 DEF JobsInv, JobsTypeOK, CallerLabels, GetNothing
  <2>10. CASE GetStatus(c)
    BY <2>10 DEF JobsInv, JobsTypeOK, CallerLabels, GetStatus
  <2> QED
    BY <2>1, <2>2, <2>3, <2>4, <2>5, <2>6, <2>7, <2>8, <2>9, <2>10 DEF Call
<1>3. NothingSkipped'
  <2>1. CASE ReadAdvance(c)
    <3>1. cursor \in Nat /\ snap[c] \in Nat
      BY DEF JobsInv, JobsTypeOK
    <3>2. 1..cursor \subseteq read
      BY DEF JobsInv, NothingSkipped
    <3>3. ASSUME NEW k \in 1..snap[c]
          PROVE  k \in read'
      BY <2>1, <3>1, <3>2 DEF ReadAdvance
    <3> QED
      BY <2>1, <3>3 DEF ReadAdvance, NothingSkipped
  <2>2. CASE ~ReadAdvance(c)
    BY <2>2 DEF JobsInv, NothingSkipped, Call, ReadSnapshot, ReadFull, StopJob, WaitForTerminal,
                SeeDone, GiveUp, GetSnapshot, GetNothing, GetStatus
  <2> QED
    BY <2>1, <2>2
<1>4. SawTheEnd'
  <2> SUFFICES ASSUME NEW d \in Callers, pc'[d] \in {"ended", "final"}
               PROVE  runner' = "done"
    BY DEF SawTheEnd
  <2>1. runner = "done" \/ pc[d] \notin {"ended", "final"}
    BY DEF JobsInv, SawTheEnd
  <2> QED
    BY <1>1, <2>1 DEF JobsInv, JobsTypeOK, Call, ReadSnapshot, ReadAdvance, ReadFull, StopJob,
                      WaitForTerminal, SeeDone, GiveUp, GetSnapshot, GetNothing, GetStatus
<1>5. WaitedIsFinal'
  <2> SUFFICES ASSUME NEW d \in Callers, pc'[d] = "final"
               PROVE  jobStatus \notin {"none", "running"} /\ snap'[d] = written
    BY <1>1 DEF WaitedIsFinal
  <2>1. CASE pc[d] = "final" /\ snap'[d] = snap[d]
    BY <2>1 DEF JobsInv, WaitedIsFinal
  <2>2. CASE pc[d] = "ended" /\ snap'[d] = written
    BY <2>2 DEF JobsInv, SawTheEnd, JobsTypeOK
  <2>3. (pc[d] = "final" /\ snap'[d] = snap[d]) \/ (pc[d] = "ended" /\ snap'[d] = written)
    BY DEF JobsInv, JobsTypeOK, Call, ReadSnapshot, ReadAdvance, ReadFull, StopJob, WaitForTerminal,
           SeeDone, GiveUp, GetSnapshot, GetNothing, GetStatus
  <2> QED
    BY <2>1, <2>2, <2>3
<1> QED
  BY <1>2, <1>3, <1>4, <1>5 DEF JobsInv

LEMMA JobsInvPreserved == JobsInv /\ [JobsNext]_jobsVars => JobsInv'
<1> SUFFICES ASSUME JobsInv, [JobsNext]_jobsVars
             PROVE  JobsInv'
  OBVIOUS
<1>1. CASE UNCHANGED jobsVars
  BY <1>1 DEF JobsInv, JobsTypeOK, NothingSkipped, SawTheEnd, WaitedIsFinal, jobsVars
<1> QED
  BY <1>1, JobPreserves, CallPreserves DEF JobsNext

LEMMA JobsInvAlways == JobsSpec => []JobsInv
BY JobsInvInit, JobsInvPreserved, PTL DEF JobsSpec

-----------------------------------------------------------------------------
(* Every variable keeps its type, the buffer its limit, and the status is  *)
(* terminal exactly once the outcome is recorded.                          *)
THEOREM JobsTypeCorrect == JobsSpec => []JobsTypeOK
<1>1. JobsInv => JobsTypeOK
  BY DEF JobsInv
<1> QED
  BY <1>1, JobsInvAlways, PTL

(* Incremental reads that overlap never skip output.                       *)
THEOREM NothingSkippedAlways == JobsSpec => []NothingSkipped
<1>1. JobsInv => NothingSkipped
  BY DEF JobsInv
<1> QED
  BY <1>1, JobsInvAlways, PTL

(* A caller that waited for the end is told the final status and the whole *)
(* output.                                                                 *)
THEOREM WaitedIsFinalAlways == JobsSpec => []WaitedIsFinal
<1>1. JobsInv => WaitedIsFinal
  BY DEF JobsInv
<1> QED
  BY <1>1, JobsInvAlways, PTL

(* What readers and waiters are told, for any number of callers. *)
THEOREM OutputToldAlways == JobsSpec => []OutputTold
<1>1. NothingSkipped /\ WaitedIsFinal => OutputTold
  BY DEF OutputTold
<1> QED
  BY <1>1, NothingSkippedAlways, WaitedIsFinalAlways, PTL

-------------------------------------------------------------------------------
(* Whoever moves stays the one, and the others stay where they are.        *)
LEMMA OneToolMoves ==
    ASSUME [Next \/ (Stopped /\ UNCHANGED vars)]_vars
    PROVE  /\ focus' = focus
           /\ [OrchestrationNext]_orchestrationVars
           /\ focus = "hooks" => [HooksNext]_hooksVars
           /\ focus = "schemas" => [SchemasNext]_schemaVars
           /\ focus = "sessionTools" => [SessionToolsNext]_sessionToolVars
           /\ [PoolNext]_poolVars
           /\ [RegistryNext]_registryVars
BY DEF Next, Others, vars

(* What tools are offered, asked and answered: an agent gets the tools its *)
(* list names, a call's hooks are those registered when it began, the      *)
(* schemas of a session are few, every call of a message is answered once, *)
(* in order, and the host knows the session's mode (orchestration.go,      *)
(* hooks.go, api_schema.go, resolve.go, planmode.go).                      *)
THEOREM CallsServedAlways == Spec => []CallsServed
<1> DEFINE Kept == /\ focus = "orchestration" => Orchestrated
                   /\ focus = "hooks" => Hooked
                   /\ focus = "schemas" => Based
                   /\ focus = "sessionTools" => Moded
                   /\ Pooled
<1>1. Init => Kept
  BY OrchestratedInit, HookedInit, BasedInit, ModedInit, PooledInit DEF Init
<1>2. Kept /\ [Next \/ (Stopped /\ UNCHANGED vars)]_vars => Kept'
  <2> SUFFICES ASSUME Kept, [Next \/ (Stopped /\ UNCHANGED vars)]_vars PROVE Kept'
    OBVIOUS
  <2>1. /\ focus' = focus
        /\ [OrchestrationNext]_orchestrationVars
        /\ focus = "hooks" => [HooksNext]_hooksVars
        /\ focus = "schemas" => [SchemasNext]_schemaVars
        /\ focus = "sessionTools" => [SessionToolsNext]_sessionToolVars
        /\ [PoolNext]_poolVars
    BY OneToolMoves
  <2>2. focus = "orchestration" => Orchestrated'
    BY <2>1, OrchestratedStep
  <2>3. focus = "hooks" => Hooked'
    BY <2>1, HookedStep
  <2>4. focus = "schemas" => Based'
    BY <2>1, BasedStep
  <2>5. focus = "sessionTools" => Moded'
    BY <2>1, ModedStep
  <2>6. Pooled'
    BY <2>1, PooledStep
  <2> QED
    BY <2>1, <2>2, <2>3, <2>4, <2>5, <2>6
<1>3. Kept => CallsServed
  <2>1. Pooled => AgentGetsItsList
    BY DEF Pooled
  <2> QED
    BY <2>1, OrchestratedAnswers, HookedAsked, BasedFew, ModedKnows DEF CallsServed
<1> QED
  BY <1>1, <1>2, <1>3, PTL DEF Spec

(* RunTools implements ToolCalls: whichever calls are refused, fail or are *)
(* cancelled, for messages of any length, a call begins, ends and is       *)
(* answered as the promise allows (orchestration.go).                      *)
THEOREM CallsKeepPromiseAlways == Spec => CallsKeepPromise
<1> DEFINE Bounded == Len(callKind) <= MaxCalls
<1>1. Init => Orchestrated /\ Bounded /\ Promised!Init
  <2> SUFFICES ASSUME OrchestrationInit PROVE Orchestrated /\ Bounded /\ Promised!Init
    BY DEF Init
  <2>1. Bounded
    BY CallsAssumption DEF OrchestrationInit, SeqOf
  <2>2. RunningCalls = {} /\ OverCalls = {} /\ results = <<>>
    BY DEF OrchestrationInit, RunningCalls, OverCalls, ToSet
  <2>3. {i \in DOMAIN callKind : IsSafe(i)} \in SUBSET (1..MaxCalls)
    BY <2>1, OrchestratedInit, CallsAssumption DEF Orchestrated, RunTypes
  <2> QED
    BY <2>1, <2>2, <2>3, OrchestratedInit DEF Promised!Init, Promised!Calls
<1>2. Orchestrated /\ Bounded /\ [Next \/ (Stopped /\ UNCHANGED vars)]_vars
        => (Orchestrated /\ Bounded)' /\ [Promised!Next]_promised
  <2> SUFFICES ASSUME Orchestrated, Bounded, [OrchestrationNext]_orchestrationVars
               PROVE  (Orchestrated /\ Bounded)' /\ [Promised!Next]_promised
    BY OneToolMoves
  <2>1. callKind' = callKind
    BY DEF OrchestrationNext, NextGroup, StopBeforeGroup, ReturnResults, CollectGroup, Interrupt,
           StartCall, SkipCall, EndCall, orchestrationVars
  <2> QED
    BY <2>1, OrchestratedStep, OrchestrationPromised
<1> QED
  BY <1>1, <1>2, PTL DEF Spec, CallsKeepPromise, Promised!Spec, promised

(* What no step breaks: a provider is lost to its registrants alone, the   *)
(* tools a prompt begins with do not move when servers come and go, and    *)
(* the calls of a message run and are answered as ToolCalls allows         *)
(* (llmprovider/registry.go, tools/assembly.go, tools/orchestration.go).   *)
THEOREM PromisesKeptAlways == Spec => PromisesKept
<1>1. Init => Pooled
  BY PooledInit DEF Init
<1>2. Pooled /\ [Next \/ (Stopped /\ UNCHANGED vars)]_vars => Pooled'
  BY OneToolMoves, PooledStep
<1>3. Pooled /\ Pooled' /\ [Next \/ (Stopped /\ UNCHANGED vars)]_vars
        => [ /\ IsInjective(pool')
             /\ asked' = asked =>
                  \A i \in 1..Cardinality(asked) : pool'[i] = pool[i] ]_poolVars
  BY PooledStable
<1>4. Spec => PrefixStable
  BY <1>1, <1>2, <1>3, PTL DEF Spec, PrefixStable
<1>5. Spec => RegistrySpec
  <2>1. Init => RegistryInit
    BY DEF Init
  <2>2. [Next \/ (Stopped /\ UNCHANGED vars)]_vars => [RegistryNext]_registryVars
    BY OneToolMoves
  <2> QED
    BY <2>1, <2>2, PTL DEF Spec, RegistrySpec
<1> QED
  BY <1>4, <1>5, LostOnlyToARegistrantAlways, CallsKeepPromiseAlways, PTL DEF PromisesKept

(* ---------------------- the sessions of the browser --------------------- *)

(* A sequence without one of its elements. *)
LEMMA RemoveAtElements ==
    ASSUME NEW S, NEW s \in Seq(S), NEW i \in DOMAIN s
    PROVE  /\ RemoveAt(s, i) \in Seq(S)
           /\ Len(RemoveAt(s, i)) = Len(s) - 1
           /\ \A j \in 1..(Len(s) - 1) : RemoveAt(s, i)[j] = IF j < i THEN s[j] ELSE s[j + 1]
<1>1. i \in 1..Len(s) /\ Len(s) \in Nat
  OBVIOUS
<1> DEFINE a == SubSeq(s, 1, i - 1)
           b == SubSeq(s, i + 1, Len(s))
<1>2. a \in Seq(S) /\ Len(a) = i - 1 /\ \A j \in 1..(i - 1) : a[j] = s[j]
  BY <1>1
<1>3. b \in Seq(S) /\ Len(b) = Len(s) - i /\ \A j \in 1..(Len(s) - i) : b[j] = s[i + j]
  BY <1>1
<1>4. RemoveAt(s, i) = a \o b
  BY DEF RemoveAt
<1> HIDE DEF a, b
<1>5. a \o b \in Seq(S) /\ Len(a \o b) = Len(s) - 1
  BY <1>1, <1>2, <1>3
<1>6. \A j \in 1..(Len(s) - 1) : (a \o b)[j] = IF j < i THEN s[j] ELSE s[j + 1]
  <2> SUFFICES ASSUME NEW j \in 1..(Len(s) - 1)
               PROVE  (a \o b)[j] = IF j < i THEN s[j] ELSE s[j + 1]
    OBVIOUS
  <2>1. CASE j < i
    BY <1>1, <1>2, <1>3, <2>1
  <2>2. CASE ~(j < i)
    <3>1. (a \o b)[j] = b[j - (i - 1)]
      BY <1>1, <1>2, <1>3, <2>2
    <3>2. j - (i - 1) \in 1..(Len(s) - i) /\ i + (j - (i - 1)) = j + 1
      BY <1>1, <2>2
    <3> QED
      BY <1>3, <2>2, <3>1, <3>2
  <2> QED
    BY <2>1, <2>2
<1> QED
  BY <1>4, <1>5, <1>6

LEMMA RemoveAtInjective ==
    ASSUME NEW S, NEW s \in Seq(S), IsInjective(s), NEW i \in DOMAIN s
    PROVE  /\ IsInjective(RemoveAt(s, i))
           /\ ToSet(RemoveAt(s, i)) = ToSet(s) \ {s[i]}
<1> DEFINE r == RemoveAt(s, i)
<1>1. i \in 1..Len(s) /\ Len(s) \in Nat /\ DOMAIN s = 1..Len(s)
  OBVIOUS
<1>2. r \in Seq(S) /\ Len(r) = Len(s) - 1
      /\ \A j \in 1..(Len(s) - 1) : r[j] = IF j < i THEN s[j] ELSE s[j + 1]
  BY RemoveAtElements
<1> HIDE DEF r
<1>3. DOMAIN r = 1..(Len(s) - 1)
  BY <1>1, <1>2
<1>4. \A j, k \in 1..Len(s) : s[j] = s[k] => j = k
  BY <1>1 DEF IsInjective
<1>5. IsInjective(r)
  BY <1>1, <1>2, <1>3, <1>4 DEF IsInjective
<1>6. \A j \in DOMAIN r : r[j] \in ToSet(s) /\ r[j] # s[i]
  BY <1>1, <1>2, <1>3, <1>4 DEF ToSet
<1>7. ASSUME NEW k \in 1..Len(s), k # i PROVE \E j \in DOMAIN r : r[j] = s[k]
  <2>1. CASE k < i
    <3>1. k \in DOMAIN r /\ r[k] = s[k]
      BY <1>1, <1>2, <1>3, <2>1
    <3> QED
      BY <3>1
  <2>2. CASE k > i
    <3>1. k - 1 \in 1..(Len(s) - 1) /\ ~(k - 1 < i) /\ (k - 1) + 1 = k
      BY <1>1, <2>2
    <3>2. k - 1 \in DOMAIN r /\ r[k - 1] = s[k]
      BY <1>2, <1>3, <3>1
    <3> QED
      BY <3>2
  <2> QED
    BY <1>1, <1>7, <2>1, <2>2
<1>8. ToSet(r) = ToSet(s) \ {s[i]}
  BY <1>1, <1>6, <1>7 DEF ToSet
<1> QED
  BY <1>5, <1>8 DEF r

LEMMA AppendElements ==
    ASSUME NEW S, NEW s \in Seq(S), NEW x \in S
    PROVE  /\ Append(s, x) \in Seq(S) /\ Len(Append(s, x)) = Len(s) + 1
           /\ ToSet(Append(s, x)) = ToSet(s) \cup {x}
           /\ IsInjective(s) /\ x \notin ToSet(s) => IsInjective(Append(s, x))
<1> DEFINE r == Append(s, x)
<1>1. r \in Seq(S) /\ Len(r) = Len(s) + 1 /\ Len(s) \in Nat /\ r[Len(s) + 1] = x
      /\ \A j \in 1..Len(s) : r[j] = s[j]
  OBVIOUS
<1> HIDE DEF r
<1>2. DOMAIN r = 1..(Len(s) + 1) /\ DOMAIN s = 1..Len(s)
  BY <1>1
<1>3. ToSet(r) = ToSet(s) \cup {x}
  <2>1. \A j \in DOMAIN r : r[j] \in ToSet(s) \cup {x}
    BY <1>1, <1>2 DEF ToSet
  <2>2. \A j \in DOMAIN s : j \in DOMAIN r /\ r[j] = s[j]
    BY <1>1, <1>2
  <2>3. Len(s) + 1 \in DOMAIN r /\ r[Len(s) + 1] = x
    BY <1>1, <1>2
  <2> QED
    BY <2>1, <2>2, <2>3 DEF ToSet
<1>4. ASSUME IsInjective(s), x \notin ToSet(s) PROVE IsInjective(r)
  <2>1. \A j \in 1..Len(s) : s[j] # x
    BY <1>2, <1>4 DEF ToSet
  <2>2. \A j, k \in 1..Len(s) : s[j] = s[k] => j = k
    BY <1>2, <1>4 DEF IsInjective
  <2> SUFFICES ASSUME NEW j \in DOMAIN r, NEW k \in DOMAIN r, r[j] = r[k] PROVE j = k
    BY DEF IsInjective
  <2> QED
    BY <1>1, <1>2, <2>1, <2>2
<1> QED
  BY <1>1, <1>3, <1>4 DEF r

-----------------------------------------------------------------------------
(* The calls that hold a browser outside of the table, and what the sweep  *)
(* holds.                                                                  *)
Holds(c) == client[c].step \in {"connecting", "closing"}
ToSweep == IF sweep.step = "closing" THEN sweep.sessions ELSE {}

CallSteps == {"idle", "launching", "connecting", "using", "closing"}
CallsTyped ==
    /\ client \in [Clients -> [step : CallSteps, session : Launched \cup {0}]]
    /\ \A c \in Clients : client[c].step \notin {"idle", "launching"} => client[c].session \in Launched

ManagerTypes ==
    /\ browsers \in Seq({"running", "closed"})
    /\ table \in Seq(Launched)
    /\ idle \subseteq InTable /\ asking \subseteq Launched /\ strays \subseteq Launched
    /\ CallsTyped
    /\ sweep \in [step : {"waiting", "collected", "closing"}, sessions : SUBSET Launched]

(* Each running browser but the strays has one holder, and no other has    *)
(* any.                                                                    *)
CallsHold ==
    \A c \in Clients : Holds(c) =>
       /\ browsers[client[c].session] = "running" /\ client[c].session \notin strays
       /\ client[c].session \notin InTable /\ client[c].session \notin ToSweep
OneCallHolds ==
    \A c, d \in Clients : Holds(c) /\ Holds(d) /\ client[c].session = client[d].session => c = d
TableHolds == \A s \in InTable : browsers[s] = "running" /\ s \notin strays /\ s \notin ToSweep
SweepHolds == \A s \in ToSweep : browsers[s] = "running" /\ s \notin strays
HeldByOne == CallsHold /\ OneCallHolds /\ TableHolds /\ SweepHolds

RunningIsHeld ==
    \A s \in Launched \ strays : browsers[s] = "running" =>
       s \in InTable \/ s \in ToSweep \/ \E c \in Clients : Holds(c) /\ client[c].session = s

OneHolder == IsInjective(table) /\ HeldByOne /\ RunningIsHeld

Creating == At("launching") \cup At("connecting")

Managed == ManagerTypes /\ OneHolder /\ LimitByRaceOnly

LEMMA ManagedInit == ManagerInit => Managed
<1> SUFFICES ASSUME ManagerInit PROVE Managed
  OBVIOUS
<1>1. /\ browsers = << >> /\ table = << >> /\ idle = {} /\ asking = {} /\ strays = {}
      /\ \A c \in Clients : client[c].step = "idle" /\ client[c].session = 0
      /\ client \in [Clients -> [step : {"idle"}, session : {0}]]
      /\ sweep = [step |-> "waiting", sessions |-> {}]
  BY DEF ManagerInit, NoCallYet
<1>2. InTable = {} /\ Launched = {} /\ ToSweep = {} /\ (\A c \in Clients : ~Holds(c))
      /\ Len(table) = 0 /\ Creating = {}
  BY <1>1 DEF InTable, ToSet, Launched, ToSweep, Holds, At, Creating
<1>3. ManagerTypes
  <2>1. CallsTyped
    <3>1. client \in [Clients -> [step : CallSteps, session : Launched \cup {0}]]
      BY <1>1 DEF CallSteps
    <3> QED
      BY <1>1, <3>1 DEF CallsTyped
  <2>2. table \in Seq(Launched) /\ browsers \in Seq({"running", "closed"})
    BY <1>1
  <2>3. sweep \in [step : {"waiting", "collected", "closing"}, sessions : SUBSET Launched]
    BY <1>1
  <2> QED
    BY <1>1, <1>2, <2>1, <2>2, <2>3 DEF ManagerTypes
<1>4. OneHolder
  BY <1>1, <1>2 DEF OneHolder, HeldByOne, CallsHold, OneCallHolds, TableHolds, SweepHolds, RunningIsHeld, IsInjective
<1>5. LimitByRaceOnly
  <2>1. Cardinality({}) = 0 /\ Cardinality(Clients) \in Nat
    BY SessionsAssumption, FS_EmptySet, FS_CardinalityType
  <2>2. Cardinality(Creating) = 0
    BY <1>2, <2>1
  <2>3. MaxSessions \in Nat /\ MaxSessions > 0
    BY SessionsAssumption
  <2>4. Len(table) + Cardinality(Creating) < MaxSessions + Cardinality(Clients)
    BY <1>2, <2>1, <2>2, <2>3
  <2> QED
    BY <2>4 DEF LimitByRaceOnly, Creating
<1> QED
  BY <1>3, <1>4, <1>5 DEF Managed

(* A call goes to its next step. *)
LEMMA CallGoes ==
    ASSUME CallsTyped, Launched \subseteq Launched',
           NEW c \in Clients, NEW step \in CallSteps, NEW s \in Launched' \cup {0},
           step \notin {"idle", "launching"} => s \in Launched', Goes(c, step, s)
    PROVE  CallsTyped'
<1> DEFINE r == [step |-> step, session |-> s]
<1>1. client' = [client EXCEPT ![c] = r]
  BY DEF Goes
<1>2. r \in [step : CallSteps, session : Launched' \cup {0}] /\ (r.step \notin {"idle", "launching"} => r.session \in Launched')
  OBVIOUS
<1> HIDE DEF r
<1>3. \A d \in Clients : client[d] \in [step : CallSteps, session : Launched' \cup {0}]
  BY DEF CallsTyped
<1>4. DOMAIN client = Clients
  BY DEF CallsTyped
<1>5. client' \in [Clients -> [step : CallSteps, session : Launched' \cup {0}]]
  BY <1>1, <1>2, <1>3, <1>4
<1>6. \A d \in Clients : client'[d].step \notin {"idle", "launching"} => client'[d].session \in Launched'
  BY <1>1, <1>2, <1>4 DEF CallsTyped
<1> QED
  BY <1>5, <1>6 DEF CallsTyped

(* A sequence of the sessions left is in the table's order, so without     *)
(* repetitions.                                                            *)
LEMMA WithoutFacts ==
    ASSUME ManagerTypes, IsInjective(table), NEW gone, NEW left \in Without(gone)
    PROVE  /\ left \in Seq(Launched) /\ Len(left) <= Len(table)
           /\ ToSet(left) = InTable \ gone /\ IsInjective(left)
<1>1. PICK m \in 0..Len(table) : left \in [1..m -> InTable \ gone]
  BY DEF Without, SeqOf
<1>2. table \in Seq(Launched) /\ Len(table) \in Nat /\ DOMAIN table = 1..Len(table)
  BY DEF ManagerTypes
<1>3. InTable \subseteq Launched
  BY <1>2 DEF InTable, ToSet
<1>4. left \in Seq(Launched) /\ Len(left) = m /\ DOMAIN left = 1..m
  BY <1>1, <1>2, <1>3
<1>5. \A i, j \in DOMAIN left : i < j => left[i] # left[j]
  <2> SUFFICES ASSUME NEW i \in DOMAIN left, NEW j \in DOMAIN left, i < j
               PROVE  left[i] # left[j]
    OBVIOUS
  <2>1. PICK k, l \in DOMAIN table : k < l /\ table[k] = left[i] /\ table[l] = left[j]
    BY DEF Without
  <2> QED
    BY <1>2, <2>1 DEF IsInjective
<1>6. IsInjective(left)
  BY <1>1, <1>4, <1>5 DEF IsInjective
<1> QED
  BY <1>1, <1>2, <1>4, <1>6 DEF Without

(* What the table may become: a session is added, moves to the end or goes.*)
LEMMA ManagerTypesStep ==
    ASSUME ManagerTypes, IsInjective(table), ManagerNext
    PROVE  ManagerTypes' /\ Launched \subseteq Launched'
<1>0. /\ browsers \in Seq({"running", "closed"}) /\ table \in Seq(Launched)
      /\ idle \subseteq InTable /\ asking \subseteq Launched /\ strays \subseteq Launched
      /\ CallsTyped
      /\ sweep \in [step : {"waiting", "collected", "closing"}, sessions : SUBSET Launched]
      /\ Len(browsers) \in Nat /\ Launched = 1..Len(browsers)
  BY DEF ManagerTypes, Launched
<1>a. \A i \in DOMAIN table : table[i] \in Launched /\ table[i] \in InTable
  BY <1>0 DEF InTable, ToSet
<1>b. \A c \in Clients : Of(c) \in Launched \cup {0}
  BY <1>0 DEF CallsTyped, Of
<1>c. browsers' = browsers => Launched' = Launched
  BY DEF Launched
<1>d. table' = table => InTable' = InTable
  BY DEF InTable
<1>e. \A x : x \in {"running", "closed"} => \A s \in Launched :
         [browsers EXCEPT ![s] = x] \in Seq({"running", "closed"}) /\ Len([browsers EXCEPT ![s] = x]) = Len(browsers)
  BY <1>0
<1>1. ASSUME NEW c \in Clients, CheckLimit(c)
      PROVE  ManagerTypes' /\ Launched \subseteq Launched'
  <2>1. UNCHANGED <<browsers, table, idle, sweep, asking, strays>> /\ Goes(c, "launching", 0)
    BY <1>1 DEF CheckLimit
  <2>2. Launched' = Launched /\ InTable' = InTable
    BY <2>1, <1>c, <1>d
  <2>3. CallsTyped'
    BY <1>0, <2>1, <2>2, CallGoes DEF CallSteps
  <2> QED
    BY <1>0, <2>1, <2>2, <2>3 DEF ManagerTypes
<1>2. ASSUME NEW c \in Clients, Launch(c)
      PROVE  ManagerTypes' /\ Launched \subseteq Launched'
  <2>1. UNCHANGED <<table, idle, sweep, asking, strays>>
    BY <1>2 DEF Launch
  <2>2. InTable' = InTable
    BY <2>1, <1>d
  <2>3. CASE Goes(c, "idle", 0) /\ UNCHANGED browsers
    <3>1. Launched' = Launched
      BY <2>3, <1>c
    <3>2. CallsTyped'
      BY <1>0, <2>3, <3>1, CallGoes DEF CallSteps
    <3> QED
      BY <1>0, <2>1, <2>2, <2>3, <3>1, <3>2 DEF ManagerTypes
  <2>4. CASE browsers' = Append(browsers, "running") /\ Goes(c, "connecting", Len(browsers) + 1)
    <3>1. browsers' \in Seq({"running", "closed"}) /\ Launched' = 1..(Len(browsers) + 1)
      BY <1>0, <2>4 DEF Launched
    <3>2. Launched \subseteq Launched' /\ Len(browsers) + 1 \in Launched'
      BY <1>0, <3>1
    <3>3. CallsTyped'
      BY <1>0, <2>4, <3>2, CallGoes DEF CallSteps
    <3>4. table' \in Seq(Launched') /\ sweep' \in [step : {"waiting", "collected", "closing"}, sessions : SUBSET Launched']
      <4>1. \A S, T : S \subseteq T => Seq(S) \subseteq Seq(T) /\ SUBSET S \subseteq SUBSET T
        OBVIOUS
      <4>2. table \in Seq(Launched') /\ SUBSET Launched \subseteq SUBSET Launched'
        BY <1>0, <3>2, <4>1, ZenonT(30)
      <4>3. \A S, T : S \subseteq T => [step : {"waiting", "collected", "closing"}, sessions : S]
                                        \subseteq [step : {"waiting", "collected", "closing"}, sessions : T]
        OBVIOUS
      <4>4. sweep \in [step : {"waiting", "collected", "closing"}, sessions : SUBSET Launched']
        BY <1>0, <4>2, <4>3
      <4> QED
        BY <2>1, <4>2, <4>4
    <3> QED
      BY <1>0, <2>1, <2>2, <3>1, <3>2, <3>3, <3>4 DEF ManagerTypes
  <2> QED
    BY <1>2, <2>3, <2>4 DEF Launch
<1>3. ASSUME NEW c \in Clients, ConnectFails(c)
      PROVE  ManagerTypes' /\ Launched \subseteq Launched'
  <2>1. UNCHANGED <<browsers, table, idle, sweep, asking>> /\ Goes(c, "idle", 0)
        /\ strays' = strays \cup {Of(c)} /\ c \in At("connecting")
    BY <1>3 DEF ConnectFails
  <2>2. Launched' = Launched /\ InTable' = InTable
    BY <2>1, <1>c, <1>d
  <2>3. CallsTyped'
    BY <1>0, <2>1, <2>2, CallGoes DEF CallSteps
  <2>4. Of(c) \in Launched
    BY <1>0, <2>1 DEF CallsTyped, At, Of
  <2> QED
    BY <1>0, <2>1, <2>2, <2>3, <2>4 DEF ManagerTypes
<1>4. ASSUME NEW c \in Clients, FirstPageFails(c)
      PROVE  ManagerTypes' /\ Launched \subseteq Launched'
  <2>1. UNCHANGED <<table, idle, sweep, asking, strays>> /\ Goes(c, "idle", 0)
        /\ browsers' = [browsers EXCEPT ![Of(c)] = "closed"] /\ c \in At("connecting")
    BY <1>4 DEF FirstPageFails
  <2>2. Of(c) \in Launched
    BY <1>0, <2>1 DEF CallsTyped, At, Of
  <2>3. browsers' \in Seq({"running", "closed"}) /\ Launched' = Launched /\ InTable' = InTable
    BY <1>0, <1>d, <1>e, <2>1, <2>2 DEF Launched
  <2>4. CallsTyped'
    BY <1>0, <2>1, <2>3, CallGoes DEF CallSteps
  <2> QED
    BY <1>0, <2>1, <2>3, <2>4 DEF ManagerTypes
<1>5. ASSUME NEW c \in Clients, Insert(c)
      PROVE  ManagerTypes' /\ Launched \subseteq Launched'
  <2>1. UNCHANGED <<browsers, idle, sweep, asking, strays>> /\ Goes(c, "using", Of(c))
        /\ table' = Append(table, Of(c)) /\ c \in At("connecting")
    BY <1>5 DEF Insert
  <2>2. Of(c) \in Launched
    BY <1>0, <2>1 DEF CallsTyped, At, Of
  <2>3. table' \in Seq(Launched) /\ InTable' = InTable \cup {Of(c)} /\ Launched' = Launched
    BY <1>0, <1>c, <2>1, <2>2, AppendElements DEF InTable
  <2>4. CallsTyped'
    BY <1>0, <2>1, <2>2, <2>3, CallGoes DEF CallSteps
  <2> QED
    BY <1>0, <2>1, <2>3, <2>4 DEF ManagerTypes
<1>6. ASSUME NEW c \in Clients, GetSession(c)
      PROVE  ManagerTypes' /\ Launched \subseteq Launched'
  <2>1. PICK i \in DOMAIN table :
           /\ table' = Append(RemoveAt(table, i), table[i])
           /\ idle' = idle \ {table[i]} /\ Goes(c, "using", table[i])
    BY <1>6 DEF GetSession
  <2>2. UNCHANGED <<browsers, sweep, asking, strays>>
    BY <1>6 DEF GetSession
  <2>3. RemoveAt(table, i) \in Seq(Launched) /\ ToSet(RemoveAt(table, i)) = InTable \ {table[i]}
    BY <1>0, RemoveAtElements, RemoveAtInjective DEF InTable
  <2>4. table' \in Seq(Launched) /\ InTable' = InTable /\ Launched' = Launched
    <3> DEFINE r == RemoveAt(table, i)
    <3>1. r \in Seq(Launched) /\ ToSet(r) = InTable \ {table[i]} /\ table' = Append(r, table[i])
      BY <2>1, <2>3
    <3>2. table[i] \in Launched /\ table[i] \in InTable
      BY <1>a
    <3> HIDE DEF r
    <3>3. Append(r, table[i]) \in Seq(Launched) /\ ToSet(Append(r, table[i])) = ToSet(r) \cup {table[i]}
      BY <3>1, <3>2, AppendElements
    <3> QED
      BY <1>c, <2>2, <3>1, <3>2, <3>3 DEF InTable
  <2>5. CallsTyped'
    BY <1>0, <1>a, <2>1, <2>4, CallGoes DEF CallSteps
  <2> QED
    BY <1>0, <2>1, <2>2, <2>4, <2>5 DEF ManagerTypes
<1>7. ASSUME NEW c \in Clients, UsePage(c)
      PROVE  ManagerTypes' /\ Launched \subseteq Launched'
  <2>1. UNCHANGED <<browsers, table, idle, sweep, strays>> /\ Goes(c, "idle", 0) /\ c \in At("using")
        /\ (asking' = asking \/ asking' = asking \cup {Of(c)})
    BY <1>7 DEF UsePage
  <2>2. Of(c) \in Launched
    BY <1>0, <2>1 DEF CallsTyped, At, Of
  <2>3. Launched' = Launched /\ InTable' = InTable
    BY <2>1, <1>c, <1>d
  <2>4. CallsTyped'
    BY <1>0, <2>1, <2>3, CallGoes DEF CallSteps
  <2> QED
    BY <1>0, <2>1, <2>2, <2>3, <2>4 DEF ManagerTypes
<1>8. ASSUME NEW c \in Clients, RemoveSession(c)
      PROVE  ManagerTypes' /\ Launched \subseteq Launched'
  <2>1. PICK i \in DOMAIN table :
           /\ table' = RemoveAt(table, i)
           /\ idle' = idle \ {table[i]} /\ Goes(c, "closing", table[i])
    BY <1>8 DEF RemoveSession
  <2>2. UNCHANGED <<browsers, sweep, asking, strays>>
    BY <1>8 DEF RemoveSession
  <2>3. table' \in Seq(Launched) /\ InTable' = InTable \ {table[i]} /\ Launched' = Launched
    BY <1>0, <1>c, <2>1, <2>2, RemoveAtElements, RemoveAtInjective DEF InTable
  <2>4. CallsTyped'
    BY <1>0, <1>a, <2>1, <2>3, CallGoes DEF CallSteps
  <2> QED
    BY <1>0, <2>1, <2>2, <2>3, <2>4 DEF ManagerTypes
<1>9. ASSUME NEW c \in Clients, CloseSession(c)
      PROVE  ManagerTypes' /\ Launched \subseteq Launched'
  <2>1. UNCHANGED <<table, idle, sweep, asking, strays>> /\ Goes(c, "idle", 0)
        /\ browsers' = [browsers EXCEPT ![Of(c)] = "closed"] /\ c \in At("closing")
    BY <1>9 DEF CloseSession, CloseEnds
  <2>a. Of(c) \in Launched
    BY <1>0, <2>1 DEF CallsTyped, At, Of
  <2>2. browsers' \in Seq({"running", "closed"}) /\ Launched' = Launched /\ InTable' = InTable
    BY <1>0, <1>d, <1>e, <2>1, <2>a DEF Launched
  <2>3. CallsTyped'
    BY <1>0, <2>1, <2>2, CallGoes DEF CallSteps
  <2> QED
    BY <1>0, <2>1, <2>2, <2>3 DEF ManagerTypes
<1>10. CASE GrowIdle
  <2>1. PICK i \in DOMAIN table : idle' = idle \cup {table[j] : j \in 1..i}
    BY <1>10 DEF GrowIdle
  <2>2. UNCHANGED <<browsers, table, client, sweep, asking, strays>>
    BY <1>10 DEF GrowIdle
  <2>3. Launched' = Launched /\ InTable' = InTable
    BY <2>2, <1>c, <1>d
  <2>4. {table[j] : j \in 1..i} \subseteq InTable
    BY <1>0, <1>a
  <2>5. CallsTyped'
    BY <1>0, <2>2, <2>3 DEF CallsTyped
  <2> QED
    BY <1>0, <2>1, <2>2, <2>3, <2>4, <2>5 DEF ManagerTypes
<1>11. CASE CollectIdle
  <2>1. UNCHANGED <<browsers, table, idle, client, asking, strays>>
        /\ sweep' = [step |-> "collected", sessions |-> idle]
    BY <1>11 DEF CollectIdle
  <2>2. Launched' = Launched /\ InTable' = InTable
    BY <2>1, <1>c, <1>d
  <2>3. InTable \subseteq Launched
    BY <1>0 DEF InTable, ToSet
  <2>4. sweep' \in [step : {"waiting", "collected", "closing"}, sessions : SUBSET Launched]
    BY <1>0, <2>1, <2>3
  <2>5. CallsTyped'
    BY <1>0, <2>1, <2>2 DEF CallsTyped
  <2> QED
    BY <1>0, <2>1, <2>2, <2>4, <2>5 DEF ManagerTypes
<1>12. CASE RemoveIdle
  <2>1. UNCHANGED <<browsers, client, asking, strays>>
        /\ table' \in Without(sweep.sessions) /\ idle' = idle \ sweep.sessions
        /\ sweep' = [step |-> "closing", sessions |-> sweep.sessions \cap InTable]
    BY <1>12 DEF RemoveIdle
  <2>2. table' \in Seq(Launched) /\ InTable' = InTable \ sweep.sessions /\ Launched' = Launched
    BY <1>c, <2>1, WithoutFacts DEF InTable
  <2>3. sweep' \in [step : {"waiting", "collected", "closing"}, sessions : SUBSET Launched]
    BY <1>0, <2>1
  <2>4. CallsTyped'
    BY <1>0, <2>1, <2>2 DEF CallsTyped
  <2> QED
    BY <1>0, <2>1, <2>2, <2>3, <2>4 DEF ManagerTypes
<1>13. CASE CloseIdle
  <2>1. UNCHANGED <<table, idle, client, asking, strays>>
    BY <1>13 DEF CloseIdle
  <2>2. CASE sweep.sessions = {}
    <3>1. sweep' = [sweep EXCEPT !.step = "waiting"] /\ browsers' = browsers
      BY <1>13, <2>2 DEF CloseIdle
    <3>2. sweep' \in [step : {"waiting", "collected", "closing"}, sessions : SUBSET Launched]
      BY <1>0, <3>1
    <3>3. Launched' = Launched /\ InTable' = InTable
      BY <2>1, <3>1, <1>c, <1>d
    <3>4. CallsTyped'
      BY <1>0, <2>1, <3>3 DEF CallsTyped
    <3> QED
      BY <1>0, <2>1, <3>1, <3>2, <3>3, <3>4 DEF ManagerTypes
  <2>3. CASE sweep.sessions # {}
    <3>1. PICK s \in sweep.sessions : CloseEnds(s) /\ sweep' = [sweep EXCEPT !.sessions = @ \ {s}]
      BY <1>13, <2>3 DEF CloseIdle
    <3>2. s \in Launched /\ browsers' = [browsers EXCEPT ![s] = "closed"]
      BY <1>0, <3>1 DEF CloseEnds
    <3>3. browsers' \in Seq({"running", "closed"}) /\ Launched' = Launched /\ InTable' = InTable
      BY <1>0, <1>d, <1>e, <2>1, <3>2 DEF Launched
    <3>4. sweep' \in [step : {"waiting", "collected", "closing"}, sessions : SUBSET Launched]
      BY <1>0, <3>1
    <3>5. CallsTyped'
      BY <1>0, <2>1, <3>3 DEF CallsTyped
    <3> QED
      BY <1>0, <2>1, <3>3, <3>4, <3>5 DEF ManagerTypes
  <2> QED
    BY <2>2, <2>3
<1> QED
  BY <1>1, <1>2, <1>3, <1>4, <1>5, <1>6, <1>7, <1>8, <1>9, <1>10, <1>11, <1>12, <1>13 DEF ManagerNext


LEMMA OneHolderStep ==
    ASSUME ManagerTypes, OneHolder, ManagerNext
    PROVE  OneHolder'
<1>0. /\ browsers \in Seq({"running", "closed"}) /\ table \in Seq(Launched)
      /\ idle \subseteq InTable /\ InTable \subseteq Launched /\ strays \subseteq Launched
      /\ DOMAIN client = Clients
      /\ \A c \in Clients : client[c].step \notin {"idle", "launching"} => client[c].session \in Launched
      /\ sweep \in [step : {"waiting", "collected", "closing"}, sessions : SUBSET Launched]
      /\ Len(browsers) \in Nat /\ Launched = 1..Len(browsers) /\ DOMAIN browsers = Launched
      /\ IsInjective(table) /\ HeldByOne /\ RunningIsHeld
  BY DEF ManagerTypes, CallsTyped, OneHolder, Launched, InTable, ToSet
<1>a. \A step : \A c \in Clients : c \in At(step) <=> client[c].step = step
  BY DEF At
<1>b. table' = table => InTable' = InTable
  BY DEF InTable
<1>c. ToSweep \subseteq Launched
  BY <1>0 DEF ToSweep
<1>d. ASSUME NEW c \in Clients, NEW step, NEW s, Goes(c, step, s)
      PROVE  client'[c].step = step /\ client'[c].session = s /\ (\A d \in Clients : d # c => client'[d] = client[d])
  BY <1>0, <1>d DEF Goes
(* What another call holds it still holds. *)
<1>e. ASSUME NEW c \in Clients, NEW d \in Clients, d # c, Holds(d),
             \A e \in Clients : e # c => client'[e] = client[e]
      PROVE  \E e \in Clients : client'[e].step \in {"connecting", "closing"}
                                /\ client'[e].session = client[d].session
  <2>1. client'[d] = client[d]
    BY <1>e
  <2> QED
    BY <1>e, <2>1 DEF Holds
<1> USE DEF HeldByOne, CallsHold, OneCallHolds, TableHolds, SweepHolds, RunningIsHeld, Holds
(* A call goes to a step in which it holds nothing, having held nothing. *)
<1>1. ASSUME NEW c \in Clients, ~Holds(c), client'[c].step \notin {"connecting", "closing"},
             UNCHANGED <<browsers, table, sweep, strays>>,
             \A d \in Clients : d # c => client'[d] = client[d]
      PROVE  OneHolder'
  <2>1. InTable' = InTable /\ ToSweep' = ToSweep /\ Launched' = Launched
    BY <1>1, <1>b DEF ToSweep, Launched
  <2>2. HeldByOne'
    BY <1>0, <1>1, <2>1
  <2>3. RunningIsHeld'
    BY <1>0, <1>1, <2>1
  <2> QED
    BY <1>0, <1>1, <2>2, <2>3 DEF OneHolder
<1>2. ASSUME NEW c \in Clients, CheckLimit(c) \/ UsePage(c) PROVE OneHolder'
  <2>1. /\ UNCHANGED <<browsers, table, sweep, strays>> /\ c \in At("idle") \cup At("using")
        /\ Goes(c, "launching", 0) \/ Goes(c, "idle", 0)
    BY <1>2 DEF CheckLimit, UsePage
  <2>2. client'[c].step \in {"launching", "idle"} /\ \A d \in Clients : d # c => client'[d] = client[d]
    BY <1>d, <2>1
  <2>3. ~Holds(c)
    BY <1>a, <2>1
  <2> QED
    BY <1>1, <2>1, <2>2, <2>3
<1>3. ASSUME NEW c \in Clients, Launch(c) PROVE OneHolder'
  <2>1. UNCHANGED <<table, idle, sweep, asking, strays>> /\ client[c].step = "launching"
    BY <1>3, <1>a DEF Launch
  <2>2. CASE Goes(c, "idle", 0) /\ UNCHANGED browsers
    <3>1. client'[c].step = "idle" /\ \A d \in Clients : d # c => client'[d] = client[d]
      BY <1>d, <2>2
    <3> QED
      BY <1>1, <2>1, <2>2, <3>1
  <2>3. CASE browsers' = Append(browsers, "running") /\ Goes(c, "connecting", Len(browsers) + 1)
    <3> DEFINE n == Len(browsers) + 1
    <3>1. client'[c].step = "connecting" /\ client'[c].session = n /\ (\A d \in Clients : d # c => client'[d] = client[d])
      BY <1>d, <2>3
    <3>2. browsers'[n] = "running" /\ n \notin Launched /\ Launched' = Launched \cup {n}
          /\ \A s \in Launched : browsers'[s] = browsers[s]
      BY <1>0, <2>3 DEF Launched
    <3>3. InTable' = InTable /\ ToSweep' = ToSweep /\ IsInjective(table')
      BY <1>0, <1>b, <2>1 DEF ToSweep
    <3> HIDE DEF n
    <3>4. HeldByOne'
      <4>1. CallsHold'
        <5> SUFFICES ASSUME NEW d \in Clients, client'[d].step \in {"connecting", "closing"}
                     PROVE  /\ browsers'[client'[d].session] = "running" /\ client'[d].session \notin strays'
                            /\ client'[d].session \notin InTable' /\ client'[d].session \notin ToSweep'
          OBVIOUS
        <5>1. CASE d = c
          BY <1>0, <1>c, <2>1, <3>1, <3>2, <3>3, <5>1
        <5>2. CASE d # c
          <6>1. client'[d] = client[d]
            BY <3>1, <5>2
          <6>2. client[d].session \in Launched
            BY <1>0, <6>1
          <6> QED
            BY <1>0, <2>1, <3>2, <3>3, <6>1, <6>2
        <5> QED
          BY <5>1, <5>2
      <4>2. OneCallHolds'
        BY <1>0, <1>c, <2>1, <3>1, <3>2, <3>3
      <4>3. TableHolds'
        BY <1>0, <1>c, <2>1, <3>1, <3>2, <3>3
      <4>4. SweepHolds'
        BY <1>0, <1>c, <2>1, <3>1, <3>2, <3>3
      <4> QED
        BY <4>1, <4>2, <4>3, <4>4
    <3>5. RunningIsHeld'
      <4> SUFFICES ASSUME NEW t \in Launched' \ strays', browsers'[t] = "running",
                          t \notin InTable', t \notin ToSweep'
                   PROVE  \E e \in Clients : client'[e].step \in {"connecting", "closing"} /\ client'[e].session = t
        OBVIOUS
      <4>1. CASE t = n
        BY <3>1, <4>1
      <4>2. CASE t \in Launched
        <5>1. PICK d \in Clients : Holds(d) /\ client[d].session = t
          BY <1>0, <2>1, <3>2, <3>3, <4>2
        <5>2. d # c
          BY <2>1, <5>1
        <5> QED
          BY <1>e, <3>1, <5>1, <5>2
      <4> QED
        BY <4>1, <4>2, <3>2
    <3> QED
      BY <3>3, <3>4, <3>5 DEF OneHolder
  <2> QED
    BY <1>3, <2>2, <2>3 DEF Launch
<1>4. ASSUME NEW c \in Clients, ConnectFails(c) PROVE OneHolder'
  <2>1. UNCHANGED <<browsers, table, sweep>> /\ strays' = strays \cup {client[c].session}
        /\ client[c].step = "connecting"
        /\ client'[c].step = "idle" /\ client'[c].session = 0 /\ (\A d \in Clients : d # c => client'[d] = client[d])
    BY <1>4, <1>a, <1>d DEF ConnectFails, Of
  <2>2. InTable' = InTable /\ ToSweep' = ToSweep /\ Launched' = Launched
    BY <2>1, <1>b DEF ToSweep, Launched
  <2>3. HeldByOne'
    BY <1>0, <2>1, <2>2
  <2>4. RunningIsHeld'
    BY <1>0, <2>1, <2>2
  <2> QED
    BY <1>0, <2>1, <2>3, <2>4 DEF OneHolder
<1>5. ASSUME NEW c \in Clients, FirstPageFails(c) \/ CloseSession(c) PROVE OneHolder'
  <2>1. UNCHANGED <<table, sweep, strays>> /\ browsers' = [browsers EXCEPT ![client[c].session] = "closed"]
        /\ Holds(c)
        /\ client'[c].step = "idle" /\ client'[c].session = 0 /\ (\A d \in Clients : d # c => client'[d] = client[d])
    BY <1>5, <1>a, <1>d DEF FirstPageFails, CloseSession, CloseEnds, Of
  <2>2. InTable' = InTable /\ ToSweep' = ToSweep
    BY <2>1, <1>b DEF ToSweep
  <2>3. \A s \in Launched : browsers'[s] = IF s = client[c].session THEN "closed" ELSE browsers[s]
    BY <1>0, <2>1
  <2>4. Launched' = Launched
    BY <1>0, <2>1 DEF Launched
  <2>5. HeldByOne'
    <3>1. CallsHold'
      BY <1>0, <1>c, <2>1, <2>2, <2>3, <2>4
    <3>2. OneCallHolds'
      BY <1>0, <1>c, <2>1, <2>2, <2>3, <2>4
    <3>3. TableHolds'
      BY <1>0, <1>c, <2>1, <2>2, <2>3, <2>4
    <3>4. SweepHolds'
      BY <1>0, <1>c, <2>1, <2>2, <2>3, <2>4
    <3> QED
      BY <3>1, <3>2, <3>3, <3>4
  <2>6. RunningIsHeld'
    BY <1>0, <2>1, <2>2, <2>3, <2>4
  <2> QED
    BY <1>0, <2>1, <2>5, <2>6 DEF OneHolder
<1>6. ASSUME NEW c \in Clients, Insert(c) PROVE OneHolder'
  <2> DEFINE s == client[c].session
  <2>1. UNCHANGED <<browsers, sweep, strays>> /\ table' = Append(table, s)
        /\ client[c].step = "connecting" /\ Goes(c, "using", s)
    BY <1>6, <1>a DEF Insert, Of
  <2>a. s \in Launched
    BY <1>0, <2>1
  <2>b. client'[c].step = "using" /\ client'[c].session = s /\ (\A d \in Clients : d # c => client'[d] = client[d])
    BY <1>d, <2>1
  <2>2. s \notin InTable /\ s \notin strays /\ s \notin ToSweep /\ browsers[s] = "running"
    BY <1>0, <2>1
  <2>3. InTable' = InTable \cup {s} /\ IsInjective(table') /\ ToSweep' = ToSweep /\ Launched' = Launched
    BY <1>0, <2>1, <2>2, <2>a, AppendElements DEF InTable, ToSweep, Launched
  <2>c. s = client[c].session
    OBVIOUS
  <2> HIDE DEF s
  <2>4. HeldByOne'
    <3>1. CallsHold'
      BY <1>0, <2>1, <2>2, <2>3, <2>b, <2>c
    <3>2. OneCallHolds'
      BY <1>0, <2>1, <2>2, <2>3, <2>b, <2>c
    <3>3. TableHolds'
      BY <1>0, <2>1, <2>2, <2>3, <2>b, <2>c
    <3>4. SweepHolds'
      BY <1>0, <2>1, <2>2, <2>3, <2>b, <2>c
    <3> QED
      BY <3>1, <3>2, <3>3, <3>4
  <2>5. RunningIsHeld'
    <3> SUFFICES ASSUME NEW t \in Launched' \ strays', browsers'[t] = "running",
                        t \notin InTable', t \notin ToSweep'
                 PROVE  \E e \in Clients : client'[e].step \in {"connecting", "closing"} /\ client'[e].session = t
      OBVIOUS
    <3>1. PICK d \in Clients : Holds(d) /\ client[d].session = t
      BY <1>0, <2>1, <2>3
    <3>2. d # c
      BY <2>3, <2>c, <3>1
    <3> QED
      BY <1>e, <2>b, <3>1, <3>2
  <2> QED
    BY <2>3, <2>4, <2>5 DEF OneHolder
<1>7. ASSUME NEW c \in Clients, GetSession(c) PROVE OneHolder'
  <2>1. PICK i \in DOMAIN table :
           /\ table' = Append(RemoveAt(table, i), table[i]) /\ Goes(c, "using", table[i])
    BY <1>7 DEF GetSession
  <2>2. UNCHANGED <<browsers, sweep, strays>> /\ client[c].step = "idle"
    BY <1>7, <1>a DEF GetSession
  <2> DEFINE r == RemoveAt(table, i)
  <2>3. r \in Seq(Launched) /\ ToSet(r) = InTable \ {table[i]} /\ IsInjective(r)
    BY <1>0, RemoveAtElements, RemoveAtInjective DEF InTable
  <2>4. table[i] \in Launched /\ table[i] \in InTable
    BY <1>0 DEF InTable, ToSet
  <2>5. table' = Append(r, table[i])
    BY <2>1
  <2> HIDE DEF r
  <2>a. /\ ToSet(Append(r, table[i])) = ToSet(r) \cup {table[i]}
        /\ IsInjective(r) /\ table[i] \notin ToSet(r) => IsInjective(Append(r, table[i]))
    BY <2>3, <2>4, AppendElements
  <2>6. InTable' = InTable /\ IsInjective(table')
    BY <2>3, <2>4, <2>5, <2>a DEF InTable
  <2>7. ToSweep' = ToSweep /\ Launched' = Launched
    BY <2>2 DEF ToSweep, Launched
  <2>8. client'[c].step = "using" /\ client'[c].session = table[i] /\ (\A d \in Clients : d # c => client'[d] = client[d])
    BY <1>d, <2>1
  <2>a1. \A d \in Clients : client'[d].step \in {"connecting", "closing"} => d # c /\ client'[d] = client[d]
    BY <2>8
  <2>9. HeldByOne'
    <3>1. CallsHold'
      BY <1>0, <2>2, <2>6, <2>7, <2>a1
    <3>2. OneCallHolds'
      BY <1>0, <2>a1
    <3>3. TableHolds' /\ SweepHolds'
      BY <1>0, <2>2, <2>6, <2>7
    <3> QED
      BY <3>1, <3>2, <3>3
  <2>10. RunningIsHeld'
    <3> SUFFICES ASSUME NEW t \in Launched' \ strays', browsers'[t] = "running",
                        t \notin InTable', t \notin ToSweep'
                 PROVE  \E e \in Clients : client'[e].step \in {"connecting", "closing"} /\ client'[e].session = t
      OBVIOUS
    <3>1. PICK d \in Clients : Holds(d) /\ client[d].session = t
      <4>1. t \in Launched \ strays /\ browsers[t] = "running" /\ t \notin InTable /\ t \notin ToSweep
        BY <2>2, <2>6, <2>7
      <4> QED
        BY <1>0, <4>1
    <3>2. d # c
      BY <2>2, <3>1
    <3> QED
      BY <1>e, <2>8, <3>1, <3>2
  <2> QED
    BY <2>6, <2>9, <2>10 DEF OneHolder
<1>8. ASSUME NEW c \in Clients, RemoveSession(c) PROVE OneHolder'
  <2>1. PICK i \in DOMAIN table :
           /\ table' = RemoveAt(table, i) /\ Goes(c, "closing", table[i])
    BY <1>8 DEF RemoveSession
  <2>2. UNCHANGED <<browsers, sweep, strays>> /\ client[c].step = "idle"
    BY <1>8, <1>a DEF RemoveSession
  <2> DEFINE s == table[i]
  <2>3. InTable' = InTable \ {s} /\ IsInjective(table')
    BY <1>0, <2>1, RemoveAtInjective DEF InTable
  <2>4. s \in Launched /\ s \in InTable
    BY <1>0 DEF InTable, ToSet
  <2>5. ToSweep' = ToSweep /\ Launched' = Launched
    BY <2>2 DEF ToSweep, Launched
  <2>6. client'[c].step = "closing" /\ client'[c].session = s /\ (\A d \in Clients : d # c => client'[d] = client[d])
    BY <1>d, <2>1
  <2> HIDE DEF s
  <2>7. HeldByOne'
    <3>1. CallsHold'
      BY <1>0, <2>2, <2>3, <2>4, <2>5, <2>6
    <3>2. OneCallHolds'
      BY <1>0, <2>2, <2>3, <2>4, <2>5, <2>6
    <3>3. TableHolds'
      BY <1>0, <2>2, <2>3, <2>4, <2>5, <2>6
    <3>4. SweepHolds'
      BY <1>0, <2>2, <2>3, <2>4, <2>5, <2>6
    <3> QED
      BY <3>1, <3>2, <3>3, <3>4
  <2>8. RunningIsHeld'
    <3> SUFFICES ASSUME NEW t \in Launched' \ strays', browsers'[t] = "running",
                        t \notin InTable', t \notin ToSweep'
                 PROVE  \E e \in Clients : client'[e].step \in {"connecting", "closing"} /\ client'[e].session = t
      OBVIOUS
    <3>1. CASE t = s
      BY <2>6, <3>1
    <3>2. CASE t # s
      <4>1. PICK d \in Clients : Holds(d) /\ client[d].session = t
        BY <1>0, <2>2, <2>3, <2>5, <3>2
      <4>2. d # c
        BY <2>2, <4>1
      <4> QED
        BY <1>e, <2>6, <4>1, <4>2
    <3> QED
      BY <3>1, <3>2
  <2> QED
    BY <2>3, <2>7, <2>8 DEF OneHolder
<1>9. CASE GrowIdle \/ CollectIdle
  <2>1. UNCHANGED <<browsers, table, client, strays>> /\ ToSweep' = ToSweep
    BY <1>9 DEF GrowIdle, CollectIdle, ToSweep
  <2>2. InTable' = InTable /\ Launched' = Launched
    BY <2>1 DEF InTable, Launched
  <2>3. HeldByOne' /\ RunningIsHeld'
    BY <1>0, <2>1, <2>2
  <2> QED
    BY <1>0, <2>1, <2>3 DEF OneHolder
<1>10. CASE RemoveIdle
  <2>1. /\ UNCHANGED <<browsers, client, strays>> /\ sweep.step = "collected"
        /\ table' \in Without(sweep.sessions)
        /\ sweep' = [step |-> "closing", sessions |-> sweep.sessions \cap InTable]
    BY <1>10 DEF RemoveIdle
  <2>2. InTable' = InTable \ sweep.sessions /\ IsInjective(table') /\ Launched' = Launched
    BY <1>0, <2>1, WithoutFacts DEF InTable, Launched
  <2>3. ToSweep = {} /\ ToSweep' = sweep.sessions \cap InTable
    BY <2>1 DEF ToSweep
  <2>4. HeldByOne'
    BY <1>0, <2>1, <2>2, <2>3
  <2>5. RunningIsHeld'
    BY <1>0, <2>1, <2>2, <2>3
  <2> QED
    BY <2>2, <2>4, <2>5 DEF OneHolder
<1>11. CASE CloseIdle
  <2>1. UNCHANGED <<table, client, strays>> /\ InTable' = InTable /\ sweep.step = "closing"
        /\ ToSweep = sweep.sessions
    BY <1>11, <1>b DEF CloseIdle, ToSweep
  <2>2. CASE sweep.sessions = {}
    <3>1. browsers' = browsers /\ ToSweep' = {}
      BY <1>0, <1>11, <2>2 DEF CloseIdle, ToSweep
    <3>2. Launched' = Launched
      BY <3>1 DEF Launched
    <3>3. HeldByOne' /\ RunningIsHeld'
      BY <1>0, <2>1, <2>2, <3>1, <3>2
    <3> QED
      BY <1>0, <2>1, <3>3 DEF OneHolder
  <2>3. CASE sweep.sessions # {}
    <3>1. PICK s \in sweep.sessions : CloseEnds(s) /\ sweep' = [sweep EXCEPT !.sessions = @ \ {s}]
      BY <1>11, <2>3 DEF CloseIdle
    <3>2. s \in Launched /\ browsers' = [browsers EXCEPT ![s] = "closed"]
      BY <1>0, <3>1 DEF CloseEnds
    <3>3. ToSweep' = ToSweep \ {s}
      BY <1>0, <2>1, <3>1 DEF ToSweep
    <3>4. Launched' = Launched /\ \A t \in Launched : browsers'[t] = IF t = s THEN "closed" ELSE browsers[t]
      BY <1>0, <3>2 DEF Launched
    <3>5. HeldByOne'
      <4>1. CallsHold'
        BY <1>0, <1>c, <2>1, <3>1, <3>3, <3>4
      <4>2. OneCallHolds'
        BY <1>0, <1>c, <2>1, <3>1, <3>3, <3>4
      <4>3. TableHolds'
        BY <1>0, <1>c, <2>1, <3>1, <3>3, <3>4
      <4>4. SweepHolds'
        BY <1>0, <1>c, <2>1, <3>1, <3>3, <3>4
      <4> QED
        BY <4>1, <4>2, <4>3, <4>4
    <3>6. RunningIsHeld'
      BY <1>0, <2>1, <3>3, <3>4
    <3> QED
      BY <1>0, <2>1, <3>5, <3>6 DEF OneHolder
  <2> QED
    BY <2>2, <2>3
<1> QED
  BY <1>2, <1>3, <1>4, <1>5, <1>6, <1>7, <1>8, <1>9, <1>10, <1>11 DEF ManagerNext

-----------------------------------------------------------------------------
LEMMA LimitStep ==
    ASSUME ManagerTypes, OneHolder, LimitByRaceOnly, ManagerNext
    PROVE  LimitByRaceOnly'
<1>0. /\ table \in Seq(Launched) /\ Len(table) \in Nat /\ DOMAIN table = 1..Len(table)
      /\ DOMAIN client = Clients
  BY DEF ManagerTypes, CallsTyped
<1>a. /\ Creating = {c \in Clients : client[c].step \in {"launching", "connecting"}}
      /\ Creating' = {c \in Clients : client'[c].step \in {"launching", "connecting"}}
  BY DEF Creating, At
<1>b. /\ IsFiniteSet(Creating) /\ IsFiniteSet(Creating')
      /\ Cardinality(Creating) \in Nat /\ Cardinality(Creating') \in Nat /\ Cardinality(Clients) \in Nat
      /\ Cardinality(Creating') <= Cardinality(Clients)
  <2>1. Creating \in SUBSET Clients /\ Creating' \in SUBSET Clients
    BY <1>a
  <2>2. IsFiniteSet(Clients)
    BY SessionsAssumption
  <2>3. IsFiniteSet(Creating) /\ Cardinality(Creating) <= Cardinality(Clients)
    BY <2>1, <2>2, FS_Subset
  <2>4. IsFiniteSet(Creating') /\ Cardinality(Creating') <= Cardinality(Clients)
    BY <2>1, <2>2, FS_Subset
  <2> QED
    BY <2>2, <2>3, <2>4, FS_CardinalityType
<1>c. Len(table) + Cardinality(Creating) < MaxSessions + Cardinality(Clients)
  BY DEF LimitByRaceOnly, Creating
<1>d. MaxSessions \in Nat
  BY SessionsAssumption
<1>e. ASSUME Len(table') + Cardinality(Creating') < MaxSessions + Cardinality(Clients)
      PROVE  LimitByRaceOnly'
  BY <1>e DEF LimitByRaceOnly, Creating
<1>f. ASSUME NEW c \in Clients, NEW step, NEW s, Goes(c, step, s)
      PROVE  client'[c].step = step /\ \A d \in Clients : d # c => client'[d] = client[d]
  BY <1>0, <1>f DEF Goes
(* No more calls create sessions, and the table is no longer. *)
<1>g. ASSUME Creating' \subseteq Creating, Len(table') \in Nat, Len(table') <= Len(table)
      PROVE  LimitByRaceOnly'
  <2>1. Cardinality(Creating') <= Cardinality(Creating)
    BY <1>b, <1>g, FS_Subset
  <2> QED
    BY <1>0, <1>b, <1>c, <1>d, <1>e, <1>g, <2>1
<1>1. ASSUME NEW c \in Clients, CheckLimit(c) PROVE LimitByRaceOnly'
  <2>1. Len(table) < MaxSessions /\ table' = table
    BY <1>1 DEF CheckLimit
  <2> QED
    BY <1>0, <1>b, <1>d, <1>e, <2>1
<1>2. ASSUME NEW c \in Clients,
             Launch(c) \/ ConnectFails(c) \/ FirstPageFails(c) \/ UsePage(c) \/ CloseSession(c)
      PROVE  LimitByRaceOnly'
  <2>1. table' = table
    BY <1>2 DEF Launch, ConnectFails, FirstPageFails, UsePage, CloseSession
  <2>2. \/ Goes(c, "idle", 0)
        \/ client[c].step = "launching" /\ Goes(c, "connecting", Len(browsers) + 1)
    BY <1>2 DEF Launch, ConnectFails, FirstPageFails, UsePage, CloseSession, At
  <2>3. \A d \in Clients : d # c => client'[d] = client[d]
    BY <1>f, <2>2
  <2>4. client'[c].step = "idle" \/ client[c].step = "launching"
    BY <1>f, <2>2
  <2>5. Creating' \subseteq Creating
    BY <1>a, <2>3, <2>4
  <2> QED
    BY <1>0, <1>g, <2>1, <2>5
<1>3. ASSUME NEW c \in Clients, Insert(c) PROVE LimitByRaceOnly'
  <2>1. table' = Append(table, Of(c)) /\ Goes(c, "using", Of(c)) /\ client[c].step = "connecting"
    BY <1>3 DEF Insert, At
  <2>2. Len(table') = Len(table) + 1
    BY <1>0, <2>1
  <2>3. client'[c].step = "using" /\ \A d \in Clients : d # c => client'[d] = client[d]
    BY <1>f, <2>1
  <2>4. Creating' = Creating \ {c} /\ c \in Creating
    BY <1>a, <2>1, <2>3
  <2>5. Cardinality(Creating \ {c}) = Cardinality(Creating) - 1
    BY <1>b, <2>4, FS_RemoveElement
  <2> QED
    BY <1>0, <1>b, <1>c, <1>d, <1>e, <2>2, <2>4, <2>5
<1>4. ASSUME NEW c \in Clients, GetSession(c) \/ RemoveSession(c) PROVE LimitByRaceOnly'
  <2>1. PICK i \in DOMAIN table :
           \/ table' = Append(RemoveAt(table, i), table[i]) /\ Goes(c, "using", table[i])
           \/ table' = RemoveAt(table, i) /\ Goes(c, "closing", table[i])
    BY <1>4 DEF GetSession, RemoveSession
  <2>2. RemoveAt(table, i) \in Seq(Launched) /\ Len(RemoveAt(table, i)) = Len(table) - 1
    BY <1>0, RemoveAtElements
  <2>3. Len(table') \in Nat /\ Len(table') <= Len(table)
    <3> DEFINE r == RemoveAt(table, i)
    <3>1. r \in Seq(Launched) /\ Len(r) = Len(table) - 1
      BY <2>2
    <3>2. table[i] \in Launched
      BY <1>0
    <3>3. table' = r \/ table' = Append(r, table[i])
      BY <2>1
    <3> HIDE DEF r
    <3>4. Len(r) \in Nat /\ Len(Append(r, table[i])) = Len(r) + 1
      BY <3>1, <3>2
    <3> QED
      BY <1>0, <3>1, <3>3, <3>4
  <2>4. client'[c].step \in {"using", "closing"} /\ \A d \in Clients : d # c => client'[d] = client[d]
    BY <1>f, <2>1
  <2>5. Creating' \subseteq Creating
    BY <1>a, <2>4
  <2> QED
    BY <1>g, <2>3, <2>5
<1>5. CASE GrowIdle \/ CollectIdle \/ CloseIdle
  <2>1. table' = table /\ client' = client
    BY <1>5 DEF GrowIdle, CollectIdle, CloseIdle
  <2>2. Creating' = Creating
    BY <1>a, <2>1
  <2> QED
    BY <1>0, <1>g, <2>1, <2>2
<1>6. CASE RemoveIdle
  <2>1. table' \in Without(sweep.sessions) /\ client' = client
    BY <1>6 DEF RemoveIdle
  <2>2. table' \in Seq(Launched) /\ Len(table') <= Len(table)
    BY <2>1, WithoutFacts DEF OneHolder
  <2>3. Creating' = Creating
    BY <1>a, <2>1
  <2> QED
    BY <1>g, <2>2, <2>3
<1> QED
  BY <1>1, <1>2, <1>3, <1>4, <1>5, <1>6 DEF ManagerNext

LEMMA ManagedStep == Managed /\ [ManagerNext]_managerVars => Managed'
<1> SUFFICES ASSUME Managed, [ManagerNext]_managerVars PROVE Managed'
  OBVIOUS
<1>1. CASE ManagerNext
  BY <1>1, ManagerTypesStep, OneHolderStep, LimitStep DEF Managed, OneHolder
<1>2. CASE UNCHANGED managerVars
  <2>1. UNCHANGED <<browsers, table, idle, client, sweep, asking, strays>>
    BY <1>2 DEF managerVars
  <2>2. ManagerTypes'
    BY <2>1 DEF Managed, ManagerTypes, CallsTyped, Launched, InTable
  <2>3. OneHolder'
    BY <2>1 DEF Managed, OneHolder, HeldByOne, CallsHold, OneCallHolds, TableHolds, SweepHolds,
                RunningIsHeld, Holds, ToSweep, Launched, InTable
  <2>4. LimitByRaceOnly'
    BY <2>1 DEF Managed, LimitByRaceOnly, At
  <2> QED
    BY <2>2, <2>3, <2>4 DEF Managed
<1> QED
  BY <1>1, <1>2

(* A running browser that is no stray is held once; one that is closed is  *)
(* held by nobody.                                                         *)
LEMMA ManagedAccounts == Managed => BrowsersAccounted /\ ManagerTypeOK
<1> SUFFICES ASSUME Managed PROVE BrowsersAccounted /\ ManagerTypeOK
  OBVIOUS
<1>0. /\ IsInjective(table) /\ CallsHold /\ OneCallHolds /\ TableHolds /\ SweepHolds /\ RunningIsHeld
      /\ ManagerTypes /\ InTable \subseteq Launched
  BY DEF Managed, OneHolder, HeldByOne, ManagerTypes, InTable, ToSet
<1>1. ManagerTypeOK
  <2>1. \A c \in Clients : Of(c) \in Launched \cup {0}
    BY <1>0 DEF ManagerTypes, CallsTyped, Of
  <2> QED
    BY <1>0, <2>1 DEF ManagerTypeOK, ManagerTypes
<1>2. ASSUME NEW s \in Launched \ strays
      PROVE  Cardinality(Holders(s)) = IF browsers[s] = "running" THEN 1 ELSE 0
  <2>1. Holders(s) = {c \in Clients : Holds(c) /\ client[c].session = s}
                        \cup (IF s \in InTable THEN {"table"} ELSE {})
                        \cup (IF s \in ToSweep THEN {"sweep"} ELSE {})
    BY DEF Holders, Holds, At, Of, ToSweep
  <2>2. CASE browsers[s] # "running"
    <3>1. Holders(s) = {}
      BY <1>0, <2>1, <2>2 DEF CallsHold, TableHolds, SweepHolds
    <3> QED
      BY <2>2, <3>1, FS_EmptySet
  <2>3. CASE browsers[s] = "running" /\ s \in InTable
    <3>1. Holders(s) = {"table"}
      BY <1>0, <2>1, <2>3 DEF CallsHold, TableHolds
    <3> QED
      BY <2>3, <3>1, FS_Singleton
  <2>4. CASE browsers[s] = "running" /\ s \notin InTable /\ s \in ToSweep
    <3>1. Holders(s) = {"sweep"}
      BY <1>0, <2>1, <2>4 DEF CallsHold
    <3> QED
      BY <2>4, <3>1, FS_Singleton
  <2>5. CASE browsers[s] = "running" /\ s \notin InTable /\ s \notin ToSweep
    <3>1. PICK c \in Clients : Holds(c) /\ client[c].session = s
      BY <1>0, <2>5 DEF RunningIsHeld
    <3>2. Holders(s) = {c}
      BY <1>0, <2>1, <2>5, <3>1 DEF OneCallHolds
    <3> QED
      BY <2>5, <3>2, FS_Singleton
  <2> QED
    BY <2>2, <2>3, <2>4, <2>5
<1> QED
  BY <1>0, <1>1, <1>2 DEF BrowsersAccounted

(* ------------------------------ the tabs ------------------------------- *)

(* The pages that are open, or closed by themselves or with a tab. *)
KnownPages == pages \cup selfClosed \cup {tabs[t] : t \in closedTabs}

TabTypes ==
    /\ opened \in Nat /\ pages \subseteq 1..opened /\ selfClosed \subseteq 1..opened
    /\ iframeCtx \in 0..opened
    /\ tabs \in Seq(1..opened) /\ closedTabs \subseteq DOMAIN tabs /\ activeTab \in DOMAIN tabs
    /\ DOMAIN tabCall = TabClients
    /\ \A c \in TabClients : tabCall[c].step \in {"opened", "frame"} => tabCall[c].arg \in 1..opened

(* Each tab has a known page, and so has one that is about to be added;    *)
(* while there are tabs, one of them is the active one.                    *)
TabsKnown ==
    /\ \A t \in TabIds : tabs[t] \in KnownPages
    /\ \A c \in TabClients : tabCall[c].step = "opened" => tabCall[c].arg \in KnownPages
    /\ TabIds # {} => activeTab \in TabIds

Tabbed == TabTypes /\ TabsKnown

LEMMA TabbedInit == TabsInit => Tabbed
<1> SUFFICES ASSUME TabsInit PROVE Tabbed
  OBVIOUS
<1>1. /\ pages = {1} /\ opened = 1 /\ tabs = <<1>> /\ closedTabs = {} /\ activeTab = 1
      /\ iframeCtx = 0 /\ selfClosed = {} /\ tabCall = [c \in TabClients |-> Ready]
  BY DEF TabsInit
<1>2. DOMAIN tabs = {1} /\ tabs[1] = 1 /\ tabs \in Seq({1}) /\ 1..opened = {1}
  BY <1>1
<1>3. \A c \in TabClients : tabCall[c].step = "idle"
  BY <1>1 DEF Ready
<1>4. TabTypes
  BY <1>1, <1>2, <1>3 DEF TabTypes
<1>5. TabsKnown
  BY <1>1, <1>2, <1>3 DEF TabsKnown, TabIds, KnownPages
<1> QED
  BY <1>4, <1>5 DEF Tabbed

(* A call goes to a step with a page that is open, or with none. *)
LEMMA TabCallGoes ==
    ASSUME Tabbed, NEW c \in TabClients, NEW step, NEW arg, CallTo(c, step, arg),
           opened' \in Nat, opened <= opened', KnownPages \subseteq KnownPages',
           step \in {"opened", "frame"} => arg \in 1..opened',
           step = "opened" => arg \in KnownPages'
    PROVE  /\ DOMAIN tabCall' = TabClients
           /\ \A d \in TabClients : tabCall'[d].step \in {"opened", "frame"} => tabCall'[d].arg \in 1..opened'
           /\ \A d \in TabClients : tabCall'[d].step = "opened" => tabCall'[d].arg \in KnownPages'
<1>1. /\ opened \in Nat /\ DOMAIN tabCall = TabClients
      /\ \A d \in TabClients : tabCall[d].step \in {"opened", "frame"} => tabCall[d].arg \in 1..opened
      /\ \A d \in TabClients : tabCall[d].step = "opened" => tabCall[d].arg \in KnownPages
  BY DEF Tabbed, TabTypes, TabsKnown
<1>2. /\ DOMAIN tabCall' = TabClients /\ tabCall'[c].step = step /\ tabCall'[c].arg = arg
      /\ \A d \in TabClients : d # c => tabCall'[d] = tabCall[d]
  BY <1>1 DEF CallTo
<1>3. 1..opened \subseteq 1..opened'
  BY <1>1
<1> QED
  BY <1>1, <1>2, <1>3

(* A page under a new tab. *)
LEMMA TabAdded ==
    ASSUME Tabbed, NEW c \in TabClients, NEW tab \in KnownPages, tab \in 1..opened, AddTab(c, tab),
           UNCHANGED <<pages, opened, closedTabs, selfClosed>>
    PROVE  Tabbed'
<1>0. /\ opened \in Nat /\ tabs \in Seq(1..opened) /\ Len(tabs) \in Nat /\ DOMAIN tabs = 1..Len(tabs)
      /\ closedTabs \subseteq DOMAIN tabs
  BY DEF Tabbed, TabTypes
<1>1. tabs' = Append(tabs, tab) /\ activeTab' = Len(tabs) + 1 /\ iframeCtx' = 0 /\ CallTo(c, "idle", 0)
  BY DEF AddTab
<1>2. /\ tabs' \in Seq(1..opened) /\ DOMAIN tabs' = 1..(Len(tabs) + 1) /\ tabs'[Len(tabs) + 1] = tab
      /\ \A t \in DOMAIN tabs : tabs'[t] = tabs[t]
  BY <1>0, <1>1
<1>3. KnownPages' = KnownPages
  BY <1>0, <1>2 DEF KnownPages
<1>4. TabIds' = TabIds \cup {Len(tabs) + 1}
  BY <1>0, <1>2 DEF TabIds
<1>5. /\ DOMAIN tabCall' = TabClients
      /\ \A d \in TabClients : tabCall'[d].step \in {"opened", "frame"} => tabCall'[d].arg \in 1..opened'
      /\ \A d \in TabClients : tabCall'[d].step = "opened" => tabCall'[d].arg \in KnownPages'
  BY <1>0, <1>1, <1>3, TabCallGoes
<1>6. TabTypes'
  BY <1>0, <1>1, <1>2, <1>5 DEF Tabbed, TabTypes
<1>7. TabsKnown'
  BY <1>0, <1>1, <1>2, <1>3, <1>4, <1>5 DEF Tabbed, TabsKnown, TabIds
<1> QED
  BY <1>6, <1>7 DEF Tabbed

(* Steps that leave the tabs alone: pages are opened or close by           *)
(* themselves, a frame is entered or left, a call goes on.                 *)
LEMMA TabsStay ==
    ASSUME Tabbed, UNCHANGED <<tabs, closedTabs>>,
           activeTab' = activeTab \/ activeTab' \in TabIds,
           opened' \in Nat, opened <= opened', pages' \cup selfClosed' \subseteq 1..opened',
           pages \cup selfClosed \subseteq pages' \cup selfClosed',
           iframeCtx' \in 0..opened',
           \/ UNCHANGED tabCall
           \/ \E c \in TabClients, step \in {"idle", "opened", "clicked", "frame"} : \E arg :
                 /\ CallTo(c, step, arg)
                 /\ step \in {"opened", "frame"} => arg \in 1..opened'
                 /\ step = "opened" => arg \in pages'
    PROVE  Tabbed'
<1>0. /\ opened \in Nat /\ tabs \in Seq(1..opened) /\ closedTabs \subseteq DOMAIN tabs
      /\ activeTab \in DOMAIN tabs
  BY DEF Tabbed, TabTypes
<1>1. KnownPages \subseteq KnownPages' /\ pages' \subseteq KnownPages'
  BY DEF KnownPages
<1>2. TabIds' = TabIds
  BY DEF TabIds
<1>3. /\ DOMAIN tabCall' = TabClients
      /\ \A d \in TabClients : tabCall'[d].step \in {"opened", "frame"} => tabCall'[d].arg \in 1..opened'
      /\ \A d \in TabClients : tabCall'[d].step = "opened" => tabCall'[d].arg \in KnownPages'
  <2>1. CASE UNCHANGED tabCall
    <3>1. 1..opened \subseteq 1..opened'
      BY <1>0
    <3> QED
      BY <1>1, <2>1, <3>1 DEF Tabbed, TabTypes, TabsKnown
  <2>2. ASSUME NEW c \in TabClients, NEW step, NEW arg, CallTo(c, step, arg),
               step \in {"opened", "frame"} => arg \in 1..opened',
               step = "opened" => arg \in pages'
        PROVE  /\ DOMAIN tabCall' = TabClients
               /\ \A d \in TabClients : tabCall'[d].step \in {"opened", "frame"} => tabCall'[d].arg \in 1..opened'
               /\ \A d \in TabClients : tabCall'[d].step = "opened" => tabCall'[d].arg \in KnownPages'
    <3>1. step = "opened" => arg \in KnownPages'
      BY <1>1, <2>2
    <3> QED
      BY <1>1, <2>2, <3>1, TabCallGoes
  <2> QED
    BY <2>1, <2>2
<1>4. 1..opened \subseteq 1..opened'
  BY <1>0
<1>5. tabs' \in Seq(1..opened')
  BY <1>0, <1>4
<1>6. TabTypes'
  BY <1>0, <1>2, <1>3, <1>5 DEF TabTypes, TabIds
<1>7. TabsKnown'
  BY <1>1, <1>2, <1>3 DEF Tabbed, TabsKnown
<1> QED
  BY <1>6, <1>7 DEF Tabbed

LEMMA TabbedStep == Tabbed /\ [TabsNext]_tabVars => Tabbed'
<1> SUFFICES ASSUME Tabbed, [TabsNext]_tabVars PROVE Tabbed'
  OBVIOUS
<1>0. /\ opened \in Nat /\ pages \subseteq 1..opened /\ selfClosed \subseteq 1..opened
      /\ iframeCtx \in 0..opened
      /\ tabs \in Seq(1..opened) /\ closedTabs \subseteq DOMAIN tabs /\ activeTab \in DOMAIN tabs
      /\ DOMAIN tabCall = TabClients
      /\ \A c \in TabClients : tabCall[c].step \in {"opened", "frame"} => tabCall[c].arg \in 1..opened
      /\ \A c \in TabClients : tabCall[c].step = "opened" => tabCall[c].arg \in KnownPages
  BY DEF Tabbed, TabTypes, TabsKnown
<1>a. OpenPage => /\ opened' = opened + 1 /\ opened' \in Nat /\ opened <= opened'
                  /\ opened' \in pages' /\ opened' \in 1..opened' /\ iframeCtx \in 0..opened'
                  /\ pages \subseteq pages' /\ pages' \cup selfClosed \subseteq 1..opened'
  <2> SUFFICES ASSUME OpenPage
               PROVE  /\ opened' = opened + 1 /\ opened' \in Nat /\ opened <= opened'
                      /\ opened' \in pages' /\ opened' \in 1..opened' /\ iframeCtx \in 0..opened'
                      /\ pages \subseteq pages' /\ pages' \cup selfClosed \subseteq 1..opened'
    OBVIOUS
  <2>1. opened' = opened + 1 /\ pages' = pages \cup {opened + 1}
    BY DEF OpenPage
  <2>2. opened' \in Nat /\ opened <= opened' /\ opened' \in 1..opened' /\ 0..opened \subseteq 0..opened'
        /\ 1..opened \subseteq 1..opened'
    BY <1>0, <2>1
  <2> QED
    BY <1>0, <2>1, <2>2
<1>1. ASSUME NEW c \in TabClients, NewTab(c) PROVE Tabbed'
  <2>1. UNCHANGED <<tabs, closedTabs, activeTab, iframeCtx, selfClosed>> /\ OpenPage
        /\ (CallTo(c, "idle", 0) \/ CallTo(c, "opened", opened'))
    BY <1>1 DEF NewTab
  <2>2. \E step \in {"idle", "opened", "clicked", "frame"} : \E arg :
           /\ CallTo(c, step, arg)
           /\ step \in {"opened", "frame"} => arg \in 1..opened'
           /\ step = "opened" => arg \in pages'
    <3>1. CASE CallTo(c, "idle", 0)
      BY <3>1
    <3>2. CASE CallTo(c, "opened", opened')
      BY <1>a, <2>1, <3>2
    <3> QED
      BY <2>1, <3>1, <3>2
  <2>3. /\ opened' \in Nat /\ opened <= opened' /\ pages' \cup selfClosed' \subseteq 1..opened'
        /\ pages \cup selfClosed \subseteq pages' \cup selfClosed' /\ iframeCtx' \in 0..opened'
    BY <1>a, <2>1
  <2> QED
    BY <2>1, <2>2, <2>3, TabsStay
<1>2. ASSUME NEW c \in TabClients, NewTabAdded(c) PROVE Tabbed'
  <2>1. tabCall[c].step = "opened" /\ AddTab(c, tabCall[c].arg)
        /\ UNCHANGED <<pages, opened, closedTabs, selfClosed>>
    BY <1>2 DEF NewTabAdded, CallAt
  <2>2. tabCall[c].arg \in KnownPages /\ tabCall[c].arg \in 1..opened
    BY <1>0, <2>1
  <2> QED
    BY <2>1, <2>2, TabAdded
<1>3. ASSUME NEW c \in TabClients, FindIframe(c) PROVE Tabbed'
  <2>1. UNCHANGED <<pages, opened, tabs, closedTabs, activeTab, iframeCtx, selfClosed>>
        /\ CallTo(c, "frame", ActivePage) /\ ActivePage \in pages
    BY <1>3 DEF FindIframe
  <2> QED
    BY <1>0, <2>1, TabsStay
<1>4. ASSUME NEW c \in TabClients, EnterIframe(c) PROVE Tabbed'
  <2>1. UNCHANGED <<pages, opened, tabs, closedTabs, activeTab, selfClosed>>
        /\ CallTo(c, "idle", 0) /\ iframeCtx' = tabCall[c].arg /\ tabCall[c].step = "frame"
    BY <1>4 DEF EnterIframe, CallAt
  <2> QED
    BY <1>0, <2>1, TabsStay
<1>5. ASSUME NEW c \in TabClients, ClickForNewTab(c) PROVE Tabbed'
  <2>1. UNCHANGED <<tabs, closedTabs, activeTab, iframeCtx, selfClosed>>
        /\ CallTo(c, "clicked", Cardinality(TabIds)) /\ (OpenPage \/ UNCHANGED <<pages, opened>>)
    BY <1>5 DEF ClickForNewTab
  <2>2. \E step \in {"idle", "opened", "clicked", "frame"} : \E arg :
           /\ CallTo(c, step, arg)
           /\ step \in {"opened", "frame"} => arg \in 1..opened'
           /\ step = "opened" => arg \in pages'
    BY <2>1
  <2>3. /\ opened' \in Nat /\ opened <= opened' /\ pages' \cup selfClosed' \subseteq 1..opened'
        /\ pages \cup selfClosed \subseteq pages' \cup selfClosed' /\ iframeCtx' \in 0..opened'
    <3>1. CASE OpenPage
      BY <1>a, <2>1, <3>1
    <3>2. CASE UNCHANGED <<pages, opened>>
      BY <1>0, <2>1, <3>2
    <3> QED
      BY <2>1, <3>1, <3>2
  <2> QED
    BY <2>1, <2>2, <2>3, TabsStay
<1>6. ASSUME NEW c \in TabClients, ClickFindsTab(c) PROVE Tabbed'
  <2>1. PICK tab \in pages : AddTab(c, tab)
    BY <1>6 DEF ClickFindsTab
  <2>2. UNCHANGED <<pages, opened, closedTabs, selfClosed>>
    BY <1>6 DEF ClickFindsTab
  <2>3. tab \in KnownPages /\ tab \in 1..opened
    BY <1>0 DEF KnownPages
  <2> QED
    BY <2>1, <2>2, <2>3, TabAdded
<1>7. ASSUME NEW c \in TabClients, ClickFindsNone(c) PROVE Tabbed'
  <2>1. UNCHANGED <<pages, opened, tabs, closedTabs, activeTab, iframeCtx, selfClosed>>
        /\ CallTo(c, "idle", 0)
    BY <1>7 DEF ClickFindsNone
  <2> QED
    BY <1>0, <2>1, TabsStay
<1>8. ASSUME NEW t \in TabIds, SwitchTab(t) PROVE Tabbed'
  <2>1. UNCHANGED <<pages, opened, tabs, closedTabs, tabCall, selfClosed>>
        /\ activeTab' = t /\ iframeCtx' = 0
    BY <1>8 DEF SwitchTab
  <2> QED
    BY <1>0, <2>1, TabsStay
<1>9. ASSUME NEW t \in TabIds, CloseTab(t) PROVE Tabbed'
  <2>1. /\ UNCHANGED <<opened, tabs, iframeCtx, tabCall, selfClosed>>
        /\ pages' = pages \ {tabs[t]} /\ closedTabs' = closedTabs \cup {t} /\ NextActive(t)
    BY <1>9 DEF CloseTab
  <2>2. TabIds' = TabIds \ {t} /\ t \in DOMAIN tabs
    BY <2>1 DEF TabIds
  <2>3. KnownPages \subseteq KnownPages'
    BY <2>1 DEF KnownPages
  <2>4. activeTab' \in DOMAIN tabs /\ (TabIds' # {} => activeTab' \in TabIds')
    <3>1. TabIds # {} => activeTab \in TabIds
      BY DEF Tabbed, TabsKnown
    <3>2. TabIds \subseteq DOMAIN tabs
      BY DEF TabIds
    <3> QED
      BY <1>0, <2>1, <2>2, <3>1, <3>2 DEF NextActive
  <2>5. TabTypes'
    BY <1>0, <2>1, <2>2, <2>4 DEF TabTypes
  <2>6. TabsKnown'
    BY <2>1, <2>2, <2>3, <2>4 DEF Tabbed, TabsKnown
  <2> QED
    BY <2>5, <2>6 DEF Tabbed
<1>10. CASE ExitIframe
  <2>1. UNCHANGED <<pages, opened, tabs, closedTabs, activeTab, tabCall, selfClosed>> /\ iframeCtx' = 0
    BY <1>10 DEF ExitIframe
  <2> QED
    BY <1>0, <2>1, TabsStay
<1>11. CASE PagePopsUp
  <2>1. UNCHANGED <<tabs, closedTabs, activeTab, iframeCtx, tabCall, selfClosed>> /\ OpenPage
    BY <1>11 DEF PagePopsUp
  <2>2. /\ opened' \in Nat /\ opened <= opened' /\ pages' \cup selfClosed' \subseteq 1..opened'
        /\ pages \cup selfClosed \subseteq pages' \cup selfClosed' /\ iframeCtx' \in 0..opened'
    BY <1>a, <2>1
  <2> QED
    BY <2>1, <2>2, TabsStay
<1>12. CASE PageCloses
  <2>1. PICK tab \in pages : pages' = pages \ {tab} /\ selfClosed' = selfClosed \cup {tab}
    BY <1>12 DEF PageCloses
  <2>2. UNCHANGED <<opened, tabs, closedTabs, activeTab, iframeCtx, tabCall>>
    BY <1>12 DEF PageCloses
  <2>3. /\ opened' \in Nat /\ opened <= opened' /\ pages' \cup selfClosed' \subseteq 1..opened'
        /\ pages \cup selfClosed \subseteq pages' \cup selfClosed' /\ iframeCtx' \in 0..opened'
    <3>1. pages' \cup selfClosed' = pages \cup selfClosed
      BY <2>1
    <3>2. opened' = opened /\ iframeCtx' = iframeCtx
      BY <2>2
    <3>3. pages \cup selfClosed \subseteq 1..opened /\ opened <= opened
      BY <1>0
    <3> QED
      BY ONLY <1>0, <3>1, <3>2, <3>3
  <2> QED
    BY <2>2, <2>3, TabsStay
<1>13. CASE UNCHANGED tabVars
  <2>1. UNCHANGED <<pages, opened, tabs, closedTabs, activeTab, iframeCtx, tabCall, selfClosed>>
    BY <1>13 DEF tabVars
  <2> QED
    BY <1>0, <2>1, TabsStay
<1> QED
  BY <1>1, <1>2, <1>3, <1>4, <1>5, <1>6, <1>7, <1>8, <1>9, <1>10, <1>11, <1>12, <1>13 DEF TabsNext

LEMMA TabbedReaches == Tabbed => UnreachableOnlyBy /\ TabsTypeOK
<1> SUFFICES ASSUME Tabbed PROVE UnreachableOnlyBy /\ TabsTypeOK
  OBVIOUS
<1>1. TabsTypeOK
  BY DEF Tabbed, TabTypes, TabsTypeOK
<1>2. CASE TabIds # {} /\ iframeCtx = 0
  <2>1. ActivePage = tabs[activeTab] /\ tabs[activeTab] \in KnownPages
    BY <1>2 DEF Tabbed, TabsKnown, ActivePage
  <2> QED
    BY <1>1, <2>1 DEF KnownPages, UnreachableOnlyBy
<1> QED
  BY <1>1, <1>2 DEF UnreachableOnlyBy

(* ---------------------------- the routes ------------------------------- *)

RouteSteps == {"idle", "enable", "start", "stop", "disable"}

RouteTypes ==
    /\ routes \in SUBSET Routes /\ fetching \in [Tabs -> {"no", "some", "all"}] /\ current \in Tabs /\ lapsed \in BOOLEAN
    /\ loops \in Seq([page : Tabs, stopping : BOOLEAN]) /\ routeStop \in 0..Len(loops)
    /\ routeActive \in BOOLEAN /\ (routeActive => routeStop # 0)
    /\ DOMAIN routeCall = RouteClients
    /\ \A c \in RouteClients : routeCall[c].step \in RouteSteps /\ routeCall[c].page \in Tabs

(* A loop answers for the active page, all of whose requests are paused.   *)
Served == fetching[current] = "all" /\ \E l \in DOMAIN loops : loops[l].page = current

(* Since nothing took Fetch away, no two calls ran: one that starts a loop *)
(* has enabled Fetch at the active page, one that stops it has removed the *)
(* last route, and between calls the active page is served.                *)
NotLapsed ==
    /\ \A c, d \in RouteClients : c # d => IsAt(c, "idle") \/ IsAt(d, "idle")
    /\ \A c \in RouteClients :
          /\ IsAt(c, "start") => PageOf(c) = current /\ fetching[current] = "all"
          /\ IsAt(c, "stop") => routes = {}
          /\ IsAt(c, "disable") => routes = {} /\ ~routeActive
    /\ Calm /\ (routes # {} \/ routeActive) => Served

Routed == RouteTypes /\ (lapsed \/ NotLapsed)

LEMMA RoutedInit == RoutesInit => Routed
<1> SUFFICES ASSUME RoutesInit PROVE Routed
  OBVIOUS
<1>1. NewRoutes.page \in Tabs /\ NewRoutes.step = "idle"
  BY RoutesAssumption DEF NewRoutes
<1>2. RouteTypes
  <2>1. /\ routes = {} /\ routeActive = FALSE /\ routeStop = 0 /\ loops = << >>
        /\ fetching = [t \in Tabs |-> "no"]
        /\ current = NewRoutes.page /\ lapsed = FALSE /\ routeCall = [c \in RouteClients |-> NewRoutes]
    BY DEF RoutesInit
  <2>2. loops \in Seq([page : Tabs, stopping : BOOLEAN]) /\ routeStop \in 0..Len(loops)
    BY <2>1
  <2> QED
    BY <1>1, <2>1, <2>2 DEF RouteTypes, RouteSteps
<1>3. NotLapsed
  BY <1>1 DEF RoutesInit, NotLapsed, IsAt
<1> QED
  BY <1>2, <1>3 DEF Routed

(* What a step of a call leaves of the calls.                              *)
LEMMA RouteCallGoes ==
    ASSUME RouteTypes, NEW c \in RouteClients, NEW step \in RouteSteps, NEW tab \in Tabs,
           routeCall' = [routeCall EXCEPT ![c] = [step |-> step, page |-> tab]]
    PROVE  /\ DOMAIN routeCall' = RouteClients
           /\ routeCall'[c].step = step /\ routeCall'[c].page = tab
           /\ \A d \in RouteClients : d # c => routeCall'[d] = routeCall[d]
           /\ \A d \in RouteClients : routeCall'[d].step \in RouteSteps /\ routeCall'[d].page \in Tabs
BY DEF RouteTypes

LEMMA RoutedStep == Routed /\ [RoutesNext]_routeVars => Routed'
<1> SUFFICES ASSUME Routed, [RoutesNext]_routeVars PROVE Routed'
  OBVIOUS
<1>0. RouteTypes /\ (lapsed \/ NotLapsed) /\ lapsed \in BOOLEAN
  BY DEF Routed, RouteTypes
<1>z. /\ Len(loops) \in Nat /\ DOMAIN loops = 1..Len(loops) /\ routeStop \in 0..Len(loops)
      /\ \A l \in DOMAIN loops : loops[l] \in [page : Tabs, stopping : BOOLEAN]
  <2>1. loops \in Seq([page : Tabs, stopping : BOOLEAN]) /\ routeStop \in 0..Len(loops)
    BY <1>0 DEF RouteTypes
  <2> DEFINE Loop == [page : Tabs, stopping : BOOLEAN]
  <2>2. loops \in Seq(Loop)
    BY <2>1
  <2> HIDE DEF Loop
  <2>3. Len(loops) \in Nat /\ DOMAIN loops = 1..Len(loops) /\ \A l \in DOMAIN loops : loops[l] \in Loop
    BY <2>2
  <2> USE DEF Loop
  <2> QED
    BY <2>1, <2>3
<1>n. NewRoutes.page \in Tabs /\ NewRoutes = [step |-> "idle", page |-> NewRoutes.page]
  BY RoutesAssumption DEF NewRoutes
<1>1. ASSUME NEW c \in RouteClients, AddRoute(c) PROVE Routed'
  <2>1. /\ routeCall[c].step = "idle" /\ routes' \in SUBSET Routes
        /\ routeActive \/ routeCall' = [routeCall EXCEPT ![c] = [step |-> "enable", page |-> current]]
        /\ routeActive => routeCall' = routeCall
        /\ lapsed' = (lapsed \/ ~Calm)
        /\ UNCHANGED <<routeActive, routeStop, loops, fetching, current>>
    BY <1>0, <1>1 DEF AddRoute, IsAt, Steps, RouteTypes
  <2>2. CASE routeActive
    <3>1. RouteTypes'
      BY <1>0, <2>1, <2>2 DEF RouteTypes
    <3>2. ASSUME ~lapsed' PROVE NotLapsed'
      <4>1. NotLapsed /\ Calm
        BY <1>0, <2>1, <3>2
      <4>2. Served' /\ \A d \in RouteClients : routeCall'[d].step = "idle"
        BY <2>1, <2>2, <4>1 DEF NotLapsed, Served, Calm, IsAt
      <4> QED
        BY <4>2 DEF NotLapsed, IsAt
    <3> QED
      BY <3>1, <3>2 DEF Routed
  <2>3. CASE ~routeActive
    <3>1. /\ DOMAIN routeCall' = RouteClients
          /\ routeCall'[c].step = "enable"
          /\ \A d \in RouteClients : d # c => routeCall'[d] = routeCall[d]
          /\ \A d \in RouteClients : routeCall'[d].step \in RouteSteps /\ routeCall'[d].page \in Tabs
      <4>1. current \in Tabs /\ "enable" \in RouteSteps
        BY <1>0 DEF RouteTypes, RouteSteps
      <4> QED
        BY <1>0, <2>1, <2>3, <4>1, RouteCallGoes
    <3>2. RouteTypes'
      BY <1>0, <2>1, <3>1 DEF RouteTypes
    <3>3. ASSUME ~lapsed' PROVE NotLapsed'
      <4>1. \A d \in RouteClients : routeCall[d].step = "idle"
        BY <2>1, <3>3 DEF Calm, IsAt
      <4> QED
        BY <3>1, <4>1 DEF NotLapsed, IsAt, Calm
    <3> QED
      BY <3>2, <3>3 DEF Routed
  <2> QED
    BY <2>2, <2>3
<1>2. ASSUME NEW c \in RouteClients, EnableFetch(c) PROVE Routed'
  <2>0. /\ UNCHANGED <<routes, routeActive, routeStop, loops, current>>
        /\ PageOf(c) \in Tabs /\ "idle" \in RouteSteps /\ "start" \in RouteSteps
    BY <1>0, <1>2 DEF EnableFetch, RouteTypes, PageOf, RouteSteps
  <2>1. CASE RouteDone(c) /\ lapsed' = TRUE /\ UNCHANGED fetching
    <3>1. /\ DOMAIN routeCall' = RouteClients
          /\ \A d \in RouteClients : routeCall'[d].step \in RouteSteps /\ routeCall'[d].page \in Tabs
      BY <1>0, <1>n, <2>0, <2>1, RouteCallGoes DEF RouteDone
    <3>2. RouteTypes'
      BY <1>0, <2>0, <2>1, <3>1 DEF RouteTypes
    <3> QED
      BY <2>1, <3>2 DEF Routed
  <2>2. CASE /\ Steps(c, "start", PageOf(c)) /\ fetching' = [fetching EXCEPT ![PageOf(c)] = "all"]
             /\ lapsed' = (PageOf(c) # current \/ \E d \in RouteClients \ {c} : ~IsAt(d, "idle"))
    <3>1. /\ DOMAIN routeCall' = RouteClients
          /\ routeCall'[c].step = "start" /\ routeCall'[c].page = PageOf(c)
          /\ \A d \in RouteClients : d # c => routeCall'[d] = routeCall[d]
          /\ \A d \in RouteClients : routeCall'[d].step \in RouteSteps /\ routeCall'[d].page \in Tabs
      BY <1>0, <2>0, <2>2, RouteCallGoes DEF Steps
    <3>2. RouteTypes'
      BY <1>0, <2>0, <2>2, <3>1 DEF RouteTypes
    <3>3. ASSUME ~lapsed' PROVE NotLapsed'
      <4>1. /\ PageOf(c) = current /\ fetching'[current] = "all"
            /\ \A d \in RouteClients : d # c => routeCall[d].step = "idle"
        BY <1>0, <2>2, <3>3 DEF IsAt, RouteTypes
      <4> QED
        BY <2>0, <3>1, <4>1 DEF NotLapsed, IsAt, Calm, PageOf
    <3> QED
      BY <3>2, <3>3 DEF Routed
  <2> QED
    BY <1>2, <2>1, <2>2 DEF EnableFetch, Pauses
<1>3. ASSUME NEW c \in RouteClients, StartLoop(c) PROVE Routed'
  <2>1. /\ routeCall[c].step = "start" /\ routeActive' = TRUE /\ routeStop' = Len(loops) + 1
        /\ loops' = Append(loops, [page |-> PageOf(c), stopping |-> FALSE])
        /\ UNCHANGED <<routes, fetching, current, lapsed>>
        /\ routeCall' = [routeCall EXCEPT ![c] = [step |-> "idle", page |-> NewRoutes.page]]
        /\ PageOf(c) \in Tabs /\ "idle" \in RouteSteps
    BY <1>0, <1>3, <1>n DEF StartLoop, IsAt, RouteDone, RouteTypes, PageOf, RouteSteps
  <2>2. /\ loops' \in Seq([page : Tabs, stopping : BOOLEAN]) /\ Len(loops') = Len(loops) + 1
        /\ Len(loops) + 1 \in DOMAIN loops' /\ loops'[Len(loops) + 1].page = PageOf(c)
    BY <1>0, <1>z, <2>1 DEF RouteTypes
  <2>3. /\ DOMAIN routeCall' = RouteClients
        /\ routeCall'[c].step = "idle"
        /\ \A d \in RouteClients : d # c => routeCall'[d] = routeCall[d]
        /\ \A d \in RouteClients : routeCall'[d].step \in RouteSteps /\ routeCall'[d].page \in Tabs
    BY <1>0, <1>n, <2>1, RouteCallGoes
  <2>4. routeStop' \in 0..Len(loops') /\ routeStop' # 0
    BY <1>z, <2>1, <2>2
  <2>5. RouteTypes'
    BY <1>0, <2>1, <2>2, <2>3, <2>4 DEF RouteTypes
  <2>6. ASSUME NotLapsed PROVE NotLapsed'
    <3>1. /\ PageOf(c) = current /\ fetching[current] = "all"
          /\ \A d \in RouteClients : d # c => routeCall[d].step = "idle"
      BY <2>1, <2>6 DEF NotLapsed, IsAt
    <3>2. Served'
      BY <2>1, <2>2, <3>1 DEF Served
    <3>3. \A d \in RouteClients : routeCall'[d].step = "idle"
      BY <2>3, <3>1
    <3> QED
      BY <3>2, <3>3 DEF NotLapsed, IsAt
  <2> QED
    BY <1>0, <2>1, <2>5, <2>6 DEF Routed
<1>4. ASSUME NEW c \in RouteClients, RemoveRoute(c) PROVE Routed'
  <2>1. /\ routeCall[c].step = "idle" /\ routes' \in SUBSET Routes /\ (routes' # {} => routes # {})
        /\ routes' = {} => routeCall' = [routeCall EXCEPT ![c] = [step |-> "stop", page |-> current]]
        /\ routes' # {} => routeCall' = routeCall
        /\ lapsed' = (lapsed \/ ~Calm)
        /\ UNCHANGED <<routeActive, routeStop, loops, fetching, current>>
    BY <1>0, <1>4 DEF RemoveRoute, IsAt, Steps, RouteTypes
  <2>2. CASE routes' # {}
    <3>1. RouteTypes'
      BY <1>0, <2>1, <2>2 DEF RouteTypes
    <3>2. ASSUME ~lapsed' PROVE NotLapsed'
      <4>1. NotLapsed /\ Calm
        BY <1>0, <2>1, <3>2
      <4>2. Served' /\ \A d \in RouteClients : routeCall'[d].step = "idle"
        BY <2>1, <2>2, <4>1 DEF NotLapsed, Served, Calm, IsAt
      <4> QED
        BY <4>2 DEF NotLapsed, IsAt
    <3> QED
      BY <3>1, <3>2 DEF Routed
  <2>3. CASE routes' = {}
    <3>1. /\ DOMAIN routeCall' = RouteClients
          /\ routeCall'[c].step = "stop"
          /\ \A d \in RouteClients : d # c => routeCall'[d] = routeCall[d]
          /\ \A d \in RouteClients : routeCall'[d].step \in RouteSteps /\ routeCall'[d].page \in Tabs
      <4>1. current \in Tabs /\ "stop" \in RouteSteps
        BY <1>0 DEF RouteTypes, RouteSteps
      <4> QED
        BY <1>0, <2>1, <2>3, <4>1, RouteCallGoes
    <3>2. RouteTypes'
      BY <1>0, <2>1, <3>1 DEF RouteTypes
    <3>3. ASSUME ~lapsed' PROVE NotLapsed'
      <4>1. \A d \in RouteClients : routeCall[d].step = "idle"
        BY <2>1, <3>3 DEF Calm, IsAt
      <4> QED
        BY <2>3, <3>1, <4>1 DEF NotLapsed, IsAt, Calm
    <3> QED
      BY <3>2, <3>3 DEF Routed
  <2> QED
    BY <2>2, <2>3
<1>5. ASSUME NEW c \in RouteClients, StopLoop(c) PROVE Routed'
  <2>1. /\ routeCall[c].step = "stop"
        /\ routeCall' = [routeCall EXCEPT ![c] = [step |-> "disable", page |-> PageOf(c)]]
        /\ routeActive' = FALSE /\ routeStop' = 0
        /\ loops' = [l \in DOMAIN loops |->
                        IF l = routeStop THEN [loops[l] EXCEPT !.stopping = TRUE] ELSE loops[l]]
        /\ UNCHANGED <<routes, fetching, current, lapsed>>
        /\ PageOf(c) \in Tabs /\ "disable" \in RouteSteps
    BY <1>0, <1>5 DEF StopLoop, IsAt, Steps, RouteTypes, PageOf, RouteSteps
  <2>2. loops' \in Seq([page : Tabs, stopping : BOOLEAN]) /\ 0 \in 0..Len(loops')
    <3>1. \A l \in 1..Len(loops) : loops'[l] \in [page : Tabs, stopping : BOOLEAN]
      BY <1>z, <2>1
    <3>2. loops' \in [1..Len(loops) -> [page : Tabs, stopping : BOOLEAN]]
      BY <1>z, <2>1, <3>1
    <3> DEFINE Loop == [page : Tabs, stopping : BOOLEAN]
    <3>4. loops' \in [1..Len(loops) -> Loop]
      BY <3>2
    <3> HIDE DEF Loop
    <3>5. loops' \in Seq(Loop) /\ Len(loops') = Len(loops)
      BY <1>z, <3>4
    <3> USE DEF Loop
    <3>3. loops' \in Seq([page : Tabs, stopping : BOOLEAN]) /\ Len(loops') = Len(loops)
      BY <3>5
    <3> QED
      BY <1>z, <3>3
  <2>3. /\ DOMAIN routeCall' = RouteClients
        /\ routeCall'[c].step = "disable"
        /\ \A d \in RouteClients : d # c => routeCall'[d] = routeCall[d]
        /\ \A d \in RouteClients : routeCall'[d].step \in RouteSteps /\ routeCall'[d].page \in Tabs
    BY <1>0, <2>1, RouteCallGoes
  <2>4. RouteTypes'
    BY <1>0, <2>1, <2>2, <2>3 DEF RouteTypes
  <2>5. ASSUME NotLapsed PROVE NotLapsed'
    <3>1. routes = {} /\ \A d \in RouteClients : d # c => routeCall[d].step = "idle"
      BY <2>1, <2>5 DEF NotLapsed, IsAt
    <3> QED
      BY <2>1, <2>3, <3>1 DEF NotLapsed, IsAt, Calm
  <2> QED
    BY <1>0, <2>1, <2>4, <2>5 DEF Routed
<1>6. ASSUME NEW c \in RouteClients, DisableFetch(c) PROVE Routed'
  <2>1. /\ routeCall[c].step = "disable" /\ fetching' \in [Tabs -> {"no", "some", "all"}]
        /\ routeCall' = [routeCall EXCEPT ![c] = [step |-> "idle", page |-> NewRoutes.page]]
        /\ UNCHANGED <<routes, routeActive, routeStop, loops, current, lapsed>>
        /\ "idle" \in RouteSteps
    BY <1>0, <1>6, <1>n DEF DisableFetch, Pauses, IsAt, RouteDone, RouteTypes, RouteSteps
  <2>2. /\ DOMAIN routeCall' = RouteClients
        /\ routeCall'[c].step = "idle"
        /\ \A d \in RouteClients : d # c => routeCall'[d] = routeCall[d]
        /\ \A d \in RouteClients : routeCall'[d].step \in RouteSteps /\ routeCall'[d].page \in Tabs
    BY <1>0, <1>n, <2>1, RouteCallGoes
  <2>3. RouteTypes'
    BY <1>0, <2>1, <2>2 DEF RouteTypes
  <2>4. ASSUME NotLapsed PROVE NotLapsed'
    <3>1. routes = {} /\ ~routeActive /\ \A d \in RouteClients : d # c => routeCall[d].step = "idle"
      BY <2>1, <2>4 DEF NotLapsed, IsAt
    <3> QED
      BY <2>1, <2>2, <3>1 DEF NotLapsed, IsAt
  <2> QED
    BY <1>0, <2>1, <2>3, <2>4 DEF Routed
<1>7. CASE LoopDisables
  <2>1. PICK l \in DOMAIN loops : /\ fetching' = [fetching EXCEPT ![loops[l].page] = "no"]
                                  /\ loops' = [loops EXCEPT ![l].stopping = FALSE] /\ lapsed' = TRUE
                                  /\ UNCHANGED <<routes, routeActive, routeStop, routeCall, current>>
    BY <1>7 DEF LoopDisables, Pauses
  <2>2. loops' \in Seq([page : Tabs, stopping : BOOLEAN]) /\ Len(loops') = Len(loops)
    <3>1. [loops[l] EXCEPT !.stopping = FALSE] \in [page : Tabs, stopping : BOOLEAN]
      BY <1>z
    <3>2. loops' = [loops EXCEPT ![l] = [loops[l] EXCEPT !.stopping = FALSE]]
      BY <2>1
    <3> QED
      BY <1>0, <1>z, <3>1, <3>2 DEF RouteTypes
  <2>3. RouteTypes'
    BY <1>0, <2>1, <2>2 DEF RouteTypes
  <2> QED
    BY <2>1, <2>3 DEF Routed
<1>8. CASE FetchInterceptStart
  <2>1. PICK requests \in {"some", "all"} :
           fetching' = [fetching EXCEPT ![current] = requests] /\ lapsed' = (lapsed \/ requests = "some")
    BY <1>8 DEF FetchInterceptStart, Pauses
  <2>2. UNCHANGED <<routes, routeActive, routeStop, loops, routeCall, current>>
    BY <1>8 DEF FetchInterceptStart
  <2>3. RouteTypes'
    BY <1>0, <2>1, <2>2 DEF RouteTypes
  <2>4. ASSUME ~lapsed' PROVE NotLapsed'
    <3>1. NotLapsed /\ requests = "all"
      BY <1>0, <2>1, <2>4
    <3>2. fetching'[current'] = "all"
      BY <1>0, <2>1, <2>2, <3>1 DEF RouteTypes
    <3> QED
      BY <2>2, <3>1, <3>2 DEF NotLapsed, IsAt, PageOf, Calm, Served
  <2> QED
    BY <2>3, <2>4 DEF Routed
<1>9. CASE FetchInterceptStop \/ GoToTab
  <2>0. /\ UNCHANGED <<routes, routeActive, routeStop, loops, routeCall>> /\ lapsed' = TRUE
        /\ fetching' \in [Tabs -> {"no", "some", "all"}] /\ current' \in Tabs
    BY <1>0, <1>9 DEF FetchInterceptStop, Pauses, GoToTab, RouteTypes
  <2>1. RouteTypes' /\ lapsed'
    BY <1>0, <2>0 DEF RouteTypes
  <2> QED
    BY <2>1 DEF Routed
<1>10. CASE UNCHANGED routeVars
  BY <1>0, <1>10 DEF routeVars, Routed, RouteTypes, NotLapsed, IsAt, PageOf, Calm, Served
<1> QED
  BY <1>1, <1>2, <1>3, <1>4, <1>5, <1>6, <1>7, <1>8, <1>9, <1>10 DEF RoutesNext

LEMMA RoutedApplies == Routed => RoutesLapseOnlyBy /\ RoutesTypeOK
BY DEF Routed, RouteTypes, NotLapsed, Served, RoutesLapseOnlyBy, RoutesApply, Fulfilling, RoutesTypeOK,
       RouteSteps

(* ---------------------------- the headers ------------------------------ *)

HeaderSteps == {"idle", "send", "navigate", "restore"}

HeaderTypes ==
    /\ extraHeaders \in SUBSET Headers /\ wanted \in SUBSET Headers /\ view \in Views
    /\ pageHeaders \in [Views -> SUBSET Headers]
    /\ headerCall \in [HeaderClients -> [step : HeaderSteps, page : Views, copy : SUBSET Headers,
                                         old : SUBSET Headers]]

(* As long as nothing disturbed the page, no two calls run, one that will  *)
(* send has the headers that are wanted, and one that navigates will put   *)
(* them back; the session and the page have them when no call runs.        *)
HeadersUndisturbed ==
    /\ \A c, d \in HeaderClients : c # d => InStep(c, "idle") \/ InStep(d, "idle")
    /\ Resting => extraHeaders = wanted /\ pageHeaders[view] = wanted
    /\ \A c \in HeaderClients :
          /\ ~InStep(c, "idle") => headerCall[c].page = view
          /\ InStep(c, "send") => headerCall[c].copy = wanted /\ extraHeaders = wanted
          /\ InStep(c, "navigate") \/ InStep(c, "restore") => headerCall[c].old = wanted

Headed == HeaderTypes /\ (disturbed \/ HeadersUndisturbed)

LEMMA HeadedInit == PageInit => Headed
<1> SUFFICES ASSUME PageInit PROVE Headed
  OBVIOUS
<1>0. FirstView \in Views
  BY HeadersAssumption
<1>1. HeaderTypes
  BY <1>0 DEF PageInit, HeaderTypes, HeaderSteps, Rest
<1>2. HeadersUndisturbed
  BY <1>0 DEF PageInit, HeadersUndisturbed, Resting, InStep, Rest
<1> QED
  BY <1>1, <1>2 DEF Headed

(* A call that begins, or takes its next step, at the active page.         *)
LEMMA HeaderCallGoes ==
    ASSUME HeaderTypes, NEW c \in HeaderClients, NEW step \in HeaderSteps, NEW copy \in SUBSET Headers,
           NEW old \in SUBSET Headers, Sending(c, step, copy, old)
    PROVE  /\ headerCall' \in [HeaderClients -> [step : HeaderSteps, page : Views, copy : SUBSET Headers,
                                                 old : SUBSET Headers]]
           /\ headerCall'[c].step = step /\ headerCall'[c].page = view
           /\ headerCall'[c].copy = copy /\ headerCall'[c].old = old
           /\ \A d \in HeaderClients : d # c => headerCall'[d] = headerCall[d]
BY DEF HeaderTypes, Sending

(* A call that begins alone leaves the page undisturbed.                   *)
LEMMA HeaderCallBegins ==
    ASSUME Headed, NEW c \in HeaderClients, Begins(c), NEW step \in {"send", "navigate"},
           Sending(c, step, extraHeaders', IF step = "send" THEN {} ELSE extraHeaders), Overlaps,
           UNCHANGED <<pageHeaders, view>>,
           extraHeaders' \in SUBSET Headers, wanted' \in SUBSET Headers,
           IF step = "send" THEN extraHeaders = wanted => extraHeaders' = wanted' ELSE wanted' = wanted
    PROVE  Headed'
<1>0. HeaderTypes /\ HeadersUndisturbed
  BY DEF Headed, Begins
<1>1. /\ headerCall' \in [HeaderClients -> [step : HeaderSteps, page : Views, copy : SUBSET Headers,
                                            old : SUBSET Headers]]
      /\ headerCall'[c].step = step /\ headerCall'[c].page = view /\ headerCall'[c].copy = extraHeaders'
      /\ headerCall'[c].old = (IF step = "send" THEN {} ELSE extraHeaders)
      /\ \A d \in HeaderClients : d # c => headerCall'[d] = headerCall[d]
  <2>1. (IF step = "send" THEN {} ELSE extraHeaders) \in SUBSET Headers /\ step \in HeaderSteps
    BY <1>0 DEF HeaderTypes, HeaderSteps
  <2> QED
    BY <1>0, <2>1, HeaderCallGoes
<1>2. HeaderTypes'
  BY <1>0, <1>1 DEF HeaderTypes
<1>3. CASE Resting
  <2>1. extraHeaders = wanted /\ \A d \in HeaderClients : headerCall[d].step = "idle"
    BY <1>0, <1>3 DEF HeadersUndisturbed, Resting, InStep
  <2>2. HeadersUndisturbed'
    BY <1>1, <2>1 DEF HeadersUndisturbed, Resting, InStep
  <2> QED
    BY <1>2, <2>2 DEF Headed
<1>4. CASE ~Resting
  BY <1>2, <1>4 DEF Headed, Overlaps
<1> QED
  BY <1>3, <1>4

LEMMA HeadedStep == Headed /\ [PageNext]_pageVars => Headed'
<1> SUFFICES ASSUME Headed, [PageNext]_pageVars PROVE Headed'
  OBVIOUS
<1>0. /\ HeaderTypes /\ (disturbed \/ HeadersUndisturbed)
      /\ FirstView \in Views /\ {"Authorization"} \in SUBSET Headers
  BY HeadersAssumption DEF Headed
<1>1. ASSUME NEW c \in HeaderClients, SetExtraHeaders(c) PROVE Headed'
  <2>1. PICK names \in SUBSET Headers :
           extraHeaders' = extraHeaders \cup names /\ wanted' = wanted \cup names
    BY <1>1 DEF SetExtraHeaders
  <2>2. /\ Begins(c) /\ Sending(c, "send", extraHeaders', {}) /\ Overlaps
        /\ UNCHANGED <<pageHeaders, view>>
    BY <1>1 DEF SetExtraHeaders
  <2>3. extraHeaders' \in SUBSET Headers /\ wanted' \in SUBSET Headers
    BY <1>0, <2>1 DEF HeaderTypes
  <2> QED
    BY <2>1, <2>2, <2>3, HeaderCallBegins
<1>2. ASSUME NEW c \in HeaderClients, ClearExtraHeaders(c) PROVE Headed'
  <2>1. PICK names \in SUBSET Headers :
           extraHeaders' = extraHeaders \ names /\ wanted' = wanted \ names
    BY <1>2 DEF ClearExtraHeaders
  <2>2. /\ Begins(c) /\ Sending(c, "send", extraHeaders', {}) /\ Overlaps
        /\ UNCHANGED <<pageHeaders, view>>
    BY <1>2 DEF ClearExtraHeaders
  <2>3. extraHeaders' \in SUBSET Headers /\ wanted' \in SUBSET Headers
    BY <1>0, <2>1 DEF HeaderTypes
  <2> QED
    BY <2>1, <2>2, <2>3, HeaderCallBegins
<1>3. ASSUME NEW c \in HeaderClients, NavigateWithHeaders(c) PROVE Headed'
  <2>1. PICK names \in SUBSET Headers : extraHeaders' = extraHeaders \cup names
    BY <1>3 DEF NavigateWithHeaders
  <2>2. /\ Begins(c) /\ Sending(c, "navigate", extraHeaders', extraHeaders) /\ Overlaps
        /\ UNCHANGED <<pageHeaders, view, wanted>>
    BY <1>3 DEF NavigateWithHeaders
  <2>3. extraHeaders' \in SUBSET Headers /\ wanted' \in SUBSET Headers
    BY <1>0, <2>1, <2>2 DEF HeaderTypes
  <2> QED
    BY <2>2, <2>3, HeaderCallBegins
<1>4. ASSUME NEW c \in HeaderClients, SendHeaders(c) PROVE Headed'
  <2>1. /\ headerCall[c].step = "send" /\ UNCHANGED <<extraHeaders, view, wanted>>
        /\ headerCall' = [headerCall EXCEPT ![c] = Rest]
        /\ \/ /\ pageHeaders' = [pageHeaders EXCEPT ![headerCall[c].page] = headerCall[c].copy]
              /\ UNCHANGED disturbed
           \/ UNCHANGED pageHeaders /\ disturbed' = TRUE
    BY <1>4 DEF SendHeaders, InStep
  <2>2. /\ headerCall'[c].step = "idle"
        /\ \A d \in HeaderClients : d # c => headerCall'[d] = headerCall[d]
    BY <1>0, <2>1 DEF HeaderTypes, Rest
  <2>3. headerCall[c].page \in Views /\ headerCall[c].copy \in SUBSET Headers
    BY <1>0 DEF HeaderTypes
  <2>4. HeaderTypes'
    BY <1>0, <2>1, <2>3 DEF HeaderTypes, Rest, HeaderSteps
  <2>5. CASE HeadersUndisturbed /\ UNCHANGED disturbed
             /\ pageHeaders' = [pageHeaders EXCEPT ![headerCall[c].page] = headerCall[c].copy]
    <3>1. /\ headerCall[c].page = view /\ headerCall[c].copy = wanted /\ extraHeaders = wanted
          /\ \A d \in HeaderClients : d # c => headerCall[d].step = "idle"
      BY <2>1, <2>5 DEF HeadersUndisturbed, InStep
    <3>2. pageHeaders'[view] = wanted
      BY <1>0, <2>5, <3>1 DEF HeaderTypes
    <3>3. \A d \in HeaderClients : headerCall'[d].step = "idle"
      BY <2>2, <3>1
    <3>4. HeadersUndisturbed'
      BY <2>1, <3>1, <3>2, <3>3 DEF HeadersUndisturbed, InStep
    <3> QED
      BY <2>4, <3>4 DEF Headed
  <2> QED
    BY <1>0, <2>1, <2>4, <2>5 DEF Headed
<1>5. ASSUME NEW c \in HeaderClients, Navigate(c) PROVE Headed'
  <2>1. /\ headerCall[c].step = "navigate" /\ UNCHANGED <<extraHeaders, view, wanted, disturbed>>
        /\ headerCall' = [headerCall EXCEPT ![c].step = "restore"]
        /\ pageHeaders' = [pageHeaders EXCEPT ![headerCall[c].page] = headerCall[c].copy]
    BY <1>5 DEF Navigate, InStep
  <2>2. /\ headerCall'[c].step = "restore" /\ headerCall'[c].page = headerCall[c].page
        /\ headerCall'[c].old = headerCall[c].old
        /\ \A d \in HeaderClients : d # c => headerCall'[d] = headerCall[d]
    BY <1>0, <2>1 DEF HeaderTypes
  <2>3. headerCall[c].page \in Views /\ headerCall[c].copy \in SUBSET Headers
    BY <1>0 DEF HeaderTypes
  <2>4. HeaderTypes'
    BY <1>0, <2>1, <2>3 DEF HeaderTypes, HeaderSteps
  <2>5. CASE HeadersUndisturbed
    <3>1. \A d \in HeaderClients : d # c => headerCall[d].step = "idle"
      BY <2>1, <2>5 DEF HeadersUndisturbed, InStep
    <3>2. headerCall[c].page = view /\ headerCall[c].old = wanted
      BY <2>1, <2>5 DEF HeadersUndisturbed, InStep
    <3>3. HeadersUndisturbed'
      BY <2>1, <2>2, <3>1, <3>2 DEF HeadersUndisturbed, InStep, Resting
    <3> QED
      BY <2>4, <3>3 DEF Headed
  <2> QED
    BY <1>0, <2>1, <2>4, <2>5 DEF Headed
<1>6. ASSUME NEW c \in HeaderClients, RestoreHeaders(c) PROVE Headed'
  <2>1. /\ headerCall[c].step = "restore" /\ UNCHANGED <<pageHeaders, view, wanted, disturbed>>
        /\ extraHeaders' = headerCall[c].old
        /\ headerCall' = [headerCall EXCEPT ![c] = [@ EXCEPT !.step = "send", !.copy = headerCall[c].old]]
    BY <1>6 DEF RestoreHeaders, InStep
  <2>2. /\ headerCall'[c].step = "send" /\ headerCall'[c].page = headerCall[c].page
        /\ headerCall'[c].copy = headerCall[c].old
        /\ \A d \in HeaderClients : d # c => headerCall'[d] = headerCall[d]
    BY <1>0, <2>1 DEF HeaderTypes
  <2>3. headerCall[c].old \in SUBSET Headers
    BY <1>0 DEF HeaderTypes
  <2>4. HeaderTypes'
    BY <1>0, <2>1, <2>3 DEF HeaderTypes, HeaderSteps
  <2>5. CASE HeadersUndisturbed
    <3>1. \A d \in HeaderClients : d # c => headerCall[d].step = "idle"
      BY <2>1, <2>5 DEF HeadersUndisturbed, InStep
    <3>2. headerCall[c].page = view /\ headerCall[c].old = wanted
      BY <2>1, <2>5 DEF HeadersUndisturbed, InStep
    <3>3. HeadersUndisturbed'
      BY <2>1, <2>2, <3>1, <3>2 DEF HeadersUndisturbed, InStep, Resting
    <3> QED
      BY <2>4, <3>3 DEF Headed
  <2> QED
    BY <1>0, <2>1, <2>4, <2>5 DEF Headed
<1>7. CASE SetHTTPAuth
  <2>1. HeaderTypes' /\ disturbed'
    BY <1>0, <1>7 DEF SetHTTPAuth, HeaderTypes
  <2> QED
    BY <2>1 DEF Headed
<1>8. CASE ShowOther
  <2>1. HeaderTypes' /\ disturbed'
    BY <1>0, <1>8 DEF ShowOther, HeaderTypes
  <2> QED
    BY <2>1 DEF Headed
<1>9. CASE UNCHANGED pageVars
  <2>1. HeaderTypes' /\ disturbed' = disturbed /\ (HeadersUndisturbed => HeadersUndisturbed')
    BY <1>0, <1>9 DEF pageVars, HeaderTypes, HeadersUndisturbed, InStep, Resting
  <2> QED
    BY <1>0, <2>1 DEF Headed
<1> QED
  BY <1>1, <1>2, <1>3, <1>4, <1>5, <1>6, <1>7, <1>8, <1>9 DEF PageNext

LEMMA HeadedKeeps == Headed => HeadersAsSet /\ PageTypeOK
BY DEF Headed, HeaderTypes, HeadersUndisturbed, HeadersAsSet, PageTypeOK, InStep, HeaderSteps

(* ---------------------------- the cookies ------------------------------ *)

JarCookies == CookieValues \union {"none"}

CookieTypes ==
    /\ jars \in Seq(JarCookies) /\ jars # << >> /\ httpJar = Len(jars)
    /\ impersonates \in BOOLEAN /\ beside \in BOOLEAN
    /\ expected \in JarCookies \union {"unsure"} /\ firstCookie \in JarCookies \union {"unsure"}
    /\ pageCookie \in JarCookies
    /\ DOMAIN cookieCall = CookieClients
    /\ \A c \in CookieClients :
          /\ cookieCall[c].cookie \in JarCookies
          /\ cookieCall[c].step \in {"fill", "request"} => cookieCall[c].jar \in DOMAIN jars

(* Calls that did not run side by side are alone, and have the jar that    *)
(* the next of their kind would have.                                      *)
CallAlone ==
    /\ \A c, d \in CookieClients : c # d => CookieAt(c, "idle") \/ CookieAt(d, "idle")
    /\ \A c \in CookieClients :
          /\ CookieAt(c, "fill") => cookieCall[c].jar = httpJar
          /\ CookieAt(c, "request") => cookieCall[c].jar = RequestJar

Jarred == CookieTypes /\ (beside \/ CallAlone) /\ CookiesAsAnswered

(* What a call that goes on leaves as it was.                              *)
LEMMA CookieCallGoes ==
    ASSUME Jarred, NEW c \in CookieClients, NEW step, NEW jar, NEW cookie \in JarCookies,
           CookieGoes(c, step, jar, cookie),
           UNCHANGED <<impersonates, jars, httpJar, pageCookie, expected, firstCookie>>,
           step \in {"fill", "request"} => jar \in DOMAIN jars,
           step = "fill" => jar = httpJar, step = "request" => jar = RequestJar,
           \/ beside' = (~NoCookieCalls)
           \/ UNCHANGED beside /\ cookieCall[c].step # "idle"
    PROVE  Jarred'
<1>0. CookieTypes /\ (beside \/ CallAlone) /\ CookiesAsAnswered
  BY DEF Jarred
<1>1. /\ DOMAIN cookieCall' = CookieClients
      /\ cookieCall'[c].step = step /\ cookieCall'[c].jar = jar /\ cookieCall'[c].cookie = cookie
      /\ \A d \in CookieClients : d # c => cookieCall'[d] = cookieCall[d]
  BY <1>0 DEF CookieTypes, CookieGoes
<1>2. beside' \in BOOLEAN
  BY <1>0 DEF CookieTypes, NoCookieCalls
<1>3. CookieTypes'
  BY <1>0, <1>1, <1>2 DEF CookieTypes
<1>4. RequestJar' = RequestJar /\ CookiesAsAnswered'
  BY <1>0 DEF RequestJar, CookiesAsAnswered
<1>5. ASSUME ~beside' PROVE CallAlone'
  <2>1. \A d \in CookieClients : d # c => cookieCall[d].step = "idle"
    BY <1>0, <1>5 DEF NoCookieCalls, CallAlone, CookieAt
  <2> QED
    BY <1>1, <1>4, <2>1 DEF CallAlone, CookieAt
<1> QED
  BY <1>3, <1>4, <1>5 DEF Jarred

(* A call that ends without a cookie to put, or puts one in the jar it     *)
(* had: no other jar changed.                                              *)
LEMMA CookieCallEnds ==
    ASSUME Jarred, NEW c \in CookieClients, UNCHANGED <<impersonates, httpJar, beside>>,
           pageCookie' \in JarCookies,
           \/ EndsCall(c)
           \/ cookieCall[c].step \in {"fill", "request"} /\ \E cookie \in JarCookies : Puts(c, cookie)
    PROVE  Jarred'
<1>0. CookieTypes /\ (beside \/ CallAlone) /\ CookiesAsAnswered
  BY DEF Jarred
<1>z. Len(jars) \in Nat /\ DOMAIN jars = 1..Len(jars) /\ "unsure" \in JarCookies \union {"unsure"}
  BY <1>0 DEF CookieTypes
<1>1. ASSUME NEW next \in JarCookies \union {"unsure"}, NEW first \in JarCookies \union {"unsure"},
             AnswersCall(c, next, first),
             jars' \in Seq(JarCookies), Len(jars') = Len(jars), jars' # << >>,
             ~beside => /\ next = "unsure" \/ jars'[RequestJar] = next \/ (impersonates /\ httpJar # 1)
                        /\ first = "unsure" \/ jars'[1] = first
      PROVE  Jarred'
  <2>1. /\ DOMAIN cookieCall' = CookieClients
        /\ cookieCall'[c].step = "idle" /\ cookieCall'[c].cookie = "none"
        /\ \A d \in CookieClients : d # c => cookieCall'[d] = cookieCall[d]
    BY <1>0, <1>1 DEF CookieTypes, AnswersCall, NoCookieCall
  <2>2. /\ expected' = (IF beside THEN "unsure" ELSE next) /\ firstCookie' = (IF beside THEN "unsure" ELSE first)
        /\ {expected', firstCookie'} \subseteq JarCookies \union {"unsure"}
    BY <1>1, <1>z DEF AnswersCall
  <2>3. DOMAIN jars' = DOMAIN jars
    BY <1>1, <1>z
  <2>4. CookieTypes'
    BY <1>0, <1>1, <2>1, <2>2, <2>3 DEF CookieTypes, JarCookies
  <2>5. RequestJar' = RequestJar
    BY DEF RequestJar
  <2>6. CallAlone => CallAlone'
    BY <2>1, <2>5 DEF CallAlone, CookieAt
  <2>7. CookiesAsAnswered'
    <3>1. CASE beside
      BY <2>2, <3>1 DEF CookiesAsAnswered
    <3>2. CASE ~beside
      BY <1>1, <2>2, <2>5, <3>2 DEF CookiesAsAnswered
    <3> QED
      BY <3>1, <3>2
  <2> QED
    BY <1>0, <2>4, <2>6, <2>7 DEF Jarred
<1>2. CASE EndsCall(c)
  <2>1. AnswersCall(c, expected, firstCookie) /\ jars' = jars
    BY <1>2 DEF EndsCall
  <2>2. /\ expected \in JarCookies \union {"unsure"} /\ firstCookie \in JarCookies \union {"unsure"}
        /\ jars' \in Seq(JarCookies) /\ Len(jars') = Len(jars) /\ jars' # << >>
    BY <1>0, <2>1 DEF CookieTypes
  <2>3. /\ expected = "unsure" \/ jars'[RequestJar] = expected \/ (impersonates /\ httpJar # 1)
        /\ firstCookie = "unsure" \/ jars'[1] = firstCookie
    BY <1>0, <2>1 DEF CookiesAsAnswered
  <2> QED
    BY <1>1, <2>1, <2>2, <2>3
<1>3. ASSUME cookieCall[c].step \in {"fill", "request"}, NEW cookie \in JarCookies, Puts(c, cookie)
      PROVE  Jarred'
  <2> DEFINE jar == cookieCall[c].jar
             first == IF jar = 1 THEN cookie ELSE firstCookie
  <2>1. jars' = [jars EXCEPT ![jar] = cookie] /\ AnswersCall(c, cookie, first)
    BY <1>3 DEF Puts
  <2>2. jar \in DOMAIN jars
    BY <1>0, <1>3 DEF CookieTypes
  <2>3. jars' \in Seq(JarCookies) /\ Len(jars') = Len(jars) /\ jars' # << >>
    BY <1>0, <1>3, <2>1 DEF CookieTypes
  <2>4. cookie \in JarCookies \union {"unsure"} /\ first \in JarCookies \union {"unsure"}
    BY <1>0, <1>3 DEF CookieTypes
  <2>5. ASSUME ~beside
        PROVE  /\ cookie = "unsure" \/ jars'[RequestJar] = cookie \/ (impersonates /\ httpJar # 1)
               /\ first = "unsure" \/ jars'[1] = first
    <3>1. /\ cookieCall[c].step = "fill" => jar = httpJar
          /\ cookieCall[c].step = "request" => jar = RequestJar
      BY <1>0, <2>5 DEF CallAlone, CookieAt
    <3>2. jar = RequestJar \/ (impersonates /\ httpJar # 1)
      BY <1>3, <3>1 DEF RequestJar
    <3>3. jars'[jar] = cookie /\ \A j \in DOMAIN jars : j # jar => jars'[j] = jars[j]
      BY <2>1, <2>2
    <3>4. first = "unsure" \/ jars'[1] = first
      <4>1. 1 \in DOMAIN jars
        BY <1>0, <1>z DEF CookieTypes
      <4> QED
        BY <1>0, <3>3, <4>1 DEF CookiesAsAnswered
    <3> QED
      BY <3>2, <3>3, <3>4
  <2> HIDE DEF jar, first
  <2> QED
    BY <1>1, <2>1, <2>3, <2>4, <2>5
<1> QED
  BY <1>2, <1>3

LEMMA JarredInit == CookiesInit => Jarred
<1> SUFFICES ASSUME CookiesInit PROVE Jarred
  OBVIOUS
<1>1. /\ jars = <<"none">> /\ httpJar = 1 /\ impersonates \in BOOLEAN /\ beside = FALSE
      /\ expected = "none" /\ firstCookie = "none" /\ pageCookie = "none" /\ cookieCall = [c \in CookieClients |-> NoCookieCall]
  BY DEF CookiesInit
<1>2. jars \in Seq(JarCookies) /\ Len(jars) = 1 /\ jars[1] = "none"
  BY <1>1 DEF JarCookies
<1>3. CookieTypes
  BY <1>1, <1>2 DEF CookieTypes, JarCookies, NoCookieCall
<1>4. CallAlone
  BY <1>1 DEF CallAlone, CookieAt, NoCookieCall
<1>5. CookiesAsAnswered
  BY <1>1, <1>2 DEF CookiesAsAnswered, RequestJar
<1> QED
  BY <1>3, <1>4, <1>5 DEF Jarred

LEMMA JarredStep == Jarred /\ [CookiesNext]_cookieVars => Jarred'
<1> SUFFICES ASSUME Jarred, [CookiesNext]_cookieVars PROVE Jarred'
  OBVIOUS
<1>0. CookieTypes /\ (beside \/ CallAlone) /\ CookiesAsAnswered
  BY DEF Jarred
<1>z. Len(jars) \in Nat /\ DOMAIN jars = 1..Len(jars) /\ Len(jars) >= 1 /\ "none" \in JarCookies
  BY <1>0 DEF CookieTypes, JarCookies
<1>1. ASSUME NEW c \in CookieClients, FillJar(c) PROVE Jarred'
  <2>1. /\ cookieCall[c].step = "fill" /\ UNCHANGED <<impersonates, httpJar, pageCookie, beside>>
        /\ EndsCall(c) \/ Puts(c, cookieCall[c].cookie)
    BY <1>1 DEF FillJar, CookieAt
  <2>2. cookieCall[c].cookie \in JarCookies /\ pageCookie' \in JarCookies
    BY <1>0, <2>1 DEF CookieTypes
  <2> QED
    BY <2>1, <2>2, CookieCallEnds
<1>2. ASSUME NEW c \in CookieClients, GivePage(c) PROVE Jarred'
  <2>1. UNCHANGED <<impersonates, httpJar, beside>> /\ EndsCall(c) /\ pageCookie' \in JarCookies
    BY <1>0, <1>2 DEF GivePage, CookieTypes
  <2> QED
    BY <2>1, CookieCallEnds
<1>3. ASSUME NEW c \in CookieClients, GetResponse(c) PROVE Jarred'
  <2>1. /\ cookieCall[c].step = "request" /\ UNCHANGED <<impersonates, httpJar, pageCookie, beside>>
        /\ EndsCall(c) \/ \E v \in JarCookies : Puts(c, v)
    BY <1>3 DEF GetResponse, CookieAt, JarCookies
  <2>2. pageCookie' \in JarCookies
    BY <1>0, <2>1 DEF CookieTypes
  <2> QED
    BY <2>1, <2>2, CookieCallEnds
<1>4. ASSUME NEW c \in CookieClients, HTTPClose(c) PROVE Jarred'
  <2>1. /\ jars' = Append(jars, "none") /\ httpJar' = Len(jars')
        /\ expected' = (IF NoCookieCalls THEN "none" ELSE "unsure")
        /\ beside' = (~NoCookieCalls) /\ UNCHANGED <<impersonates, pageCookie, cookieCall, firstCookie>>
    BY <1>4 DEF HTTPClose
  <2>2. /\ jars' \in Seq(JarCookies) /\ Len(jars') = Len(jars) + 1 /\ jars' # << >>
        /\ DOMAIN jars \subseteq DOMAIN jars' /\ jars'[httpJar'] = "none" /\ httpJar' # 1
        /\ jars'[1] = jars[1]
    BY <1>0, <1>z, <2>1 DEF CookieTypes
  <2>3. CookieTypes'
    BY <1>0, <2>1, <2>2 DEF CookieTypes, JarCookies, NoCookieCalls
  <2>4. CookiesAsAnswered'
    BY <1>0, <2>1, <2>2 DEF CookiesAsAnswered, RequestJar
  <2>5. ~beside' => CallAlone'
    BY <2>1 DEF NoCookieCalls, CallAlone, CookieAt
  <2> QED
    BY <2>3, <2>4, <2>5 DEF Jarred
<1>5. ASSUME NEW c \in CookieClients, ReadPageCookies(c) PROVE Jarred'
  <2>1. /\ beside' = (~NoCookieCalls) /\ CookieGoes(c, "read", 0, pageCookie)
        /\ UNCHANGED <<impersonates, jars, httpJar, pageCookie, expected, firstCookie>>
    BY <1>5 DEF ReadPageCookies, BeginsCall
  <2>2. pageCookie \in JarCookies
    BY <1>0 DEF CookieTypes
  <2> QED
    BY <2>1, <2>2, CookieCallGoes
<1>6. ASSUME NEW c \in CookieClients, TakeJar(c) PROVE Jarred'
  <2>1. /\ cookieCall[c].step # "idle" /\ CookieGoes(c, "fill", httpJar, cookieCall[c].cookie)
        /\ UNCHANGED <<impersonates, jars, httpJar, pageCookie, expected, firstCookie>> /\ UNCHANGED beside
    BY <1>6 DEF TakeJar, CookieAt
  <2>2. cookieCall[c].cookie \in JarCookies /\ httpJar \in DOMAIN jars
    BY <1>0, <1>z DEF CookieTypes
  <2> QED
    BY <2>1, <2>2, CookieCallGoes
<1>7. ASSUME NEW c \in CookieClients, ReadJar(c) PROVE Jarred'
  <2>1. /\ beside' = (~NoCookieCalls) /\ CookieGoes(c, "transfer", httpJar, jars[httpJar])
        /\ UNCHANGED <<impersonates, jars, httpJar, pageCookie, expected, firstCookie>>
    BY <1>7 DEF ReadJar, BeginsCall
  <2>2. jars[httpJar] \in JarCookies
    BY <1>0, <1>z DEF CookieTypes
  <2> QED
    BY <2>1, <2>2, CookieCallGoes
<1>8. ASSUME NEW c \in CookieClients, SendRequest(c) PROVE Jarred'
  <2>1. /\ beside' = (~NoCookieCalls) /\ CookieGoes(c, "request", RequestJar, jars[RequestJar])
        /\ UNCHANGED <<impersonates, jars, httpJar, pageCookie, expected, firstCookie>>
    BY <1>8 DEF SendRequest, BeginsCall
  <2>2. RequestJar \in DOMAIN jars /\ jars[RequestJar] \in JarCookies
    BY <1>0, <1>z DEF CookieTypes, RequestJar
  <2> QED
    BY <2>1, <2>2, CookieCallGoes
<1>9. CASE UNCHANGED <<impersonates, jars, httpJar, cookieCall, beside, expected, firstCookie>> /\ pageCookie' \in JarCookies
  BY <1>0, <1>9 DEF Jarred, CookieTypes, CallAlone, CookiesAsAnswered, RequestJar, CookieAt
<1>10. PageCookieChanges \/ UNCHANGED cookieVars
         => /\ UNCHANGED <<impersonates, jars, httpJar, cookieCall, beside, expected, firstCookie>>
            /\ pageCookie' \in JarCookies
  BY <1>0 DEF PageCookieChanges, cookieVars, JarCookies, CookieTypes
<1> QED
  BY <1>1, <1>2, <1>3, <1>4, <1>5, <1>6, <1>7, <1>8, <1>9, <1>10 DEF CookiesNext

(* ---------------------------- the listener ----------------------------- *)

Listener == [active : BOOLEAN, pending : SUBSET Requested, packets : Seq(Requested)]

ListenTypes ==
    /\ listeners \in Seq(Listener) /\ heard \in Seq(SUBSET Requested) /\ Len(heard) = Len(listeners)
    /\ listener \in 0..Len(listeners) /\ overlapped \in BOOLEAN
    /\ DOMAIN traffic = Requested
    /\ DOMAIN listenCall = ListenClients
    /\ \A c \in ListenClients :
          listenCall[c].step \in {"store", "stores", "steps"} => listenCall[c].listener \in DOMAIN listeners

(* As long as no two calls started at once: while one begins, no listener  *)
(* listens, and while it has one to store, no other does.                  *)
OneStarts ==
    /\ \A c, d \in Starting : c = d
    /\ \A l \in DOMAIN listeners : listeners[l].active =>
          /\ \A c \in Starting : listenCall[c].step \in {"store", "stores"} /\ listenCall[c].listener = l
          /\ Starting = {} => l = listener

Heeded == ListenTypes /\ PacketsPaired /\ (overlapped \/ OneStarts)

LEMMA HeededInit == ListenInit => Heeded
<1> SUFFICES ASSUME ListenInit PROVE Heeded
  OBVIOUS
<1>1. /\ listeners = << >> /\ listener = 0 /\ heard = << >> /\ overlapped = FALSE
      /\ listenCall = [c \in ListenClients |-> NoListenCall] /\ traffic = [r \in Requested |-> "none"]
  BY DEF ListenInit
<1>2. ListenTypes
  <2>1. /\ listeners \in Seq(Listener) /\ heard \in Seq(SUBSET Requested) /\ Len(heard) = Len(listeners)
        /\ listener \in 0..Len(listeners)
    BY <1>1
  <2> QED
    BY <1>1, <2>1 DEF ListenTypes, NoListenCall
<1>3. DOMAIN listeners = {} /\ Starting = {}
  BY <1>1 DEF Starting, NoListenCall
<1>4. PacketsPaired /\ OneStarts
  BY <1>3 DEF PacketsPaired, OneStarts
<1> QED
  BY <1>2, <1>4 DEF Heeded

(* The packets of a listener whose requests were heard and answered.       *)
PairedUp(l) ==
    /\ IsInjective(listeners[l].packets) /\ Len(listeners[l].packets) <= MaxPackets
    /\ \A i \in DOMAIN listeners[l].packets :
          listeners[l].packets[i] \in heard[l] /\ traffic[listeners[l].packets[i]] = "answered"
    /\ listeners[l].pending \subseteq heard[l]
    /\ listeners[l].active => \A r \in listeners[l].pending : traffic[r] = "sent"

LEMMA PairedEach ==
    ASSUME ListenTypes
    PROVE  PacketsPaired <=> \A l \in DOMAIN listeners : PairedUp(l)
<1>1. \A l \in DOMAIN listeners : l # 0
  BY DEF ListenTypes
<1> QED
  BY <1>1 DEF PacketsPaired, PairedUp, Active, ToSet

LEMMA PairedEachNext ==
    ASSUME ListenTypes', \A l \in DOMAIN listeners' : PairedUp(l)'
    PROVE  PacketsPaired'
<1>1. \A l \in DOMAIN listeners' : l # 0
  BY DEF ListenTypes
<1> QED
  BY <1>1 DEF PacketsPaired, PairedUp, Active, ToSet

(* A step of a call or of one that clears or silences listeners: the page  *)
(* tells of nothing, and each listener keeps its packets or has none.      *)
LEMMA PacketsStay ==
    ASSUME Heeded, ListenTypes', UNCHANGED <<traffic, heard>>, DOMAIN listeners' = DOMAIN listeners,
           \A l \in DOMAIN listeners :
              /\ listeners'[l].active => listeners[l].active
              /\ listeners'[l].pending = listeners[l].pending
              /\ listeners'[l].packets \in {listeners[l].packets, << >>}
    PROVE  PacketsPaired'
<1>1. ListenTypes /\ PacketsPaired
  BY DEF Heeded
<1>2. ASSUME NEW l \in DOMAIN listeners PROVE PairedUp(l)'
  <2>1. PairedUp(l)
    BY <1>1, PairedEach
  <2>2. CASE listeners'[l].packets = listeners[l].packets
    BY <2>1, <2>2 DEF PairedUp
  <2>3. CASE listeners'[l].packets = << >>
    <3>1. Len(<< >>) <= MaxPackets /\ IsInjective(<< >>) /\ DOMAIN << >> = {}
      BY ListenAssumption DEF IsInjective
    <3> QED
      BY <2>1, <2>3, <3>1 DEF PairedUp
  <2> QED
    BY <2>2, <2>3
<1> QED
  BY <1>2, PairedEachNext

(* Silencing and clearing keep a listener what it is.                      *)
LEMMA ListenersKept ==
    ASSUME ListenTypes, NEW k, NEW silence \in BOOLEAN,
           listeners' = IF silence THEN [listeners EXCEPT ![k].active = FALSE]
                                   ELSE [listeners EXCEPT ![k].packets = << >>]
    PROVE  /\ listeners' \in Seq(Listener) /\ Len(listeners') = Len(listeners)
           /\ DOMAIN listeners' = DOMAIN listeners
           /\ \A l \in DOMAIN listeners :
                 /\ listeners'[l].active => listeners[l].active
                 /\ silence /\ l = k => ~listeners'[l].active
                 /\ ~silence => listeners'[l].active = listeners[l].active
                 /\ listeners'[l].pending = listeners[l].pending
                 /\ listeners'[l].packets \in {listeners[l].packets, << >>}
<1>0. listeners \in Seq(Listener)
  BY DEF ListenTypes
<1>1. Len(listeners) \in Nat /\ DOMAIN listeners = 1..Len(listeners)
      /\ \A l \in DOMAIN listeners : listeners[l] \in Listener
  BY <1>0
<1>2. /\ DOMAIN listeners' = DOMAIN listeners
      /\ \A l \in DOMAIN listeners :
            listeners'[l] = IF l # k THEN listeners[l]
                            ELSE IF silence THEN [listeners[l] EXCEPT !.active = FALSE]
                            ELSE [listeners[l] EXCEPT !.packets = << >>]
      /\ listeners' = [l \in DOMAIN listeners |-> listeners'[l]]
  BY <1>1
<1>3. \A l \in DOMAIN listeners :
         /\ listeners'[l] \in Listener
         /\ listeners'[l].active => listeners[l].active
         /\ silence /\ l = k => ~listeners'[l].active
         /\ ~silence => listeners'[l].active = listeners[l].active
         /\ listeners'[l].pending = listeners[l].pending
         /\ listeners'[l].packets \in {listeners[l].packets, << >>}
  <2> SUFFICES ASSUME NEW l \in DOMAIN listeners
               PROVE  /\ listeners'[l] \in Listener
                      /\ listeners'[l].active => listeners[l].active
                      /\ silence /\ l = k => ~listeners'[l].active
                      /\ ~silence => listeners'[l].active = listeners[l].active
                      /\ listeners'[l].pending = listeners[l].pending
                      /\ listeners'[l].packets \in {listeners[l].packets, << >>}
    OBVIOUS
  <2>1. << >> \in Seq(Requested)
    OBVIOUS
  <2>2. CASE l # k
    BY <1>1, <1>2, <2>2
  <2>3. CASE l = k /\ silence
    BY <1>1, <1>2, <2>3, ZenonT(30) DEF Listener
  <2>4. CASE l = k /\ ~silence
    BY <1>1, <1>2, <2>1, <2>4 DEF Listener
  <2> QED
    BY <2>2, <2>3, <2>4
<1>4. listeners' \in [1..Len(listeners) -> Listener]
  BY <1>1, <1>2, <1>3
<1>5. listeners' \in Seq(Listener) /\ Len(listeners') = Len(listeners)
  BY <1>1, <1>4
<1> QED
  BY <1>2, <1>3, <1>5

(* What a step of a call leaves of the calls.                              *)
LEMMA ListenCallGoes ==
    ASSUME ListenTypes, NEW c \in ListenClients, NEW step, NEW l, Does(c, step, l)
    PROVE  /\ DOMAIN listenCall' = ListenClients
           /\ listenCall'[c].step = step /\ listenCall'[c].listener = l
           /\ \A d \in ListenClients : d # c => listenCall'[d] = listenCall[d]
BY DEF ListenTypes, Does

LEMMA HeededLooks ==
    ASSUME Heeded, NEW c \in ListenClients, LookFirst(c) PROVE Heeded'
<1>0. ListenTypes /\ PacketsPaired /\ (overlapped \/ OneStarts)
  BY DEF Heeded
<1>1. /\ listenCall[c].step = "idle" /\ overlapped' = (overlapped \/ Starting # {})
      /\ UNCHANGED <<listeners, listener, traffic, heard>>
  BY DEF LookFirst, Doing
<1>2. PICK step, k : /\ Does(c, step, k)
                     /\ \/ ~Active(listener) /\ step \in {"start", "starts"}
                        \/ Active(listener) /\ step = "steps" /\ k = listener
  BY DEF LookFirst
<1>3. /\ DOMAIN listenCall' = ListenClients
      /\ listenCall'[c].step = step /\ listenCall'[c].listener = k
      /\ \A d \in ListenClients : d # c => listenCall'[d] = listenCall[d]
  BY <1>0, <1>2, ListenCallGoes
<1>4. Active(listener) => listener \in DOMAIN listeners
  BY <1>0 DEF Active, ListenTypes
<1>5. overlapped' \in BOOLEAN
  BY <1>0, <1>1 DEF ListenTypes
<1>6. ListenTypes'
  BY <1>0, <1>1, <1>2, <1>3, <1>4, <1>5 DEF ListenTypes
<1>7. PacketsPaired'
  BY <1>0, <1>1 DEF PacketsPaired, Active
<1>8. ASSUME ~overlapped' PROVE OneStarts'
  <2>1. Starting = {} /\ \A l \in DOMAIN listeners : listeners[l].active => l = listener
    BY <1>0, <1>1, <1>8 DEF OneStarts
  <2>2. Starting' \subseteq {c} /\ (step = "steps" => Starting' = {})
    BY <1>3, <2>1 DEF Starting
  <2>3. ~Active(listener) => \A l \in DOMAIN listeners : ~listeners[l].active
    <3>1. \A l \in DOMAIN listeners : l # 0
      BY <1>0 DEF ListenTypes
    <3> QED
      BY <2>1, <3>1 DEF Active
  <2>4. CASE ~Active(listener)
    BY <1>1, <2>2, <2>3, <2>4 DEF OneStarts
  <2>5. CASE Active(listener)
    <3>1. Starting' = {}
      BY <1>2, <2>2, <2>5
    <3> QED
      BY <1>1, <2>1, <3>1 DEF OneStarts
  <2> QED
    BY <2>4, <2>5
<1> QED
  BY <1>6, <1>7, <1>8 DEF Heeded

LEMMA HeededStarts ==
    ASSUME Heeded, NEW c \in ListenClients, StartListener(c) PROVE Heeded'
<1>0. ListenTypes /\ PacketsPaired /\ (overlapped \/ OneStarts)
  BY DEF Heeded
<1> DEFINE n == Len(listeners)
           new == [active |-> TRUE, pending |-> {}, packets |-> << >>]
           step == IF Doing(c, "start") THEN "store" ELSE "stores"
<1>1. /\ listenCall[c].step \in {"start", "starts"}
      /\ listeners' = Append(listeners, new) /\ heard' = Append(heard, {})
      /\ Does(c, step, n + 1) /\ step \in {"store", "stores"}
      /\ UNCHANGED <<listener, traffic, overlapped>>
  BY DEF StartListener, Doing
<1>2. n \in Nat /\ DOMAIN listeners = 1..n /\ Len(heard) = n /\ DOMAIN heard = 1..n
      /\ listeners \in Seq(Listener) /\ heard \in Seq(SUBSET Requested)
  BY <1>0 DEF ListenTypes
<1>3. new \in Listener
  BY DEF Listener
<1>4. /\ listeners' \in Seq(Listener) /\ Len(listeners') = n + 1 /\ listeners'[n + 1] = new
      /\ \A l \in 1..n : listeners'[l] = listeners[l]
  BY <1>1, <1>2, <1>3
<1>5. /\ heard' \in Seq(SUBSET Requested) /\ Len(heard') = n + 1 /\ heard'[n + 1] = {}
      /\ \A l \in 1..n : heard'[l] = heard[l]
  BY <1>1, <1>2
<1>6. DOMAIN listeners' = 1..(n + 1) /\ n + 1 \in 1..(n + 1) /\ n + 1 # listener
      /\ 1..(n + 1) = 1..n \cup {n + 1}
  BY <1>0, <1>2, <1>4 DEF ListenTypes
<1>7. /\ DOMAIN listenCall' = ListenClients
      /\ listenCall'[c].step = step /\ listenCall'[c].listener = n + 1
      /\ \A d \in ListenClients : d # c => listenCall'[d] = listenCall[d]
  BY <1>0, <1>1, ListenCallGoes
<1> HIDE DEF step, new
<1>8. ListenTypes'
  <2>1. listener' \in 0..Len(listeners')
    BY <1>0, <1>1, <1>2, <1>4 DEF ListenTypes
  <2> QED
    BY <1>0, <1>1, <1>2, <1>4, <1>5, <1>6, <1>7, <2>1 DEF ListenTypes
<1>9. PacketsPaired'
  <2>1. ASSUME NEW l \in 1..n PROVE PairedUp(l)'
    <3>1. PairedUp(l)
      BY <1>0, <1>2, PairedEach
    <3> QED
      BY <1>1, <1>4, <1>5, <3>1 DEF PairedUp
  <2>2. ASSUME NEW l, l = n + 1 PROVE PairedUp(l)'
    <3>1. Len(<< >>) <= MaxPackets /\ IsInjective(<< >>) /\ DOMAIN << >> = {}
      BY ListenAssumption DEF IsInjective
    <3> QED
      BY <1>4, <1>5, <2>2, <3>1 DEF PairedUp, new
  <2>3. \A l \in DOMAIN listeners' : PairedUp(l)'
    BY <1>6, <2>1, <2>2
  <2> QED
    BY <1>8, <2>3, PairedEachNext
<1>10. ASSUME OneStarts PROVE OneStarts'
  <2>1. c \in Starting /\ c \in Starting' /\ \A d \in Starting : d = c
    BY <1>1, <1>7, <1>10 DEF OneStarts, Starting
  <2>2. Starting' = {c}
    BY <1>7, <2>1 DEF Starting
  <2>3. \A l \in 1..n : ~listeners'[l].active
    BY <1>1, <1>2, <1>4, <1>10, <2>1 DEF OneStarts
  <2> QED
    BY <1>1, <1>6, <1>7, <2>2, <2>3 DEF OneStarts
<1> QED
  BY <1>0, <1>1, <1>8, <1>9, <1>10 DEF Heeded

LEMMA HeededStores ==
    ASSUME Heeded, NEW c \in ListenClients, StoreListener(c) PROVE Heeded'
<1>0. ListenTypes /\ PacketsPaired /\ (overlapped \/ OneStarts)
  BY DEF Heeded
<1>1. /\ listenCall[c].step \in {"store", "stores"} /\ listener' = listenCall[c].listener
      /\ \/ Does(c, "idle", 0)
         \/ Does(c, "steps", listener')
      /\ UNCHANGED <<listeners, traffic, heard, overlapped>>
  BY DEF StoreListener, Doing
<1>2. listener' \in DOMAIN listeners /\ listener' \in 0..Len(listeners)
  BY <1>0, <1>1 DEF ListenTypes
<1>3. PICK step, k : /\ step \in {"idle", "steps"} /\ Does(c, step, k)
                     /\ step = "steps" => k = listener'
  BY <1>1
<1>4. /\ DOMAIN listenCall' = ListenClients
      /\ listenCall'[c].step = step /\ listenCall'[c].listener = k
      /\ \A d \in ListenClients : d # c => listenCall'[d] = listenCall[d]
  BY <1>0, <1>3, ListenCallGoes
<1>5. ListenTypes'
  BY <1>0, <1>1, <1>2, <1>3, <1>4 DEF ListenTypes
<1>6. PacketsPaired'
  BY <1>0, <1>1, <1>5, PacketsStay
<1>7. ASSUME OneStarts PROVE OneStarts'
  <2>1. c \in Starting /\ \A d \in Starting : d = c
    BY <1>1, <1>7 DEF OneStarts, Starting
  <2>2. Starting' = {}
    BY <1>3, <1>4, <2>1 DEF Starting
  <2> QED
    BY <1>1, <1>7, <2>1, <2>2 DEF OneStarts
<1> QED
  BY <1>0, <1>1, <1>5, <1>6, <1>7 DEF Heeded

(* Calls that wait, and listeners that are silenced or cleared.            *)
LEMMA HeededWaits ==
    ASSUME Heeded, UNCHANGED <<listener, traffic, heard, overlapped>>, NEW k, NEW silence \in BOOLEAN,
           \/ UNCHANGED listeners
           \/ listeners' = IF silence THEN [listeners EXCEPT ![k].active = FALSE]
                                      ELSE [listeners EXCEPT ![k].packets = << >>],
           \/ UNCHANGED listenCall
           \/ \E c \in ListenClients, step \in {"idle", "wait"} : \E l :
                 listenCall[c].step \in {"idle", "wait", "steps"} /\ Does(c, step, l)
    PROVE  Heeded'
<1>0. ListenTypes /\ PacketsPaired /\ (overlapped \/ OneStarts)
  BY DEF Heeded
<1>1. /\ listeners' \in Seq(Listener) /\ Len(listeners') = Len(listeners)
      /\ DOMAIN listeners' = DOMAIN listeners
      /\ \A l \in DOMAIN listeners :
            /\ listeners'[l].active => listeners[l].active
            /\ listeners'[l].pending = listeners[l].pending
            /\ listeners'[l].packets \in {listeners[l].packets, << >>}
  <2>1. CASE UNCHANGED listeners
    BY <1>0, <2>1 DEF ListenTypes
  <2>2. CASE listeners' = IF silence THEN [listeners EXCEPT ![k].active = FALSE]
                                     ELSE [listeners EXCEPT ![k].packets = << >>]
    BY <1>0, <2>2, ListenersKept
  <2> QED
    BY <2>1, <2>2
<1>2. /\ DOMAIN listenCall' = ListenClients
      /\ \A d \in ListenClients :
            \/ listenCall'[d] = listenCall[d]
            \/ listenCall'[d].step \in {"idle", "wait"} /\ listenCall[d].step \in {"idle", "wait", "steps"}
  <2>1. CASE UNCHANGED listenCall
    BY <1>0, <2>1 DEF ListenTypes
  <2>2. ASSUME NEW c \in ListenClients, NEW step \in {"idle", "wait"}, NEW l,
               listenCall[c].step \in {"idle", "wait", "steps"}, Does(c, step, l)
        PROVE  /\ DOMAIN listenCall' = ListenClients
               /\ \A d \in ListenClients :
                     \/ listenCall'[d] = listenCall[d]
                     \/ /\ listenCall'[d].step \in {"idle", "wait"}
                        /\ listenCall[d].step \in {"idle", "wait", "steps"}
    BY <1>0, <2>2, ListenCallGoes
  <2> QED
    BY <2>1, <2>2
<1>3. ListenTypes'
  BY <1>0, <1>1, <1>2 DEF ListenTypes
<1>4. PacketsPaired'
  BY <1>1, <1>3, PacketsStay
<1>5. Starting' = Starting /\ \A d \in Starting : listenCall'[d] = listenCall[d]
  BY <1>2 DEF Starting
<1>6. OneStarts => OneStarts'
  BY <1>1, <1>5 DEF OneStarts
<1> QED
  BY <1>0, <1>3, <1>4, <1>6 DEF Heeded

(* The page sends a request that a listener has not heard of yet.          *)
LEMMA HeededRequests ==
    ASSUME Heeded, NEW r \in Requested, PageRequests(r) PROVE Heeded'
<1>0. ListenTypes /\ PacketsPaired /\ (overlapped \/ OneStarts)
  BY DEF Heeded
<1>1. /\ traffic[r] = "none" /\ traffic' = [traffic EXCEPT ![r] = "sent"]
      /\ listeners' = [l \in DOMAIN listeners |-> OnRequest(l, r)]
      /\ heard' = [l \in DOMAIN heard |-> IF Active(l) THEN heard[l] \cup {r} ELSE heard[l]]
      /\ UNCHANGED <<listener, listenCall, overlapped>>
  BY DEF PageRequests
<1>2. /\ Len(listeners) \in Nat /\ DOMAIN listeners = 1..Len(listeners)
      /\ DOMAIN heard = DOMAIN listeners
      /\ \A l \in DOMAIN listeners : listeners[l] \in Listener /\ heard[l] \in SUBSET Requested /\ l # 0
  BY <1>0 DEF ListenTypes
<1>3. \A l \in DOMAIN listeners :
         /\ listeners'[l] \in Listener /\ heard'[l] \in SUBSET Requested
         /\ listeners'[l].active = listeners[l].active /\ listeners'[l].packets = listeners[l].packets
         /\ \/ ~listeners[l].active /\ listeners'[l].pending = listeners[l].pending
            \/ listeners'[l].pending = listeners[l].pending \cup {r} /\ r \in heard'[l]
         /\ heard[l] \subseteq heard'[l]
  BY <1>1, <1>2 DEF OnRequest, Active, Listener
<1>4. listeners' \in [1..Len(listeners) -> Listener] /\ heard' \in [1..Len(listeners) -> SUBSET Requested]
  BY <1>1, <1>2, <1>3
<1>5. /\ listeners' \in Seq(Listener) /\ heard' \in Seq(SUBSET Requested) /\ Len(heard') = Len(listeners')
      /\ Len(listeners') = Len(listeners) /\ DOMAIN listeners' = DOMAIN listeners
  BY <1>2, <1>4
<1>6. /\ DOMAIN traffic' = Requested /\ traffic'[r] = "sent"
      /\ \A q \in Requested : q # r => traffic'[q] = traffic[q]
  BY <1>0, <1>1 DEF ListenTypes
<1>7. ListenTypes'
  BY <1>0, <1>1, <1>5, <1>6 DEF ListenTypes
<1>8. ASSUME NEW l \in DOMAIN listeners PROVE PairedUp(l)'
  <2>1. PairedUp(l)
    BY <1>0, PairedEach
  <2>2. \A i \in DOMAIN listeners[l].packets : listeners[l].packets[i] # r
    BY <1>1, <2>1 DEF PairedUp
  <2>3. /\ listeners[l].packets \in Seq(Requested) /\ listeners[l].pending \in SUBSET Requested
        /\ \A i \in DOMAIN listeners[l].packets : listeners[l].packets[i] \in Requested
    BY <1>2 DEF Listener
  <2>4. \A i \in DOMAIN listeners[l].packets :
           listeners[l].packets[i] \in heard'[l] /\ traffic'[listeners[l].packets[i]] = "answered"
    BY <1>3, <1>6, <2>1, <2>2, <2>3 DEF PairedUp
  <2>5. listeners'[l].pending \subseteq heard'[l]
    BY <1>3, <2>1 DEF PairedUp
  <2>6. listeners'[l].active => \A q \in listeners'[l].pending : traffic'[q] = "sent"
    BY <1>3, <1>6, <2>1, <2>3 DEF PairedUp
  <2>7. listeners'[l].packets = listeners[l].packets
    BY <1>3
  <2> QED
    BY <2>1, <2>4, <2>5, <2>6, <2>7 DEF PairedUp
<1>9. PacketsPaired'
  BY <1>5, <1>7, <1>8, PairedEachNext
<1>10. OneStarts => OneStarts'
  BY <1>1, <1>3, <1>5 DEF OneStarts, Starting
<1> QED
  BY <1>0, <1>1, <1>7, <1>9, <1>10 DEF Heeded

(* The page answers a request: it becomes the packet of each listener that *)
(* has it pending, and is pending nowhere that listens.                    *)
LEMMA HeededResponds ==
    ASSUME Heeded, NEW r \in Requested, PageResponds(r) PROVE Heeded'
<1>0. ListenTypes /\ PacketsPaired /\ (overlapped \/ OneStarts)
  BY DEF Heeded
<1>1. /\ traffic[r] = "sent" /\ traffic' = [traffic EXCEPT ![r] = "answered"]
      /\ listeners' = [l \in DOMAIN listeners |-> OnResponse(l, r)]
      /\ UNCHANGED <<listener, listenCall, heard, overlapped>>
  BY DEF PageResponds
<1>2. /\ Len(listeners) \in Nat /\ DOMAIN listeners = 1..Len(listeners)
      /\ \A l \in DOMAIN listeners : listeners[l] \in Listener /\ l # 0
      /\ listeners \in Seq(Listener) /\ MaxPackets \in Nat
  BY <1>0, ListenAssumption DEF ListenTypes
<1>3. ASSUME NEW l \in DOMAIN listeners
      PROVE  /\ listeners'[l] \in Listener
             /\ listeners'[l].active = listeners[l].active
             /\ listeners'[l].pending \subseteq listeners[l].pending
             /\ listeners[l].active => r \notin listeners'[l].pending
             /\ \/ listeners'[l].packets = listeners[l].packets
                \/ /\ listeners'[l].packets = Append(listeners[l].packets, r)
                   /\ Len(listeners[l].packets) < MaxPackets /\ r \in listeners[l].pending
  <2>1. /\ listeners[l].packets \in Seq(Requested) /\ Len(listeners[l].packets) \in Nat
        /\ Append(listeners[l].packets, r) \in Seq(Requested)
    BY <1>2 DEF Listener
  <2>2. listeners'[l] = OnResponse(l, r)
    BY <1>1
  <2>3. CASE ~Active(l) \/ r \notin listeners[l].pending
    BY <1>2, <2>2, <2>3 DEF OnResponse, Active
  <2>4. CASE Active(l) /\ r \in listeners[l].pending /\ Len(listeners[l].packets) >= MaxPackets
    <3>1. listeners'[l] = [listeners[l] EXCEPT !.pending = @ \ {r}, !.packets = @]
      BY <2>2, <2>4 DEF OnResponse
    <3> QED
      BY <1>2, <3>1 DEF Listener
  <2>5. CASE Active(l) /\ r \in listeners[l].pending /\ ~(Len(listeners[l].packets) >= MaxPackets)
    <3>1. listeners'[l] = [listeners[l] EXCEPT !.pending = @ \ {r}, !.packets = Append(@, r)]
      BY <2>2, <2>5 DEF OnResponse
    <3>2. /\ listeners'[l].active = listeners[l].active
          /\ listeners'[l].pending = listeners[l].pending \ {r}
          /\ listeners'[l].packets = Append(listeners[l].packets, r)
      BY <1>2, <3>1 DEF Listener
    <3>3. listeners'[l] = [active |-> listeners[l].active, pending |-> listeners[l].pending \ {r},
                           packets |-> Append(listeners[l].packets, r)]
      BY <1>2, <3>1 DEF Listener
    <3>4. listeners'[l] \in Listener
      BY <1>2, <2>1, <3>3 DEF Listener
    <3>5. Len(listeners[l].packets) < MaxPackets
      BY <1>2, <2>1, <2>5
    <3> QED
      BY <2>5, <3>2, <3>4, <3>5
  <2> QED
    BY <2>3, <2>4, <2>5
<1>4. listeners' \in [1..Len(listeners) -> Listener]
  BY <1>1, <1>2, <1>3
<1>5. /\ listeners' \in Seq(Listener)
      /\ Len(listeners') = Len(listeners) /\ DOMAIN listeners' = DOMAIN listeners
  BY <1>2, <1>4
<1>6. /\ DOMAIN traffic' = Requested /\ traffic'[r] = "answered"
      /\ \A q \in Requested : q # r => traffic'[q] = traffic[q]
  BY <1>0, <1>1 DEF ListenTypes
<1>7. ListenTypes'
  BY <1>0, <1>1, <1>5, <1>6 DEF ListenTypes
<1>8. ASSUME NEW l \in DOMAIN listeners PROVE PairedUp(l)'
  <2>1. PairedUp(l)
    BY <1>0, PairedEach
  <2>2. \A i \in DOMAIN listeners[l].packets : listeners[l].packets[i] # r
    BY <1>1, <2>1 DEF PairedUp
  <2>3. /\ listeners[l].packets \in Seq(Requested) /\ listeners[l].pending \in SUBSET Requested
        /\ \A i \in DOMAIN listeners[l].packets : listeners[l].packets[i] \in Requested
    BY <1>2 DEF Listener
  <2>4. \A i \in DOMAIN listeners[l].packets :
           listeners[l].packets[i] \in heard[l] /\ traffic'[listeners[l].packets[i]] = "answered"
    BY <1>6, <2>1, <2>2, <2>3 DEF PairedUp
  <2>5. listeners'[l].pending \subseteq heard[l]
    BY <1>3, <2>1 DEF PairedUp
  <2>6. listeners'[l].active => \A q \in listeners'[l].pending : traffic'[q] = "sent"
    BY <1>3, <1>6, <2>1, <2>3 DEF PairedUp
  <2>7. CASE listeners'[l].packets = listeners[l].packets
    BY <1>1, <2>1, <2>4, <2>5, <2>6, <2>7 DEF PairedUp
  <2>8. CASE /\ listeners'[l].packets = Append(listeners[l].packets, r)
             /\ Len(listeners[l].packets) < MaxPackets /\ r \in listeners[l].pending
    <3> DEFINE p == listeners[l].packets
               q == listeners'[l].packets
    <3>1. /\ p \in Seq(Requested) /\ Len(p) \in Nat /\ q = Append(p, r) /\ Len(p) < MaxPackets
          /\ DOMAIN p = 1..Len(p) /\ IsInjective(p) /\ \A i \in DOMAIN p : p[i] # r
      BY <2>1, <2>2, <2>3, <2>8 DEF PairedUp
    <3> HIDE DEF p, q
    <3>2. /\ DOMAIN q = 1..(Len(p) + 1) /\ Len(q) = Len(p) + 1 /\ q[Len(p) + 1] = r
          /\ \A i \in 1..Len(p) : q[i] = p[i]
      BY <3>1
    <3>3. Len(q) <= MaxPackets
      BY <1>2, <3>1, <3>2
    <3>4. \A i \in DOMAIN q : i \in DOMAIN p \/ i = Len(p) + 1
      BY <3>1, <3>2
    <3>5. IsInjective(q)
      BY <3>1, <3>2, <3>4 DEF IsInjective
    <3>6. r \in heard[l] /\ traffic'[r] = "answered"
      BY <1>6, <2>1, <2>8 DEF PairedUp
    <3>7. \A i \in DOMAIN q : q[i] \in heard[l] /\ traffic'[q[i]] = "answered"
      BY <2>4, <3>1, <3>2, <3>4, <3>6 DEF p
    <3> QED
      BY <1>1, <2>5, <2>6, <3>3, <3>5, <3>7 DEF PairedUp, q
  <2> QED
    BY <1>3, <2>7, <2>8
<1>9. PacketsPaired'
  BY <1>5, <1>7, <1>8, PairedEachNext
<1>10. OneStarts => OneStarts'
  BY <1>1, <1>3, <1>5 DEF OneStarts, Starting
<1> QED
  BY <1>0, <1>1, <1>7, <1>9, <1>10 DEF Heeded

LEMMA HeededStep == Heeded /\ [ListenNext]_listenVars => Heeded'
<1> SUFFICES ASSUME Heeded, [ListenNext]_listenVars PROVE Heeded'
  OBVIOUS
<1>1. ASSUME NEW c \in ListenClients, WaitForCount(c) PROVE Heeded'
  <2>1. /\ listenCall[c].step = "idle" /\ Does(c, "wait", listener)
        /\ UNCHANGED <<listener, traffic, heard, overlapped>> /\ UNCHANGED listeners
    BY <1>1 DEF WaitForCount, Doing
  <2>2. \E d \in ListenClients, step \in {"idle", "wait"} : \E l :
           listenCall[d].step \in {"idle", "wait", "steps"} /\ Does(d, step, l)
    BY <2>1
  <2> QED
    BY <2>1, <2>2, HeededWaits
<1>2. ASSUME NEW c \in ListenClients, WaitEnds(c) PROVE Heeded'
  <2>1. /\ listenCall[c].step \in {"wait", "steps"} /\ Does(c, "idle", 0)
        /\ UNCHANGED <<listener, traffic, heard, overlapped>>
    BY <1>2 DEF WaitEnds, Doing
  <2>2. \/ UNCHANGED listeners
        \/ listeners' = [listeners EXCEPT ![listenCall[c].listener].active = FALSE]
    BY <1>2 DEF WaitEnds, Silenced
  <2>3. \E d \in ListenClients, step \in {"idle", "wait"} : \E l :
           listenCall[d].step \in {"idle", "wait", "steps"} /\ Does(d, step, l)
    BY <2>1
  <2>4. CASE UNCHANGED listeners
    BY <2>1, <2>3, <2>4, HeededWaits
  <2>5. CASE listeners' = [listeners EXCEPT ![listenCall[c].listener].active = FALSE]
    BY <2>1, <2>3, <2>5, HeededWaits
  <2> QED
    BY <2>2, <2>4, <2>5
<1>3. CASE StopListener
  <2>1. /\ listeners' = [listeners EXCEPT ![listener].active = FALSE]
        /\ UNCHANGED <<listener, traffic, heard, overlapped>> /\ UNCHANGED listenCall
    BY <1>3 DEF StopListener, Silenced
  <2> QED
    BY <2>1, HeededWaits
<1>4. CASE ClearPackets
  <2>1. /\ listeners' = [listeners EXCEPT ![listener].packets = << >>]
        /\ UNCHANGED <<listener, traffic, heard, overlapped>> /\ UNCHANGED listenCall
    BY <1>4 DEF ClearPackets
  <2> QED
    BY <2>1, HeededWaits
<1>5. CASE UNCHANGED listenVars
  BY <1>5, HeededWaits DEF listenVars
<1> QED
  BY <1>1, <1>2, <1>3, <1>4, <1>5, HeededLooks, HeededStarts, HeededStores, HeededRequests,
     HeededResponds DEF ListenNext

LEMMA HeededServes == Heeded => PacketsPaired /\ OthersAreSilent /\ ListenTypeOK
<1> SUFFICES ASSUME Heeded PROVE OthersAreSilent /\ ListenTypeOK
  BY DEF Heeded
<1>1. ListenTypes /\ (overlapped \/ OneStarts)
  BY DEF Heeded
<1>2. OthersAreSilent
  BY <1>1 DEF OneStarts, OthersAreSilent, Active
<1>3. \A l \in DOMAIN listeners : listeners[l] \in Listener
  BY <1>1 DEF ListenTypes
<1>4. \A l \in DOMAIN listeners : listeners[l].pending \cup ToSet(listeners[l].packets) \subseteq Requested
  BY <1>3 DEF Listener, ToSet
<1> QED
  BY <1>1, <1>2, <1>4 DEF ListenTypes, ListenTypeOK

-----------------------------------------------------------------------------
(* Whoever moves stays the one, and the others stay where they are.        *)
LEMMA OneBrowserMoves ==
    ASSUME [Next \/ (Stopped /\ UNCHANGED vars)]_vars
    PROVE  /\ focus' = focus
           /\ focus = "manager" => [ManagerNext]_managerVars
           /\ focus = "tabs" => [TabsNext]_tabVars
           /\ focus = "routes" => [RoutesNext]_routeVars
           /\ focus = "listen" => [ListenNext]_listenVars
           /\ focus = "headers" => [PageNext]_pageVars
           /\ focus = "cookies" => [CookiesNext]_cookieVars
BY DEF Next, Others, vars

(* The browser's sessions are accounted for: who opened a browser, the     *)
(* table or the sweep will close it; more than the limit are open only by  *)
(* the race of two creations; and calls go to an open page but for what    *)
(* UnreachableOnlyBy names (session.go, actions_tab.go).                   *)
THEOREM BrowserKeptAlways == Spec => []BrowserKept
<1> DEFINE Kept == (focus = "manager" => Managed) /\ (focus = "tabs" => Tabbed)
<1>1. Init => Kept
  BY ManagedInit, TabbedInit DEF Init
<1>2. Kept /\ [Next \/ (Stopped /\ UNCHANGED vars)]_vars => Kept'
  <2> SUFFICES ASSUME Kept, [Next \/ (Stopped /\ UNCHANGED vars)]_vars PROVE Kept'
    OBVIOUS
  <2>1. /\ focus' = focus
        /\ focus = "manager" => [ManagerNext]_managerVars
        /\ focus = "tabs" => [TabsNext]_tabVars
    BY OneBrowserMoves
  <2>2. focus = "manager" => Managed'
    BY <2>1, ManagedStep
  <2>3. focus = "tabs" => Tabbed'
    BY <2>1, TabbedStep
  <2> QED
    BY <2>1, <2>2, <2>3
<1>3. Kept => BrowserKept
  <2>1. Managed => BrowsersAccounted /\ LimitByRaceOnly
    BY ManagedAccounts DEF Managed
  <2> QED
    BY <2>1, TabbedReaches DEF BrowserKept
<1> QED
  BY <1>1, <1>2, <1>3, PTL DEF Spec

(* What calls set up on a page stays: the routes apply, the headers are    *)
(* those set, the cookies those answered, each packet a request with its   *)
(* answer, and no listener listens that nobody can stop, but for what each *)
(* property names (actions_route.go, actions_network.go, actions_http.go,  *)
(* listener.go).                                                           *)
THEOREM PageServedAlways == Spec => []PageServed
<1> DEFINE Kept == /\ focus = "routes" => Routed
                   /\ focus = "headers" => Headed
                   /\ focus = "cookies" => Jarred
                   /\ focus = "listen" => Heeded
<1>1. Init => Kept
  BY RoutedInit, HeadedInit, JarredInit, HeededInit DEF Init
<1>2. Kept /\ [Next \/ (Stopped /\ UNCHANGED vars)]_vars => Kept'
  <2> SUFFICES ASSUME Kept, [Next \/ (Stopped /\ UNCHANGED vars)]_vars PROVE Kept'
    OBVIOUS
  <2>1. /\ focus' = focus
        /\ focus = "routes" => [RoutesNext]_routeVars
        /\ focus = "headers" => [PageNext]_pageVars
        /\ focus = "cookies" => [CookiesNext]_cookieVars
        /\ focus = "listen" => [ListenNext]_listenVars
    BY OneBrowserMoves
  <2>2. focus = "routes" => Routed'
    BY <2>1, RoutedStep
  <2>3. focus = "headers" => Headed'
    BY <2>1, HeadedStep
  <2>4. focus = "cookies" => Jarred'
    BY <2>1, JarredStep
  <2>5. focus = "listen" => Heeded'
    BY <2>1, HeededStep
  <2> QED
    BY <2>1, <2>2, <2>3, <2>4, <2>5
<1>3. Kept => PageServed
  <2>1. Jarred => CookiesAsAnswered
    BY DEF Jarred
  <2> QED
    BY <2>1, RoutedApplies, HeadedKeeps, HeededServes DEF PageServed
<1> QED
  BY <1>1, <1>2, <1>3, PTL DEF Spec
===============================================================================
