------------------------------ MODULE Selections ------------------------------
(***************************************************************************)
(* What a loop that looks at the elements of a slice, or at the numbers of *)
(* a set, in order and skips some of them leaves: without recursion, so    *)
(* that proofs can speak of it.                                            *)
(***************************************************************************)
EXTENDS Integers, Sequences, SequencesExt, FiniteSets

(* The numbers of P, in order: the k-th has k of P up to itself. *)
Ascending(P) == [k \in 1..Cardinality(P) |-> CHOOSE i \in P : Cardinality({j \in P : j <= i}) = k]

(* The elements of s at the places P, and those that are in S. *)
Those(s, P) == LET at == Ascending(P) IN [k \in DOMAIN at |-> s[at[k]]]
Only(s, S) == Those(s, {i \in DOMAIN s : s[i] \in S})
===============================================================================
