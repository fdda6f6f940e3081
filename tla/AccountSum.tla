----------------------------- MODULE AccountSum -----------------------------
(***************************************************************************)
(* The sum of a Nat-valued function over a finite set, written as the      *)
(* cardinality of a disjoint union so that facts about it can be proved    *)
(* without induction: account s contributes the f[s] pairs                 *)
(* <<s, 1>>, ..., <<s, f[s]>>.                                             *)
(***************************************************************************)
EXTENDS Integers, FiniteSets

Units(s, n) == {s} \X (1..n)

UnitsOf(S, f) == UNION {Units(s, f[s]) : s \in S}

SumOver(S, f) == Cardinality(UnitsOf(S, f))
=============================================================================
