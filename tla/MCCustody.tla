----------------------------- MODULE MCCustody -----------------------------
(* Instances of Custody for TLC. *)
EXTENDS Custody

CONSTANTS alice, bob, v1, v2, SOL

\* Both vaults belong to Alice; Bob is the protocol admin.
AliceOwnsAll == [v \in Vaults |-> alice]
=============================================================================
