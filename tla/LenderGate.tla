----------------------------- MODULE LenderGate -----------------------------
(***************************************************************************)
(* checkLendGuardGate of web/lib/lendguard-gate.ts: what an external       *)
(* lender calls before it accepts a vault as collateral.  It reads the     *)
(* protocol state, then the vault, and answers from what it read; its      *)
(* clock is taken to be the chain's.                                       *)
(***************************************************************************)
EXTENDS SendIx

CONSTANT PROOF_FRESHNESS_SECONDS     \* the gate's own; it is not the program's

ASSUME GateAssumption == PROOF_FRESHNESS_SECONDS \in Nat

VARIABLES gate             \* the vaults asked about whose answer is due

GateType == gate \subseteq Vaults

\* readProtocolState looks at one byte.
FrozenByte ==
    Program!FieldAt(Program!ProtocolStateLayout, Web!FROZEN_OFFSET, 1)

GateReadsFrozen == protocol[FrozenByte]

VaultReads == Program!Reads(Program!VaultLayout, Web!DecodeVaultAccount)

VaultRead(v, name) == vault[v][VaultReads[name]]

\* The first request; a frozen protocol is refused at once.
AskGate(v) ==
    /\ gate = {}
    /\ protocol.live /\ ~GateReadsFrozen
    /\ gate' = {v}

\* Mutated form: trusts the protocol's flag alone.
AcceptsFrozenVault(v) ==
    /\ vault[v].live
    /\ VaultRead(v, "proof_status") = VERIFIED
    /\ now - VaultRead(v, "proof_timestamp") <= PROOF_FRESHNESS_SECONDS

Accepts(v) ==
    /\ vault[v].live
    /\ ~VaultRead(v, "frozen")
    /\ VaultRead(v, "proof_status") = VERIFIED
    /\ now - VaultRead(v, "proof_timestamp") <= PROOF_FRESHNESS_SECONDS

GateAllows(v) == v \in gate /\ Accepts(v) /\ gate' = gate \ {v}

GateRefuses(v) == v \in gate /\ ~Accepts(v) /\ gate' = gate \ {v}

\* Whatever is frozen, thawed, checked or lapses between its two reads: where the
\* gate says yes there is an approval of the vault's dWallet, and the vault failed
\* no risk check, not even one whose freeze of the protocol the gate did not see.
GateBacksItsYes ==
    [][\A v \in Vaults :
         GateAllows(v) =>
           /\ v \in approved
           /\ risk[v].live => risk[v].last_check_result
      ]_<<CustodyTouched, approved, gate>>
=============================================================================
