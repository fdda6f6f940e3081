------------------------------ MODULE Protocol ------------------------------
(***************************************************************************)
(* The parts of the chain every instruction shares: the Solana clock and   *)
(* the singleton ProtocolStateAccount (state/protocol_state.rs).           *)
(*                                                                         *)
(* One instruction is one action: a Solana transaction is atomic, and an   *)
(* error rolls back everything it did, so a failed require! is a disabled  *)
(* action.                                                                 *)
(***************************************************************************)
EXTENDS Integers

CONSTANTS
    Users,         \* signers
    NoUser,        \* the admin of an account that does not exist yet
    Deployers,     \* the signers tried as creators of shared accounts
    PROOF_EXPIRY_SECONDS,  \* how long a custody proof of either kind counts
    ClockSteps,    \* by how many seconds unix_timestamp may move in a slot
    MaxSlot,       \* bound on the slot, hence on time
    MaxVaults      \* bound on total_vaults, vaults of both kinds

ASSUME UserAssumption == NoUser \notin Users /\ Deployers \subseteq Users
ASSUME ClockAssumption == ClockSteps \subseteq Nat /\ MaxSlot \in Nat

VARIABLES
    now,           \* Clock::get()?.unix_timestamp
    slot,          \* Clock::get()?.slot
    protocol       \* ProtocolStateAccount

clockVars == <<now, slot>>

NoProtocol == [live |-> FALSE, admin |-> NoUser, frozen |-> FALSE,
               total_vaults |-> 0, total_rejected |-> 0,
               total_collateral_verified |-> 0]

\* proof_status of a vault of either kind.
PENDING == "pending"
VERIFIED == "verified"
EXPIRED == "expired"

ProtocolAccount ==
    [live : BOOLEAN, admin : Users \cup {NoUser}, frozen : BOOLEAN,
     total_vaults : Nat, total_rejected : Nat, total_collateral_verified : Nat]

ProtocolType ==
    /\ now \in Nat \ {0}
    /\ slot \in 0..MaxSlot
    /\ protocol \in ProtocolAccount

ProtocolInit == now = 1 /\ slot = 0 /\ protocol = NoProtocol

\* A later slot; several slots may carry the same second.
Tick ==
    /\ slot < MaxSlot
    /\ slot' = slot + 1
    /\ \E seconds \in ClockSteps : now' = now + seconds
    /\ UNCHANGED protocol

\* Whoever creates the singleton becomes its admin, once and for all.
InitializeProtocol(admin) ==
    /\ ~protocol.live
    /\ protocol' = [NoProtocol EXCEPT !.live = TRUE, !.admin = admin]
    /\ UNCHANGED clockVars

IsAdmin(user) == protocol.live /\ protocol.admin = user

\* Clears the global flag and nothing else; any signer may call it.
UnfreezeProtocolState(signer) ==
    /\ protocol.live
    /\ signer \in Users
    /\ protocol' = [protocol EXCEPT !.frozen = FALSE]
    /\ UNCHANGED clockVars
=============================================================================
