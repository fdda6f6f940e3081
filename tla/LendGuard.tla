------------------------------ MODULE LendGuard ------------------------------
(***************************************************************************)
(* The whole program: SOL vaults and Bitcoin vaults under one protocol     *)
(* account, drawing on one pool.  The two sides were written as separate   *)
(* instructions over the same LendingPool, AdminPriceFeed, protocol state  *)
(* and LGUSD accounts; their positions have addresses of their own         *)
(* (BORROW_POSITION_PDA_SEED and BTC_BORROW_POSITION_PDA_SEED).            *)
(***************************************************************************)
EXTENDS SolLending, BtcLending

CONSTANT AttestedBalances      \* balances the keeper attests

ASSUME LendGuardAssumption ==
    /\ Vaults \cap BtcVaults = {}
    /\ AttestedBalances \subseteq Nat

lendGuardVars == <<vars, btcVars>>

LendGuardInit == Init /\ BtcInit

\* What the Bitcoin side adds to the program.
BtcStep(v) ==
    \/ BtcVaultStep(v)
    \/ \E user \in Users :
         \/ LiquidateBtcPosition(v, user)
         \/ \E satoshis \in AttestedBalances :
              \/ AttestBtcBalance(v, user, satoshis)
              \/ FinalizeBtcLiquidation(v, user,
                     BTC_LIQUIDATION_MIN_CONFIRMATIONS, satoshis)

LendGuardNext ==
    \/ Next /\ UNCHANGED btcVars
    \/ \E v \in BtcVaults : BtcStep(v) /\ UNCHANGED <<custodyVars, solVars>>

LendGuardSpec == LendGuardInit /\ [][LendGuardNext]_lendGuardVars

----------------------------------------------------------------------------
(* Safety *)

\* Both kinds of loan are booked in one total: whatever borrowers, repayers
\* and liquidators of either side do, forgiveness and two-phase liquidations
\* included, the pool's scaled debt is the sum of all principals, so that no
\* checked_sub on it is ever in the way of an honest repayment.
TotalLedger ==
    pool.total_borrowed
      = SumOver(Vaults, principal) + SumOver(BtcVaults, btcPrincipal)

\* Nothing either side does locks a borrower of the other in: whoever owes a
\* debt and keeps the vault account can pay with every token at hand, frozen
\* or not; a request to repay everything takes what there is.
RepayStaysOpen ==
    /\ RepayNeverFrozenOut
    /\ \A v \in btcPositions :
         DebtOf(btcPrincipal[v]) > 0 /\ tokens[BtcOwnerOf[v]] > 0 =>
           \A amount \in (1..tokens[BtcOwnerOf[v]]) \cup {U64_MAX} :
             MayRepayBtc(v, BtcOwnerOf[v], amount)

\* A frozen protocol is still on both sides: while the global flag stays set,
\* whichever vault's check set it, the pool pays nothing out, no loan is
\* granted, and none is paid off but by its owner.
FreezeStopsBothSides ==
    [][protocol.frozen /\ protocol'.frozen =>
         /\ tokens'[PoolVault] >= tokens[PoolVault]
         /\ positions' \subseteq positions
         /\ btcPositions' \subseteq btcPositions
         /\ \A v \in Vaults :
              principal'[v] # principal[v]
                => tokens'[OwnerOf[v]] < tokens[OwnerOf[v]]
         /\ \A v \in BtcVaults :
              btcPrincipal'[v] # btcPrincipal[v]
                => tokens'[BtcOwnerOf[v]] < tokens[BtcOwnerOf[v]]]_lendGuardVars

----------------------------------------------------------------------------
(* Refinement *)

\* The scaled debt at each vault address, of either kind.
Owed ==
    [v \in Vaults \cup BtcVaults |->
       IF v \in Vaults THEN principal[v] ELSE btcPrincipal[v]]

Book == INSTANCE LoanBook WITH
    Borrowers <- Vaults \cup BtcVaults, owed <- Owed,
    book <- pool.total_borrowed, index <- pool.borrow_index,
    cash <- tokens[PoolVault]

\* The program implements the loan book: in no interleaving of the two sides
\* is a loan paid out without being booked, topped up, or written down without
\* cash, and no step touches more than one loan.
LendsByTheBook == Book!BookSpec
=============================================================================
