-------------------------------- MODULE Pool --------------------------------
(***************************************************************************)
(* The lending pool, the admin price feeds and the LGUSD token balances:   *)
(* the state that borrowers against SOL-side vaults and against Bitcoin    *)
(* vaults share (state/lending_pool.rs, state/admin_price_feed.rs, the     *)
(* first half of instructions/lending.rs).                                 *)
(*                                                                         *)
(* The pool PDA is the LGUSD mint authority and never mints after the      *)
(* bootstrap, so the token supply is fixed.  Holders are the signers'      *)
(* token accounts and the pool's vault.                                    *)
(***************************************************************************)
EXTENDS Protocol, LendingMath

CONSTANTS
    PriceAssets,           \* asset types with a price feed address
    PoolVault,             \* the holder pool_token_vault
    PRICE_STALENESS_SECONDS,
    InitialTokens,         \* LGUSD held by each holder after the bootstrap
    Liquidities,           \* initial_liquidity values callers pass
    Prices,                \* prices admins post
    TransferAmounts        \* LGUSD amounts moved between wallets

Holders == Users \cup {PoolVault}

ASSUME PoolAssumption ==
    /\ PoolVault \notin Users
    /\ PRICE_STALENESS_SECONDS \in Nat
    /\ InitialTokens \in [Holders -> Nat]
    /\ Liquidities \subseteq Nat
    /\ Prices \subseteq Nat
    /\ TransferAmounts \subseteq Nat

VARIABLES
    pool,                  \* LendingPool
    feed,                  \* AdminPriceFeed of each asset type
    tokens                 \* SPL balance of each holder

poolVars == <<pool, feed, tokens>>

NoPool == [live |-> FALSE, total_liquidity |-> 0, total_borrowed |-> 0,
           borrow_index |-> RAY, last_update_slot |-> 0]

NoFeed == [live |-> FALSE, price_usd |-> 0, updated_at |-> 0,
           admin |-> NoUser]

LendingPool ==
    [live : BOOLEAN, total_liquidity : Nat, total_borrowed : Nat,
     borrow_index : Nat, last_update_slot : Nat]

AdminPriceFeed ==
    [live : BOOLEAN, price_usd : Nat, updated_at : Nat,
     admin : Users \cup {NoUser}]

PoolType ==
    /\ pool \in LendingPool
    /\ feed \in [PriceAssets -> AdminPriceFeed]
    /\ tokens \in [Holders -> Nat]

PoolInit ==
    /\ pool = NoPool
    /\ feed = [a \in PriceAssets |-> NoFeed]
    /\ tokens = InitialTokens

----------------------------------------------------------------------------

\* Mutated form: leaves last_update_slot where it was.
AccruedWithoutStamp ==
    IF slot <= pool.last_update_slot
    THEN pool
    ELSE [pool EXCEPT
            !.borrow_index = @ + IndexGrowth(pool.total_borrowed,
                                             pool.total_liquidity, @,
                                             slot - pool.last_update_slot)]

\* The pool after accrue_interest at the current slot.
Accrued ==
    IF slot <= pool.last_update_slot
    THEN pool
    ELSE [pool EXCEPT
            !.last_update_slot = slot,
            !.borrow_index = @ + IndexGrowth(pool.total_borrowed,
                                             pool.total_liquidity, @,
                                             slot - pool.last_update_slot)]

DebtOf(scaled) == CurrentDebt(scaled, Accrued.borrow_index)

PriceFresh(asset) ==
    /\ asset \in PriceAssets
    /\ feed[asset].live
    /\ now - feed[asset].updated_at <= PRICE_STALENESS_SECONDS

\* An SPL transfer fails unless the source covers it.
Pay(from, to, amount) ==
    /\ tokens[from] >= amount
    /\ tokens' = [tokens EXCEPT ![from] = @ - amount, ![to] = @ + amount]

----------------------------------------------------------------------------

FeedAt(price, admin) ==
    [live |-> TRUE, price_usd |-> price, updated_at |-> now, admin |-> admin]

\* Neither instruction compares the signer with protocol_state.admin.
InitializeLendingPool(admin, asset, liquidity, price) ==
    /\ ~pool.live
    /\ ~feed[asset].live
    /\ liquidity > 0
    /\ price > 0
    /\ ValidBps
    /\ tokens[PoolVault] >= liquidity
    /\ pool' = [NoPool EXCEPT !.live = TRUE, !.total_liquidity = liquidity,
                              !.last_update_slot = slot]
    /\ feed' = [feed EXCEPT ![asset] = FeedAt(price, admin)]
    /\ UNCHANGED <<clockVars, protocol, tokens>>

InitializeAdminPriceFeed(admin, asset, price) ==
    /\ ~feed[asset].live
    /\ price > 0
    /\ feed' = [feed EXCEPT ![asset] = FeedAt(price, admin)]
    /\ UNCHANGED <<clockVars, protocol, pool, tokens>>

CloseAdminPriceFeed(admin, asset) ==
    /\ feed[asset].live
    /\ feed[asset].admin = admin
    /\ feed' = [feed EXCEPT ![asset] = NoFeed]
    /\ UNCHANGED <<clockVars, protocol, pool, tokens>>

UpdateAdminPrice(admin, asset, price) ==
    /\ feed[asset].live
    /\ feed[asset].admin = admin
    /\ price > 0
    /\ feed' = [feed EXCEPT ![asset] =
                   [@ EXCEPT !.price_usd = price,
                             !.updated_at = now]]
    /\ UNCHANGED <<clockVars, protocol, pool, tokens>>

\* An ordinary SPL transfer between two wallets.
WalletTransfer(from, to, amount) ==
    /\ from # to
    /\ amount > 0
    /\ Pay(from, to, amount)
    /\ UNCHANGED <<clockVars, protocol, pool, feed>>

PoolStep ==
    \/ \E admin \in Deployers, asset \in PriceAssets, price \in Prices :
         \/ \E liquidity \in Liquidities :
              InitializeLendingPool(admin, asset, liquidity, price)
         \/ InitializeAdminPriceFeed(admin, asset, price)
    \/ \E admin \in Users, asset \in PriceAssets :
         \/ \E price \in Prices : UpdateAdminPrice(admin, asset, price)
         \/ CloseAdminPriceFeed(admin, asset)
    \/ \E from, to \in Users, amount \in TransferAmounts :
         WalletTransfer(from, to, amount)

----------------------------------------------------------------------------

\* The pool's tokens plus its claims, in units of 1/RAY.
PoolValue == tokens[PoolVault] * RAY + pool.total_borrowed * pool.borrow_index
=============================================================================
