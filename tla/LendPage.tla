------------------------------ MODULE LendPage ------------------------------
(***************************************************************************)
(* The lending page, web/app/lend/page.tsx: it keeps a view of the market  *)
(* and of the vaults, offers what the view allows and sends it with sendIx.*)
(* Chain and view drift apart: the page reads in several requests, when it *)
(* is opened, on Refresh, after its own transactions and when a program    *)
(* log names one of its events, so that any read may come at any time.     *)
(*                                                                         *)
(* Not modelled: the log, the LGUSD balance shown, the Encrypt inputs of a *)
(* loan (a failure is ignored there) and creating token accounts.  The     *)
(* Bitcoin half of the page is BtcPanel.                                   *)
(***************************************************************************)
EXTENDS SendIx, ClientMath

CONSTANTS
    TypedAmounts,          \* what the visitor types into the amount field
    NewPrices,             \* the buttons that set the BTC price
    KeyAmount              \* what eight bytes of a dWallet's key read as

\* Vaults of the two kinds are at different addresses.
ASSUME LendAssumption ==
    /\ TypedAmounts \subseteq Nat
    /\ NewPrices \subseteq Nat
    /\ Vaults \cap BtcVaults = {}
    /\ KeyAmount \in [BtcVaults -> Nat]

VARIABLES view             \* what the page last read, and the vault picked

\* The vaults that positions are of: their accounts look alike.
Borrowers == Vaults \cup BtcVaults

\* `position` is the scaled debt of the position shown, 0 without one.
View ==
    [loaded : BOOLEAN, index : Nat, price : Nat,
     positions : SUBSET Borrowers, principal : [Borrowers -> Nat],
     vaults : SUBSET Borrowers, verified : SUBSET Vaults,
     deposited : [Borrowers -> Nat], selected : Vaults \cup {NoPda},
     position : Nat]

NoView ==
    [loaded |-> FALSE, index |-> RAY, price |-> 0, positions |-> {},
     principal |-> [v \in Borrowers |-> 0], vaults |-> {}, verified |-> {},
     deposited |-> [v \in Borrowers |-> 0], selected |-> NoPda, position |-> 0]

----------------------------------------------------------------------------
(* Reading, through the decoders *)

PoolReads == Program!Reads(Program!LendingPoolLayout, Web!DecodeLendingPool)
FeedReads == Program!Reads(Program!AdminPriceFeedLayout, Web!DecodeAdminPriceFeed)
DepositReads == Program!Reads(Program!VaultLayout, Web!DecodeVaultAccount)
PositionReads ==
    Program!Reads(Program!BorrowPositionLayout, Web!DecodeBorrowPosition)

\* Vaults and positions are fetched by the owner in their bytes.
OwnersFilter ==
    /\ Program!FieldAt(Program!VaultLayout, Web!OWNER_OFFSET_IN_VAULT, 32)
         = "owner"
    /\ Program!FieldAt(Program!BorrowPositionLayout,
                       Web!OWNER_OFFSET_IN_POSITION, 32) = "owner"

\* The scaled debt of a vault of either kind.
PrincipalOf(v) == IF v \in Vaults THEN principal[v] ELSE btcPrincipal[v]

PositionField(v, name) ==
    [principal |-> PrincipalOf(v)][PositionReads[name]]

PoolField(name) == pool[PoolReads[name]]
FeedField(name) == feed[BTC][FeedReads[name]]
VaultField(v, name) == vault[v][DepositReads[name]]

\* decodeVaultAccount looks at the length alone and takes the longer account of
\* a Bitcoin vault too: where a VaultAccount has its deposit (bytes 105 to 112)
\* there are bytes of the dWallet's key (104 to 136).
DepositRead(v) ==
    IF v \in Vaults THEN VaultField(v, "deposited_amount") ELSE KeyAmount[v]

\* The first requests of refresh: pool, BTC feed and, told by their size, the
\* positions, those of Bitcoin vaults among them.
ReadMarket ==
    /\ view' = [view EXCEPT !.loaded = TRUE,
                            !.index = PoolField("borrow_index"),
                            !.price = FeedField("price_usd"),
                            !.positions = positions \cup btcPositions,
                            !.principal = [v \in Borrowers |->
                               PositionField(v, "principal")]]
    /\ UNCHANGED <<chainVars, calls, running, mishaps>>

\* The vault a refresh selects: a verified one of the visitor's, or else any.
Preferred(found, verified) ==
    IF found \cap verified # {} THEN found \cap verified
    ELSE IF found # {} THEN found ELSE {NoPda}

\* Then the vaults of the visitor and those that positions name, whatever
\* their kind.  Several refreshes may be under way, so either read may follow
\* any other.
ReadVaults ==
    /\ view.loaded
    /\ LET live == {v \in Vaults : vault[v].live}
                     \cup {v \in BtcVaults : btcVault[v].live}
           owned == {v \in Vaults : /\ vault[v].live
                                    /\ OwnersFilter /\ OwnerOf[v] = Visitor}
           verified == {v \in owned : VaultField(v, "proof_status") = VERIFIED}
       IN  \E v \in Preferred(owned, verified) :
             view' = [view EXCEPT
               !.vaults = owned \cup (live \cap view.positions),
               !.verified = verified,
               !.deposited = [u \in Borrowers |-> DepositRead(u)],
               !.selected = v]
    /\ UNCHANGED <<chainVars, calls, running, mishaps>>

\* Whenever a vault is selected its position is read.
ReadPosition ==
    /\ view' = [view EXCEPT !.position =
                  IF view.selected \in positions
                  THEN PositionField(view.selected, "principal") ELSE 0]
    /\ UNCHANGED <<chainVars, calls, running, mishaps>>

----------------------------------------------------------------------------
(* What the view says *)

CachedDebt(v) ==
    IF v \in view.positions
    THEN WebCurrentDebt(view.principal[v], view.index)
    ELSE 0

\* The position panel: the debt of the vault picked, interest included.
DebtShown == WebCurrentDebt(view.position, view.index)

\* Mutated form: holds a debt against the loan-to-value limit.
PanelLiquidatableByLtv(v) ==
    /\ v \in view.vaults
    /\ CachedDebt(v) > 0
    /\ CachedDebt(v)
         > MaxBorrow(view.deposited[v], view.price, COLLATERAL_DECIMALS)

\* liquidatablePositions: every vault, of whichever kind, as if its deposit
\* were Bitcoin held by a VaultAccount.
PanelLiquidatable(v) ==
    /\ v \in view.vaults
    /\ CachedDebt(v) > 0
    /\ WebIsLiquidatable(view.deposited[v], view.price, CachedDebt(v),
                         COLLATERAL_DECIMALS)

MyVault(v) == v \in view.vaults /\ OwnersFilter /\ OwnerOf[v] = Visitor

\* What the borrow panel lists; without any it has no buttons.
VerifiedVaults == {v \in view.verified : MyVault(v)}

\* Mutated form: an all-ones amount that is taken for minus one.
RepayAllAsMinusOne(all, typed) == IF all THEN -1 ELSE Smaller(typed, DebtShown)

\* The whole debt, the amount typed, or the debt as cached if that is less.
RepayAmount(all, typed) == IF all THEN U64_MAX ELSE Smaller(typed, DebtShown)

----------------------------------------------------------------------------
(* The buttons, each with the condition that shows and enables it *)

ClickPick(v) ==
    /\ v \in VerifiedVaults
    /\ view' = [view EXCEPT !.selected = v]
    /\ UNCHANGED <<chainVars, calls, running, mishaps>>

BorrowOffered(v) ==
    /\ VerifiedVaults # {}
    /\ view.loaded /\ v = view.selected
    /\ CachedDebt(v) = 0

ClickBorrow(v) ==
    /\ BorrowOffered(v)
    /\ \E amount \in TypedAmounts : Starts(Task("borrow", v, amount))

RepayOffered(v) ==
    /\ VerifiedVaults # {}
    /\ view.loaded /\ v = view.selected
    /\ view.position > 0

ClickRepay(v) ==
    /\ RepayOffered(v)
    /\ \E all \in BOOLEAN, typed \in TypedAmounts :
         Starts(Task("repay", v, RepayAmount(all, typed)))

OwnerOfPosition(v) == IF v \in Vaults THEN OwnerOf[v] ELSE BtcOwnerOf[v]

LiquidateOffered(v) == PanelLiquidatable(v) /\ OwnerOfPosition(v) # Visitor

ClickLiquidate(v) ==
    /\ LiquidateOffered(v)
    /\ Starts(Task("liquidate", v, 0))

PriceOffered == view.loaded

ClickSetPrice ==
    /\ PriceOffered
    /\ \E price \in NewPrices : Starts(Task("price", NoPda, price))

ClickUnfreeze == Starts(Task("unfreeze", NoPda, 0))

LendReturns(c) == Confirmed(c) /\ Ended(c) /\ UNCHANGED <<chainVars, mishaps>>

\* What both halves of the page share.
SharedClick == ClickSetPrice \/ ClickUnfreeze

\* How a handler fares until it returns.
Fares(c) == Throws(c) \/ PostUnanswered(c) \/ UnderWay(c)

LendStep ==
    \/ ReadMarket
    \/ ReadVaults
    \/ ReadPosition
    \/ \E v \in Vaults : ClickPick(v)
    \/ /\ \/ SharedClick
          \/ \E v \in Vaults : ClickBorrow(v) \/ ClickRepay(v)
          \/ \E v \in Borrowers : ClickLiquidate(v)
          \/ \E c \in CallIds : LendReturns(c) \/ Fares(c)
       /\ UNCHANGED view

=============================================================================
