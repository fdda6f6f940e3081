---------------------------- MODULE Scripts_proofs ----------------------------
(***************************************************************************)
(* The admin's scripts around the program, for any number of assets,       *)
(* users, vaults, failures and delays.  The bootstrap and the price        *)
(* refresher keep what the program keeps, and the supply of LGUSD is       *)
(* closed before the pool lends; what the clients ask for on Bitcoin       *)
(* vaults and loans is what the program declares; the balance keeper and   *)
(* the liquidation broadcaster send only what the program allows, and      *)
(* loans stand on balances that were read recently.                        *)
(***************************************************************************)
EXTENDS Operations, BtcDaemons, BtcLending_proofs

----------------------------------------------------------------------------
(* What the scripts do to the pool before and between the program's own    *)
(* steps: they mint into its account, create it, and post prices.          *)

SetUp ==
    /\ UNCHANGED <<clockVars, protocol, btcVars>>
    /\ feed' \in [PriceAssets -> AdminPriceFeed]
    /\ feed'[BTC].updated_at \in {0, now, feed[BTC].updated_at}
    /\ tokens' \in [Holders -> Nat]
    /\ tokens'[PoolVault] >= tokens[PoolVault]
    /\ \/ pool' = pool
       \/ /\ ~pool.live
          /\ \E liquidity \in Nat :
               pool' = [live |-> TRUE, total_liquidity |-> liquidity,
                        total_borrowed |-> 0, borrow_index |-> RAY,
                        last_update_slot |-> slot]

\* A pool that was not there before, or the same one.
LEMMA SetUpPool ==
    ASSUME BtcIInv, SetUp
    PROVE  /\ pool' \in LendingPool
           /\ pool.live => pool' = pool
           /\ pool'.total_borrowed = pool.total_borrowed
           /\ pool'.borrow_index = pool.borrow_index
           /\ pool'.last_update_slot <= slot
           /\ UnbornPool'
<1>1. pool \in LendingPool /\ slot \in Nat /\ RAY \in Nat
  BY BtcFacts, UnitAssumption DEF BtcIInv
<1>2. CASE pool' = pool
  BY <1>1, <1>2 DEF BtcIInv, BtcClocksBehind, UnbornPool
<1>3. ASSUME ~pool.live, NEW liquidity \in Nat,
             pool' = [live |-> TRUE, total_liquidity |-> liquidity,
                      total_borrowed |-> 0, borrow_index |-> RAY,
                      last_update_slot |-> slot]
      PROVE  /\ pool' \in LendingPool
             /\ pool'.total_borrowed = pool.total_borrowed
             /\ pool'.borrow_index = pool.borrow_index
             /\ pool'.last_update_slot <= slot
             /\ UnbornPool'
  <2>1. pool.total_borrowed = 0 /\ pool.borrow_index = RAY
    BY <1>3 DEF BtcIInv, UnbornPool, NoPool
  <2>2. pool' \in LendingPool
    BY <1>1, <1>3 DEF LendingPool
  <2> QED
    BY <1>1, <1>3, <2>1, <2>2 DEF UnbornPool
<1> QED
  BY <1>2, <1>3 DEF SetUp

LEMMA SetUpIInv ==
    ASSUME BtcIInv, SetUp
    PROVE  BtcIInv' /\ BtcLedgerKept
<1>1. /\ UNCHANGED <<now, slot, protocol>>
      /\ UNCHANGED <<btcVault, attestation, btcPositions, btcPrincipal, approvals>>
      /\ feed' \in [PriceAssets -> AdminPriceFeed]
      /\ feed'[BTC].updated_at \in {0, now, feed[BTC].updated_at}
      /\ tokens' \in [Holders -> Nat]
  BY DEF SetUp, clockVars, btcVars
<1>2. /\ pool' \in LendingPool
      /\ pool.live => pool' = pool
      /\ pool'.total_borrowed = pool.total_borrowed
      /\ pool'.borrow_index = pool.borrow_index
      /\ pool'.last_update_slot <= slot
      /\ UnbornPool'
  BY SetUpPool
<1>3. BtcTypeOK'
  BY <1>1, <1>2 DEF BtcIInv, BtcTypeOK, ProtocolType, PoolType, BtcType
<1>4. BtcClocksBehind'
  <2>1. now \in Nat /\ feed[BTC].updated_at <= now
    BY BtcFacts DEF BtcIInv, BtcClocksBehind
  <2> QED
    BY <1>1, <1>2, <2>1 DEF BtcIInv, BtcClocksBehind
<1>5. BtcDebtHasAPosition'
  BY <1>1, <1>2 DEF BtcIInv, BtcDebtHasAPosition
<1>6. FrozenIsRecoverable'
  BY <1>1 DEF BtcIInv, FrozenIsRecoverable, MayFinalize, IsAdmin
<1>7. BtcLedgerKept
  BY <1>1, <1>2 DEF BtcLedgerKept
<1> QED
  BY <1>2, <1>3, <1>4, <1>5, <1>6, <1>7 DEF BtcIInv

\* Minting into the pool's account is the Endow of the loan book.
LEMMA SetUpIsBooked ==
    ASSUME BtcIInv, SetUp
    PROVE  [BtcBook!BookNext]_(BtcBook!bookVars)
<1>1. /\ UNCHANGED btcPrincipal
      /\ UNCHANGED <<pool.total_borrowed, pool.borrow_index>>
  BY SetUpPool DEF SetUp, btcVars
<1>2. /\ tokens[PoolVault] \in Nat /\ tokens'[PoolVault] \in Nat
      /\ tokens'[PoolVault] >= tokens[PoolVault]
  BY BtcFacts DEF BtcIInv, SetUp, Holders
<1>3. CASE tokens'[PoolVault] = tokens[PoolVault]
  BY <1>1, <1>3 DEF BtcBook!bookVars
<1>4. CASE tokens'[PoolVault] > tokens[PoolVault]
  BY <1>1, <1>4 DEF BtcBook!BookNext, BtcBook!Endow
<1> QED
  BY <1>2, <1>3, <1>4

LEMMA SetUpValue ==
    ASSUME BtcIInv, SetUp
    PROVE  LossBounded
<1>1. /\ pool'.total_borrowed = pool.total_borrowed
      /\ pool'.borrow_index = pool.borrow_index
  BY SetUpPool
<1> DEFINE t == tokens[PoolVault]
           u == tokens'[PoolVault]
           i == pool.borrow_index
           claims == pool.total_borrowed * i
<1>2. t \in Nat /\ u \in Nat /\ t <= u
  BY BtcFacts DEF BtcIInv, SetUp, Holders
<1>3. claims \in Nat /\ i \in Nat \ {0} /\ RAY \in Nat
  <2>1. /\ pool.total_borrowed \in Nat /\ i \in Nat /\ RAY \in Nat \ {0}
        /\ i >= RAY
    BY BtcFacts, UnitAssumption DEF BtcIInv, BtcClocksBehind
  <2>2. claims \in Nat
    BY <2>1, TimesIsNat
  <2> HIDE DEF claims
  <2> QED
    BY <2>1, <2>2
<1>4. PoolValue = t * RAY + claims /\ PoolValue' = u * RAY + claims
  BY <1>1 DEF PoolValue
<1>5. t * RAY <= u * RAY /\ t * RAY \in Nat /\ u * RAY \in Nat
  BY <1>2, <1>3, TimesMonotone, TimesIsNat
<1> HIDE DEF t, u, claims
<1>6. u * RAY + claims > t * RAY + claims - i
  BY <1>3, <1>5
<1>7. PoolValue' > PoolValue - i
  BY <1>2, <1>3, <1>4, <1>5, <1>6
<1> QED
  BY <1>1, <1>7 DEF LossBounded
----------------------------------------------------------------------------
(* The inductive invariant.  A mint that has changed hands is on record,   *)
(* so that no later run makes another (MintStages); until the pool exists  *)
(* only the script has touched the tokens, and it goes past the minting    *)
(* only with the vault at the initial liquidity (VaultStages).             *)

MintStages ==
    /\ step \in {"supply", "authority", "pool"} => mint.recorded
    /\ mint.authority = "pool" => mint.recorded
    /\ step = "pool" => mint.authority = "pool"

VaultStages ==
    ~pool.live =>
      /\ \A u \in Users : tokens[u] = InitialTokens[u]
      /\ tokens[PoolVault] <= INITIAL_LIQUIDITY
      /\ step \in {"authority", "pool"} => tokens[PoolVault] = INITIAL_LIQUIDITY

OpsIInv ==
    /\ BtcIInv
    /\ OpsTypeOK
    /\ MintStages
    /\ VaultStages
    /\ NoMintBehindLoans

----------------------------------------------------------------------------
(* The supply *)

\* A transfer between two accounts leaves the supply alone.
LEMMA PayKeepsSupply ==
    ASSUME tokens \in [Holders -> Nat], NEW from \in Holders, NEW to \in Holders,
           from # to, NEW amount \in Nat, Pay(from, to, amount)
    PROVE  SumOver(Holders, tokens') = SumOver(Holders, tokens)
<1> DEFINE left == tokens[from] - amount
           taken == [tokens EXCEPT ![from] = left]
           given == [taken EXCEPT ![to] = tokens[to] + amount]
<1>0. IsFiniteSet(Holders)
  BY OperationsAssumption, FS_AddElement DEF Holders
<1>1. left \in Nat /\ tokens[from] \in Nat /\ tokens[to] \in Nat
  BY DEF Pay
<1>2. taken \in [Holders -> Nat] /\ taken[from] = left /\ taken[to] = tokens[to]
  BY <1>1
<1>3. given \in [Holders -> Nat] /\ given[to] = tokens[to] + amount
  BY <1>1, <1>2
<1>4. tokens' = given
  BY <1>1 DEF Pay
<1>5. SumOver(Holders, taken) = SumOver(Holders, tokens) - tokens[from] + left
  <2>1. \A h \in Holders \ {from} : taken[h] = tokens[h]
    OBVIOUS
  <2> HIDE DEF taken
  <2> QED
    BY <1>0, <1>2, <2>1, SumUpdate
<1>6. SumOver(Holders, given)
        = SumOver(Holders, taken) - tokens[to] + (tokens[to] + amount)
  <2>1. \A h \in Holders \ {to} : given[h] = taken[h]
    BY <1>2
  <2> HIDE DEF taken, given
  <2>2. SumOver(Holders, given) = SumOver(Holders, taken) - taken[to] + given[to]
    BY <1>0, <1>2, <1>3, <2>1, SumUpdate
  <2> QED
    BY <1>2, <1>3, <2>2
<1>7. SumOver(Holders, tokens) \in Nat
  BY <1>0, SumIsNat
<1>8. left = tokens[from] - amount
  OBVIOUS
<1> HIDE DEF left, taken, given
<1> QED
  BY <1>1, <1>4, <1>5, <1>6, <1>7, <1>8

\* While wallets hold what they began with, the supply is that and the vault.
LEMMA SupplyBeforePool ==
    ASSUME tokens \in [Holders -> Nat],
           \A u \in Users : tokens[u] = InitialTokens[u]
    PROVE  SumOver(Holders, tokens)
             = tokens[PoolVault] + SumOver(Users, InitialTokens)
<1> DEFINE Rest == UNION {Units(t, tokens[t]) : t \in Holders \ {PoolVault}}
<1>0. IsFiniteSet(Holders) /\ PoolVault \in Holders
  BY OperationsAssumption, FS_AddElement DEF Holders
<1>1. /\ Cardinality(Rest) \in Nat
      /\ SumOver(Holders, tokens) = Cardinality(Rest) + tokens[PoolVault]
  BY <1>0, SumSplit
<1>2. Holders \ {PoolVault} = Users
  BY PoolAssumption DEF Holders
<1>3. Rest = UnitsOf(Users, InitialTokens)
  <2>1. Rest = UNION {Units(t, tokens[t]) : t \in Users}
    BY <1>2
  <2>2. \A t \in Users : Units(t, tokens[t]) = Units(t, InitialTokens[t])
    OBVIOUS
  <2> QED
    BY <2>1, <2>2 DEF UnitsOf
<1>4. tokens[PoolVault] \in Nat
  BY <1>0
<1>5. Cardinality(Rest) = SumOver(Users, InitialTokens)
  BY <1>3 DEF SumOver
<1> HIDE DEF Rest
<1> QED
  BY <1>1, <1>4, <1>5
----------------------------------------------------------------------------
(* The steps of OpsNext, by what they do to the program's state            *)

\* A step of the bootstrap that creates the pool.
LEMMA PoolCreated ==
    ASSUME BtcIInv, NEW admin \in Users, NEW liquidity \in Nat,
           NEW price \in Nat, UNCHANGED btcVars,
           InitializeLendingPool(admin, BTC, liquidity, price)
    PROVE  /\ SetUp
           /\ ~pool.live
           /\ UNCHANGED tokens
           /\ tokens[PoolVault] >= liquidity
           /\ pool'.live /\ pool'.total_liquidity = liquidity
<1>1. /\ UNCHANGED <<clockVars, protocol, btcVars, tokens>>
      /\ feed' = [feed EXCEPT ![BTC] = FeedAt(price, admin)]
      /\ pool' = [live |-> TRUE, total_liquidity |-> liquidity,
                  total_borrowed |-> 0, borrow_index |-> RAY,
                  last_update_slot |-> slot]
      /\ ~pool.live
      /\ tokens[PoolVault] >= liquidity
  BY DEF InitializeLendingPool, NoPool
<1>2. FeedAt(price, admin) \in AdminPriceFeed
  BY BtcFacts DEF BtcIInv, FeedAt, AdminPriceFeed
<1>3. /\ feed' \in [PriceAssets -> AdminPriceFeed]
      /\ feed'[BTC].updated_at = now
  BY <1>1, <1>2, BtcFacts, BtcAssumption DEF BtcIInv, FeedAt
<1>4. tokens[PoolVault] \in Nat /\ tokens \in [Holders -> Nat]
  BY BtcFacts DEF BtcIInv, Holders
<1>5. tokens'[PoolVault] >= tokens[PoolVault]
  BY <1>1, <1>4
<1>6. SetUp
  BY <1>1, <1>3, <1>4, <1>5 DEF SetUp
<1> QED
  BY <1>1, <1>6

\* A step that posts prices, or opens a feed.
LEMMA FeedsPosted ==
    ASSUME BtcIInv, UNCHANGED <<clockVars, protocol, pool, tokens, btcVars>>,
           \A a \in PriceAssets :
             \/ feed'[a] = feed[a]
             \/ \E price \in Nat : feed'[a] = FeedAt(price, Admin),
           feed' = [a \in PriceAssets |-> feed'[a]]
    PROVE  SetUp
<1>1. \A price \in Nat : FeedAt(price, Admin) \in AdminPriceFeed
                          /\ FeedAt(price, Admin).updated_at = now
  BY BtcFacts, OperationsAssumption DEF BtcIInv, FeedAt, AdminPriceFeed
<1>2. \A a \in PriceAssets : /\ feed'[a] \in AdminPriceFeed
                             /\ feed'[a].updated_at \in {now, feed[a].updated_at}
  BY <1>1, BtcFacts DEF BtcIInv
<1>3. feed' \in [PriceAssets -> AdminPriceFeed]
  BY <1>2
<1>4. tokens[PoolVault] \in Nat /\ tokens \in [Holders -> Nat]
  BY BtcFacts DEF BtcIInv, Holders
<1> QED
  BY <1>2, <1>3, <1>4, BtcAssumption DEF SetUp

\* The vault is topped up.
LEMMA VaultToppedUp ==
    ASSUME BtcIInv, StepMintSupply
    PROVE  SetUp
<1>1. /\ tokens \in [Holders -> Nat] /\ PoolVault \in Holders
      /\ INITIAL_LIQUIDITY \in Nat
      /\ feed \in [PriceAssets -> AdminPriceFeed]
  BY BtcFacts, OperationsAssumption DEF BtcIInv, Holders
<1>2. UNCHANGED <<clockVars, protocol, pool, feed, btcVars>>
  BY DEF StepMintSupply
<1>3. \/ UNCHANGED tokens
      \/ /\ tokens[PoolVault] < INITIAL_LIQUIDITY
         /\ tokens' = [tokens EXCEPT ![PoolVault] = INITIAL_LIQUIDITY]
  BY <1>1 DEF StepMintSupply
<1>4. tokens' \in [Holders -> Nat] /\ tokens'[PoolVault] >= tokens[PoolVault]
  BY <1>1, <1>3
<1> QED
  BY <1>1, <1>2, <1>4 DEF SetUp

\* What the scripts do is what any user may do, or sets the pool up.
LEMMA OpsStepKinds ==
    ASSUME OpsIInv, [OpsNext]_ops
    PROVE  [BtcNext]_btcAll \/ SetUp
<1> USE DEF OpsIInv
<1>1. CASE UNCHANGED ops
  BY <1>1 DEF ops
<1>2. CASE Tick /\ UNCHANGED <<poolVars, btcVars, opsVars>>
  BY <1>2 DEF BtcNext
<1>3. CASE \/ BootstrapStart \/ StepCreateMint \/ StepRecordMint
           \/ StepTransferAuthority \/ MintSupplyThrows \/ BootstrapStops
  BY <1>3 DEF BootstrapStart, StepCreateMint, StepRecordMint,
     StepTransferAuthority, MintSupplyThrows, BootstrapStops
<1>4. CASE StepInitializeProtocol
  <2>1. Admin \in Users
    BY OperationsAssumption
  <2>2. CASE protocol.live
    BY <1>4, <2>2 DEF StepInitializeProtocol, btcAll
  <2>3. CASE ~protocol.live
    BY <1>4, <2>1, <2>3 DEF StepInitializeProtocol, BtcNext
  <2> QED
    BY <2>2, <2>3
<1>5. CASE StepMintSupply
  BY <1>5, VaultToppedUp
<1>6. CASE StepInitializePool
  <2>1. CASE pool.live
    BY <1>6, <2>1 DEF StepInitializePool, btcAll, poolVars
  <2>2. CASE ~pool.live
    <3>1. /\ InitializeLendingPool(Admin, BTC, INITIAL_LIQUIDITY, INITIAL_PRICE[BTC])
          /\ UNCHANGED btcVars
      BY <1>6, <2>2 DEF StepInitializePool
    <3>2. /\ Admin \in Users /\ INITIAL_LIQUIDITY \in Nat
          /\ INITIAL_PRICE[BTC] \in Nat
      BY OperationsAssumption, BtcAssumption
    <3> QED
      BY <3>1, <3>2, PoolCreated
  <2> QED
    BY <2>1, <2>2
<1>7. CASE StepInitializeFeed
  <2> DEFINE asset == FeedOrder[nextFeed]
  <2>1. asset \in PriceAssets /\ INITIAL_PRICE[asset] \in Nat
    BY OperationsAssumption DEF OpsTypeOK
  <2>2. feed \in [PriceAssets -> AdminPriceFeed]
    BY BtcFacts DEF BtcIInv
  <2> HIDE DEF asset
  <2>3. /\ UNCHANGED <<clockVars, protocol, pool, tokens, btcVars>>
        /\ \/ UNCHANGED feed
           \/ feed' = [feed EXCEPT ![asset] = FeedAt(INITIAL_PRICE[asset], Admin)]
    BY <1>7 DEF StepInitializeFeed, InitializeAdminPriceFeed, asset
  <2>4. /\ feed' = [a \in PriceAssets |-> feed'[a]]
        /\ \A a \in PriceAssets :
             \/ feed'[a] = feed[a]
             \/ \E price \in Nat : feed'[a] = FeedAt(price, Admin)
    BY <2>1, <2>2, <2>3
  <2> QED
    BY <2>3, <2>4, FeedsPosted
<1>8. CASE RefreshPrices
  <2>1. PICK quote \in Quotes :
          feed' = [a \in PriceAssets |-> FeedAt(quote[a], Admin)]
    BY <1>8 DEF RefreshPrices
  <2>2. quote \in [PriceAssets -> Nat]
    BY OperationsAssumption
  <2>3. UNCHANGED <<clockVars, protocol, pool, tokens, btcVars>>
    BY <1>8 DEF RefreshPrices
  <2> QED
    BY <2>1, <2>2, <2>3, FeedsPosted
<1>9. ASSUME NEW a \in PriceAssets, CloseAdminPriceFeed(Admin, a),
             UNCHANGED <<btcVars, opsVars>>
      PROVE  BtcNext
  BY <1>9, OperationsAssumption DEF BtcNext, PoolStep
<1>10. ASSUME NEW v \in BtcVaults,
              \/ BtcVaultStep(v)
              \/ DaemonReports(v)
              \/ \E liquidator \in Users : LiquidateBtcPosition(v, liquidator)
       PROVE  BtcNext
  <2>1. Admin \in Users /\ KeeperBalances \subseteq Nat
    BY OperationsAssumption
  <2>2. BTC_LIQUIDATION_MIN_CONFIRMATIONS \in Nat
    BY BtcAssumption
  <2> QED
    BY <1>10, <2>1, <2>2 DEF BtcNext, DaemonReports
<1> QED
  BY <1>1, <1>2, <1>3, <1>4, <1>5, <1>6, <1>7, <1>8, <1>9, <1>10
     DEF OpsNext, BootstrapStep

----------------------------------------------------------------------------
(* Preservation, one lemma per kind of step                                *)

LEMMA FirstFeed == 1 \in DOMAIN FeedOrder /\ Len(FeedOrder) \in Nat
                     /\ DOMAIN FeedOrder = 1..Len(FeedOrder)
<1>1. FeedOrder \in Seq(PriceAssets)
  BY OperationsAssumption
<1>2. Len(FeedOrder) \in Nat /\ DOMAIN FeedOrder = 1..Len(FeedOrder)
  BY <1>1
<1>3. PICK i \in DOMAIN FeedOrder : FeedOrder[i] = BTC
  BY OperationsAssumption, BtcAssumption
<1> QED
  BY <1>2, <1>3

LEMMA OpsInitIInv == OpsInit => OpsIInv
<1> SUFFICES ASSUME OpsInit PROVE OpsIInv
  OBVIOUS
<1>1. BtcIInv
  BY BtcInitIInv DEF OpsInit
<1>2. OpsTypeOK
  BY <1>1, FirstFeed, OperationsAssumption
     DEF OpsInit, OpsTypeOK, BtcIInv, NoMint, ScriptSteps
<1>3. MintStages
  BY DEF OpsInit, MintStages, NoMint
<1>4. ~pool.live
  BY DEF OpsInit, PoolInit, NoPool
<1>5. VaultStages /\ NoMintBehindLoans
  BY <1>4, OperationsAssumption
     DEF OpsInit, PoolInit, VaultStages, NoMintBehindLoans
<1> QED
  BY <1>1, <1>2, <1>3, <1>5 DEF OpsIInv

\* The script's own variables keep their types.
LEMMA ScriptTyped ==
    ASSUME OpsIInv, OpsNext, BtcTypeOK'
    PROVE  OpsTypeOK'
<1> USE FirstFeed, OperationsAssumption DEF OpsIInv, OpsTypeOK, ScriptSteps
<1>1. ASSUME NEW next \in ScriptSteps, Goto(next)
      PROVE  /\ step' \in ScriptSteps
             /\ nextFeed' \in DOMAIN FeedOrder
             /\ stops' \in 0..MaxStops
  BY <1>1 DEF Goto
<1>2. CASE UNCHANGED opsVars
  BY <1>2 DEF opsVars
<1>3. CASE \/ BootstrapStart \/ StepInitializeProtocol \/ StepMintSupply
           \/ StepInitializePool \/ MintSupplyThrows
  <2>1. UNCHANGED mint /\ \E next \in ScriptSteps : Goto(next)
    BY <1>3 DEF BootstrapStart, StepInitializeProtocol, StepMintSupply,
       StepInitializePool, MintSupplyThrows
  <2> QED
    BY <1>1, <2>1
<1>4. CASE StepCreateMint \/ StepRecordMint \/ StepTransferAuthority
  <2>1. \E next \in ScriptSteps : Goto(next)
    BY <1>4 DEF StepCreateMint, StepRecordMint, StepTransferAuthority
  <2> DEFINE Mints == [authority : {"none", "admin", "pool"}, recorded : BOOLEAN]
  <2>2. CASE StepCreateMint
    <3>1. [authority |-> "admin", recorded |-> FALSE] \in Mints
      OBVIOUS
    <3>2. mint \in Mints
      OBVIOUS
    <3>3. mint' = mint \/ mint' = [authority |-> "admin", recorded |-> FALSE]
      BY <2>2 DEF StepCreateMint
    <3> QED
      BY <1>1, <2>1, <3>1, <3>2, <3>3
  <2>3. CASE StepRecordMint
    <3>1. mint' \in Mints
      BY <2>3 DEF StepRecordMint
    <3> QED
      BY <1>1, <2>1, <3>1
  <2>4. CASE StepTransferAuthority
    <3>1. mint' \in Mints
      BY <2>4 DEF StepTransferAuthority
    <3> QED
      BY <1>1, <2>1, <3>1
  <2> QED
    BY <1>4, <2>2, <2>3, <2>4
<1>5. CASE StepInitializeFeed
  <2>1. UNCHANGED mint /\ FeedDone
    BY <1>5 DEF StepInitializeFeed
  <2>2. CASE nextFeed = Len(FeedOrder)
    BY <1>1, <2>1, <2>2 DEF FeedDone
  <2>3. CASE nextFeed # Len(FeedOrder)
    BY <2>1, <2>3 DEF FeedDone
  <2> QED
    BY <2>2, <2>3
<1>6. CASE BootstrapStops
  BY <1>6 DEF BootstrapStops
<1>7. CASE RefreshPrices
  BY <1>2, <1>7 DEF RefreshPrices
<1> QED
  BY <1>2, <1>3, <1>4, <1>5, <1>6, <1>7 DEF OpsNext, BootstrapStep

\* While the tokens stay where they are and no pool appears, the stages of the
\* mint are all there is to see to.
LEMMA StagesKept ==
    ASSUME OpsIInv, MintStages', UNCHANGED <<pool, tokens>>,
           pool.live => mint'.authority = "pool",
           step' \in {"authority", "pool"} =>
             \/ step \in {"authority", "pool"}
             \/ tokens[PoolVault] >= INITIAL_LIQUIDITY
    PROVE  MintStages' /\ VaultStages' /\ NoMintBehindLoans'
<1>1. tokens[PoolVault] \in Nat
  BY BtcFacts DEF OpsIInv, BtcIInv, Holders
<1>2. VaultStages'
  BY <1>1, OperationsAssumption DEF OpsIInv, VaultStages
<1>3. NoMintBehindLoans'
  BY DEF OpsIInv, NoMintBehindLoans
<1> QED
  BY <1>2, <1>3

\* Steps of the script that neither mint nor create the pool.
LEMMA ScriptKeepsStages ==
    ASSUME OpsIInv, UNCHANGED <<pool, tokens>>,
           \/ BootstrapStart \/ StepInitializeProtocol \/ StepCreateMint
           \/ StepRecordMint \/ StepTransferAuthority \/ StepInitializePool
           \/ StepInitializeFeed \/ MintSupplyThrows \/ BootstrapStops
    PROVE  MintStages' /\ VaultStages' /\ NoMintBehindLoans'
<1> USE DEF OpsIInv
<1>0. mint \in [authority : {"none", "admin", "pool"}, recorded : BOOLEAN]
  BY DEF OpsTypeOK
<1>1. CASE BootstrapStart \/ StepInitializeProtocol \/ MintSupplyThrows
             \/ BootstrapStops
  <2>1. UNCHANGED mint /\ step' \in {"protocol", "mint", "off"}
    BY <1>1 DEF BootstrapStart, StepInitializeProtocol, MintSupplyThrows,
       BootstrapStops, Goto
  <2>2. MintStages'
    BY <2>1 DEF MintStages
  <2> QED
    BY <2>1, <2>2, StagesKept DEF NoMintBehindLoans
<1>2. CASE StepCreateMint
  <2>1. /\ mint' = IF mint.recorded THEN mint
                   ELSE [authority |-> "admin", recorded |-> FALSE]
        /\ step' = "record"
    BY <1>2 DEF StepCreateMint, Goto
  <2>2. mint.authority = "pool" => mint' = mint
    BY <2>1 DEF MintStages
  <2>3. MintStages'
    BY <2>1 DEF MintStages
  <2> QED
    BY <2>1, <2>2, <2>3, StagesKept DEF NoMintBehindLoans
<1>3. CASE StepRecordMint
  <2>1. /\ mint'.authority = mint.authority /\ mint'.recorded
        /\ step' = "supply"
    BY <1>0, <1>3 DEF StepRecordMint, Goto
  <2>2. MintStages'
    BY <2>1 DEF MintStages
  <2> QED
    BY <2>1, <2>2, StagesKept DEF NoMintBehindLoans
<1>4. CASE StepTransferAuthority
  <2>1. /\ step = "authority" /\ step' = "pool"
        /\ mint'.authority = "pool" /\ mint'.recorded = mint.recorded
    BY <1>0, <1>4 DEF StepTransferAuthority, Goto
  <2>2. MintStages'
    BY <2>1 DEF MintStages
  <2> QED
    BY <2>1, <2>2, StagesKept
<1>5. CASE StepInitializePool
  <2>1. UNCHANGED mint /\ step' = "feeds"
    BY <1>5 DEF StepInitializePool, Goto
  <2>2. MintStages'
    BY <2>1 DEF MintStages
  <2> QED
    BY <2>1, <2>2, StagesKept DEF NoMintBehindLoans
<1>6. CASE StepInitializeFeed
  <2>1. UNCHANGED mint /\ step' \in {"feeds", "off"}
    BY <1>6 DEF StepInitializeFeed, FeedDone, Goto
  <2>2. MintStages'
    BY <2>1 DEF MintStages
  <2> QED
    BY <2>1, <2>2, StagesKept DEF NoMintBehindLoans
<1> QED
  BY <1>1, <1>2, <1>3, <1>4, <1>5, <1>6

\* The vault is short only before the pool exists: later the authority is the
\* pool's and the script throws.
LEMMA MintingKeepsStages ==
    ASSUME OpsIInv, StepMintSupply
    PROVE  MintStages' /\ VaultStages' /\ NoMintBehindLoans'
<1> USE DEF OpsIInv
<1>1. /\ step = "supply" /\ step' = "authority"
      /\ UNCHANGED <<pool, mint>>
  BY DEF StepMintSupply, Goto
<1>2. MintStages'
  BY <1>1 DEF MintStages
<1>3. CASE UNCHANGED tokens /\ tokens[PoolVault] >= INITIAL_LIQUIDITY
  BY <1>1, <1>2, <1>3, StagesKept DEF NoMintBehindLoans
<1>4. CASE /\ MayMint
           /\ tokens' = [tokens EXCEPT ![PoolVault] = INITIAL_LIQUIDITY]
  <2>1. ~pool.live
    BY <1>4 DEF MayMint, NoMintBehindLoans
  <2>2. tokens \in [Holders -> Nat] /\ PoolVault \in Holders
    BY BtcFacts DEF BtcIInv, Holders
  <2>3. /\ tokens'[PoolVault] = INITIAL_LIQUIDITY
        /\ \A u \in Users : tokens'[u] = tokens[u]
    BY <1>4, <2>2, PoolAssumption DEF Holders
  <2>4. VaultStages'
    BY <1>1, <2>1, <2>3, OperationsAssumption DEF VaultStages
  <2> QED
    BY <1>1, <1>2, <2>1, <2>4 DEF NoMintBehindLoans
<1> QED
  BY <1>3, <1>4 DEF StepMintSupply

LEMMA CreationKeepsStages ==
    ASSUME OpsIInv, StepInitializePool, ~pool.live
    PROVE  MintStages' /\ VaultStages' /\ NoMintBehindLoans'
<1> USE DEF OpsIInv
<1>1. /\ step = "pool" /\ step' = "feeds" /\ UNCHANGED mint
      /\ UNCHANGED btcVars
      /\ InitializeLendingPool(Admin, BTC, INITIAL_LIQUIDITY, INITIAL_PRICE[BTC])
  BY DEF StepInitializePool, Goto
<1>2. /\ Admin \in Users /\ INITIAL_LIQUIDITY \in Nat
      /\ INITIAL_PRICE[BTC] \in Nat
  BY OperationsAssumption, BtcAssumption
<1>3. /\ UNCHANGED tokens
      /\ pool'.live /\ pool'.total_liquidity = INITIAL_LIQUIDITY
  BY <1>1, <1>2, PoolCreated
<1>4. MintStages' /\ mint'.authority = "pool"
  BY <1>1 DEF MintStages
<1>5. /\ \A u \in Users : tokens[u] = InitialTokens[u]
      /\ tokens[PoolVault] = INITIAL_LIQUIDITY
  BY <1>1 DEF VaultStages
<1>6. SumOver(Holders, tokens)
        = INITIAL_LIQUIDITY + SumOver(Users, InitialTokens)
  BY <1>5, SupplyBeforePool, BtcFacts DEF BtcIInv
<1> QED
  BY <1>3, <1>4, <1>6 DEF VaultStages, NoMintBehindLoans

----------------------------------------------------------------------------
(* The program's own steps                                                 *)

SupplyKept ==
    /\ pool'.live = pool.live
    /\ pool'.total_liquidity = pool.total_liquidity
    /\ ~pool.live => tokens' = tokens
    /\ SumOver(Holders, tokens') = SumOver(Holders, tokens)

\* A loan, a repayment or a liquidation moves LGUSD between a wallet and the
\* pool.
LEMMA LoanKeepsSupply ==
    ASSUME BtcIInv, pool.live, NEW user \in Users, NEW amount \in Nat,
           NEW booked,
           pool' = [Accrued EXCEPT !.total_borrowed = booked],
           Pay(user, PoolVault, amount) \/ Pay(PoolVault, user, amount)
    PROVE  SupplyKept
<1>1. /\ Accrued \in LendingPool
      /\ Accrued.live = pool.live
      /\ Accrued.total_liquidity = pool.total_liquidity
  BY BtcAccrued DEF BtcIInv
<1>2. pool'.live = pool.live /\ pool'.total_liquidity = pool.total_liquidity
  BY <1>1 DEF LendingPool
<1>3. SumOver(Holders, tokens') = SumOver(Holders, tokens)
  BY PayKeepsSupply, BtcFacts, PoolAssumption DEF BtcIInv, Holders
<1> QED
  BY <1>2, <1>3 DEF SupplyKept

LEMMA VaultStepKeepsSupply ==
    ASSUME BtcIInv, NEW v \in BtcVaults,
           \/ BtcVaultStep(v)
           \/ DaemonReports(v)
           \/ \E liquidator \in Users : LiquidateBtcPosition(v, liquidator)
    PROVE  SupplyKept
<1>1. ASSUME UNCHANGED <<pool, tokens>>
      PROVE  SupplyKept
  BY <1>1 DEF SupplyKept
<1>2. CASE Upkeep(v)
  BY <1>1, <1>2, UpkeepFrame
<1>3. CASE DaemonReports(v)
  BY <1>1, <1>3 DEF DaemonReports, AttestBtcBalance, FinalizeBtcLiquidation,
     poolVars
<1>4. ASSUME NEW signer \in Users, NEW amount \in BtcBorrowAmounts,
             BorrowAgainstBtcCollateral(v, signer, amount)
      PROVE  SupplyKept
  <2>1. /\ pool.live /\ Pay(PoolVault, signer, amount)
        /\ \E booked : pool' = [Accrued EXCEPT !.total_borrowed = booked]
    BY <1>4 DEF BorrowAgainstBtcCollateral
  <2> QED
    BY <2>1, LoanKeepsSupply, BtcAssumption
<1>5. ASSUME NEW signer \in Users, NEW amount \in BtcRepayAmounts,
             RepayBtcBorrow(v, signer, amount)
      PROVE  SupplyKept
  <2>1. /\ pool.live /\ Pay(signer, PoolVault, BtcPaid(v, amount))
        /\ \E booked : pool' = [Accrued EXCEPT !.total_borrowed = booked]
    BY <1>5 DEF RepayBtcBorrow, MayRepayBtc
  <2>2. BtcPaid(v, amount) \in Nat
    BY <1>5, BtcRepayFacts
  <2> QED
    BY <2>1, <2>2, LoanKeepsSupply
<1>6. ASSUME NEW liquidator \in Users, LiquidateBtcPosition(v, liquidator)
      PROVE  SupplyKept
  <2>1. /\ pool.live /\ Pay(liquidator, PoolVault, DebtOf(btcPrincipal[v]))
        /\ \E booked : pool' = [Accrued EXCEPT !.total_borrowed = booked]
    BY <1>6 DEF LiquidateBtcPosition, Booked
  <2>2. DebtOf(btcPrincipal[v]) \in Nat
    BY <1>6, BtcLiquidateFacts
  <2> QED
    BY <2>1, <2>2, LoanKeepsSupply
<1> QED
  BY <1>2, <1>3, <1>4, <1>5, <1>6 DEF BtcVaultStep, Upkeep

LEMMA SupplyKeptStages ==
    ASSUME OpsIInv, SupplyKept, UNCHANGED opsVars
    PROVE  MintStages' /\ VaultStages' /\ NoMintBehindLoans'
<1>1. UNCHANGED <<mint, step>>
  BY DEF opsVars
<1>2. MintStages'
  BY <1>1 DEF OpsIInv, MintStages
<1>3. VaultStages'
  BY <1>1 DEF OpsIInv, VaultStages, SupplyKept
<1>4. NoMintBehindLoans'
  BY <1>1 DEF OpsIInv, NoMintBehindLoans, SupplyKept
<1> QED
  BY <1>2, <1>3, <1>4

LEMMA OpsNextStages ==
    ASSUME OpsIInv, OpsNext
    PROVE  MintStages' /\ VaultStages' /\ NoMintBehindLoans'
<1>1. ASSUME UNCHANGED <<pool, tokens, opsVars>>
      PROVE  MintStages' /\ VaultStages' /\ NoMintBehindLoans'
  BY <1>1, SupplyKeptStages DEF SupplyKept
<1>2. CASE \/ Tick /\ UNCHANGED <<poolVars, btcVars, opsVars>>
           \/ RefreshPrices
           \/ /\ \E a \in PriceAssets : CloseAdminPriceFeed(Admin, a)
              /\ UNCHANGED <<btcVars, opsVars>>
  BY <1>1, <1>2 DEF RefreshPrices, CloseAdminPriceFeed, poolVars
<1>3. CASE /\ \E v \in BtcVaults :
                \/ BtcVaultStep(v)
                \/ DaemonReports(v)
                \/ \E liquidator \in Users : LiquidateBtcPosition(v, liquidator)
           /\ UNCHANGED opsVars
  BY <1>3, VaultStepKeepsSupply, SupplyKeptStages DEF OpsIInv
<1>4. CASE \/ BootstrapStart \/ StepInitializeProtocol \/ StepCreateMint
           \/ StepRecordMint \/ StepTransferAuthority
           \/ StepInitializeFeed \/ MintSupplyThrows \/ BootstrapStops
  <2>1. UNCHANGED <<pool, tokens>>
    BY <1>4 DEF BootstrapStart, StepInitializeProtocol, StepCreateMint,
       StepRecordMint, StepTransferAuthority, StepInitializeFeed,
       MintSupplyThrows, BootstrapStops, btcAll, poolVars
  <2> QED
    BY <1>4, <2>1, ScriptKeepsStages
<1>5. CASE StepMintSupply
  BY <1>5, MintingKeepsStages
<1>6. CASE StepInitializePool
  <2>1. CASE pool.live
    <3>1. UNCHANGED <<pool, tokens>>
      BY <1>6, <2>1 DEF StepInitializePool
    <3> QED
      BY <1>6, <3>1, ScriptKeepsStages
  <2> QED
    BY <1>6, <2>1, CreationKeepsStages
<1> QED
  BY <1>2, <1>3, <1>4, <1>5, <1>6 DEF OpsNext, BootstrapStep

LEMMA OpsNextIInv ==
    ASSUME OpsIInv, [OpsNext]_ops
    PROVE  OpsIInv' /\ BtcLedgerKept
<1>1. BtcIInv' /\ BtcLedgerKept
  BY OpsStepKinds, BtcNextIInv, SetUpIInv DEF OpsIInv
<1>2. CASE OpsNext
  <2>1. OpsTypeOK'
    BY <1>1, <1>2, ScriptTyped DEF BtcIInv
  <2> QED
    BY <1>1, <1>2, <2>1, OpsNextStages DEF OpsIInv
<1>3. CASE UNCHANGED ops
  <2>1. /\ UNCHANGED opsVars
        /\ UNCHANGED <<mint, step, nextFeed, stops>>
        /\ UNCHANGED <<pool, tokens>>
    BY <1>3 DEF ops, opsVars, btcAll, poolVars
  <2>2. OpsTypeOK'
    BY <1>1, <2>1 DEF OpsIInv, OpsTypeOK, BtcIInv
  <2> QED
    BY <1>1, <2>1, <2>2, SupplyKeptStages DEF OpsIInv, SupplyKept
<1> QED
  BY <1>2, <1>3

LEMMA OpsInvariant == OpsSpec => []OpsIInv
<1>1. OpsIInv /\ [OpsNext]_ops => OpsIInv'
  BY OpsNextIInv
<1> QED
  BY <1>1, OpsInitIInv, PTL DEF OpsSpec

\* The state of the scripts and of what they set up is what its types say.
THEOREM OpsTypeCorrect == OpsSpec => []OpsTypeOK
<1>1. OpsIInv => OpsTypeOK
  BY DEF OpsIInv
<1> QED
  BY <1>1, OpsInvariant, PTL

\* In whatever order runs of the bootstrap stop and start again, for any number
\* of assets and users: once the pool lends, LGUSD can no longer be minted and
\* its supply is the pool's liquidity and what wallets held.
THEOREM NoMintBehindLoansHolds == OpsSpec => []NoMintBehindLoans
<1>1. OpsIInv => NoMintBehindLoans
  BY DEF OpsIInv
<1> QED
  BY <1>1, OpsInvariant, PTL

\* No run of the bootstrap, however often it stops, lets the pool's total and
\* the loans it stands for part.
THEOREM OpsDebtLedger == OpsSpec => []BtcDebtLedger
<1>1. OpsInit => BtcDebtLedger
  BY BtcLedgerInit DEF OpsInit, PoolInit, NoPool
<1>2. OpsIInv /\ BtcDebtLedger /\ [OpsNext]_ops => BtcDebtLedger'
  BY OpsNextIInv, BtcLedgerCarried DEF OpsIInv, BtcIInv
<1> QED
  BY <1>1, <1>2, OpsInvariant, PTL DEF OpsSpec

\* Minting into the pool's account, creating it and opening or closing its
\* feeds keep to the loan book: the deployment implements it from its first
\* transaction on.
THEOREM OpsImplementLoanBook == OpsSpec => BtcLendsByTheBook
<1>1. OpsInit => BtcBook!BookInit
  BY BtcBookInit DEF OpsInit
<1>2. OpsIInv /\ [OpsNext]_ops => [BtcBook!BookNext]_(BtcBook!bookVars)
  BY OpsStepKinds, BtcStepIsBooked, SetUpIsBooked DEF OpsIInv
<1> QED
  BY <1>1, <1>2, OpsInvariant, PTL
     DEF OpsSpec, BtcLendsByTheBook, BtcBook!BookSpec

\* Nor does any step of the scripts cost the pool what ForgivenessCostsAll does
\* not allow.
THEOREM OpsForgivenessCostsAll == OpsSpec => ForgivenessCostsAll
<1>1. ASSUME OpsIInv, [OpsNext]_ops
      PROVE  [\/ PoolValue' > PoolValue - pool'.borrow_index
              \/ \E v \in btcPositions \ btcPositions' :
                   tokens[BtcOwnerOf[v]] > 0
                     /\ tokens'[BtcOwnerOf[v]] = 0]_btcAll
  BY <1>1, OpsStepKinds, BtcStepValue, SetUpValue
     DEF OpsIInv, LossBounded, EmptiedForLoan
<1> QED
  BY <1>1, OpsInvariant, PTL DEF OpsSpec, ForgivenessCostsAll

----------------------------------------------------------------------------
(* What the three clients ask for *)

\* The web application and the SDK build what is declared for Bitcoin vaults,
LEMMA VaultBuilders ==
    /\ Web!BuildRegisterBtcVaultIx = Program!register_btc_vault
    /\ Sdk!BuildRegisterBtcVaultIx = Program!register_btc_vault
    /\ Web!BuildVerifyBtcCustodyProofIx = Program!verify_btc_custody_proof
    /\ Sdk!BuildVerifyBtcCustodyProofIx = Program!verify_btc_custody_proof
    /\ Web!BuildRefreshBtcCustodyProofIx = Program!refresh_btc_custody_proof
    /\ Sdk!BuildRefreshBtcCustodyProofIx = Program!refresh_btc_custody_proof
    /\ Web!BuildAttestBtcBalanceIx = Program!attest_btc_balance
    /\ Sdk!BuildAttestBtcBalanceIx = Program!attest_btc_balance
    /\ Script!BuildAttestIx = Program!attest_btc_balance
  BY Zenon DEF Web!BuildRegisterBtcVaultIx, Sdk!BuildRegisterBtcVaultIx,
     Program!register_btc_vault, Program!RegisterBtcVaultAccounts,
     Web!BuildVerifyBtcCustodyProofIx, Sdk!BuildVerifyBtcCustodyProofIx,
     Program!verify_btc_custody_proof, Web!BuildRefreshBtcCustodyProofIx,
     Sdk!BuildRefreshBtcCustodyProofIx, Program!refresh_btc_custody_proof,
     Program!VerifyBtcCustodyProofAccounts, Web!BuildAttestBtcBalanceIx,
     Sdk!BuildAttestBtcBalanceIx, Script!BuildAttestIx,
     Program!attest_btc_balance, Program!AttestBtcBalanceAccounts,
     Web!Instruction, Web!Meta, Web!R, Web!W, Web!S, Web!WS,
     Sdk!Instruction, Sdk!Meta, Sdk!R, Sdk!W, Sdk!S, Sdk!WS,
     Script!Instruction, Script!Meta, Script!R, Script!W, Script!WS,
     Program!Instruction, Program!Meta, Program!R, Program!W, Program!S,
     Program!WS

\* and for Bitcoin loans,
LEMMA LoanBuilders ==
    /\ Web!BuildBorrowAgainstBtcCollateralIx
         = Program!borrow_against_btc_collateral
    /\ Sdk!BuildBorrowAgainstBtcCollateralIx
         = Program!borrow_against_btc_collateral
    /\ Web!BuildRepayBtcBorrowIx = Program!repay_btc_borrow
    /\ Sdk!BuildRepayBtcBorrowIx = Program!repay_btc_borrow
    /\ Web!BuildLiquidateBtcPositionIx = Program!liquidate_btc_position
    /\ Sdk!BuildLiquidateBtcPositionIx = Program!liquidate_btc_position
    /\ Web!BuildFinalizeBtcLiquidationIx = Program!finalize_btc_liquidation
    /\ Sdk!BuildFinalizeBtcLiquidationIx = Program!finalize_btc_liquidation
    /\ Script!BuildFinalizeIx = Program!finalize_btc_liquidation
  BY Zenon DEF Web!BuildBorrowAgainstBtcCollateralIx,
     Sdk!BuildBorrowAgainstBtcCollateralIx,
     Program!borrow_against_btc_collateral,
     Program!BorrowAgainstBtcCollateralAccounts, Web!BuildRepayBtcBorrowIx,
     Sdk!BuildRepayBtcBorrowIx, Program!repay_btc_borrow,
     Program!RepayBtcBorrowAccounts, Web!BuildLiquidateBtcPositionIx,
     Sdk!BuildLiquidateBtcPositionIx, Program!liquidate_btc_position,
     Program!LiquidateBtcPositionAccounts, Web!BuildFinalizeBtcLiquidationIx,
     Sdk!BuildFinalizeBtcLiquidationIx, Script!BuildFinalizeIx,
     Program!finalize_btc_liquidation, Program!FinalizeBtcLiquidationAccounts,
     Web!Instruction, Web!Meta, Web!R, Web!W, Web!WS, Sdk!Instruction,
     Sdk!Meta, Sdk!R, Sdk!W, Sdk!WS, Script!Instruction, Script!Meta,
     Script!R, Script!W, Script!WS, Program!Instruction, Program!Meta,
     Program!R, Program!W, Program!WS

\* and, with the scripts, for the accounts that all of them share.
LEMMA SetupBuilders ==
    /\ Web!BuildInitializeProtocolIx = Program!initialize_protocol
    /\ Script!InitializeProtocolIx = Program!initialize_protocol
    /\ Web!BuildInitializeLendingPoolIx = Program!initialize_lending_pool
    /\ Sdk!BuildInitializeLendingPoolIx = Program!initialize_lending_pool
    /\ Script!InitializeLendingPoolIx = Program!initialize_lending_pool
    /\ Sdk!BuildInitializeAdminPriceFeedIx
         = Program!initialize_admin_price_feed
    /\ Script!InitializeAdminPriceFeedIx
         = Program!initialize_admin_price_feed
    /\ Web!BuildCloseAdminPriceFeedIx = Program!close_admin_price_feed
    /\ Web!BuildUpdateAdminPriceIx = Program!update_admin_price
    /\ Sdk!BuildUpdateAdminPriceIx = Program!update_admin_price
    /\ Script!BuildUpdatePriceIx = Program!update_admin_price
  BY Zenon DEF Web!BuildInitializeProtocolIx, Script!InitializeProtocolIx,
     Program!initialize_protocol, Program!InitializeProtocolAccounts,
     Web!BuildInitializeLendingPoolIx, Sdk!BuildInitializeLendingPoolIx,
     Script!InitializeLendingPoolIx, Program!initialize_lending_pool,
     Program!InitializeLendingPoolAccounts,
     Sdk!BuildInitializeAdminPriceFeedIx, Script!InitializeAdminPriceFeedIx,
     Program!initialize_admin_price_feed,
     Program!InitializeAdminPriceFeedAccounts, Web!BuildCloseAdminPriceFeedIx,
     Program!close_admin_price_feed, Program!CloseAdminPriceFeedAccounts,
     Web!BuildUpdateAdminPriceIx, Sdk!BuildUpdateAdminPriceIx,
     Script!BuildUpdatePriceIx, Program!update_admin_price,
     Program!UpdateAdminPriceAccounts, Web!Instruction, Web!Meta, Web!R,
     Web!W, Web!S, Web!WS, Sdk!Instruction, Sdk!Meta, Sdk!R, Sdk!W, Sdk!S,
     Sdk!WS, Script!Instruction, Script!Meta, Script!R, Script!W, Script!S,
     Script!WS, Program!Instruction, Program!Meta, Program!R, Program!W,
     Program!S, Program!WS

\* The accounts a loan changes, and those its liquidation changes beside them.
LoanRoles == {"lending_pool", "btc_borrow_position", "pool_token_vault",
              "signer_tokens"}

FinalRoles == {"btc_vault", "btc_attestation", "btc_borrow_position"}

\* What the instructions declare as writable.
LEMMA VaultPasses ==
    /\ {"btc_vault", "btc_attestation", "protocol_state"}
         \subseteq Program!Writable(Program!register_btc_vault)
    /\ {"btc_vault"}
         \subseteq Program!Writable(Program!verify_btc_custody_proof)
    /\ {"btc_vault"}
         \subseteq Program!Writable(Program!refresh_btc_custody_proof)
    /\ {"btc_attestation"}
         \subseteq Program!Writable(Program!attest_btc_balance)
    /\ LoanRoles
         \subseteq Program!Writable(Program!borrow_against_btc_collateral)
    /\ LoanRoles \subseteq Program!Writable(Program!repay_btc_borrow)
    /\ LoanRoles \cup {"btc_vault"}
         \subseteq Program!Writable(Program!liquidate_btc_position)
    /\ FinalRoles \subseteq Program!Writable(Program!finalize_btc_liquidation)
<1> USE DEF Program!Writable, Program!Instruction, Program!Meta, Program!R,
       Program!W, Program!S, Program!WS, LoanRoles, FinalRoles
<1>1. {"btc_vault", "btc_attestation", "protocol_state"}
        \subseteq Program!Writable(Program!register_btc_vault)
  BY DEF Program!register_btc_vault, Program!RegisterBtcVaultAccounts
<1>2. {"btc_vault"} \subseteq Program!Writable(Program!verify_btc_custody_proof)
  BY DEF Program!verify_btc_custody_proof,
     Program!VerifyBtcCustodyProofAccounts
<1>3. {"btc_vault"}
        \subseteq Program!Writable(Program!refresh_btc_custody_proof)
  BY DEF Program!refresh_btc_custody_proof,
     Program!VerifyBtcCustodyProofAccounts
<1>4. {"btc_attestation"}
        \subseteq Program!Writable(Program!attest_btc_balance)
  BY DEF Program!attest_btc_balance, Program!AttestBtcBalanceAccounts
<1>5. LoanRoles
        \subseteq Program!Writable(Program!borrow_against_btc_collateral)
  BY DEF Program!borrow_against_btc_collateral,
     Program!BorrowAgainstBtcCollateralAccounts
<1>6. LoanRoles \subseteq Program!Writable(Program!repay_btc_borrow)
  BY DEF Program!repay_btc_borrow, Program!RepayBtcBorrowAccounts
<1>7. LoanRoles \cup {"btc_vault"}
        \subseteq Program!Writable(Program!liquidate_btc_position)
  BY DEF Program!liquidate_btc_position, Program!LiquidateBtcPositionAccounts
<1>8. FinalRoles \subseteq Program!Writable(Program!finalize_btc_liquidation)
  BY DEF Program!finalize_btc_liquidation,
     Program!FinalizeBtcLiquidationAccounts
<1> HIDE DEF Program!Writable
<1> QED
  BY <1>1, <1>2, <1>3, <1>4, <1>5, <1>6, <1>7, <1>8

\* And for the accounts that all share.
LEMMA SetupPasses ==
    /\ {"protocol_state"}
         \subseteq Program!Writable(Program!initialize_protocol)
    /\ {"lending_pool", "price_feed"}
         \subseteq Program!Writable(Program!initialize_lending_pool)
    /\ {"price_feed"}
         \subseteq Program!Writable(Program!initialize_admin_price_feed)
    /\ {"price_feed"} \subseteq Program!Writable(Program!close_admin_price_feed)
    /\ {"price_feed"} \subseteq Program!Writable(Program!update_admin_price)
<1> USE DEF Program!Writable, Program!Instruction, Program!Meta, Program!R,
       Program!W, Program!S, Program!WS
<1>1. {"protocol_state"} \subseteq Program!Writable(Program!initialize_protocol)
  BY DEF Program!initialize_protocol, Program!InitializeProtocolAccounts
<1>2. {"lending_pool", "price_feed"}
        \subseteq Program!Writable(Program!initialize_lending_pool)
  BY DEF Program!initialize_lending_pool, Program!InitializeLendingPoolAccounts
<1>3. {"price_feed"}
        \subseteq Program!Writable(Program!initialize_admin_price_feed)
  BY DEF Program!initialize_admin_price_feed,
     Program!InitializeAdminPriceFeedAccounts
<1>4. {"price_feed"} \subseteq Program!Writable(Program!close_admin_price_feed)
  BY DEF Program!close_admin_price_feed, Program!CloseAdminPriceFeedAccounts
<1>5. {"price_feed"} \subseteq Program!Writable(Program!update_admin_price)
  BY DEF Program!update_admin_price, Program!UpdateAdminPriceAccounts
<1> HIDE DEF Program!Writable
<1> QED
  BY <1>1, <1>2, <1>3, <1>4, <1>5

\* Requests that are what is declared serve whatever the declaration covers.
LEMMA DeclaredServe ==
    ASSUME NEW declared, NEW requests, \A r \in requests : r = declared,
           Changed \subseteq Program!Writable(declared)
    PROVE  Serve(requests, declared)
  BY DEF Serve, Program!Fits

\* A role is counted as changed for what changed of it.
LEMMA ChangedMeans ==
    /\ "protocol_state" \in Changed => protocol' # protocol
    /\ "lending_pool" \in Changed => pool' # pool
    /\ "price_feed" \in Changed => feed' # feed
    /\ "pool_token_vault" \in Changed => tokens' # tokens
    /\ "signer_tokens" \in Changed => tokens' # tokens
    /\ "btc_vault" \in Changed => btcVault' # btcVault
    /\ "btc_attestation" \in Changed => attestation' # attestation
    /\ "btc_borrow_position" \in Changed
         => btcPositions' # btcPositions \/ btcPrincipal' # btcPrincipal
    /\ Changed \subseteq
         {"protocol_state", "lending_pool", "price_feed", "pool_token_vault",
          "signer_tokens", "btc_vault", "btc_attestation",
          "btc_borrow_position"}
  BY DEF Changed

----------------------------------------------------------------------------
(* What the clients have copied by hand *)

\* The sums of the program's instance are those of the lemmas on layouts.
LEMMA SameWire ==
    ASSUME NEW layout, NEW decoder, NEW offset, NEW bytes
    PROVE  /\ Program!ReadsBack(layout, decoder)
                = Wires!ReadsBack(layout, decoder)
           /\ Program!Bytes(layout) = Wires!Bytes(layout)
           /\ Program!FieldAt(layout, offset, bytes)
                = Wires!FieldAt(layout, offset, bytes)
  BY DEF Program!ReadsBack, Wires!ReadsBack, Program!Reads, Wires!Reads,
     Program!FieldAt, Wires!FieldAt, Program!OffsetOf, Wires!OffsetOf,
     Program!Bytes, Wires!Bytes, Program!BytesOf, Wires!BytesOf,
     Program!SumOver, Wires!SumOver, Program!UnitsOf, Wires!UnitsOf,
     Program!Units, Wires!Units, Program!Cardinality, Wires!Cardinality,
     Program!IsFiniteSet, Wires!IsFiniteSet

LEMMA VaultIsLayout ==
    /\ DOMAIN Program!BtcVaultLayout = 1..15
    /\ IsLayout(Program!BtcVaultLayout)
<1>1. DOMAIN Program!BtcVaultLayout = 1..15
  BY DEF Program!BtcVaultLayout
<1> QED
  BY <1>1 DEF IsLayout, Program!BtcVaultLayout

LEMMA AttestationIsLayout ==
    /\ DOMAIN Program!BtcAttestationLayout = 1..11
    /\ IsLayout(Program!BtcAttestationLayout)
<1>1. DOMAIN Program!BtcAttestationLayout = 1..11
  BY DEF Program!BtcAttestationLayout
<1> QED
  BY <1>1 DEF IsLayout, Program!BtcAttestationLayout

\* The keeper looks for an account as long as a vault, and in it for the
\* Bitcoin address where it is.
LEMMA VaultBytes ==
    /\ Program!Bytes(Program!BtcVaultLayout) = 269
    /\ Program!FieldAt(Program!BtcVaultLayout, 137, 64) = "bitcoin_address"
<1>1. PICK layout : layout = Program!BtcVaultLayout
  OBVIOUS
<1>2. IsLayout(layout) /\ DOMAIN layout = 1..15
  BY <1>1, VaultIsLayout
<1>3. /\ layout[1][2] = 8 /\ layout[2][2] = 32 /\ layout[3][2] = 32
      /\ layout[4][2] = 32 /\ layout[5][2] = 33 /\ layout[6][2] = 64
      /\ layout[7][2] = 1 /\ layout[8][2] = 8 /\ layout[9][2] = 8
      /\ layout[10][2] = 1 /\ layout[11][2] = 8 /\ layout[12][2] = 1
      /\ layout[13][2] = 8 /\ layout[14][2] = 32 /\ layout[15][2] = 1
      /\ layout[6][1] = "bitcoin_address"
  BY <1>1 DEF Program!BtcVaultLayout
<1>4. Wires!OffsetOf(layout, 1) = 0
  BY FirstOffset
<1>5. \A i \in 1..15 :
        Wires!OffsetOf(layout, i + 1)
          = Wires!OffsetOf(layout, i) + layout[i][2]
  BY <1>2, NextOffset
<1>6. /\ Wires!OffsetOf(layout, 2) = 8 /\ Wires!OffsetOf(layout, 3) = 40
      /\ Wires!OffsetOf(layout, 4) = 72 /\ Wires!OffsetOf(layout, 5) = 104
      /\ Wires!OffsetOf(layout, 6) = 137
  BY <1>3, <1>4, <1>5
<1>7. /\ Wires!OffsetOf(layout, 7) = 201 /\ Wires!OffsetOf(layout, 8) = 202
      /\ Wires!OffsetOf(layout, 9) = 210 /\ Wires!OffsetOf(layout, 10) = 218
      /\ Wires!OffsetOf(layout, 11) = 219
  BY <1>3, <1>5, <1>6
<1>8. Wires!OffsetOf(layout, 16) = 269
  BY <1>3, <1>5, <1>7
<1>9. Wires!Bytes(layout) = Wires!OffsetOf(layout, 15 + 1)
  BY <1>2, BytesAreLastOffset
<1>10. \A k \in DOMAIN layout : layout[k][2] = 64 => k = 6
  BY <1>2, <1>3
<1>11. (CHOOSE k \in DOMAIN layout :
          Wires!OffsetOf(layout, k) = 137 /\ layout[k][2] = 64) = 6
  BY <1>2, <1>3, <1>6, <1>10
<1>12. Wires!FieldAt(layout, 137, 64) = "bitcoin_address"
  BY <1>3, <1>11 DEF Wires!FieldAt
<1> QED
  BY <1>1, <1>8, <1>9, <1>12, SameWire

\* A vault and its attestation are read back for what they are.
LEMMA VaultsAreReadBack == BtcAccountsReadBack
<1>1. PICK vault : vault = Program!BtcVaultLayout
  OBVIOUS
<1>2. PICK read : read = Program!BtcAttestationLayout
  OBVIOUS
<1>3. Web!DecodeBtcVault = vault
  BY Zenon, <1>1 DEF Web!DecodeBtcVault, Program!BtcVaultLayout
<1>4. Web!DecodeBitcoinBalanceAttestation = read
  BY Zenon, <1>2 DEF Web!DecodeBitcoinBalanceAttestation,
     Program!BtcAttestationLayout
<1>5. /\ Program!ReadsBack(vault, vault) /\ Program!ReadsBack(read, read)
  BY <1>1, <1>2, VaultIsLayout, AttestationIsLayout, ReadsItselfBack, SameWire
<1>6. Script!BTC_VAULT_LEN = 269 /\ Script!ADDRESS_OFFSET = 137
  BY DEF Script!BTC_VAULT_LEN, Script!ADDRESS_OFFSET
<1> QED
  BY <1>1, <1>2, <1>3, <1>4, <1>5, <1>6, VaultBytes DEF BtcAccountsReadBack

\* All three clients derive an account's address from the program's seeds.
LEMMA ScriptAddresses == AddressesAgree
<1>1. Program!Derives(Web!Pdas, Program!Pdas)
  BY DEF Program!Derives, Web!Pdas, Program!Pdas,
     Web!DeriveProtocolStatePda, Web!DeriveVaultPda, Web!DeriveRiskStatePda,
     Web!DeriveLendingPoolPda, Web!DeriveAdminPriceFeedPda,
     Web!DeriveBorrowPositionPda, Web!DeriveBtcVaultPda,
     Web!DeriveBtcAttestationPda, Web!DeriveBtcBorrowPositionPda,
     Web!DeriveDemoMessageApprovalPda, Web!DeriveDemoCiphertextPda,
     Web!DeriveIkaCpiAuthority, Web!DeriveDwalletCoordinatorPda,
     Web!DeriveMessageApprovalPda, Web!DeriveAssociatedTokenAddress,
     Program!ProtocolStatePda, Program!VaultPda, Program!RiskStatePda,
     Program!LendingPoolPda, Program!AdminPriceFeedPda,
     Program!BorrowPositionPda, Program!BtcVaultPda,
     Program!BtcAttestationPda, Program!BtcBorrowPositionPda,
     Program!DemoMessageApprovalPda, Program!DemoCiphertextPda,
     Program!CpiAuthorityPda, Program!DWalletCoordinatorPda,
     Program!IkaMessageApprovalPda, Program!AssociatedTokenAddress,
     Web!Text, Web!Key, Program!Text, Program!Key
<1>2. Program!Derives(Sdk!Pdas, Program!Pdas)
  <2>1. Sdk!Pdas =
          [protocol_state |-> Program!ProtocolStatePda,
           vault |-> Program!VaultPda, risk_state |-> Program!RiskStatePda,
           lending_pool |-> Program!LendingPoolPda,
           price_feed |-> Program!AdminPriceFeedPda,
           borrow_position |-> Program!BorrowPositionPda,
           btc_vault |-> Program!BtcVaultPda,
           btc_attestation |-> Program!BtcAttestationPda,
           btc_borrow_position |-> Program!BtcBorrowPositionPda,
           cpi_authority |-> Program!CpiAuthorityPda,
           signer_tokens |-> Program!AssociatedTokenAddress]
    BY Zenon DEF Sdk!Pdas, Sdk!DeriveProtocolStatePda, Sdk!DeriveVaultPda,
       Sdk!DeriveRiskStatePda, Sdk!DeriveLendingPoolPda,
       Sdk!DeriveAdminPriceFeedPda, Sdk!DeriveBorrowPositionPda,
       Sdk!DeriveBtcVaultPda, Sdk!DeriveBtcAttestationPda,
       Sdk!DeriveBtcBorrowPositionPda, Sdk!DeriveIkaCpiAuthority,
       Sdk!DeriveAssociatedTokenAddress, Program!ProtocolStatePda,
       Program!VaultPda, Program!RiskStatePda, Program!LendingPoolPda,
       Program!AdminPriceFeedPda, Program!BorrowPositionPda,
       Program!BtcVaultPda, Program!BtcAttestationPda,
       Program!BtcBorrowPositionPda, Program!CpiAuthorityPda,
       Program!AssociatedTokenAddress, Sdk!Text, Sdk!Key, Program!Text,
       Program!Key
  <2> QED
    BY <2>1 DEF Program!Derives, Program!Pdas
<1>3. Program!Derives(Script!Pdas, Program!Pdas)
  <2>1. Script!Pdas =
          [protocol_state |-> Program!ProtocolStatePda,
           lending_pool |-> Program!LendingPoolPda,
           price_feed |-> Program!AdminPriceFeedPda,
           btc_attestation |-> Program!BtcAttestationPda,
           btc_borrow_position |-> Program!BtcBorrowPositionPda]
    BY Zenon DEF Script!Pdas, Script!ProtocolStatePda, Script!LendingPoolPda,
       Script!FeedPda, Script!BtcAttestationPda, Script!Pda,
       Program!ProtocolStatePda, Program!LendingPoolPda,
       Program!AdminPriceFeedPda, Program!BtcAttestationPda,
       Program!BtcBorrowPositionPda, Script!Text, Script!Key, Program!Text,
       Program!Key
  <2> QED
    BY <2>1 DEF Program!Derives, Program!Pdas
<1> QED
  BY <1>1, <1>2, <1>3 DEF AddressesAgree

----------------------------------------------------------------------------
(* What each step changes *)

LEMMA VaultStepRoles ==
    ASSUME NEW v \in BtcVaults, NEW u \in Users, NEW k, NEW n, NEW m
    PROVE  /\ RegisterBtcVault(v) =>
                Changed \subseteq
                  {"btc_vault", "btc_attestation", "protocol_state"}
           /\ VerifyBtcCustodyProof(v, u) => Changed \subseteq {"btc_vault"}
           /\ RefreshBtcCustodyProof(v, u) => Changed \subseteq {"btc_vault"}
           /\ AttestBtcBalance(v, k, n) => Changed \subseteq {"btc_attestation"}
           /\ BorrowAgainstBtcCollateral(v, u, n) => Changed \subseteq LoanRoles
           /\ RepayBtcBorrow(v, u, n) => Changed \subseteq LoanRoles
           /\ LiquidateBtcPosition(v, u) =>
                Changed \subseteq LoanRoles \cup {"btc_vault"}
           /\ FinalizeBtcLiquidation(v, k, n, m) =>
                Changed \subseteq FinalRoles
<1> USE DEF poolVars, LoanRoles, FinalRoles
<1>1. RegisterBtcVault(v) =>
        Changed \subseteq {"btc_vault", "btc_attestation", "protocol_state"}
  BY ChangedMeans DEF RegisterBtcVault
<1>2. VerifyBtcCustodyProof(v, u) => Changed \subseteq {"btc_vault"}
  BY ChangedMeans DEF VerifyBtcCustodyProof
<1>3. RefreshBtcCustodyProof(v, u) => Changed \subseteq {"btc_vault"}
  BY ChangedMeans DEF RefreshBtcCustodyProof
<1>4. AttestBtcBalance(v, k, n) => Changed \subseteq {"btc_attestation"}
  BY ChangedMeans DEF AttestBtcBalance
<1>5. BorrowAgainstBtcCollateral(v, u, n) => Changed \subseteq LoanRoles
  BY ChangedMeans DEF BorrowAgainstBtcCollateral
<1>6. RepayBtcBorrow(v, u, n) => Changed \subseteq LoanRoles
  BY ChangedMeans DEF RepayBtcBorrow
<1>7. LiquidateBtcPosition(v, u) =>
        Changed \subseteq LoanRoles \cup {"btc_vault"}
  BY ChangedMeans DEF LiquidateBtcPosition
<1>8. FinalizeBtcLiquidation(v, k, n, m) => Changed \subseteq FinalRoles
  BY ChangedMeans DEF FinalizeBtcLiquidation
<1> QED
  BY <1>1, <1>2, <1>3, <1>4, <1>5, <1>6, <1>7, <1>8

\* The step of one vault, as far as it moves the others or itself.
VaultMoves(w) ==
    \/ /\ UNCHANGED <<btcPositions, btcPrincipal>>
       /\ \A v \in BtcVaults :
            btcVault'[v].liquidation_initiated_at
              = btcVault[v].liquidation_initiated_at
    \/ /\ Changed \subseteq LoanRoles
       /\ UNCHANGED btcVault
    \/ /\ Changed \subseteq LoanRoles \cup {"btc_vault"}
       /\ btcPositions' = btcPositions
       /\ btcVault'[w].liquidation_initiated_at
            > btcVault[w].liquidation_initiated_at
       /\ \A v \in BtcVaults \ {w} :
            btcVault'[v] = btcVault[v] /\ btcPrincipal'[v] = btcPrincipal[v]
    \/ /\ Changed \subseteq FinalRoles
       /\ btcPositions' \subseteq btcPositions
       /\ btcPrincipal' = btcPrincipal
       /\ btcVault'[w].liquidation_initiated_at
            < btcVault[w].liquidation_initiated_at
       /\ \A v \in BtcVaults \ {w} : btcVault'[v] = btcVault[v]

LEMMA OtherVaultsRest ==
    ASSUME OpsIInv, NEW w \in BtcVaults, NEW next,
           btcVault' = [btcVault EXCEPT ![w] = next]
    PROVE  /\ btcVault'[w] = next
           /\ \A v \in BtcVaults \ {w} : btcVault'[v] = btcVault[v]
  BY BtcFacts DEF OpsIInv, BtcIInv

LEMMA RegisterMoves ==
    ASSUME OpsIInv, NEW w \in BtcVaults, RegisterBtcVault(w)
    PROVE  VaultMoves(w)
<1>1. btcVault \in [BtcVaults -> BtcVaultAccount]
  BY BtcFacts DEF OpsIInv, BtcIInv
<1>2. ~btcVault[w].live
        /\ btcVault' = [btcVault EXCEPT
                          ![w] = [NoBtcVault EXCEPT !.live = TRUE]]
  BY DEF RegisterBtcVault
<1>3. btcVault[w].liquidation_initiated_at \in Nat
  BY <1>1 DEF BtcVaultAccount
<1>4. btcVault[w].liquidation_initiated_at = 0
  BY <1>2, <1>3 DEF OpsIInv, BtcIInv, FrozenIsRecoverable, MayFinalize
<1>5. btcVault'[w].liquidation_initiated_at = 0
  <2>1. PICK next : next = [NoBtcVault EXCEPT !.live = TRUE]
    OBVIOUS
  <2>2. next.liquidation_initiated_at = 0
    BY <2>1 DEF NoBtcVault
  <2>3. btcVault'[w] = next
    BY <1>2, <2>1, OtherVaultsRest
  <2> QED
    BY <2>2, <2>3
<1>6. \A v \in BtcVaults \ {w} : btcVault'[v] = btcVault[v]
  BY <1>2, OtherVaultsRest
<1> QED
  BY <1>4, <1>5, <1>6 DEF VaultMoves, RegisterBtcVault

LEMMA ProofMoves ==
    ASSUME OpsIInv, NEW w \in BtcVaults, NEW u,
           VerifyBtcCustodyProof(w, u) \/ RefreshBtcCustodyProof(w, u)
    PROVE  VaultMoves(w)
<1>1. btcVault \in [BtcVaults -> BtcVaultAccount]
  BY BtcFacts DEF OpsIInv, BtcIInv
<1>2. /\ UNCHANGED <<btcPositions, btcPrincipal>>
      /\ \/ btcVault' = [btcVault EXCEPT ![w] =
                           [@ EXCEPT !.proof_status = VERIFIED,
                                     !.proof_timestamp = now]]
         \/ btcVault' = [btcVault EXCEPT ![w] =
                           [@ EXCEPT !.proof_timestamp = now]]
  BY DEF VerifyBtcCustodyProof, RefreshBtcCustodyProof
<1>3. PICK next : /\ btcVault' = [btcVault EXCEPT ![w] = next]
                  /\ next.liquidation_initiated_at
                       = btcVault[w].liquidation_initiated_at
  <2>1. btcVault[w] \in BtcVaultAccount
    BY <1>1
  <2> QED
    BY <1>2, <2>1 DEF BtcVaultAccount
<1>4. \A v \in BtcVaults :
        btcVault'[v].liquidation_initiated_at
          = btcVault[v].liquidation_initiated_at
  BY <1>3, OtherVaultsRest
<1> QED
  BY <1>2, <1>4 DEF VaultMoves

LEMMA LiquidationMoves ==
    ASSUME OpsIInv, NEW w \in BtcVaults, NEW u \in Users,
           LiquidateBtcPosition(w, u)
    PROVE  VaultMoves(w)
<1>1. /\ btcVault \in [BtcVaults -> BtcVaultAccount]
      /\ btcPrincipal \in [BtcVaults -> Nat] /\ now > 0 /\ now \in Nat
  BY BtcFacts DEF OpsIInv, BtcIInv
<1>2. /\ btcVault' = [btcVault EXCEPT ![w] =
                        [@ EXCEPT !.frozen = TRUE,
                                  !.liquidation_initiated_at = now]]
      /\ btcVault[w].liquidation_initiated_at = 0
      /\ btcPrincipal' = [btcPrincipal EXCEPT ![w] = 0]
      /\ btcPositions' = btcPositions
  BY DEF LiquidateBtcPosition, BtcPositionsLiquidated
<1>3. btcVault'[w].liquidation_initiated_at = now
  BY <1>1, <1>2 DEF BtcVaultAccount
<1>4. \A v \in BtcVaults \ {w} :
        btcVault'[v] = btcVault[v] /\ btcPrincipal'[v] = btcPrincipal[v]
  BY <1>1, <1>2
<1>5. Changed \subseteq LoanRoles \cup {"btc_vault"}
  BY VaultStepRoles
<1> QED
  BY <1>1, <1>2, <1>3, <1>4, <1>5 DEF VaultMoves

LEMMA FinalMoves ==
    ASSUME OpsIInv, NEW w \in BtcVaults, NEW s,
           FinalizeBtcLiquidation(w, Admin, BTC_LIQUIDATION_MIN_CONFIRMATIONS,
                                  s)
    PROVE  VaultMoves(w)
<1>1. btcVault \in [BtcVaults -> BtcVaultAccount]
  BY BtcFacts DEF OpsIInv, BtcIInv
<1>2. /\ btcVault' = Thawed(w)
      /\ btcVault[w].liquidation_initiated_at > 0
      /\ btcPrincipal' = btcPrincipal
      /\ btcPositions' \subseteq btcPositions
  BY DEF FinalizeBtcLiquidation, MayFinalize
<1>3. btcVault'[w].liquidation_initiated_at = 0
  BY <1>1, <1>2 DEF Thawed, BtcVaultAccount
<1>4. \A v \in BtcVaults \ {w} : btcVault'[v] = btcVault[v]
  BY <1>1, <1>2 DEF Thawed
<1>5. Changed \subseteq FinalRoles
  BY VaultStepRoles, OperationsAssumption
<1> QED
  BY <1>2, <1>3, <1>4, <1>5 DEF VaultMoves

\* What everybody may do with a Bitcoin vault.
LEMMA VaultStepMoves ==
    ASSUME OpsIInv, NEW w \in BtcVaults,
           \/ BtcVaultStep(w) \/ DaemonReports(w)
           \/ \E liquidator \in Users : LiquidateBtcPosition(w, liquidator)
    PROVE  VaultMoves(w)
<1>1. CASE RegisterBtcVault(w)
  BY <1>1, RegisterMoves
<1>2. CASE IkaCustodyApproval(w) \/ IkaSignsSighash(w)
  BY <1>2 DEF IkaCustodyApproval, IkaSignsSighash, VaultMoves
<1>3. CASE \E u \in Users : DemoCreateMessageApproval(w, u)
  BY <1>3 DEF DemoCreateMessageApproval, VaultMoves
<1>4. CASE \E u \in Users : \/ VerifyBtcCustodyProof(w, u)
                            \/ RefreshBtcCustodyProof(w, u)
  BY <1>4, ProofMoves
<1>5. CASE \E u \in Users : \E amount \in BtcBorrowAmounts :
             BorrowAgainstBtcCollateral(w, u, amount)
  BY <1>5, VaultStepRoles DEF BorrowAgainstBtcCollateral, VaultMoves
<1>6. CASE \E u \in Users : \E amount \in BtcRepayAmounts :
             RepayBtcBorrow(w, u, amount)
  BY <1>6, VaultStepRoles DEF RepayBtcBorrow, VaultMoves
<1>7. CASE \E s \in KeeperBalances : AttestBtcBalance(w, Admin, s)
  BY <1>7 DEF AttestBtcBalance, VaultMoves
<1>8. CASE \E s \in KeeperBalances :
             FinalizeBtcLiquidation(w, Admin,
                                    BTC_LIQUIDATION_MIN_CONFIRMATIONS, s)
  BY <1>8, FinalMoves
<1>9. CASE \E u \in Users : LiquidateBtcPosition(w, u)
  BY <1>9, LiquidationMoves
<1> QED
  BY <1>1, <1>2, <1>3, <1>4, <1>5, <1>6, <1>7, <1>8, <1>9
     DEF BtcVaultStep, DaemonReports

\* None of it creates or closes an account that all share.
SharedRest ==
    /\ UNCHANGED feed
    /\ pool'.live = pool.live
    /\ protocol'.live = protocol.live

LEMMA VaultStepShares ==
    ASSUME OpsIInv, NEW w \in BtcVaults,
           \/ BtcVaultStep(w) \/ DaemonReports(w)
           \/ \E liquidator \in Users : LiquidateBtcPosition(w, liquidator)
    PROVE  SharedRest
<1> USE DEF SharedRest, poolVars
<1>0. /\ Accrued.live = pool.live /\ Accrued \in LendingPool
      /\ protocol \in ProtocolAccount
  BY BtcAccrued, BtcFacts DEF OpsIInv, BtcIInv
<1>1. CASE RegisterBtcVault(w)
  BY <1>0, <1>1 DEF RegisterBtcVault, ProtocolAccount
<1>2. CASE IkaCustodyApproval(w) \/ IkaSignsSighash(w)
  BY <1>2 DEF IkaCustodyApproval, IkaSignsSighash
<1>3. CASE \E u \in Users : DemoCreateMessageApproval(w, u)
  BY <1>3 DEF DemoCreateMessageApproval
<1>4. CASE \E u \in Users : \/ VerifyBtcCustodyProof(w, u)
                            \/ RefreshBtcCustodyProof(w, u)
  BY <1>4 DEF VerifyBtcCustodyProof, RefreshBtcCustodyProof
<1>5. CASE \E u \in Users : \E amount \in BtcBorrowAmounts :
             BorrowAgainstBtcCollateral(w, u, amount)
  <2>1. /\ UNCHANGED <<feed, protocol>>
        /\ \E scaled : pool' = [Accrued EXCEPT !.total_borrowed = @ + scaled]
    BY <1>5 DEF BorrowAgainstBtcCollateral
  <2> QED
    BY <1>0, <2>1 DEF LendingPool
<1>6. CASE \E u \in Users : \E amount \in BtcRepayAmounts :
             RepayBtcBorrow(w, u, amount)
  <2>1. /\ UNCHANGED <<feed, protocol>>
        /\ \E slice : pool' = [Accrued EXCEPT !.total_borrowed = @ - slice]
    BY <1>6 DEF RepayBtcBorrow
  <2> QED
    BY <1>0, <2>1 DEF LendingPool
<1>7. CASE \E s \in KeeperBalances : AttestBtcBalance(w, Admin, s)
  BY <1>7 DEF AttestBtcBalance
<1>8. CASE \E s \in KeeperBalances :
             FinalizeBtcLiquidation(w, Admin,
                                    BTC_LIQUIDATION_MIN_CONFIRMATIONS, s)
  BY <1>8 DEF FinalizeBtcLiquidation
<1>9. CASE \E u \in Users : LiquidateBtcPosition(w, u)
  <2>1. UNCHANGED <<feed, protocol>> /\ pool' = Booked(w)
    BY <1>9 DEF LiquidateBtcPosition
  <2> QED
    BY <1>0, <2>1 DEF LendingPool, Booked
<1> QED
  BY <1>1, <1>2, <1>3, <1>4, <1>5, <1>6, <1>7, <1>8, <1>9
     DEF BtcVaultStep, DaemonReports

\* A step of the admin's, or time: no Bitcoin vault moves.
SetupMoves ==
    /\ UNCHANGED btcVars
    /\ \/ SharedRest
       \/ Changed \subseteq {"protocol_state"} /\ UNCHANGED <<pool, feed>>
       \/ Changed \subseteq {"price_feed"} /\ UNCHANGED <<protocol, pool>>
       \/ /\ Changed \subseteq {"lending_pool", "price_feed"}
          /\ UNCHANGED protocol
          /\ ~pool.live /\ pool'.live
          /\ \A a \in PriceAssets : feed[a].live => feed'[a].live

LEMMA BootstrapMoves ==
    ASSUME OpsIInv, BootstrapStep
    PROVE  SetupMoves
<1> USE DEF poolVars, btcVars, clockVars
<1>1. CASE StepInitializeProtocol
  <2>1. CASE protocol.live
    BY <1>1, <2>1 DEF StepInitializeProtocol, SetupMoves, SharedRest
  <2>2. CASE ~protocol.live
    BY <1>1, <2>2, ChangedMeans DEF StepInitializeProtocol, SetupMoves
  <2> QED
    BY <2>1, <2>2
<1>2. CASE \/ StepCreateMint \/ StepRecordMint \/ StepTransferAuthority
           \/ MintSupplyThrows
  BY <1>2 DEF StepCreateMint, StepRecordMint, StepTransferAuthority,
     MintSupplyThrows, btcAll, SetupMoves, SharedRest
<1>3. CASE StepMintSupply
  BY <1>3 DEF StepMintSupply, SetupMoves, SharedRest
<1>4. CASE StepInitializePool
  <2>1. CASE pool.live
    BY <1>4, <2>1 DEF StepInitializePool, SetupMoves, SharedRest
  <2>2. CASE ~pool.live
    <3>1. /\ UNCHANGED <<protocol, tokens, btcVars>>
          /\ pool'.live
          /\ feed' = [feed EXCEPT ![BTC] = FeedAt(INITIAL_PRICE[BTC], Admin)]
      BY <1>4, <2>2 DEF StepInitializePool, InitializeLendingPool, NoPool
    <3>2. \A a \in PriceAssets : feed[a].live => feed'[a].live
      BY <3>1, BtcFacts DEF OpsIInv, BtcIInv, FeedAt
    <3>3. Changed \subseteq {"lending_pool", "price_feed"}
      BY <3>1, ChangedMeans
    <3> QED
      BY <2>2, <3>1, <3>2, <3>3 DEF SetupMoves
  <2> QED
    BY <2>1, <2>2
<1>5. CASE StepInitializeFeed
  BY <1>5, ChangedMeans DEF StepInitializeFeed, SetupMoves
<1> QED
  BY <1>1, <1>2, <1>3, <1>4, <1>5 DEF BootstrapStep

LEMMA OpsMoves ==
    ASSUME OpsIInv, [OpsNext]_ops
    PROVE  \/ SetupMoves
           \/ SharedRest /\ \E w \in BtcVaults : VaultMoves(w)
<1> USE DEF poolVars, btcVars, clockVars
<1>1. CASE UNCHANGED ops
  BY <1>1 DEF ops, btcAll, SetupMoves, SharedRest
<1>2. CASE Tick /\ UNCHANGED <<poolVars, btcVars, opsVars>>
  BY <1>2 DEF Tick, SetupMoves, SharedRest
<1>3. CASE BootstrapStart \/ BootstrapStops
  BY <1>3 DEF BootstrapStart, BootstrapStops, btcAll, SetupMoves, SharedRest
<1>4. CASE BootstrapStep
  BY <1>4, BootstrapMoves
<1>5. CASE RefreshPrices
  BY <1>5, ChangedMeans DEF RefreshPrices, SetupMoves
<1>6. CASE /\ \E a \in PriceAssets : CloseAdminPriceFeed(Admin, a)
           /\ UNCHANGED <<btcVars, opsVars>>
  BY <1>6, ChangedMeans DEF CloseAdminPriceFeed, SetupMoves
<1>7. CASE \E w \in BtcVaults :
             \/ BtcVaultStep(w) \/ DaemonReports(w)
             \/ \E liquidator \in Users : LiquidateBtcPosition(w, liquidator)
  BY <1>7, VaultStepMoves, VaultStepShares
<1> QED
  BY <1>1, <1>2, <1>3, <1>4, <1>5, <1>6, <1>7 DEF OpsNext

\* So what moved tells which accounts changed.
LEMMA VaultMovesTell ==
    ASSUME OpsIInv, [OpsNext]_ops, NEW v \in BtcVaults
    PROVE  /\ v \in btcPositions' \ btcPositions => Changed \subseteq LoanRoles
           /\ btcPrincipal'[v] < btcPrincipal[v] /\ btcVault'[v] = btcVault[v]
                => Changed \subseteq LoanRoles
           /\ btcVault'[v].liquidation_initiated_at
                > btcVault[v].liquidation_initiated_at
                => Changed \subseteq LoanRoles \cup {"btc_vault"}
           /\ btcVault'[v].liquidation_initiated_at
                < btcVault[v].liquidation_initiated_at
                => Changed \subseteq FinalRoles
<1>1. /\ btcPrincipal[v] \in Nat
      /\ btcVault[v].liquidation_initiated_at \in Nat
  BY BtcFacts DEF OpsIInv, BtcIInv, BtcVaultAccount
<1>2. /\ btcPrincipal'[v] \in Nat
      /\ \A w \in BtcVaults : btcVault'[w].liquidation_initiated_at \in Nat
  <2>1. OpsIInv'
    BY OpsNextIInv
  <2>2. /\ btcPrincipal' \in [BtcVaults -> Nat]
        /\ btcVault' \in [BtcVaults -> BtcVaultAccount]
    BY <2>1 DEF OpsIInv, OpsTypeOK, BtcTypeOK, BtcType
  <2> QED
    BY <2>2 DEF BtcVaultAccount
<1>3. CASE SetupMoves
  BY <1>1, <1>2, <1>3 DEF SetupMoves, btcVars
<1>4. ASSUME NEW w \in BtcVaults, VaultMoves(w)
      PROVE  /\ v \in btcPositions' \ btcPositions =>
                  Changed \subseteq LoanRoles
             /\ btcPrincipal'[v] < btcPrincipal[v] /\ btcVault'[v] = btcVault[v]
                  => Changed \subseteq LoanRoles
             /\ btcVault'[v].liquidation_initiated_at
                  > btcVault[v].liquidation_initiated_at
                  => Changed \subseteq LoanRoles \cup {"btc_vault"}
             /\ btcVault'[v].liquidation_initiated_at
                  < btcVault[v].liquidation_initiated_at
                  => Changed \subseteq FinalRoles
  <2>1. btcVault[w].liquidation_initiated_at \in Nat
    BY BtcFacts DEF OpsIInv, BtcIInv, BtcVaultAccount
  <2> QED
    BY <1>1, <1>2, <1>4, <2>1 DEF VaultMoves
<1> QED
  BY <1>3, <1>4, OpsMoves

LEMMA SharedMovesTell ==
    ASSUME OpsIInv, [OpsNext]_ops
    PROVE  /\ ~protocol.live /\ protocol'.live =>
                Changed \subseteq {"protocol_state"}
           /\ ~pool.live /\ pool'.live =>
                Changed \subseteq {"lending_pool", "price_feed"}
           /\ pool' = pool
                /\ (\E a \in PriceAssets : ~feed[a].live /\ feed'[a].live)
                => Changed \subseteq {"price_feed"}
           /\ (\E a \in PriceAssets : feed[a].live /\ ~feed'[a].live)
                => Changed \subseteq {"price_feed"}
<1>1. CASE SharedRest
  BY <1>1 DEF SharedRest
<1>2. CASE SetupMoves
  BY <1>1, <1>2 DEF SetupMoves
<1> QED
  BY <1>1, <1>2, OpsMoves

----------------------------------------------------------------------------
(* Requests that are what is declared, for steps within what it covers *)

LEMMA VaultsServed ==
    ASSUME OpsIInv, [OpsNext]_ops, NEW v \in BtcVaults
    PROVE  VaultRequestsServe(v)
<1>1. RegisterBtcVault(v) =>
        Serve({Web!BuildRegisterBtcVaultIx, Sdk!BuildRegisterBtcVaultIx},
              Program!register_btc_vault)
  <2> SUFFICES ASSUME RegisterBtcVault(v)
               PROVE  Serve({Web!BuildRegisterBtcVaultIx,
                             Sdk!BuildRegisterBtcVaultIx},
                            Program!register_btc_vault)
    OBVIOUS
  <2>1. Changed \subseteq Program!Writable(Program!register_btc_vault)
    BY VaultStepRoles, VaultPasses, OperationsAssumption
  <2> QED
    BY <2>1, VaultBuilders, DeclaredServe
<1>2. (\E u \in Users : VerifyBtcCustodyProof(v, u)) =>
        Serve({Web!BuildVerifyBtcCustodyProofIx,
               Sdk!BuildVerifyBtcCustodyProofIx},
              Program!verify_btc_custody_proof)
  <2> SUFFICES ASSUME NEW u \in Users, VerifyBtcCustodyProof(v, u)
               PROVE  Serve({Web!BuildVerifyBtcCustodyProofIx,
                             Sdk!BuildVerifyBtcCustodyProofIx},
                            Program!verify_btc_custody_proof)
    OBVIOUS
  <2>1. Changed \subseteq Program!Writable(Program!verify_btc_custody_proof)
    BY VaultStepRoles, VaultPasses
  <2> QED
    BY <2>1, VaultBuilders, DeclaredServe
<1>3. (\E u \in Users : RefreshBtcCustodyProof(v, u)) =>
        Serve({Web!BuildRefreshBtcCustodyProofIx,
               Sdk!BuildRefreshBtcCustodyProofIx},
              Program!refresh_btc_custody_proof)
  <2> SUFFICES ASSUME NEW u \in Users, RefreshBtcCustodyProof(v, u)
               PROVE  Serve({Web!BuildRefreshBtcCustodyProofIx,
                             Sdk!BuildRefreshBtcCustodyProofIx},
                            Program!refresh_btc_custody_proof)
    OBVIOUS
  <2>1. Changed \subseteq Program!Writable(Program!refresh_btc_custody_proof)
    BY VaultStepRoles, VaultPasses
  <2> QED
    BY <2>1, VaultBuilders, DeclaredServe
<1>4. (\E s \in KeeperBalances : AttestBtcBalance(v, Admin, s)) =>
        Serve({Web!BuildAttestBtcBalanceIx, Sdk!BuildAttestBtcBalanceIx,
               Script!BuildAttestIx},
              Program!attest_btc_balance)
  <2> SUFFICES ASSUME NEW s, AttestBtcBalance(v, Admin, s)
               PROVE  Serve({Web!BuildAttestBtcBalanceIx,
                             Sdk!BuildAttestBtcBalanceIx,
                             Script!BuildAttestIx},
                            Program!attest_btc_balance)
    OBVIOUS
  <2>1. Changed \subseteq Program!Writable(Program!attest_btc_balance)
    BY VaultStepRoles, VaultPasses, OperationsAssumption
  <2> QED
    BY <2>1, VaultBuilders, DeclaredServe
<1>5. v \in btcPositions' \ btcPositions =>
        Serve({Web!BuildBorrowAgainstBtcCollateralIx,
               Sdk!BuildBorrowAgainstBtcCollateralIx},
              Program!borrow_against_btc_collateral)
  <2> SUFFICES ASSUME Changed \subseteq LoanRoles
               PROVE  Serve({Web!BuildBorrowAgainstBtcCollateralIx,
                             Sdk!BuildBorrowAgainstBtcCollateralIx},
                            Program!borrow_against_btc_collateral)
    BY VaultMovesTell
  <2>1. Changed
          \subseteq Program!Writable(Program!borrow_against_btc_collateral)
    BY VaultPasses
  <2> QED
    BY <2>1, LoanBuilders, DeclaredServe
<1>6. btcPrincipal'[v] < btcPrincipal[v] /\ btcVault'[v] = btcVault[v] =>
        Serve({Web!BuildRepayBtcBorrowIx, Sdk!BuildRepayBtcBorrowIx},
              Program!repay_btc_borrow)
  <2> SUFFICES ASSUME Changed \subseteq LoanRoles
               PROVE  Serve({Web!BuildRepayBtcBorrowIx,
                             Sdk!BuildRepayBtcBorrowIx},
                            Program!repay_btc_borrow)
    BY VaultMovesTell
  <2>1. Changed \subseteq Program!Writable(Program!repay_btc_borrow)
    BY VaultPasses
  <2> QED
    BY <2>1, LoanBuilders, DeclaredServe
<1>7. btcVault'[v].liquidation_initiated_at
        > btcVault[v].liquidation_initiated_at =>
        Serve({Web!BuildLiquidateBtcPositionIx,
               Sdk!BuildLiquidateBtcPositionIx},
              Program!liquidate_btc_position)
  <2> SUFFICES ASSUME Changed \subseteq LoanRoles \cup {"btc_vault"}
               PROVE  Serve({Web!BuildLiquidateBtcPositionIx,
                             Sdk!BuildLiquidateBtcPositionIx},
                            Program!liquidate_btc_position)
    BY VaultMovesTell
  <2>1. Changed \subseteq Program!Writable(Program!liquidate_btc_position)
    BY VaultPasses
  <2> QED
    BY <2>1, LoanBuilders, DeclaredServe
<1>8. btcVault'[v].liquidation_initiated_at
        < btcVault[v].liquidation_initiated_at =>
        Serve({Web!BuildFinalizeBtcLiquidationIx,
               Sdk!BuildFinalizeBtcLiquidationIx, Script!BuildFinalizeIx},
              Program!finalize_btc_liquidation)
  <2> SUFFICES ASSUME Changed \subseteq FinalRoles
               PROVE  Serve({Web!BuildFinalizeBtcLiquidationIx,
                             Sdk!BuildFinalizeBtcLiquidationIx,
                             Script!BuildFinalizeIx},
                            Program!finalize_btc_liquidation)
    BY VaultMovesTell
  <2>1. Changed \subseteq Program!Writable(Program!finalize_btc_liquidation)
    BY VaultPasses
  <2> QED
    BY <2>1, LoanBuilders, DeclaredServe
<1> QED
  BY <1>1, <1>2, <1>3, <1>4, <1>5, <1>6, <1>7, <1>8 DEF VaultRequestsServe

LEMMA SetupServed ==
    ASSUME OpsIInv, [OpsNext]_ops
    PROVE  SetupRequestsServe
<1>1. ~protocol.live /\ protocol'.live =>
        Serve({Web!BuildInitializeProtocolIx, Script!InitializeProtocolIx},
              Program!initialize_protocol)
  <2> SUFFICES ASSUME Changed \subseteq {"protocol_state"}
               PROVE  Serve({Web!BuildInitializeProtocolIx,
                             Script!InitializeProtocolIx},
                            Program!initialize_protocol)
    BY SharedMovesTell
  <2>1. Changed \subseteq Program!Writable(Program!initialize_protocol)
    BY SetupPasses
  <2> QED
    BY <2>1, SetupBuilders, DeclaredServe
<1>2. ~pool.live /\ pool'.live =>
        Serve({Web!BuildInitializeLendingPoolIx,
               Sdk!BuildInitializeLendingPoolIx,
               Script!InitializeLendingPoolIx},
              Program!initialize_lending_pool)
  <2> SUFFICES ASSUME Changed \subseteq {"lending_pool", "price_feed"}
               PROVE  Serve({Web!BuildInitializeLendingPoolIx,
                             Sdk!BuildInitializeLendingPoolIx,
                             Script!InitializeLendingPoolIx},
                            Program!initialize_lending_pool)
    BY SharedMovesTell
  <2>1. Changed \subseteq Program!Writable(Program!initialize_lending_pool)
    BY SetupPasses
  <2> QED
    BY <2>1, SetupBuilders, DeclaredServe
<1>3. pool' = pool
        /\ (\E a \in PriceAssets : ~feed[a].live /\ feed'[a].live) =>
        Serve({Sdk!BuildInitializeAdminPriceFeedIx,
               Script!InitializeAdminPriceFeedIx},
              Program!initialize_admin_price_feed)
  <2> SUFFICES ASSUME Changed \subseteq {"price_feed"}
               PROVE  Serve({Sdk!BuildInitializeAdminPriceFeedIx,
                             Script!InitializeAdminPriceFeedIx},
                            Program!initialize_admin_price_feed)
    BY SharedMovesTell
  <2>1. Changed \subseteq Program!Writable(Program!initialize_admin_price_feed)
    BY SetupPasses
  <2> QED
    BY <2>1, SetupBuilders, DeclaredServe
<1>4. (\E a \in PriceAssets : feed[a].live /\ ~feed'[a].live) =>
        Serve({Web!BuildCloseAdminPriceFeedIx}, Program!close_admin_price_feed)
  <2> SUFFICES ASSUME Changed \subseteq {"price_feed"}
               PROVE  Serve({Web!BuildCloseAdminPriceFeedIx},
                            Program!close_admin_price_feed)
    BY SharedMovesTell
  <2>1. Changed \subseteq Program!Writable(Program!close_admin_price_feed)
    BY SetupPasses
  <2> QED
    BY <2>1, SetupBuilders, DeclaredServe
<1>5. RefreshPrices =>
        Serve({Web!BuildUpdateAdminPriceIx, Sdk!BuildUpdateAdminPriceIx,
               Script!BuildUpdatePriceIx},
              Program!update_admin_price)
  <2> SUFFICES ASSUME RefreshPrices
               PROVE  Serve({Web!BuildUpdateAdminPriceIx,
                             Sdk!BuildUpdateAdminPriceIx,
                             Script!BuildUpdatePriceIx},
                            Program!update_admin_price)
    OBVIOUS
  <2>1. Changed \subseteq {"price_feed"}
    BY ChangedMeans DEF RefreshPrices, btcVars
  <2>2. Changed \subseteq Program!Writable(Program!update_admin_price)
    BY <2>1, SetupPasses
  <2> QED
    BY <2>2, SetupBuilders, DeclaredServe
<1> QED
  BY <1>1, <1>2, <1>3, <1>4, <1>5 DEF SetupRequestsServe

\* The web application, the SDK and the scripts ask for each instruction of
\* the setup, of Bitcoin vaults and of Bitcoin loans as the program declares
\* it, with every account it changes among those it may write; they derive
\* the program's addresses, and read vaults and attestations for what they
\* are.
THEOREM BtcRequestsAreServed == OpsSpec => BtcRequestsServe
<1>1. ASSUME OpsIInv, [OpsNext]_ops
      PROVE  /\ AddressesAgree
             /\ SetupRequestsServe
             /\ \A v \in BtcVaults : VaultRequestsServe(v)
             /\ attestation' # attestation => BtcAccountsReadBack
  BY <1>1, ScriptAddresses, SetupServed, VaultsServed, VaultsAreReadBack
<1> QED
  BY <1>1, OpsInvariant, PTL DEF OpsSpec, BtcRequestsServe

----------------------------------------------------------------------------
(* The daemons sign as the admin of a protocol that exists, so that every  *)
(* transaction of theirs is one of the program's (DaemonStepIsBtcStep) and *)
(* the Bitcoin side's invariant carries over.  A balance that counts was   *)
(* read at most TX_DELAY before it was attested (ReadsTimely): whatever    *)
(* lands, in whatever order, was read that recently, and a vault that is   *)
(* registered has no balance yet.                                          *)

AdminKnown == protocol.live /\ protocol.admin \in Users

ReadsTimely ==
    \A v \in BtcVaults :
      attestation[v].satoshis > 0 =>
        attestation[v].attested_at_unix - readAt[v] <= TX_DELAY

\* Nothing divides by the price of a feed that is closed.
PricePositive == feed[BTC].live => feed[BTC].price_usd > 0

DaemonIInv ==
    /\ BtcIInv
    /\ DaemonTypeOK
    /\ AdminKnown
    /\ PricePositive
    /\ ReadsTimely

LEMMA DaemonInitIInv == DaemonInit => DaemonIInv
<1> SUFFICES ASSUME DaemonInit PROVE DaemonIInv
  OBVIOUS
<1>1. PICK admin \in Deployers, liquidity \in Liquidities :
        Bootstrapped(admin, liquidity)
  BY DEF DaemonInit
<1>2. admin \in Users /\ liquidity \in Nat
  BY UserAssumption, PoolAssumption
<1>3. /\ now = 1 /\ slot = 0
      /\ protocol = [live |-> TRUE, admin |-> admin, frozen |-> FALSE,
                     total_vaults |-> 0, total_rejected |-> 0,
                     total_collateral_verified |-> 0]
      /\ pool = [live |-> TRUE, total_liquidity |-> liquidity,
                 total_borrowed |-> 0, borrow_index |-> RAY,
                 last_update_slot |-> 0]
      /\ feed = [a \in PriceAssets |-> FeedAt(StartPrice, admin)]
      /\ tokens = InitialTokens
  BY <1>1 DEF Bootstrapped, NoProtocol, NoPool
<1>4. ProtocolType
  BY <1>2, <1>3, ClockAssumption DEF ProtocolType, ProtocolAccount
<1>5. PoolType
  <2>1. pool \in LendingPool
    BY <1>2, <1>3, UnitAssumption DEF LendingPool
  <2>2. FeedAt(StartPrice, admin) \in AdminPriceFeed
    BY <1>2, <1>3, DaemonAssumption DEF FeedAt, AdminPriceFeed
  <2> QED
    BY <1>3, <2>1, <2>2, PoolAssumption DEF PoolType
<1>6. BtcType
  <2>1. NoBtcVault \in BtcVaultAccount
    BY DEF NoBtcVault, BtcVaultAccount, PENDING, VERIFIED, EXPIRED
  <2>2. NoApprovals \in [demo : [DemoPayers -> Nat], ika : BOOLEAN,
                         sighash : {"none", "pending", "signed"}]
    BY DEF NoApprovals
  <2>3. NoAttestation \in [satoshis : Nat, attested_at_unix : Nat]
    BY DEF NoAttestation
  <2> QED
    BY <2>1, <2>2, <2>3 DEF DaemonInit, BtcInit, BtcType
<1>7. BtcTypeOK
  BY <1>4, <1>5, <1>6 DEF BtcTypeOK
<1>8. BtcClocksBehind
  <2>1. feed[BTC].updated_at = 1
    BY <1>3, BtcAssumption DEF FeedAt
  <2> QED
    BY <1>3, <2>1, UnitAssumption
       DEF BtcClocksBehind, DaemonInit, BtcInit, NoBtcVault, NoAttestation
<1>9. UnbornPool /\ BtcDebtHasAPosition
  BY <1>3 DEF UnbornPool, BtcDebtHasAPosition, DaemonInit, BtcInit
<1>10. FrozenIsRecoverable
  BY DEF FrozenIsRecoverable, DaemonInit, BtcInit, NoBtcVault
<1>11. ScriptType /\ ChainType
  <2>1. ScriptType
    BY DEF DaemonInit, ScriptType, Idle
  <2>2. NoSpend \in [satoshis : Nat, status : {"none", "mempool", "confirmed"},
                     confirmations : 0..MIN_CONFIRMATIONS]
    BY DaemonAssumption DEF NoSpend
  <2>3. budget \in [moves : 0..MaxMoves, failures : 0..MaxFailures]
    BY DaemonAssumption DEF DaemonInit
  <2>4. coins \in [BtcVaults -> Nat] /\ readAt \in [BtcVaults -> Nat]
    BY DaemonAssumption DEF DaemonInit
  <2>5. ChainType
    BY <2>2, <2>3, <2>4 DEF DaemonInit, ChainType
  <2> QED
    BY <2>1, <2>5
<1>12. AdminKnown
  BY <1>2, <1>3 DEF AdminKnown
<1>13. ReadsTimely
  BY DEF ReadsTimely, DaemonInit, BtcInit, NoAttestation
<1>14. PricePositive
  BY <1>3, BtcAssumption, DaemonAssumption DEF PricePositive, FeedAt
<1> QED
  BY <1>7, <1>8, <1>9, <1>10, <1>11, <1>12, <1>13, <1>14
     DEF DaemonIInv, BtcIInv, DaemonTypeOK

----------------------------------------------------------------------------
(* Every step is one of the program's, or leaves the program alone         *)

LEMMA ReportFields ==
    ASSUME DaemonIInv, NEW tx \in inflight
    PROVE  /\ tx.kind \in {"attest", "finalize"}
           /\ tx.vault \in BtcVaults
           /\ tx.satoshis \in Nat /\ tx.read_at \in Nat
  BY DEF DaemonIInv, DaemonTypeOK, ScriptType, Reports

LEMMA DaemonStepIsBtcStep ==
    ASSUME DaemonIInv, [DaemonNext]_all
    PROVE  [BtcNext]_btcAll
<1>1. protocol.admin \in Users
  BY DEF DaemonIInv, AdminKnown
<1>2. CASE UNCHANGED btcAll
  BY <1>2
<1>3. CASE Tick /\ UNCHANGED <<poolVars, btcVars>>
  BY <1>3 DEF BtcNext
<1>4. CASE /\ \E price \in Prices : UpdateAdminPrice(protocol.admin, BTC, price)
           /\ UNCHANGED btcVars
  BY <1>1, <1>4, BtcAssumption DEF BtcNext, PoolStep
<1>5. CASE KeeperStep \/ KeeperGivesUp
  BY <1>2, <1>5 DEF KeeperStep, KeeperReport, KeeperGivesUp
<1>6. ASSUME NEW v \in BtcVaults,
             BtcVaultStep(v) \/ \E liquidator \in Users : Liquidate(v, liquidator)
      PROVE  BtcNext
  BY <1>6 DEF BtcNext, Liquidate
<1>7. ASSUME NEW v \in BtcVaults,
             \/ KeeperSkips(v) \/ BitcoinMove(v) \/ BitcoinBlock(v)
             \/ BroadcasterStep(v) \/ BroadcasterStops(v)
      PROVE  UNCHANGED btcAll
  BY <1>7 DEF KeeperSkips, BitcoinMove, BitcoinBlock, BroadcasterStep,
     BroadcastRawTx, ResumeWithTxid, SubmitFinalize, BroadcasterStops
<1>8. ASSUME NEW tx \in inflight, Land(tx)
      PROVE  BtcNext
  <2>1. tx.vault \in BtcVaults /\ tx.satoshis \in Nat
    BY ReportFields
  <2>2. MIN_CONFIRMATIONS \in Nat
    BY DaemonAssumption
  <2>3. \/ AttestBtcBalance(tx.vault, protocol.admin, tx.satoshis)
        \/ FinalizeBtcLiquidation(tx.vault, protocol.admin, MIN_CONFIRMATIONS,
                                  tx.satoshis)
    BY <1>8 DEF Land, Executes
  <2> QED
    BY <1>1, <2>1, <2>2, <2>3 DEF BtcNext
<1>9. ASSUME NEW tx \in inflight, Fall(tx)
      PROVE  UNCHANGED btcAll
  BY <1>9 DEF Fall
<1> QED
  BY <1>2, <1>3, <1>4, <1>5, <1>6, <1>7, <1>8, <1>9
     DEF DaemonNext, Delivery, all

----------------------------------------------------------------------------
(* The scripts' own state                                                  *)

LEMMA DaemonFacts ==
    ASSUME DaemonIInv
    PROVE  /\ BtcTypeOK /\ now \in Nat
           /\ keeper \in [todo : SUBSET BtcVaults, sent : SUBSET Reports]
           /\ broadcaster \in [BtcVaults -> {"off", "waiting", "late", "sent"}]
           /\ inflight \subseteq Reports
           /\ coins \in [BtcVaults -> Nat]
           /\ readAt \in [BtcVaults -> Nat]
           /\ MIN_CONFIRMATIONS \in Nat \ {0}
  BY BtcFacts, DaemonAssumption
     DEF DaemonIInv, DaemonTypeOK, ScriptType, ChainType

LEMMA ReportTyped ==
    ASSUME DaemonIInv, NEW v \in BtcVaults, NEW kind \in {"attest", "finalize"}
    PROVE  Report(kind, v, coins[v], now) \in Reports
<1>1. coins[v] \in Nat /\ now \in Nat
  BY DaemonFacts
<1> QED
  BY <1>1 DEF Report, Reports

LEMMA ScriptsTyped ==
    ASSUME DaemonIInv, DaemonNext
    PROVE  ScriptType'
<1> USE DaemonFacts DEF ScriptType
<1>1. CASE UNCHANGED <<inflight, keeper, broadcaster>>
  BY <1>1
<1>2. ASSUME NEW v \in BtcVaults, KeeperReport(v)
      PROVE  ScriptType'
  <2> DEFINE report == Report("attest", v, coins[v], now)
  <2>1. report \in Reports
    BY ReportTyped
  <2>2. KeeperTodo \in SUBSET BtcVaults
    BY DEF KeeperTodo, RegisteredVaults
  <2>3. /\ keeper' = [todo |-> KeeperTodo \ {v}, sent |-> {report}]
        /\ inflight' = inflight \cup {report}
        /\ UNCHANGED broadcaster
    BY <1>2 DEF KeeperReport
  <2> HIDE DEF report
  <2> QED
    BY <2>1, <2>2, <2>3
<1>3. ASSUME NEW v \in BtcVaults, KeeperSkips(v)
      PROVE  ScriptType'
  <2>1. KeeperTodo \in SUBSET BtcVaults
    BY DEF KeeperTodo, RegisteredVaults
  <2>2. /\ keeper' = [keeper EXCEPT !.todo = KeeperTodo \ {v}]
        /\ UNCHANGED <<inflight, broadcaster>>
    BY <1>3 DEF KeeperSkips
  <2> QED
    BY <2>1, <2>2
<1>4. CASE KeeperGivesUp
  BY <1>4 DEF KeeperGivesUp
<1>5. ASSUME NEW v \in BtcVaults, BroadcasterStep(v) \/ BroadcasterStops(v)
      PROVE  ScriptType'
  <2>1. CASE BroadcastRawTx(v) \/ ResumeWithTxid(v) \/ BroadcasterStops(v)
    BY <2>1 DEF BroadcastRawTx, ResumeWithTxid, BroadcasterStops
  <2>2. CASE SubmitFinalize(v)
    BY <2>2, ReportTyped DEF SubmitFinalize
  <2> QED
    BY <1>5, <2>1, <2>2 DEF BroadcasterStep
<1>6. ASSUME NEW tx \in inflight, Land(tx) \/ Fall(tx)
      PROVE  ScriptType'
  <2>1. inflight' = inflight \ {tx} /\ SenderDone(tx)
    BY <1>6 DEF Land, Fall
  <2>2. keeper' \in [todo : SUBSET BtcVaults, sent : SUBSET Reports]
    BY <2>1 DEF SenderDone
  <2>3. broadcaster' \in [BtcVaults -> {"off", "waiting", "late", "sent"}]
    BY <2>1 DEF SenderDone
  <2> QED
    BY <2>1, <2>2, <2>3
<1>7. ASSUME NEW v \in BtcVaults, NEW liquidator \in Users,
             Liquidate(v, liquidator)
      PROVE  ScriptType'
  BY <1>7 DEF Liquidate
<1>8. ASSUME NEW v \in BtcVaults,
             \/ BtcVaultStep(v) /\ UNCHANGED daemonVars
             \/ BitcoinMove(v) \/ BitcoinBlock(v)
      PROVE  ScriptType'
  BY <1>1, <1>8 DEF BitcoinMove, BitcoinBlock, daemonVars, scriptVars
<1> QED
  BY <1>1, <1>2, <1>3, <1>4, <1>5, <1>6, <1>7, <1>8
     DEF DaemonNext, KeeperStep, Delivery, daemonVars

----------------------------------------------------------------------------
(* The Bitcoin chain and its history                                       *)

\* Spending and withdrawing at most spend what there is.
LEMMA SeizedSatoshisIsNat ==
    ASSUME DaemonIInv, NEW v \in BtcVaults, feed[BTC].live
    PROVE  SeizedSatoshis(v) \in Nat
<1> DEFINE debt == DebtOf(btcPrincipal[v])
           price == feed[BTC].price_usd
           scaled == debt * PRICE_DECIMALS * SATOSHIS_PER_BTC
           satoshis == (scaled \div BORROW_ASSET_DECIMALS) \div price
           withBonus == (satoshis * (BASIS_POINTS + BonusBps)) \div BASIS_POINTS
<1>1. debt \in Nat
  BY BtcFacts, BtcDebtIsNat DEF DaemonIInv, BtcIInv
<1>2. price \in Nat \ {0}
  BY BtcFacts, BtcAssumption
     DEF DaemonIInv, BtcIInv, PricePositive, AdminPriceFeed
<1>3. attestation[v].satoshis \in Nat
  BY BtcFacts DEF DaemonIInv, BtcIInv
<1>4. SeizedSatoshis(v) = Smaller(withBonus, attestation[v].satoshis)
  BY DEF SeizedSatoshis, DebtToSatoshis
<1> HIDE DEF debt, price
<1>5. scaled \in Nat
  BY <1>1, TimesIsNat, UnitAssumption, BtcAssumption
<1> HIDE DEF scaled
<1>6. satoshis \in Nat
  <2>1. scaled \div BORROW_ASSET_DECIMALS \in Nat
    BY <1>5, DivBounds, UnitAssumption
  <2> QED
    BY <1>2, <2>1, DivBounds
<1> HIDE DEF satoshis
<1>7. withBonus \in Nat
  <2>1. BASIS_POINTS + BonusBps \in Nat /\ BASIS_POINTS \in Nat \ {0}
    BY UnitAssumption, RateAssumption
  <2>2. satoshis * (BASIS_POINTS + BonusBps) \in Nat
    BY <1>6, <2>1, TimesIsNat
  <2> QED
    BY <2>1, <2>2, DivBounds
<1> HIDE DEF withBonus
<1> QED
  BY <1>3, <1>4, <1>7 DEF Smaller

SpendRecord == [satoshis : Nat, status : {"none", "mempool", "confirmed"},
                confirmations : 0..MIN_CONFIRMATIONS]

LEMMA SpendTyped ==
    ASSUME DaemonIInv, DaemonNext
    PROVE  spend' \in [BtcVaults -> SpendRecord]
<1> DEFINE Typed == spend' \in [BtcVaults -> SpendRecord]
<1>0. spend \in [BtcVaults -> SpendRecord] /\ MIN_CONFIRMATIONS \in Nat \ {0}
  BY DaemonFacts DEF DaemonIInv, DaemonTypeOK, ChainType, SpendRecord
<1>1. CASE UNCHANGED spend
  BY <1>0, <1>1
<1>2. ASSUME NEW v \in BtcVaults, BitcoinBlock(v)
      PROVE  Typed
  <2>1. spend[v].confirmations + 1 \in 0..MIN_CONFIRMATIONS
    BY <1>0, <1>2 DEF BitcoinBlock, SpendRecord
  <2> DEFINE next == [spend[v] EXCEPT !.status = "confirmed",
                        !.confirmations = spend[v].confirmations + 1]
  <2>2. next \in SpendRecord
    BY <1>0, <2>1 DEF SpendRecord
  <2>3. spend' = [spend EXCEPT ![v] = next]
    BY <1>2 DEF BitcoinBlock
  <2> HIDE DEF next
  <2> QED
    BY <1>0, <2>2, <2>3
<1>3. ASSUME NEW v \in BtcVaults, BroadcastRawTx(v)
      PROVE  Typed
  <2>1. [spend[v] EXCEPT !.status = "mempool"] \in SpendRecord
    BY <1>0 DEF SpendRecord
  <2>2. spend' = [spend EXCEPT ![v] = [spend[v] EXCEPT !.status = "mempool"]]
    BY <1>3 DEF BroadcastRawTx
  <2> QED
    BY <1>0, <2>1, <2>2
<1>4. ASSUME NEW v \in BtcVaults, NEW liquidator \in Users,
             Liquidate(v, liquidator)
      PROVE  Typed
  <2>1. feed[BTC].live
    BY <1>4 DEF Liquidate, LiquidateBtcPosition, PriceFresh
  <2>2. SeizedSatoshis(v) \in Nat
    BY <2>1, SeizedSatoshisIsNat
  <2> DEFINE next == [NoSpend EXCEPT !.satoshis = SeizedSatoshis(v)]
  <2>3. next \in SpendRecord
    BY <1>0, <2>2 DEF NoSpend, SpendRecord
  <2>4. spend' = [spend EXCEPT ![v] = next]
    BY <1>4 DEF Liquidate
  <2> HIDE DEF next
  <2> QED
    BY <1>0, <2>3, <2>4
<1> QED
  BY <1>1, <1>2, <1>3, <1>4
     DEF DaemonNext, daemonVars, chainVars, KeeperStep, KeeperReport,
         KeeperGivesUp, KeeperSkips, BitcoinMove, BroadcasterStep,
         ResumeWithTxid, SubmitFinalize, BroadcasterStops, Delivery, Land, Fall

LEMMA CoinsTyped ==
    ASSUME DaemonIInv, DaemonNext
    PROVE  coins' \in [BtcVaults -> Nat]
<1>0. coins \in [BtcVaults -> Nat]
  BY DaemonFacts
<1>1. CASE UNCHANGED coins
  BY <1>0, <1>1
<1>2. CASE \E v \in BtcVaults : BitcoinMove(v)
  BY <1>0, <1>2, DaemonAssumption DEF BitcoinMove
<1>3. ASSUME NEW v \in BtcVaults, BroadcastRawTx(v)
      PROVE  coins' \in [BtcVaults -> Nat]
  <2>1. spend[v].satoshis \in Nat
    BY DEF DaemonIInv, DaemonTypeOK, ChainType
  <2>2. /\ coins[v] >= spend[v].satoshis
        /\ coins' = [coins EXCEPT ![v] = coins[v] - spend[v].satoshis]
    BY <1>3 DEF BroadcastRawTx
  <2>3. coins[v] - spend[v].satoshis \in Nat
    BY <1>0, <2>1, <2>2
  <2> QED
    BY <1>0, <2>2, <2>3
<1> QED
  BY <1>1, <1>2, <1>3
     DEF DaemonNext, daemonVars, chainVars, KeeperStep, KeeperReport,
         KeeperGivesUp, KeeperSkips, BitcoinBlock, BroadcasterStep, Liquidate,
         ResumeWithTxid, SubmitFinalize, BroadcasterStops, Delivery, Land, Fall

LEMMA BudgetTyped ==
    ASSUME DaemonIInv, DaemonNext
    PROVE  budget' \in [moves : 0..MaxMoves, failures : 0..MaxFailures]
<1>0. /\ budget \in [moves : 0..MaxMoves, failures : 0..MaxFailures]
      /\ MaxMoves \in Nat /\ MaxFailures \in Nat
  BY DaemonAssumption DEF DaemonIInv, DaemonTypeOK, ChainType
<1>1. CASE UNCHANGED budget
  BY <1>0, <1>1
<1>2. CASE /\ budget.moves > 0
           /\ budget' = [budget EXCEPT !.moves = budget.moves - 1]
  BY <1>0, <1>2
<1>3. CASE /\ budget.failures > 0
           /\ budget' = [budget EXCEPT !.failures = budget.failures - 1]
  BY <1>0, <1>3
<1> QED
  BY <1>1, <1>2, <1>3
     DEF DaemonNext, daemonVars, KeeperStep, KeeperReport, KeeperGivesUp,
         KeeperSkips, BitcoinMove, BitcoinBlock, BroadcasterStep,
         BroadcastRawTx, Liquidate, ResumeWithTxid, SubmitFinalize,
         BroadcasterStops, Delivery, Land, Fall

----------------------------------------------------------------------------
(* What is attested                                                        *)

\* Only the delivery of a report, and a registration, touch an attestation;
\* only the former its history.
LEMMA AttestationSteps ==
    ASSUME DaemonIInv, DaemonNext
    PROVE  \/ UNCHANGED <<attestation, readAt>>
           \/ /\ UNCHANGED readAt
              /\ \E v \in BtcVaults :
                   attestation' = [attestation EXCEPT ![v] = NoAttestation]
           \/ \E tx \in inflight :
                /\ Timely(tx)
                /\ readAt' = [readAt EXCEPT ![tx.vault] = tx.read_at]
                /\ attestation' =
                     [attestation EXCEPT ![tx.vault] =
                        [satoshis |-> tx.satoshis, attested_at_unix |-> now]]
<1>1. ASSUME NEW v \in BtcVaults, BtcVaultStep(v)
      PROVE  \/ UNCHANGED attestation
             \/ attestation' = [attestation EXCEPT ![v] = NoAttestation]
  BY <1>1 DEF BtcVaultStep, RegisterBtcVault, IkaCustodyApproval,
     IkaSignsSighash, DemoCreateMessageApproval, VerifyBtcCustodyProof,
     RefreshBtcCustodyProof, BorrowAgainstBtcCollateral, RepayBtcBorrow
<1>2. ASSUME NEW tx \in inflight, Land(tx)
      PROVE  /\ Timely(tx)
             /\ readAt' = [readAt EXCEPT ![tx.vault] = tx.read_at]
             /\ attestation' =
                  [attestation EXCEPT ![tx.vault] =
                     [satoshis |-> tx.satoshis, attested_at_unix |-> now]]
  BY <1>2 DEF Land, Executes, AttestBtcBalance, FinalizeBtcLiquidation
<1>3. ASSUME NEW v \in BtcVaults, NEW liquidator \in Users,
             Liquidate(v, liquidator)
      PROVE  UNCHANGED <<attestation, readAt>>
  BY <1>3 DEF Liquidate, LiquidateBtcPosition
<1> QED
  BY <1>1, <1>2, <1>3
     DEF DaemonNext, daemonVars, btcVars, btcAll, KeeperStep, KeeperReport,
         KeeperGivesUp, KeeperSkips, BitcoinMove, BitcoinBlock,
         BroadcasterStep, BroadcastRawTx, ResumeWithTxid, SubmitFinalize,
         BroadcasterStops, Delivery, Fall

LEMMA ReadsStayTimely ==
    ASSUME DaemonIInv, DaemonNext
    PROVE  ReadsTimely' /\ readAt' \in [BtcVaults -> Nat]
<1>0. /\ readAt \in [BtcVaults -> Nat]
      /\ attestation \in [BtcVaults -> [satoshis : Nat, attested_at_unix : Nat]]
      /\ ReadsTimely
  BY DaemonFacts, BtcFacts DEF DaemonIInv
<1>1. CASE UNCHANGED <<attestation, readAt>>
  BY <1>0, <1>1 DEF ReadsTimely
<1>2. ASSUME NEW v \in BtcVaults, UNCHANGED readAt,
             attestation' = [attestation EXCEPT ![v] = NoAttestation]
      PROVE  ReadsTimely' /\ readAt' \in [BtcVaults -> Nat]
  BY <1>0, <1>2 DEF ReadsTimely, NoAttestation
<1>3. ASSUME NEW tx \in inflight, Timely(tx),
             readAt' = [readAt EXCEPT ![tx.vault] = tx.read_at],
             attestation' =
               [attestation EXCEPT ![tx.vault] =
                  [satoshis |-> tx.satoshis, attested_at_unix |-> now]]
      PROVE  ReadsTimely' /\ readAt' \in [BtcVaults -> Nat]
  <2>1. tx.vault \in BtcVaults /\ tx.read_at \in Nat
    BY ReportFields
  <2>2. /\ readAt' \in [BtcVaults -> Nat] /\ readAt'[tx.vault] = tx.read_at
        /\ attestation'[tx.vault].attested_at_unix = now
    BY <1>0, <1>3, <2>1
  <2>3. \A u \in BtcVaults \ {tx.vault} :
          attestation'[u] = attestation[u] /\ readAt'[u] = readAt[u]
    BY <1>0, <1>3
  <2>4. now - tx.read_at <= TX_DELAY
    BY <1>3 DEF Timely
  <2> QED
    BY <1>0, <2>2, <2>3, <2>4 DEF ReadsTimely
<1> QED
  BY <1>1, <1>2, <1>3, AttestationSteps

LEMMA AdminStays ==
    ASSUME DaemonIInv, DaemonNext
    PROVE  AdminKnown' /\ PricePositive'
<1>1. protocol \in ProtocolAccount /\ feed \in [PriceAssets -> AdminPriceFeed]
  BY DaemonFacts, BtcFacts
<1>2. AdminKnown /\ PricePositive
  BY DEF DaemonIInv
<1>3. CASE UNCHANGED <<protocol, feed>>
  BY <1>2, <1>3 DEF AdminKnown, PricePositive
<1>4. CASE /\ \E price \in Prices : UpdateAdminPrice(protocol.admin, BTC, price)
           /\ UNCHANGED btcVars
  <2>1. PICK price \in Prices : UpdateAdminPrice(protocol.admin, BTC, price)
    BY <1>4
  <2>2. price > 0 /\ UNCHANGED protocol
    BY <2>1 DEF UpdateAdminPrice
  <2>3. feed'[BTC].price_usd = price
    BY <1>1, <2>1, BtcAssumption DEF UpdateAdminPrice, AdminPriceFeed
  <2> QED
    BY <1>2, <2>2, <2>3 DEF AdminKnown, PricePositive
<1>5. ASSUME NEW v \in BtcVaults, BtcVaultStep(v)
      PROVE  AdminKnown' /\ PricePositive'
  <2>1. CASE RegisterBtcVault(v)
    <3>1. /\ protocol' = [protocol EXCEPT !.total_vaults =
                            protocol.total_vaults + 1]
          /\ UNCHANGED feed
      BY <2>1 DEF RegisterBtcVault, poolVars
    <3>2. protocol'.live = protocol.live /\ protocol'.admin = protocol.admin
      BY <1>1, <3>1 DEF ProtocolAccount
    <3> QED
      BY <1>2, <3>1, <3>2 DEF AdminKnown, PricePositive
  <2>2. CASE ~RegisterBtcVault(v)
    BY <1>3, <1>5, <2>2
       DEF BtcVaultStep, IkaCustodyApproval, IkaSignsSighash, poolVars,
           DemoCreateMessageApproval, VerifyBtcCustodyProof,
           RefreshBtcCustodyProof, BorrowAgainstBtcCollateral, RepayBtcBorrow
  <2> QED
    BY <2>1, <2>2
<1>6. CASE Tick /\ UNCHANGED <<poolVars, btcVars, daemonVars>>
  BY <1>3, <1>6 DEF Tick, poolVars
<1>7. ASSUME NEW v \in BtcVaults, NEW liquidator \in Users,
             Liquidate(v, liquidator)
      PROVE  UNCHANGED <<protocol, feed>>
  BY <1>7 DEF Liquidate, LiquidateBtcPosition
<1>8. ASSUME NEW tx \in inflight, Land(tx)
      PROVE  UNCHANGED <<protocol, feed>>
  BY <1>8 DEF Land, Executes, AttestBtcBalance, FinalizeBtcLiquidation, poolVars
<1> QED
  BY <1>3, <1>4, <1>5, <1>6, <1>7, <1>8
     DEF DaemonNext, btcAll, poolVars, KeeperStep, KeeperReport,
         KeeperGivesUp, KeeperSkips, BitcoinMove, BitcoinBlock,
         BroadcasterStep, BroadcastRawTx, ResumeWithTxid, SubmitFinalize,
         BroadcasterStops, Delivery, Fall

----------------------------------------------------------------------------
(* The daemons' invariant                                                  *)

LEMMA DaemonNextIInv ==
    ASSUME DaemonIInv, [DaemonNext]_all
    PROVE  DaemonIInv' /\ BtcLedgerKept
<1>1. BtcIInv' /\ BtcLedgerKept
  BY DaemonStepIsBtcStep, BtcNextIInv DEF DaemonIInv
<1>2. CASE DaemonNext
  <2>1. ChainType'
    BY <1>2, CoinsTyped, SpendTyped, ReadsStayTimely, BudgetTyped
       DEF ChainType, SpendRecord
  <2> QED
    BY <1>1, <1>2, <2>1, ScriptsTyped, ReadsStayTimely, AdminStays
       DEF DaemonIInv, DaemonTypeOK, BtcIInv
<1>3. CASE UNCHANGED all
  <2>1. /\ UNCHANGED <<protocol, feed, attestation>>
        /\ UNCHANGED <<coins, spend, inflight, keeper, broadcaster, readAt, budget>>
    BY <1>3 DEF all, daemonVars, btcAll, poolVars, btcVars
  <2>2. ScriptType' /\ ChainType'
    BY <2>1 DEF DaemonIInv, DaemonTypeOK, ScriptType, ChainType
  <2>3. AdminKnown' /\ PricePositive' /\ ReadsTimely'
    BY <2>1 DEF DaemonIInv, AdminKnown, PricePositive, ReadsTimely
  <2> QED
    BY <1>1, <2>2, <2>3 DEF DaemonIInv, DaemonTypeOK, BtcIInv
<1> QED
  BY <1>2, <1>3

LEMMA DaemonInvariant == DaemonSpec => []DaemonIInv
<1>1. DaemonIInv /\ [DaemonNext]_all => DaemonIInv'
  BY DaemonNextIInv
<1> QED
  BY <1>1, DaemonInitIInv, PTL DEF DaemonSpec

\* The state of the scripts, of what they have in flight and of the chain is
\* what its types say: no address is overdrawn, no report is garbled.
THEOREM DaemonTypeCorrect == DaemonSpec => []DaemonTypeOK
<1>1. DaemonIInv => DaemonTypeOK
  BY DEF DaemonIInv
<1> QED
  BY <1>1, DaemonInvariant, PTL

\* However many reports are in flight and in whatever order they land, no loan
\* stands on a balance that was read longer ago than the attestation's maximal
\* age and a transaction's delay together.
THEOREM LoansOnRecentBalancesHolds == DaemonSpec => LoansOnRecentBalances
<1>1. ASSUME DaemonIInv, [DaemonNext]_all
      PROVE  [\A v \in btcPositions' \ btcPositions :
                now - readAt[v]
                  <= BTC_ATTESTATION_MAX_AGE_SECONDS + TX_DELAY]_all
  <2> DEFINE Recent(v) ==
        now - readAt[v] <= BTC_ATTESTATION_MAX_AGE_SECONDS + TX_DELAY
  <2>0. CASE btcPositions' \subseteq btcPositions
    BY <2>0
  <2>1. ASSUME NEW v \in BtcVaults, NEW signer \in Users,
               NEW amount \in BtcBorrowAmounts,
               BorrowAgainstBtcCollateral(v, signer, amount)
        PROVE  \A u \in btcPositions' \ btcPositions : Recent(u)
    <3>1. /\ btcPositions' = btcPositions \cup {v}
          /\ attestation[v].satoshis > 0
          /\ now - attestation[v].attested_at_unix
               <= BTC_ATTESTATION_MAX_AGE_SECONDS
      BY <2>1 DEF BorrowAgainstBtcCollateral, AttestationFresh
    <3>2. attestation[v].attested_at_unix - readAt[v] <= TX_DELAY
      BY <1>1, <3>1 DEF DaemonIInv, ReadsTimely
    <3>3. /\ now \in Nat /\ readAt[v] \in Nat
          /\ attestation[v].attested_at_unix \in Nat
          /\ TX_DELAY \in Nat /\ BTC_ATTESTATION_MAX_AGE_SECONDS \in Nat
      BY <1>1, DaemonFacts, BtcFacts, BtcAssumption, DaemonAssumption
    <3>4. Recent(v)
      BY <3>1, <3>2, <3>3
    <3> QED
      BY <3>1, <3>4
  <2>2. CASE UNCHANGED btcAll
    BY <2>0, <2>2 DEF btcAll, btcVars
  <2>3. CASE BtcNext
    <3>1. CASE \E v \in BtcVaults, signer \in Users, amount \in BtcBorrowAmounts :
                 BorrowAgainstBtcCollateral(v, signer, amount)
      BY <2>1, <3>1
    <3>2. CASE ~\E v \in BtcVaults, signer \in Users, amount \in BtcBorrowAmounts :
                  BorrowAgainstBtcCollateral(v, signer, amount)
      <4>1. CASE UNCHANGED btcVars
        BY <2>0, <4>1 DEF btcVars
      <4>2. ASSUME NEW v \in BtcVaults, BtcVaultStep(v)
            PROVE  btcPositions' \subseteq btcPositions
        BY <3>2, <4>2
           DEF BtcVaultStep, RegisterBtcVault, IkaCustodyApproval,
               IkaSignsSighash, DemoCreateMessageApproval,
               VerifyBtcCustodyProof, RefreshBtcCustodyProof,
               RepayBtcBorrow, BtcPositionsAfter
      <4>3. ASSUME NEW v \in BtcVaults, NEW user \in Users,
                   \/ LiquidateBtcPosition(v, user)
                   \/ \E satoshis, confirmations \in Nat :
                        \/ AttestBtcBalance(v, user, satoshis)
                        \/ FinalizeBtcLiquidation(v, user, confirmations,
                                                  satoshis)
            PROVE  btcPositions' \subseteq btcPositions
        BY <4>3 DEF LiquidateBtcPosition, BtcPositionsLiquidated,
           AttestBtcBalance, FinalizeBtcLiquidation
      <4> QED
        BY <2>0, <2>3, <4>1, <4>2, <4>3 DEF BtcNext, btcVars
    <3> QED
      BY <3>1, <3>2
  <2> QED
    BY <1>1, <2>2, <2>3, DaemonStepIsBtcStep
<1> QED
  BY <1>1, DaemonInvariant, PTL DEF DaemonSpec, LoansOnRecentBalances

\* Crashes, restarts and late reports of the daemons never leave a vault frozen
\* that the admin cannot thaw.
THEOREM DaemonsKeepFrozenRecoverable == DaemonSpec => []FrozenIsRecoverable
<1>1. DaemonIInv => FrozenIsRecoverable
  BY DEF DaemonIInv, BtcIInv
<1> QED
  BY <1>1, DaemonInvariant, PTL

\* Reports that land late, twice reported or after their liquidation is over
\* leave the pool's total at the sum of the loans.
THEOREM DaemonDebtLedger == DaemonSpec => []BtcDebtLedger
<1>1. DaemonInit => BtcDebtLedger
  BY BtcLedgerInit DEF DaemonInit, Bootstrapped, NoPool
<1>2. DaemonIInv /\ BtcDebtLedger /\ [DaemonNext]_all => BtcDebtLedger'
  BY DaemonNextIInv, BtcLedgerCarried DEF DaemonIInv, BtcIInv
<1> QED
  BY <1>1, <1>2, DaemonInvariant, PTL DEF DaemonSpec

\* Nor do they touch the pool but through the loan book: the whole of
\* the daemons, the chain and the deliveries implements it.
THEOREM DaemonsImplementLoanBook == DaemonSpec => BtcLendsByTheBook
<1>1. DaemonInit => BtcBook!BookInit
  <2> SUFFICES ASSUME DaemonInit PROVE BtcBook!BookInit
    OBVIOUS
  <2>1. pool.total_borrowed = 0 /\ pool.borrow_index = RAY
    BY DEF DaemonInit, Bootstrapped, NoPool
  <2>2. tokens[PoolVault] \in Nat
    BY PoolAssumption DEF DaemonInit, Bootstrapped, Holders
  <2> QED
    BY <2>1, <2>2 DEF DaemonInit, BtcInit, BtcBook!BookInit
<1>2. DaemonIInv /\ [DaemonNext]_all => [BtcBook!BookNext]_(BtcBook!bookVars)
  BY DaemonStepIsBtcStep, BtcStepIsBooked DEF DaemonIInv
<1> QED
  BY <1>1, <1>2, DaemonInvariant, PTL
     DEF DaemonSpec, BtcLendsByTheBook, BtcBook!BookSpec
===============================================================================
