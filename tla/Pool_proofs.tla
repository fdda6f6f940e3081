----------------------------- MODULE Pool_proofs -----------------------------
(***************************************************************************)
(* What the pool's operations compute and that they keep its types, for    *)
(* borrowers of either kind.                                               *)
(***************************************************************************)
EXTENDS Pool, Arithmetic_lemmas

\* accrue_interest keeps the pool a pool and moves only the index and the
\* slot it was computed for.
LEMMA AccrualFacts ==
    ASSUME ProtocolType, PoolType,
           pool.last_update_slot <= slot, pool.borrow_index >= RAY
    PROVE  /\ Accrued \in LendingPool
           /\ Accrued.live = pool.live
           /\ Accrued.total_liquidity = pool.total_liquidity
           /\ Accrued.total_borrowed = pool.total_borrowed
           /\ Accrued.last_update_slot = slot
           /\ Accrued.borrow_index >= pool.borrow_index
           /\ Accrued.borrow_index \in Nat \ {0}
<1> USE DEF LendingPool
<1> DEFINE growth == IndexGrowth(pool.total_borrowed, pool.total_liquidity,
                                 pool.borrow_index,
                                 slot - pool.last_update_slot)
<1>1. /\ pool \in LendingPool
      /\ slot \in Nat
  BY ClockAssumption DEF PoolType, ProtocolType
<1>2. /\ pool.last_update_slot <= slot
      /\ pool.borrow_index >= RAY
      /\ RAY \in Nat \ {0}
  BY UnitAssumption
<1>3. slot - pool.last_update_slot \in Nat
  BY <1>1, <1>2
<1>4. growth \in Nat
  BY <1>1, <1>3, IndexGrowthIsNat
<1> HIDE DEF growth
<1>5. CASE slot <= pool.last_update_slot
  <2>1. Accrued = pool
    BY <1>5 DEF Accrued
  <2> QED
    BY <1>1, <1>2, <1>5, <2>1
<1>6. CASE ~(slot <= pool.last_update_slot)
  <2>1. Accrued = [pool EXCEPT !.last_update_slot = slot,
                               !.borrow_index = pool.borrow_index + growth]
    BY <1>6 DEF Accrued, growth
  <2>2. /\ Accrued.live = pool.live
        /\ Accrued.total_liquidity = pool.total_liquidity
        /\ Accrued.total_borrowed = pool.total_borrowed
        /\ Accrued.last_update_slot = slot
        /\ Accrued.borrow_index = pool.borrow_index + growth
    BY <1>1, <2>1
  <2>3. Accrued = [live |-> Accrued.live,
                   total_liquidity |-> Accrued.total_liquidity,
                   total_borrowed |-> Accrued.total_borrowed,
                   borrow_index |-> Accrued.borrow_index,
                   last_update_slot |-> Accrued.last_update_slot]
    BY <1>1, <2>1
  <2>4. pool.live \in BOOLEAN /\ pool.total_liquidity \in Nat
        /\ pool.total_borrowed \in Nat /\ pool.borrow_index \in Nat
    BY <1>1
  <2>5. /\ Accrued.borrow_index \in Nat \ {0}
        /\ Accrued.borrow_index >= pool.borrow_index
    BY <1>2, <1>4, <2>2, <2>4
  <2>6. Accrued \in LendingPool
    BY <1>1, <2>2, <2>3, <2>4, <2>5
  <2> QED
    BY <2>2, <2>5, <2>6
<1> QED
  BY <1>5, <1>6

\* What an SPL transfer leaves: every balance a natural number.
LEMMA PayKeepsType ==
    ASSUME tokens \in [Holders -> Nat],
           NEW from \in Holders, NEW to \in Holders,
           NEW amount \in Nat, Pay(from, to, amount)
    PROVE  tokens' \in [Holders -> Nat]
  BY DEF Pay

\* What a transfer between a wallet and the pool does to the pool's balance.
LEMMA PayMovesCash ==
    ASSUME PoolType, NEW user \in Users, NEW amount \in Nat
    PROVE  /\ Pay(PoolVault, user, amount) =>
                /\ tokens'[PoolVault] = tokens[PoolVault] - amount
                /\ tokens'[PoolVault] \in Nat
           /\ Pay(user, PoolVault, amount) =>
                /\ tokens'[PoolVault] = tokens[PoolVault] + amount
                /\ tokens'[user] = tokens[user] - amount
  BY PoolAssumption DEF PoolType, Pay, Holders

\* A scaled debt above zero is always worth at least one raw unit, because the
\* index never falls below one.
LEMMA DebtIsWorthSomething ==
    ASSUME NEW s \in Nat, s > 0, NEW i \in Nat, i >= RAY
    PROVE  CurrentDebt(s, i) > 0
<1> DEFINE d == CurrentDebt(s, i)
<1>1. d \in Nat /\ RAY \in Nat \ {0} /\ s * i \in Nat
  BY CurrentDebtIsNat, UnitAssumption, TimesIsNat
<1>2. s * i < RAY * d + RAY
  BY CurrentDebtBounds
<1>3. 1 * i <= s * i
  BY TimesMonotone
<1>4. 1 * i = i
  OBVIOUS
<1> HIDE DEF d
<1>5. ASSUME d = 0
      PROVE  FALSE
  <2>1. RAY * d = 0
    BY <1>1, <1>5
  <2> QED
    BY <1>1, <1>2, <1>3, <1>4, <2>1
<1>6. d > 0
  BY <1>1, <1>5
<1> QED
  BY <1>6 DEF d

LEMMA PoolStepType ==
    ASSUME ProtocolType, PoolType, PoolStep
    PROVE  ProtocolType' /\ PoolType'
<1>0. now \in Nat /\ slot \in Nat
  BY ClockAssumption DEF ProtocolType
<1>1. ProtocolType'
  BY DEF PoolStep, InitializeLendingPool, InitializeAdminPriceFeed,
         CloseAdminPriceFeed, UpdateAdminPrice, WalletTransfer, ProtocolType,
         clockVars
<1>2. ASSUME NEW price \in Prices, NEW admin \in Users
      PROVE  FeedAt(price, admin) \in AdminPriceFeed
  BY <1>0, PoolAssumption DEF FeedAt, AdminPriceFeed
<1>3. Deployers \subseteq Users
  BY UserAssumption
<1>4. ASSUME NEW admin \in Deployers, NEW asset \in PriceAssets,
             NEW price \in Prices, NEW liquidity \in Liquidities,
             InitializeLendingPool(admin, asset, liquidity, price)
      PROVE  PoolType'
  <2>1. pool' = [live |-> TRUE, total_liquidity |-> liquidity,
                 total_borrowed |-> 0, borrow_index |-> RAY,
                 last_update_slot |-> slot]
    BY <1>4 DEF InitializeLendingPool, NoPool
  <2>2. pool' \in LendingPool
    BY <2>1, <1>0, PoolAssumption, UnitAssumption DEF LendingPool
  <2>3. feed' = [feed EXCEPT ![asset] = FeedAt(price, admin)]
    BY <1>4 DEF InitializeLendingPool
  <2>4. feed' \in [PriceAssets -> AdminPriceFeed]
    BY <1>2, <1>3, <2>3 DEF PoolType
  <2> QED
    BY <1>4, <2>2, <2>4 DEF PoolType, InitializeLendingPool
<1>5. ASSUME NEW admin \in Deployers, NEW asset \in PriceAssets,
             NEW price \in Prices,
             InitializeAdminPriceFeed(admin, asset, price)
      PROVE  PoolType'
  BY <1>2, <1>3, <1>5 DEF InitializeAdminPriceFeed, PoolType
<1>6. ASSUME NEW admin \in Users, NEW asset \in PriceAssets,
             CloseAdminPriceFeed(admin, asset)
      PROVE  PoolType'
  <2>1. NoFeed \in AdminPriceFeed
    BY DEF NoFeed, AdminPriceFeed
  <2> QED
    BY <1>6, <2>1 DEF CloseAdminPriceFeed, PoolType
<1>7. ASSUME NEW admin \in Users, NEW asset \in PriceAssets,
             NEW price \in Prices, UpdateAdminPrice(admin, asset, price)
      PROVE  PoolType'
  <2>1. feed' \in [PriceAssets -> AdminPriceFeed]
    BY <1>0, <1>7, PoolAssumption
       DEF UpdateAdminPrice, PoolType, AdminPriceFeed
  <2> QED
    BY <1>7, <2>1 DEF UpdateAdminPrice, PoolType
<1>8. ASSUME NEW from \in Users, NEW to \in Users,
             NEW amount \in TransferAmounts, WalletTransfer(from, to, amount)
      PROVE  PoolType'
  BY <1>8, PayKeepsType, PoolAssumption DEF WalletTransfer, PoolType, Holders
<1> QED
  BY <1>1, <1>4, <1>5, <1>6, <1>7, <1>8 DEF PoolStep

\* Until the pool is created nothing has touched it.
UnbornPool == ~pool.live => pool = NoPool

\* A step of the pool's administration leaves the debts and the pool's tokens
\* alone; at most it creates a pool that is owed nothing.
LEMMA PoolStepFrame ==
    ASSUME PoolType, PoolStep
    PROVE  /\ UNCHANGED <<now, slot, protocol>>
           /\ tokens'[PoolVault] = tokens[PoolVault]
           /\ \/ pool' = pool
              \/ /\ ~pool.live
                 /\ \E liquidity \in Liquidities :
                      pool' = [live |-> TRUE, total_liquidity |-> liquidity,
                               total_borrowed |-> 0, borrow_index |-> RAY,
                               last_update_slot |-> slot]
           /\ \A a \in PriceAssets :
                feed'[a].updated_at \in {0, now, feed[a].updated_at}
<1> DEFINE Frame ==
      /\ UNCHANGED <<now, slot, protocol>>
      /\ tokens'[PoolVault] = tokens[PoolVault]
      /\ \/ pool' = pool
         \/ /\ ~pool.live
            /\ \E liquidity \in Liquidities :
                 pool' = [live |-> TRUE, total_liquidity |-> liquidity,
                          total_borrowed |-> 0, borrow_index |-> RAY,
                          last_update_slot |-> slot]
      /\ \A a \in PriceAssets :
           feed'[a].updated_at \in {0, now, feed[a].updated_at}
<1>0. feed \in [PriceAssets -> AdminPriceFeed] /\ tokens \in [Holders -> Nat]
  BY DEF PoolType
<1> USE <1>0 DEF clockVars, AdminPriceFeed
<1>1. ASSUME NEW admin \in Deployers, NEW asset \in PriceAssets,
             NEW price \in Prices, NEW liquidity \in Liquidities,
             InitializeLendingPool(admin, asset, liquidity, price)
      PROVE  Frame
  BY <1>1 DEF InitializeLendingPool, FeedAt, NoPool
<1>2. ASSUME NEW admin \in Deployers, NEW asset \in PriceAssets,
             NEW price \in Prices,
             InitializeAdminPriceFeed(admin, asset, price)
      PROVE  Frame
  BY <1>2 DEF InitializeAdminPriceFeed, FeedAt
<1>3. ASSUME NEW admin \in Users, NEW asset \in PriceAssets,
             CloseAdminPriceFeed(admin, asset)
      PROVE  Frame
  BY <1>3 DEF CloseAdminPriceFeed, NoFeed
<1>4. ASSUME NEW admin \in Users, NEW asset \in PriceAssets,
             NEW price \in Prices, UpdateAdminPrice(admin, asset, price)
      PROVE  Frame
  BY <1>4 DEF UpdateAdminPrice
<1>5. ASSUME NEW from \in Users, NEW to \in Users,
             NEW amount \in TransferAmounts, WalletTransfer(from, to, amount)
      PROVE  Frame
  BY <1>5, PoolAssumption DEF WalletTransfer, Pay, Holders
<1> HIDE DEF Frame
<1>6. Frame
  BY <1>1, <1>2, <1>3, <1>4, <1>5 DEF PoolStep
<1> QED
  BY <1>6 DEF Frame

----------------------------------------------------------------------------
(* What a transaction costs the pool *)

\* A payment of the whole debt falls short of the scaled debt it wipes by less
\* than one index unit.
LEMMA WholeDebtPaid ==
    ASSUME NEW s \in Nat, NEW i \in Nat, i >= RAY
    PROVE  CurrentDebt(s, i) * RAY > s * i - i
<1>1. CurrentDebt(s, i) \in Nat /\ RAY \in Nat /\ s * i \in Nat
  BY CurrentDebtIsNat, UnitAssumption, TimesIsNat
<1>2. s * i < RAY * CurrentDebt(s, i) + RAY
  BY CurrentDebtBounds
<1>3. RAY * CurrentDebt(s, i) = CurrentDebt(s, i) * RAY
  BY <1>1
<1>4. RAY * CurrentDebt(s, i) \in Nat
  BY <1>1, TimesIsNat
<1> QED
  BY <1>1, <1>2, <1>3, <1>4

\* So does a partial payment, which buys back at most what it is worth.
LEMMA SliceWorth ==
    ASSUME NEW s \in Nat, NEW i \in Nat \ {0}, NEW paid \in Nat
    PROVE  paid * RAY > Smaller(ToScaled(paid, i), s) * i - i
<1> DEFINE bought == ToScaled(paid, i)
           slice == Smaller(bought, s)
<1>1. bought \in Nat /\ i * bought <= paid * RAY
  BY ToScaledIsNat, ToScaledBounds
<1>2. slice \in Nat /\ slice <= bought
  BY <1>1 DEF Smaller
<1> HIDE DEF bought, slice
<1>3. slice * i <= bought * i
  BY <1>1, <1>2, TimesMonotone
<1>4. bought * i = i * bought /\ bought * i \in Nat
      /\ slice * i \in Nat /\ paid * RAY \in Nat
  BY <1>1, <1>2, TimesIsNat, UnitAssumption
<1>5. paid * RAY > slice * i - i
  BY <1>1, <1>3, <1>4
<1> QED
  BY <1>5 DEF slice, bought

\* The pool's value moves by the tokens that move and the scaled debt that
\* moves; accruing only raises it.
LEMMA ValueMoves ==
    ASSUME NEW t \in Nat, NEW u \in Nat, NEW b \in Nat, NEW c \in Nat,
           NEW i \in Nat, NEW j \in Nat, i <= j,
           (u - t) * RAY + (c - b) * j > 0 - j
    PROVE  u * RAY + c * j > t * RAY + b * i - j
<1>1. RAY \in Nat
  BY UnitAssumption
<1>2. b * i <= b * j
  BY TimesMonotone
<1>3. (u - t) * RAY = u * RAY - t * RAY
  BY <1>1
<1>4. (c - b) * j = c * j - b * j
  OBVIOUS
<1>5. /\ u * RAY \in Nat /\ t * RAY \in Nat /\ c * j \in Nat
      /\ b * j \in Nat /\ b * i \in Nat
  BY <1>1, TimesIsNat
<1> QED
  BY <1>2, <1>3, <1>4, <1>5

LossBounded == PoolValue' > PoolValue - pool'.borrow_index

LEMMA LendingStepValue ==
    ASSUME ProtocolType, PoolType,
           pool.last_update_slot <= slot, pool.borrow_index >= RAY,
           NEW n \in Nat,
           pool' = [Accrued EXCEPT !.total_borrowed = n],
           tokens'[PoolVault] \in Nat,
           (tokens'[PoolVault] - tokens[PoolVault]) * RAY
             + (n - pool.total_borrowed) * Accrued.borrow_index
             > 0 - Accrued.borrow_index
    PROVE  LossBounded
<1>1. /\ Accrued \in LendingPool
      /\ Accrued.borrow_index >= pool.borrow_index
      /\ Accrued.borrow_index \in Nat
  BY AccrualFacts
<1>2. pool'.total_borrowed = n /\ pool'.borrow_index = Accrued.borrow_index
  BY <1>1 DEF LendingPool
<1>3. /\ tokens[PoolVault] \in Nat
      /\ pool.total_borrowed \in Nat /\ pool.borrow_index \in Nat
  BY DEF PoolType, LendingPool, Holders
<1> DEFINE t == tokens[PoolVault]
           u == tokens'[PoolVault]
           b == pool.total_borrowed
           i == pool.borrow_index
           j == Accrued.borrow_index
<1>4. /\ t \in Nat /\ u \in Nat /\ b \in Nat /\ i \in Nat /\ j \in Nat
      /\ i <= j
      /\ (u - t) * RAY + (n - b) * j > 0 - j
  BY <1>1, <1>3
<1>5. /\ PoolValue = t * RAY + b * i
      /\ PoolValue' = u * RAY + n * j
      /\ pool'.borrow_index = j
  BY <1>2 DEF PoolValue
<1> HIDE DEF t, u, b, i, j
<1>6. u * RAY + n * j > t * RAY + b * i - j
  BY <1>4, ValueMoves
<1>7. /\ u * RAY \in Nat /\ n * j \in Nat
      /\ t * RAY \in Nat /\ b * i \in Nat
  BY <1>4, TimesIsNat, UnitAssumption
<1>8. PoolValue' > PoolValue - j
  BY <1>4, <1>5, <1>6, <1>7
<1> QED
  BY <1>5, <1>8 DEF LossBounded

\* A loan is booked at less than one index unit below what it takes out.
LEMMA LoanValue ==
    ASSUME ProtocolType, PoolType,
           pool.last_update_slot <= slot, pool.borrow_index >= RAY,
           NEW user \in Users, NEW amount \in Nat,
           Pay(PoolVault, user, amount),
           pool' = [Accrued EXCEPT !.total_borrowed =
                      Accrued.total_borrowed
                        + ToScaled(amount, Accrued.borrow_index)]
    PROVE  LossBounded
<1> DEFINE i == Accrued.borrow_index
           scaled == ToScaled(amount, i)
           n == pool.total_borrowed + scaled
<1>1. /\ i \in Nat \ {0}
      /\ Accrued.total_borrowed = pool.total_borrowed
      /\ pool.total_borrowed \in Nat
      /\ tokens[PoolVault] \in Nat
  BY AccrualFacts DEF PoolType, LendingPool, Holders
<1>2. scaled \in Nat /\ amount * RAY < i * scaled + i
  BY <1>1, ToScaledIsNat, ToScaledBounds
<1>3. /\ tokens'[PoolVault] = tokens[PoolVault] - amount
      /\ tokens'[PoolVault] \in Nat
  BY PayMovesCash
<1>4. n \in Nat /\ n - pool.total_borrowed = scaled
  BY <1>1, <1>2
<1>5. pool' = [Accrued EXCEPT !.total_borrowed = n]
  BY <1>1
<1> HIDE DEF i, scaled, n
<1>6. /\ (tokens'[PoolVault] - tokens[PoolVault]) * RAY = 0 - amount * RAY
      /\ (n - pool.total_borrowed) * i = i * scaled
  <2>1. tokens'[PoolVault] - tokens[PoolVault] = 0 - amount
    BY <1>1, <1>3
  <2>2. (0 - amount) * RAY = 0 - amount * RAY /\ scaled * i = i * scaled
    BY <1>1, <1>2, UnitAssumption
  <2> QED
    BY <1>4, <2>1, <2>2
<1>7. amount * RAY \in Nat /\ i * scaled \in Nat
  BY <1>1, <1>2, TimesIsNat, UnitAssumption
<1>8. (tokens'[PoolVault] - tokens[PoolVault]) * RAY
        + (n - pool.total_borrowed) * i > 0 - i
  BY <1>1, <1>2, <1>6, <1>7
<1> QED
  BY <1>3, <1>4, <1>5, <1>8, LendingStepValue DEF i

\* A payment of `paid` tokens for `slice` scaled units.
LEMMA PaybackValue ==
    ASSUME ProtocolType, PoolType,
           pool.last_update_slot <= slot, pool.borrow_index >= RAY,
           NEW paid \in Nat, NEW slice \in Nat,
           slice <= pool.total_borrowed,
           pool' = [Accrued EXCEPT !.total_borrowed
                                     = Accrued.total_borrowed - slice],
           tokens'[PoolVault] = tokens[PoolVault] + paid,
           paid * RAY > slice * Accrued.borrow_index - Accrued.borrow_index
    PROVE  LossBounded
<1> DEFINE i == Accrued.borrow_index
<1>1. /\ i \in Nat
      /\ Accrued.total_borrowed = pool.total_borrowed
      /\ pool.total_borrowed \in Nat
      /\ tokens[PoolVault] \in Nat
      /\ RAY \in Nat
  BY AccrualFacts, UnitAssumption DEF PoolType, LendingPool, Holders
<1>2. pool' = [Accrued EXCEPT !.total_borrowed = pool.total_borrowed - slice]
  BY <1>1
<1>3. paid * RAY > slice * i - i
  OBVIOUS
<1> HIDE DEF i
<1>4. /\ (tokens'[PoolVault] - tokens[PoolVault]) * RAY = paid * RAY
      /\ (pool.total_borrowed - slice - pool.total_borrowed) * i
           = 0 - slice * i
  <2>1. /\ tokens'[PoolVault] - tokens[PoolVault] = paid
        /\ pool.total_borrowed - slice - pool.total_borrowed = 0 - slice
    BY <1>1
  <2>2. (0 - slice) * i = 0 - slice * i
    BY <1>1
  <2> QED
    BY <2>1, <2>2
<1>5. /\ pool.total_borrowed - slice \in Nat /\ tokens'[PoolVault] \in Nat
      /\ paid * RAY \in Nat /\ slice * i \in Nat
  BY <1>1, TimesIsNat
<1>6. (tokens'[PoolVault] - tokens[PoolVault]) * RAY
        + (pool.total_borrowed - slice - pool.total_borrowed) * i > 0 - i
  BY <1>1, <1>3, <1>4, <1>5
<1> QED
  BY <1>2, <1>5, <1>6, LendingStepValue DEF i

LEMMA QuietStepValue ==
    ASSUME PoolType, pool.borrow_index >= RAY, UNCHANGED <<pool, tokens>>
    PROVE  LossBounded
<1>1. /\ pool.borrow_index \in Nat /\ pool.borrow_index > 0
      /\ PoolValue \in Nat
  BY UnitAssumption, TimesIsNat DEF PoolType, LendingPool, Holders, PoolValue
<1>2. PoolValue' = PoolValue
  BY DEF PoolValue
<1> QED
  BY <1>1, <1>2 DEF LossBounded

\* The pool's administration costs it nothing.
LEMMA PoolStepValue ==
    ASSUME PoolType, pool.borrow_index >= RAY, PoolStep,
           ~pool.live => pool.total_borrowed = 0
    PROVE  LossBounded
<1>1. /\ tokens[PoolVault] \in Nat
      /\ pool.total_borrowed \in Nat
      /\ pool.borrow_index \in Nat
      /\ RAY \in Nat \ {0}
      /\ pool.borrow_index >= RAY
  BY UnitAssumption DEF PoolType, LendingPool, Holders
<1>2. PoolValue \in Nat
  BY <1>1, TimesIsNat DEF PoolValue
<1>3. /\ tokens'[PoolVault] = tokens[PoolVault]
      /\ \/ pool' = pool
         \/ /\ ~pool.live
            /\ \E liquidity \in Liquidities :
                 pool' = [live |-> TRUE, total_liquidity |-> liquidity,
                          total_borrowed |-> 0, borrow_index |-> RAY,
                          last_update_slot |-> slot]
  BY PoolStepFrame
<1>4. CASE pool' = pool
  <2>1. PoolValue' = PoolValue /\ pool'.borrow_index = pool.borrow_index
    BY <1>3, <1>4 DEF PoolValue
  <2> QED
    BY <1>1, <1>2, <2>1 DEF LossBounded
<1>5. CASE pool' # pool
  <2>1. /\ pool'.total_borrowed = 0 /\ pool'.borrow_index = RAY
        /\ pool.total_borrowed = 0
    BY <1>3, <1>5
  <2>2. 0 * pool.borrow_index = 0 /\ 0 * RAY = 0
    BY <1>1
  <2>3. PoolValue' = PoolValue
    BY <1>3, <2>1, <2>2 DEF PoolValue
  <2> QED
    BY <1>1, <1>2, <2>1, <2>3 DEF LossBounded
<1> QED
  BY <1>4, <1>5
=============================================================================
