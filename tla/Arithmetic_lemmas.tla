-------------------------- MODULE Arithmetic_lemmas ---------------------------
(***************************************************************************)
(* What the other proofs need of the arithmetic: bounds on the truncating  *)
(* divisions, for every value of the units and of the rates, and facts     *)
(* about SumOver, which is a natural number, moves with the one account    *)
(* that changes, and has every account as a part; and that the fields of   *)
(* an account, listed in its order, are read back as themselves.           *)
(***************************************************************************)
EXTENDS LendingMath, AccountSum, FiniteSetTheorems, TLAPS

----------------------------------------------------------------------------
(* Integer division and the order on products *)

LEMMA DivBounds ==
    ASSUME NEW n \in Nat, NEW d \in Nat \ {0}
    PROVE  /\ n \div d \in Nat
           /\ d * (n \div d) <= n
           /\ n < d * (n \div d) + d
  OBVIOUS

LEMMA DivMonotone ==
    ASSUME NEW n \in Nat, NEW m \in Nat, NEW d \in Nat \ {0}, n <= m
    PROVE  n \div d <= m \div d
  OBVIOUS

LEMMA TimesIsNat ==
    ASSUME NEW a \in Nat, NEW b \in Nat
    PROVE  a * b \in Nat
  OBVIOUS

LEMMA TimesMonotone ==
    ASSUME NEW a \in Nat, NEW b \in Nat, NEW k \in Nat, a <= b
    PROVE  /\ k * a <= k * b
           /\ a * k <= b * k
  OBVIOUS

LEMMA TimesCancel ==
    ASSUME NEW a \in Int, NEW b \in Int, NEW k \in Nat \ {0}, k * a <= k * b
    PROVE  a <= b
  OBVIOUS

----------------------------------------------------------------------------
(* Types *)

LEMMA ToScaledIsNat ==
    ASSUME NEW a \in Nat, NEW i \in Nat \ {0}
    PROVE  ToScaled(a, i) \in Nat
  BY DivBounds, TimesIsNat, UnitAssumption DEF ToScaled

LEMMA CurrentDebtIsNat ==
    ASSUME NEW s \in Nat, NEW i \in Nat
    PROVE  CurrentDebt(s, i) \in Nat
  BY DivBounds, TimesIsNat, UnitAssumption DEF CurrentDebt

LEMMA UtilisationIsNat ==
    ASSUME NEW b \in Nat, NEW l \in Nat \ {0}, NEW i \in Nat
    PROVE  Utilisation(b, l, i) \in Nat
<1>1. CurrentDebt(b, i) * BASIS_POINTS \in Nat
  BY CurrentDebtIsNat, TimesIsNat, UnitAssumption
<1>2. (CurrentDebt(b, i) * BASIS_POINTS) \div l \in Nat
  BY <1>1, DivBounds
<1> QED
  BY <1>2, UnitAssumption DEF Utilisation, Smaller

LEMMA AnnualRateIsNat ==
    ASSUME NEW b \in Nat, NEW l \in Nat \ {0}, NEW i \in Nat
    PROVE  AnnualRate(b, l, i) \in Nat
<1>1. RateSlopeBps * Utilisation(b, l, i) \in Nat
  BY UtilisationIsNat, TimesIsNat, RateAssumption
<1>2. (RateSlopeBps * Utilisation(b, l, i)) \div BASIS_POINTS \in Nat
  BY <1>1, DivBounds, UnitAssumption
<1> QED
  BY <1>2, RateAssumption DEF AnnualRate

LEMMA IndexGrowthIsNat ==
    ASSUME NEW b \in Nat, NEW l \in Nat, NEW i \in Nat, NEW e \in Nat
    PROVE  IndexGrowth(b, l, i, e) \in Nat
<1>1. CASE b = 0 \/ l = 0
  BY <1>1 DEF IndexGrowth
<1>2. CASE ~(b = 0 \/ l = 0)
  <2>1. AnnualRate(b, l, i) \in Nat
    BY <1>2, AnnualRateIsNat
  <2>2. i * AnnualRate(b, l, i) * e \in Nat
    BY <2>1, TimesIsNat
  <2>3. SLOTS_PER_YEAR * BASIS_POINTS \in Nat \ {0}
    BY UnitAssumption
  <2>4. (i * AnnualRate(b, l,
    i) * e) \div (SLOTS_PER_YEAR * BASIS_POINTS) \in Nat
    BY <2>2, <2>3, DivBounds
  <2> QED
    BY <1>2, <2>4 DEF IndexGrowth
<1> QED
  BY <1>1, <1>2

LEMMA CollateralWithBonusIsNat ==
    ASSUME NEW c \in Nat
    PROVE  CollateralWithBonus(c) \in Nat
<1>1. c * (BASIS_POINTS + BonusBps) \in Nat
  BY TimesIsNat, UnitAssumption, RateAssumption
<1> QED
  BY <1>1, DivBounds, UnitAssumption DEF CollateralWithBonus

----------------------------------------------------------------------------
(* Raw and scaled debt *)

\* to_scaled truncates by less than one scaled unit, worth index/RAY.
LEMMA ToScaledBounds ==
    ASSUME NEW a \in Nat, NEW i \in Nat \ {0}
    PROVE  /\ i * ToScaled(a, i) <= a * RAY
           /\ a * RAY < i * ToScaled(a, i) + i
  BY DivBounds, TimesIsNat, UnitAssumption DEF ToScaled

\* current_debt truncates by less than one raw unit.
LEMMA CurrentDebtBounds ==
    ASSUME NEW s \in Nat, NEW i \in Nat
    PROVE  /\ RAY * CurrentDebt(s, i) <= s * i
           /\ s * i < RAY * CurrentDebt(s, i) + RAY
  BY DivBounds, TimesIsNat, UnitAssumption DEF CurrentDebt

\* A loan read back from its scaled form is at most the loan, and short of it
\* by less than index/RAY + 1 units.
LEMMA RoundTripBounds ==
    ASSUME NEW a \in Nat, NEW i \in Nat \ {0}
    PROVE  LET d == CurrentDebt(ToScaled(a, i), i)
           IN  d <= a /\ (a - d) * RAY < i + RAY
<1> DEFINE s == ToScaled(a, i)
           d == CurrentDebt(s, i)
<1>1. s \in Nat /\ d \in Nat /\ RAY \in Nat \ {0}
  BY ToScaledIsNat, CurrentDebtIsNat, UnitAssumption
<1>2. i * s <= a * RAY /\ a * RAY < i * s + i
  BY ToScaledBounds
<1>3. RAY * d <= s * i /\ s * i < RAY * d + RAY
  BY <1>1, CurrentDebtBounds
<1> HIDE DEF s, d
<1>4. RAY * d <= RAY * a
  BY <1>1, <1>2, <1>3
<1>5. d <= a
  BY <1>1, <1>4, TimesCancel
<1>6. (a - d) * RAY < i + RAY
  BY <1>1, <1>2, <1>3
<1> QED
  BY <1>5, <1>6 DEF s, d

\* Less than the whole debt buys back less than the whole principal.
LEMMA PartialRepayBound ==
    ASSUME NEW s \in Nat, NEW i \in Nat \ {0}, NEW paid \in Nat,
           paid < CurrentDebt(s, i)
    PROVE  ToScaled(paid, i) < s
<1> DEFINE t == ToScaled(paid, i)
           owed == CurrentDebt(s, i)
<1>1. t \in Nat /\ owed \in Nat /\ RAY \in Nat \ {0}
  BY ToScaledIsNat, CurrentDebtIsNat, UnitAssumption
<1>2. i * t <= paid * RAY
  BY ToScaledBounds
<1>3. RAY * owed <= s * i
  BY CurrentDebtBounds
<1>4. paid < owed
  OBVIOUS
<1> HIDE DEF t, owed
<1>5. paid * RAY < RAY * owed
  BY <1>1, <1>4
<1>6. i * t < i * s
  BY <1>1, <1>2, <1>3, <1>5
<1>7. t < s
  BY <1>1, <1>6
<1> QED
  BY <1>7 DEF t

----------------------------------------------------------------------------
(* Sums *)

LEMMA UnitsFinite ==
    ASSUME NEW s, NEW n \in Nat
    PROVE  IsFiniteSet(Units(s, n)) /\ Cardinality(Units(s, n)) = n
<1> DEFINE One == {s}
           Numbers == 1..n
<1>1. IsFiniteSet(One) /\ Cardinality(One) = 1
  BY FS_Singleton
<1>2. IsFiniteSet(Numbers) /\ Cardinality(Numbers) = n
  BY FS_Interval
<1>3. Units(s, n) = One \X Numbers
  BY DEF Units
<1> HIDE DEF One, Numbers
<1>4. /\ IsFiniteSet(One \X Numbers)
      /\ Cardinality(One \X Numbers) = Cardinality(One) * Cardinality(Numbers)
  BY <1>1, <1>2, FS_Product, ZenonT(60)
<1>5. Cardinality(One) * Cardinality(Numbers) = 1 * n
  BY <1>1, <1>2, ZenonT(60)
<1>6. 1 * n = n
  OBVIOUS
<1> QED
  BY <1>3, <1>4, <1>5, <1>6, ZenonT(60)

LEMMA UnitsOfFinite ==
    ASSUME NEW S, IsFiniteSet(S), NEW f \in [S -> Nat]
    PROVE  IsFiniteSet(UnitsOf(S, f))
<1> DEFINE T == {Units(s, f[s]) : s \in S}
           g == [s \in S |-> Units(s, f[s])]
<1>1. g \in Surjection(S, T)
  BY DEF Surjection
<1>2. IsFiniteSet(T)
  BY <1>1, FS_Surjection
<1>3. \A U \in T : IsFiniteSet(U)
  BY UnitsFinite
<1>4. IsFiniteSet(UNION T)
  BY <1>2, <1>3, FS_UNION
<1> QED
  BY <1>4 DEF UnitsOf

\* A sum over accounts is a natural number.
LEMMA SumIsNat ==
    ASSUME NEW S, IsFiniteSet(S), NEW f \in [S -> Nat]
    PROVE  SumOver(S, f) \in Nat
  BY UnitsOfFinite, FS_CardinalityType DEF SumOver

\* Setting one account aside: the sum is what the others hold plus f[s].
LEMMA SumSplit ==
    ASSUME NEW S, IsFiniteSet(S), NEW f \in [S -> Nat], NEW s \in S
    PROVE  LET Rest == UNION {Units(t, f[t]) : t \in S \ {s}}
           IN  /\ Cardinality(Rest) \in Nat
               /\ SumOver(S, f) = Cardinality(Rest) + f[s]
<1> DEFINE Rest == UNION {Units(t, f[t]) : t \in S \ {s}}
           Own == Units(s, f[s])
<1>1. UnitsOf(S, f) = Rest \cup Own
  BY DEF UnitsOf
<1>2. Rest \cap Own = {}
  BY DEF Units
<1>3. IsFiniteSet(Rest)
  <2>1. Rest \in SUBSET UnitsOf(S, f)
    BY <1>1
  <2> QED
    BY <2>1, UnitsOfFinite, FS_Subset
<1>4. IsFiniteSet(Own) /\ Cardinality(Own) = f[s]
  BY UnitsFinite
<1>5. Cardinality(Rest) \in Nat
  BY <1>3, FS_CardinalityType
<1>6. Cardinality(Rest \cup Own)
        = Cardinality(Rest) + Cardinality(Own) - Cardinality(Rest \cap Own)
  BY <1>3, <1>4, FS_Union
<1>7. Cardinality(Rest \cap Own) = 0
  BY <1>2, FS_EmptySet
<1>8. SumOver(S, f) = Cardinality(Rest) + f[s]
  <2>1. f[s] \in Nat
    OBVIOUS
  <2> HIDE DEF Rest, Own
  <2> QED
    BY <1>1, <1>4, <1>5, <1>6, <1>7, <2>1 DEF SumOver
<1> QED
  BY <1>5, <1>8

\* When one account changes, the sum changes by exactly that much.
LEMMA SumUpdate ==
    ASSUME NEW S, IsFiniteSet(S),
           NEW f \in [S -> Nat], NEW g \in [S -> Nat], NEW s \in S,
           \A t \in S \ {s} : g[t] = f[t]
    PROVE  SumOver(S, g) = SumOver(S, f) - f[s] + g[s]
<1> DEFINE RestF == UNION {Units(t, f[t]) : t \in S \ {s}}
           RestG == UNION {Units(t, g[t]) : t \in S \ {s}}
<1>1. RestF = RestG
  <2>1. {Units(t, f[t]) : t \in S \ {s}} = {Units(t, g[t]) : t \in S \ {s}}
    OBVIOUS
  <2> QED
    BY <2>1
<1>2. Cardinality(RestF) \in Nat /\ SumOver(S, f) = Cardinality(RestF) + f[s]
  BY SumSplit
<1>3. SumOver(S, g) = Cardinality(RestG) + g[s]
  BY SumSplit
<1>4. f[s] \in Nat /\ g[s] \in Nat
  OBVIOUS
<1> HIDE DEF RestF, RestG
<1> QED
  BY <1>1, <1>2, <1>3, <1>4

\* No account holds more than the sum.
LEMMA SumCoversEach ==
    ASSUME NEW S, IsFiniteSet(S), NEW f \in [S -> Nat], NEW s \in S
    PROVE  f[s] <= SumOver(S, f)
<1> DEFINE Rest == UNION {Units(t, f[t]) : t \in S \ {s}}
<1>1. Cardinality(Rest) \in Nat /\ SumOver(S, f) = Cardinality(Rest) + f[s]
  BY SumSplit
<1>2. f[s] \in Nat
  OBVIOUS
<1> HIDE DEF Rest
<1> QED
  BY <1>1, <1>2

\* Empty accounts sum to nothing.
LEMMA SumOfZeros ==
    ASSUME NEW S, NEW f \in [S -> Nat], \A s \in S : f[s] = 0
    PROVE  SumOver(S, f) = 0
<1>1. \A s \in S : Units(s, f[s]) = {}
  BY DEF Units
<1>2. UnitsOf(S, f) = {}
  BY <1>1 DEF UnitsOf
<1> QED
  BY <1>2, FS_EmptySet DEF SumOver

\* A sum over more accounts is greater, if what is added is not nothing.
LEMMA SumGrows ==
    ASSUME NEW S, IsFiniteSet(S), NEW f \in [S -> Nat],
           NEW T \in SUBSET S, NEW g \in [T -> Nat], \A t \in T : g[t] = f[t],
           NEW s \in S \ T, f[s] > 0
    PROVE  SumOver(T, g) < SumOver(S, f)
<1>1. \A t \in T : Units(t, g[t]) = Units(t, f[t])
  OBVIOUS
<1>2. UnitsOf(T, g) \in SUBSET UnitsOf(S, f)
  BY <1>1 DEF UnitsOf
<1>3. <<s, 1>> \in UnitsOf(S, f)
  <2>1. <<s, 1>> \in Units(s, f[s])
    BY DEF Units
  <2> QED
    BY <2>1 DEF UnitsOf
<1>4. <<s, 1>> \notin UnitsOf(T, g)
  BY DEF UnitsOf, Units
<1>5. UnitsOf(T, g) # UnitsOf(S, f)
  BY <1>3, <1>4
<1>6. IsFiniteSet(UnitsOf(S, f))
  BY UnitsOfFinite
<1>7. /\ Cardinality(UnitsOf(T, g)) <= Cardinality(UnitsOf(S, f))
      /\ Cardinality(UnitsOf(T, g)) # Cardinality(UnitsOf(S, f))
  BY <1>2, <1>5, <1>6, FS_Subset
<1>8. IsFiniteSet(T)
  BY FS_Subset
<1>9. SumOver(T, g) \in Nat /\ SumOver(S, f) \in Nat
  BY <1>8, SumIsNat
<1> QED
  BY <1>7, <1>9 DEF SumOver

\* One more account adds what it holds.
LEMMA SumExtends ==
    ASSUME NEW S, IsFiniteSet(S), NEW f \in [S -> Nat], NEW s, s \notin S,
           NEW g \in [S \cup {s} -> Nat], \A t \in S : g[t] = f[t]
    PROVE  SumOver(S \cup {s}, g) = SumOver(S, f) + g[s]
<1> DEFINE All == S \cup {s}
           Rest == UNION {Units(t, g[t]) : t \in All \ {s}}
<1>1. IsFiniteSet(All)
  BY FS_AddElement
<1>2. All \ {s} = S
  OBVIOUS
<1>3. \A t \in S : Units(t, g[t]) = Units(t, f[t])
  OBVIOUS
<1>4. Rest = UnitsOf(S, f)
  BY <1>2, <1>3 DEF UnitsOf
<1>5. SumOver(All, g) = Cardinality(Rest) + g[s]
  BY <1>1, SumSplit
<1> QED
  BY <1>4, <1>5 DEF SumOver

----------------------------------------------------------------------------
(* Layouts of accounts.  A decoder that lists an account's fields in the   *)
(* program's order and widths reads every field at its own offset.         *)

Wires == INSTANCE Wire

\* A list of fields, each named once and at least a byte wide.
IsLayout(layout) ==
    /\ \E n \in Nat : DOMAIN layout = 1..n
    /\ \A i \in DOMAIN layout :
         layout[i] = <<layout[i][1], layout[i][2]>>
           /\ layout[i][2] \in Nat \ {0}
    /\ \A i, j \in DOMAIN layout : layout[i][1] = layout[j][1] => i = j

\* The instance's sums are the ones the lemmas on sums are about.
LEMMA SameSum == ASSUME NEW S, NEW f PROVE Wires!SumOver(S, f) = SumOver(S, f)
  BY DEF Wires!SumOver, SumOver, Wires!UnitsOf, UnitsOf, Wires!Units,
    Units, Wires!Cardinality, Cardinality, Wires!IsFiniteSet, IsFiniteSet

\* The first field starts at byte 0, each other one where its predecessor ends.
LEMMA FirstOffset == ASSUME NEW layout PROVE Wires!OffsetOf(layout, 1) = 0
<1> DEFINE F == 1..(1 - 1)
           w == [m \in F |-> layout[m][2]]
<1>1. F = {} /\ w \in [F -> Nat]
  OBVIOUS
<1>2. SumOver(F, w) = 0
  BY <1>1, SumOfZeros
<1> QED
  BY <1>2, SameSum DEF Wires!OffsetOf, Wires!BytesOf

LEMMA NextOffset ==
    ASSUME NEW layout, IsLayout(layout), NEW i \in DOMAIN layout
    PROVE  /\ Wires!OffsetOf(layout, i) \in Nat
           /\ Wires!OffsetOf(layout, i + 1)
                = Wires!OffsetOf(layout, i) + layout[i][2]
<1> DEFINE F(k) == 1..(k - 1)
           w(k) == [m \in F(k) |-> layout[m][2]]
<1>1. PICK n \in Nat : DOMAIN layout = 1..n
  BY DEF IsLayout
<1>2. i \in 1..n
  BY <1>1
<1>3. F(i + 1) = F(i) \cup {i} /\ i \notin F(i)
  BY <1>2
<1>4. F(i + 1) \subseteq DOMAIN layout /\ w(i + 1)[i] = layout[i][2]
  BY <1>1, <1>2, <1>3
<1>5. w(i) \in [F(i) -> Nat] /\ w(i + 1) \in [F(i) \cup {i} -> Nat]
  BY <1>3, <1>4 DEF IsLayout
<1>6. \A t \in F(i) : w(i + 1)[t] = w(i)[t]
  BY <1>3
<1>7. IsFiniteSet(F(i))
  BY <1>2, FS_Interval
<1>8. /\ SumOver(F(i), w(i)) \in Nat
      /\ SumOver(F(i + 1), w(i + 1)) = SumOver(F(i), w(i)) + w(i + 1)[i]
  <2>1. PICK T, f, g : T = F(i) /\ f = w(i) /\ g = w(i + 1)
    OBVIOUS
  <2>2. SumOver(T, f) \in Nat
    BY <1>5, <1>7, <2>1, SumIsNat
  <2>3. SumOver(T \cup {i}, g) = SumOver(T, f) + g[i]
    <3> HIDE DEF F, w
    <3> QED
      BY <1>3, <1>5, <1>6, <1>7, <2>1, SumExtends
  <2> HIDE DEF F, w
  <2> QED
    BY <1>3, <2>1, <2>2, <2>3
<1>9. /\ SumOver(F(i), w(i)) = Wires!OffsetOf(layout, i)
      /\ SumOver(F(i + 1), w(i + 1)) = Wires!OffsetOf(layout, i + 1)
  BY SameSum DEF Wires!OffsetOf, Wires!BytesOf
<1> QED
  BY <1>4, <1>8, <1>9

\* The whole account ends where a further field would start.
LEMMA BytesAreLastOffset ==
    ASSUME NEW layout, NEW n \in Nat, DOMAIN layout = 1..n
    PROVE  Wires!Bytes(layout) = Wires!OffsetOf(layout, n + 1)
<1>1. 1..((n + 1) - 1) = 1..n
  OBVIOUS
<1> QED
  BY <1>1 DEF Wires!Bytes, Wires!OffsetOf
\* Later fields start later.
LEMMA OffsetsGrow ==
    ASSUME NEW layout, IsLayout(layout),
           NEW i \in DOMAIN layout, NEW j \in DOMAIN layout, i < j
    PROVE  Wires!OffsetOf(layout, i) < Wires!OffsetOf(layout, j)
<1> DEFINE F(k) == 1..(k - 1)
           w(k) == [m \in F(k) |-> layout[m][2]]
<1>1. PICK n \in Nat : DOMAIN layout = 1..n
  BY DEF IsLayout
<1>2. i \in 1..n /\ j \in 1..n
  BY <1>1
<1>3. F(i) \in SUBSET F(j) /\ i \in F(j) \ F(i)
  BY <1>2
<1>4. F(j) \subseteq DOMAIN layout
  BY <1>1, <1>2
<1>5. w(i) \in [F(i) -> Nat] /\ w(j) \in [F(j) -> Nat] /\ w(j)[i] > 0
  BY <1>3, <1>4 DEF IsLayout
<1>6. \A t \in F(i) : w(i)[t] = w(j)[t]
  BY <1>3
<1>7. IsFiniteSet(F(j))
  BY <1>2, FS_Interval
<1>8. SumOver(F(i), w(i)) < SumOver(F(j), w(j))
  <2> HIDE DEF F, w
  <2> QED
    BY <1>3, <1>5, <1>6, <1>7, SumGrows
<1>9. SumOver(F(i), w(i)) = Wires!OffsetOf(layout, i)
        /\ SumOver(F(j), w(j)) = Wires!OffsetOf(layout, j)
  BY SameSum DEF Wires!OffsetOf, Wires!BytesOf
<1> QED
  BY <1>8, <1>9

\* No two fields start at the same byte, so each is read as itself.
LEMMA ReadsRight ==
    ASSUME NEW layout, IsLayout(layout), NEW i \in DOMAIN layout
    PROVE  Wires!Reads(layout, layout)[layout[i][1]] = layout[i][1]
<1> DEFINE name == layout[i][1]
           offset == Wires!OffsetOf(layout, i)
<1>1. name \in {layout[k][1] : k \in DOMAIN layout}
  OBVIOUS
<1>2. (CHOOSE k \in DOMAIN layout : layout[k][1] = name) = i
  BY DEF IsLayout
<1>3. Wires!Reads(layout, layout)[name]
        = Wires!FieldAt(layout, offset, layout[i][2])
  BY <1>1, <1>2 DEF Wires!Reads
<1>4. ASSUME NEW k \in DOMAIN layout, Wires!OffsetOf(layout, k) = offset
      PROVE  k = i
  <2>1. k \in Nat /\ i \in Nat
    BY DEF IsLayout
  <2>2. Wires!OffsetOf(layout, k) \in Nat
    BY NextOffset
  <2> QED
    BY <1>4, <2>1, <2>2, OffsetsGrow
<1>5. (CHOOSE k \in DOMAIN layout :
         Wires!OffsetOf(layout, k) = offset
           /\ layout[k][2] = layout[i][2]) = i
  BY <1>4
<1>6. Wires!FieldAt(layout, offset, layout[i][2]) = name
  BY <1>5 DEF Wires!FieldAt
<1> QED
  BY <1>3, <1>6

\* And the whole account is read back for what it is.
LEMMA ReadsItselfBack ==
    ASSUME NEW layout, IsLayout(layout)
    PROVE  Wires!ReadsBack(layout, layout)
<1>1. DOMAIN Wires!Reads(layout, layout)
        = {layout[k][1] : k \in DOMAIN layout}
  BY DEF Wires!Reads
<1> QED
  BY <1>1, ReadsRight DEF Wires!ReadsBack
===============================================================================
