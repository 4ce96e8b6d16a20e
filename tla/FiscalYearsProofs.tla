-------------------------- MODULE FiscalYearsProofs --------------------------
(***************************************************************************)
(* What an approved exercise decided and inherited stands; closed in order, *)
(* the exercises use no euro twice; a credit was paid as tax. For any       *)
(* exercises, amounts, thresholds and opening balances.                     *)
(***************************************************************************)
EXTENDS FiscalYears, SumLemmas

LEMMA ConstantsHave ==
    /\ Years \subseteq Nat /\ Results \subseteq Int /\ NonDeductibles \subseteq Int
    /\ Reserves \subseteq Nat /\ Dividends \subseteq Nat /\ Openings \subseteq Balance
    /\ None \notin Balance
    /\ ReducedCeiling \in Nat /\ ForwardCap \in Nat /\ BackCap \in Nat
BY FiscalYearsAssumption

(* What the row of a closed exercise holds.                                 *)
Row == [result : Int, nonDeductible : Int, imputed : Nat, tax : Int, carriedBack : Nat,
        credit : Int, net : Int, reserve : Nat, dividends : Nat, retained : Int,
        approved : BOOLEAN]
TypeInv ==
    /\ opening \in Balance \cup {None}
    /\ Closed \subseteq Years /\ IsFiniteSet(Closed)
    /\ \A y \in Closed : years[y] \in Row
    /\ late \in BOOLEAN

(* The tax of an exercise is that of what it earned and did not impute.     *)
TaxIsOfProfit ==
    \A y \in Closed :
        years[y].tax = CorporateIncomeTax((years[y].result + Most(0, years[y].nonDeductible))
                                            - years[y].imputed)

Inv == TypeInv /\ TaxIsOfProfit /\ CreditWasPaid /\ InheritedOnce

----------------------------------------------------------------------------
(* Rates, taxes and losses.                                                 *)

(* A share of the part f of p, in the proportion of m to p, leaves no more  *)
(* of m than there is of the rest of p.                                     *)
LEMMA ShareOf ==
    ASSUME NEW p \in Nat, p > 0, NEW f \in 0..p, NEW m \in 0..p
    PROVE  LET q == (f * m) \div p
           IN  q \in 0..f /\ q <= m /\ m - q <= p - f
<1> DEFINE q == (f * m) \div p
<1>0. f * m \in Nat
  OBVIOUS
<1>1. q \in Int /\ q * p <= f * m /\ f * m < (q + 1) * p
  BY <1>0
<1>2. q >= 0
  BY <1>0
<1> HIDE DEF q
<1>3. q <= f
  <2>1. f * m <= f * p
    OBVIOUS
  <2>2. q * p <= f * p
    BY <1>1, <2>1, <1>0
  <2> QED
    BY <1>1, <2>2
<1>4. q <= m
  <2>1. f * m <= m * p
    OBVIOUS
  <2>2. q * p <= m * p
    BY <1>1, <2>1, <1>0
  <2> QED
    BY <1>1, <2>2
<1>5. m + f - p <= q
  <2>1. (p - f) * (p - m) >= 0
    OBVIOUS
  <2>2. (p - f) * (p - m) = p * p - p * m - f * p + f * m
    OBVIOUS
  <2>3. (m + f - p) * p = p * m + f * p - p * p
    OBVIOUS
  <2>4. (m + f - p) * p < (q + 1) * p
    BY <1>0, <1>1, <2>1, <2>2, <2>3
  <2>5. m + f - p < q + 1
    BY <1>1, <2>4
  <2> QED
    BY <1>1, <2>5
<1> QED
  BY <1>1, <1>2, <1>3, <1>4, <1>5 DEF q

(* What the rounding of a rate and of a tax may take or give.               *)
LEMMA RateIsNear ==
    ASSUME NEW a \in Nat, NEW bps \in {1500, 2500}
    PROVE  /\ ApplyRate(a, bps) \in Int
           /\ ApplyRate(a, bps) * 10000 <= a * bps + 5000
           /\ a * bps - 5000 <= ApplyRate(a, bps) * 10000
<1>1. a * bps \in Nat
  OBVIOUS
<1> DEFINE cents == (a * bps) \div 10000
           rest == (a * bps) % 10000
<1>2. cents \in Int /\ rest \in 0..9999 /\ a * bps = cents * 10000 + rest
  BY <1>1
<1>3. \/ ApplyRate(a, bps) = cents /\ rest <= 5000
      \/ ApplyRate(a, bps) = cents + 1 /\ rest >= 5000
  BY <1>2 DEF ApplyRate
<1> QED
  BY <1>1, <1>2, <1>3

LEMMA ReducedRateIsNear ==
    ASSUME NEW a \in Nat
    PROVE  /\ ApplyRate(a, 1500) \in Int
           /\ ApplyRate(a, 1500) * 10000 <= a * 1500 + 5000
           /\ a * 1500 - 5000 <= ApplyRate(a, 1500) * 10000
<1>1. 1500 \in {1500, 2500}
  OBVIOUS
<1> QED
  BY <1>1, RateIsNear

LEMMA NormalRateIsNear ==
    ASSUME NEW a \in Nat
    PROVE  /\ ApplyRate(a, 2500) \in Int
           /\ ApplyRate(a, 2500) * 10000 <= a * 2500 + 5000
           /\ a * 2500 - 5000 <= ApplyRate(a, 2500) * 10000
<1>1. 2500 \in {1500, 2500}
  OBVIOUS
<1> QED
  BY <1>1, RateIsNear

LEMMA EuroIsNear ==
    ASSUME NEW a \in Nat
    PROVE  RoundToEuro(a) \in Nat /\ RoundToEuro(a) <= a + 50 /\ a - 50 <= RoundToEuro(a)
BY DEF RoundToEuro

LEMMA HalfIsLess ==
    ASSUME NEW a \in Nat
    PROVE  ApplyRate(a, 5000) \in 0..a
<1> DEFINE cents == (a * 5000) \div 10000
           rest == (a * 5000) % 10000
<1>1. cents \in Int /\ rest \in 0..9999 /\ a * 5000 = cents * 10000 + rest
  OBVIOUS
<1>2. \/ ApplyRate(a, 5000) = cents
      \/ ApplyRate(a, 5000) = cents + 1 /\ rest >= 5000 /\ (rest = 5000 => cents % 2 = 1)
  BY <1>1 DEF ApplyRate
<1> QED
  BY <1>1, <1>2

(* What is imputed is within the losses there are, and within the profit.   *)
LEMMA ImputedWithin ==
    ASSUME NEW profit \in Int, NEW available \in Int
    PROVE  /\ Imputed(profit, available) \in Nat
           /\ Imputed(profit, available) <= Most(0, profit)
           /\ Imputed(profit, available) <= Most(0, available)
<1>1. CASE profit <= 0
  BY <1>1 DEF Imputed, Most
<1>2. CASE profit > 0
  <2>1. ForwardCeiling(profit) \in 0..profit
    <3>1. CASE profit <= ForwardCap
      BY <1>2, <3>1 DEF ForwardCeiling, Most
    <3>2. CASE profit > ForwardCap
      <4> DEFINE over == profit - ForwardCap
      <4>1. over \in Nat
        BY <3>2, ConstantsHave
      <4> HIDE DEF over
      <4>2. ApplyRate(over, 5000) \in 0..over
        BY <4>1, HalfIsLess
      <4>3. ForwardCeiling(profit) = ForwardCap + ApplyRate(over, 5000)
        BY <3>2, ConstantsHave DEF ForwardCeiling, over
      <4> QED
        BY <4>1, <4>2, <4>3, ConstantsHave DEF over
    <3> QED BY <3>1, <3>2, ConstantsHave
  <2>2. Imputed(profit, available) = Least(Most(0, available), ForwardCeiling(profit))
    BY <1>2 DEF Imputed
  <2> QED
    BY <1>2, <2>1, <2>2 DEF Least, Most
<1> QED
  BY <1>1, <1>2

LEMMA TaxIsInt == ASSUME NEW taxable \in Int PROVE CorporateIncomeTax(taxable) \in Int
<1> DEFINE base == Most(0, RoundToEuro(taxable))
           low == Least(base, ReducedCeiling)
           high == Most(0, base - ReducedCeiling)
           raw == ApplyRate(low, 1500) + ApplyRate(high, 2500)
<1>1. base \in Nat
  BY DEF RoundToEuro, Most
<1>2. low \in Nat /\ high \in Nat
  <2> HIDE DEF base
  <2> QED BY <1>1, ConstantsHave DEF Least, Most
<1> HIDE DEF low, high
<1>3. ApplyRate(low, 1500) \in Int /\ ApplyRate(high, 2500) \in Int
  BY <1>2, ReducedRateIsNear, NormalRateIsNear
<1>4. raw \in Int
  BY <1>3
<1>5. CorporateIncomeTax(taxable) = RoundToEuro(raw)
  BY DEF CorporateIncomeTax, low, high
<1> HIDE DEF raw
<1> QED
  BY <1>4, <1>5 DEF RoundToEuro

(* A profit and a rounded one, split at the ceiling of the reduced rate:     *)
(* what the two rates take of them is near.                                 *)
LEMMA SplitIsNear ==
    ASSUME NEW profit \in Nat, NEW base \in Nat, NEW ceiling \in Nat,
           NEW f \in Nat, NEW low \in Nat, NEW high \in Nat,
           profit - 50 <= base, low + high = base, low <= ceiling,
           f <= profit, f = profit \/ f = ceiling
    PROVE  (profit - f) * 2500 + f * 1500 - 125000 <= high * 2500 + low * 1500
<1>1. high = base - low
  OBVIOUS
<1>2. CASE f >= low
  BY <1>1, <1>2
<1>3. CASE f < low
  <2>1. f = profit
    BY <1>3
  <2> QED
    BY <1>1, <2>1
<1> QED
  BY <1>2, <1>3

(* A tax is at least that of a smaller profit without roundings, less what  *)
(* these may take; f is the part of that profit at the reduced rate.        *)
LEMMA TaxIsNear ==
    ASSUME NEW taxable \in Int, NEW profit \in Nat, profit <= taxable,
           NEW f \in Nat, f = Least(profit, ReducedCeiling)
    PROVE  (profit - f) * 2500 + f * 1500 - 645000 <= CorporateIncomeTax(taxable) * 10000
<1> DEFINE base == Most(0, RoundToEuro(taxable))
           low == Least(base, ReducedCeiling)
           high == Most(0, base - ReducedCeiling)
           raw == ApplyRate(low, 1500) + ApplyRate(high, 2500)
<1>1. base \in Nat /\ profit - 50 <= base
  BY EuroIsNear DEF Most
<1>2. low \in Nat /\ high \in Nat /\ low + high = base
        /\ (profit - f) * 2500 + f * 1500 - 125000 <= high * 2500 + low * 1500
  <2> HIDE DEF base
  <2>1. low \in Nat /\ high \in Nat /\ low + high = base /\ low <= ReducedCeiling
          /\ (low = base \/ low = ReducedCeiling)
    BY <1>1, ConstantsHave DEF Least, Most
  <2>2. f <= ReducedCeiling /\ f <= profit /\ f \in Nat
          /\ (f = profit \/ f = ReducedCeiling)
    BY ConstantsHave DEF Least
  <2>3. profit \in Nat /\ ReducedCeiling \in Nat
    BY ConstantsHave
  <2> HIDE DEF low, high
  <2> QED
    BY <1>1, <2>1, <2>2, <2>3, SplitIsNear
<1> HIDE DEF base, low, high
<1>3. ApplyRate(low, 1500) \in Int /\ low * 1500 - 5000 <= ApplyRate(low, 1500) * 10000
  BY <1>2, ReducedRateIsNear, SMTT(90)
<1>4. ApplyRate(high, 2500) \in Int /\ high * 2500 - 5000 <= ApplyRate(high, 2500) * 10000
  BY <1>2, NormalRateIsNear, SMTT(90)
<1>5. raw \in Int /\ high * 2500 + low * 1500 - 10000 <= raw * 10000
  <2> DEFINE a == ApplyRate(low, 1500)
             b == ApplyRate(high, 2500)
  <2>1. a \in Int /\ b \in Int /\ raw = a + b
    BY <1>3, <1>4
  <2>2. low * 1500 - 5000 <= a * 10000 /\ high * 2500 - 5000 <= b * 10000
    BY <1>3, <1>4
  <2> HIDE DEF a, b, raw
  <2> QED
    BY <1>2, <2>1, <2>2
<1>6. CorporateIncomeTax(taxable) = RoundToEuro(raw)
  BY DEF CorporateIncomeTax, base, low, high
<1> HIDE DEF raw
<1>7. RoundToEuro(raw) \in Int /\ raw - 50 <= RoundToEuro(raw)
  BY <1>5 DEF RoundToEuro
<1> QED
  BY <1>2, <1>5, <1>6, <1>7

(* What a loss carried back is, and what its credit may be.                 *)
LEMMA CarryBackWithin ==
    ASSUME NEW deficit \in Int, NEW profit \in Int, NEW distributed \in Nat
    PROVE  LET carry == CarryBack(deficit, profit, distributed)
               f == Least(profit, ReducedCeiling)
           IN  /\ carry.imputed \in Nat /\ carry.credit \in Int
               /\ carry.imputed <= Most(0, deficit)
               /\ carry.imputed # 0 =>
                    /\ profit > 0 /\ carry.imputed <= profit - distributed
                    /\ carry.credit * 10000 <= (profit - f) * 2500 + f * 1500 + 10000
<1> DEFINE carry == CarryBack(deficit, profit, distributed)
           imputable == Most(0, profit - Most(0, distributed))
           capped == Least(Least(deficit, BackCap), imputable)
           f == Least(profit, ReducedCeiling)
           share == (f * imputable) \div profit
           onNormal == Least(capped, imputable - share)
           onReduced == Least(capped - onNormal, share)
<1>1. CASE deficit <= 0 \/ profit <= 0
  BY <1>1 DEF CarryBack, Most
<1>2. CASE deficit > 0 /\ profit > 0
  <2>1. carry.imputed = onNormal + onReduced
          /\ carry.credit = ApplyRate(onNormal, 2500) + ApplyRate(onReduced, 1500)
    BY <1>2 DEF CarryBack
  <2>2. f \in 0..profit /\ imputable \in 0..profit
          /\ (imputable = 0 \/ imputable = profit - distributed)
    BY <1>2, ConstantsHave DEF Least, Most
  <2>3. share \in 0..f /\ share <= imputable /\ imputable - share <= profit - f
    BY <1>2, <2>2, ShareOf
  <2> HIDE DEF share, f, imputable, carry
  <2>4. capped \in 0..imputable /\ capped <= deficit
    BY <1>2, <2>2, ConstantsHave DEF Least
  <2> HIDE DEF capped
  <2>5. /\ onNormal \in 0..(profit - f) /\ onReduced \in 0..f
        /\ onNormal + onReduced <= capped
    BY <2>2, <2>3, <2>4 DEF Least
  <2> HIDE DEF onNormal, onReduced
  <2>6. onNormal \in Nat /\ onReduced \in Nat /\ onNormal <= profit - f /\ onReduced <= f
    BY <2>2, <2>5
  <2>7. /\ ApplyRate(onNormal, 2500) \in Int
        /\ ApplyRate(onNormal, 2500) * 10000 <= onNormal * 2500 + 5000
    BY <2>6, NormalRateIsNear
  <2>8. /\ ApplyRate(onReduced, 1500) \in Int
        /\ ApplyRate(onReduced, 1500) * 10000 <= onReduced * 1500 + 5000
    BY <2>6, ReducedRateIsNear
  <2>9. carry.imputed \in Nat /\ carry.imputed <= capped /\ carry.credit \in Int
    BY <2>1, <2>5, <2>6, <2>7, <2>8
  <2>10. carry.imputed <= Most(0, deficit)
    BY <1>2, <2>2, <2>4, <2>9 DEF Most
  <2>11. carry.imputed # 0 => carry.imputed <= profit - distributed
    BY <1>2, <2>2, <2>4, <2>9
  <2>12. carry.credit * 10000 <= (profit - f) * 2500 + f * 1500 + 10000
    BY <1>2, <2>1, <2>2, <2>6, <2>7, <2>8
  <2> QED
    BY <1>2, <2>9, <2>10, <2>11, <2>12 DEF carry, f
<1> QED
  BY <1>1, <1>2

(* Whatever the loss, the profit of the year before, its dividends and the  *)
(* thresholds, a loss carried back stays within what the dividends left of  *)
(* the profit, and its credit within the tax of that profit or of a larger  *)
(* one, to the euro the roundings may take (accounting.rs, carry_back).     *)
THEOREM CarryBackWithinTax ==
    ASSUME NEW deficit \in Int, NEW profit \in Int, NEW distributed \in Nat,
           NEW taxable \in Int, profit <= taxable
    PROVE  LET carry == CarryBack(deficit, profit, distributed)
           IN  carry.imputed # 0 =>
                 /\ carry.imputed <= profit - distributed
                 /\ carry.credit <= CorporateIncomeTax(taxable) + 100
<1> DEFINE carry == CarryBack(deficit, profit, distributed)
           f == Least(profit, ReducedCeiling)
<1> SUFFICES ASSUME carry.imputed # 0
             PROVE  /\ carry.imputed <= profit - distributed
                    /\ carry.credit <= CorporateIncomeTax(taxable) + 100
  OBVIOUS
<1>1. /\ carry.credit \in Int /\ profit > 0 /\ carry.imputed <= profit - distributed
      /\ carry.credit * 10000 <= (profit - f) * 2500 + f * 1500 + 10000
  BY CarryBackWithin
<1>2. f \in Nat /\ f <= profit
  BY <1>1, ConstantsHave DEF Least
<1>3. f = Least(profit, ReducedCeiling)
  OBVIOUS
<1> HIDE DEF carry, f
<1>4. (profit - f) * 2500 + f * 1500 - 645000 <= CorporateIncomeTax(taxable) * 10000
  BY <1>1, <1>2, <1>3, TaxIsNear
<1>5. CorporateIncomeTax(taxable) \in Int
  BY TaxIsInt
<1> QED
  BY <1>1, <1>2, <1>4, <1>5
----------------------------------------------------------------------------
(* What an exercise inherits.                                               *)

LEMMA MaxIsIn ==
    ASSUME NEW S, IsFiniteSet(S), S # {}
    PROVE  S \subseteq Int => Max(S) \in S /\ \A z \in S : z <= Max(S)
<1> DEFINE bad == {s \in SUBSET S : s # {} /\ ~\E m \in s : \A z \in s : z <= m}
<1>0. bad # {} => \E s \in bad : \A t \in bad : t \subseteq s => t = s
  <2>1. bad \subseteq SUBSET S
    OBVIOUS
  <2> HIDE DEF bad
  <2> QED BY <2>1, SmallestSubset
<1> SUFFICES ASSUME S \subseteq Int PROVE Max(S) \in S /\ \A z \in S : z <= Max(S)
  OBVIOUS
<1>1. bad = {}
  <2> SUFFICES ASSUME bad # {} PROVE FALSE
    OBVIOUS
  <2>1. PICK s \in bad : \A t \in bad : t \subseteq s => t = s
    BY <1>0, Zenon
  <2>2. PICK x \in s : TRUE
    BY <2>1
  <2>3. x \in Int /\ s \subseteq Int
    BY <2>1
  <2>4. CASE s = {x}
    BY <2>1, <2>3, <2>4
  <2>5. CASE s # {x}
    <3>1. s \ {x} # {} /\ s \ {x} # s /\ s \ {x} \subseteq s
      BY <2>2, <2>5
    <3>2. PICK m \in s \ {x} : \A z \in s \ {x} : z <= m
      BY <2>1, <3>1
    <3>3. m \in Int /\ x \in Int
      BY <2>3, <3>2
    <3>4. \E n \in {m, x} : \A z \in s : z <= n
      BY <2>3, <3>2, <3>3
    <3> QED
      BY <2>1, <3>4
  <2> QED
    BY <2>4, <2>5
<1>2. \E m \in S : \A z \in S : z <= m
  BY <1>1
<1> QED
  BY <1>2 DEF Max

LEMMA BeforeHas ==
    ASSUME TypeInv, NEW y \in Nat
    PROVE  /\ Before(y) \subseteq Closed /\ Closed \subseteq Nat
           /\ IsFiniteSet(Before(y)) /\ IsFiniteSet(Through(y))
           /\ Before(y + 1) = Through(y)
           /\ Through(y) = IF y \in Closed THEN Before(y) \cup {y} ELSE Before(y)
           /\ Before(y) # {} =>
                /\ Max(Before(y)) \in Before(y)
                /\ Through(Max(Before(y))) = Before(y)
<1>1. Closed \subseteq Nat
  BY ConstantsHave DEF TypeInv
<1>2. Before(y) \subseteq Closed /\ Through(y) \subseteq Closed
  BY DEF Before, Through
<1>3. IsFiniteSet(Before(y)) /\ IsFiniteSet(Through(y))
  BY <1>2, FS_Subset DEF TypeInv
<1>4. Before(y + 1) = Through(y)
  <2>1. \A z \in Nat : z < y + 1 <=> z <= y
    OBVIOUS
  <2> QED BY <1>1, <2>1, Zenon DEF Before, Through
<1>5. Through(y) = IF y \in Closed THEN Before(y) \cup {y} ELSE Before(y)
  <2>1. \A z \in Nat : z <= y <=> z < y \/ z = y
    OBVIOUS
  <2>2. \A z \in Closed : z <= y <=> z < y \/ z = y
    BY <1>1, <2>1
  <2>3. CASE y \in Closed
    BY <2>2, <2>3 DEF Before, Through
  <2>4. CASE y \notin Closed
    BY <2>2, <2>4 DEF Before, Through
  <2> QED BY <2>3, <2>4
<1>6. ASSUME Before(y) # {}
      PROVE  Max(Before(y)) \in Before(y) /\ Through(Max(Before(y))) = Before(y)
  <2> DEFINE m == Max(Before(y))
  <2>1. Before(y) \subseteq Int
    <3>1. Nat \subseteq Int
      OBVIOUS
    <3> QED BY <1>1, <1>2, <3>1, Zenon
  <2>2. m \in Before(y) /\ \A z \in Before(y) : z <= m
    BY <1>3, <1>6, <2>1, MaxIsIn
  <2> HIDE DEF m
  <2>3. m \in Nat /\ m < y
    BY <1>1, <2>2 DEF Before
  <2>4. \A z \in Nat : z <= m => z < y
    BY <2>3
  <2>5. \A z \in Closed : z <= m <=> z < y
    BY <1>1, <2>2, <2>4, Zenon DEF Before
  <2>6. Through(m) = Before(y)
    BY <2>5 DEF Through, Before
  <2> QED
    BY <2>2, <2>6 DEF m
<1> QED
  BY <1>1, <1>2, <1>3, <1>4, <1>5, <1>6

(* The amounts that are added up.                                           *)
Reserved == [z \in Closed |-> years[z].reserve]
LossLeft == [z \in Closed |-> Most(0, -years[z].result) - years[z].carriedBack - years[z].imputed]
Used == [z \in Closed |-> years[z].reserve + years[z].dividends]
Earned == [z \in Closed |-> years[z].net]

LEMMA AmountsAreInts ==
    ASSUME TypeInv, NEW z \in Closed
    PROVE  /\ Reserved[z] \in Int /\ LossLeft[z] \in Int /\ Used[z] \in Int /\ Earned[z] \in Int
           /\ Reserved[z] = years[z].reserve /\ Earned[z] = years[z].net
           /\ Used[z] = years[z].reserve + years[z].dividends
           /\ LossLeft[z] = Most(0, -years[z].result) - years[z].carriedBack - years[z].imputed
BY DEF TypeInv, Row, Reserved, LossLeft, Used, Earned, Most

LEMMA OpeningIsInts ==
    ASSUME TypeInv
    PROVE  /\ FromOpening("retained") \in Int /\ FromOpening("reserve") \in Int
           /\ FromOpening("losses") \in Nat
BY DEF TypeInv, Balance, FromOpening

LEMMA PriorsAreInts ==
    ASSUME TypeInv, NEW y \in Nat
    PROVE  PriorRetained(y) \in Int /\ PriorReserve(y) \in Int /\ PriorLosses(y) \in Int
<1>1. Before(y) \subseteq Closed /\ IsFiniteSet(Before(y))
        /\ (Before(y) # {} => Max(Before(y)) \in Before(y))
  BY BeforeHas
<1>2. PriorRetained(y) \in Int
  <2>1. CASE Before(y) = {}
    BY <2>1, OpeningIsInts DEF PriorRetained
  <2>2. CASE Before(y) # {}
    <3>1. years[Max(Before(y))] \in Row
      BY <1>1, <2>2 DEF TypeInv
    <3> QED
      BY <2>2, <3>1 DEF PriorRetained, Row
  <2> QED BY <2>1, <2>2
<1>3. /\ \A z \in Before(y) : Reserved[z] \in Int
      /\ \A z \in Before(y) : LossLeft[z] \in Int
  BY <1>1, AmountsAreInts
<1>4. SumFunctionOnSet(Reserved, Before(y)) \in Int
  BY <1>1, <1>3, SumIsInt
<1>5. SumFunctionOnSet(LossLeft, Before(y)) \in Int
  BY <1>1, <1>3, SumIsInt
<1> QED
  BY <1>2, <1>4, <1>5, OpeningIsInts
     DEF PriorReserve, PriorLosses, LossesFromClosedYears, Reserved, LossLeft

(* What a closing writes.                                                   *)
LEMMA ExerciseIs ==
    ASSUME TypeInv, TaxIsOfProfit, NEW y \in Years, NEW r \in Results, NEW n \in NonDeductibles,
           NEW back \in BOOLEAN, NEW reserve \in Reserves, NEW dividends \in Dividends,
           NEW x, x = Exercise(y, r, n, back, reserve, dividends)
    PROVE  /\ x \in Row
           /\ x.tax = CorporateIncomeTax((x.result + Most(0, x.nonDeductible)) - x.imputed)
           /\ x.retained = RetainedAfter(y, x.net, reserve, dividends)
           /\ x.reserve = reserve /\ x.dividends = dividends
           /\ PriorLosses(y) >= 0 =>
                PriorLosses(y) + (Most(0, -x.result) - x.carriedBack - x.imputed) >= 0
           /\ x.carriedBack # 0 =>
                /\ y - 1 \in Closed
                /\ x.carriedBack <= TaxableResult(y - 1) - years[y - 1].dividends
                /\ x.credit <= years[y - 1].tax + 100
<1> DEFINE base == r + Most(0, n)
           imputed == Imputed(base, PriorLosses(y))
           tax == CorporateIncomeTax(base - imputed)
           carry == CarriedBack(y, imputed - base, back)
           net == r - tax + carry.credit
<1>1. r \in Int /\ n \in Int /\ reserve \in Nat /\ dividends \in Nat /\ y \in Nat
  BY ConstantsHave
<1>2. /\ x.result = r /\ x.nonDeductible = n /\ x.imputed = imputed /\ x.tax = tax
      /\ x.carriedBack = carry.imputed /\ x.credit = carry.credit /\ x.net = net
      /\ x.reserve = reserve /\ x.dividends = dividends
      /\ x.retained = RetainedAfter(y, net, reserve, dividends) /\ x.approved = FALSE
  BY DEF Exercise
<1>3. PriorRetained(y) \in Int /\ PriorLosses(y) \in Int
  BY <1>1, PriorsAreInts
<1>4. base \in Int /\ base >= r
  BY <1>1 DEF Most
<1> HIDE DEF base
<1>5. imputed \in Nat /\ imputed <= Most(0, base) /\ imputed <= Most(0, PriorLosses(y))
  BY <1>3, <1>4, ImputedWithin
<1> HIDE DEF imputed
<1>6. base - imputed \in Int /\ imputed - base \in Int
  BY <1>4, <1>5
<1>7. tax \in Int
  BY <1>6, TaxIsInt
<1>8. /\ carry.imputed \in Nat /\ carry.credit \in Int
      /\ carry.imputed <= Most(0, imputed - base)
      /\ carry.imputed # 0 =>
           /\ y - 1 \in Closed
           /\ carry.imputed <= TaxableResult(y - 1) - years[y - 1].dividends
           /\ carry.credit <= years[y - 1].tax + 100
  <2> DEFINE d == imputed - base
  <2>1. CASE back /\ y - 1 \in Closed
    <3> DEFINE z == y - 1
               profit == TaxableResult(z)
               taxable == (years[z].result + Most(0, years[z].nonDeductible)) - years[z].imputed
               distributed == years[z].dividends
    <3>1. years[z] \in Row /\ years[z].tax = CorporateIncomeTax(taxable)
      BY <2>1 DEF TypeInv, TaxIsOfProfit
    <3> HIDE DEF z
    <3>2. profit \in Int /\ taxable \in Int /\ profit <= taxable /\ distributed \in Nat
      BY <3>1 DEF TaxableResult, Row, Most
    <3>3. carry = CarryBack(d, profit, distributed)
      BY <2>1 DEF CarriedBack, z
    <3> HIDE DEF carry, d, profit, taxable, distributed
    <3>4. d \in Int
      BY <1>6 DEF d
    <3>5. carry.imputed \in Nat /\ carry.credit \in Int /\ carry.imputed <= Most(0, d)
      BY <3>2, <3>3, <3>4, CarryBackWithin
    <3>6. carry.imputed # 0 => /\ carry.imputed <= profit - distributed
                               /\ carry.credit <= CorporateIncomeTax(taxable) + 100
      BY <3>2, <3>3, <3>4, CarryBackWithinTax
    <3> QED
      BY <2>1, <3>1, <3>5, <3>6 DEF d, profit, distributed, z
  <2>2. CASE ~(back /\ y - 1 \in Closed)
    <3>1. carry = [imputed |-> 0, credit |-> 0]
      BY <2>2 DEF CarriedBack
    <3> HIDE DEF carry
    <3> QED
      BY <1>6, <3>1 DEF Most
  <2> QED BY <2>1, <2>2
<1> HIDE DEF carry, tax
<1>9. net \in Int /\ RetainedAfter(y, net, reserve, dividends) \in Int
  BY <1>1, <1>3, <1>7, <1>8 DEF RetainedAfter
<1>10. x \in Row
  <2>1. x = [result |-> r, nonDeductible |-> n, imputed |-> imputed, tax |-> tax,
         carriedBack |-> carry.imputed, credit |-> carry.credit, net |-> net,
         reserve |-> reserve, dividends |-> dividends,
         retained |-> RetainedAfter(y, net, reserve, dividends), approved |-> FALSE]
    BY DEF Exercise, base, imputed, tax, carry, net
  <2> HIDE DEF net
  <2> QED
    BY <1>1, <1>5, <1>7, <1>8, <1>9, <2>1 DEF Row
<1>11. PriorLosses(y) >= 0 =>
         PriorLosses(y) + (Most(0, -r) - carry.imputed - imputed) >= 0
  BY <1>1, <1>3, <1>4, <1>5, <1>8 DEF Most
<1>12. x.tax = CorporateIncomeTax((x.result + Most(0, x.nonDeductible)) - x.imputed)
  <2>1. x.result + Most(0, x.nonDeductible) = base
    BY <1>2 DEF base
  <2>2. x.tax = CorporateIncomeTax(base - imputed)
    BY <1>2 DEF tax
  <2>3. x.imputed = imputed
    BY <1>2
  <2> HIDE DEF tax, base, imputed
  <2> QED BY <2>1, <2>2, <2>3, Zenon
<1>13. PriorLosses(y) >= 0 =>
         PriorLosses(y) + (Most(0, -x.result) - x.carriedBack - x.imputed) >= 0
  BY <1>2, <1>11
<1>14. x.carriedBack # 0 =>
         /\ y - 1 \in Closed
         /\ x.carriedBack <= TaxableResult(y - 1) - years[y - 1].dividends
         /\ x.credit <= years[y - 1].tax + 100
  BY <1>2, <1>8
<1> QED
  BY <1>2, <1>10, <1>12, <1>13, <1>14

----------------------------------------------------------------------------
(* Types.                                                                   *)

LEMMA TypeInit == Init => TypeInv
<1> SUFFICES ASSUME Init PROVE TypeInv
  OBVIOUS
<1>1. Closed = {}
  BY DEF Init, Closed
<1> QED
  BY <1>1, FS_EmptySet DEF Init, TypeInv

LEMMA TypeStep == TypeInv /\ TaxIsOfProfit /\ [Next]_vars => TypeInv'
<1> SUFFICES ASSUME TypeInv, TaxIsOfProfit, [Next]_vars PROVE TypeInv'
  OBVIOUS
<1>1. ASSUME NEW y \in Years, NEW r \in Results, NEW n \in NonDeductibles, NEW b \in BOOLEAN,
             NEW reserve \in Reserves, NEW dividends \in Dividends,
             CloseFiscalYear(y, r, n, b, reserve, dividends)
      PROVE  TypeInv'
  <2> DEFINE x == Exercise(y, r, n, b, reserve, dividends)
  <2>1. x \in Row
    BY <1>1, ExerciseIs
  <2> HIDE DEF x
  <2>2. /\ years' = [z \in Closed \cup {y} |-> IF z = y THEN x ELSE years[z]]
        /\ late' \in BOOLEAN /\ opening' = opening
    BY <1>1 DEF CloseFiscalYear, x, TypeInv
  <2>3. Closed' = Closed \cup {y} /\ IsFiniteSet(Closed \cup {y})
    BY <2>2, FS_AddElement DEF Closed, TypeInv
  <2> QED
    BY <2>1, <2>2, <2>3 DEF TypeInv
<1>2. ASSUME NEW y \in Years, NEW reserve \in Reserves, NEW dividends \in Dividends,
             UpdateFiscalYearAppropriation(y, reserve, dividends)
      PROVE  TypeInv'
  <2> DEFINE retained == RetainedAfter(y, years[y].net, reserve, dividends)
  <2>1. y \in Closed /\ y \in Nat /\ years[y] \in Row
    BY <1>2, ConstantsHave DEF UpdateFiscalYearAppropriation, Editable, TypeInv
  <2>2. PriorRetained(y) \in Int
    BY <2>1, PriorsAreInts
  <2>3. retained \in Int
    BY <2>1, <2>2, ConstantsHave DEF RetainedAfter, Row
  <2> HIDE DEF retained
  <2>4. /\ years' = [years EXCEPT ![y].reserve = reserve, ![y].dividends = dividends,
                       ![y].retained = retained]
        /\ late' = late /\ opening' = opening
    BY <1>2 DEF UpdateFiscalYearAppropriation, retained
  <2>5. Closed' = Closed
    BY <2>4 DEF Closed
  <2>6. \A z \in Closed : z # y => years'[z] = years[z]
    BY <2>4 DEF Closed
  <2>7. years'[y] = [years[y] EXCEPT !.reserve = reserve, !.dividends = dividends,
                       !.retained = retained]
    BY <2>1, <2>4 DEF Closed
  <2>8. years'[y] \in Row
    BY <2>1, <2>3, <2>7, ConstantsHave, ZenonT(60) DEF Row
  <2> QED
    BY <2>4, <2>5, <2>6, <2>8 DEF TypeInv
<1>3. ASSUME NEW y \in Years, ApproveFiscalYear(y)  PROVE TypeInv'
  <2>1. /\ y \in Closed /\ years' = [years EXCEPT ![y].approved = TRUE]
        /\ late' = late /\ opening' = opening
    BY <1>3 DEF ApproveFiscalYear
  <2>2. Closed' = Closed
    BY <2>1 DEF Closed
  <2>3. \A z \in Closed : z # y => years'[z] = years[z]
    BY <2>1 DEF Closed
  <2>4. years'[y] = [years[y] EXCEPT !.approved = TRUE]
    BY <2>1 DEF Closed
  <2>5. years[y] \in Row
    BY <2>1 DEF TypeInv
  <2>6. years'[y] \in Row
    BY <2>4, <2>5 DEF Row
  <2> QED
    BY <2>1, <2>2, <2>3, <2>6 DEF TypeInv
<1>4. ASSUME NEW y \in Years, DeleteFiscalYear(y)  PROVE TypeInv'
  <2>1. years' = [z \in Closed \ {y} |-> years[z]] /\ late' = late /\ opening' = opening
    BY <1>4 DEF DeleteFiscalYear
  <2>2. Closed' = Closed \ {y} /\ IsFiniteSet(Closed \ {y})
    BY <2>1, FS_RemoveElement DEF Closed, TypeInv
  <2> QED
    BY <2>1, <2>2 DEF TypeInv
<1>5. CASE years' = years /\ late' = late /\ opening' \in Balance \cup {None}
  BY <1>5 DEF TypeInv, Closed
<1>6. ASSUME NEW b \in Openings, RecordOpeningBalance(b) \/ UpdateOpeningBalance(b)
      PROVE  TypeInv'
  BY <1>5, <1>6, ConstantsHave DEF RecordOpeningBalance, UpdateOpeningBalance
<1>7. CASE DeleteOpeningBalance
  BY <1>5, <1>7 DEF DeleteOpeningBalance
<1>8. CASE UNCHANGED vars
  BY <1>5, <1>8 DEF vars, TypeInv
<1> QED
  BY <1>1, <1>2, <1>3, <1>4, <1>6, <1>7, <1>8 DEF Next

----------------------------------------------------------------------------
(* The tax of each exercise, and the credit of each loss carried back.      *)

TaxOf(y) ==
    years[y].tax = CorporateIncomeTax((years[y].result + Most(0, years[y].nonDeductible))
                                        - years[y].imputed)
Paid(y) ==
    years[y].carriedBack # 0 =>
        /\ y - 1 \in Closed
        /\ years[y].carriedBack <= TaxableResult(y - 1) - years[y - 1].dividends
        /\ years[y].credit <= years[y - 1].tax + 100

(* The fields that a decision and an approval leave alone.                  *)
SameAmounts(a, b) ==
    /\ a.result = b.result /\ a.nonDeductible = b.nonDeductible /\ a.imputed = b.imputed
    /\ a.tax = b.tax /\ a.carriedBack = b.carriedBack /\ a.credit = b.credit /\ a.net = b.net

LEMMA DecidedIsSame ==
    ASSUME NEW x \in Row, NEW reserve, NEW dividends, NEW retained,
           NEW a, a = [x EXCEPT !.reserve = reserve, !.dividends = dividends,
                          !.retained = retained]
    PROVE  /\ SameAmounts(a, x) /\ a.reserve = reserve /\ a.dividends = dividends
           /\ a.retained = retained
BY DEF Row, SameAmounts

LEMMA ApprovedIsSame ==
    ASSUME NEW x \in Row, NEW a, a = [x EXCEPT !.approved = TRUE]
    PROVE  /\ SameAmounts(a, x) /\ a.dividends = x.dividends /\ a.reserve = x.reserve
           /\ a.retained = x.retained
BY DEF Row, SameAmounts

(* An exercise whose amounts stay, with those of the exercise before it.    *)
LEMMA CreditStands ==
    ASSUME TaxIsOfProfit, CreditWasPaid, NEW y, y \in Closed, y \in Closed',
           SameAmounts(years'[y], years[y]),
           y - 1 \in Closed => /\ y - 1 \in Closed' /\ SameAmounts(years'[y - 1], years[y - 1])
                               /\ years'[y - 1].dividends = years[y - 1].dividends
    PROVE  TaxOf(y)' /\ Paid(y)'
<1>1. TaxOf(y) /\ Paid(y)
  BY DEF TaxIsOfProfit, CreditWasPaid, TaxOf, Paid
<1>2. TaxOf(y)'
  BY <1>1 DEF TaxOf, SameAmounts
<1>3. ASSUME years'[y].carriedBack # 0
      PROVE  /\ y - 1 \in Closed'
             /\ years'[y].carriedBack <= TaxableResult(y - 1)' - years'[y - 1].dividends
             /\ years'[y].credit <= years'[y - 1].tax + 100
  <2>1. /\ y - 1 \in Closed
        /\ years[y].carriedBack <= TaxableResult(y - 1) - years[y - 1].dividends
        /\ years[y].credit <= years[y - 1].tax + 100
    BY <1>1, <1>3 DEF Paid, SameAmounts
  <2>2. TaxableResult(y - 1)' = TaxableResult(y - 1)
    BY <2>1 DEF TaxableResult, SameAmounts
  <2> QED
    BY <2>1, <2>2 DEF SameAmounts
<1> QED
  BY <1>2, <1>3 DEF Paid

LEMMA CreditStep ==
    ASSUME TypeInv, TypeInv', TaxIsOfProfit, CreditWasPaid, [Next]_vars
    PROVE  TaxIsOfProfit' /\ CreditWasPaid'
<1> SUFFICES \A y \in Closed' : TaxOf(y)' /\ Paid(y)'
  BY DEF TaxIsOfProfit, CreditWasPaid, TaxOf, Paid
<1>0. \A y \in Closed : SameAmounts(years[y], years[y])
  BY DEF SameAmounts
<1>1. ASSUME NEW x \in Years, NEW r \in Results, NEW n \in NonDeductibles, NEW b \in BOOLEAN,
             NEW reserve \in Reserves, NEW dividends \in Dividends,
             CloseFiscalYear(x, r, n, b, reserve, dividends), NEW y \in Closed'
      PROVE  TaxOf(y)' /\ Paid(y)'
  <2> DEFINE row == Exercise(x, r, n, b, reserve, dividends)
  <2>1. /\ row.tax = CorporateIncomeTax((row.result + Most(0, row.nonDeductible)) - row.imputed)
        /\ row.carriedBack # 0 =>
             /\ x - 1 \in Closed
             /\ row.carriedBack <= TaxableResult(x - 1) - years[x - 1].dividends
             /\ row.credit <= years[x - 1].tax + 100
    BY ExerciseIs
  <2> HIDE DEF row
  <2>2. /\ x \notin Closed
        /\ years' = [z \in Closed \cup {x} |-> IF z = x THEN row ELSE years[z]]
    BY <1>1 DEF CloseFiscalYear, row
  <2>3. /\ Closed' = Closed \cup {x} /\ years'[x] = row
        /\ \A z \in Closed : years'[z] = years[z]
    BY <2>2 DEF Closed
  <2>4. CASE y \in Closed
    BY <1>0, <2>3, <2>4, CreditStands
  <2>5. CASE y = x
    <3>1. TaxOf(x)'
      BY <2>1, <2>3 DEF TaxOf
    <3>2. Paid(x)'
      <4>1. x - 1 \in Closed => TaxableResult(x - 1)' = TaxableResult(x - 1)
        BY <2>3 DEF TaxableResult
      <4> QED
        BY <2>1, <2>3, <4>1 DEF Paid
    <3> QED BY <2>5, <3>1, <3>2
  <2> QED BY <2>3, <2>4, <2>5
<1>2. ASSUME NEW x \in Years, NEW reserve \in Reserves, NEW dividends \in Dividends,
             UpdateFiscalYearAppropriation(x, reserve, dividends), NEW y \in Closed'
      PROVE  TaxOf(y)' /\ Paid(y)'
  <2> DEFINE retained == RetainedAfter(x, years[x].net, reserve, dividends)
  <2>1. /\ x \in Closed /\ \A z \in Closed : z <= x
        /\ years' = [years EXCEPT ![x].reserve = reserve, ![x].dividends = dividends,
                       ![x].retained = retained]
    BY <1>2 DEF UpdateFiscalYearAppropriation, Editable
  <2> HIDE DEF retained
  <2>2. Closed' = Closed /\ \A z \in Closed : z # x => years'[z] = years[z]
    BY <2>1 DEF Closed
  <2>3. years'[x] = [years[x] EXCEPT !.reserve = reserve, !.dividends = dividends,
                       !.retained = retained]
    BY <2>1 DEF Closed
  <2>4. SameAmounts(years'[x], years[x])
    <3>1. years[x] \in Row
      BY <2>1 DEF TypeInv
    <3> QED BY <2>3, <3>1 DEF Row, SameAmounts
  <2>5. \A z \in Closed : SameAmounts(years'[z], years[z])
    BY <1>0, <2>2, <2>4
  <2>6. y - 1 # x
    BY <2>1, <2>2, ConstantsHave DEF TypeInv
  <2> QED
    BY <2>2, <2>5, <2>6, CreditStands
<1>3. ASSUME NEW x \in Years, ApproveFiscalYear(x), NEW y \in Closed'
      PROVE  TaxOf(y)' /\ Paid(y)'
  <2>1. x \in Closed /\ years' = [years EXCEPT ![x].approved = TRUE]
    BY <1>3 DEF ApproveFiscalYear
  <2>2. Closed' = Closed /\ \A z \in Closed : z # x => years'[z] = years[z]
    BY <2>1 DEF Closed
  <2>3. years'[x] = [years[x] EXCEPT !.approved = TRUE] /\ years[x] \in Row
    BY <2>1 DEF Closed, TypeInv
  <2>4. SameAmounts(years'[x], years[x]) /\ years'[x].dividends = years[x].dividends
    BY <2>3, ApprovedIsSame
  <2>5. \A z \in Closed : SameAmounts(years'[z], years[z])
                            /\ years'[z].dividends = years[z].dividends
    BY <1>0, <2>2, <2>4
  <2> QED
    BY <2>2, <2>5, CreditStands
<1>4. ASSUME NEW x \in Years, DeleteFiscalYear(x), NEW y \in Closed'
      PROVE  TaxOf(y)' /\ Paid(y)'
  <2>1. /\ \A z \in Closed : z <= x
        /\ years' = [z \in Closed \ {x} |-> years[z]]
    BY <1>4 DEF DeleteFiscalYear, Editable
  <2>2. Closed' = Closed \ {x} /\ \A z \in Closed \ {x} : years'[z] = years[z]
    BY <2>1 DEF Closed
  <2>3. y - 1 # x
    BY <2>1, <2>2, ConstantsHave DEF TypeInv
  <2>4. SameAmounts(years'[y], years[y])
    BY <1>0, <2>2
  <2>5. y - 1 \in Closed => y - 1 \in Closed' /\ SameAmounts(years'[y - 1], years[y - 1])
                              /\ years'[y - 1].dividends = years[y - 1].dividends
    BY <1>0, <2>2, <2>3
  <2> QED
    BY <2>2, <2>4, <2>5, CreditStands
<1>5. ASSUME years' = years, NEW y \in Closed'
      PROVE  TaxOf(y)' /\ Paid(y)'
  BY <1>0, <1>5, CreditStands DEF Closed
<1> QED
  BY <1>1, <1>2, <1>3, <1>4, <1>5
     DEF Next, vars, RecordOpeningBalance, UpdateOpeningBalance, DeleteOpeningBalance

----------------------------------------------------------------------------
(* The chain: each exercise goes on from the last of those before it.       *)

ChainAt(y) ==
    /\ years[y].retained + SumFunctionOnSet(Used, Through(y))
         = FromOpening("retained") + SumFunctionOnSet(Earned, Through(y))
    /\ PriorLosses(y + 1) >= 0
    /\ Capital # None => PriorReserve(y + 1) <= ApplyRate(Capital, 1000)

LEMMA ClosedAreNats == (TypeInv => Closed \subseteq Nat) /\ (TypeInv' => Closed' \subseteq Nat)
BY ConstantsHave DEF TypeInv

LEMMA ChainIs == InheritedOnce <=> late \/ \A y \in Closed : ChainAt(y)
<1>1. EarningsOnce /\ LossesOnce /\ ReserveOnce <=> \A y \in Closed : ChainAt(y)
  <2>1. EarningsOnce <=> \A y \in Closed :
          years[y].retained + SumFunctionOnSet(Used, Through(y))
            = FromOpening("retained") + SumFunctionOnSet(Earned, Through(y))
    BY Zenon DEF EarningsOnce, Used, Earned
  <2>2. ASSUME EarningsOnce, LossesOnce, ReserveOnce, NEW y \in Closed
        PROVE  ChainAt(y)
    <3>1. years[y].retained + SumFunctionOnSet(Used, Through(y))
            = FromOpening("retained") + SumFunctionOnSet(Earned, Through(y))
      BY <2>1, <2>2
    <3>2. PriorLosses(y + 1) >= 0
      BY <2>2, Zenon DEF LossesOnce
    <3>3. Capital # None => PriorReserve(y + 1) <= ApplyRate(Capital, 1000)
      BY <2>2, ZenonT(60) DEF ReserveOnce
    <3> QED
      BY <3>1, <3>2, <3>3, ZenonT(60) DEF ChainAt
  <2>3. ASSUME \A y \in Closed : ChainAt(y)
        PROVE  EarningsOnce /\ LossesOnce /\ ReserveOnce
    <3>1. EarningsOnce
      BY <2>1, <2>3, ZenonT(60) DEF ChainAt
    <3>2. LossesOnce
      BY <2>3, ZenonT(60) DEF LossesOnce, ChainAt
    <3>3. ReserveOnce
      BY <2>3, ZenonT(60) DEF ReserveOnce, ChainAt
    <3> QED
      BY <3>1, <3>2, <3>3
  <2> QED
    BY <2>2, <2>3, Zenon
<1> QED
  BY <1>1, Zenon DEF InheritedOnce

LEMMA ChainIsNext == InheritedOnce' <=> late' \/ \A y \in Closed' : ChainAt(y)'
<1>1. (EarningsOnce /\ LossesOnce /\ ReserveOnce)' <=> \A y \in Closed' : ChainAt(y)'
  <2>1. EarningsOnce' <=> \A y \in Closed' :
          years'[y].retained + SumFunctionOnSet(Used, Through(y))'
            = FromOpening("retained")' + SumFunctionOnSet(Earned, Through(y))'
    BY Zenon DEF EarningsOnce, Used, Earned
  <2>2. LossesOnce' <=> \A y \in Closed' : PriorLosses(y + 1)' >= 0
    BY Zenon DEF LossesOnce
  <2>3. ReserveOnce' <=> \A y \in Closed' :
          Capital # None => PriorReserve(y + 1)' <= ApplyRate(Capital, 1000)
    BY ZenonT(60) DEF ReserveOnce
  <2>4. ASSUME EarningsOnce', LossesOnce', ReserveOnce', NEW y \in Closed'
        PROVE  ChainAt(y)'
    <3>1. years'[y].retained + SumFunctionOnSet(Used, Through(y))'
            = FromOpening("retained")' + SumFunctionOnSet(Earned, Through(y))'
      BY <2>1, <2>4
    <3>2. PriorLosses(y + 1)' >= 0
      BY <2>2, <2>4, Zenon
    <3>3. Capital # None => PriorReserve(y + 1)' <= ApplyRate(Capital, 1000)
      BY <2>3, <2>4, ZenonT(60)
    <3> QED
      BY <3>1, <3>2, <3>3, ZenonT(60) DEF ChainAt
  <2>5. ASSUME \A y \in Closed' : ChainAt(y)'
        PROVE  EarningsOnce' /\ LossesOnce' /\ ReserveOnce'
    <3>1. EarningsOnce'
      BY <2>1, <2>5, ZenonT(60) DEF ChainAt
    <3>2. LossesOnce'
      BY <2>2, <2>5, ZenonT(60) DEF ChainAt
    <3>3. ReserveOnce'
      BY <2>3, <2>5, ZenonT(60) DEF ChainAt
    <3> QED
      BY <3>1, <3>2, <3>3
  <2> QED
    BY <2>4, <2>5, Zenon
<1> QED
  BY <1>1, Zenon DEF InheritedOnce

(* What the sums add up stays, whatever was approved.                       *)
Alike(x) ==
    /\ SameAmounts(years'[x], years[x]) /\ years'[x].reserve = years[x].reserve
    /\ years'[x].dividends = years[x].dividends /\ years'[x].retained = years[x].retained

LEMMA SumsStand ==
    ASSUME NEW S, S \subseteq Closed, S \subseteq Closed', IsFiniteSet(S),
           \A x \in S : Alike(x)
    PROVE  /\ SumFunctionOnSet(Reserved', S) = SumFunctionOnSet(Reserved, S)
           /\ SumFunctionOnSet(LossLeft', S) = SumFunctionOnSet(LossLeft, S)
           /\ SumFunctionOnSet(Used', S) = SumFunctionOnSet(Used, S)
           /\ SumFunctionOnSet(Earned', S) = SumFunctionOnSet(Earned, S)
<1>1. \A x \in S : Reserved'[x] = Reserved[x]
  BY DEF Reserved, Alike
<1>2. \A x \in S : LossLeft'[x] = LossLeft[x]
  BY DEF LossLeft, Alike, SameAmounts
<1>3. \A x \in S : Used'[x] = Used[x]
  BY DEF Used, Alike
<1>4. \A x \in S : Earned'[x] = Earned[x]
  BY DEF Earned, Alike, SameAmounts
<1> QED
  BY <1>1, <1>2, <1>3, <1>4, SumOfSame

LEMMA PriorsStand ==
    ASSUME TypeInv, opening' = opening, NEW y \in Nat, Before(y)' = Before(y),
           \A x \in Before(y) : Alike(x)
    PROVE  /\ PriorRetained(y)' = PriorRetained(y)
           /\ PriorLosses(y)' = PriorLosses(y) /\ PriorReserve(y)' = PriorReserve(y)
<1>1. Before(y) \subseteq Closed /\ IsFiniteSet(Before(y)) /\ Before(y) \subseteq Closed'
        /\ (Before(y) # {} => Max(Before(y)) \in Before(y))
  BY BeforeHas DEF Before
<1>2. FromOpening("retained")' = FromOpening("retained")
        /\ FromOpening("reserve")' = FromOpening("reserve")
        /\ FromOpening("losses")' = FromOpening("losses")
  BY DEF FromOpening
<1>3. PriorRetained(y)' = PriorRetained(y)
  BY <1>1, <1>2 DEF PriorRetained, Alike
<1> QED
  BY <1>1, <1>2, <1>3, SumsStand
     DEF PriorReserve, PriorLosses, LossesFromClosedYears, Reserved, LossLeft

(* An exercise stands in the chain when those through it are alike.         *)
LEMMA ChainStands ==
    ASSUME TypeInv, opening' = opening, NEW y \in Closed, y \in Closed',
           Through(y)' = Through(y), \A x \in Through(y) : Alike(x), ChainAt(y),
           TypeInv'
    PROVE  ChainAt(y)'
<1>1. y \in Nat /\ y + 1 \in Nat
  BY ClosedAreNats
<1>2. Before(y + 1) = Through(y) /\ IsFiniteSet(Through(y)) /\ y \in Through(y)
  BY <1>1, BeforeHas
<1>3. Before(y + 1)' = Through(y)'
  <2>1. \A z \in Nat : z < y + 1 <=> z <= y
    BY <1>1
  <2> QED BY <2>1, ClosedAreNats, Zenon DEF Before, Through
<1>4. Through(y) \subseteq Closed /\ Through(y) \subseteq Closed'
  BY DEF Through
<1>5. PriorLosses(y + 1)' = PriorLosses(y + 1) /\ PriorReserve(y + 1)' = PriorReserve(y + 1)
  BY <1>1, <1>2, <1>3, PriorsStand
<1>6. years'[y].retained = years[y].retained
  BY <1>2 DEF Alike
<1>7. FromOpening("retained")' = FromOpening("retained")
  BY DEF FromOpening
<1>8. /\ SumFunctionOnSet(Used', Through(y)) = SumFunctionOnSet(Used, Through(y))
      /\ SumFunctionOnSet(Earned', Through(y)) = SumFunctionOnSet(Earned, Through(y))
  BY <1>2, <1>4, SumsStand
<1> QED
  BY <1>5, <1>6, <1>7, <1>8 DEF ChainAt

(* What the exercises before y leave to it is theirs.                       *)
LEMMA ChainLeaves ==
    ASSUME TypeInv, NEW y \in Nat, \A z \in Before(y) : ChainAt(z)
    PROVE  /\ PriorRetained(y) + SumFunctionOnSet(Used, Before(y))
                = FromOpening("retained") + SumFunctionOnSet(Earned, Before(y))
           /\ PriorLosses(y) >= 0
<1>1. CASE Before(y) = {}
  BY <1>1, SumOfNone, OpeningIsInts
     DEF PriorRetained, PriorLosses, LossesFromClosedYears
<1>2. CASE Before(y) # {}
  <2> DEFINE m == Max(Before(y))
  <2>1. m \in Before(y) /\ Through(m) = Before(y) /\ m \in Nat
    BY <1>2, BeforeHas
  <2> HIDE DEF m
  <2>2. Before(m + 1) = Before(y) /\ ChainAt(m)
    BY <2>1, BeforeHas
  <2>3. PriorLosses(m + 1) = PriorLosses(y)
    BY <2>2 DEF PriorLosses, LossesFromClosedYears
  <2>4. PriorRetained(y) = years[m].retained
    BY <1>2 DEF PriorRetained, m
  <2> QED
    BY <2>1, <2>2, <2>3, <2>4 DEF ChainAt
<1> QED BY <1>1, <1>2

(* The last exercise, closed or decided again, goes on from them.           *)
LEMMA ChainGrows ==
    ASSUME TypeInv, TypeInv', opening' = opening, NEW y \in Closed', Before(y)' = Before(y),
           \A x \in Before(y) : Alike(x) /\ ChainAt(x),
           years'[y].retained
             = RetainedAfter(y, years'[y].net, years'[y].reserve, years'[y].dividends),
           PriorLosses(y) >= 0 => PriorLosses(y) + LossLeft'[y] >= 0,
           Capital # None => PriorReserve(y) + years'[y].reserve <= ApplyRate(Capital, 1000)
    PROVE  ChainAt(y)'
<1> DEFINE B == Before(y)
           row == years'[y]
<1>0. y \in Nat /\ row \in Row
  BY ConstantsHave DEF TypeInv
<1>1. B \subseteq Closed /\ IsFiniteSet(B) /\ B \subseteq Closed' /\ y \notin B
  <2>1. B \subseteq Closed /\ IsFiniteSet(B)
    BY <1>0, BeforeHas
  <2>2. B = {z \in Closed' : z < y}
    BY DEF Before
  <2>3. y \notin B
    BY <1>0, <2>2
  <2> QED BY <2>1, <2>2, <2>3
<1>2. Through(y)' = B \cup {y} /\ Before(y + 1)' = B \cup {y}
  <2>1. \A z \in Nat : (z <= y <=> z < y \/ z = y) /\ (z < y + 1 <=> z < y \/ z = y)
    BY <1>0
  <2>2. \A z \in Closed' : z \in Nat
    BY ConstantsHave DEF TypeInv
  <2>3. Before(y)' = {z \in Closed' : z < y}
    BY DEF Before
  <2> QED
    BY <2>1, <2>2, <2>3 DEF Before, Through
<1>3. \A z \in B \cup {y} : /\ Reserved'[z] \in Int /\ LossLeft'[z] \in Int
                            /\ Used'[z] \in Int /\ Earned'[z] \in Int
  BY <1>1 DEF TypeInv, Row, Reserved, LossLeft, Used, Earned, Most
<1>4. /\ Reserved'[y] = row.reserve /\ Used'[y] = row.reserve + row.dividends
      /\ Earned'[y] = row.net
  BY DEF Reserved, Used, Earned
<1>5. /\ SumFunctionOnSet(Reserved', B) = SumFunctionOnSet(Reserved, B)
      /\ SumFunctionOnSet(LossLeft', B) = SumFunctionOnSet(LossLeft, B)
      /\ SumFunctionOnSet(Used', B) = SumFunctionOnSet(Used, B)
      /\ SumFunctionOnSet(Earned', B) = SumFunctionOnSet(Earned, B)
  BY <1>1, SumsStand
<1>6. /\ SumFunctionOnSet(Reserved', B \cup {y}) = row.reserve + SumFunctionOnSet(Reserved, B)
      /\ SumFunctionOnSet(LossLeft', B \cup {y}) = LossLeft'[y] + SumFunctionOnSet(LossLeft, B)
      /\ SumFunctionOnSet(Used', B \cup {y})
           = row.reserve + row.dividends + SumFunctionOnSet(Used, B)
      /\ SumFunctionOnSet(Earned', B \cup {y}) = row.net + SumFunctionOnSet(Earned, B)
  <2> HIDE DEF B, row
  <2>1. \A f : (\A z \in B \cup {y} : f[z] \in Int)
                 => SumFunctionOnSet(f, B \cup {y}) = f[y] + SumFunctionOnSet(f, B)
    BY <1>1, SumWithOne
  <2> QED
    BY <1>3, <1>4, <1>5, <2>1, ZenonT(60)
<1>7. /\ FromOpening("retained")' = FromOpening("retained")
      /\ FromOpening("reserve")' = FromOpening("reserve")
      /\ FromOpening("losses")' = FromOpening("losses")
      /\ FromOpening("retained") \in Int /\ FromOpening("reserve") \in Int
      /\ FromOpening("losses") \in Nat
  BY OpeningIsInts DEF FromOpening
<1>8. /\ PriorRetained(y) + SumFunctionOnSet(Used, B)
           = FromOpening("retained") + SumFunctionOnSet(Earned, B)
      /\ PriorLosses(y) >= 0 /\ PriorRetained(y) \in Int
  BY <1>0, ChainLeaves, PriorsAreInts
<1>9. /\ SumFunctionOnSet(Reserved, B) \in Int /\ SumFunctionOnSet(LossLeft, B) \in Int
      /\ SumFunctionOnSet(Used, B) \in Int /\ SumFunctionOnSet(Earned, B) \in Int
  <2>1. \A z \in B : Reserved[z] \in Int /\ LossLeft[z] \in Int
                       /\ Used[z] \in Int /\ Earned[z] \in Int
    BY <1>1, AmountsAreInts
  <2> HIDE DEF B
  <2> QED
    BY <1>1, <2>1, SumIsInt
<1>10. PriorLosses(y + 1)' = PriorLosses(y) + LossLeft'[y]
  <2>1. PriorLosses(y + 1)' = SumFunctionOnSet(LossLeft', B \cup {y}) + FromOpening("losses")
    BY <1>2, <1>7, ZenonT(60) DEF PriorLosses, LossesFromClosedYears, LossLeft
  <2>2. PriorLosses(y) = SumFunctionOnSet(LossLeft, B) + FromOpening("losses")
    BY DEF PriorLosses, LossesFromClosedYears, LossLeft
  <2>3. LossLeft'[y] \in Int
    BY <1>3
  <2> HIDE DEF B
  <2> QED
    BY <1>6, <1>7, <1>9, <2>1, <2>2, <2>3
<1>11. PriorReserve(y + 1)' = PriorReserve(y) + row.reserve
  <2>1. row.reserve \in Int
    BY <1>0 DEF Row
  <2>2. PriorReserve(y + 1)' = FromOpening("reserve") + SumFunctionOnSet(Reserved', B \cup {y})
    BY <1>2, <1>7, ZenonT(60) DEF PriorReserve, Reserved
  <2>3. PriorReserve(y) = FromOpening("reserve") + SumFunctionOnSet(Reserved, B)
    BY DEF PriorReserve, Reserved
  <2> HIDE DEF B, row
  <2> QED
    BY <1>6, <1>7, <1>9, <2>1, <2>2, <2>3
<1>12. row.retained + SumFunctionOnSet(Used', B \cup {y})
         = FromOpening("retained")' + SumFunctionOnSet(Earned', B \cup {y})
  <2>1. row.retained = PriorRetained(y) + row.net - row.reserve - row.dividends
    BY DEF RetainedAfter
  <2>2. row.net \in Int /\ row.reserve \in Int /\ row.dividends \in Int
    BY <1>0 DEF Row
  <2> HIDE DEF row, B
  <2> QED
    BY <1>6, <1>7, <1>8, <1>9, <2>1, <2>2
<1> QED
  BY <1>2, <1>8, <1>10, <1>11, <1>12 DEF ChainAt

(* The earlier exercises stand, whatever is done to the last one.           *)
LEMMA EarlierStand ==
    ASSUME TypeInv, TypeInv', opening' = opening, NEW y \in Nat,
           Before(y)' = Before(y), \A x \in Before(y) : Alike(x) /\ ChainAt(x)
    PROVE  \A z \in Before(y) : ChainAt(z)'
<1> SUFFICES ASSUME NEW z \in Before(y) PROVE ChainAt(z)'
  OBVIOUS
<1>1. /\ Closed \subseteq Nat /\ Closed' \subseteq Nat
      /\ Before(y) = {x \in Closed : x < y} /\ Before(y) = {x \in Closed' : x < y}
  BY ClosedAreNats DEF Before
<1>2. z \in Nat /\ z < y /\ z \in Closed /\ z \in Closed'
  BY <1>1
<1>3. \A x \in Nat : x <= z => x < y
  BY <1>2
<1>4. Through(z) = {x \in Before(y) : x <= z} /\ Through(z)' = {x \in Before(y) : x <= z}
  BY <1>1, <1>3, Zenon DEF Through
<1> QED
  BY <1>2, <1>4, ChainStands

LEMMA InheritedStep ==
    ASSUME TypeInv, TypeInv', TaxIsOfProfit, InheritedOnce, [Next]_vars
    PROVE  InheritedOnce'
<1> SUFFICES ASSUME ~late' PROVE \A y \in Closed' : ChainAt(y)'
  BY ChainIsNext
<1>0. late => late'
  <2>1. ASSUME NEW y \in Years, NEW r \in Results, NEW n \in NonDeductibles,
               NEW b \in BOOLEAN, NEW reserve \in Reserves, NEW dividends \in Dividends,
               CloseFiscalYear(y, r, n, b, reserve, dividends)
        PROVE  late => late'
    BY <2>1, Zenon DEF CloseFiscalYear
  <2>2. ASSUME late' = late
        PROVE  late => late'
    BY <2>2
  <2> QED
    BY <2>1, <2>2, Zenon
       DEF Next, vars, UpdateFiscalYearAppropriation, ApproveFiscalYear, DeleteFiscalYear,
           RecordOpeningBalance, UpdateOpeningBalance, DeleteOpeningBalance
<1>1. \A y \in Closed : ChainAt(y)
  BY <1>0, ChainIs
<1>2. Closed \subseteq Nat /\ Closed' \subseteq Nat
  BY ClosedAreNats
<1>3. ASSUME NEW x \in Years, NEW r \in Results, NEW n \in NonDeductibles, NEW b \in BOOLEAN,
             NEW reserve \in Reserves, NEW dividends \in Dividends,
             CloseFiscalYear(x, r, n, b, reserve, dividends)
      PROVE  \A y \in Closed' : ChainAt(y)'
  <2> DEFINE row == Exercise(x, r, n, b, reserve, dividends)
  <2>1. /\ row.retained = RetainedAfter(x, row.net, reserve, dividends)
        /\ row.reserve = reserve /\ row.dividends = dividends
        /\ PriorLosses(x) >= 0 =>
             PriorLosses(x) + (Most(0, -row.result) - row.carriedBack - row.imputed) >= 0
    BY ExerciseIs
  <2> HIDE DEF row
  <2>2. /\ x \notin Closed /\ opening' = opening /\ Appropriable(x, row.net, reserve, dividends)
        /\ years' = [z \in Closed \cup {x} |-> IF z = x THEN row ELSE years[z]]
        /\ \A z \in Closed : ~(z > x)
    BY <1>3 DEF CloseFiscalYear, row
  <2>3. /\ Closed' = Closed \cup {x} /\ years'[x] = row
        /\ \A z \in Closed : years'[z] = years[z]
    BY <2>2 DEF Closed
  <2>4. x \in Nat /\ Before(x) = Closed /\ Before(x)' = Closed
    <3>1. x \in Nat
      BY ConstantsHave
    <3>2. \A z \in Closed : z < x
      BY <1>2, <2>2, <3>1
    <3>3. ~(x < x)
      BY <3>1
    <3> QED BY <2>3, <3>1, <3>2, <3>3 DEF Before
  <2>5. \A z \in Closed : Alike(z)
    BY <2>3 DEF Alike, SameAmounts
  <2>6. \A z \in Closed : ChainAt(z)'
    BY <1>1, <2>2, <2>4, <2>5, EarlierStand
  <2>7. ChainAt(x)'
    <3>1. LossLeft'[x] = Most(0, -row.result) - row.carriedBack - row.imputed
      BY <2>3 DEF LossLeft
    <3>2. Capital # None => PriorReserve(x) + years'[x].reserve <= ApplyRate(Capital, 1000)
      BY <2>1, <2>2, <2>3 DEF Appropriable
    <3>3. x \in Closed' /\ PriorLosses(x) >= 0 => PriorLosses(x) + LossLeft'[x] >= 0
      BY <2>1, <3>1
    <3>4. years'[x].retained
             = RetainedAfter(x, years'[x].net, years'[x].reserve, years'[x].dividends)
      BY <2>1, <2>3
    <3>5. x \in Closed'
      BY <2>3
    <3> QED
      BY <1>1, <2>2, <2>4, <2>5, <3>2, <3>3, <3>4, <3>5, ChainGrows, ZenonT(60)
  <2> QED
    BY <2>3, <2>6, <2>7
<1>4. ASSUME NEW x \in Years, NEW reserve \in Reserves, NEW dividends \in Dividends,
             UpdateFiscalYearAppropriation(x, reserve, dividends)
      PROVE  \A y \in Closed' : ChainAt(y)'
  <2> DEFINE retained == RetainedAfter(x, years[x].net, reserve, dividends)
  <2>1. /\ x \in Closed /\ \A z \in Closed : z <= x
        /\ Appropriable(x, years[x].net, reserve, dividends) /\ opening' = opening
        /\ years' = [years EXCEPT ![x].reserve = reserve, ![x].dividends = dividends,
                       ![x].retained = retained]
    BY <1>4 DEF UpdateFiscalYearAppropriation, Editable
  <2> HIDE DEF retained
  <2>2. Closed' = Closed /\ \A z \in Closed : z # x => years'[z] = years[z]
    BY <2>1 DEF Closed
  <2>3. /\ years'[x].reserve = reserve /\ years'[x].dividends = dividends
        /\ years'[x].retained = retained /\ SameAmounts(years'[x], years[x])
    <3>1. years[x] \in Row
      BY <2>1 DEF TypeInv
    <3>2. years'[x] = [years[x] EXCEPT !.reserve = reserve, !.dividends = dividends,
                         !.retained = retained]
      BY <2>1 DEF Closed
    <3> QED BY <3>1, <3>2 DEF Row, SameAmounts
  <2>4. x \in Nat /\ Before(x)' = Before(x) /\ Before(x) = Closed \ {x}
    <3>1. x \in Nat
      BY ConstantsHave
    <3>2. \A z \in Closed : z < x <=> z # x
      BY <1>2, <2>1, <3>1
    <3> QED BY <2>2, <3>1, <3>2 DEF Before
  <2>5. \A z \in Before(x) : Alike(z) /\ ChainAt(z)
    BY <1>1, <2>2, <2>4 DEF Alike, SameAmounts
  <2>6. \A z \in Before(x) : ChainAt(z)'
    BY <2>1, <2>4, <2>5, EarlierStand
  <2>7. ChainAt(x)'
    <3>1. LossLeft'[x] = LossLeft[x]
      BY <2>1, <2>2, <2>3 DEF LossLeft, SameAmounts
    <3>2. Capital # None => PriorReserve(x) + years'[x].reserve <= ApplyRate(Capital, 1000)
      BY <2>1, <2>3 DEF Appropriable
    <3>3. PriorLosses(x) + LossLeft[x] >= 0
      <4>1. Before(x + 1) = Before(x) \cup {x} /\ IsFiniteSet(Before(x)) /\ x \notin Before(x)
        BY <2>1, <2>4, BeforeHas
      <4>2. Before(x) \cup {x} \subseteq Closed
        BY <2>1, <2>4
      <4>3. \A z \in Before(x) \cup {x} : LossLeft[z] \in Int
        BY <4>2, AmountsAreInts
      <4>4. SumFunctionOnSet(LossLeft, Before(x) \cup {x})
              = LossLeft[x] + SumFunctionOnSet(LossLeft, Before(x))
        BY <4>1, <4>3, SumWithOne
      <4>5. SumFunctionOnSet(LossLeft, Before(x)) \in Int
        BY <4>1, <4>3, SumIsInt
      <4>6. PriorLosses(x + 1) >= 0
        BY <1>1, <2>1 DEF ChainAt
      <4>7. /\ PriorLosses(x + 1) = SumFunctionOnSet(LossLeft, Before(x) \cup {x})
                                      + FromOpening("losses")
            /\ PriorLosses(x) = SumFunctionOnSet(LossLeft, Before(x)) + FromOpening("losses")
        BY <4>1 DEF PriorLosses, LossesFromClosedYears, LossLeft
      <4>8. LossLeft[x] \in Int /\ FromOpening("losses") \in Int
        BY <4>3, OpeningIsInts
      <4> QED
        BY <4>4, <4>5, <4>6, <4>7, <4>8
    <3>4. years'[x].retained
             = RetainedAfter(x, years'[x].net, years'[x].reserve, years'[x].dividends)
      BY <2>3 DEF SameAmounts, retained
    <3> QED
      BY <2>1, <2>2, <2>4, <2>5, <3>1, <3>2, <3>3, <3>4, ChainGrows, ZenonT(60)
  <2> QED
    BY <2>2, <2>4, <2>6, <2>7
<1>5. ASSUME NEW x \in Years, ApproveFiscalYear(x)
      PROVE  \A y \in Closed' : ChainAt(y)'
  <2>1. /\ x \in Closed /\ years' = [years EXCEPT ![x].approved = TRUE] /\ opening' = opening
    BY <1>5 DEF ApproveFiscalYear
  <2>2. Closed' = Closed /\ \A z \in Closed : z # x => years'[z] = years[z]
    BY <2>1 DEF Closed
  <2>3. years'[x] = [years[x] EXCEPT !.approved = TRUE] /\ years[x] \in Row
    BY <2>1 DEF Closed, TypeInv
  <2>4. Alike(x)
    BY <2>3, ApprovedIsSame DEF Alike
  <2>5. \A z \in Closed : Alike(z)
    BY <2>2, <2>4 DEF Alike, SameAmounts
  <2>6. \A z \in Closed : Through(z)' = Through(z) /\ Through(z) \subseteq Closed
    BY <2>2 DEF Through
  <2> QED
    BY <1>1, <2>1, <2>2, <2>5, <2>6, ChainStands
<1>6. ASSUME NEW x \in Years, DeleteFiscalYear(x)
      PROVE  \A y \in Closed' : ChainAt(y)'
  <2>1. /\ \A z \in Closed : z <= x
        /\ years' = [z \in Closed \ {x} |-> years[z]] /\ opening' = opening
    BY <1>6 DEF DeleteFiscalYear, Editable
  <2>2. Closed' = Closed \ {x} /\ \A z \in Closed \ {x} : years'[z] = years[z]
    BY <2>1 DEF Closed
  <2>3. x \in Nat /\ Before(x)' = Closed \ {x} /\ Before(x) = Closed \ {x}
    <3>1. x \in Nat
      BY ConstantsHave
    <3>2. \A z \in Closed : z < x <=> z # x
      BY <1>2, <2>1, <3>1
    <3> QED BY <2>2, <3>1, <3>2 DEF Before
  <2>4. \A z \in Before(x) : Alike(z) /\ ChainAt(z)
    BY <1>1, <2>2, <2>3 DEF Alike, SameAmounts
  <2> QED
    BY <2>1, <2>2, <2>3, <2>4, EarlierStand
<1>7. CASE years' = <<>> \/ Closed' = {}
  BY <1>7 DEF Closed
<1>8. ASSUME NEW b \in Openings, RecordOpeningBalance(b) \/ UpdateOpeningBalance(b)
      PROVE  Closed' = {}
  BY <1>8 DEF RecordOpeningBalance, UpdateOpeningBalance, NoFiscalYear, Closed
<1>9. ASSUME DeleteOpeningBalance PROVE Closed' = {}
  BY <1>9 DEF DeleteOpeningBalance, NoFiscalYear, Closed
<1>10. CASE UNCHANGED vars
  <2>1. years' = years /\ opening' = opening /\ Closed' = Closed
    BY <1>10 DEF vars, Closed
  <2>2. \A z \in Closed : Alike(z)
    BY <2>1 DEF Alike, SameAmounts
  <2>3. \A z \in Closed : Through(z)' = Through(z) /\ Through(z) \subseteq Closed
    BY <2>1 DEF Through
  <2> QED
    BY <1>1, <2>1, <2>2, <2>3, ChainStands
<1> QED
  BY <1>3, <1>4, <1>5, <1>6, <1>7, <1>8, <1>9, <1>10 DEF Next

----------------------------------------------------------------------------
(* What holds of every reachable state.                                     *)

LEMMA InvInit == Init => Inv
<1> SUFFICES ASSUME Init PROVE Inv
  OBVIOUS
<1>1. Closed = {}
  BY DEF Init, Closed
<1> QED
  BY <1>1, TypeInit
     DEF Inv, TaxIsOfProfit, CreditWasPaid, InheritedOnce, EarningsOnce, LossesOnce, ReserveOnce

LEMMA InvStep == Inv /\ [Next]_vars => Inv'
<1> SUFFICES ASSUME Inv, [Next]_vars PROVE Inv'
  OBVIOUS
<1>1. TypeInv'
  BY TypeStep DEF Inv
<1>2. TaxIsOfProfit' /\ CreditWasPaid'
  BY <1>1, CreditStep DEF Inv
<1>3. InheritedOnce'
  BY <1>1, InheritedStep DEF Inv
<1> QED
  BY <1>1, <1>2, <1>3 DEF Inv

LEMMA Invariance == Spec => []Inv
BY InvInit, InvStep, PTL DEF Spec

(* Closed in order, whatever is decided, approved, deleted and closed again, *)
(* the exercises use no euro twice: what was earned is in reserve, paid out  *)
(* or retained, no loss is set against more profit than it is, and the       *)
(* reserve stays within a tenth of the capital.                              *)
THEOREM NothingInheritedTwice == Spec => []InheritedOnce
<1>1. Inv => InheritedOnce
  BY DEF Inv
<1> QED
  BY <1>1, Invariance, PTL

(* The credit of every loss carried back is within the tax of the exercise   *)
(* before, and the loss within what that exercise left, whatever was done to *)
(* either since.                                                             *)
THEOREM CreditsWerePaid == Spec => []CreditWasPaid
<1>1. Inv => CreditWasPaid
  BY DEF Inv
<1> QED
  BY <1>1, Invariance, PTL

----------------------------------------------------------------------------
(* What an approved exercise rests on.                                      *)

(* An exercise that keeps its row, under the same opening balance, stands   *)
(* when the exercises before it stay the same and keep their amounts.       *)
LEMMA KeptStands ==
    ASSUME NEW y, y \in Closed, y \in DOMAIN years', years'[y] = years[y],
           opening' = opening, Before(y)' = Before(y),
           \A z \in Before(y) : [years'[z] EXCEPT !.approved = FALSE]
                                  = [years[z] EXCEPT !.approved = FALSE]
    PROVE  StandsUnder(y)
BY DEF StandsUnder, Heritage

(* A project that may be edited follows every approved exercise.            *)
LEMMA EditedFollows ==
    ASSUME TypeInv, NEW x \in Years, Editable(x),
           NEW y \in Closed, years[y].approved
    PROVE  y < x /\ x \notin Before(y)
<1>1. x \in Nat /\ y \in Nat
  BY FiscalYearsAssumption DEF TypeInv
<1>2. x # y /\ y <= x
  BY DEF Editable
<1> QED
  BY <1>1, <1>2 DEF Before

THEOREM ApprovedStandsForGood == Spec => ApprovedStands
<1>1. TypeInv /\ [Next]_vars
        => [~late' => \A y \in Closed : years[y].approved => StandsUnder(y)]_vars
  <2> SUFFICES ASSUME TypeInv, Next, ~late',
                      NEW y \in Closed, years[y].approved
               PROVE  StandsUnder(y)
    BY DEF vars
  <2>0. y \in Nat /\ Closed \subseteq Nat
    BY FiscalYearsAssumption DEF TypeInv
  <2>1. ASSUME NEW x \in Years, NEW r \in Results, NEW n \in NonDeductibles,
               NEW b \in BOOLEAN, NEW reserve \in Reserves, NEW dividends \in Dividends,
               CloseFiscalYear(x, r, n, b, reserve, dividends)
        PROVE  StandsUnder(y)
    <3>2. x \notin Closed /\ opening' = opening /\ ~\E z \in Closed : z > x
      BY <2>1 DEF CloseFiscalYear
    <3>3. x \in Nat /\ y < x
      BY <2>0, <3>2, FiscalYearsAssumption
    <3>4. DOMAIN years' = Closed \cup {x} /\ \A z \in Closed : years'[z] = years[z]
      BY <2>1, <3>2 DEF CloseFiscalYear
    <3>5. Before(y)' = Before(y) /\ Before(y) \subseteq Closed
      BY <2>0, <3>3, <3>4 DEF Before, Closed
    <3> QED
      BY <3>2, <3>4, <3>5, KeptStands
  <2>2. ASSUME NEW x \in Years, NEW reserve \in Reserves, NEW dividends \in Dividends,
               UpdateFiscalYearAppropriation(x, reserve, dividends)
        PROVE  StandsUnder(y)
    <3>1. y < x /\ x \notin Before(y)
      BY <2>2, EditedFollows DEF UpdateFiscalYearAppropriation
    <3>2. opening' = opening /\ DOMAIN years' = Closed
             /\ \A z \in Closed : z # x => years'[z] = years[z]
      BY <2>2 DEF UpdateFiscalYearAppropriation, Closed
    <3>3. Before(y)' = Before(y) /\ Before(y) \subseteq Closed /\ y # x
      BY <2>0, <3>1, <3>2, FiscalYearsAssumption DEF Before, Closed
    <3> QED
      BY <3>1, <3>2, <3>3, KeptStands
  <2>3. ASSUME NEW x \in Years, ApproveFiscalYear(x)
        PROVE  StandsUnder(y)
    <3>1. x # y /\ opening' = opening /\ DOMAIN years' = Closed
      BY <2>3 DEF ApproveFiscalYear, Closed
    <3>2. \A z \in Closed : z # x => years'[z] = years[z]
      BY <2>3 DEF ApproveFiscalYear, Closed
    <3>3. x \in Closed /\ years'[x] = [years[x] EXCEPT !.approved = TRUE]
      BY <2>3 DEF ApproveFiscalYear, Closed
    <3>4. [years'[x] EXCEPT !.approved = FALSE] = [years[x] EXCEPT !.approved = FALSE]
      BY <3>3
    <3>5. Before(y)' = Before(y) /\ Before(y) \subseteq Closed
      BY <3>1 DEF Before, Closed
    <3> QED
      BY <3>1, <3>2, <3>4, <3>5, KeptStands
  <2>4. ASSUME NEW x \in Years, DeleteFiscalYear(x)
        PROVE  StandsUnder(y)
    <3>1. y < x /\ x \notin Before(y)
      BY <2>4, EditedFollows DEF DeleteFiscalYear
    <3>2. opening' = opening /\ DOMAIN years' = Closed \ {x}
             /\ \A z \in Closed : z # x => years'[z] = years[z]
      BY <2>4 DEF DeleteFiscalYear, Closed
    <3>3. Before(y)' = Before(y) /\ Before(y) \subseteq Closed /\ y # x
      BY <2>0, <3>1, <3>2, FiscalYearsAssumption DEF Before, Closed
    <3> QED
      BY <3>1, <3>2, <3>3, KeptStands
  <2>5. ~NoFiscalYear
    BY DEF NoFiscalYear
  <2> QED
    BY <2>1, <2>2, <2>3, <2>4, <2>5
       DEF Next, RecordOpeningBalance, UpdateOpeningBalance, DeleteOpeningBalance
<1>2. Inv => TypeInv
  BY DEF Inv
<1> QED
  BY <1>1, <1>2, Invariance, PTL DEF Spec, ApprovedStands

=============================================================================
