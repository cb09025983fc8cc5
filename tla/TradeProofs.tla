----------------------------- MODULE TradeProofs -----------------------------
(***************************************************************************)
(* The order is the one the user was shown, for every market, book, stake, *)
(* tick and fee, and whatever fails on the way; the fee stays within the   *)
(* stake, too, when it was read or is within the reserve.                  *)
(***************************************************************************)
EXTENDS Trade, SequenceTheorems, WellFoundedInduction, TLAPS

-----------------------------------------------------------------------------
(* Prices and sizes.                                                       *)

\* The smaller and the larger of two numbers.
LEMMA MinOfTwo ==
    ASSUME NEW a \in Int, NEW b \in Int
    PROVE  Min({a, b}) = IF a <= b THEN a ELSE b
<1>1. \E x \in {a, b} : \A y \in {a, b} : x <= y
  OBVIOUS
<1>2. /\ Min({a, b}) \in {a, b}
      /\ \A y \in {a, b} : Min({a, b}) <= y
  BY <1>1 DEF Min
<1> QED BY <1>2

LEMMA MaxOfTwo ==
    ASSUME NEW a \in Int, NEW b \in Int
    PROVE  Max({a, b}) = IF a >= b THEN a ELSE b
<1>1. \E x \in {a, b} : \A y \in {a, b} : x >= y
  OBVIOUS
<1>2. /\ Max({a, b}) \in {a, b}
      /\ \A y \in {a, b} : Max({a, b}) >= y
  BY <1>1 DEF Max
<1> QED BY <1>2

\* Multiplication by a natural keeps an inequality.
LEMMA TimesMonotone ==
    ASSUME NEW a \in Int, NEW b \in Int, NEW c \in Nat, a <= b
    PROVE  a * c <= b * c
<1>1. b - a \in Nat /\ (b - a) * c >= 0
  OBVIOUS
<1>2. (b - a) * c = b * c - a * c
  OBVIOUS
<1> QED BY <1>1, <1>2

\* A quotient is the largest number of times the divisor fits.
LEMMA Quotient ==
    ASSUME NEW a \in Nat, NEW d \in Nat \ {0}
    PROVE  /\ a \div d \in Nat
           /\ (a \div d) * d <= a /\ a < (a \div d) * d + d
OBVIOUS

\* A price rounded up to a multiple of the tick.
LEMMA CeilToTick ==
    ASSUME NEW num \in Nat, NEW den \in Nat \ {0}, NEW t \in Nat \ {0}
    PROVE  /\ ceilToTick(num, den, t) \in Nat
           /\ num <= ceilToTick(num, den, t) * den
<1> DEFINE d == den * t
           q == (num + d - 1) \div d
<1>1. d \in Nat \ {0} /\ num + d - 1 \in Nat
  OBVIOUS
<1>2. q \in Nat /\ num + d - 1 < q * d + d
  BY <1>1, Quotient
<1>3. ceilToTick(num, den, t) = q * t
  BY DEF ceilToTick, Ceil
<1>4. q * t \in Nat /\ (q * t) * den = q * d
  <2>1. \A k \in Nat : k * t \in Nat /\ (k * t) * den = k * (den * t)
    OBVIOUS
  <2> HIDE DEF q
  <2> QED BY <1>2, <2>1
<1>5. num <= q * d
  <2> HIDE DEF q, d
  <2>1. q * d \in Nat
    BY <1>1, <1>2
  <2> QED BY <1>1, <1>2, <2>1
<1> QED BY <1>3, <1>4, <1>5

\* A number of lots that a budget pays for, at a price.
LEMMA LotsWithin ==
    ASSUME NEW b \in Nat, NEW p \in Nat \ {0}
    PROVE  LET size == ((b * ShareUnits) \div (p * Lot)) * Lot
           IN  size \in Nat /\ size * p <= b * ShareUnits
<1> DEFINE n == (b * ShareUnits) \div (p * Lot)
<1>1. ShareUnits \in Nat \ {0} /\ Lot \in Nat \ {0}
  BY TradeAssumption
<1>2. b * ShareUnits \in Nat /\ p * Lot \in Nat \ {0}
  BY <1>1
<1>3. n \in Nat /\ n * (p * Lot) <= b * ShareUnits
  BY <1>2, Quotient
<1>4. n * Lot \in Nat /\ (n * Lot) * p = n * (p * Lot)
  <2>1. \A k, l \in Nat : k * l \in Nat /\ (k * l) * p = k * (p * l)
    OBVIOUS
  <2> HIDE DEF n
  <2> QED BY <1>1, <1>3, <2>1
<1> QED BY <1>3, <1>4

\* What is left for shares when the fee is taken off the budget: never more than the
\* budget, and with the fee no more than that when the fee is known or within the reserve.
LEMMA FeeFits ==
    ASSUME NEW b \in Nat, feeRate \in FeeRates
    PROVE  /\ adjustBuyAmountForFees(b) \in Nat
           /\ adjustBuyAmountForFees(b) * (100 + feeRate) <= b * 100
           /\ (b * (100 - clobBuyFeeBps)) \div 100 \in Nat
           /\ adjustBuyAmountForFees(b) <= b /\ (b * (100 - clobBuyFeeBps)) \div 100 <= b
           /\ feeRate <= clobBuyFeeBps =>
                ((b * (100 - clobBuyFeeBps)) \div 100) * (100 + feeRate) <= b * 100
<1>1. /\ feeRate \in Nat
      /\ clobBuyFeeBps \in Nat /\ 100 - clobBuyFeeBps \in Nat
  BY TradeAssumption
<1>2. /\ adjustBuyAmountForFees(b) \in Nat
      /\ adjustBuyAmountForFees(b) * (100 + feeRate) <= b * 100
  <2>1. b * 100 \in Nat /\ 100 + feeRate \in Nat \ {0}
    BY <1>1
  <2> QED BY <2>1, Quotient DEF adjustBuyAmountForFees
<1> DEFINE n == (b * (100 - clobBuyFeeBps)) \div 100
<1>3. b * (100 - clobBuyFeeBps) \in Nat
  BY <1>1
<1>4. n \in Nat /\ n * 100 <= b * (100 - clobBuyFeeBps)
  BY <1>3, Quotient
<1>5. ASSUME feeRate <= clobBuyFeeBps
      PROVE  n * (100 + feeRate) <= b * 100
  <2> HIDE DEF n
  <2>1. (n * 100) * (100 + feeRate) <= (b * (100 - clobBuyFeeBps)) * (100 + feeRate)
    BY <1>1, <1>3, <1>4, TimesMonotone
  <2>2. (100 - clobBuyFeeBps) * (100 + feeRate) <= 10000
    <3>1. (100 - clobBuyFeeBps) * (100 + feeRate)
             = 10000 - 100 * (clobBuyFeeBps - feeRate) - clobBuyFeeBps * feeRate
      BY <1>1
    <3>2. clobBuyFeeBps * feeRate \in Nat /\ clobBuyFeeBps - feeRate \in Nat
      BY <1>1, <1>5
    <3> QED BY <1>1, <3>1, <3>2
  <2>3. ((100 - clobBuyFeeBps) * (100 + feeRate)) * b <= 10000 * b
    BY <1>1, <2>2, TimesMonotone
  <2>4. /\ (b * (100 - clobBuyFeeBps)) * (100 + feeRate)
             = ((100 - clobBuyFeeBps) * (100 + feeRate)) * b
        /\ (n * 100) * (100 + feeRate) = 100 * (n * (100 + feeRate))
        /\ 10000 * b = 100 * (b * 100)
        /\ n * (100 + feeRate) \in Nat /\ b * 100 \in Nat
    <3>1. \A i, j, k \in Nat : /\ (i * j) * k = (j * k) * i
                              /\ (i * 100) * k = 100 * (i * k)
                              /\ i * k \in Nat
      OBVIOUS
    <3>2. 100 + feeRate \in Nat
      BY <1>1
    <3>3. (b * (100 - clobBuyFeeBps)) * (100 + feeRate) = ((100 - clobBuyFeeBps) * (100 + feeRate)) * b
      BY <1>1, <3>1, <3>2
    <3>4. (n * 100) * (100 + feeRate) = 100 * (n * (100 + feeRate)) /\ n * (100 + feeRate) \in Nat
      BY <1>4, <3>1, <3>2
    <3>5. 10000 * b = 100 * (b * 100) /\ b * 100 \in Nat
      OBVIOUS
    <3> QED BY <3>3, <3>4, <3>5
  <2> DEFINE x == n * (100 + feeRate)
             y == b * 100
             u == (n * 100) * (100 + feeRate)
             v == (b * (100 - clobBuyFeeBps)) * (100 + feeRate)
             z == 10000 * b
  <2>5. u <= v /\ v <= z
    BY <2>1, <2>3, <2>4
  <2>6. u = 100 * x /\ z = 100 * y /\ x \in Nat /\ y \in Nat /\ v \in Int
    BY <1>1, <2>4
  <2> HIDE DEF x, y, u, v, z
  <2>7. x <= y
    BY <2>5, <2>6
  <2> QED BY <2>7 DEF x, y
<1>6. adjustBuyAmountForFees(b) <= b
  <2>1. \A k \in Nat : k * (100 + feeRate) = k * 100 + k * feeRate /\ k * feeRate \in Nat
    BY <1>1
  <2> QED BY <1>2, <2>1
<1>7. n <= b
  <2>1. b * clobBuyFeeBps \in Nat /\ b * (100 - clobBuyFeeBps) = b * 100 - b * clobBuyFeeBps
    BY <1>1
  <2> HIDE DEF n
  <2> QED BY <1>4, <2>1
<1> QED BY <1>2, <1>4, <1>5, <1>6, <1>7

\* An order stays within the shares of the proof and within the stake, with the fee, too,
\* when it is known or within the reserve.
LEMMA OrderWithin ==
    ASSUME feeRate \in FeeRates, bet.stake \in Nat, bet.price \in Nat \ {0}, bet.shares \in Nat,
           NEW t \in Ticks, NEW onChain \in BalanceReads, NEW atClob \in BalanceReads,
           NEW feeRead \in BOOLEAN
    PROVE  LET o == budgetedBuyOrder(t, onChain, atClob, feeRead) IN
           /\ o.price \in Nat /\ o.size \in Nat /\ o.size <= bet.shares
           /\ o.size * o.price <= bet.stake * ShareUnits
           /\ feeRead \/ feeRate <= clobBuyFeeBps =>
                o.size * o.price * (100 + feeRate) <= bet.stake * ShareUnits * 100
<1> DEFINE o == budgetedBuyOrder(t, onChain, atClob, feeRead)
           price == ceilToTick(bet.price, 1, t)
           held == Min({bet.stake, onChain})
           budget == IF atClob = 0 THEN held ELSE Min({held, atClob})
           feeBudget == IF feeRead THEN adjustBuyAmountForFees(budget)
                        ELSE (budget * (100 - clobBuyFeeBps)) \div 100
           affordable == ((feeBudget * ShareUnits) \div (price * Lot)) * Lot
<1>1. /\ t \in Nat \ {0} /\ onChain \in Nat /\ atClob \in Nat /\ ShareUnits \in Nat
      /\ feeRate \in Nat /\ 100 + feeRate \in Nat
  BY TradeAssumption DEF BalanceReads
<1>2. o = [price |-> price, size |-> Min({bet.shares, affordable})]
  BY DEF budgetedBuyOrder
<1>3. price \in Nat \ {0}
  <2>1. price \in Nat /\ bet.price <= price * 1
    BY <1>1, CeilToTick
  <2> QED BY <2>1
<1>4. budget \in Nat /\ budget <= bet.stake
  <2>1. held \in Nat /\ held <= bet.stake
    BY <1>1, MinOfTwo
  <2> HIDE DEF held
  <2>2. Min({held, atClob}) \in Nat /\ Min({held, atClob}) <= held
    BY <1>1, <2>1, MinOfTwo
  <2> QED BY <2>1, <2>2
<1> HIDE DEF price, held, budget
<1>5. feeBudget \in Nat /\ feeBudget <= budget
  BY <1>4, FeeFits
<1>14. feeRead \/ feeRate <= clobBuyFeeBps => feeBudget * (100 + feeRate) <= budget * 100
  BY <1>4, FeeFits
<1> HIDE DEF feeBudget
<1>6. affordable \in Nat /\ affordable * price <= feeBudget * ShareUnits
  BY <1>3, <1>5, LotsWithin
<1> HIDE DEF affordable
<1>7. /\ o.price = price /\ o.size \in Nat
      /\ o.size <= bet.shares /\ o.size <= affordable
  BY <1>2, <1>6, MinOfTwo
<1> HIDE DEF o
<1>8. o.size * price <= feeBudget * ShareUnits
  <2>1. o.size * price <= affordable * price
    BY <1>3, <1>6, <1>7, TimesMonotone
  <2>2. o.size * price \in Nat /\ affordable * price \in Nat /\ feeBudget * ShareUnits \in Nat
    BY <1>1, <1>3, <1>5, <1>6, <1>7
  <2> QED BY <1>6, <2>1, <2>2
<1>9. (o.size * price) * (100 + feeRate) <= (feeBudget * ShareUnits) * (100 + feeRate)
  <2>1. o.size * price \in Nat /\ feeBudget * ShareUnits \in Nat
    BY <1>1, <1>3, <1>5, <1>7
  <2> QED BY <1>1, <1>8, <2>1, TimesMonotone
<1>10. feeRead \/ feeRate <= clobBuyFeeBps =>
           (feeBudget * (100 + feeRate)) * ShareUnits <= (budget * 100) * ShareUnits
  <2>1. feeBudget * (100 + feeRate) \in Nat /\ budget * 100 \in Nat
    BY <1>1, <1>4, <1>5
  <2> QED BY <1>1, <1>14, <2>1, TimesMonotone
<1>11. /\ budget * (100 * ShareUnits) <= bet.stake * (100 * ShareUnits)
       /\ feeBudget * ShareUnits <= bet.stake * ShareUnits
  <2>1. feeBudget <= bet.stake
    BY <1>4, <1>5
  <2> QED BY <1>1, <1>4, <1>5, <2>1, TimesMonotone
<1>12. /\ (feeBudget * ShareUnits) * (100 + feeRate) = (feeBudget * (100 + feeRate)) * ShareUnits
       /\ (budget * 100) * ShareUnits = budget * (100 * ShareUnits)
       /\ bet.stake * (100 * ShareUnits) = bet.stake * ShareUnits * 100
       /\ (o.size * price) * (100 + feeRate) \in Int
       /\ (feeBudget * (100 + feeRate)) * ShareUnits \in Int
       /\ budget * (100 * ShareUnits) \in Int /\ bet.stake * ShareUnits * 100 \in Int
  BY <1>1, <1>3, <1>4, <1>5, <1>7
<1>13. feeRead \/ feeRate <= clobBuyFeeBps =>
           (o.size * price) * (100 + feeRate) <= bet.stake * ShareUnits * 100
  BY <1>9, <1>10, <1>11, <1>12
<1>15. o.size * price <= bet.stake * ShareUnits
  <2>1. /\ o.size * price \in Int /\ feeBudget * ShareUnits \in Int
        /\ bet.stake * ShareUnits \in Int
    BY <1>1, <1>3, <1>5, <1>7
  <2> QED BY <1>8, <1>11, <2>1
<1> QED BY <1>3, <1>7, <1>13, <1>15 DEF o

-----------------------------------------------------------------------------
(* The quote.                                                              *)

\* A set of naturals has a least element, and a bounded one a greatest.
LEMMA LeastOf ==
    ASSUME NEW T \in SUBSET Nat, T # {}
    PROVE  Min(T) \in T /\ \A m \in T : Min(T) <= m
<1> DEFINE R == {ss \in Nat \X Nat : ss[1] < ss[2]}
<1>1. IsWellFoundedOn(R, Nat)
  BY NatLessThanWellFounded DEF OpToRel
<1>2. PICK n \in T : \A m \in T : ~(<<m, n>> \in R)
  BY <1>1, WFMin
<1>3. ASSUME NEW m \in T PROVE n <= m
  <2>1. ~(m < n)
    BY <1>2
  <2> QED BY <2>1
<1> QED BY <1>3 DEF Min

LEMMA GreatestOf ==
    ASSUME NEW c \in Nat, NEW T \in SUBSET (0..c), T # {}
    PROVE  Max(T) \in T /\ \A m \in T : m <= Max(T)
<1> DEFINE U == {c - m : m \in T}
<1>1. U \in SUBSET Nat /\ U # {}
  <2>1. \A m \in T : c - m \in Nat
    OBVIOUS
  <2>2. PICK m \in T : TRUE
    OBVIOUS
  <2>3. c - m \in U
    BY <2>2
  <2> QED BY <2>1, <2>3
<1>2. \E u \in U : \A v \in U : u <= v
  <2> HIDE DEF U
  <2>1. Min(U) \in U /\ \A v \in U : Min(U) <= v
    BY <1>1, LeastOf
  <2> QED BY <2>1
<1>3. PICK n \in T : \A v \in U : c - n <= v
  BY <1>2
<1>4. ASSUME NEW m \in T PROVE n >= m
  <2>1. c - n <= c - m
    BY <1>3
  <2> QED BY <2>1
<1>5. \E x \in T : \A y \in T : x >= y
  BY <1>4
<1>6. Max(T) \in T /\ \A y \in T : Max(T) >= y
  BY <1>5 DEF Max
<1> QED BY <1>6

\* What an order book shows of a side.
LEMMA SideLevelsTyped ==
    ASSUME NEW book \in Books, NEW side
    PROVE  sideLevels(book, side) \in Seq(Levels)
<1>1. book.asks \in Seq(Levels) /\ book.bids \in Seq(Levels) /\ Dollar \in Nat
  BY TradeAssumption
<1>2. CASE side = "YES"
  BY <1>1, <1>2 DEF sideLevels
<1>3. CASE side # "YES"
  <2> DEFINE f == [k \in DOMAIN book.bids |-> [book.bids[k] EXCEPT !.price = Dollar - @]]
  <2>1. Len(book.bids) \in Nat /\ DOMAIN book.bids = 1..Len(book.bids)
    BY <1>1, LenProperties
  <2>2. ASSUME NEW k \in DOMAIN book.bids
        PROVE  [book.bids[k] EXCEPT !.price = Dollar - @] \in Levels
    <3>1. book.bids[k] \in Levels
      BY <1>1, <2>1, ElementOfSeq
    <3>2. book.bids[k].price \in 0..Dollar
      BY <3>1 DEF Levels
    <3>3. Dollar - book.bids[k].price \in 0..Dollar
      BY <1>1, <3>2
    <3> QED BY <3>1, <3>3 DEF Levels
  <2>3. f \in [1..Len(book.bids) -> Levels]
    BY <2>1, <2>2
  <2>4. f \in Seq(Levels)
    BY <2>1, <2>3, SeqDef
  <2> QED BY <1>3, <2>4 DEF sideLevels
<1> QED BY <1>2, <1>3

\* The prices of a side with levels.
LEMMA PricesOf ==
    ASSUME NEW levels \in Seq(Levels), levels # <<>>
    PROVE  LET prices == {levels[k].price : k \in DOMAIN levels}
           IN  prices \in SUBSET (0..Dollar) /\ prices # {}
<1>1. Len(levels) \in Nat /\ DOMAIN levels = 1..Len(levels) /\ Len(levels) # 0
  BY EmptySeq, LenProperties
<1>2. \A k \in DOMAIN levels : levels[k] \in Levels
  BY <1>1, ElementOfSeq
<1>3. 1 \in DOMAIN levels
  BY <1>1
<1> QED BY <1>2, <1>3 DEF Levels

\* The price of a quote is a natural.
LEMMA QuoteTyped ==
    ASSUME NEW kind, NEW side \in Sides, NEW stake \in Stakes, NEW book \in Books,
           NEW t \in Ticks, NEW limit \in LimitPrices
    PROVE  effectivePrice(kind, side, stake, book, t, limit) \in Nat
<1> DEFINE levels == sideLevels(book, side)
           ask == bestAsk(book, side)
<1>1. /\ Dollar \in Nat /\ t \in 1..(Dollar - 1) /\ limit \in Nat /\ stake \in Nat
      /\ Slippage \in Nat /\ book.mid \in 0..Dollar
  BY TradeAssumption
<1>2. levels \in Seq(Levels)
  BY SideLevelsTyped
<1>3. ask \in Nat
  <2>1. CASE levels = <<>>
    BY <1>1, <2>1 DEF bestAsk
  <2>2. CASE levels # <<>>
    <3> DEFINE prices == {levels[k].price : k \in DOMAIN levels}
    <3>1. prices \in SUBSET Nat /\ prices # {}
      BY <1>1, <1>2, <2>2, PricesOf
    <3>2. ask = Min(prices)
      BY <2>2 DEF bestAsk
    <3> HIDE DEF prices, ask
    <3>3. Min(prices) \in Nat
      BY <3>1, LeastOf
    <3> QED BY <3>2, <3>3
  <2> QED BY <2>1, <2>2
<1> HIDE DEF ask, levels
<1>4. ASSUME NEW p \in Nat PROVE marketBuyCeiling(p, t) \in Nat
  <2> DEFINE c == ceilToTick(p * (100 + Slippage), 100, t)
  <2>1. p * (100 + Slippage) \in Nat
    BY <1>1
  <2>2. c \in Nat
    BY <1>1, <2>1, CeilToTick
  <2> HIDE DEF c
  <2> DEFINE floor == Max({t, c})
  <2>3. floor \in Nat
    BY <1>1, <2>2, MaxOfTwo
  <2>4. Dollar - t \in Nat
    BY <1>1
  <2>5. marketBuyCeiling(p, t) = Min({Dollar - t, floor})
    BY DEF marketBuyCeiling, Clamped, c
  <2> HIDE DEF floor
  <2>6. Min({Dollar - t, floor}) \in Nat
    BY <2>3, <2>4, MinOfTwo
  <2> QED BY <2>5, <2>6
<1>5. marketBuyCeilingFromBook(levels, stake, t, ask) \in Nat
  <2>1. CASE levels = <<>>
    <3>1. marketBuyCeilingFromBook(levels, stake, t, ask) = marketBuyCeiling(ask, t)
      BY <2>1 DEF marketBuyCeilingFromBook
    <3> QED BY <1>3, <1>4, <3>1
  <2>2. CASE levels # <<>>
    <3> DEFINE prices == {levels[k].price : k \in DOMAIN levels}
               cost(p) == MapThenSumSet(LAMBDA k : levels[k].price * levels[k].size,
                                        {k \in DOMAIN levels : levels[k].price <= p})
               covers == {p \in prices : cost(p) >= stake}
               clearing == IF covers = {} THEN Max(prices) ELSE Min(covers)
    <3>1. prices \in SUBSET (0..Dollar) /\ prices # {}
      BY <1>2, <2>2, PricesOf
    <3>2. marketBuyCeilingFromBook(levels, stake, t, ask) = marketBuyCeiling(clearing, t)
      BY <2>2 DEF marketBuyCeilingFromBook
    <3>3. covers \in SUBSET prices
      OBVIOUS
    <3> HIDE DEF covers, prices
    <3>4. clearing \in Nat
      <4>1. Max(prices) \in prices
        BY <1>1, <3>1, GreatestOf
      <4>2. covers \in SUBSET Nat
        BY <1>1, <3>1, <3>3
      <4>3. covers # {} => Min(covers) \in covers
        BY <4>2, LeastOf
      <4> DEFINE top == Max(prices)
                 least == Min(covers)
      <4>4. top \in prices /\ (covers # {} => least \in covers)
        BY <4>1, <4>3
      <4>5. clearing = IF covers = {} THEN top ELSE least
        OBVIOUS
      <4> HIDE DEF top, least, clearing
      <4> QED BY <1>1, <3>1, <4>2, <4>4, <4>5
    <3> QED BY <1>4, <3>2, <3>4
  <2> QED BY <2>1, <2>2
<1>6. roundToTick(limit, t) \in Nat
  <2>1. 2 * limit + t \in Nat /\ 2 * t \in Nat \ {0}
    BY <1>1
  <2>2. (2 * limit + t) \div (2 * t) \in Nat
    BY <2>1, Quotient
  <2> QED BY <1>1, <2>2 DEF roundToTick
<1> QED BY <1>5, <1>6 DEF effectivePrice, levels, ask

\* What a bet of enough shares commits to.
LEMMA PreviewTyped ==
    ASSUME NEW stake \in Nat, NEW price \in Nat, computeOrderPreview(stake, price) >= MIN_SHARES
    PROVE  price \in Nat \ {0} /\ computeOrderPreview(stake, price) \in Nat
<1>1. MIN_SHARES \in Nat \ {0} /\ ShareUnits \in Nat
  BY TradeAssumption
<1>2. price # 0
  BY <1>1 DEF computeOrderPreview
<1>3. stake * ShareUnits \in Nat
  BY <1>1
<1>4. (stake * ShareUnits) \div price \in Nat
  BY <1>2, <1>3, Quotient
<1> QED BY <1>2, <1>4 DEF computeOrderPreview

-----------------------------------------------------------------------------
(* The invariant.                                                          *)

Jobs == [circuit : {"bet_auth", "partial_credit", "position_close"}, note : Nat,
         by : {"user", "page", "modal"}]

\* The row both services make of the market.
Row == binaryIndices(outcomes)

Drafts == [at : {"prove", "intent", "relay"}, side : Sides, kind : {"MARKET", "LIMIT"},
           stake : Nat, price : Nat \ {0}, shares : Nat, token : {Row[1], Row[2]}]
Bets == [side : Sides, kind : {"MARKET", "LIMIT"}, stake : Nat, price : Nat \ {0},
         shares : Nat, token : {Row[1], Row[2]}, asked : Nat, sold : Nat,
         status : {"ACTIVE", "FILLED", "CLOSED_CREDITED"}]

Types ==
    /\ feeRate \in FeeRates /\ note \in Nat /\ intent \in {"none", "GTC"}
    /\ proofs \in Seq(Jobs)
    /\ sell.size \in Nat /\ soldAtt \in Nat /\ outcome.filled \in Nat

\* The pages' rows and the registry's are one.
RowsAgree == {catalog, page, registry} \subseteq {NoRow, Row}

\* A bet with a limit is relayed with its intent stored.
DraftInv ==
    \/ draft = NoDraft
    \/ /\ draft \in Drafts /\ bet = NoBet /\ draft.token = Row[Slot(draft.side)]
       /\ draft.at = "relay" /\ draft.kind = "LIMIT" => intent = "GTC"

\* Without a bet nothing is ordered; a bet keeps what was shown and asked for.
BetInv ==
    /\ bet = NoBet => order = NoOrder /\ outcome = Pending
    /\ bet # NoBet =>
         /\ bet \in Bets /\ bet.token = Row[Slot(bet.side)]
         /\ bet.shares <= bet.asked /\ outcome.filled <= bet.asked
         /\ bet.kind = "LIMIT" => intent = "GTC"

\* Without an order nothing is filled, shown as filled, credited or sold.
OrderInv ==
    /\ order = NoOrder =>
         /\ outcome.type \notin {"FILLED", "PARTIAL"}
         /\ bet.status \notin {"FILLED", "CLOSED_CREDITED"}
         /\ view.type \notin {"FILLED", "PARTIAL"} /\ view.status # "FILLED"
         /\ \A k \in DOMAIN proofs : proofs[k].circuit # "partial_credit"
         /\ sell = NoOrder /\ modal = "none"
    /\ sell = NoOrder => soldAtt = 0
    /\ order # NoOrder => order.size \in Nat /\ order.size <= bet.asked

Inv == Types /\ RowsAgree /\ DraftInv /\ BetInv /\ OrderInv /\ OrderMatchesQuote

-----------------------------------------------------------------------------
(* What a step leaves alone keeps its part of the invariant.               *)

LEMMA TypesKept ==
    ASSUME Types, UNCHANGED <<feeRate, note, intent, proofs, sell, soldAtt, outcome>>
    PROVE  Types'
BY DEF Types

LEMMA RowsKept ==
    ASSUME RowsAgree, UNCHANGED <<catalog, page, registry, outcomes>>
    PROVE  RowsAgree'
BY DEF RowsAgree, Row

LEMMA DraftKept ==
    ASSUME DraftInv, UNCHANGED <<draft, bet, intent, outcomes>>
    PROVE  DraftInv'
BY DEF DraftInv, Drafts, Row

LEMMA BetKept ==
    ASSUME BetInv, UNCHANGED <<bet, order, outcome, intent, outcomes>>
    PROVE  BetInv'
BY DEF BetInv, Bets, Row

LEMMA OrderKept ==
    ASSUME OrderInv, UNCHANGED <<order, outcome, bet, view, proofs, sell, soldAtt, modal>>
    PROVE  OrderInv'
BY DEF OrderInv

LEMMA QuoteKept ==
    ASSUME OrderMatchesQuote, UNCHANGED <<order, bet, feeRate, sell>>
    PROVE  OrderMatchesQuote'
BY DEF OrderMatchesQuote, FeeReserved

-----------------------------------------------------------------------------
(* Rows, proofs and what the portfolio offers.                             *)

\* The registry's rule and the catalog's make one row: a market has the outcomes of one
\* canonical pair at most.
LEMMA OneRow == ASSUME NEW o PROVE toRow(o) = binaryIndices(o)
<1>1. CASE \E p \in BINARY_PAIRS : Range(p) = Range(o)
  <2>1. PICK p \in BINARY_PAIRS : Range(p) = Range(o)
    BY <1>1
  <2>2. \A q \in BINARY_PAIRS : Range(q) = Range(o) => q = p
    BY <2>1, MarketsAssumption
  <2>3. (CHOOSE q \in BINARY_PAIRS : Range(q) = Range(o)) = p
    BY <2>1, <2>2
  <2>4. Canonical(o) = {p}
    BY <2>1, <2>2 DEF Canonical
  <2>5. (CHOOSE q \in Canonical(o) : TRUE) = p
    BY <2>4
  <2> QED BY <1>1, <2>3, <2>4, <2>5 DEF toRow, binaryIndices
<1>2. CASE ~ \E p \in BINARY_PAIRS : Range(p) = Range(o)
  <2>1. Canonical(o) = {}
    BY <1>2 DEF Canonical
  <2> QED BY <1>2, <2>1 DEF toRow, binaryIndices
<1> QED BY <1>1, <1>2

\* A token that is traded is the one on the page.
LEMMA TokenTraded ==
    ASSUME RowsAgree, ~Mock, NEW side \in Sides
    PROVE  /\ decideBuyToken(side, "position") # "reject" =>
                decideBuyToken(side, "position") = Row[Slot(side)]
           /\ \A token \in {decideCloseToken(side, "position"),
                            IF Mock THEN "position" ELSE "reject"} :
                token # "reject" => token = Row[Slot(side)]
<1>1. registry # NoRow => registry = Row
  BY DEF RowsAgree
<1> QED BY <1>1 DEF decideBuyToken, decideCloseToken, resolveToken

\* A proof that is asked for waits after the others.
LEMMA ProofAsked ==
    ASSUME proofs \in Seq(Jobs), NEW job \in Jobs, Asked(job)
    PROVE  /\ proofs' \in Seq(Jobs)
           /\ \A k \in DOMAIN proofs' : proofs'[k] = job \/ (k \in DOMAIN proofs /\ proofs'[k] = proofs[k])
<1> DEFINE s == Append(proofs, job)
<1>1. proofs' = s
  BY DEF Asked
<1>2. /\ s \in Seq(Jobs) /\ Len(s) = Len(proofs) + 1
      /\ \A k \in 1..Len(proofs) : s[k] = proofs[k]
      /\ s[Len(proofs) + 1] = job
  BY AppendProperties
<1> HIDE DEF s
<1>3. Len(proofs) \in Nat /\ DOMAIN proofs = 1..Len(proofs) /\ DOMAIN s = 1..(Len(proofs) + 1)
  BY <1>2, LenProperties
<1>4. \A k \in 1..(Len(proofs) + 1) : k = Len(proofs) + 1 \/ k \in 1..Len(proofs)
  BY <1>3
<1> QED BY <1>1, <1>2, <1>3, <1>4

\* One that settles leaves the others.
LEMMA ProofSettled ==
    ASSUME proofs \in Seq(Jobs), NEW job, NEW ok, Settles(job, ok)
    PROVE  /\ job \in Jobs /\ job = proofs[1] /\ 1 \in DOMAIN proofs
           /\ proofs' \in Seq(Jobs)
           /\ \A k \in DOMAIN proofs' : k + 1 \in DOMAIN proofs /\ proofs'[k] = proofs[k + 1]
BY DEF Settles, Advanced

\* No proof of a credit is among them unless one was before.
LEMMA NoCreditAsked ==
    ASSUME proofs \in Seq(Jobs), NEW job \in Jobs, Asked(job),
           job.circuit # "partial_credit",
           \A k \in DOMAIN proofs : proofs[k].circuit # "partial_credit"
    PROVE  \A k \in DOMAIN proofs' : proofs'[k].circuit # "partial_credit"
BY ProofAsked
LEMMA NoCreditSettled ==
    ASSUME proofs \in Seq(Jobs), NEW job, NEW ok, Settles(job, ok),
           \A k \in DOMAIN proofs : proofs[k].circuit # "partial_credit"
    PROVE  \A k \in DOMAIN proofs' : proofs'[k].circuit # "partial_credit"
BY ProofSettled

\* A close, or the claim of a refund, is offered only for what was ordered.
LEMMA OfferedOfOrder ==
    ASSUME OrderInv, NEW offer \in {"Close", "Claim refund"}, offer \in Offered
    PROVE  order # NoOrder
<1>1. PICK ready \in {FALSE, listed = "resolved"} : renderReceiptRow(ready) = offer
  BY DEF Offered
<1>2. classifyReceipt.isPartial \/ classifyReceipt.isFilled
  <2> DEFINE r == classifyReceipt
  <2>1. renderReceiptRow(ready) =
          CASE view.sold -> "Credit"
            [] marker # "none" /\ ~view.sold -> "Cancel sell"
            [] OTHER ->
                 CASE ready -> "Settle"
                   [] ~ready /\ r.isPartial -> "Claim refund"
                   [] ~ready /\ r.isFailed -> "Reclaim stake"
                   [] ~ready /\ r.isFilled -> "Close"
                   [] OTHER -> "wait"
    BY DEF renderReceiptRow
  <2> HIDE DEF r
  <2> SUFFICES r.isPartial \/ r.isFilled
    BY DEF r
  <2> QED BY <1>1, <2>1
<1>3. view.type \in {"PARTIAL", "FILLED"} \/ view.status = "FILLED"
  BY <1>2 DEF classifyReceipt
<1> QED BY <1>3 DEF OrderInv

-----------------------------------------------------------------------------
(* The steps.                                                              *)

\* What the catalog and the registry take is the market's row.
LEMMA RowTaken ==
    /\ toCatalogRow \in {NoRow, Row}
    /\ (IF listed = "open" THEN toRow(outcomes) ELSE NoRow) \in {NoRow, Row}
BY OneRow DEF toCatalogRow, Row

\* The syncs, the relay's routes and the registry's sync change a row to the market's.
LEMMA CatalogChanges ==
    ASSUME RowsAgree, Catalog
    PROVE  /\ {catalog', registry'} \subseteq {NoRow, Row} /\ outcomes' = outcomes
<1>1. {catalog, registry} \subseteq {NoRow, Row}
  BY DEF RowsAgree
<1>2. CASE syncCatalog
  BY <1>1, <1>2, RowTaken DEF syncCatalog
<1>3. CASE askMarket
  BY <1>1, <1>3, RowTaken DEF askMarket, ServeMarket, ingestByConditionId, upsertRows
<1>4. CASE searchMarkets \/ syncCategoryLive
  BY <1>1, <1>4, RowTaken DEF searchMarkets, syncCategoryLive, upsertRows
<1>5. CASE resolveMarketName \/ gammaCloses \/ marketResolves
  BY <1>1, <1>5 DEF resolveMarketName, gammaCloses, marketResolves
<1>6. CASE syncMarkets
  BY <1>1, <1>6, RowTaken DEF syncMarkets, Registered
<1> QED BY <1>2, <1>3, <1>4, <1>5, <1>6 DEF Catalog, MarketRoutes

\* Of a catalog step only the rows.
LEMMA CatalogKeeps ==
    ASSUME Inv, Catalog, UNCHANGED <<proverVars, tradeVars>>
    PROVE  Inv'
<1>1. {catalog', registry'} \subseteq {NoRow, Row} /\ outcomes' = outcomes
  BY CatalogChanges DEF Inv
<1>2. RowsAgree'
  BY <1>1 DEF Inv, RowsAgree, Row, tradeVars
<1>3. Types' /\ OrderInv' /\ OrderMatchesQuote'
  BY TypesKept, OrderKept, QuoteKept DEF Inv, proverVars, tradeVars
<1>4. DraftInv' /\ BetInv'
  BY <1>1, DraftKept, BetKept DEF Inv, tradeVars
<1> QED BY <1>2, <1>3, <1>4 DEF Inv

\* A proof that starts, or starts over, changes none of it.
LEMMA ProvingKeeps ==
    ASSUME Inv, Proving, UNCHANGED <<marketVars, tradeVars>>
    PROVE  Inv'
<1>1. proofs' = proofs
  BY DEF Proving, startsInWorker, startsOnMainThread, workerCrashes, MainThread
<1>2. Types' /\ RowsAgree'
  BY <1>1, TypesKept, RowsKept DEF Inv, marketVars, tradeVars
<1>3. DraftInv' /\ BetInv'
  BY DraftKept, BetKept DEF Inv, marketVars, tradeVars
<1>4. OrderInv' /\ OrderMatchesQuote'
  BY <1>1, OrderKept, QuoteKept DEF Inv, tradeVars
<1> QED BY <1>2, <1>3, <1>4 DEF Inv

\* The page's row is the market's.
LEMMA LoadMarketKeeps ==
    ASSUME Inv, loadMarket
    PROVE  Inv'
<1>1. Types'
  BY TypesKept DEF Inv, loadMarket, proverVars
<1>2. RowsAgree'
  <2>1. catalog \in {NoRow, Row} /\ page \in {NoRow, Row} /\ registry \in {NoRow, Row}
    BY DEF Inv, RowsAgree
  <2>2. catalog' \in {NoRow, Row} /\ page' \in {NoRow, Row}
    BY <2>1, RowTaken DEF loadMarket, ServeMarket, ingestByConditionId, upsertRows
  <2> QED BY <2>1, <2>2 DEF loadMarket, RowsAgree, Row
<1>3. DraftInv'
  BY DraftKept DEF Inv, loadMarket, proverVars
<1>4. BetInv'
  BY BetKept DEF Inv, loadMarket, proverVars
<1>5. OrderInv'
  BY OrderKept DEF Inv, loadMarket, proverVars
<1>6. OrderMatchesQuote'
  BY QuoteKept DEF Inv, loadMarket, proverVars
<1> QED BY <1>1, <1>2, <1>3, <1>4, <1>5, <1>6 DEF Inv

\* The registry's row is the market's.
LEMMA RegisterMarketKeeps ==
    ASSUME Inv, registerMarket
    PROVE  Inv'
<1>1. Types'
  BY TypesKept DEF Inv, registerMarket, proverVars
<1>2. RowsAgree'
  <2>1. {catalog, page, registry} \subseteq {NoRow, Row}
    BY DEF Inv, RowsAgree
  <2>2. registry' \in {NoRow, Row}
    BY <2>1, RowTaken DEF registerMarket, syncOneMarket, Registered
  <2> QED BY <2>1, <2>2 DEF registerMarket, RowsAgree, Row
<1>3. DraftInv'
  BY DraftKept DEF Inv, registerMarket, proverVars
<1>4. BetInv'
  BY BetKept DEF Inv, registerMarket, proverVars
<1>5. OrderInv'
  BY OrderKept DEF Inv, registerMarket, proverVars
<1>6. OrderMatchesQuote'
  BY QuoteKept DEF Inv, registerMarket, proverVars
<1> QED BY <1>1, <1>2, <1>3, <1>4, <1>5, <1>6 DEF Inv

\* The dialog's bet shows the row's token and a price and shares of its own.
LEMMA SubmitKeeps ==
    ASSUME Inv, submit
    PROVE  Inv'
<1>1. Types'
  <2>1. Job("bet_auth", "user") \in Jobs /\ Asked(Job("bet_auth", "user"))
    BY DEF Inv, Types, Job, Jobs, submit
  <2>2. proofs' \in Seq(Jobs)
    BY <2>1, ProofAsked DEF Inv, Types
  <2> QED BY <2>2 DEF Inv, Types, submit
<1>2. RowsAgree'
  BY RowsKept DEF Inv, submit, marketVars
<1>3. DraftInv'
  <2>1. PICK side \in Sides, kind \in {"MARKET", "LIMIT"}, stake \in Stakes, book \in Books,
             t \in Ticks, limit \in LimitPrices :
          LET price == effectivePrice(kind, side, stake, book, t, limit)
              shares == computeOrderPreview(stake, price)
          IN  /\ stake >= MinBet /\ shares >= MIN_SHARES
              /\ draft' = [at |-> "prove", side |-> side, kind |-> kind, stake |-> stake,
                           price |-> price, shares |-> shares, token |-> page[Slot(side)]]
    BY DEF submit
  <2> DEFINE price == effectivePrice(kind, side, stake, book, t, limit)
             shares == computeOrderPreview(stake, price)
  <2>2. stake \in Nat
    BY TradeAssumption
  <2>3. price \in Nat
    BY QuoteTyped
  <2>4. shares >= MIN_SHARES
    BY <2>1
  <2>5. price \in Nat \ {0} /\ shares \in Nat
    <3> HIDE DEF price
    <3> QED BY <2>2, <2>3, <2>4, PreviewTyped
  <2>6. draft' = [at |-> "prove", side |-> side, kind |-> kind, stake |-> stake,
                  price |-> price, shares |-> shares, token |-> page[Slot(side)]]
    BY <2>1
  <2>7. page = Row
    BY DEF Inv, RowsAgree, submit
  <2>8. Slot(side) \in {1, 2}
    BY DEF Slot
  <2>9. bet' = NoBet /\ Row' = Row
    BY DEF submit, marketVars, Row
  <2> HIDE DEF price, shares
  <2> QED BY <2>2, <2>5, <2>6, <2>7, <2>8, <2>9 DEF DraftInv, Drafts
<1>4. BetInv'
  BY BetKept DEF Inv, submit, marketVars
<1>5. OrderInv'
  <2>1. Job("bet_auth", "user") \in Jobs /\ Asked(Job("bet_auth", "user"))
    BY DEF Inv, Types, Job, Jobs, submit
  <2>2. Job("bet_auth", "user").circuit # "partial_credit"
    BY DEF Job
  <2>3. proofs \in Seq(Jobs)
    BY DEF Inv, Types
  <2>4. (\A k \in DOMAIN proofs : proofs[k].circuit # "partial_credit") =>
          \A k \in DOMAIN proofs' : proofs'[k].circuit # "partial_credit"
    BY <2>1, <2>2, <2>3, NoCreditAsked
  <2> QED BY <2>4 DEF Inv, OrderInv, submit
<1>6. OrderMatchesQuote'
  BY QuoteKept DEF Inv, submit, marketVars
<1> QED BY <1>1, <1>2, <1>3, <1>4, <1>5, <1>6 DEF Inv

\* The bet goes on, a limit bet to its intent, or is given up.
LEMMA BetProvedKeeps ==
    ASSUME Inv, NEW ok \in BOOLEAN, betProved(ok)
    PROVE  Inv'
<1>1. Types'
  <2>1. proofs \in Seq(Jobs)
    BY DEF Inv, Types
  <2>2. PICK job \in Range(proofs) : Settles(job, ok)
    BY DEF betProved
  <2>3. proofs' \in Seq(Jobs)
    BY <2>1, <2>2, ProofSettled
  <2> QED BY <2>3 DEF Inv, Types, betProved
<1>2. RowsAgree'
  BY RowsKept DEF Inv, betProved, marketVars
<1>3. DraftInv'
  <2>1. DraftInv /\ bet' = bet /\ intent' = intent /\ Row' = Row
    BY DEF Inv, betProved, marketVars, Row
  <2>2. draft' = IF draft.at # "prove" THEN draft ELSE IF ~ok THEN NoDraft
                 ELSE [draft EXCEPT !.at = IF draft.kind = "LIMIT" THEN "intent" ELSE "relay"]
    BY DEF betProved
  <2> QED BY <2>1, <2>2 DEF DraftInv, Drafts, NoDraft
<1>4. BetInv'
  BY BetKept DEF Inv, betProved, marketVars
<1>5. OrderInv'
  <2>1. proofs \in Seq(Jobs)
    BY DEF Inv, Types
  <2>2. PICK job \in Range(proofs) : Settles(job, ok)
    BY DEF betProved
  <2>3. (\A k \in DOMAIN proofs : proofs[k].circuit # "partial_credit") =>
          \A k \in DOMAIN proofs' : proofs'[k].circuit # "partial_credit"
    BY <2>1, <2>2, NoCreditSettled
  <2> QED BY <2>3 DEF Inv, OrderInv, betProved
<1>6. OrderMatchesQuote'
  BY QuoteKept DEF Inv, betProved, marketVars
<1> QED BY <1>1, <1>2, <1>3, <1>4, <1>5, <1>6 DEF Inv

\* The intent is stored, or the bet is given up.
LEMMA RequestLimitOrderKeeps ==
    ASSUME Inv, requestLimitOrder
    PROVE  Inv'
<1>1. Types'
  BY DEF Inv, Types, requestLimitOrder, recordLimitOrder, proverVars
<1>2. RowsAgree'
  BY RowsKept DEF Inv, requestLimitOrder, marketVars, proverVars
<1>3. DraftInv'
  <2>1. DraftInv /\ bet' = bet /\ Row' = Row
    BY DEF Inv, requestLimitOrder, marketVars, Row
  <2> QED BY <2>1 DEF DraftInv, Drafts, NoDraft, requestLimitOrder, recordLimitOrder
<1>4. BetInv'
  <2>1. bet = NoBet /\ order = NoOrder /\ outcome = Pending
    BY DEF Inv, DraftInv, BetInv, requestLimitOrder, NoDraft
  <2> QED BY <2>1 DEF BetInv, requestLimitOrder
<1>5. OrderInv'
  BY OrderKept DEF Inv, requestLimitOrder, marketVars, proverVars
<1>6. OrderMatchesQuote'
  BY QuoteKept DEF Inv, requestLimitOrder, marketVars, proverVars
<1> QED BY <1>1, <1>2, <1>3, <1>4, <1>5, <1>6 DEF Inv

\* The record has what the dialog showed, before there is any order.
LEMMA RelayBetKeeps ==
    ASSUME Inv, relayBet
    PROVE  Inv'
<1>1. Types'
  BY DEF Inv, Types, relayBet, proverVars
<1>2. RowsAgree'
  BY DEF Inv, RowsAgree, Row, relayBet, marketVars
<1>3. DraftInv'
  BY DEF DraftInv, relayBet
<1>4. BetInv'
  <2>1. /\ draft \in Drafts /\ bet = NoBet /\ draft.token = Row[Slot(draft.side)]
        /\ draft.kind = "LIMIT" => intent = "GTC"
    BY DEF Inv, DraftInv, NoDraft, relayBet
  <2>2. order = NoOrder /\ outcome = Pending
    BY <2>1 DEF Inv, BetInv
  <2>3. UNCHANGED <<order, outcome, intent>> /\ Row' = Row
    BY DEF relayBet, marketVars, Row
  <2>4. CASE UNCHANGED bet
    BY <2>1, <2>2, <2>3, <2>4 DEF BetInv
  <2>5. CASE bet' = [side |-> draft.side, kind |-> draft.kind, stake |-> draft.stake,
                     price |-> draft.price, shares |-> draft.shares, token |-> draft.token,
                     asked |-> draft.shares, sold |-> 0, status |-> "ACTIVE"]
    <3>1. bet' \in Bets /\ (Bets)' = Bets
      BY <2>1, <2>3, <2>5 DEF Bets, Drafts
    <3>2. bet'.shares <= bet'.asked /\ outcome'.filled <= bet'.asked
      BY <2>1, <2>2, <2>3, <2>5 DEF Drafts, Pending
    <3> QED BY <2>1, <2>2, <2>3, <2>5, <3>1, <3>2 DEF BetInv
  <2> QED BY <2>4, <2>5 DEF relayBet
<1>5. OrderInv'
  <2>1. bet = NoBet /\ order = NoOrder
    BY DEF Inv, DraftInv, BetInv, NoDraft, relayBet
  <2>2. bet' = NoBet \/ bet'.status = "ACTIVE"
    BY <2>1 DEF relayBet
  <2> QED BY <2>1, <2>2 DEF Inv, OrderInv, NoBet, relayBet, proverVars
<1>6. OrderMatchesQuote'
  <2>1. order' = NoOrder /\ sell' = NoOrder
    BY DEF Inv, DraftInv, BetInv, OrderInv, NoDraft, relayBet
  <2> QED BY <2>1 DEF OrderMatchesQuote
<1> QED BY <1>1, <1>2, <1>3, <1>4, <1>5, <1>6 DEF Inv

\* The order is for the token the bet shows and within its shares and stake.
LEMMA ProcessBetEventKeeps ==
    ASSUME Inv, ~Mock, processBetEvent
    PROVE  Inv'
<1>1. order' # NoOrder =>
        /\ order'.size \in Nat /\ order'.size <= bet.asked /\ order'.token = bet.token
        /\ bet.kind = "LIMIT" => order'.kind = "LIMIT"
        /\ order'.size * order'.price <= bet.stake * ShareUnits
        /\ order'.feeRead \/ feeRate <= clobBuyFeeBps =>
             order'.size * order'.price * (100 + feeRate) <= bet.stake * ShareUnits * 100
  <2> DEFINE bought == decideBuyToken(bet.side, "position")
             kind == IF getLimitOrder = "none" THEN "MARKET" ELSE "LIMIT"
             o(t, onChain, atClob, feeRead) == budgetedBuyOrder(t, onChain, atClob, feeRead)
             made(t, onChain, atClob, feeRead) ==
                [price |-> o(t, onChain, atClob, feeRead).price,
                 size |-> o(t, onChain, atClob, feeRead).size, token |-> bought,
                 feeRead |-> feeRead, kind |-> kind]
  <2>1. /\ bet # NoBet /\ bet \in Bets /\ bet.token = Row[Slot(bet.side)]
        /\ bet.shares <= bet.asked /\ (bet.kind = "LIMIT" => intent = "GTC")
        /\ order = NoOrder /\ feeRate \in FeeRates
    BY DEF Inv, BetInv, Types, processBetEvent
  <2>2. bought # "reject" => bought = bet.token
    BY <2>1, TokenTraded DEF Inv, Bets
  <2>3. \/ order' = NoOrder
        \/ /\ bought # "reject"
           /\ \E t \in Ticks, onChain, atClob \in BalanceReads, feeRead \in BOOLEAN :
                order' = made(t, onChain, atClob, feeRead)
    BY <2>1 DEF processBetEvent
  <2>4. CASE order' = NoOrder
    BY <2>4
  <2>6. bet.kind = "LIMIT" => kind = "LIMIT"
    BY <2>1 DEF getLimitOrder
  <2> HIDE DEF bought, kind
  <2>5. ASSUME bought # "reject", NEW t \in Ticks, NEW onChain \in BalanceReads,
               NEW atClob \in BalanceReads, NEW feeRead \in BOOLEAN,
               order' = made(t, onChain, atClob, feeRead)
        PROVE  /\ order'.size \in Nat /\ order'.size <= bet.asked /\ order'.token = bet.token
               /\ bet.kind = "LIMIT" => order'.kind = "LIMIT"
               /\ order'.size * order'.price <= bet.stake * ShareUnits
               /\ order'.feeRead \/ feeRate <= clobBuyFeeBps =>
                    order'.size * order'.price * (100 + feeRate) <= bet.stake * ShareUnits * 100
    <3> DEFINE p == o(t, onChain, atClob, feeRead).price
               n == o(t, onChain, atClob, feeRead).size
    <3>1. bet.stake \in Nat /\ bet.price \in Nat \ {0} /\ bet.shares \in Nat /\ bet.asked \in Nat
      BY <2>1 DEF Bets
    <3>2. /\ p \in Nat /\ n \in Nat /\ n <= bet.shares
          /\ n * p <= bet.stake * ShareUnits
          /\ feeRead \/ feeRate <= clobBuyFeeBps =>
               n * p * (100 + feeRate) <= bet.stake * ShareUnits * 100
      BY <2>1, <3>1, OrderWithin
    <3>3. /\ order'.size = n /\ order'.price = p /\ order'.token = bought
          /\ order'.feeRead = feeRead /\ order'.kind = kind
      BY <2>5
    <3> HIDE DEF p, n
    <3>4. /\ order'.size * order'.price <= bet.stake * ShareUnits
          /\ order'.feeRead \/ feeRate <= clobBuyFeeBps =>
               order'.size * order'.price * (100 + feeRate) <= bet.stake * ShareUnits * 100
      BY <3>2, <3>3, Zenon
    <3>5. order'.size \in Nat /\ order'.size <= bet.asked
      BY <2>1, <3>1, <3>2, <3>3
    <3> QED BY <2>2, <2>5, <2>6, <3>3, <3>4, <3>5
  <2> HIDE DEF made
  <2> QED BY <2>3, <2>4, <2>5
<1>2. Types'
  <2>1. outcome'.filled \in Nat
    BY DEF Inv, Types, processBetEvent, Failed
  <2> QED BY <2>1 DEF Inv, Types, processBetEvent, proverVars
<1>3. RowsAgree'
  BY RowsKept DEF Inv, processBetEvent, marketVars, proverVars
<1>4. DraftInv'
  BY DraftKept DEF Inv, processBetEvent, marketVars, proverVars
<1>5. BetInv'
  <2>1. bet # NoBet /\ outcome'.filled \in {outcome.filled, 0} /\ UNCHANGED <<bet, intent>>
        /\ Row' = Row
    BY DEF processBetEvent, Failed, marketVars, Row
  <2> QED BY <2>1 DEF Inv, BetInv, Bets
<1>6. OrderInv'
  <2>1. /\ order = NoOrder /\ outcome'.type \in {outcome.type, "FAILED"}
        /\ UNCHANGED <<bet, view, proofs, sell, soldAtt, modal>>
    BY DEF processBetEvent, Failed, proverVars
  <2> QED BY <1>1, <2>1 DEF Inv, OrderInv
<1>7. OrderMatchesQuote'
  <2>1. UNCHANGED <<bet, feeRate, sell>> /\ sell = NoOrder
    BY DEF Inv, OrderInv, processBetEvent
  <2> QED BY <1>1, <2>1 DEF OrderMatchesQuote, FeeReserved
<1> QED BY <1>2, <1>3, <1>4, <1>5, <1>6, <1>7 DEF Inv

\* The outcome is within the order.
LEMMA OrderEndsKeeps ==
    ASSUME Inv, orderEnds
    PROVE  Inv'
<1>1. outcome'.filled \in Nat /\ outcome'.filled <= bet.asked
  <2>1. bet.asked \in Nat /\ order.size \in Nat /\ order.size <= bet.asked
    BY DEF Inv, BetInv, Bets, OrderInv, orderEnds
  <2>2. PICK filled \in {0, order.size \div 2, order.size} : \E spent : outcome' = attestTerminal(filled, spent)
    BY DEF orderEnds
  <2>3. PICK spent : outcome' = attestTerminal(filled, spent)
    BY <2>2
  <2>4. outcome'.filled \in {0, filled, bet.asked}
    BY <2>3 DEF attestTerminal, Failed
  <2>5. filled \in Nat /\ filled <= order.size
    BY <2>1
  <2> QED BY <2>1, <2>4, <2>5
<1>2. Types'
  <2> QED BY <1>1 DEF Inv, Types, orderEnds, proverVars
<1>3. RowsAgree'
  BY RowsKept DEF Inv, orderEnds, marketVars, proverVars
<1>4. DraftInv'
  BY DraftKept DEF Inv, orderEnds, marketVars, proverVars
<1>5. BetInv'
  <2>1. bet # NoBet /\ bet \in Bets /\ UNCHANGED <<bet, intent>> /\ Row' = Row
    BY DEF Inv, BetInv, orderEnds, marketVars, Row
  <2> QED BY <1>1, <2>1 DEF Inv, BetInv, Bets
<1>6. OrderInv'
  <2>1. order # NoOrder /\ UNCHANGED <<order, sell, soldAtt, bet>>
    BY DEF orderEnds
  <2> QED BY <2>1 DEF Inv, OrderInv
<1>7. OrderMatchesQuote'
  BY QuoteKept DEF Inv, orderEnds, marketVars, proverVars
<1> QED BY <1>2, <1>3, <1>4, <1>5, <1>6, <1>7 DEF Inv

\* What the page sees is what is attested and recorded.
LEMMA PollKeeps ==
    ASSUME Inv, poll
    PROVE  Inv'
<1>1. Types'
  BY TypesKept DEF Inv, poll, marketVars, proverVars
<1>2. RowsAgree'
  BY RowsKept DEF Inv, poll, marketVars, proverVars
<1>3. DraftInv'
  BY DraftKept DEF Inv, poll, marketVars, proverVars
<1>4. BetInv'
  BY BetKept DEF Inv, poll, marketVars, proverVars
<1>5. OrderInv'
  <2>1. view'.status = bet.status /\ view'.type \in {"none", outcome.type}
    BY DEF poll, Polled
  <2> QED BY <2>1 DEF Inv, OrderInv, poll, proverVars
<1>6. OrderMatchesQuote'
  BY QuoteKept DEF Inv, poll, marketVars, proverVars
<1> QED BY <1>1, <1>2, <1>3, <1>4, <1>5, <1>6 DEF Inv

\* A refund is claimed of what was ordered.
LEMMA AutoFinalizePartialKeeps ==
    ASSUME Inv, autoFinalizePartial
    PROVE  Inv'
<1>1. Types'
  <2>1. Job("partial_credit", "page") \in Jobs /\ Asked(Job("partial_credit", "page"))
    BY DEF Inv, Types, Job, Jobs, autoFinalizePartial
  <2>2. proofs' \in Seq(Jobs)
    BY <2>1, ProofAsked DEF Inv, Types
  <2> QED BY <2>2 DEF Inv, Types, autoFinalizePartial, tradeVars
<1>2. RowsAgree'
  BY RowsKept DEF Inv, autoFinalizePartial, marketVars, tradeVars
<1>3. DraftInv'
  BY DraftKept DEF Inv, autoFinalizePartial, marketVars, tradeVars
<1>4. BetInv'
  BY BetKept DEF Inv, autoFinalizePartial, marketVars, tradeVars
<1>5. OrderInv'
  <2>1. order # NoOrder
    BY DEF Inv, OrderInv, autoFinalizePartial
  <2> QED BY <2>1 DEF Inv, OrderInv, autoFinalizePartial, tradeVars
<1>6. OrderMatchesQuote'
  BY QuoteKept DEF Inv, autoFinalizePartial, marketVars, tradeVars
<1> QED BY <1>1, <1>2, <1>3, <1>4, <1>5, <1>6 DEF Inv

\* A refund is claimed of what was ordered.
LEMMA ClaimPartialKeeps ==
    ASSUME Inv, claimPartial
    PROVE  Inv'
<1>1. Types'
  <2>1. Job("partial_credit", "user") \in Jobs /\ Asked(Job("partial_credit", "user"))
    BY DEF Inv, Types, Job, Jobs, claimPartial
  <2>2. proofs' \in Seq(Jobs)
    BY <2>1, ProofAsked DEF Inv, Types
  <2> QED BY <2>2 DEF Inv, Types, claimPartial, tradeVars
<1>2. RowsAgree'
  BY RowsKept DEF Inv, claimPartial, marketVars, tradeVars
<1>3. DraftInv'
  BY DraftKept DEF Inv, claimPartial, marketVars, tradeVars
<1>4. BetInv'
  BY BetKept DEF Inv, claimPartial, marketVars, tradeVars
<1>5. OrderInv'
  <2>1. order # NoOrder
    BY OfferedOfOrder DEF Inv, claimPartial
  <2> QED BY <2>1 DEF Inv, OrderInv, claimPartial, tradeVars
<1>6. OrderMatchesQuote'
  BY QuoteKept DEF Inv, claimPartial, marketVars, tradeVars
<1> QED BY <1>1, <1>2, <1>3, <1>4, <1>5, <1>6 DEF Inv

\* The credit of a partial fill leaves the shares that were filled.
LEMMA PartialProvedKeeps ==
    ASSUME Inv, NEW ok \in BOOLEAN, partialProved(ok)
    PROVE  Inv'
<1>1. bet' = bet \/ (bet.status = "ACTIVE" /\ bet' = [bet EXCEPT !.shares = outcome.filled, !.status = "FILLED"])
  BY DEF partialProved
<1>2. Types'
  <2>1. proofs \in Seq(Jobs)
    BY DEF Inv, Types
  <2>2. PICK job \in Range(proofs) : Settles(job, ok)
    BY DEF partialProved
  <2>3. proofs' \in Seq(Jobs) /\ note' \in {note, note + 1}
    BY <2>1, <2>2, ProofSettled DEF partialProved
  <2> QED BY <2>3 DEF Inv, Types, partialProved
<1>3. RowsAgree'
  BY RowsKept DEF Inv, partialProved, marketVars
<1>4. DraftInv'
  <2>1. bet = NoBet => bet' = NoBet
    BY <1>1 DEF NoBet
  <2> QED BY <2>1 DEF Inv, DraftInv, Drafts, Row, partialProved, marketVars
<1>5. BetInv'
  <2>1. UNCHANGED <<order, outcome, intent>> /\ Row' = Row
    BY DEF partialProved, marketVars, Row
  <2>2. CASE bet' = bet
    BY <2>1, <2>2 DEF Inv, BetInv, Bets
  <2>3. CASE bet' = [bet EXCEPT !.shares = outcome.filled, !.status = "FILLED"] /\ bet.status = "ACTIVE"
    <3>1. bet # NoBet
      BY <2>3 DEF NoBet
    <3>2. bet \in Bets /\ bet.token = Row[Slot(bet.side)] /\ outcome.filled <= bet.asked
          /\ (bet.kind = "LIMIT" => intent = "GTC")
      BY <3>1 DEF Inv, BetInv
    <3>3. outcome.filled \in Nat
      BY DEF Inv, Types
    <3>4. /\ bet' \in Bets /\ bet'.shares = outcome.filled /\ bet'.asked = bet.asked
          /\ bet'.token = bet.token /\ bet'.side = bet.side /\ bet'.kind = bet.kind
      BY <2>3, <3>2, <3>3 DEF Bets
    <3>5. bet' # NoBet
      BY <2>3, <3>4 DEF Bets, NoBet
    <3> QED BY <2>1, <3>2, <3>4, <3>5 DEF BetInv, Bets
  <2> QED BY <1>1, <2>2, <2>3
<1>6. OrderInv'
  <2>1. proofs \in Seq(Jobs)
    BY DEF Inv, Types
  <2>2. PICK job \in Range(proofs) : job.circuit = "partial_credit" /\ Settles(job, ok)
    BY DEF partialProved
  <2>3. job = proofs[1] /\ 1 \in DOMAIN proofs
    BY <2>1, <2>2, ProofSettled
  <2>4. order # NoOrder
    BY <2>2, <2>3 DEF Inv, OrderInv
  <2>5. bet # NoBet /\ bet \in Bets
    BY <2>4 DEF Inv, BetInv
  <2>6. bet'.asked = bet.asked
    BY <1>1, <2>5 DEF Bets
  <2> QED BY <2>4, <2>6 DEF Inv, OrderInv, partialProved
<1>7. OrderMatchesQuote'
  <2>1. order # NoOrder => bet # NoBet /\ bet \in Bets
    BY DEF Inv, BetInv
  <2>2. order # NoOrder => /\ bet'.token = bet.token /\ bet'.kind = bet.kind
                           /\ bet'.asked = bet.asked /\ bet'.stake = bet.stake
    BY <1>1, <2>1 DEF Bets
  <2>3. UNCHANGED <<order, feeRate, sell>>
    BY DEF partialProved
  <2> QED BY <2>2, <2>3 DEF Inv, OrderMatchesQuote, FeeReserved
<1> QED BY <1>2, <1>3, <1>4, <1>5, <1>6, <1>7 DEF Inv

\* What is sold is the token that was bought.
LEMMA ClosePositionKeeps ==
    ASSUME Inv, ~Mock, NEW kind \in {"MARKET", "LIMIT"}, closePosition(kind)
    PROVE  Inv'
<1>1. order # NoOrder /\ bet \in Bets /\ bet.token = Row[Slot(bet.side)]
  <2>1. order # NoOrder
    BY OfferedOfOrder DEF Inv, OrderInv, closePosition, MayClose
  <2>2. bet # NoBet
    BY <2>1 DEF Inv, BetInv
  <2> QED BY <2>1, <2>2 DEF Inv, BetInv
<1>2. Types'
  <2>1. sell' = sell \/ sell'.size = bet.shares
    BY DEF closePosition, postCloseRequest
  <2>2. bet.shares \in Nat
    BY <1>1 DEF Bets
  <2> QED BY <2>1, <2>2 DEF Inv, Types, closePosition, proverVars
<1>3. RowsAgree'
  BY RowsKept DEF Inv, closePosition, marketVars, proverVars
<1>4. DraftInv'
  BY DraftKept DEF Inv, closePosition, marketVars, proverVars
<1>5. BetInv'
  BY BetKept DEF Inv, closePosition, marketVars, proverVars
<1>6. OrderInv'
  <2>1. sell' = NoOrder => sell = NoOrder
    BY DEF closePosition, MayClose
  <2> QED BY <1>1, <2>1 DEF Inv, OrderInv, closePosition, proverVars
<1>7. OrderMatchesQuote'
  <2>1. \/ sell' = NoOrder
        \/ \E token \in resolveCloseToken : token # "reject" /\ sell'.token = token
    BY DEF closePosition, MayClose, postCloseRequest
  <2>2. \A token \in resolveCloseToken : token # "reject" => token = Row[Slot(bet.side)]
    BY <1>1, TokenTraded DEF Inv, Bets, resolveCloseToken
  <2>3. order.token = bet.token
    BY <1>1 DEF Inv, OrderMatchesQuote
  <2>4. UNCHANGED <<order, bet, feeRate>>
    BY DEF closePosition
  <2>5. sell' # NoOrder => sell'.token = order.token
    BY <1>1, <2>1, <2>2, <2>3
  <2> QED BY <2>4, <2>5 DEF Inv, OrderMatchesQuote, FeeReserved
<1> QED BY <1>2, <1>3, <1>4, <1>5, <1>6, <1>7 DEF Inv

\* A request whose answer is lost may have been placed.
LEMMA CloseRequestFailsKeeps ==
    ASSUME Inv, ~Mock, closeRequestFails
    PROVE  Inv'
<1>1. order # NoOrder /\ bet \in Bets /\ bet.token = Row[Slot(bet.side)]
  <2>1. order # NoOrder
    BY OfferedOfOrder DEF Inv, OrderInv, closeRequestFails, MayClose
  <2>2. bet # NoBet
    BY <2>1 DEF Inv, BetInv
  <2> QED BY <2>1, <2>2 DEF Inv, BetInv
<1>2. Types'
  <2>1. sell' = sell \/ sell'.size = bet.shares
    BY DEF closeRequestFails, postCloseRequest
  <2>2. bet.shares \in Nat
    BY <1>1 DEF Bets
  <2> QED BY <2>1, <2>2 DEF Inv, Types, closeRequestFails, proverVars
<1>3. RowsAgree'
  BY RowsKept DEF Inv, closeRequestFails, marketVars, proverVars
<1>4. DraftInv'
  BY DraftKept DEF Inv, closeRequestFails, marketVars, proverVars
<1>5. BetInv'
  BY BetKept DEF Inv, closeRequestFails, marketVars, proverVars
<1>6. OrderInv'
  <2>1. sell' = NoOrder => sell = NoOrder
    BY DEF closeRequestFails, MayClose
  <2> QED BY <1>1, <2>1 DEF Inv, OrderInv, closeRequestFails, proverVars
<1>7. OrderMatchesQuote'
  <2>1. \/ sell' = NoOrder
        \/ \E token \in resolveCloseToken : token # "reject" /\ sell'.token = token
    BY DEF closeRequestFails, MayClose, postCloseRequest
  <2>2. \A token \in resolveCloseToken : token # "reject" => token = Row[Slot(bet.side)]
    BY <1>1, TokenTraded DEF Inv, Bets, resolveCloseToken
  <2>3. order.token = bet.token
    BY <1>1 DEF Inv, OrderMatchesQuote
  <2>4. UNCHANGED <<order, bet, feeRate>>
    BY DEF closeRequestFails
  <2>5. sell' # NoOrder => sell'.token = order.token
    BY <1>1, <2>1, <2>2, <2>3
  <2> QED BY <2>4, <2>5 DEF Inv, OrderMatchesQuote, FeeReserved
<1> QED BY <1>2, <1>3, <1>4, <1>5, <1>6, <1>7 DEF Inv

\* The sale attested is of the SELL that was placed.
LEMMA SellEndsKeeps ==
    ASSUME Inv, sellEnds
    PROVE  Inv'
<1>1. Types'
  <2>1. sell.size \div 2 \in Nat /\ sell.size \in Nat
    BY DEF Inv, Types
  <2> QED BY <2>1 DEF Inv, Types, sellEnds, proverVars
<1>2. RowsAgree'
  BY RowsKept DEF Inv, sellEnds, marketVars, proverVars
<1>3. DraftInv'
  BY DraftKept DEF Inv, sellEnds, marketVars, proverVars
<1>4. BetInv'
  BY BetKept DEF Inv, sellEnds, marketVars, proverVars
<1>5. OrderInv'
  BY DEF Inv, OrderInv, sellEnds, proverVars
<1>6. OrderMatchesQuote'
  BY QuoteKept DEF Inv, sellEnds, marketVars, proverVars
<1> QED BY <1>1, <1>2, <1>3, <1>4, <1>5, <1>6 DEF Inv

\* Only the marker goes.
LEMMA HandleCancelCloseKeeps ==
    ASSUME Inv, handleCancelClose
    PROVE  Inv'
<1>1. Types'
  BY TypesKept DEF Inv, handleCancelClose, marketVars, proverVars
<1>2. RowsAgree'
  BY RowsKept DEF Inv, handleCancelClose, marketVars, proverVars
<1>3. DraftInv'
  BY DraftKept DEF Inv, handleCancelClose, marketVars, proverVars
<1>4. BetInv'
  BY BetKept DEF Inv, handleCancelClose, marketVars, proverVars
<1>5. OrderInv'
  BY OrderKept DEF Inv, handleCancelClose, marketVars, proverVars
<1>6. OrderMatchesQuote'
  BY QuoteKept DEF Inv, handleCancelClose, marketVars, proverVars
<1> QED BY <1>1, <1>2, <1>3, <1>4, <1>5, <1>6 DEF Inv

\* Only the marker goes and the dialog shows the error.
LEMMA MarketCloseGivesUpKeeps ==
    ASSUME Inv, marketCloseGivesUp
    PROVE  Inv'
<1>1. Types'
  BY TypesKept DEF Inv, marketCloseGivesUp, marketVars, proverVars
<1>2. RowsAgree'
  BY RowsKept DEF Inv, marketCloseGivesUp, marketVars, proverVars
<1>3. DraftInv'
  BY DraftKept DEF Inv, marketCloseGivesUp, marketVars, proverVars
<1>4. BetInv'
  BY BetKept DEF Inv, marketCloseGivesUp, marketVars, proverVars
<1>5. OrderInv'
  <2>1. order = NoOrder => modal' = "none"
    BY DEF Inv, OrderInv, marketCloseGivesUp
  <2>2. UNCHANGED <<order, outcome, bet, view, proofs, sell, soldAtt>>
    BY DEF marketCloseGivesUp, proverVars
  <2> QED BY <2>1, <2>2 DEF Inv, OrderInv
<1>6. OrderMatchesQuote'
  BY QuoteKept DEF Inv, marketCloseGivesUp, marketVars, proverVars
<1> QED BY <1>1, <1>2, <1>3, <1>4, <1>5, <1>6 DEF Inv

\* Only the dialog goes.
LEMMA CloseDialogKeeps ==
    ASSUME Inv, closeDialog
    PROVE  Inv'
<1>1. Types'
  BY TypesKept DEF Inv, closeDialog, marketVars, proverVars
<1>2. RowsAgree'
  BY RowsKept DEF Inv, closeDialog, marketVars, proverVars
<1>3. DraftInv'
  BY DraftKept DEF Inv, closeDialog, marketVars, proverVars
<1>4. BetInv'
  BY BetKept DEF Inv, closeDialog, marketVars, proverVars
<1>5. OrderInv'
  <2>1. order = NoOrder => modal' = "none"
    BY DEF closeDialog
  <2>2. UNCHANGED <<order, outcome, bet, view, proofs, sell, soldAtt>>
    BY DEF closeDialog, proverVars
  <2> QED BY <2>1, <2>2 DEF Inv, OrderInv
<1>6. OrderMatchesQuote'
  BY QuoteKept DEF Inv, closeDialog, marketVars, proverVars
<1> QED BY <1>1, <1>2, <1>3, <1>4, <1>5, <1>6 DEF Inv

\* Only the dialog and what the row shows change.
LEMMA NoFreeNoteKeeps ==
    ASSUME Inv, NEW by \in {"page", "modal", "user"}, noFreeNote(by)
    PROVE  Inv'
<1>1. Types'
  BY TypesKept DEF Inv, noFreeNote, marketVars, proverVars
<1>2. RowsAgree'
  BY RowsKept DEF Inv, noFreeNote, marketVars, proverVars
<1>3. DraftInv'
  BY DraftKept DEF Inv, noFreeNote, marketVars, proverVars
<1>4. BetInv'
  BY BetKept DEF Inv, noFreeNote, marketVars, proverVars
<1>5. OrderInv'
  <2>1. order = NoOrder => modal' = "none"
    BY DEF Inv, Types, OrderInv, noFreeNote, Finalizes
  <2>2. UNCHANGED <<order, outcome, bet, view, proofs, sell, soldAtt>>
    BY DEF noFreeNote, proverVars
  <2> QED BY <2>1, <2>2 DEF Inv, OrderInv
<1>6. OrderMatchesQuote'
  BY QuoteKept DEF Inv, noFreeNote, marketVars, proverVars
<1> QED BY <1>1, <1>2, <1>3, <1>4, <1>5, <1>6 DEF Inv

\* The cooldown is no part of it.
LEMMA CooldownEndsKeeps ==
    ASSUME Inv, cooldownEnds
    PROVE  Inv'
<1>1. Types'
  BY TypesKept DEF Inv, cooldownEnds, marketVars, proverVars
<1>2. RowsAgree'
  BY RowsKept DEF Inv, cooldownEnds, marketVars, proverVars
<1>3. DraftInv'
  BY DraftKept DEF Inv, cooldownEnds, marketVars, proverVars
<1>4. BetInv'
  BY BetKept DEF Inv, cooldownEnds, marketVars, proverVars
<1>5. OrderInv'
  BY OrderKept DEF Inv, cooldownEnds, marketVars, proverVars
<1>6. OrderMatchesQuote'
  BY QuoteKept DEF Inv, cooldownEnds, marketVars, proverVars
<1> QED BY <1>1, <1>2, <1>3, <1>4, <1>5, <1>6 DEF Inv

\* A sale's credit is asked for.
LEMMA FinalizeCloseKeeps ==
    ASSUME Inv, NEW by \in {"page", "modal", "user"}, finalizeClose(by)
    PROVE  Inv'
<1>1. Types'
  <2>1. Job("position_close", by) \in Jobs /\ Asked(Job("position_close", by))
    BY DEF Inv, Types, Job, Jobs, finalizeClose
  <2>2. proofs' \in Seq(Jobs)
    BY <2>1, ProofAsked DEF Inv, Types
  <2> QED BY <2>2 DEF Inv, Types, finalizeClose
<1>2. RowsAgree'
  BY RowsKept DEF Inv, finalizeClose, marketVars
<1>3. DraftInv'
  BY DraftKept DEF Inv, finalizeClose, marketVars
<1>4. BetInv'
  BY BetKept DEF Inv, finalizeClose, marketVars
<1>5. OrderInv'
  <2>1. Job("position_close", by) \in Jobs /\ Asked(Job("position_close", by)) /\ Job("position_close", by).circuit # "partial_credit"
    BY DEF Inv, Types, Job, Jobs, finalizeClose
  <2>2. proofs \in Seq(Jobs)
    BY DEF Inv, Types
  <2>3. (\A k \in DOMAIN proofs : proofs[k].circuit # "partial_credit") =>
          \A k \in DOMAIN proofs' : proofs'[k].circuit # "partial_credit"
    BY <2>1, <2>2, NoCreditAsked
  <2> QED BY <2>3 DEF Inv, OrderInv, finalizeClose
<1>6. OrderMatchesQuote'
  BY QuoteKept DEF Inv, finalizeClose, marketVars
<1> QED BY <1>1, <1>2, <1>3, <1>4, <1>5, <1>6 DEF Inv

\* A credited sale leaves the bet what was shown of it.
LEMMA CloseCreditedKeeps ==
    ASSUME Inv, NEW job \in Range(proofs), closeCredited(job)
    PROVE  Inv'
<1>1. /\ order # NoOrder /\ bet # NoBet
      /\ bet' = [bet EXCEPT !.sold = soldAtt, !.status = bet'.status]
      /\ bet'.status \in {"CLOSED_CREDITED", "FILLED"} /\ soldAtt \in Nat
      /\ bet'.side = bet.side /\ bet'.token = bet.token /\ bet'.kind = bet.kind
      /\ bet'.asked = bet.asked /\ bet'.stake = bet.stake /\ bet'.shares = bet.shares
  <2>1. soldAtt \in Nat /\ bet.sold < soldAtt
    BY DEF Inv, Types, closeCredited, Creditable
  <2>2. bet # NoBet /\ bet \in Bets
    BY DEF Inv, BetInv, closeCredited, Creditable, NoBet
  <2>3. soldAtt # 0
    BY <2>1, <2>2 DEF Bets
  <2>4. order # NoOrder
    BY <2>3 DEF Inv, OrderInv
  <2> DEFINE end == IF soldAtt = bet.shares THEN "CLOSED_CREDITED" ELSE "FILLED"
  <2>5. bet' = [bet EXCEPT !.sold = soldAtt, !.status = end]
    BY DEF closeCredited
  <2>6. end \in {"CLOSED_CREDITED", "FILLED"}
    OBVIOUS
  <2> HIDE DEF end
  <2> QED BY <2>1, <2>2, <2>4, <2>5, <2>6 DEF Bets
<1>2. Types'
  <2>1. proofs \in Seq(Jobs) /\ Settles(job, TRUE)
    BY DEF Inv, Types, closeCredited
  <2>2. proofs' \in Seq(Jobs) /\ note' = note + 1
    BY <2>1, ProofSettled DEF closeCredited
  <2> QED BY <2>2 DEF Inv, Types, closeCredited
<1>3. RowsAgree'
  BY RowsKept DEF Inv, closeCredited, marketVars
<1>4. DraftInv'
  <2>1. bet # NoBet
    BY <1>1
  <2> QED BY <2>1 DEF Inv, DraftInv, closeCredited
<1>5. BetInv'
  <2>1. UNCHANGED <<order, outcome, intent>> /\ Row' = Row
    BY DEF closeCredited, marketVars, Row
  <2>2. /\ bet \in Bets /\ bet.token = Row[Slot(bet.side)] /\ bet.shares <= bet.asked
        /\ outcome.filled <= bet.asked /\ (bet.kind = "LIMIT" => intent = "GTC")
    BY <1>1 DEF Inv, BetInv
  <2>3. bet' \in Bets /\ bet' # NoBet
    BY <1>1, <2>2 DEF Bets, NoBet
  <2> QED BY <1>1, <2>1, <2>2, <2>3 DEF BetInv, Bets
<1>6. OrderInv'
  <2>1. UNCHANGED <<order, outcome, view, sell, soldAtt>>
    BY DEF closeCredited
  <2> QED BY <1>1, <2>1 DEF Inv, OrderInv
<1>7. OrderMatchesQuote'
  <2>1. UNCHANGED <<order, feeRate, sell>>
    BY DEF closeCredited
  <2> QED BY <1>1, <2>1 DEF Inv, OrderMatchesQuote, FeeReserved
<1> QED BY <1>2, <1>3, <1>4, <1>5, <1>6, <1>7 DEF Inv

\* A refused credit changes nothing but who backs off.
LEMMA CloseRefusedKeeps ==
    ASSUME Inv, NEW job \in Range(proofs), NEW ok \in BOOLEAN, closeRefused(job, ok)
    PROVE  Inv'
<1>1. Types'
  <2>1. proofs \in Seq(Jobs) /\ Settles(job, ok)
    BY DEF Inv, Types, closeRefused
  <2>2. proofs' \in Seq(Jobs)
    BY <2>1, ProofSettled
  <2> QED BY <2>2 DEF Inv, Types, closeRefused
<1>2. RowsAgree'
  BY RowsKept DEF Inv, closeRefused, marketVars
<1>3. DraftInv'
  BY DraftKept DEF Inv, closeRefused, marketVars
<1>4. BetInv'
  BY BetKept DEF Inv, closeRefused, marketVars
<1>5. OrderInv'
  <2>1. proofs \in Seq(Jobs) /\ Settles(job, ok)
    BY DEF Inv, Types, closeRefused
  <2>2. (\A k \in DOMAIN proofs : proofs[k].circuit # "partial_credit") =>
          \A k \in DOMAIN proofs' : proofs'[k].circuit # "partial_credit"
    BY <2>1, NoCreditSettled
  <2>3. modal = "none" => modal' = "none"
    BY DEF closeRefused
  <2> QED BY <2>2, <2>3 DEF Inv, OrderInv, closeRefused
<1>6. OrderMatchesQuote'
  BY QuoteKept DEF Inv, closeRefused, marketVars
<1> QED BY <1>1, <1>2, <1>3, <1>4, <1>5, <1>6 DEF Inv

\* The page's row, its bet, its poll and its proofs are gone.
LEMMA ReloadKeeps ==
    ASSUME Inv, reload
    PROVE  Inv'
<1>1. Types'
  BY DEF Inv, Types, reload, ProverReset
<1>2. RowsAgree'
  BY DEF Inv, RowsAgree, Row, reload, marketVars
<1>3. DraftInv'
  BY DEF DraftInv, reload
<1>4. BetInv'
  BY BetKept DEF Inv, reload, marketVars
<1>5. OrderInv'
  <2>1. /\ view' = NoView /\ proofs' = <<>> /\ modal' = "none"
        /\ UNCHANGED <<order, outcome, bet, sell, soldAtt>>
    BY DEF reload, ProverReset
  <2> QED BY <2>1 DEF Inv, OrderInv, NoView
<1>6. OrderMatchesQuote'
  BY QuoteKept DEF Inv, reload, marketVars
<1> QED BY <1>1, <1>2, <1>3, <1>4, <1>5, <1>6 DEF Inv

-----------------------------------------------------------------------------
(* The theorem.                                                            *)

LEMMA InitInv == ASSUME Init PROVE Inv
<1>1. Types
  BY DEF Init, ProverInit, Types, NoOrder, Pending
<1>2. RowsAgree
  BY DEF Init, MarketsInit, RowsAgree
<1>3. DraftInv /\ BetInv
  BY DEF Init, DraftInv, BetInv
<1>4. OrderInv
  BY DEF Init, ProverInit, OrderInv, Pending, NoBet, NoView
<1>5. OrderMatchesQuote
  BY DEF Init, OrderMatchesQuote
<1> QED BY <1>1, <1>2, <1>3, <1>4, <1>5 DEF Inv

LEMMA StutterInv == ASSUME Inv, UNCHANGED vars PROVE Inv'
<1>1. UNCHANGED <<marketVars, proverVars, tradeVars>>
  BY DEF vars
<1>2. Types' /\ RowsAgree' /\ DraftInv'
  BY <1>1, TypesKept, RowsKept, DraftKept DEF Inv, marketVars, proverVars, tradeVars
<1>3. BetInv' /\ OrderInv' /\ OrderMatchesQuote'
  BY <1>1, BetKept, OrderKept, QuoteKept DEF Inv, marketVars, proverVars, tradeVars
<1> QED BY <1>2, <1>3 DEF Inv

LEMMA NextInv == ASSUME ~Mock, Inv, Next PROVE Inv'
<1>1. CASE Catalog /\ UNCHANGED <<proverVars, tradeVars>>
  BY <1>1, CatalogKeeps
<1>2. CASE Proving /\ UNCHANGED <<marketVars, tradeVars>>
  BY <1>2, ProvingKeeps
<1>3. CASE loadMarket \/ registerMarket \/ submit
  BY <1>3, LoadMarketKeeps, RegisterMarketKeeps, SubmitKeeps
<1>4. CASE \E ok \in BOOLEAN : betProved(ok)
  BY <1>4, BetProvedKeeps
<1>5. CASE requestLimitOrder \/ relayBet \/ processBetEvent \/ orderEnds
  BY <1>5, RequestLimitOrderKeeps, RelayBetKeeps, ProcessBetEventKeeps, OrderEndsKeeps
<1>6. CASE poll \/ autoFinalizePartial \/ claimPartial
  BY <1>6, PollKeeps, AutoFinalizePartialKeeps, ClaimPartialKeeps
<1>7. CASE \E ok \in BOOLEAN : partialProved(ok)
  BY <1>7, PartialProvedKeeps
<1>8. CASE \E kind \in {"MARKET", "LIMIT"} : closePosition(kind)
  BY <1>8, ClosePositionKeeps
<1>9. CASE \/ sellEnds \/ handleCancelClose \/ closeRequestFails \/ marketCloseGivesUp
           \/ closeDialog \/ cooldownEnds \/ reload
  BY <1>9, SellEndsKeeps, HandleCancelCloseKeeps, CloseRequestFailsKeeps,
     MarketCloseGivesUpKeeps, CloseDialogKeeps, CooldownEndsKeeps, ReloadKeeps
<1>10. CASE \E by \in {"page", "modal", "user"} : finalizeClose(by) \/ noFreeNote(by)
  BY <1>10, FinalizeCloseKeeps, NoFreeNoteKeeps
<1>11. CASE \E job \in Range(proofs) : closeCredited(job)
  BY <1>11, CloseCreditedKeeps
<1>12. CASE \E job \in Range(proofs), ok \in BOOLEAN : closeRefused(job, ok)
  BY <1>12, CloseRefusedKeeps
<1> QED BY <1>1, <1>2, <1>3, <1>4, <1>5, <1>6, <1>7, <1>8, <1>9, <1>10, <1>11, <1>12 DEF Next

(* The order is the one the user was shown, where the CLOB is not the local mock: the mock
   trades the id that came with the bet when the registry does not know the market
   (marketRegistry.ts).  The catalog's row, the page's and the registry's are one although
   two services make them (Row); an intent is stored before a limit bet is relayed and
   never deleted (DraftInv, BetInv); and the order is sized within the proof's shares and
   the stake, and with the fee within the stake when the fee was read or is no more than
   clobBuyFeeBps; a market whose fee is higher and was not read is left out (OrderWithin). *)
THEOREM OrderIsAsQuoted == ~Mock => (Spec => []OrderMatchesQuote)
<1> SUFFICES ASSUME ~Mock PROVE Spec => []OrderMatchesQuote
  OBVIOUS
<1>1. Init => Inv
  BY InitInv
<1>2. Inv /\ [Next]_vars => Inv'
  BY NextInv, StutterInv
<1>3. Inv => OrderMatchesQuote
  BY DEF Inv
<1> QED BY <1>1, <1>2, <1>3, PTL DEF Spec
=============================================================================
