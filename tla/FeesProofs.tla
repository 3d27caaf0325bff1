----------------------------- MODULE FeesProofs -----------------------------
(***************************************************************************)
(* What the fee arithmetic guarantees for every amount, unit and fee.      *)
(***************************************************************************)
EXTENDS Fees, TLAPS

\* Rounding to whole cents leaves a whole number of cents alone.
LEMMA MoneyOfCents ==
    ASSUME NEW k \in Int
    PROVE  Money(k * Cent, 1) = k * Cent
<1>1. Cent \in Nat \ {0} /\ 1 * Cent = Cent
    BY FeesAssumption
<1>2. (2 * (k * Cent) + Cent) \div (2 * Cent) = k
    BY <1>1, SMTT(30)
<1>3. HalfUp(k * Cent, 1 * Cent) = k
    BY <1>1, <1>2 DEF HalfUp
<1>. QED
    BY <1>1, <1>3, SMTT(30) DEF Money

\* A whole-cent amount is an integer number of cents.
LEMMA CentsOf ==
    ASSUME NEW a \in Int, WholeCents(a)
    PROVE  \E k \in Int : a = k * Cent
<1>1. a \div Cent \in Int /\ a = (a \div Cent) * Cent
    BY FeesAssumption, SMTT(30) DEF WholeCents
<1>. QED
    BY <1>1

\* A percentage of k whole cents is q whole cents with q within half a cent
\* of the exact value, whatever the unit.
LEMMA PercentOfCents ==
    ASSUME NEW k \in Nat, NEW bps \in Nat
    PROVE  \E q \in Nat : /\ PercentOf(k * Cent, bps) = q * Cent
                          /\ 20000 * q <= 2 * (k * bps) + 10000
<1> DEFINE n == (k * Cent) * bps
           d == 10000 * Cent
           q == (2 * n + d) \div (2 * d)
           x == k * bps
<1>1. Cent \in Nat \ {0}
    BY FeesAssumption
<1>2. n = x * Cent /\ x \in Nat
    BY <1>1, SMTT(30)
<1>3. n \in Nat /\ d \in Nat \ {0}
    BY <1>1, <1>2, SMTT(30)
<1>4. q \in Nat /\ (2 * d) * q <= 2 * n + d
    <2> HIDE DEF n, d
    <2>. QED BY <1>3, SMTT(30)
<1>5. (20000 * q) * Cent <= (2 * x + 10000) * Cent
    <2> HIDE DEF q, x
    <2>. QED BY <1>1, <1>2, <1>4, SMTT(30)
<1>6. 20000 * q <= 2 * x + 10000
    <2> HIDE DEF q, x
    <2>. QED BY <1>1, <1>2, <1>4, <1>5, SMTT(30)
<1>7. PercentOf(k * Cent, bps) = q * Cent
    BY <1>1, <1>4, SMTT(30) DEF PercentOf, Money, HalfUp
<1>. QED
    BY <1>4, <1>6, <1>7

(***************************************************************************)
(* Every settlement of a whole-cent amount hands out exactly that amount   *)
(* (calculate_total_fees, fee_service.py): the three roundings cancel, and *)
(* neither fee nor the payout is negative.                                 *)
(***************************************************************************)
THEOREM WholeCentSettlementIsExact ==
    ASSUME NEW a \in Nat, NEW bps \in Nat, WholeCents(a), ValidBotFee(bps)
    PROVE  /\ HandedOut(a, bps) = a
           /\ PlatformFee(a) \in Nat
           /\ BotFee(a, bps) \in Nat
           /\ SellerPayout(a, bps) \in Nat
<1>1. Cent \in Nat \ {0} /\ PlatformFeeBps \in Nat
    BY FeesAssumption
<1>2. PICK k \in Int : a = k * Cent
    BY CentsOf
<1>3. k \in Nat
    BY <1>1, <1>2, SMTT(30)
<1>4. PICK p \in Nat : /\ PlatformFee(a) = p * Cent
                       /\ 20000 * p <= 2 * (k * PlatformFeeBps) + 10000
    BY <1>1, <1>2, <1>3, PercentOfCents DEF PlatformFee
<1>5. PICK b \in Nat : /\ BotFee(a, bps) = b * Cent
                       /\ 20000 * b <= 2 * (k * bps) + 10000
    BY <1>2, <1>3, PercentOfCents DEF BotFee
<1>6. TotalFee(a, bps) = (p + b) * Cent
    <2>1. PlatformFee(a) + BotFee(a, bps) = (p + b) * Cent
        BY <1>1, <1>4, <1>5, SMTT(30)
    <2>. QED
        BY <2>1, MoneyOfCents DEF TotalFee
<1>7. SellerPayout(a, bps) = (k - (p + b)) * Cent
    <2>1. a - TotalFee(a, bps) = (k - (p + b)) * Cent
        BY <1>1, <1>2, <1>6, SMTT(30)
    <2>. QED
        BY <2>1, MoneyOfCents DEF SellerPayout
<1>8. p + b <= k
    <2>1. PlatformFeeBps + bps < 5000
        BY <1>1, FeesAssumption DEF ValidBotFee, MaxBotExtraFeeBps
    <2>2. CASE k = 0
        BY <1>1, <1>4, <1>5, <2>2
    <2>3. CASE k = 1
        BY <1>1, <1>4, <1>5, <2>1, <2>3
    <2>4. CASE k >= 2
        <3>1. k * PlatformFeeBps + k * bps <= k * 5000
            BY <1>1, <1>3, <2>1, SMTT(30)
        <3>2. /\ k * PlatformFeeBps \in Nat
              /\ k * bps \in Nat
            BY <1>1, <1>3, SMTT(30)
        <3>. QED
            BY <1>3, <1>4, <1>5, <2>4, <3>1, <3>2, SMTT(30)
    <2>. QED
        BY <1>3, <2>2, <2>3, <2>4
<1>9. /\ p * Cent \in Nat
      /\ b * Cent \in Nat
      /\ (k - (p + b)) * Cent \in Nat
    BY <1>1, <1>3, <1>8, SMTT(30)
<1>10. HandedOut(a, bps) = a
    BY <1>1, <1>2, <1>4, <1>5, <1>7, SMTT(30) DEF HandedOut
<1>. QED
    BY <1>4, <1>5, <1>7, <1>9, <1>10

-----------------------------------------------------------------------------

\* Rounding half up is never off by more than a half.
LEMMA HalfUpIsNear ==
    ASSUME NEW n \in Int, NEW d \in Nat \ {0}
    PROVE  /\ HalfUp(n, d) \in Int
           /\ 2 * (d * HalfUp(n, d) - n) <= d
           /\ -d <= 2 * (d * HalfUp(n, d) - n)
<1> DEFINE m == 2 * n + d
           q == m \div (2 * d)
           x == (2 * d) * q
<1>1. m \in Int /\ 2 * d \in Nat \ {0}
    OBVIOUS
<1>2. q \in Int /\ x <= m /\ m < x + 2 * d
    <2> HIDE DEF m
    <2>. QED BY <1>1, SMTT(30)
<1>3. x = 2 * (d * q) /\ d * q \in Int
    <2> HIDE DEF q
    <2>. QED BY <1>2, SMTT(30)
<1>4. HalfUp(n, d) = q
    BY DEF HalfUp
<1> HIDE DEF q, x
<1>5. x \in Int /\ x <= 2 * n + d /\ 2 * n < x + d
    BY <1>2, <1>3
<1>. QED
    BY <1>2, <1>3, <1>4, <1>5

Near(a, bps) ==
    2 * (10000 * PercentOf(a, bps) - a * bps) \in -(10000 * Cent) .. (10000 * Cent)

\* A fee is within half a cent of the exact percentage, for every amount.
LEMMA PercentIsNear ==
    ASSUME NEW a \in Nat, NEW bps \in Nat
    PROVE  Near(a, bps)
<1> DEFINE n == a * bps
           d == 10000 * Cent
           h == HalfUp(n, d)
<1>1. Cent \in Nat \ {0}
    BY FeesAssumption
<1>2. n \in Int /\ d \in Nat \ {0}
    BY <1>1, SMTT(30)
<1>3. PercentOf(a, bps) = Cent * h
    BY DEF PercentOf, Money
<1>4. h \in Int /\ 2 * (d * h - n) <= d /\ -d <= 2 * (d * h - n)
    <2> HIDE DEF n, d
    <2>. QED BY <1>2, HalfUpIsNear
<1>5. 10000 * (Cent * h) = d * h /\ d * h \in Int
    <2> HIDE DEF h
    <2>. QED BY <1>1, <1>4, SMTT(30)
<1>6. 2 * (10000 * PercentOf(a, bps) - n) = 2 * (d * h - n)
    BY <1>3, <1>5
<1>7. 2 * (d * h - n) \in Int
    <2> HIDE DEF n, d, h
    <2>. QED BY <1>2, <1>4, <1>5
<1>. QED
    <2> HIDE DEF n, h
    <2>1. 2 * (10000 * PercentOf(a, bps) - n) \in -d .. d
        <3> HIDE DEF d
        <3>. QED BY <1>2, <1>4, <1>6, <1>7
    <2>. QED BY <2>1 DEF n, Near

AtMostDouble(a, bps) ==
    \E q \in Nat : /\ PercentOf(a, bps) = q * Cent
                   /\ PercentOf(a, bps) \in Nat
                   /\ 5000 * PercentOf(a, bps) <= a * bps

\* A fee is a natural number, at most twice the exact percentage.
LEMMA PercentIsAtMostDouble ==
    ASSUME NEW a \in Nat, NEW bps \in Nat
    PROVE  AtMostDouble(a, bps)
<1> DEFINE n == a * bps
           d == 10000 * Cent
           q == HalfUp(n, d)
<1>1. Cent \in Nat \ {0}
    BY FeesAssumption
<1>2. n \in Nat /\ d \in Nat \ {0}
    BY <1>1, SMTT(30)
<1>3. q \in Int /\ 2 * (d * q - n) <= d
    <2> HIDE DEF n, d
    <2>. QED BY <1>2, HalfUpIsNear
<1>4. q \in Nat
    <2>1. (2 * n + d) \div (2 * d) \in Nat
        <3> HIDE DEF n, d
        <3>. QED BY <1>2, SMTT(30)
    <2>. QED
        BY <2>1 DEF HalfUp
<1>5. PercentOf(a, bps) = Cent * q /\ Cent * q = q * Cent /\ Cent * q \in Nat
    <2>1. PercentOf(a, bps) = Cent * q
        BY DEF PercentOf, Money
    <2> HIDE DEF q
    <2>. QED BY <1>1, <1>4, <2>1, SMTT(30)
<1>6. d * q = 10000 * (Cent * q) /\ d * q \in Nat
    <2> HIDE DEF q
    <2>. QED BY <1>1, <1>4, SMTT(30)
<1>7. d * q <= 2 * n
    <2> HIDE DEF n, d, q
    <2>1. CASE q = 0
        BY <1>2, <2>1, SMTT(30)
    <2>2. CASE q # 0
        <3>1. d <= d * q
            BY <1>2, <1>4, <2>2, SMTT(30)
        <3>2. d * q \in Nat
            BY <1>6
        <3>. QED
            BY <1>2, <1>3, <3>1, <3>2
    <2>. QED
        BY <2>1, <2>2
<1>8. 5000 * PercentOf(a, bps) <= n
    <2> HIDE DEF n, d, q
    <2>. QED BY <1>2, <1>5, <1>6, <1>7
<1>. QED
    BY <1>4, <1>5, <1>8 DEF AtMostDouble

(***************************************************************************)
(* A settlement of any amount, whole cents or not, hands it out in three   *)
(* parts, none negative, to within half a cent: only the payout's rounding *)
(* is left over (calculate_total_fees, fee_service.py).                    *)
(***************************************************************************)
THEOREM SettlementIsNear ==
    ASSUME NEW a \in Nat, NEW bps \in Nat, ValidBotFee(bps)
    PROVE  /\ PlatformFee(a) \in Nat
           /\ BotFee(a, bps) \in Nat
           /\ SellerPayout(a, bps) \in Nat
           /\ 2 * (HandedOut(a, bps) - a) <= Cent
           /\ -Cent <= 2 * (HandedOut(a, bps) - a)
<1> DEFINE fees == PlatformFee(a) + BotFee(a, bps)
           pay == SellerPayout(a, bps)
           h == HalfUp(a - fees, 1 * Cent)
<1>1. Cent \in Nat \ {0} /\ PlatformFeeBps \in Nat /\ PlatformFeeBps + bps <= 5000
    BY FeesAssumption DEF ValidBotFee, MaxBotExtraFeeBps
<1>2. PICK p \in Nat : /\ PlatformFee(a) = p * Cent
                       /\ PlatformFee(a) \in Nat
                       /\ 5000 * PlatformFee(a) <= a * PlatformFeeBps
    <2>1. AtMostDouble(a, PlatformFeeBps)
        BY <1>1, PercentIsAtMostDouble
    <2>. QED
        BY <2>1 DEF AtMostDouble, PlatformFee
<1>3. PICK b \in Nat : /\ BotFee(a, bps) = b * Cent
                       /\ BotFee(a, bps) \in Nat
                       /\ 5000 * BotFee(a, bps) <= a * bps
    <2>1. AtMostDouble(a, bps)
        BY PercentIsAtMostDouble
    <2>. QED
        BY <2>1 DEF AtMostDouble, BotFee
<1>4. fees = (p + b) * Cent /\ fees \in Nat
    BY <1>1, <1>2, <1>3, SMTT(30)
<1>5. fees <= a
    <2>1. a * PlatformFeeBps + a * bps <= a * 5000
        BY <1>1, SMTT(30)
    <2>2. a * PlatformFeeBps \in Nat /\ a * bps \in Nat
        BY <1>1, SMTT(30)
    <2>. QED
        BY <1>2, <1>3, <2>1, <2>2
<1>6. TotalFee(a, bps) = fees
    <2> HIDE DEF fees
    <2>1. Money((p + b) * Cent, 1) = (p + b) * Cent
        BY MoneyOfCents
    <2>. QED
        BY <1>4, <2>1 DEF TotalFee, fees
<1>7. pay = Cent * h
    <2> HIDE DEF fees
    <2>. QED BY <1>6 DEF SellerPayout, Money
<1> HIDE DEF fees
<1>8. 1 * Cent = Cent /\ a - fees \in Nat
    BY <1>1, <1>4, <1>5
<1>9. /\ h \in Int
      /\ 2 * (Cent * h - (a - fees)) <= Cent
      /\ -Cent <= 2 * (Cent * h - (a - fees))
    BY <1>1, <1>8, HalfUpIsNear
<1> HIDE DEF h, pay
<1>10. h \in Nat
    <2>1. Cent * h \in Int
        BY <1>1, <1>9
    <2>2. -Cent <= 2 * (Cent * h)
        BY <1>1, <1>8, <1>9, <2>1
    <2>3. h < 0 => Cent * h <= -Cent
        BY <1>1, <1>9, SMTT(30)
    <2>. QED
        BY <1>1, <1>9, <2>1, <2>2, <2>3
<1>11. pay \in Nat
    BY <1>1, <1>7, <1>10, SMTT(30)
<1>12. HandedOut(a, bps) = pay + fees
    BY <1>2, <1>3, <1>11 DEF HandedOut, pay, fees
<1>13. HandedOut(a, bps) - a = Cent * h - (a - fees)
    BY <1>4, <1>7, <1>11, <1>12
<1>. QED
    BY <1>2, <1>3, <1>9, <1>11, <1>13 DEF pay
=============================================================================
