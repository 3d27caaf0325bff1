---------------------------- MODULE MCFeesProofs ----------------------------
(***************************************************************************)
(* What the sweep of the fee arithmetic finds is so for every amount, unit *)
(* and percentage, and not only for those it visits.                       *)
(***************************************************************************)
EXTENDS MCFees, FeesProofs

SweepInv == amount \in Nat /\ bps \in Nat /\ ValidBotFee(bps)

LEMMA SweepIsTyped == Spec => []SweepInv
<1>1. Init => SweepInv
    BY SweepAssumption DEF Init, SweepInv
<1>2. SweepInv /\ [Next]_vars => SweepInv'
    BY DEF SweepInv, Next, vars
<1>. QED
    BY <1>1, <1>2, PTL DEF Spec

\* Whatever a deal is worth, if it is a whole number of cents its payout and
\* its two fees add up to it, whatever the tenant charges.
THEOREM WholeCentsAreExact == Spec => []ExactOnWholeCents
<1>1. SweepInv => ExactOnWholeCents
    BY WholeCentSettlementIsExact DEF SweepInv, ExactOnWholeCents
<1>. QED
    BY <1>1, SweepIsTyped, PTL

\* However the amount falls, neither fee is off by more than half a cent.
THEOREM FeesAreWithinHalfCent == Spec => []FeesWithinHalfCent
<1>1. SweepInv => FeesWithinHalfCent
    <2> SUFFICES ASSUME SweepInv PROVE FeesWithinHalfCent
        OBVIOUS
    <2>1. amount \in Nat /\ bps \in Nat /\ PlatformFeeBps \in Nat
        BY FeesAssumption DEF SweepInv
    <2>2. Near(amount, PlatformFeeBps) /\ Near(amount, bps)
        BY <2>1, PercentIsNear
    <2>. QED
        BY <2>2 DEF Near, FeesWithinHalfCent, PlatformFee, BotFee
<1>. QED
    BY <1>1, SweepIsTyped, PTL
=============================================================================
