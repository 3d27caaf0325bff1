------------------------------- MODULE MCFees -------------------------------
(***************************************************************************)
(* Sweeps the fee arithmetic over every amount up to MaxAmount and a few   *)
(* tenant percentages, one pair per state.                                 *)
(***************************************************************************)
EXTENDS Fees

CONSTANTS MaxAmount, MinAmount, BotFees

\* Any bounds, and any percentages TenantService accepts.
ASSUME SweepAssumption ==
    /\ MinAmount \in Nat
    /\ MaxAmount \in Nat
    /\ BotFees \subseteq {bps \in Nat : ValidBotFee(bps)}

VARIABLES amount, bps

vars == <<amount, bps>>

Init == amount = MinAmount /\ bps \in BotFees

Next == /\ amount < MaxAmount
        /\ amount' = amount + 1
        /\ bps' = bps

Spec == Init /\ [][Next]_vars

-----------------------------------------------------------------------------

\* A whole-cent amount is handed out to the last unit: payout and the two
\* fees add up to it (calculate_total_fees).
ExactOnWholeCents ==
    WholeCents(amount) => HandedOut(amount, bps) = amount

\* Each fee is the percentage the tenant and the platform were promised, to
\* within half a cent, however the amount falls.
FeesWithinHalfCent ==
    /\ 2 * (10000 * PlatformFee(amount) - amount * PlatformFeeBps)
         \in -(10000 * Cent) .. (10000 * Cent)
    /\ 2 * (10000 * BotFee(amount, bps) - amount * bps)
         \in -(10000 * Cent) .. (10000 * Cent)

\* The documented payout formula (docs/ARCHITECTURE.md, "seller_payout =
\* amount - (platform_fee + bot_extra_fee)") for any amount a deal may have.
PayoutFormula ==
    SellerPayout(amount, bps)
        = amount - (PlatformFee(amount) + BotFee(amount, bps))
=============================================================================
