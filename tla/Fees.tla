-------------------------------- MODULE Fees --------------------------------
(***************************************************************************)
(* The escrow fee arithmetic of fee_service.py.                            *)
(*                                                                         *)
(* An amount is an integer number of units of the asset's smallest         *)
(* quantum, and Cent is how many units make 0.01 of the asset, the place   *)
(* FeeService._money rounds to whatever the asset is.  A percentage is a   *)
(* number of basis points.  Decimal carries 28 digits, so every product    *)
(* and quotient below is exact until it is rounded.                        *)
(***************************************************************************)
EXTENDS Integers

CONSTANTS
    Cent,            \* units in 0.01 of the asset (10^6 for an 8-decimal coin)
    PlatformFeeBps   \* Settings.escrow_platform_fee_percent, 300 by default

MaxBotExtraFeeBps == 300

\* The platform percentage comes from the environment and is not validated;
\* the service is configured with 3 and the bounds only ask that the two
\* percentages together stay under a half.
ASSUME FeesAssumption ==
    /\ Cent \in Nat \ {0}
    /\ PlatformFeeBps \in Nat
    /\ PlatformFeeBps + MaxBotExtraFeeBps < 5000

\* n / d rounded to the nearest integer, halves upwards (n >= 0, d > 0).
HalfUp(n, d) == (2 * n + d) \div (2 * d)

\* The amount n / d quantized to whole cents.
Money(n, d) == Cent * HalfUp(n, d * Cent)

PercentOf(amount, bps) == Money(amount * bps, 10000)

\* A wrong variant: the fee rounded down instead of half up.
PlatformFeeFloored(amount) == Cent * ((amount * PlatformFeeBps) \div (10000 * Cent))

PlatformFee(amount) == PercentOf(amount, PlatformFeeBps)

ValidBotFee(bps) == 0 <= bps /\ bps <= MaxBotExtraFeeBps

BotFee(amount, bps) == PercentOf(amount, bps)

TotalFee(amount, bps) == Money(PlatformFee(amount) + BotFee(amount, bps), 1)

\* A wrong variant: the tenant's fee booked but not taken off the payout.
PayoutBeforeBotFee(amount, bps) == Money(amount - PlatformFee(amount), 1)

SellerPayout(amount, bps) == Money(amount - TotalFee(amount, bps), 1)

-----------------------------------------------------------------------------

\* An amount with no fraction of a cent, for which the rounding of the payout
\* has nothing to round.
WholeCents(amount) == amount % Cent = 0

\* What a settlement hands out: the payout and the two fees.
HandedOut(amount, bps) ==
    SellerPayout(amount, bps) + PlatformFee(amount) + BotFee(amount, bps)
=============================================================================
