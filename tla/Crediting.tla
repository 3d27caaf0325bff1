----------------------------- MODULE Crediting ------------------------------
(***************************************************************************)
(* What the deposits promise, whatever reads the chains: a transfer is     *)
(* seen, or credited at once, and never loses what it has reached; its one *)
(* credit goes to the owner of the address that was paid, in two parts     *)
(* that add up to the payment, and is not touched again.                   *)
(***************************************************************************)
EXTENDS Integers

CONSTANTS
    Payments,
    Owner,     \* per payment: who owns the address it was sent to
    Gross      \* per payment: what was sent

VARIABLES
    stage,     \* per payment: "unknown", "seen" or "credited"
    credits    \* per payment: what was booked for it

Entry(p) == {[to |-> Owner[p], net |-> Gross[p] - fee, fee |-> fee] : fee \in 0 .. Gross[p]}

CreditingInit ==
    /\ stage = [p \in Payments |-> "unknown"]
    /\ credits = [p \in Payments |-> <<>>]

See(p) ==
    /\ stage[p] = "unknown"
    /\ stage' = [stage EXCEPT ![p] = "seen"]
    /\ credits' = credits

Credit(p) ==
    /\ stage[p] # "credited"
    /\ stage' = [stage EXCEPT ![p] = "credited"]
    /\ \E entry \in Entry(p) : credits' = [credits EXCEPT ![p] = <<entry>>]

CreditingNext == \E p \in Payments : See(p) \/ Credit(p)

CreditingSpec == CreditingInit /\ [][CreditingNext]_<<stage, credits>>

=============================================================================
