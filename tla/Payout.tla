------------------------------- MODULE Payout -------------------------------
(***************************************************************************)
(* What a withdrawal promises, whatever happens on the way: the user is    *)
(* charged when it is requested, and in the end either the stake leaves    *)
(* for the chain and the rest of the charge is the platform's, to the last *)
(* unit, or the whole charge comes back; never both, and neither twice.    *)
(* A withdrawal that was sent can no longer come back.                     *)
(***************************************************************************)
EXTENDS Integers

CONSTANT Ids

VARIABLES
    phase,     \* per withdrawal
    stake,     \* the amount that is to leave
    charged,   \* what the user's balance is down by
    earned     \* what the platform's is up by

Phase == {"new", "reserved", "sent", "paid", "released"}

PayoutInit ==
    /\ phase = [w \in Ids |-> "new"]
    /\ stake = [w \in Ids |-> 0]
    /\ charged = [w \in Ids |-> 0]
    /\ earned = [w \in Ids |-> 0]

Moves(w, from, to) == phase[w] \in from /\ phase'[w] = to

Same(w) ==
    /\ phase'[w] = phase[w]
    /\ stake'[w] = stake[w]
    /\ charged'[w] = charged[w]
    /\ earned'[w] = earned[w]

Reserve(w) ==
    /\ Moves(w, {"new"}, "reserved")
    /\ stake'[w] \in Nat \ {0}
    /\ charged'[w] > stake'[w]
    /\ earned'[w] = 0

Send(w) ==
    /\ Moves(w, {"reserved"}, "sent")
    /\ stake'[w] = stake[w]
    /\ charged'[w] = charged[w]
    /\ 0 < earned'[w] /\ earned'[w] < charged[w] - stake[w]

Pay(w) ==
    /\ Moves(w, {"reserved", "sent"}, "paid")
    /\ stake'[w] = stake[w]
    /\ charged'[w] = stake[w] + earned'[w]
    /\ earned'[w] >= earned[w]

Release(w) ==
    /\ Moves(w, {"reserved"}, "released")
    /\ stake'[w] = stake[w]
    /\ charged'[w] = 0
    /\ earned'[w] = 0

\* One transaction may move several withdrawals.
PayoutNext ==
    \A w \in Ids : Same(w) \/ Reserve(w) \/ Send(w) \/ Pay(w) \/ Release(w)

PayoutSpec == PayoutInit /\ [][PayoutNext]_<<phase, stake, charged, earned>>

=============================================================================
