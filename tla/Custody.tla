------------------------------ MODULE Custody -------------------------------
(***************************************************************************)
(* What an escrow promises, whatever its life cycle: a deal takes a stake  *)
(* into custody once, holds all of it while the deal is open, and hands    *)
(* out exactly that stake, once, to the parties of the deal.  No role is   *)
(* ever charged by the hand-out and nothing is made or lost.               *)
(***************************************************************************)
EXTENDS Integers

CONSTANT Deals

VARIABLES
    phase,   \* per deal: "new", "held" or "settled"
    stake,   \* per deal: the amount taken into custody
    paid     \* per deal and role: what the settlement handed out

Role == {"buyer", "seller", "platform", "owner"}

NothingPaid == [r \in Role |-> 0]

Sum(p) == p["buyer"] + p["seller"] + p["platform"] + p["owner"]

CustodyInit ==
    /\ phase = [d \in Deals |-> "new"]
    /\ stake = [d \in Deals |-> 0]
    /\ paid = [d \in Deals |-> NothingPaid]

Take(d) ==
    /\ phase[d] = "new"
    /\ phase' = [phase EXCEPT ![d] = "held"]
    /\ stake'[d] \in Nat \ {0}
    /\ stake' = [stake EXCEPT ![d] = stake'[d]]
    /\ paid' = paid

HandOut(d) ==
    /\ phase[d] = "held"
    /\ phase' = [phase EXCEPT ![d] = "settled"]
    /\ paid'[d] \in [Role -> Nat]
    /\ Sum(paid'[d]) = stake[d]
    /\ paid' = [paid EXCEPT ![d] = paid'[d]]
    /\ stake' = stake

CustodyNext == \E d \in Deals : Take(d) \/ HandOut(d)

CustodySpec == CustodyInit /\ [][CustodyNext]_<<phase, stake, paid>>

=============================================================================
