------------------------------ MODULE MCEscrow ------------------------------
(***************************************************************************)
(* Model checking of Escrow: two deals between users who may be buyer in   *)
(* one and seller in the other, a tenant whose fee and owner change under  *)
(* them, and amounts of whole cents.                                       *)
(***************************************************************************)
EXTENDS Escrow, TLC

CONSTANTS alice, bob

MCUsers == {alice, bob}
MCFunds == (alice :> 3000) @@ (bob :> 1000)
=============================================================================
