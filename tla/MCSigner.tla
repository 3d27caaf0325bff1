------------------------------ MODULE MCSigner ------------------------------
(***************************************************************************)
(* Model checking of Signer.                                               *)
(***************************************************************************)
EXTENDS Signer

MCWithdrawalFunds == [u \in WithdrawalUsers |-> 3000]

\* The life cycle of WITHDRAWAL_PROVIDER_SELF_HOSTED.md, with refusals and with
\* the statuses that say nothing; what was paid or refused stays so.
DocumentedMoves ==
    (({"submitted", "ambiguous"} \X {"broadcasted", "rejected", "ambiguous"})
     \cup {<<"broadcasted", "confirmed">>, <<"ambiguous", "submitted">>})
    \ {<<"ambiguous", "ambiguous">>}

\* The same without refusals.
UnrefusedMoves == {move \in DocumentedMoves : move[2] # "rejected"}

=============================================================================
