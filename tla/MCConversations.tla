-------------------------- MODULE MCConversations ---------------------------
(***************************************************************************)
(* Model checking of Conversations.  What a user does with deals and what  *)
(* the user does with a withdrawal meet in the dictionary and in the text  *)
(* they type, not in the rows, and reviews meet the deals only.  A run     *)
(* follows one of three plans: two deals from their drafts to their end, a *)
(* withdrawal beside a deal that is being drafted, or two deals and their  *)
(* reviews.                                                                *)
(***************************************************************************)
EXTENDS Conversations, TLC

CONSTANTS
    Frozen,     \* the users whom an admin freezes and unfreezes
    Others      \* the users whose own conversations make deals

VARIABLE plan

MCInit == Init /\ plan \in {"deals", "withdrawal", "reviews"}

OthersMake ==
    \E u \in Others, s \in Users, a \in Assets, e \in DealIds : OtherMakes(u, s, a, e)

MCNext ==
    /\ UNCHANGED plan
    /\ \/ /\ plan = "deals"
          /\ \E u \in Talkers : DealTalk(u)
       \/ /\ plan = "withdrawal"
          /\ \E u \in Talkers : DealTalk(u) \/ WithdrawTalk(u)
          /\ UNCHANGED made
       \/ /\ plan = "reviews"
          /\ \E e \in DealIds, u \in Users : RateDeal(u, e)
       \/ /\ plan # "withdrawal"
          /\ OthersMake \/ \E e \in DealIds : DealMoves(e)
       \/ /\ plan # "reviews"
          /\ \E u \in Frozen : SetFrozen(u)
       \/ Restart

MCSpec == MCInit /\ [][MCNext]_<<vars, plan>>

\* Nothing tells two deals apart but their rows.
DealSymmetry == Permutations(DealIds)
=============================================================================
