--------------------------- MODULE MCDisputeFlow ----------------------------
(***************************************************************************)
(* Model checking of DisputeFlow.                                          *)
(***************************************************************************)
EXTENDS DisputeFlow, TLC

MCFunds == [u \in Users |-> IF u = 1 THEN 2020 ELSE 0]

\* The ids as the unit tests have them: the moderator, user 2, is listed by the
\* internal id.  User 1 is listed by the Telegram id.
IdsOfTests == (1 :> 501) @@ (2 :> 2)

\* The ids as MODERATOR_TELEGRAM_IDS has them: the moderator is user 3.
IdsOfProduction == (1 :> 501) @@ (2 :> 502) @@ (3 :> 503)
=============================================================================
