---------------------------- MODULE DisputeFlow -----------------------------
(***************************************************************************)
(* The dispute conversation of bot.py over the escrow service: a party is  *)
(* prompted for a reason, types it, confirms it, and a moderator presses a *)
(* resolution.  The conversation lives in context.user_data, which is not  *)
(* persisted; every button stays on the user's screen and may be pressed   *)
(* when the conversation has long moved on.                                *)
(*                                                                         *)
(* The bot is one process that handles one update at a time, so a handler  *)
(* is one action.  The rest of the deal's life is Escrow's.                *)
(***************************************************************************)
EXTENDS Escrow

CONSTANT TelegramId   \* users.telegram_id of each internal user id

\* A Telegram account has one row; Moderators, in Settings, are Telegram ids.
ASSUME TelegramAssumption ==
    \A u, w \in Users : TelegramId[u] = TelegramId[w] => u = w

\* The moderators' split button splits evenly.
ASSUME SplitAssumption == 50 \in SplitPercents

VARIABLES
    awaiting,   \* user_data["awaiting_dispute_reason"]
    prompted,   \* user_data["dispute_escrow_id"]
    pending,    \* user_data["pending_dispute"]: the deal, and the reason typed
    reason,     \* disputes.reason, of the row the deal has
    refused     \* whether a moderator's press ever ended in PermissionError

flow == <<awaiting, prompted, pending>>
allVars == <<vars, flow, reason, refused>>

\* A reason is known by the deal whose prompt the user was answering.
Pending == [deal : EscrowIds, reason : EscrowIds]

FlowTypeOK ==
    /\ TypeOK
    /\ awaiting \in [Users -> BOOLEAN]
    /\ prompted \in [Users -> EscrowIds \cup {None}]
    /\ pending \in [Users -> Pending \cup {None}]
    /\ reason \in [EscrowIds -> EscrowIds \cup {None}]
    /\ refused \in BOOLEAN

FlowInit ==
    /\ Init
    /\ awaiting = [u \in Users |-> FALSE]
    /\ prompted = [u \in Users |-> None]
    /\ pending = [u \in Users |-> None]
    /\ reason = [e \in EscrowIds |-> None]
    /\ refused = FALSE

-----------------------------------------------------------------------------

\* esc_active_dispute_handler.  The button is on messages about the deal, old
\* ones included; the handler itself looks at nothing.
PromptDispute(u, e) ==
    /\ escrow[e].status # "none"
    /\ u \in Participants(e)
    /\ awaiting' = [awaiting EXCEPT ![u] = TRUE]
    /\ prompted' = [prompted EXCEPT ![u] = e]
    /\ pending' = [pending EXCEPT ![u] = None]
    /\ UNCHANGED <<vars, reason, refused>>

\* A wrong variant: any text is taken for a reason.
TypeUnprompted(u) ==
    /\ pending' = [pending EXCEPT ![u] = [deal |-> prompted[u], reason |-> prompted[u]]]
    /\ awaiting' = [awaiting EXCEPT ![u] = FALSE]
    /\ UNCHANGED <<vars, prompted, reason, refused>>

\* esc_dispute_reason_message.
TypeReason(u) ==
    /\ awaiting[u]
    /\ pending' = [pending EXCEPT ![u] = [deal |-> prompted[u], reason |-> prompted[u]]]
    /\ awaiting' = [awaiting EXCEPT ![u] = FALSE]
    /\ UNCHANGED <<vars, prompted, reason, refused>>

\* A wrong variant: the button's deal is not compared with the reason's.
SubmitUnmatched(u, e) ==
    /\ pending[u] # None
    /\ pending' = [pending EXCEPT ![u] = None]
    /\ Dispute(e, u)
    /\ reason' = [reason EXCEPT ![e] = pending[u].reason]
    /\ UNCHANGED <<awaiting, prompted, refused>>

\* esc_dispute_submit_handler, for a Confirm button of any age.  The pending
\* reason is dropped first: by a button of another deal, by the rate limiter,
\* by a deal no longer open to disputes, or by the dispute it opens.
Submit(u, e) ==
    /\ pending[u] # None
    /\ pending' = [pending EXCEPT ![u] = None]
    /\ \/ /\ pending[u].deal = e
          /\ Dispute(e, u)
          /\ reason' = [reason EXCEPT ![e] = pending[u].reason]
       \/ UNCHANGED <<vars, reason>>
    /\ UNCHANGED <<awaiting, prompted, refused>>

\* /check_user and /recover: _clear_interactive_state leaves pending_dispute.
ClearFlow(u) ==
    /\ awaiting' = [awaiting EXCEPT ![u] = FALSE]
    /\ prompted' = [prompted EXCEPT ![u] = None]
    /\ UNCHANGED <<vars, pending, reason, refused>>

\* A restart of the bot process forgets every conversation, and nothing else.
Restart ==
    /\ awaiting' = [u \in Users |-> FALSE]
    /\ prompted' = [u \in Users |-> None]
    /\ pending' = [u \in Users |-> None]
    /\ UNCHANGED <<vars, reason, refused>>

-----------------------------------------------------------------------------

IsModerator(u) == TelegramId[u] \in Moderators

\* A wrong variant: the press finds the deal disputed and settles nothing.
PressWithoutEffect(u, e, resolution) ==
    /\ IsModerator(u)
    /\ escrow[e].status = "disputed"
    /\ refused' = TRUE
    /\ UNCHANGED <<vars, flow, reason>>

\* mod_resolve_handler: the Telegram id passes _is_moderator, and the internal
\* id is what resolve_dispute looks for among the moderators.
PressResolve(u, e, resolution) ==
    /\ IsModerator(u)
    /\ escrow[e].status = "disputed"
    /\ \/ /\ ResolveDispute(e, u, resolution, 50)
          /\ refused' = refused
       \/ /\ u \notin Moderators
          /\ refused' = TRUE
          /\ UNCHANGED vars
    /\ UNCHANGED <<flow, reason>>

\* The deal's life beside its dispute.
DealProceeds(e) ==
    /\ \/ \E b \in Bots, buyer, seller \in Users, a \in Amounts :
             CreateEscrow(e, b, buyer, seller, a)
       \/ \E u \in Users : \/ AcceptEscrow(e, u)
                           \/ Release(e, u)
                           \/ CancelEscrow(e, u)
                           \/ RequestCancel(e, u)
                           \/ DeclineCancel(e, u)
                           \/ AcceptCancel(e, u)
    /\ UNCHANGED <<flow, reason, refused>>

ModeratorAnswers(e) == \E u \in Users, r \in Resolutions : PressResolve(u, e, r)

FlowNext ==
    \/ \E b \in Bots, o \in Owners, f \in BotFees :
          CreateOrUpdateTenant(b, o, f) /\ UNCHANGED <<flow, reason, refused>>
    \/ \E e \in EscrowIds : \/ DealProceeds(e)
                            \/ ModeratorAnswers(e)
                            \/ \E u \in Users : PromptDispute(u, e) \/ Submit(u, e)
    \/ \E u \in Users : TypeReason(u) \/ ClearFlow(u)
    \/ Restart

\* Moderators do not leave a dispute unanswered for ever; nobody else has to
\* do anything.
FlowSpec ==
    /\ FlowInit
    /\ [][FlowNext]_allVars
    /\ \A e \in EscrowIds : WF_allVars(ModeratorAnswers(e))

-----------------------------------------------------------------------------

\* The reason filed with a dispute was typed under the prompt of that same
\* deal, whatever other disputes the user began, abandoned or confirmed with an
\* old button in between (esc_dispute_submit_handler, F7).
ReasonBelongsToDeal == \A e \in EscrowIds : reason[e] \in {e, None}

\* A dispute that moderators keep answering comes to an end: "Moderator
\* resolves a dispute" (mod_resolve_handler).
DisputesAreResolved ==
    \A e \in EscrowIds : escrow[e].status = "disputed" ~> escrow[e].status = "completed"

=============================================================================
