--------------------------- MODULE Conversations ----------------------------
(***************************************************************************)
(* The conversations of bot.py: the draft of a deal, a withdrawal,         *)
(* /recover, /cancel and /start, frozen accounts and ratings.              *)
(*                                                                         *)
(* The conversations of one user are at states of their own and share one  *)
(* dictionary, context.user_data, which the commands clear under all of    *)
(* them.  Nothing of it is persisted.  A button stays on the screen and    *)
(* acts on whatever the dictionary holds when it is pressed; a text goes   *)
(* to the first conversation that takes one.  The bot handles one update   *)
(* at a time, so a handler is one action.                                  *)
(*                                                                         *)
(* A handler that refuses (the rate limit, a bad number, a ValueError of a *)
(* service that keeps the state) or that fails on a missing key changes    *)
(* nothing: that is a stuttering step.                                     *)
(*                                                                         *)
(* What the escrow service and the wallet do with a deal or a withdrawal   *)
(* is in Escrow and Withdrawals; here they are a status and a request.     *)
(***************************************************************************)
EXTENDS Naturals

CONSTANTS
    Users,          \* internal ids; the Telegram id of each is its own
    Talkers,        \* the users whose conversations are modelled in full
    Assets,
    DefaultAsset,   \* "USDT", where the dictionary has no asset
    DealIds,
    Addresses,      \* withdrawal addresses a user may type
    None

ASSUME ConversationsAssumption ==
    /\ Talkers \subseteq Users
    /\ DefaultAsset \in Assets
    /\ None \notin Users \cup Assets \cup DealIds \cup Addresses

VARIABLES
    deals,      \* the rows of escrows
    frozen,     \* users.frozen
    reviews,    \* the rows of reviews
    atDeal,     \* the state each user's deal conversation is at
    atWd,       \* the same for the withdrawal
    data,       \* context.user_data of each user
    recovered,  \* whether the buyer in the dictionary was put there by /recover
    made,       \* how each deal was made
    prompt,     \* the last "Confirm withdrawal" shown and not yet carried out
    withdrawn   \* the last withdrawal requested, with the prompt it answered

talk == <<atDeal, atWd>>
vars == <<deals, frozen, reviews, talk, data, recovered, made, prompt, withdrawn>>

-----------------------------------------------------------------------------

DealStates == {"end", "searchInput", "searchResult", "enterAmount",
               "enterConditions", "pendingView"}
WithdrawStates == {"end", "selectAsset", "enterAmount", "enterAddress", "confirm"}

OpenStatus == {"pending", "active", "disputed"}
SettledStatus == {"completed", "cancelled"}

\* An amount is known by the asset it was checked and priced in.
DealRow == [status : OpenStatus \cup SettledStatus, buyer : Users, seller : Users,
            asset : Assets, amount : Assets]

ASSUME NoneIsNoDeal == None \notin DealRow

OrNone(S) == S \cup {None}

\* DRAFT_FLOW_KEYS, without the labels that are only displayed.
Keys == [seller : OrNone(Users), buyer : OrNone(Users), asset : OrNone(Assets),
         amount : OrNone(Assets), deal : OrNone(DealIds),
         wd_asset : OrNone(Assets), wd_amount : OrNone(Assets),
         wd_address : OrNone(Addresses)]

NoKeys == [seller |-> None, buyer |-> None, asset |-> None, amount |-> None,
           deal |-> None, wd_asset |-> None, wd_amount |-> None,
           wd_address |-> None]

Terms == [asset : Assets, amount : Assets, address : Addresses]

\* user_data.get("buyer_id") or the user who typed; get("asset", "USDT").
Buyer(u) == IF data[u].buyer = None THEN u ELSE data[u].buyer
Asset(u) == IF data[u].asset = None THEN DefaultAsset ELSE data[u].asset

Parties(e) == {deals[e].buyer, deals[e].seller}

Init ==
    /\ deals = [e \in DealIds |-> None]
    /\ frozen = [u \in Users |-> FALSE]
    /\ reviews = {}
    /\ atDeal = [u \in Users |-> "end"]
    /\ atWd = [u \in Users |-> "end"]
    /\ data = [u \in Users |-> NoKeys]
    /\ recovered = [u \in Users |-> FALSE]
    /\ made = [e \in DealIds |-> None]
    /\ prompt = [u \in Users |-> None]
    /\ withdrawn = None

-----------------------------------------------------------------------------
(* The deal conversation.                                                  *)

ledger == <<deals, frozen, reviews, made, withdrawn>>

GoDeal(u, s) == atDeal' = [atDeal EXCEPT ![u] = s]
GoWithdraw(u, s) == atWd' = [atWd EXCEPT ![u] = s]

\* A wrong variant: the buyer stays in the dictionary.
ClearButBuyer(u) ==
    /\ data' = [data EXCEPT ![u] = [NoKeys EXCEPT !.buyer = data[u].buyer]]
    /\ recovered' = [recovered EXCEPT ![u] = FALSE]

\* _clear_draft_flow: the keys of every conversation, never their states.
ClearDraftFlow(u) ==
    /\ data' = [data EXCEPT ![u] = NoKeys]
    /\ recovered' = [recovered EXCEPT ![u] = FALSE]

\* _seller_lookup_and_render, over the keys it finds.  None is a name nobody has.
LookUp(u, s, keys) ==
    /\ GoDeal(u, IF frozen[u] THEN "end" ELSE "searchResult")
    /\ data' = [data EXCEPT ![u] = IF frozen[u] \/ s = None
                                   THEN keys ELSE [keys EXCEPT !.seller = s]]

\* /check_user: check_user_global clears and looks up, and then the entry point
\* of the conversation does the same again and sets the state.
CheckUser(u) ==
    /\ \/ ClearDraftFlow(u) /\ GoDeal(u, "searchInput")
       \/ /\ \E s \in OrNone(Users) : LookUp(u, s, NoKeys)
          /\ recovered' = [recovered EXCEPT ![u] = FALSE]
    /\ UNCHANGED <<ledger, atWd, prompt>>

\* deal_new_entry: a frozen user leaves with the dictionary as it was.
DealNew(u) ==
    /\ IF frozen[u]
       THEN GoDeal(u, "end") /\ UNCHANGED <<data, recovered>>
       ELSE GoDeal(u, "searchInput") /\ ClearDraftFlow(u)
    /\ UNCHANGED <<ledger, atWd, prompt>>

\* deal_search_input_text.
SearchText(u) ==
    /\ atDeal[u] = "searchInput"
    /\ \E s \in OrNone(Users) : LookUp(u, s, data[u])
    /\ UNCHANGED <<ledger, atWd, recovered, prompt>>

\* deal_search_result_cb: again, or on to the currencies, also where the search
\* found nobody and the button is an older message's.
SearchResult(u) ==
    /\ atDeal[u] = "searchResult"
    /\ \/ ClearDraftFlow(u) /\ GoDeal(u, "searchInput")
       \/ GoDeal(u, "enterAmount") /\ UNCHANGED <<data, recovered>>
    /\ UNCHANGED <<ledger, atWd, prompt>>

\* deal_enter_amount_callbacks, a currency.  deal_back_to_search is on no
\* message the bot sends.
DealAsset(u, a) ==
    /\ atDeal[u] = "enterAmount"
    /\ IF frozen[u] \/ data[u].seller = u
       THEN GoDeal(u, "end") /\ UNCHANGED <<data, recovered>>
       ELSE /\ data' = [data EXCEPT ![u].buyer = u, ![u].asset = a]
            /\ recovered' = [recovered EXCEPT ![u] = FALSE]
            /\ UNCHANGED atDeal
    /\ UNCHANGED <<ledger, atWd, prompt>>

\* A wrong variant: an amount already in the dictionary is taken again.
AmountKept(u) ==
    /\ atDeal[u] = "enterAmount"
    /\ data[u].seller \notin {None, Buyer(u)}
    /\ ~frozen[u]
    /\ data' = [data EXCEPT ![u].amount = IF @ = None THEN Asset(u) ELSE @,
                            ![u].asset = Asset(u)]
    /\ GoDeal(u, "enterConditions")
    /\ UNCHANGED <<ledger, atWd, recovered, prompt>>

\* deal_amount_input: an amount worth 40 dollars and covered by the balance.
DealAmount(u) ==
    /\ atDeal[u] = "enterAmount"
    /\ IF frozen[u] \/ data[u].seller \in {None, Buyer(u)}
       THEN GoDeal(u, "end") /\ UNCHANGED data
       ELSE /\ data' = [data EXCEPT ![u].amount = Asset(u), ![u].asset = Asset(u)]
            /\ GoDeal(u, "enterConditions")
    /\ UNCHANGED <<ledger, atWd, recovered, prompt>>

\* deal_back_from_conditions.
BackFromConditions(u) ==
    /\ atDeal[u] = "enterConditions"
    /\ GoDeal(u, IF data[u].buyer = None THEN "end" ELSE "enterAmount")
    /\ UNCHANGED <<ledger, atWd, data, recovered, prompt>>

\* How user u makes deal e for a buyer.
Make(u, e, row, fromRecovered) ==
    /\ deals[e] = None
    /\ deals' = [deals EXCEPT ![e] = row]
    /\ made' = [made EXCEPT ![e] = [by |-> u, recovered |-> fromRecovered,
                                    frozen |-> frozen[row.buyer]]]

\* deal_conditions_input: the roles and the amount are the dictionary's, the
\* frozen account that is looked for is the one of the user who types.
DealConditions(u, e) ==
    /\ atDeal[u] = "enterConditions"
    /\ \/ /\ frozen[u]
          /\ GoDeal(u, "end")
          /\ UNCHANGED <<deals, made, data>>
       \/ /\ ~frozen[u]
          /\ data[u].seller \notin {None, Buyer(u)}
          /\ data[u].amount # None
          /\ Make(u, e, [status |-> "pending", buyer |-> Buyer(u),
                         seller |-> data[u].seller, asset |-> Asset(u),
                         amount |-> data[u].amount], recovered[u])
          /\ data' = [data EXCEPT ![u].deal = e]
          /\ GoDeal(u, "pendingView")
    /\ UNCHANGED <<frozen, reviews, withdrawn, atWd, recovered, prompt>>

SetStatus(e, s) == deals' = [deals EXCEPT ![e].status = s]

\* deal_pending_actions: to the menu, and what a lost context does.
LeavePending(u) ==
    /\ atDeal[u] = "pendingView"
    /\ IF data[u].deal = None
       THEN UNCHANGED <<data, recovered>>
       ELSE ClearDraftFlow(u)
    /\ GoDeal(u, "end")
    /\ UNCHANGED <<ledger, atWd, prompt>>

\* deal_pending_actions, deal_cancel_request: the deal of the dictionary, on
\* whichever message the button is.
CancelRequest(u) ==
    LET e == data[u].deal IN
    /\ atDeal[u] = "pendingView"
    /\ e # None
    /\ deals[e].status = "pending"
    /\ u \in Parties(e)
    /\ SetStatus(e, "cancelled")
    /\ ClearDraftFlow(u)
    /\ GoDeal(u, "end")
    /\ UNCHANGED <<frozen, reviews, made, withdrawn, atWd, prompt>>

\* deal_back_main, the fallback of every state of the deal conversation, and
\* /start and /cancel, which end no other conversation: the /cancel of those
\* stands behind the global one.
BackMain(u) ==
    /\ ClearDraftFlow(u)
    /\ GoDeal(u, "end")
    /\ UNCHANGED <<ledger, atWd, prompt>>

\* A wrong variant: the latest deal, whoever's it is.
RecoverAny(u) ==
    /\ \E e \in DealIds :
          /\ deals[e] # None
          /\ deals[e].status \in OpenStatus
          /\ data' = [data EXCEPT ![u] = [NoKeys EXCEPT !.deal = e,
                          !.buyer = deals[e].buyer, !.seller = deals[e].seller,
                          !.amount = deals[e].amount, !.asset = deals[e].asset]]
          /\ recovered' = [recovered EXCEPT ![u] = TRUE]
    /\ UNCHANGED <<ledger, talk, prompt>>

\* /recover: the deal of u updated last, in either role, here any of u's; if it
\* is not open the dictionary stays empty.  The conversations stay where they are.
Recover(u) ==
    /\ \/ ClearDraftFlow(u)
       \/ \E e \in DealIds :
             /\ deals[e] # None
             /\ u \in Parties(e)
             /\ deals[e].status \in OpenStatus
             /\ data' = [data EXCEPT ![u] = [NoKeys EXCEPT !.deal = e,
                             !.buyer = deals[e].buyer, !.seller = deals[e].seller,
                             !.amount = deals[e].amount, !.asset = deals[e].asset]]
             /\ recovered' = [recovered EXCEPT ![u] = TRUE]
    /\ UNCHANGED <<ledger, talk, prompt>>

-----------------------------------------------------------------------------
(* The withdrawal conversation.                                            *)

\* Who reads a text: the conversations in the order of their handlers.
DealReads(u) == atDeal[u] \in {"searchInput", "enterAmount", "enterConditions"}
WithdrawReads(u, s) == ~DealReads(u) /\ atWd[u] = s

\* withdraw_start: the entry, dead while a withdrawal is under way, and
\* wd_back_assets.  Without an asset that covers the minimum it ends.
WithdrawStart(u) ==
    /\ atWd[u] \in {"end", "enterAmount", "enterAddress"}
    /\ \/ GoWithdraw(u, "end")
       \/ ~frozen[u] /\ GoWithdraw(u, "selectAsset")
    /\ UNCHANGED <<ledger, atDeal, data, recovered, prompt>>

\* withdraw_select_asset.
WithdrawSelectAsset(u, a) ==
    /\ atWd[u] = "selectAsset"
    /\ data' = [data EXCEPT ![u].wd_asset = a]
    /\ GoWithdraw(u, "enterAmount")
    /\ UNCHANGED <<ledger, atDeal, recovered, prompt>>

\* withdraw_amount_input: an amount above the asset's minimum, covered with fees.
WithdrawAmount(u) ==
    /\ WithdrawReads(u, "enterAmount")
    /\ IF data[u].wd_asset = None
       THEN GoWithdraw(u, "end") /\ UNCHANGED data
       ELSE /\ data' = [data EXCEPT ![u].wd_amount = data[u].wd_asset]
            /\ GoWithdraw(u, "enterAddress")
    /\ UNCHANGED <<ledger, atDeal, recovered, prompt>>

\* A wrong variant: the confirmation is shown with whatever there is.
AddressUnpriced(u, x) ==
    /\ WithdrawReads(u, "enterAddress")
    /\ data' = [data EXCEPT ![u].wd_address = x]
    /\ prompt' = [prompt EXCEPT ![u] =
           [asset |-> data[u].wd_asset, amount |-> data[u].wd_amount, address |-> x]]
    /\ GoWithdraw(u, "confirm")
    /\ UNCHANGED <<ledger, atDeal, recovered>>

\* withdraw_address_input: the address is stored before the amount is read, so
\* it stays when there is none.
WithdrawAddress(u, x) ==
    /\ WithdrawReads(u, "enterAddress")
    /\ data[u].wd_asset # None
    /\ data' = [data EXCEPT ![u].wd_address = x]
    /\ IF data[u].wd_amount = None
       THEN UNCHANGED <<atWd, prompt>>
       ELSE /\ prompt' = [prompt EXCEPT ![u] =
                   [asset |-> data[u].wd_asset, amount |-> data[u].wd_amount, address |-> x]]
            /\ GoWithdraw(u, "confirm")
    /\ UNCHANGED <<ledger, atDeal, recovered>>

\* withdraw_back and withdraw_select_asset, wd_back_amount and wd_back_profile.
WithdrawBack(u) ==
    /\ \/ atWd[u] = "enterAddress" /\ GoWithdraw(u, "enterAmount")
       \/ atWd[u] \in {"selectAsset", "enterAmount", "enterAddress"} /\ GoWithdraw(u, "end")
    /\ UNCHANGED <<ledger, atDeal, data, recovered, prompt>>

\* withdraw_confirm, wd_cancel_addr.
WithdrawCancelAddress(u) ==
    /\ atWd[u] = "confirm"
    /\ GoWithdraw(u, "enterAddress")
    /\ UNCHANGED <<ledger, atDeal, data, recovered, prompt>>

HasTerms(u) ==
    /\ data[u].wd_asset # None
    /\ data[u].wd_amount # None
    /\ data[u].wd_address # None

\* What the wallet is asked for.
Request(u) ==
    /\ withdrawn' = [terms |-> [asset |-> data[u].wd_asset, amount |-> data[u].wd_amount,
                                address |-> data[u].wd_address],
                     shown |-> prompt[u], frozen |-> frozen[u]]
    /\ prompt' = [prompt EXCEPT ![u] = None]

\* A wrong variant: the conversation stays open with its keys.
ConfirmKeepingKeys(u) ==
    /\ atWd[u] = "confirm"
    /\ ~frozen[u]
    /\ HasTerms(u)
    /\ Request(u)
    /\ UNCHANGED <<deals, frozen, reviews, made, data, talk, recovered>>

\* A wrong variant: the account is looked at when the withdrawal begins only.
ConfirmUnchecked(u) ==
    /\ atWd[u] = "confirm"
    /\ HasTerms(u)
    /\ Request(u)
    /\ data' = [data EXCEPT ![u].wd_asset = None, ![u].wd_amount = None, ![u].wd_address = None]
    /\ GoWithdraw(u, "end")
    /\ UNCHANGED <<deals, frozen, reviews, made, atDeal, recovered>>

\* withdraw_confirm, for Confirm and for the Back of an older message, which
\* reaches the same handler.  A wallet that refuses leaves the keys.
WithdrawConfirm(u) ==
    /\ atWd[u] = "confirm"
    /\ frozen[u] \/ HasTerms(u)
    /\ GoWithdraw(u, "end")
    /\ \/ UNCHANGED <<data, prompt, withdrawn>>
       \/ /\ ~frozen[u]
          /\ Request(u)
          /\ data' = [data EXCEPT ![u].wd_asset = None, ![u].wd_amount = None,
                                  ![u].wd_address = None]
    /\ UNCHANGED <<deals, frozen, reviews, made, atDeal, recovered>>

-----------------------------------------------------------------------------
(* Handlers that need no conversation.                                     *)

\* freeze_user and unfreeze_user.
SetFrozen(u) ==
    /\ frozen' = [frozen EXCEPT ![u] = ~@]
    /\ UNCHANGED <<deals, reviews, made, withdrawn, talk, data, recovered, prompt>>

\* A deal that somebody else's conversation makes.
OtherMakes(u, s, a, e) ==
    /\ ~frozen[u]
    /\ u # s
    /\ Make(u, e, [status |-> "pending", buyer |-> u, seller |-> s, asset |-> a,
                   amount |-> a], FALSE)
    /\ UNCHANGED <<frozen, reviews, withdrawn, talk, data, recovered, prompt>>

\* escrow_accept_decline, esc_cancel_pending_handler, esc_release_confirm_handler
\* and what a dispute or an agreed cancellation makes of a deal: see Escrow.
DealMoves(e) ==
    /\ deals[e] # None
    /\ \/ deals[e].status = "pending" /\ \E s \in {"active", "cancelled", "disputed"} : SetStatus(e, s)
       \/ deals[e].status = "active" /\ \E s \in {"completed", "cancelled", "disputed"} : SetStatus(e, s)
       \/ deals[e].status = "disputed" /\ SetStatus(e, "completed")
    /\ UNCHANGED <<frozen, reviews, made, withdrawn, talk, data, recovered, prompt>>

\* escrow_history_actions, esc_hist_rate: whose deal it is and whether this party
\* has rated it are looked at, its status is not.
RateDeal(u, e) ==
    /\ deals[e] # None
    /\ u \in Parties(e)
    /\ ~\E r \in reviews : r.reviewer = u /\ r.deal = e
    /\ reviews' = reviews \cup
          {[reviewer |-> u, deal |-> e,
            reviewed |-> IF deals[e].buyer = u THEN deals[e].seller ELSE deals[e].buyer]}
    /\ UNCHANGED <<deals, frozen, made, withdrawn, talk, data, recovered, prompt>>

\* The bot starts again: conversations and dictionaries are gone.
Restart ==
    /\ atDeal' = [u \in Users |-> "end"]
    /\ atWd' = [u \in Users |-> "end"]
    /\ data' = [u \in Users |-> NoKeys]
    /\ recovered' = [u \in Users |-> FALSE]
    /\ prompt' = [u \in Users |-> None]
    /\ UNCHANGED ledger

-----------------------------------------------------------------------------

DealTalk(u) ==
    \/ CheckUser(u) \/ DealNew(u) \/ SearchText(u) \/ SearchResult(u)
    \/ DealAmount(u) \/ BackFromConditions(u) \/ LeavePending(u)
    \/ CancelRequest(u) \/ BackMain(u) \/ Recover(u)
    \/ \E a \in Assets : DealAsset(u, a)
    \/ \E e \in DealIds : DealConditions(u, e)

WithdrawTalk(u) ==
    \/ WithdrawStart(u) \/ WithdrawAmount(u) \/ WithdrawBack(u)
    \/ WithdrawCancelAddress(u) \/ WithdrawConfirm(u)
    \/ \E a \in Assets : WithdrawSelectAsset(u, a)
    \/ \E x \in Addresses : WithdrawAddress(u, x)

Next ==
    \/ \E u \in Talkers : DealTalk(u) \/ WithdrawTalk(u)
    \/ \E u \in Users \ Talkers, s \in Users, a \in Assets, e \in DealIds :
          OtherMakes(u, s, a, e)
    \/ \E e \in DealIds : DealMoves(e) \/ \E u \in Users : RateDeal(u, e)
    \/ \E u \in Users : SetFrozen(u)
    \/ Restart

Spec == Init /\ [][Next]_vars

-----------------------------------------------------------------------------

ConversationsTypeOK ==
    /\ deals \in [DealIds -> OrNone(DealRow)]
    /\ frozen \in [Users -> BOOLEAN]
    /\ reviews \subseteq [reviewer : Users, reviewed : Users, deal : DealIds]
    /\ atDeal \in [Users -> DealStates]
    /\ atWd \in [Users -> WithdrawStates]
    /\ data \in [Users -> Keys]
    /\ recovered \in [Users -> BOOLEAN]
    /\ made \in [DealIds -> OrNone([by : Users, recovered : BOOLEAN, frozen : BOOLEAN])]
    /\ prompt \in [Users -> OrNone(Terms)]
    /\ withdrawn \in OrNone([terms : Terms, shown : OrNone(Terms), frozen : BOOLEAN])

\* A withdrawal is the one its user was last shown, to the asset, the amount
\* and the address, and no confirmation is carried out twice: whatever other
\* conversations, old buttons, /start, /cancel and restarts came between the
\* prompt and the press (withdraw_confirm).
WithdrawsWhatWasShown ==
    withdrawn # None => /\ withdrawn.terms = withdrawn.shown
                        /\ withdrawn.terms.amount = withdrawn.terms.asset

\* A deal is made in the asset its amount was priced and covered in
\* (deal_conditions_input takes the two from the dictionary apart).
DealsKeepTheirQuote == \A e \in DealIds : deals[e] # None => deals[e].amount = deals[e].asset

\* The buyer of a deal is the user who described it, unless the draft's buyer
\* came from a /recover in the middle of it (deal_conditions_input, F13).
BuyersMakeTheirDeals ==
    \A e \in DealIds : made[e] # None => deals[e].buyer = made[e].by \/ made[e].recovered

\* An account frozen at any point of a conversation pays for nothing from
\* there on, with the same exception: no deal is made of its funds and no
\* withdrawal requested (deal_conditions_input, withdraw_confirm).
FrozenFundsStay ==
    /\ \A e \in DealIds : made[e] # None => (made[e].frozen => made[e].recovered)
    /\ withdrawn # None => ~withdrawn.frozen

\* The deal in a user's dictionary, the one that the buttons without an id act
\* on, is a deal the user is a party of, or one the user made from a recovered
\* draft (recover_command, deal_pending_actions).
ContextDealIsOwn ==
    \A u \in Users : data[u].deal # None =>
        LET e == data[u].deal IN
        deals[e] # None /\ (u \in Parties(e) \/ made[e].recovered)

=============================================================================
