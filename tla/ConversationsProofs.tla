------------------------ MODULE ConversationsProofs -------------------------
(***************************************************************************)
(* What the conversations promise, for any number of users who all talk at *)
(* once, of assets, of deals and of addresses.                             *)
(***************************************************************************)
EXTENDS Conversations, TLAPS

\* Every handler by its name.
LEMMA StepCases ==
    ASSUME Next
    PROVE  \/ \E u \in Users :
                 \/ CheckUser(u) \/ DealNew(u) \/ SearchText(u) \/ SearchResult(u)
                 \/ DealAmount(u) \/ BackFromConditions(u) \/ LeavePending(u)
                 \/ CancelRequest(u) \/ BackMain(u) \/ Recover(u)
                 \/ WithdrawStart(u) \/ WithdrawAmount(u) \/ WithdrawBack(u)
                 \/ WithdrawCancelAddress(u) \/ WithdrawConfirm(u) \/ SetFrozen(u)
           \/ \E u \in Users, a \in Assets : DealAsset(u, a) \/ WithdrawSelectAsset(u, a)
           \/ \E u \in Users, e \in DealIds : DealConditions(u, e) \/ RateDeal(u, e)
           \/ \E u \in Users, x \in Addresses : WithdrawAddress(u, x)
           \/ \E u, s \in Users, a \in Assets, e \in DealIds : OtherMakes(u, s, a, e)
           \/ \E e \in DealIds : DealMoves(e)
           \/ Restart
<1>1. Talkers \subseteq Users
  BY ConversationsAssumption
<1>2. ASSUME NEW u \in Talkers, DealTalk(u) \/ WithdrawTalk(u)
      PROVE  \/ \E w \in Users :
                   \/ CheckUser(w) \/ DealNew(w) \/ SearchText(w) \/ SearchResult(w)
                   \/ DealAmount(w) \/ BackFromConditions(w) \/ LeavePending(w)
                   \/ CancelRequest(w) \/ BackMain(w) \/ Recover(w)
                   \/ WithdrawStart(w) \/ WithdrawAmount(w) \/ WithdrawBack(w)
                   \/ WithdrawCancelAddress(w) \/ WithdrawConfirm(w)
             \/ \E w \in Users, a \in Assets : DealAsset(w, a) \/ WithdrawSelectAsset(w, a)
             \/ \E w \in Users, e \in DealIds : DealConditions(w, e)
             \/ \E w \in Users, x \in Addresses : WithdrawAddress(w, x)
  BY <1>1, <1>2, Zenon DEF DealTalk, WithdrawTalk
<1>. QED
  BY <1>2, ZenonT(30) DEF Next

-----------------------------------------------------------------------------
(* The types, one variable or two at a time.                               *)

DataTyped == data \in [Users -> Keys]
DealsTyped == deals \in [DealIds -> OrNone(DealRow)]

LEMMA NoKeysType == NoKeys \in Keys
BY DEF NoKeys, Keys, OrNone

LEMMA DealType ==
    ASSUME DealsTyped, NEW e \in DealIds, deals[e] # None
    PROVE  deals[e] \in DealRow
BY DEF DealsTyped, OrNone

LEMMA AssetType ==
    ASSUME DataTyped, NEW u \in Users
    PROVE  Asset(u) \in Assets
BY ConversationsAssumption DEF DataTyped, Asset, Keys, OrNone

LEMMA BuyerType ==
    ASSUME DataTyped, NEW u \in Users
    PROVE  Buyer(u) \in Users
BY DEF DataTyped, Buyer, Keys, OrNone

\* What a handler of user u does to the dictionaries: nothing, or it writes u's.
LEMMA DataStep ==
    ASSUME DataTyped, DealsTyped, Next
    PROVE  DataTyped'
<1>1. ASSUME NEW u \in Users, ClearDraftFlow(u) PROVE DataTyped'
  BY <1>1, NoKeysType DEF ClearDraftFlow, DataTyped
<1>2. ASSUME NEW u \in Users, NEW s \in OrNone(Users), NEW k \in Keys, LookUp(u, s, k) PROVE DataTyped'
  <2>1. s \in Users => [k EXCEPT !.seller = s] \in Keys
    BY DEF Keys, OrNone
  <2>. QED
    BY <1>2, <2>1 DEF LookUp, OrNone, DataTyped
<1>3. ASSUME NEW u \in Users, CheckUser(u) \/ DealNew(u) \/ SearchText(u) \/ SearchResult(u) PROVE DataTyped'
  <2>1. data[u] \in Keys
    BY DEF DataTyped
  <2>. QED
    BY <1>3, <1>1, <1>2, <2>1, NoKeysType DEF CheckUser, DealNew, SearchText, SearchResult, DataTyped
<1>4. ASSUME NEW u \in Users, DealAmount(u) PROVE DataTyped'
  <2>1. [data[u] EXCEPT !.amount = Asset(u), !.asset = Asset(u)] \in Keys
    BY AssetType DEF Keys, OrNone, DataTyped
  <2>. QED
    BY <1>4, <2>1 DEF DealAmount, DataTyped
<1>5. ASSUME NEW u \in Users, BackFromConditions(u) PROVE DataTyped'
  BY <1>5 DEF BackFromConditions, DataTyped
<1>6. ASSUME NEW u \in Users, LeavePending(u) \/ CancelRequest(u) \/ BackMain(u) PROVE DataTyped'
  BY <1>6, <1>1 DEF LeavePending, CancelRequest, BackMain, DataTyped
<1>7. ASSUME NEW u \in Users, Recover(u) PROVE DataTyped'
  <2>1. ASSUME NEW e \in DealIds, deals[e] # None
        PROVE  [NoKeys EXCEPT !.deal = e,
                    !.buyer = deals[e].buyer, !.seller = deals[e].seller,
                    !.amount = deals[e].amount, !.asset = deals[e].asset] \in Keys
    <3>1. deals[e] \in DealRow
      BY <2>1, DealType
    <3>. QED
      BY <3>1 DEF DealRow, NoKeys, Keys, OrNone
  <2>. QED
    BY <1>7, <1>1, <2>1 DEF Recover, DataTyped
<1>8. ASSUME NEW u \in Users, NEW a \in Assets, DealAsset(u, a) PROVE DataTyped'
  <2>1. [data[u] EXCEPT !.buyer = u, !.asset = a] \in Keys
    BY DEF Keys, OrNone, DataTyped
  <2>. QED
    BY <1>8, <2>1 DEF DealAsset, DataTyped
<1>9. ASSUME NEW u \in Users, NEW e \in DealIds, DealConditions(u, e) PROVE DataTyped'
  <2>1. [data[u] EXCEPT !.deal = e] \in Keys
    BY DEF Keys, OrNone, DataTyped
  <2>. QED
    BY <1>9, <2>1 DEF DealConditions, DataTyped
<1>10. ASSUME NEW u \in Users, NEW a \in Assets, WithdrawSelectAsset(u, a) PROVE DataTyped'
  <2>1. [data[u] EXCEPT !.wd_asset = a] \in Keys
    BY DEF Keys, OrNone, DataTyped
  <2>. QED
    BY <1>10, <2>1 DEF WithdrawSelectAsset, DataTyped
<1>11. ASSUME NEW u \in Users, WithdrawAmount(u) PROVE DataTyped'
  <2>1. [data[u] EXCEPT !.wd_amount = data[u].wd_asset] \in Keys
    BY DEF Keys, OrNone, DataTyped
  <2>. QED
    BY <1>11, <2>1 DEF WithdrawAmount, DataTyped
<1>12. ASSUME NEW u \in Users, NEW x \in Addresses, WithdrawAddress(u, x) PROVE DataTyped'
  <2>1. [data[u] EXCEPT !.wd_address = x] \in Keys
    BY DEF Keys, OrNone, DataTyped
  <2>. QED
    BY <1>12, <2>1 DEF WithdrawAddress, DataTyped
<1>13. ASSUME NEW u \in Users, WithdrawConfirm(u) PROVE DataTyped'
  <2>1. [data[u] EXCEPT !.wd_asset = None, !.wd_amount = None, !.wd_address = None] \in Keys
    BY DEF Keys, OrNone, DataTyped
  <2>. QED
    BY <1>13, <2>1 DEF WithdrawConfirm, DataTyped
<1>14. ASSUME NEW u \in Users, WithdrawStart(u) \/ WithdrawBack(u) \/ WithdrawCancelAddress(u) \/ SetFrozen(u)
       PROVE  DataTyped'
  BY <1>14 DEF WithdrawStart, WithdrawBack, WithdrawCancelAddress, SetFrozen, DataTyped
<1>15. ASSUME NEW u \in Users, NEW s \in Users, NEW a \in Assets, NEW e \in DealIds,
              OtherMakes(u, s, a, e)
       PROVE  DataTyped'
  BY <1>15 DEF OtherMakes, DataTyped
<1>16. ASSUME NEW e \in DealIds, DealMoves(e) PROVE DataTyped'
  BY <1>16 DEF DealMoves, DataTyped
<1>17. ASSUME NEW u \in Users, NEW e \in DealIds, RateDeal(u, e) PROVE DataTyped'
  BY <1>17 DEF RateDeal, DataTyped
<1>18. CASE Restart
  BY <1>18, NoKeysType DEF Restart, DataTyped
<1>. QED
  BY <1>3, <1>4, <1>5, <1>6, <1>7, <1>8, <1>9, <1>10, <1>11, <1>12, <1>13, <1>14,
     <1>15, <1>16, <1>17, <1>18, StepCases

\* A status moves on a row that exists.
LEMMA SetStatusType ==
    ASSUME DealsTyped, NEW e \in DealIds, deals[e] # None,
           NEW s \in OpenStatus \cup SettledStatus, SetStatus(e, s)
    PROVE  /\ DealsTyped'
           /\ \A d \in DealIds : /\ deals'[d] = None <=> deals[d] = None
                                 /\ deals'[d].buyer = deals[d].buyer
                                 /\ deals'[d].seller = deals[d].seller
                                 /\ deals'[d].asset = deals[d].asset
                                 /\ deals'[d].amount = deals[d].amount
           /\ deals'[e].status = s
           /\ \A d \in DealIds \ {e} : deals'[d] = deals[d]
<1>1. deals[e] \in DealRow
  BY DealType
<1>2. [deals[e] EXCEPT !.status = s] \in DealRow
  BY <1>1 DEF DealRow
<1>3. DealsTyped' /\ deals'[e] # None
  BY <1>2, NoneIsNoDeal DEF SetStatus, DealsTyped, OrNone
<1>4. /\ deals'[e].buyer = deals[e].buyer
      /\ deals'[e].seller = deals[e].seller
      /\ deals'[e].asset = deals[e].asset
      /\ deals'[e].amount = deals[e].amount
      /\ deals'[e].status = s
  BY <1>1 DEF SetStatus, DealsTyped, DealRow
<1>5. \A d \in DealIds \ {e} : deals'[d] = deals[d]
  BY DEF SetStatus, DealsTyped
<1>. QED
  BY <1>3, <1>4, <1>5

TalkTyped == atDeal \in [Users -> DealStates] /\ atWd \in [Users -> WithdrawStates]
FlagsTyped == frozen \in [Users -> BOOLEAN] /\ recovered \in [Users -> BOOLEAN]
MadeTyped == made \in [DealIds -> OrNone([by : Users, recovered : BOOLEAN, frozen : BOOLEAN])]

LEMMA TalkStep ==
    ASSUME TalkTyped, Next
    PROVE  TalkTyped'
<1>. USE DEF TalkTyped, talk, GoDeal, GoWithdraw, DealStates, WithdrawStates
<1>1. ASSUME NEW u \in Users,
             \/ CheckUser(u) \/ DealNew(u) \/ SearchText(u) \/ SearchResult(u)
             \/ DealAmount(u) \/ BackFromConditions(u) \/ LeavePending(u)
             \/ CancelRequest(u) \/ BackMain(u) \/ Recover(u) \/ SetFrozen(u)
      PROVE  TalkTyped'
  BY <1>1 DEF CheckUser, DealNew, SearchText, SearchResult, LookUp, DealAmount,
              BackFromConditions, LeavePending, CancelRequest, BackMain, Recover, SetFrozen
<1>2. ASSUME NEW u \in Users,
             \/ WithdrawStart(u) \/ WithdrawAmount(u) \/ WithdrawBack(u)
             \/ WithdrawCancelAddress(u) \/ WithdrawConfirm(u)
      PROVE  TalkTyped'
  BY <1>2 DEF WithdrawStart, WithdrawAmount, WithdrawBack, WithdrawCancelAddress,
              WithdrawConfirm
<1>3. ASSUME NEW u \in Users, NEW a \in Assets, DealAsset(u, a) \/ WithdrawSelectAsset(u, a)
      PROVE  TalkTyped'
  BY <1>3 DEF DealAsset, WithdrawSelectAsset
<1>4. ASSUME NEW u \in Users, NEW e \in DealIds, DealConditions(u, e) \/ RateDeal(u, e)
      PROVE  TalkTyped'
  BY <1>4 DEF DealConditions, RateDeal
<1>5. ASSUME NEW u \in Users, NEW x \in Addresses, WithdrawAddress(u, x) PROVE TalkTyped'
  BY <1>5 DEF WithdrawAddress
<1>6. ASSUME NEW u \in Users, NEW s \in Users, NEW a \in Assets, NEW e \in DealIds,
             OtherMakes(u, s, a, e)
      PROVE  TalkTyped'
  BY <1>6 DEF OtherMakes
<1>7. ASSUME NEW e \in DealIds, DealMoves(e) PROVE TalkTyped'
  BY <1>7 DEF DealMoves
<1>8. CASE Restart
  BY <1>8 DEF Restart
<1>. HIDE DEF TalkTyped
<1>. QED
  BY <1>1, <1>2, <1>3, <1>4, <1>5, <1>6, <1>7, <1>8, StepCases

LEMMA FlagsStep ==
    ASSUME FlagsTyped, Next
    PROVE  FlagsTyped'
<1>. USE DEF FlagsTyped, ClearDraftFlow, ledger
<1>1. ASSUME NEW u \in Users,
             \/ CheckUser(u) \/ DealNew(u) \/ SearchText(u) \/ SearchResult(u)
             \/ DealAmount(u) \/ BackFromConditions(u) \/ LeavePending(u)
             \/ CancelRequest(u) \/ BackMain(u) \/ Recover(u) \/ SetFrozen(u)
      PROVE  FlagsTyped'
  BY <1>1 DEF CheckUser, DealNew, SearchText, SearchResult, DealAmount,
              BackFromConditions, LeavePending, CancelRequest, BackMain, Recover, SetFrozen
<1>2. ASSUME NEW u \in Users,
             \/ WithdrawStart(u) \/ WithdrawAmount(u) \/ WithdrawBack(u)
             \/ WithdrawCancelAddress(u) \/ WithdrawConfirm(u)
      PROVE  FlagsTyped'
  BY <1>2 DEF WithdrawStart, WithdrawAmount, WithdrawBack, WithdrawCancelAddress,
              WithdrawConfirm
<1>3. ASSUME NEW u \in Users, NEW a \in Assets, DealAsset(u, a) \/ WithdrawSelectAsset(u, a)
      PROVE  FlagsTyped'
  BY <1>3 DEF DealAsset, WithdrawSelectAsset
<1>4. ASSUME NEW u \in Users, NEW e \in DealIds, DealConditions(u, e) \/ RateDeal(u, e)
      PROVE  FlagsTyped'
  BY <1>4 DEF DealConditions, RateDeal
<1>5. ASSUME NEW u \in Users, NEW x \in Addresses, WithdrawAddress(u, x) PROVE FlagsTyped'
  BY <1>5 DEF WithdrawAddress
<1>6. ASSUME NEW u \in Users, NEW s \in Users, NEW a \in Assets, NEW e \in DealIds,
             OtherMakes(u, s, a, e)
      PROVE  FlagsTyped'
  BY <1>6 DEF OtherMakes
<1>7. ASSUME NEW e \in DealIds, DealMoves(e) PROVE FlagsTyped'
  BY <1>7 DEF DealMoves
<1>8. CASE Restart
  BY <1>8 DEF Restart
<1>. HIDE DEF FlagsTyped
<1>. QED
  BY <1>1, <1>2, <1>3, <1>4, <1>5, <1>6, <1>7, <1>8, StepCases

-----------------------------------------------------------------------------
(* Deals: what a draft holds while it is described, and what stays of it.  *)

\* The buyer in a dictionary is its user, or /recover put it there.
BuyersKnown == \A u \in Users : recovered[u] \/ data[u].buyer \in {None, u}

\* Where the conditions are asked for, the amount is of the asset beside it.
QuotesKept ==
    \A u \in Users : atDeal[u] = "enterConditions" => data[u].amount \in {None, Asset(u)}

MadeWell(e) ==
    /\ deals[e] # None
    /\ deals[e].buyer = made[e].by \/ made[e].recovered
    /\ made[e].frozen => made[e].recovered

DealsTypes == DataTyped /\ DealsTyped /\ TalkTyped /\ FlagsTyped /\ MadeTyped

DealsInv ==
    /\ DealsTypes
    /\ BuyersKnown
    /\ QuotesKept
    /\ \A e \in DealIds : made[e] # None => MadeWell(e)
    /\ DealsKeepTheirQuote
    /\ ContextDealIsOwn

\* Who writes a row of escrows.
LEMMA DealWriters ==
    ASSUME Next
    PROVE  \/ deals' = deals /\ made' = made
           \/ \E u \in Users, e \in DealIds : DealConditions(u, e)
           \/ \E u, s \in Users, a \in Assets, e \in DealIds : OtherMakes(u, s, a, e)
           \/ \E u \in Users : CancelRequest(u)
           \/ \E e \in DealIds : DealMoves(e)
<1>. USE DEF ledger
<1>1. ASSUME NEW u \in Users,
             \/ CheckUser(u) \/ DealNew(u) \/ SearchText(u) \/ SearchResult(u)
             \/ DealAmount(u) \/ BackFromConditions(u) \/ LeavePending(u)
             \/ BackMain(u) \/ Recover(u) \/ SetFrozen(u)
      PROVE  deals' = deals /\ made' = made
  BY <1>1 DEF CheckUser, DealNew, SearchText, SearchResult, DealAmount,
              BackFromConditions, LeavePending, BackMain, Recover, SetFrozen
<1>2. ASSUME NEW u \in Users,
             \/ WithdrawStart(u) \/ WithdrawAmount(u) \/ WithdrawBack(u)
             \/ WithdrawCancelAddress(u) \/ WithdrawConfirm(u)
      PROVE  deals' = deals /\ made' = made
  BY <1>2 DEF WithdrawStart, WithdrawAmount, WithdrawBack, WithdrawCancelAddress,
              WithdrawConfirm
<1>3. ASSUME NEW u \in Users, NEW a \in Assets, DealAsset(u, a) \/ WithdrawSelectAsset(u, a)
      PROVE  deals' = deals /\ made' = made
  BY <1>3 DEF DealAsset, WithdrawSelectAsset
<1>4. ASSUME NEW u \in Users, NEW e \in DealIds, RateDeal(u, e)
      PROVE  deals' = deals /\ made' = made
  BY <1>4 DEF RateDeal
<1>5. ASSUME NEW u \in Users, NEW x \in Addresses, WithdrawAddress(u, x)
      PROVE  deals' = deals /\ made' = made
  BY <1>5 DEF WithdrawAddress
<1>6. CASE Restart
  BY <1>6 DEF Restart
<1>. QED
  BY <1>1, <1>2, <1>3, <1>4, <1>5, <1>6, StepCases

\* A deal stays as it was made, and a settled one as it was settled.
Kept(d) ==
    /\ deals'[d] # None
    /\ deals'[d].buyer = deals[d].buyer
    /\ deals'[d].seller = deals[d].seller
    /\ deals'[d].asset = deals[d].asset
    /\ deals'[d].amount = deals[d].amount
    /\ made'[d] = made[d]
    /\ deals[d].status \in SettledStatus => deals'[d].status = deals[d].status

\* What holds of a deal in the step that makes it.
MadeNow(d) ==
    /\ deals'[d] # None
    /\ deals'[d].amount = deals'[d].asset
    /\ deals'[d].buyer = made'[d].by \/ made'[d].recovered
    /\ made'[d].frozen => made'[d].recovered

\* What a step may do to the row of a deal.
Fate(d) ==
    \/ deals[d] # None /\ Kept(d)
    \/ deals[d] = None /\ MadeNow(d)
    \/ deals[d] = None /\ deals'[d] = None /\ made'[d] = made[d]

LEMMA MakeStep ==
    ASSUME DealsTyped, MadeTyped, NEW u \in Users, NEW e \in DealIds,
           NEW row \in DealRow, NEW r \in BOOLEAN, Make(u, e, row, r),
           row.status = "pending", row.amount = row.asset,
           FlagsTyped, ~frozen[u], row.buyer = u \/ r
    PROVE  /\ DealsTyped' /\ MadeTyped'
           /\ \A d \in DealIds : Fate(d)
<1>1. row.buyer \in Users /\ frozen[row.buyer] \in BOOLEAN
  BY DEF DealRow, FlagsTyped
<1>2. DealsTyped' /\ MadeTyped'
  BY <1>1 DEF Make, DealsTyped, MadeTyped, OrNone
<1>3. deals'[e] = row /\ made'[e] = [by |-> u, recovered |-> r, frozen |-> frozen[row.buyer]]
  BY DEF Make, DealsTyped, MadeTyped
<1>4. deals[e] = None /\ row # None
  BY NoneIsNoDeal DEF Make
<1>5. MadeNow(e)
  BY <1>3, <1>4 DEF MadeNow
<1>6. ASSUME NEW d \in DealIds, d # e PROVE deals'[d] = deals[d] /\ made'[d] = made[d]
  BY <1>6 DEF Make, DealsTyped, MadeTyped
<1>. QED
  BY <1>2, <1>4, <1>5, <1>6 DEF Fate, Kept

LEMMA MoveStep ==
    ASSUME DealsTyped, NEW e \in DealIds, deals[e] # None, made' = made,
           NEW s \in OpenStatus \cup SettledStatus, SetStatus(e, s),
           deals[e].status \in OpenStatus
    PROVE  \A d \in DealIds : Fate(d)
<1>1. deals[e].status \notin SettledStatus
  BY DEF OpenStatus, SettledStatus
<1>2. ASSUME NEW d \in DealIds, deals[d] # None PROVE Kept(d)
  <2>1. CASE d = e
    BY <1>1, <2>1, SetStatusType DEF Kept
  <2>2. CASE d # e
    BY <1>2, <2>2, SetStatusType DEF Kept
  <2>. QED
    BY <2>1, <2>2
<1>. QED
  BY <1>2, SetStatusType DEF Fate

LEMMA RowsStep ==
    ASSUME DealsInv, Next
    PROVE  /\ DealsTyped' /\ MadeTyped'
           /\ \A d \in DealIds : Fate(d)
<1>. USE DEF DealsInv, DealsTypes
<1>1. ASSUME NEW u \in Users, NEW e \in DealIds, DealConditions(u, e), ~frozen[u]
      PROVE  /\ DealsTyped' /\ MadeTyped'
             /\ \A d \in DealIds : Fate(d)
  <2>. DEFINE row == [status |-> "pending", buyer |-> Buyer(u), seller |-> data[u].seller,
                      asset |-> Asset(u), amount |-> data[u].amount]
  <2>1. /\ Make(u, e, row, recovered[u])
        /\ data[u].seller # None /\ data[u].amount # None
        /\ atDeal[u] = "enterConditions"
    BY <1>1 DEF DealConditions
  <2>2. data[u].seller \in Users /\ data[u].amount = Asset(u) /\ Asset(u) \in Assets
    BY <2>1, AssetType DEF DataTyped, Keys, OrNone, QuotesKept
  <2>3. row \in DealRow
    BY <2>2, BuyerType DEF DealRow, OpenStatus
  <2>4. row.buyer = u \/ recovered[u]
    BY DEF BuyersKnown, Buyer
  <2>. HIDE DEF row
  <2>5. row.status = "pending" /\ row.amount = row.asset
    BY <2>2 DEF row
  <2>6. recovered[u] \in BOOLEAN
    BY DEF FlagsTyped
  <2>. QED
    BY <1>1, <2>1, <2>3, <2>4, <2>5, <2>6, MakeStep
<1>2. ASSUME NEW u \in Users, NEW e \in DealIds, DealConditions(u, e), frozen[u]
      PROVE  deals' = deals /\ made' = made
  BY <1>2 DEF DealConditions
<1>3. ASSUME NEW u \in Users, NEW s \in Users, NEW a \in Assets, NEW e \in DealIds,
             OtherMakes(u, s, a, e)
      PROVE  /\ DealsTyped' /\ MadeTyped'
             /\ \A d \in DealIds : Fate(d)
  <2>. DEFINE row == [status |-> "pending", buyer |-> u, seller |-> s, asset |-> a, amount |-> a]
  <2>1. Make(u, e, row, FALSE) /\ ~frozen[u]
    BY <1>3 DEF OtherMakes
  <2>2. row \in DealRow /\ row.buyer = u /\ row.status = "pending" /\ row.amount = row.asset
    BY DEF DealRow, OpenStatus
  <2>. HIDE DEF row
  <2>. QED
    BY <2>1, <2>2, MakeStep
<1>4. ASSUME NEW u \in Users, CancelRequest(u)
      PROVE  DealsTyped' /\ MadeTyped' /\ \A d \in DealIds : Fate(d)
  <2>1. data[u].deal \in DealIds /\ deals[data[u].deal] # None
    BY <1>4 DEF CancelRequest, DataTyped, Keys, OrNone, ContextDealIsOwn
  <2>. QED
    BY <1>4, <2>1, MoveStep, SetStatusType DEF CancelRequest, MadeTyped, OpenStatus, SettledStatus
<1>5. ASSUME NEW e \in DealIds, DealMoves(e)
      PROVE  DealsTyped' /\ MadeTyped' /\ \A d \in DealIds : Fate(d)
  BY <1>5, MoveStep, SetStatusType DEF MadeTyped, DealMoves, OpenStatus, SettledStatus
<1>6. CASE deals' = deals /\ made' = made
  BY <1>6 DEF DealsTyped, MadeTyped, Fate, Kept
<1>7. ASSUME NEW u \in Users, NEW e \in DealIds, DealConditions(u, e)
      PROVE  DealsTyped' /\ MadeTyped' /\ \A d \in DealIds : Fate(d)
  <2>. HIDE DEF DealsInv
  <2>. QED
    BY <1>1, <1>2, <1>6, <1>7
<1>. QED
  <2>. HIDE DEF DealsInv
  <2>. QED
    BY <1>3, <1>4, <1>5, <1>6, <1>7, DealWriters

\* What holds of the dictionary of one user.
Owns(u, e) == deals[e] # None /\ (u \in Parties(e) \/ made[e].recovered)

Draft(u) ==
    /\ recovered[u] \/ data[u].buyer \in {None, u}
    /\ atDeal[u] = "enterConditions" => data[u].amount \in {None, Asset(u)}
    /\ data[u].deal # None => Owns(u, data[u].deal)

LEMMA DraftsOfAll ==
    (BuyersKnown /\ QuotesKept /\ ContextDealIsOwn) <=> \A u \in Users : Draft(u)
BY DEF BuyersKnown, QuotesKept, ContextDealIsOwn, Draft, Owns

\* A dictionary that a step does not write, or writes beside the draft.
SameDraft(u) ==
    /\ data'[u].buyer = data[u].buyer
    /\ data'[u].amount = data[u].amount
    /\ data'[u].asset = data[u].asset
    /\ data'[u].deal = data[u].deal
    /\ recovered'[u] = recovered[u]
    /\ atDeal'[u] = "enterConditions" => atDeal[u] = "enterConditions"

EmptyDraft(u) ==
    /\ data'[u].buyer = None
    /\ data'[u].amount = None
    /\ data'[u].deal = None

LEMMA OwnsStep ==
    ASSUME DealsInv, Next, NEW u \in Users, NEW e \in DealIds, Owns(u, e)
    PROVE  Owns(u, e)'
<1>1. deals[e] # None /\ Kept(e)
  BY RowsStep DEF Fate, Owns
<1>. QED
  BY <1>1 DEF Owns, Kept, Parties

LEMMA SameDraftStep ==
    ASSUME DealsInv, Next, NEW u \in Users, SameDraft(u)
    PROVE  Draft(u)'
<1>1. Draft(u)
  BY DraftsOfAll DEF DealsInv
<1>2. data[u].deal # None => data[u].deal \in DealIds
  BY DEF DealsInv, DealsTypes, DataTyped, Keys, OrNone
<1>3. Asset(u)' = Asset(u)
  BY DEF Asset, SameDraft
<1>4. ASSUME NEW e \in DealIds, data[u].deal = e, e # None PROVE Owns(u, e)'
  BY <1>1, <1>4, OwnsStep DEF Draft
<1>5. data'[u].deal # None => Owns(u, data[u].deal)'
  BY <1>2, <1>4 DEF SameDraft, Owns, Parties
<1>. QED
  BY <1>1, <1>3, <1>5 DEF Draft, SameDraft

LEMMA EmptyDraftStep ==
    ASSUME NEW u \in Users, EmptyDraft(u)
    PROVE  Draft(u)'
BY DEF EmptyDraft, Draft

\* The handlers that write a draft.
LEMMA DraftStep ==
    ASSUME DealsInv, Next
    PROVE  \A w \in Users : Draft(w)'
<1>. USE DEF GoDeal, ledger, talk
<1>1. ASSUME NEW w \in Users, SameDraft(w) \/ EmptyDraft(w) PROVE Draft(w)'
  BY <1>1, SameDraftStep, EmptyDraftStep
<1>2. DataTyped /\ TalkTyped /\ FlagsTyped
  BY DEF DealsInv, DealsTypes
<1>3. ASSUME NEW u \in Users, ClearDraftFlow(u), \A w \in Users \ {u} : atDeal'[w] = atDeal[w]
      PROVE  \A w \in Users : (w # u => SameDraft(w)) /\ (w = u => EmptyDraft(w))
  BY <1>2, <1>3 DEF ClearDraftFlow, DataTyped, FlagsTyped, SameDraft, EmptyDraft, NoKeys
<1>4. ASSUME NEW u \in Users, CheckUser(u) PROVE \A w \in Users : SameDraft(w) \/ EmptyDraft(w)
  <2>1. CASE ClearDraftFlow(u) /\ GoDeal(u, "searchInput")
    BY <1>2, <1>3, <2>1 DEF TalkTyped
  <2>2. ASSUME NEW s \in OrNone(Users), LookUp(u, s, NoKeys), recovered' = [recovered EXCEPT ![u] = FALSE]
        PROVE  \A w \in Users : SameDraft(w) \/ EmptyDraft(w)
    BY <1>2, <2>2 DEF LookUp, DataTyped, FlagsTyped, TalkTyped, SameDraft, EmptyDraft, NoKeys
  <2>. QED
    BY <1>4, <2>1, <2>2 DEF CheckUser
<1>5. ASSUME NEW u \in Users, DealNew(u) \/ SearchResult(u) \/ LeavePending(u) \/ BackMain(u) \/ CancelRequest(u)
      PROVE  \A w \in Users : SameDraft(w) \/ EmptyDraft(w)
  <2>1. \A w \in Users \ {u} : atDeal'[w] = atDeal[w]
    BY <1>2, <1>5 DEF DealNew, SearchResult, LeavePending, BackMain, CancelRequest, TalkTyped
  <2>2. CASE ClearDraftFlow(u)
    BY <1>3, <2>1, <2>2
  <2>3. CASE ~ClearDraftFlow(u)
    BY <1>2, <1>5, <2>1, <2>3 DEF DealNew, SearchResult, LeavePending, BackMain, CancelRequest, TalkTyped, SameDraft
  <2>. QED
    BY <2>2, <2>3
<1>6. ASSUME NEW u \in Users, SearchText(u) PROVE \A w \in Users : SameDraft(w)
  <2>1. PICK s \in OrNone(Users) : LookUp(u, s, data[u])
    BY <1>6 DEF SearchText
  <2>. QED
    BY <1>2, <1>6, <2>1 DEF SearchText, LookUp, DataTyped, Keys, TalkTyped, SameDraft
<1>7. ASSUME NEW u \in Users, BackFromConditions(u) PROVE \A w \in Users : SameDraft(w)
  BY <1>2, <1>7 DEF BackFromConditions, TalkTyped, SameDraft
<1>8. ASSUME NEW u \in Users, DealAmount(u)
      PROVE  (\A w \in Users \ {u} : SameDraft(w)) /\ Draft(u)'
  <2>1. CASE frozen[u] \/ data[u].seller \in {None, Buyer(u)}
    BY <1>1, <1>2, <1>8, <2>1 DEF DealAmount, TalkTyped, SameDraft
  <2>2. CASE ~(frozen[u] \/ data[u].seller \in {None, Buyer(u)})
    <3>1. /\ data'[u].amount = Asset(u) /\ data'[u].asset = Asset(u)
          /\ data'[u].buyer = data[u].buyer /\ data'[u].deal = data[u].deal
          /\ recovered' = recovered /\ deals' = deals /\ made' = made
          /\ \A w \in Users \ {u} : SameDraft(w)
      BY <1>2, <1>8, <2>2 DEF DealAmount, DataTyped, Keys, TalkTyped, SameDraft
    <3>2. Asset(u) # None
      BY <1>2, AssetType, ConversationsAssumption
    <3>3. Draft(u)
      BY DraftsOfAll DEF DealsInv
    <3>. QED
      BY <3>1, <3>2, <3>3 DEF Draft, Asset, Owns, Parties
  <2>. QED
    BY <2>1, <2>2
<1>9. ASSUME NEW u \in Users, NEW a \in Assets, DealAsset(u, a)
      PROVE  (\A w \in Users \ {u} : SameDraft(w)) /\ Draft(u)'
  <2>1. CASE frozen[u] \/ data[u].seller = u
    BY <1>1, <1>2, <1>9, <2>1 DEF DealAsset, TalkTyped, SameDraft
  <2>2. CASE ~(frozen[u] \/ data[u].seller = u)
    <3>1. /\ data'[u].buyer = u /\ data'[u].deal = data[u].deal /\ atDeal'[u] = "enterAmount"
          /\ deals' = deals /\ made' = made
          /\ \A w \in Users \ {u} : SameDraft(w)
      BY <1>2, <1>9, <2>2 DEF DealAsset, DataTyped, Keys, TalkTyped, FlagsTyped, SameDraft
    <3>2. Draft(u)
      BY DraftsOfAll DEF DealsInv
    <3>. QED
      BY <3>1, <3>2 DEF Draft, Owns, Parties
  <2>. QED
    BY <2>1, <2>2
<1>10. ASSUME NEW u \in Users, NEW e \in DealIds, DealConditions(u, e)
       PROVE  (\A w \in Users \ {u} : SameDraft(w)) /\ Draft(u)'
  <2>1. CASE frozen[u]
    BY <1>1, <1>2, <1>10, <2>1 DEF DealConditions, TalkTyped, SameDraft
  <2>2. CASE ~frozen[u]
    <3>1. /\ data'[u].buyer = data[u].buyer /\ data'[u].deal = e /\ atDeal'[u] = "pendingView"
          /\ recovered' = recovered
          /\ \A w \in Users \ {u} : SameDraft(w)
      BY <1>2, <1>10, <2>2 DEF DealConditions, DataTyped, Keys, TalkTyped, SameDraft
    <3>2. Draft(u)
      BY DraftsOfAll DEF DealsInv
    <3>3. /\ deals'[e] # None
          /\ deals'[e].buyer = Buyer(u) /\ made'[e].recovered = recovered[u]
      <4>1. DealsTyped /\ MadeTyped
        BY DEF DealsInv, DealsTypes
      <4>2. deals[e] = None
        BY <1>10, <2>2 DEF DealConditions, Make
      <4>3. deals'[e].buyer = Buyer(u) /\ made'[e].recovered = recovered[u]
        BY <1>10, <2>2, <4>1 DEF DealConditions, Make, DealsTyped, MadeTyped
      <4>4. deals'[e] = [status |-> "pending", buyer |-> Buyer(u), seller |-> data[u].seller,
                         asset |-> Asset(u), amount |-> data[u].amount]
        BY <1>10, <2>2, <4>1 DEF DealConditions, Make, DealsTyped
      <4>5. deals'[e] \in DealRow
        BY <1>2, <1>10, <2>2, <4>4, AssetType, BuyerType
           DEF DealConditions, DataTyped, Keys, OrNone, DealRow, OpenStatus
      <4>. QED
        BY <4>3, <4>5, NoneIsNoDeal
    <3>4. Buyer(u) = u \/ recovered[u]
      BY <3>2 DEF Draft, Buyer
    <3>5. Owns(u, e)'
      BY <3>3, <3>4 DEF Owns, Parties
    <3>. QED
      BY <3>1, <3>2, <3>5 DEF Draft, Owns, Parties
  <2>. QED
    BY <2>1, <2>2
<1>11. ASSUME NEW u \in Users, Recover(u)
       PROVE  \A w \in Users : SameDraft(w) \/ EmptyDraft(w) \/ Draft(w)'
  <2>1. CASE ClearDraftFlow(u)
    BY <1>3, <1>11, <2>1 DEF Recover
  <2>2. CASE ~ClearDraftFlow(u)
    <3>1. PICK e \in DealIds : /\ deals[e] # None /\ u \in Parties(e)
                               /\ data' = [data EXCEPT ![u] = [NoKeys EXCEPT !.deal = e,
                                     !.buyer = deals[e].buyer, !.seller = deals[e].seller,
                                     !.amount = deals[e].amount, !.asset = deals[e].asset]]
                               /\ recovered' = [recovered EXCEPT ![u] = TRUE]
      BY <1>11, <2>2 DEF Recover
    <3>2. /\ data'[u].deal = e /\ recovered'[u] /\ data'[u].amount = deals[e].amount
          /\ data'[u].asset = deals[e].asset
          /\ \A w \in Users \ {u} : SameDraft(w)
      BY <1>2, <1>11, <3>1 DEF Recover, NoKeys, DataTyped, FlagsTyped, SameDraft
    <3>3. deals' = deals /\ made' = made
      BY <1>11 DEF Recover
    <3>4. deals[e].amount = deals[e].asset
      BY <3>1 DEF DealsInv, DealsKeepTheirQuote
    <3>5. deals[e] \in DealRow
      BY <3>1, DealType DEF DealsInv, DealsTypes
    <3>6. data'[u].asset # None
      BY <3>2, <3>5, ConversationsAssumption DEF DealRow
    <3>7. Draft(u)'
      BY <3>1, <3>2, <3>3, <3>4, <3>6 DEF Draft, Asset, Owns, Parties
    <3>. QED
      BY <3>2, <3>7
  <2>. QED
    BY <2>1, <2>2
<1>12. ASSUME NEW u \in Users,
              \/ WithdrawStart(u) \/ WithdrawBack(u) \/ WithdrawCancelAddress(u)
              \/ WithdrawAmount(u) \/ WithdrawConfirm(u) \/ SetFrozen(u)
       PROVE  \A w \in Users : SameDraft(w)
  BY <1>2, <1>12 DEF WithdrawStart, WithdrawBack, WithdrawCancelAddress, WithdrawAmount,
                     WithdrawConfirm, SetFrozen, DataTyped, Keys, SameDraft
<1>13. ASSUME NEW u \in Users, NEW a \in Assets, WithdrawSelectAsset(u, a)
       PROVE  \A w \in Users : SameDraft(w)
  BY <1>2, <1>13 DEF WithdrawSelectAsset, DataTyped, Keys, SameDraft
<1>14. ASSUME NEW u \in Users, NEW x \in Addresses, WithdrawAddress(u, x)
       PROVE  \A w \in Users : SameDraft(w)
  BY <1>2, <1>14 DEF WithdrawAddress, DataTyped, Keys, SameDraft
<1>15. ASSUME NEW u \in Users, NEW s \in Users, NEW a \in Assets, NEW e \in DealIds,
              OtherMakes(u, s, a, e)
       PROVE  \A w \in Users : SameDraft(w)
  BY <1>15 DEF OtherMakes, SameDraft
<1>16. ASSUME NEW e \in DealIds, DealMoves(e) PROVE \A w \in Users : SameDraft(w)
  BY <1>16 DEF DealMoves, SameDraft
<1>17. ASSUME NEW u \in Users, NEW e \in DealIds, RateDeal(u, e)
       PROVE  \A w \in Users : SameDraft(w)
  BY <1>17 DEF RateDeal, SameDraft
<1>18. ASSUME Restart PROVE \A w \in Users : EmptyDraft(w)
  BY <1>18 DEF Restart, NoKeys, EmptyDraft
<1>19. \/ \A w \in Users : SameDraft(w) \/ EmptyDraft(w) \/ Draft(w)'
       \/ \E u \in Users : (\A w \in Users \ {u} : SameDraft(w)) /\ Draft(u)'
  BY <1>4, <1>5, <1>6, <1>7, <1>8, <1>9, <1>10, <1>11, <1>12, <1>13, <1>14, <1>15, <1>16,
     <1>17, <1>18, StepCases
<1>. QED
  BY <1>1, <1>19

LEMMA DealsInvStep ==
    ASSUME DealsInv, [Next]_vars
    PROVE  DealsInv'
<1>1. CASE UNCHANGED vars
  BY <1>1 DEF vars, talk, DealsInv, DealsTypes, DataTyped, DealsTyped, TalkTyped, FlagsTyped,
              MadeTyped, BuyersKnown, QuotesKept, Asset, MadeWell, DealsKeepTheirQuote,
              ContextDealIsOwn, Parties
<1>2. CASE Next
  <2>1. DealsTypes'
    BY <1>2, DataStep, RowsStep, TalkStep, FlagsStep DEF DealsInv, DealsTypes
  <2>2. (BuyersKnown /\ QuotesKept /\ ContextDealIsOwn)'
    BY <1>2, DraftStep DEF BuyersKnown, QuotesKept, ContextDealIsOwn, Draft, Owns
  <2>3. ASSUME NEW e \in DealIds, made'[e] # None PROVE MadeWell(e)'
    <3>1. made[e] # None => MadeWell(e)
      BY DEF DealsInv
    <3>. QED
      BY <1>2, <2>3, <3>1, RowsStep DEF Fate, Kept, MadeNow, MadeWell
  <2>4. ASSUME NEW e \in DealIds, deals'[e] # None PROVE deals'[e].amount = deals'[e].asset
    BY <1>2, <2>4, RowsStep DEF Fate, Kept, MadeNow, DealsInv, DealsKeepTheirQuote
  <2>. QED
    BY <2>1, <2>2, <2>3, <2>4 DEF DealsInv, DealsKeepTheirQuote
<1>. QED
  BY <1>1, <1>2

LEMMA DealsInvHolds == Spec => []DealsInv
<1>1. Init => DealsInv
  BY NoKeysType DEF Init, DealsInv, DealsTypes, DataTyped, DealsTyped, TalkTyped, FlagsTyped,
     MadeTyped, BuyersKnown, QuotesKept, DealsKeepTheirQuote, ContextDealIsOwn, OrNone,
     NoKeys, DealStates, WithdrawStates
<1>2. DealsInv /\ [Next]_vars => DealsInv'
  BY DealsInvStep
<1>. QED
  BY <1>1, <1>2, PTL DEF Spec

\* A deal is made in the asset its amount was priced in.
THEOREM DealsAreAsQuoted == Spec => []DealsKeepTheirQuote
<1>1. DealsInv => DealsKeepTheirQuote
  BY DEF DealsInv
<1>. QED
  BY <1>1, DealsInvHolds, PTL

\* A deal is made by its buyer, /recover in the middle of a draft excepted.
THEOREM DealsAreTheBuyers == Spec => []BuyersMakeTheirDeals
<1>1. DealsInv => BuyersMakeTheirDeals
  BY DEF DealsInv, BuyersMakeTheirDeals, MadeWell
<1>. QED
  BY <1>1, DealsInvHolds, PTL

\* The deal in a dictionary is its user's, with the same exception.
THEOREM ContextsHoldOwnDeals == Spec => []ContextDealIsOwn
<1>1. DealsInv => ContextDealIsOwn
  BY DEF DealsInv
<1>. QED
  BY <1>1, DealsInvHolds, PTL

-----------------------------------------------------------------------------
(* Withdrawals: the keys of a confirmation are those of its prompt.        *)

PromptTyped == prompt \in [Users -> OrNone(Terms)]

\* The amount is of the asset beside it once an address is asked for, and what
\* the prompt shows is what Confirm would read.
Priced(u) == data[u].wd_amount \in {None, data[u].wd_asset}
Shown(u) ==
    HasTerms(u) => prompt[u] = [asset |-> data[u].wd_asset, amount |-> data[u].wd_amount,
                                address |-> data[u].wd_address]
Faithful(u) ==
    /\ atWd[u] \in {"enterAddress", "confirm"} => Priced(u)
    /\ atWd[u] = "confirm" => Shown(u)

NeverFrozen == withdrawn # None => ~withdrawn.frozen

WithdrawInv ==
    /\ DataTyped /\ DealsTyped /\ TalkTyped /\ PromptTyped
    /\ \A u \in Users : Faithful(u)
    /\ WithdrawsWhatWasShown
    /\ NeverFrozen

\* A step that writes nothing of u's withdrawal, but may leave the conversation.
SameWithdraw(u) ==
    /\ data'[u].wd_asset = data[u].wd_asset
    /\ data'[u].wd_amount = data[u].wd_amount
    /\ data'[u].wd_address = data[u].wd_address
    /\ prompt'[u] = prompt[u]
    /\ atWd'[u] = atWd[u] \/ atWd'[u] \notin {"enterAddress", "confirm"}
       \/ (atWd[u] = "confirm" /\ atWd'[u] = "enterAddress")

EmptyWithdraw(u) == data'[u].wd_amount = None

LEMMA FaithfulStep ==
    ASSUME NEW u \in Users, Faithful(u), SameWithdraw(u) \/ EmptyWithdraw(u)
    PROVE  Faithful(u)'
BY DEF Faithful, SameWithdraw, EmptyWithdraw, Priced, Shown, HasTerms

LEMMA KeysOfAll ==
    ASSUME WithdrawInv, Next
    PROVE  /\ PromptTyped'
           /\ \A w \in Users : Faithful(w)'
<1>. USE DEF GoDeal, GoWithdraw, ledger, talk
<1>1. DataTyped /\ TalkTyped /\ PromptTyped
  BY DEF WithdrawInv
<1>2. ASSUME NEW u \in Users, ClearDraftFlow(u), atWd' = atWd, prompt' = prompt
      PROVE  PromptTyped' /\ \A w \in Users : SameWithdraw(w) \/ EmptyWithdraw(w)
  BY <1>1, <1>2 DEF ClearDraftFlow, DataTyped, PromptTyped, SameWithdraw, EmptyWithdraw, NoKeys
<1>3. ASSUME NEW u \in Users, NEW s \in OrNone(Users), NEW k \in Keys, LookUp(u, s, k),
             k.wd_amount = None \/ k = data[u], atWd' = atWd, prompt' = prompt
      PROVE  PromptTyped' /\ \A w \in Users : SameWithdraw(w) \/ EmptyWithdraw(w)
  BY <1>1, <1>3 DEF LookUp, DataTyped, Keys, PromptTyped, SameWithdraw, EmptyWithdraw
<1>4. ASSUME NEW u \in Users,
             \/ CheckUser(u) \/ DealNew(u) \/ SearchText(u) \/ SearchResult(u)
             \/ LeavePending(u) \/ CancelRequest(u) \/ BackMain(u)
      PROVE  PromptTyped' /\ \A w \in Users : SameWithdraw(w) \/ EmptyWithdraw(w)
  <2>1. atWd' = atWd /\ prompt' = prompt
    BY <1>4 DEF CheckUser, DealNew, SearchText, SearchResult, LeavePending, CancelRequest, BackMain
  <2>2. CASE ClearDraftFlow(u)
    BY <1>2, <2>1, <2>2
  <2>3. CASE data' = data
    BY <1>1, <2>1, <2>3 DEF PromptTyped, SameWithdraw
  <2>4. CASE \E s \in OrNone(Users) : LookUp(u, s, NoKeys) \/ LookUp(u, s, data[u])
    <3>1. NoKeys.wd_amount = None /\ data[u] \in Keys
      BY <1>1 DEF NoKeys, DataTyped
    <3>. QED
      BY <1>3, <2>1, <2>4, <3>1, NoKeysType
  <2>. QED
    BY <1>4, <2>2, <2>3, <2>4
       DEF CheckUser, DealNew, SearchText, SearchResult, LeavePending, CancelRequest, BackMain
<1>5. ASSUME NEW u \in Users, DealAmount(u) \/ BackFromConditions(u) \/ SetFrozen(u)
      PROVE  PromptTyped' /\ \A w \in Users : SameWithdraw(w)
  BY <1>1, <1>5 DEF DealAmount, BackFromConditions, SetFrozen, DataTyped, Keys, PromptTyped, SameWithdraw
<1>6. ASSUME NEW u \in Users, Recover(u)
      PROVE  PromptTyped' /\ \A w \in Users : SameWithdraw(w) \/ EmptyWithdraw(w)
  <2>1. atWd' = atWd /\ prompt' = prompt
    BY <1>6 DEF Recover
  <2>2. CASE ClearDraftFlow(u)
    BY <1>2, <2>1, <2>2
  <2>3. CASE ~ClearDraftFlow(u)
    BY <1>1, <1>6, <2>1, <2>3
       DEF Recover, NoKeys, DataTyped, PromptTyped, SameWithdraw, EmptyWithdraw
  <2>. QED
    BY <2>2, <2>3
<1>7. ASSUME NEW u \in Users, NEW a \in Assets, DealAsset(u, a)
      PROVE  PromptTyped' /\ \A w \in Users : SameWithdraw(w)
  BY <1>1, <1>7 DEF DealAsset, DataTyped, Keys, PromptTyped, SameWithdraw
<1>8. ASSUME NEW u \in Users, NEW e \in DealIds, DealConditions(u, e) \/ RateDeal(u, e)
      PROVE  PromptTyped' /\ \A w \in Users : SameWithdraw(w)
  BY <1>1, <1>8 DEF DealConditions, RateDeal, DataTyped, Keys, PromptTyped, SameWithdraw
<1>9. ASSUME NEW u \in Users, WithdrawStart(u) \/ WithdrawBack(u) \/ WithdrawCancelAddress(u)
      PROVE  PromptTyped' /\ \A w \in Users : SameWithdraw(w)
  BY <1>1, <1>9 DEF WithdrawStart, WithdrawBack, WithdrawCancelAddress, TalkTyped, PromptTyped, SameWithdraw
<1>10. ASSUME NEW u \in Users, NEW a \in Assets, WithdrawSelectAsset(u, a)
       PROVE  PromptTyped' /\ (\A w \in Users \ {u} : SameWithdraw(w)) /\ Faithful(u)'
  BY <1>1, <1>10 DEF WithdrawSelectAsset, DataTyped, Keys, TalkTyped, PromptTyped, SameWithdraw, Faithful
<1>11. ASSUME NEW u \in Users, WithdrawAmount(u)
       PROVE  PromptTyped' /\ (\A w \in Users \ {u} : SameWithdraw(w)) /\ Faithful(u)'
  BY <1>1, <1>11 DEF WithdrawAmount, DataTyped, Keys, TalkTyped, PromptTyped, SameWithdraw, Faithful, Priced
<1>12. ASSUME NEW u \in Users, NEW x \in Addresses, WithdrawAddress(u, x)
       PROVE  PromptTyped' /\ (\A w \in Users \ {u} : SameWithdraw(w)) /\ Faithful(u)'
  <2>1. /\ atWd[u] = "enterAddress" /\ Priced(u)
        /\ data[u].wd_asset \in Assets /\ data[u].wd_amount \in OrNone(Assets)
    BY <1>1, <1>12 DEF WithdrawAddress, WithdrawReads, WithdrawInv, Faithful, DataTyped, Keys, OrNone
  <2>2. /\ data'[u].wd_asset = data[u].wd_asset /\ data'[u].wd_amount = data[u].wd_amount
        /\ data'[u].wd_address = x
    BY <1>1, <1>12 DEF WithdrawAddress, DataTyped, Keys
  <2>3. CASE data[u].wd_amount = None
    BY <1>1, <1>12, <2>1, <2>2, <2>3
       DEF WithdrawAddress, DataTyped, PromptTyped, SameWithdraw, Faithful, Priced
  <2>4. CASE data[u].wd_amount # None
    <3>1. [asset |-> data[u].wd_asset, amount |-> data[u].wd_amount, address |-> x] \in Terms
      BY <2>1, <2>4 DEF Terms, OrNone
    <3>2. PromptTyped' /\ \A w \in Users \ {u} : SameWithdraw(w)
      BY <1>1, <1>12, <2>4, <3>1 DEF WithdrawAddress, DataTyped, TalkTyped, PromptTyped, OrNone, SameWithdraw
    <3>3. prompt'[u] = [asset |-> data[u].wd_asset, amount |-> data[u].wd_amount, address |-> x]
      BY <1>1, <1>12, <2>4 DEF WithdrawAddress, PromptTyped
    <3>. QED
      BY <2>1, <2>2, <3>2, <3>3 DEF Faithful, Priced, Shown
  <2>. QED
    BY <2>3, <2>4
<1>13. ASSUME NEW u \in Users, WithdrawConfirm(u)
       PROVE  PromptTyped' /\ \A w \in Users : SameWithdraw(w) \/ EmptyWithdraw(w)
  BY <1>1, <1>13 DEF WithdrawConfirm, Request, DataTyped, Keys, TalkTyped, PromptTyped, OrNone,
                     SameWithdraw, EmptyWithdraw
<1>14. ASSUME NEW u \in Users, NEW s \in Users, NEW a \in Assets, NEW e \in DealIds,
              OtherMakes(u, s, a, e)
       PROVE  PromptTyped' /\ \A w \in Users : SameWithdraw(w)
  BY <1>1, <1>14 DEF OtherMakes, PromptTyped, SameWithdraw
<1>15. ASSUME NEW e \in DealIds, DealMoves(e) PROVE PromptTyped' /\ \A w \in Users : SameWithdraw(w)
  BY <1>1, <1>15 DEF DealMoves, PromptTyped, SameWithdraw
<1>16. ASSUME Restart PROVE PromptTyped' /\ \A w \in Users : EmptyWithdraw(w)
  BY <1>16 DEF Restart, NoKeys, PromptTyped, OrNone, EmptyWithdraw
<1>17. /\ PromptTyped'
       /\ \/ \A w \in Users : SameWithdraw(w) \/ EmptyWithdraw(w)
          \/ \E u \in Users : (\A w \in Users \ {u} : SameWithdraw(w)) /\ Faithful(u)'
  BY <1>4, <1>5, <1>6, <1>7, <1>8, <1>9, <1>10, <1>11, <1>12, <1>13, <1>14, <1>15, <1>16, StepCases
<1>18. \A w \in Users : Faithful(w)
  BY DEF WithdrawInv
<1>. QED
  BY <1>17, <1>18, FaithfulStep

\* Only Confirm requests a withdrawal.
LEMMA RequestOrSame ==
    ASSUME Next
    PROVE  \/ withdrawn' = withdrawn
           \/ \E u \in Users : WithdrawConfirm(u) /\ HasTerms(u) /\ ~frozen[u] /\ Request(u)
<1>. USE DEF ledger
<1>1. ASSUME NEW u \in Users,
             \/ CheckUser(u) \/ DealNew(u) \/ SearchText(u) \/ SearchResult(u)
             \/ DealAmount(u) \/ BackFromConditions(u) \/ LeavePending(u)
             \/ CancelRequest(u) \/ BackMain(u) \/ Recover(u) \/ SetFrozen(u)
      PROVE  withdrawn' = withdrawn
  BY <1>1 DEF CheckUser, DealNew, SearchText, SearchResult, DealAmount, BackFromConditions,
              LeavePending, CancelRequest, BackMain, Recover, SetFrozen
<1>2. ASSUME NEW u \in Users,
             \/ WithdrawStart(u) \/ WithdrawAmount(u) \/ WithdrawBack(u) \/ WithdrawCancelAddress(u)
      PROVE  withdrawn' = withdrawn
  BY <1>2 DEF WithdrawStart, WithdrawAmount, WithdrawBack, WithdrawCancelAddress
<1>3. ASSUME NEW u \in Users, NEW a \in Assets, DealAsset(u, a) \/ WithdrawSelectAsset(u, a)
      PROVE  withdrawn' = withdrawn
  BY <1>3 DEF DealAsset, WithdrawSelectAsset
<1>4. ASSUME NEW u \in Users, NEW e \in DealIds, DealConditions(u, e) \/ RateDeal(u, e)
      PROVE  withdrawn' = withdrawn
  BY <1>4 DEF DealConditions, RateDeal
<1>5. ASSUME NEW u \in Users, NEW x \in Addresses, WithdrawAddress(u, x)
      PROVE  withdrawn' = withdrawn
  BY <1>5 DEF WithdrawAddress
<1>6. ASSUME NEW u \in Users, NEW s \in Users, NEW a \in Assets, NEW e \in DealIds,
             OtherMakes(u, s, a, e)
      PROVE  withdrawn' = withdrawn
  BY <1>6 DEF OtherMakes
<1>7. ASSUME NEW e \in DealIds, DealMoves(e) PROVE withdrawn' = withdrawn
  BY <1>7 DEF DealMoves
<1>8. ASSUME Restart PROVE withdrawn' = withdrawn
  BY <1>8 DEF Restart
<1>9. ASSUME NEW u \in Users, WithdrawConfirm(u)
      PROVE  withdrawn' = withdrawn \/ (HasTerms(u) /\ ~frozen[u] /\ Request(u))
  BY <1>9 DEF WithdrawConfirm
<1>. QED
  BY <1>1, <1>2, <1>3, <1>4, <1>5, <1>6, <1>7, <1>8, <1>9, StepCases

LEMMA WithdrawInvStep ==
    ASSUME WithdrawInv, DealsInv, [Next]_vars
    PROVE  WithdrawInv'
<1>1. CASE UNCHANGED vars
  BY <1>1 DEF vars, talk, WithdrawInv, DataTyped, DealsTyped, TalkTyped, PromptTyped, Faithful,
              Priced, Shown, HasTerms, WithdrawsWhatWasShown, NeverFrozen
<1>2. CASE Next
  <2>1. (DataTyped /\ DealsTyped /\ TalkTyped)'
    BY <1>2, DealsInvStep DEF DealsInv, DealsTypes
  <2>2. PromptTyped' /\ \A u \in Users : Faithful(u)'
    BY <1>2, KeysOfAll
  <2>3. CASE withdrawn' = withdrawn
    BY <2>1, <2>2, <2>3 DEF WithdrawInv, WithdrawsWhatWasShown, NeverFrozen
  <2>4. ASSUME NEW u \in Users, WithdrawConfirm(u), HasTerms(u), ~frozen[u], Request(u)
        PROVE  WithdrawsWhatWasShown' /\ NeverFrozen'
    <3>1. Priced(u) /\ Shown(u)
      BY <2>4 DEF WithdrawConfirm, WithdrawInv, Faithful
    <3>2. /\ withdrawn'.terms = [asset |-> data[u].wd_asset, amount |-> data[u].wd_amount,
                                 address |-> data[u].wd_address]
          /\ withdrawn'.shown = prompt[u]
          /\ withdrawn'.frozen = frozen[u]
      BY <2>4 DEF Request
    <3>3. withdrawn'.terms = withdrawn'.shown
      BY <2>4, <3>1, <3>2 DEF Shown
    <3>4. withdrawn'.terms.amount = withdrawn'.terms.asset
      BY <2>4, <3>1, <3>2 DEF Priced, HasTerms
    <3>. QED
      BY <2>4, <3>2, <3>3, <3>4 DEF WithdrawsWhatWasShown, NeverFrozen
  <2>. QED
    BY <1>2, <2>1, <2>2, <2>3, <2>4, RequestOrSame DEF WithdrawInv
<1>. QED
  BY <1>1, <1>2

LEMMA WithdrawInvHolds == Spec => []WithdrawInv
<1>1. Init => WithdrawInv
  BY NoKeysType DEF Init, WithdrawInv, DataTyped, DealsTyped, TalkTyped, PromptTyped, Faithful,
     OrNone, WithdrawsWhatWasShown, NeverFrozen, DealStates, WithdrawStates
<1>2. WithdrawInv /\ DealsInv /\ [Next]_vars => WithdrawInv'
  BY WithdrawInvStep
<1>. QED
  BY <1>1, <1>2, DealsInvHolds, PTL DEF Spec

\* A withdrawal is the one its user was last shown, and shown once.
THEOREM WithdrawalsAreAsShown == Spec => []WithdrawsWhatWasShown
<1>1. WithdrawInv => WithdrawsWhatWasShown
  BY DEF WithdrawInv
<1>. QED
  BY <1>1, WithdrawInvHolds, PTL

\* A frozen account pays for no deal and no withdrawal.
THEOREM FrozenAccountsPayNothing == Spec => []FrozenFundsStay
<1>1. DealsInv /\ WithdrawInv => FrozenFundsStay
  BY DEF DealsInv, MadeWell, WithdrawInv, NeverFrozen, FrozenFundsStay
<1>. QED
  BY <1>1, DealsInvHolds, WithdrawInvHolds, PTL

-----------------------------------------------------------------------------
(* Ratings.                                                                *)

ReviewsTyped == reviews \subseteq [reviewer : Users, reviewed : Users, deal : DealIds]

LEMMA ReviewOrSame ==
    ASSUME Next
    PROVE  reviews' = reviews \/ \E u \in Users, e \in DealIds : RateDeal(u, e)
<1>. USE DEF ledger
<1>1. ASSUME NEW u \in Users,
             \/ CheckUser(u) \/ DealNew(u) \/ SearchText(u) \/ SearchResult(u)
             \/ DealAmount(u) \/ BackFromConditions(u) \/ LeavePending(u)
             \/ CancelRequest(u) \/ BackMain(u) \/ Recover(u) \/ SetFrozen(u)
      PROVE  reviews' = reviews
  BY <1>1 DEF CheckUser, DealNew, SearchText, SearchResult, DealAmount, BackFromConditions,
              LeavePending, CancelRequest, BackMain, Recover, SetFrozen
<1>2. ASSUME NEW u \in Users,
             \/ WithdrawStart(u) \/ WithdrawAmount(u) \/ WithdrawBack(u)
             \/ WithdrawCancelAddress(u) \/ WithdrawConfirm(u)
      PROVE  reviews' = reviews
  BY <1>2 DEF WithdrawStart, WithdrawAmount, WithdrawBack, WithdrawCancelAddress, WithdrawConfirm
<1>3. ASSUME NEW u \in Users, NEW a \in Assets, DealAsset(u, a) \/ WithdrawSelectAsset(u, a)
      PROVE  reviews' = reviews
  BY <1>3 DEF DealAsset, WithdrawSelectAsset
<1>4. ASSUME NEW u \in Users, NEW e \in DealIds, DealConditions(u, e)
      PROVE  reviews' = reviews
  BY <1>4 DEF DealConditions
<1>5. ASSUME NEW u \in Users, NEW x \in Addresses, WithdrawAddress(u, x)
      PROVE  reviews' = reviews
  BY <1>5 DEF WithdrawAddress
<1>6. ASSUME NEW u \in Users, NEW s \in Users, NEW a \in Assets, NEW e \in DealIds,
             OtherMakes(u, s, a, e)
      PROVE  reviews' = reviews
  BY <1>6 DEF OtherMakes
<1>7. ASSUME NEW e \in DealIds, DealMoves(e) PROVE reviews' = reviews
  BY <1>7 DEF DealMoves
<1>8. ASSUME Restart PROVE reviews' = reviews
  BY <1>8 DEF Restart
<1>. QED
  BY <1>1, <1>2, <1>3, <1>4, <1>5, <1>6, <1>7, <1>8, StepCases

\* The one who is rated is a party of the deal.
LEMMA ReviewsStep ==
    ASSUME ReviewsTyped, DealsInv, [Next]_vars
    PROVE  ReviewsTyped'
<1>1. CASE reviews' = reviews
  BY <1>1 DEF ReviewsTyped
<1>2. ASSUME NEW u \in Users, NEW e \in DealIds, RateDeal(u, e)
      PROVE  ReviewsTyped'
  <2>1. deals[e].buyer \in Users /\ deals[e].seller \in Users
    BY <1>2, DealType DEF RateDeal, DealsInv, DealsTypes, DealRow
  <2>. QED
    BY <1>2, <2>1 DEF RateDeal, ReviewsTyped
<1>. QED
  BY <1>1, <1>2, ReviewOrSame DEF vars

LEMMA ReviewsHold == Spec => []ReviewsTyped
<1>1. Init => ReviewsTyped
  BY DEF Init, ReviewsTyped
<1>2. ReviewsTyped /\ DealsInv /\ [Next]_vars => ReviewsTyped'
  BY ReviewsStep
<1>. QED
  BY <1>1, <1>2, DealsInvHolds, PTL DEF Spec

-----------------------------------------------------------------------------

WithdrawnTyped ==
    withdrawn \in OrNone([terms : Terms, shown : OrNone(Terms), frozen : BOOLEAN])

LEMMA WithdrawnStep ==
    ASSUME WithdrawnTyped, DataTyped, PromptTyped, FlagsTyped, [Next]_vars
    PROVE  WithdrawnTyped'
<1>1. CASE withdrawn' = withdrawn
  BY <1>1 DEF WithdrawnTyped
<1>2. ASSUME NEW u \in Users, HasTerms(u), Request(u) PROVE WithdrawnTyped'
  <2>1. [asset |-> data[u].wd_asset, amount |-> data[u].wd_amount,
         address |-> data[u].wd_address] \in Terms
    BY <1>2 DEF HasTerms, DataTyped, Keys, OrNone, Terms
  <2>2. prompt[u] \in OrNone(Terms) /\ frozen[u] \in BOOLEAN
    BY DEF PromptTyped, FlagsTyped
  <2>. QED
    BY <1>2, <2>1, <2>2 DEF Request, WithdrawnTyped, OrNone
<1>. QED
  BY <1>1, <1>2, RequestOrSame DEF vars

\* Every variable keeps its type.
THEOREM ConversationsAreTyped == Spec => []ConversationsTypeOK
<1>1. Init => WithdrawnTyped
  BY DEF Init, WithdrawnTyped, OrNone
<1>2. WithdrawnTyped /\ DealsInv /\ WithdrawInv /\ [Next]_vars => WithdrawnTyped'
  BY WithdrawnStep DEF DealsInv, DealsTypes, WithdrawInv
<1>3. WithdrawnTyped /\ DealsInv /\ WithdrawInv /\ ReviewsTyped => ConversationsTypeOK
  BY DEF WithdrawnTyped, DealsInv, DealsTypes, WithdrawInv, ReviewsTyped, DataTyped,
         DealsTyped, TalkTyped, FlagsTyped, MadeTyped, PromptTyped, ConversationsTypeOK
<1>. QED
  BY <1>1, <1>2, <1>3, DealsInvHolds, WithdrawInvHolds, ReviewsHold, PTL DEF Spec

=============================================================================
