------------------------- MODULE DisputeFlowProofs --------------------------
(***************************************************************************)
(* Theorems about the dispute conversation for all users, deals and        *)
(* moderators: what the conversation adds to the escrow service, and that  *)
(* it adds nothing to what the service does.                               *)
(***************************************************************************)
EXTENDS DisputeFlow, EscrowProofs

-----------------------------------------------------------------------------
\* The conversation does what the service allows.

LEMMA PressIsService ==
    ASSUME NEW u \in Users, NEW e \in EscrowIds, NEW r \in Resolutions, PressResolve(u, e, r)
    PROVE  DealStep(e) \/ UNCHANGED vars
<1>1. CASE ResolveDispute(e, u, r, 50)
  <2>1. u \in Moderators
    BY <1>1 DEF ResolveDispute
  <2>. QED
    BY <1>1, <2>1, SplitAssumption DEF DealStep
<1>2. CASE UNCHANGED vars
  BY <1>2
<1>. QED
  BY <1>1, <1>2 DEF PressResolve

LEMMA StepIsService == [FlowNext]_allVars => [Next]_vars
<1> SUFFICES ASSUME [FlowNext]_allVars PROVE [Next]_vars
  OBVIOUS
<1>1. ASSUME NEW b \in Bots, NEW o \in Owners, NEW f \in BotFees,
             CreateOrUpdateTenant(b, o, f)
      PROVE  Next
  BY <1>1 DEF Next
<1>2. ASSUME NEW e \in EscrowIds, DealProceeds(e)
      PROVE  DealStep(e)
  BY <1>2 DEF DealProceeds, DealStep
<1>3. ASSUME NEW e \in EscrowIds, ModeratorAnswers(e)
      PROVE  DealStep(e) \/ UNCHANGED vars
  BY <1>3, PressIsService DEF ModeratorAnswers
<1>4. ASSUME NEW e \in EscrowIds, NEW u \in Users, PromptDispute(u, e) \/ Submit(u, e)
      PROVE  DealStep(e) \/ UNCHANGED vars
  BY <1>4 DEF PromptDispute, Submit, DealStep
<1>5. ASSUME NEW u \in Users, TypeReason(u) \/ ClearFlow(u)
      PROVE  UNCHANGED vars
  BY <1>5 DEF TypeReason, ClearFlow
<1>6. CASE Restart \/ UNCHANGED allVars
  BY <1>6 DEF Restart, allVars
<1>. QED
  BY <1>1, <1>2, <1>3, <1>4, <1>5, <1>6 DEF FlowNext, Next

\* Whatever a conversation, an old button or a restart does to the tables is a
\* step of the escrow service: its theorems hold under the bot's handlers too.
THEOREM FlowImplementsService == FlowSpec => Spec
<1>1. FlowInit => Init
  BY DEF FlowInit
<1>. QED
  BY <1>1, StepIsService, PTL DEF FlowSpec, Spec

-----------------------------------------------------------------------------
\* Reasons.

\* A user who is asked for a reason is asked about a deal, and a reason that
\* waits for its button is of the deal it names.
ReasonsMatch ==
    /\ awaiting \in [Users -> BOOLEAN]
    /\ prompted \in [Users -> EscrowIds \cup {None}]
    /\ pending \in [Users -> Pending \cup {None}]
    /\ reason \in [EscrowIds -> EscrowIds \cup {None}]
    /\ refused \in BOOLEAN
    /\ \A u \in Users : /\ awaiting[u] => prompted[u] \in EscrowIds
                        /\ pending[u] # None => pending[u].reason = pending[u].deal
    /\ \A e \in EscrowIds : reason[e] \in {e, None}

LEMMA ReasonsInit == FlowInit => ReasonsMatch
BY DEF FlowInit, ReasonsMatch

LEMMA ReasonsStep == ReasonsMatch /\ [FlowNext]_allVars => ReasonsMatch'
<1> SUFFICES ASSUME ReasonsMatch, [FlowNext]_allVars PROVE ReasonsMatch'
  OBVIOUS
<1>1. ASSUME UNCHANGED <<flow, reason, refused>>
      PROVE  ReasonsMatch'
  BY <1>1 DEF flow, ReasonsMatch
<1>2. ASSUME NEW u \in Users, NEW e \in EscrowIds, PromptDispute(u, e)
      PROVE  ReasonsMatch'
  BY <1>2 DEF PromptDispute, ReasonsMatch
<1>3. ASSUME NEW u \in Users, TypeReason(u)
      PROVE  ReasonsMatch'
  <2>1. prompted[u] \in EscrowIds
    BY <1>3 DEF TypeReason, ReasonsMatch
  <2>2. [deal |-> prompted[u], reason |-> prompted[u]] \in Pending
    BY <2>1 DEF Pending
  <2>. QED
    BY <1>3, <2>2 DEF TypeReason, ReasonsMatch
<1>4. ASSUME NEW u \in Users, NEW e \in EscrowIds, Submit(u, e)
      PROVE  ReasonsMatch'
  <2>1. /\ pending' = [pending EXCEPT ![u] = None]
        /\ \/ reason' = [reason EXCEPT ![e] = e]
           \/ reason' = reason
        /\ UNCHANGED <<awaiting, prompted, refused>>
    BY <1>4 DEF Submit, ReasonsMatch
  <2>. QED
    BY <2>1 DEF ReasonsMatch
<1>5. ASSUME NEW u \in Users, ClearFlow(u)
      PROVE  ReasonsMatch'
  BY <1>5 DEF ClearFlow, ReasonsMatch
<1>6. CASE Restart
  BY <1>6 DEF Restart, ReasonsMatch
<1>7. ASSUME NEW e \in EscrowIds, ModeratorAnswers(e)
      PROVE  ReasonsMatch'
  BY <1>7 DEF ModeratorAnswers, PressResolve, flow, ReasonsMatch
<1>8. ASSUME NEW e \in EscrowIds, DealProceeds(e)
      PROVE  ReasonsMatch'
  BY <1>1, <1>8 DEF DealProceeds
<1>9. CASE UNCHANGED allVars
  BY <1>1, <1>9 DEF allVars
<1>. QED
  BY <1>1, <1>2, <1>3, <1>4, <1>5, <1>6, <1>7, <1>8, <1>9 DEF FlowNext

THEOREM ReasonsInvariant == FlowSpec => []ReasonsMatch
BY ReasonsInit, ReasonsStep, PTL DEF FlowSpec

\* A dispute carries the reason typed under its own prompt, whatever else the
\* user began, abandoned or confirmed with an old button (F7).
THEOREM ReasonsAreOfTheirDeals == FlowSpec => []ReasonBelongsToDeal
<1>1. ReasonsMatch => ReasonBelongsToDeal
  BY DEF ReasonsMatch, ReasonBelongsToDeal
<1>. QED
  BY <1>1, ReasonsInvariant, PTL

\* Tables and conversations keep their types.
THEOREM FlowIsTyped == FlowSpec => []FlowTypeOK
<1>1. TypeOK /\ ReasonsMatch => FlowTypeOK
  BY DEF ReasonsMatch, FlowTypeOK
<1>. QED
  BY <1>1, TypeCorrect, FlowImplementsService, ReasonsInvariant, PTL

=============================================================================
