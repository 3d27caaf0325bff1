------------------------- MODULE EscrowBooksProofs --------------------------
(***************************************************************************)
(* The money of Escrow, and Custody.  Without ExactAmounts SellerPayout    *)
(* rounds, and the entries of a settled deal add up to within half a cent; *)
(* with it they add up to the last unit, and so implement Custody.         *)
(***************************************************************************)
EXTENDS EscrowProofs, FiniteSetTheorems, WellFoundedInduction

\* The amount a, handed out as x.
HandedWhole(x, a) ==
    /\ 2 * (x - a) <= Cent
    /\ -Cent <= 2 * (x - a)
    /\ ExactAmounts => x = a

\* What the ledger rows of one deal say while it is new, held and settled.
BooksMatch(e) ==
    /\ lock[e].status = "none" => \A t \in EntryType : posted[e][t] = 0
    /\ lock[e].status = "locked" =>
          /\ posted[e]["ESCROW_LOCK"] = -lock[e].amount
          /\ \A t \in EntryType \ {"ESCROW_LOCK"} : posted[e][t] = 0
    /\ lock[e].status = "released" => HandedWhole(EntrySum(e), 0)

BooksInv == (\A e \in EscrowIds : BooksMatch(e)) /\ NoOverdraft

IInv == Inv /\ BooksInv

\* The entries that hand a stake out, beside the one that took it.
PayEntries == EntryType \ {"ESCROW_LOCK"}

PaySum(row) ==
    row["ESCROW_UNLOCK"] + row["ESCROW_RELEASE"] + row["ADJUSTMENT"]
    + row["PLATFORM_FEE"] + row["BOT_FEE"]

\* One settlement: the lock is released, its amount is posted in full, no
\* entry is negative and no user is charged.
HandsOut(e) ==
    /\ lock[e].status = "locked"
    /\ lock' = [lock EXCEPT ![e].status = "released"]
    /\ posted'[e]["ESCROW_LOCK"] = posted[e]["ESCROW_LOCK"]
    /\ \A t \in PayEntries : posted'[e][t] \in Nat
    /\ HandedWhole(PaySum(posted'[e]), lock[e].amount)
    /\ \A u \in Users : net'[User(u)] >= net[User(u)]

-----------------------------------------------------------------------------
(* A step on one deal leaves the rows of every other deal alone, and there *)
(* is no step on a deal that is closed.                                    *)

LEMMA StepStaysInItsDeal ==
    ASSUME Inv, NEW e \in EscrowIds, NEW d \in EscrowIds, DealStep(e)
    PROVE  /\ escrow[e].status \notin FinalStatus
           /\ d # e => UNCHANGED <<escrow[d], lock[d], posted[d], disputes[d], cancelRequest[d]>>
<1> USE DEF FinalStatus, SetStatus
<1>1. ASSUME NEW b \in Bots, NEW buyer \in Users, NEW seller \in Users, NEW a \in Amounts,
             CreateEscrow(e, b, buyer, seller, a)
      PROVE  /\ escrow[e].status \notin FinalStatus
             /\ d # e => UNCHANGED <<escrow[d], lock[d], posted[d], disputes[d], cancelRequest[d]>>
    BY <1>1 DEF CreateEscrow, LockForEscrow, Inv, TypeOK
<1>2. ASSUME NEW u \in Users,
             \/ AcceptEscrow(e, u) \/ Dispute(e, u) \/ RequestCancel(e, u)
             \/ DeclineCancel(e, u)
      PROVE  /\ escrow[e].status \notin FinalStatus
             /\ d # e => UNCHANGED <<escrow[d], lock[d], posted[d], disputes[d], cancelRequest[d]>>
    BY <1>2 DEF AcceptEscrow, Dispute, RequestCancel, DeclineCancel, MayAnswerCancel, Inv, TypeOK
<1>3. ASSUME NEW u \in Users, Release(e, u)
      PROVE  /\ escrow[e].status \notin FinalStatus
             /\ d # e => UNCHANGED <<escrow[d], lock[d], posted[d], disputes[d], cancelRequest[d]>>
    BY <1>3 DEF Release, ReleaseEscrow, Inv, TypeOK
<1>4. ASSUME NEW u \in Users, CancelEscrow(e, u) \/ AcceptCancel(e, u)
      PROVE  /\ escrow[e].status \notin FinalStatus
             /\ d # e => UNCHANGED <<escrow[d], lock[d], posted[d], disputes[d], cancelRequest[d]>>
    BY <1>4 DEF CancelEscrow, AcceptCancel, CancelEscrowMutual, CancelEscrowLock, Inv, TypeOK
<1>5. ASSUME NEW m \in Moderators, NEW r \in Resolutions, NEW p \in SplitPercents,
             ResolveDispute(e, m, r, p)
      PROVE  /\ escrow[e].status \notin FinalStatus
             /\ d # e => UNCHANGED <<escrow[d], lock[d], posted[d], disputes[d], cancelRequest[d]>>
    <2>1. /\ escrow[e].status \notin FinalStatus
          /\ d # e => UNCHANGED <<escrow[d], disputes[d], cancelRequest[d]>>
        BY <1>5 DEF ResolveDispute, CloseDisputes, Inv, TypeOK
    <2>2. ASSUME NEW s \in Users, NEW o \in Owners, NEW f \in BotFees,
                 ReleaseEscrow(e, s, o, escrow[e].amount, f)
          PROVE  d # e => UNCHANGED <<lock[d], posted[d]>>
        BY <2>2 DEF ReleaseEscrow, Inv, TypeOK
    <2>3. CancelEscrowLock(e) => (d # e => UNCHANGED <<lock[d], posted[d]>>)
        BY DEF CancelEscrowLock, Inv, TypeOK
    <2>4. ASSUME NEW b \in Users, NEW s \in Users, NEW o \in Owners, NEW f \in BotFees,
                 SplitEscrow(e, b, s, o, f, p)
          PROVE  d # e => UNCHANGED <<lock[d], posted[d]>>
        BY <2>4 DEF SplitEscrow, Inv, TypeOK
    <2>5. /\ escrow[e].buyer \in Users
          /\ escrow[e].seller \in Users
          /\ tenant[escrow[e].bot].owner \in Owners
          /\ tenant[escrow[e].bot].fee \in BotFees
        BY <1>5 DEF ResolveDispute, Inv, DealsInv, DealIsWhole, TypeOK, TenantRow
    <2>. QED
        BY <1>5, <2>1, <2>2, <2>3, <2>4, <2>5 DEF ResolveDispute
<1>. QED
    BY <1>1, <1>2, <1>3, <1>4, <1>5 DEF DealStep

\* A completed or cancelled deal is closed for good, whatever is pressed late.
THEOREM SettledStaysSettled == Spec => SettledIsFinal
<1> DEFINE Frozen == \A e \in EscrowIds :
              escrow[e].status \in FinalStatus =>
                  UNCHANGED <<escrow[e], lock[e], posted[e], disputes[e], cancelRequest[e]>>
<1>1. Inv /\ [Next]_vars => [Frozen]_vars
    <2> SUFFICES ASSUME Inv, Next, NEW d \in EscrowIds, escrow[d].status \in FinalStatus
                 PROVE  UNCHANGED <<escrow[d], lock[d], posted[d], disputes[d],
                                    cancelRequest[d]>>
        OBVIOUS
    <2>1. ASSUME NEW b \in Bots, NEW o \in Owners, NEW f \in BotFees,
                 CreateOrUpdateTenant(b, o, f)
          PROVE  UNCHANGED <<escrow[d], lock[d], posted[d], disputes[d], cancelRequest[d]>>
        BY <2>1 DEF CreateOrUpdateTenant
    <2>2. ASSUME NEW e \in EscrowIds, DealStep(e)
          PROVE  UNCHANGED <<escrow[d], lock[d], posted[d], disputes[d], cancelRequest[d]>>
        BY <2>2, StepStaysInItsDeal
    <2>. QED
        BY <2>1, <2>2 DEF Next
<1>. QED
    BY <1>1, Invariant, PTL DEF Spec, SettledIsFinal

-----------------------------------------------------------------------------
(* The three ways a lock is settled hand it out whole.                     *)

\* A locked deal's amount has no fraction of a cent, and its entries are blank
\* but for the one that took the amount.
LEMMA HeldDeal ==
    ASSUME IInv, NEW e \in EscrowIds, lock[e].status = "locked"
    PROVE  /\ lock[e].amount = escrow[e].amount
           /\ lock[e].user = escrow[e].buyer
           /\ escrow[e].buyer \in Users
           /\ lock[e].amount \in Amounts
           /\ lock[e].amount \in Nat
           /\ ExactAmounts => WholeCents(lock[e].amount)
           /\ posted[e] \in [EntryType -> Int]
           /\ \A t \in PayEntries : posted[e][t] = 0
<1>1. escrow[e].status # "none"
    BY DEF IInv, Inv, DealsInv, LockMatches
<1>2. /\ lock[e].amount = escrow[e].amount
      /\ lock[e].user = escrow[e].buyer
      /\ escrow[e].buyer \in Users
      /\ lock[e].amount \in Amounts
    BY <1>1 DEF IInv, Inv, DealsInv, LockMatches, DealIsWhole
<1>3. lock[e].amount \in Nat /\ (ExactAmounts => WholeCents(lock[e].amount))
    BY <1>2, AmountsArePositive DEF ExactAmounts
<1>4. posted[e] \in [EntryType -> Int] /\ \A t \in PayEntries : posted[e][t] = 0
    BY DEF IInv, Inv, TypeOK, BooksInv, BooksMatch, PayEntries
<1>. QED
    BY <1>2, <1>3, <1>4

LEMMA ReleaseHandsOut ==
    ASSUME IInv, NEW e \in EscrowIds, NEW s \in Users, NEW o \in Owners,
           NEW f \in BotFees, ReleaseEscrow(e, s, o, escrow[e].amount, f)
    PROVE  HandsOut(e)
<1> DEFINE pay == SellerPayout(escrow[e].amount, f)
           pf == PlatformFee(escrow[e].amount)
           bf == BotFee(escrow[e].amount, f)
<1>1. /\ lock[e].status = "locked"
      /\ lock' = [lock EXCEPT ![e].status = "released"]
      /\ posted' = [posted EXCEPT ![e]["ESCROW_RELEASE"] = @ + pay,
                                  ![e]["PLATFORM_FEE"] = @ + pf,
                                  ![e]["BOT_FEE"] = @ + bf]
      /\ net' = [net EXCEPT ![User(s)] = @ + pay, ![Platform] = @ + pf,
                            ![BotOwner(o)] = @ + bf]
    BY DEF ReleaseEscrow
<1>2. /\ escrow[e].amount = lock[e].amount
      /\ escrow[e].amount \in Nat
      /\ ExactAmounts => WholeCents(escrow[e].amount)
    BY <1>1, HeldDeal
<1>3. f \in Nat /\ ValidBotFee(f)
    BY FeesAreNumbers
<1>4. pay \in Nat /\ pf \in Nat /\ bf \in Nat
      /\ HandedWhole(pay + pf + bf, escrow[e].amount)
    <2> DEFINE a == escrow[e].amount
    <2>1. a \in Nat /\ (ExactAmounts => WholeCents(a))
        BY <1>2
    <2> HIDE DEF a
    <2>2. SellerPayout(a, f) \in Nat /\ PlatformFee(a) \in Nat /\ BotFee(a, f) \in Nat
          /\ HandedWhole(SellerPayout(a, f) + PlatformFee(a) + BotFee(a, f), a)
        BY <1>3, <2>1, SettlementIsNear, WholeCentSettlementIsExact DEF HandedOut, HandedWhole
    <2>. QED
        BY <2>2 DEF a
<1> HIDE DEF pay, pf, bf
<1>5. /\ posted \in [EscrowIds -> [EntryType -> Int]]
      /\ net \in [Account -> Int]
    BY DEF IInv, Inv, TypeOK
<1>6. posted[e]["ESCROW_LOCK"] \in Int /\ \A t \in PayEntries : posted[e][t] = 0
    BY <1>1, HeldDeal DEF EntryType
<1>7. /\ posted'[e]["ESCROW_LOCK"] = posted[e]["ESCROW_LOCK"]
      /\ posted'[e]["ESCROW_RELEASE"] = pay
      /\ posted'[e]["PLATFORM_FEE"] = pf
      /\ posted'[e]["BOT_FEE"] = bf
      /\ posted'[e]["ESCROW_UNLOCK"] = 0
      /\ posted'[e]["ADJUSTMENT"] = 0
    <2>1. posted'[e] = [posted[e] EXCEPT !["ESCROW_RELEASE"] = @ + pay,
                                         !["PLATFORM_FEE"] = @ + pf, !["BOT_FEE"] = @ + bf]
        BY <1>1, <1>5
    <2>2. posted[e] \in [EntryType -> Int]
        BY <1>5
    <2>. QED
        BY <1>4, <1>6, <2>1, <2>2 DEF PayEntries, EntryType
<1>8. ASSUME NEW u \in Users PROVE net'[User(u)] >= net[User(u)]
    <2>1. User(u) \in Account
        BY Accounts
    <2>. QED
        BY <1>1, <1>4, <1>5, <2>1
<1>9. \A t \in PayEntries : posted'[e][t] \in Nat
    BY <1>4, <1>7 DEF PayEntries, EntryType
<1>10. HandedWhole(PaySum(posted'[e]), lock[e].amount)
    <2>1. PaySum(posted'[e]) = pay + pf + bf
        BY <1>4, <1>7 DEF PaySum
    <2>. QED
        BY <1>2, <1>4, <2>1
<1>. QED
    BY <1>1, <1>7, <1>8, <1>9, <1>10 DEF HandsOut

LEMMA CancelHandsOut ==
    ASSUME IInv, NEW e \in EscrowIds, CancelEscrowLock(e)
    PROVE  HandsOut(e)
<1> DEFINE a == lock[e].amount
<1>1. /\ lock[e].status = "locked"
      /\ lock' = [lock EXCEPT ![e].status = "released"]
      /\ posted' = [posted EXCEPT ![e]["ESCROW_UNLOCK"] = @ + a]
      /\ net' = [net EXCEPT ![User(lock[e].user)] = @ + a]
    BY DEF CancelEscrowLock
<1>2. a \in Nat
    BY <1>1, HeldDeal
<1> HIDE DEF a
<1>3. /\ posted \in [EscrowIds -> [EntryType -> Int]]
      /\ net \in [Account -> Int]
    BY DEF IInv, Inv, TypeOK
<1>4. \A t \in PayEntries : posted[e][t] = 0
    BY <1>1, HeldDeal
<1>5. /\ posted'[e]["ESCROW_LOCK"] = posted[e]["ESCROW_LOCK"]
      /\ posted'[e]["ESCROW_UNLOCK"] = a
      /\ \A t \in PayEntries \ {"ESCROW_UNLOCK"} : posted'[e][t] = 0
    BY <1>1, <1>2, <1>3, <1>4 DEF PayEntries, EntryType
<1>6. ASSUME NEW u \in Users PROVE net'[User(u)] >= net[User(u)]
    <2>1. User(u) \in Account
        BY Accounts
    <2>. QED
        BY <1>1, <1>2, <1>3, <2>1
<1>7. \A t \in PayEntries : posted'[e][t] \in Nat
    BY <1>2, <1>5 DEF PayEntries, EntryType
<1>8. HandedWhole(PaySum(posted'[e]), a)
    <2>1. PaySum(posted'[e]) = a
        BY <1>2, <1>5 DEF PaySum, PayEntries, EntryType
    <2>. QED
        BY <1>2, <2>1, FeesAssumption DEF HandedWhole
<1>. QED
    BY <1>1, <1>5, <1>6, <1>7, <1>8 DEF HandsOut, a

LEMMA SplitHandsOut ==
    ASSUME IInv, NEW e \in EscrowIds, NEW b \in Users, NEW s \in Users,
           NEW o \in Owners, NEW f \in BotFees, NEW p \in SplitPercents,
           SplitEscrow(e, b, s, o, f, p)
    PROVE  HandsOut(e)
<1> DEFINE part == (lock[e].amount * p) \div 100
           rest == lock[e].amount - part
           pay == SellerPayout(part, f)
           pf == PlatformFee(part)
           bf == BotFee(part, f)
<1>1. /\ lock[e].status = "locked"
      /\ lock' = [lock EXCEPT ![e].status = "released"]
      /\ posted' = [posted EXCEPT ![e]["ESCROW_RELEASE"] = @ + pay,
                                  ![e]["ADJUSTMENT"] = @ + rest,
                                  ![e]["PLATFORM_FEE"] = @ + pf,
                                  ![e]["BOT_FEE"] = @ + bf]
      /\ net' = [net EXCEPT ![User(s)] = @ + pay, ![User(b)] = @ + rest,
                            ![Platform] = @ + pf, ![BotOwner(o)] = @ + bf]
    BY DEF SplitEscrow
<1>2. lock[e].amount \in Amounts /\ lock[e].amount \in Nat
    BY <1>1, HeldDeal
<1>3. p \in 0 .. 100
    BY PercentsAreNumbers
<1>4. part \in Nat /\ rest \in Nat
    <2> DEFINE x == lock[e].amount
    <2>1. x \in Nat
        BY <1>2
    <2> HIDE DEF x
    <2>2. x * p \in Nat /\ x * p <= x * 100
        BY <1>3, <2>1, SMTT(30)
    <2>3. (x * p) \div 100 \in Nat /\ (x * p) \div 100 <= x
        <3> DEFINE y == x * p
        <3> HIDE DEF y
        <3>. QED BY <2>1, <2>2 DEF y
    <2>. QED
        BY <2>1, <2>3 DEF x
<1>5. ExactAmounts => WholeCents(part)
    BY <1>2 DEF ExactAmounts
<1>6. f \in Nat /\ ValidBotFee(f)
    BY FeesAreNumbers
<1>7. pay \in Nat /\ pf \in Nat /\ bf \in Nat /\ HandedWhole(pay + pf + bf, part)
    <2> HIDE DEF part
    <2>. QED
        BY <1>4, <1>5, <1>6, SettlementIsNear, WholeCentSettlementIsExact
        DEF HandedOut, HandedWhole
<1>8. part + rest = lock[e].amount
    <2> HIDE DEF part
    <2>. QED BY <1>2, <1>4
<1> HIDE DEF part, rest, pay, pf, bf
<1>9. /\ posted \in [EscrowIds -> [EntryType -> Int]]
      /\ net \in [Account -> Int]
    BY DEF IInv, Inv, TypeOK
<1>10. posted[e]["ESCROW_LOCK"] \in Int /\ \A t \in PayEntries : posted[e][t] = 0
    BY <1>1, HeldDeal DEF EntryType
<1>11. /\ posted'[e]["ESCROW_LOCK"] = posted[e]["ESCROW_LOCK"]
       /\ posted'[e]["ESCROW_RELEASE"] = pay
       /\ posted'[e]["PLATFORM_FEE"] = pf
       /\ posted'[e]["BOT_FEE"] = bf
       /\ posted'[e]["ESCROW_UNLOCK"] = 0
       /\ posted'[e]["ADJUSTMENT"] = rest
    <2>1. posted'[e] = [posted[e] EXCEPT !["ESCROW_RELEASE"] = @ + pay,
                                         !["ADJUSTMENT"] = @ + rest,
                                         !["PLATFORM_FEE"] = @ + pf, !["BOT_FEE"] = @ + bf]
        BY <1>1, <1>9
    <2>2. posted[e] \in [EntryType -> Int]
        BY <1>9
    <2>3. pay \in Nat /\ pf \in Nat /\ bf \in Nat /\ rest \in Nat
        BY <1>4, <1>7
    <2>4. \A t \in PayEntries : posted[e][t] = 0
        BY <1>10
    <2>. QED
        BY <2>1, <2>2, <2>3, <2>4 DEF PayEntries, EntryType
<1>12. ASSUME NEW u \in Users PROVE net'[User(u)] >= net[User(u)]
    <2>1. User(u) \in Account
        BY Accounts
    <2>. QED
        BY <1>1, <1>4, <1>7, <1>9, <2>1
<1>13. \A t \in PayEntries : posted'[e][t] \in Nat
    BY <1>4, <1>7, <1>11 DEF PayEntries, EntryType
<1>14. HandedWhole(PaySum(posted'[e]), lock[e].amount)
    <2>1. PaySum(posted'[e]) = rest + (pay + pf + bf)
        BY <1>4, <1>7, <1>11 DEF PaySum
    <2>2. Cent \in Nat
        BY FeesAssumption
    <2>. QED
        BY <1>2, <1>4, <1>7, <1>8, <2>1, <2>2 DEF HandedWhole
<1>. QED
    BY <1>1, <1>11, <1>12, <1>13, <1>14 DEF HandsOut

-----------------------------------------------------------------------------
(* Every step on a deal opens it, settles it, or leaves its money alone.   *)

Opens(e) ==
    /\ lock[e].status = "none"
    /\ \E u \in Users, a \in Amounts :
          /\ net[User(u)] >= a
          /\ lock' = [lock EXCEPT ![e] = [status |-> "locked", user |-> u, amount |-> a]]
          /\ posted' = [posted EXCEPT ![e]["ESCROW_LOCK"] = @ - a]
          /\ net' = [net EXCEPT ![User(u)] = @ - a]

LEMMA StepOnMoney ==
    ASSUME IInv, NEW e \in EscrowIds, DealStep(e)
    PROVE  Opens(e) \/ HandsOut(e) \/ UNCHANGED <<lock, posted, net>>
<1>1. ASSUME NEW b \in Bots, NEW buyer \in Users, NEW seller \in Users, NEW a \in Amounts,
             CreateEscrow(e, b, buyer, seller, a)
      PROVE  Opens(e)
    BY <1>1 DEF CreateEscrow, LockForEscrow, AvailableBalance, Opens, IInv, Inv, DealsInv,
                LockMatches
<1>2. ASSUME NEW u \in Users,
             \/ AcceptEscrow(e, u) \/ Dispute(e, u) \/ RequestCancel(e, u)
             \/ DeclineCancel(e, u)
      PROVE  UNCHANGED <<lock, posted, net>>
    BY <1>2 DEF AcceptEscrow, Dispute, RequestCancel, DeclineCancel
<1>3. ASSUME NEW u \in Users, CancelEscrow(e, u) \/ AcceptCancel(e, u)
      PROVE  HandsOut(e)
    BY <1>3, CancelHandsOut DEF CancelEscrow, AcceptCancel, CancelEscrowMutual
<1>4. ASSUME escrow[e].status # "none"
      PROVE  /\ escrow[e].buyer \in Users
             /\ escrow[e].seller \in Users
             /\ tenant[escrow[e].bot].owner \in Owners
             /\ tenant[escrow[e].bot].fee \in BotFees
    BY <1>4 DEF IInv, Inv, DealsInv, DealIsWhole, TypeOK, TenantRow
<1>5. ASSUME NEW u \in Users, Release(e, u)
      PROVE  HandsOut(e)
    BY <1>4, <1>5, ReleaseHandsOut DEF Release
<1>6. ASSUME NEW m \in Moderators, NEW r \in Resolutions, NEW p \in SplitPercents,
             ResolveDispute(e, m, r, p)
      PROVE  HandsOut(e)
    BY <1>4, <1>6, ReleaseHandsOut, CancelHandsOut, SplitHandsOut DEF ResolveDispute
<1>. QED
    BY <1>1, <1>2, <1>3, <1>5, <1>6 DEF DealStep

LEMMA BooksStep ==
    ASSUME IInv, NEW e \in EscrowIds, DealStep(e), Inv'
    PROVE  BooksInv'
<1>1. /\ posted \in [EscrowIds -> [EntryType -> Int]]
      /\ net \in [Account -> Int]
      /\ lock \in [EscrowIds -> LockRow]
    BY DEF IInv, Inv, TypeOK
<1>2. ASSUME NEW d \in EscrowIds, d # e PROVE BooksMatch(d)'
    <2>1. lock'[d] = lock[d] /\ posted'[d] = posted[d]
        BY <1>2, StepStaysInItsDeal DEF IInv
    <2>. QED
        BY <2>1 DEF IInv, BooksInv, BooksMatch, EntrySum
<1>3. BooksMatch(e)'
    <2>1. CASE Opens(e)
        <3>1. PICK u \in Users, a \in Amounts :
                 /\ lock' = [lock EXCEPT ![e] = [status |-> "locked", user |-> u, amount |-> a]]
                 /\ posted' = [posted EXCEPT ![e]["ESCROW_LOCK"] = @ - a]
            BY <2>1 DEF Opens
        <3>2. a \in Nat
            BY AmountsArePositive
        <3>3. \A t \in EntryType : posted[e][t] = 0
            BY <2>1 DEF Opens, IInv, BooksInv, BooksMatch
        <3>4. /\ posted'[e]["ESCROW_LOCK"] = -a
              /\ \A t \in EntryType \ {"ESCROW_LOCK"} : posted'[e][t] = 0
            BY <1>1, <3>1, <3>2, <3>3 DEF EntryType
        <3>5. lock'[e].status = "locked" /\ lock'[e].amount = a
            BY <1>1, <3>1
        <3>. QED
            BY <3>4, <3>5 DEF BooksMatch
    <2>2. CASE HandsOut(e)
        <3>1. lock'[e].status = "released"
            BY <1>1, <2>2 DEF HandsOut, LockRow
        <3>2. posted'[e]["ESCROW_LOCK"] = -lock[e].amount
            BY <2>2 DEF HandsOut, IInv, BooksInv, BooksMatch
        <3>3. lock[e].amount \in Nat
            BY <2>2, HeldDeal DEF HandsOut
        <3>4. EntrySum(e)' = PaySum(posted'[e]) - lock[e].amount /\ PaySum(posted'[e]) \in Nat
            BY <2>2, <3>2, <3>3 DEF HandsOut, EntrySum, PaySum, PayEntries, EntryType
        <3>5. HandedWhole(EntrySum(e)', 0)
            BY <2>2, <3>3, <3>4 DEF HandsOut, HandedWhole
        <3>. QED
            BY <3>1, <3>5 DEF BooksMatch, HandedWhole
    <2>3. CASE UNCHANGED <<lock, posted, net>>
        BY <2>3 DEF IInv, BooksInv, BooksMatch, EntrySum
    <2>. QED
        BY <2>1, <2>2, <2>3, StepOnMoney
<1>4. NoOverdraft'
    <2>1. CASE Opens(e)
        <3>1. PICK u \in Users, a \in Amounts :
                 net[User(u)] >= a /\ net' = [net EXCEPT ![User(u)] = @ - a]
            BY <2>1 DEF Opens
        <3>2. a \in Nat
            BY AmountsArePositive
        <3>. QED
            BY <1>1, <3>1, <3>2, Accounts DEF NoOverdraft, IInv, BooksInv
    <2>2. CASE HandsOut(e)
        <3> SUFFICES ASSUME NEW u \in Users PROVE net'[User(u)] >= 0
            BY DEF NoOverdraft
        <3>1. net'[User(u)] >= net[User(u)] /\ net[User(u)] >= 0
            BY <2>2 DEF HandsOut, IInv, BooksInv, NoOverdraft
        <3>2. net[User(u)] \in Int /\ net'[User(u)] \in Int
            BY <1>1, Accounts DEF Inv, TypeOK
        <3>. QED
            BY <3>1, <3>2
    <2>3. CASE UNCHANGED <<lock, posted, net>>
        BY <2>3 DEF IInv, BooksInv, NoOverdraft
    <2>. QED
        BY <2>1, <2>2, <2>3, StepOnMoney
<1>. QED
    BY <1>2, <1>3, <1>4 DEF BooksInv

LEMMA InitIInv == Init => IInv
<1> SUFFICES ASSUME Init PROVE IInv
    OBVIOUS
<1>1. Inv
    BY InitInv
<1>2. \A e \in EscrowIds : BooksMatch(e)
    BY DEF Init, BooksMatch
<1>3. \A u \in Users : User(u) \in Account /\ User(u)[1] = "USER" /\ User(u)[2] = u
    BY Accounts DEF User
<1>4. NoOverdraft
    <2> SUFFICES ASSUME NEW u \in Users PROVE net[User(u)] >= 0
        BY DEF NoOverdraft
    <2>1. net[User(u)] = InitialFunds[u]
        BY <1>3 DEF Init
    <2>2. InitialFunds[u] \in Nat
        BY EscrowAssumption
    <2>. QED
        BY <2>1, <2>2
<1>. QED
    BY <1>1, <1>2, <1>4 DEF IInv, BooksInv

LEMMA IInvStep == IInv /\ [Next]_vars => IInv'
<1> SUFFICES ASSUME IInv, [Next]_vars PROVE IInv'
    OBVIOUS
<1>1. Inv'
    BY InvStep DEF IInv
<1>2. ASSUME NEW b \in Bots, NEW o \in Owners, NEW f \in BotFees,
             CreateOrUpdateTenant(b, o, f)
      PROVE  BooksInv'
    BY <1>2 DEF CreateOrUpdateTenant, IInv, BooksInv, BooksMatch, EntrySum, NoOverdraft
<1>3. ASSUME NEW e \in EscrowIds, DealStep(e)
      PROVE  BooksInv'
    BY <1>1, <1>3, BooksStep
<1>4. CASE UNCHANGED vars
    <2>1. ASSUME NEW e \in EscrowIds PROVE BooksMatch(e)'
        BY <1>4 DEF vars, IInv, BooksInv, BooksMatch, EntrySum
    <2>2. NoOverdraft'
        BY <1>4 DEF vars, IInv, BooksInv, NoOverdraft
    <2>. QED
        BY <1>1, <2>1, <2>2 DEF BooksInv, IInv
<1>. QED
    BY <1>1, <1>2, <1>3, <1>4 DEF Next, IInv

LEMMA MoneyInvariant == Spec => []IInv
BY InitIInv, IInvStep, PTL DEF Spec

\* The ledger rows of every deal take its amount while it is locked and add up
\* to nothing once it is settled, for every set of whole-cent amounts.
THEOREM BooksAlwaysBalance ==
    ASSUME ExactAmounts
    PROVE  Spec => []EscrowBooksBalance
<1>1. IInv => EscrowBooksBalance
    <2> SUFFICES ASSUME IInv, NEW e \in EscrowIds
                 PROVE  EntrySum(e) = IF lock[e].status = "locked" THEN -lock[e].amount ELSE 0
        BY DEF EscrowBooksBalance
    <2>1. BooksMatch(e) /\ lock[e] \in LockRow
        BY DEF IInv, Inv, TypeOK, BooksInv
    <2>2. lock[e].status = "none" => EntrySum(e) = 0
        BY <2>1 DEF BooksMatch, EntrySum, EntryType
    <2>3. lock[e].status = "locked" => EntrySum(e) = -lock[e].amount
        <3> SUFFICES ASSUME lock[e].status = "locked" PROVE EntrySum(e) = -lock[e].amount
            OBVIOUS
        <3>1. lock[e].amount \in Nat
            BY HeldDeal
        <3>. QED
            BY <2>1, <3>1 DEF BooksMatch, EntrySum, EntryType
    <2>4. lock[e].status = "released" => EntrySum(e) = 0
        BY <2>1 DEF BooksMatch, HandedWhole
    <2>. QED
        BY <2>1, <2>2, <2>3, <2>4 DEF LockRow
<1>. QED
    BY <1>1, MoneyInvariant, PTL

\* Whatever the amounts, the rows of a deal miss nothing while it is held, and at
\* most half a cent once it is settled.
THEOREM BooksNearlyBalance == Spec => []EscrowBooksNearlyBalance
<1>1. IInv => EscrowBooksNearlyBalance
    <2> SUFFICES ASSUME IInv, NEW e \in EscrowIds
                 PROVE  /\ lock[e].status = "locked" => EntrySum(e) = -lock[e].amount
                        /\ lock[e].status # "locked" => 2 * EntrySum(e) \in -Cent .. Cent
        BY DEF EscrowBooksNearlyBalance
    <2>1. BooksMatch(e) /\ lock[e] \in LockRow /\ Cent \in Nat
        BY FeesAssumption DEF IInv, Inv, TypeOK, BooksInv
    <2>2. lock[e].status = "none" => EntrySum(e) = 0
        BY <2>1 DEF BooksMatch, EntrySum, EntryType
    <2>3. lock[e].status = "locked" => EntrySum(e) = -lock[e].amount
        <3> SUFFICES ASSUME lock[e].status = "locked" PROVE EntrySum(e) = -lock[e].amount
            OBVIOUS
        <3>1. lock[e].amount \in Nat
            BY HeldDeal
        <3>. QED
            BY <2>1, <3>1 DEF BooksMatch, EntrySum, EntryType
    <2>4. EntrySum(e) \in Int
        <3>1. posted[e] \in [EntryType -> Int]
            BY DEF IInv, Inv, TypeOK
        <3>. QED
            BY <3>1 DEF EntrySum, EntryType
    <2>5. lock[e].status = "released" => 2 * EntrySum(e) \in -Cent .. Cent
        BY <2>1, <2>4 DEF BooksMatch, HandedWhole
    <2>. QED
        BY <2>1, <2>2, <2>3, <2>5 DEF LockRow
<1>. QED
    BY <1>1, MoneyInvariant, PTL

\* No user's balance is ever driven below zero by escrows, whatever the amounts.
THEOREM NobodyIsOverdrawn == Spec => []NoOverdraft
<1>1. IInv => NoOverdraft
    BY DEF IInv, BooksInv
<1>. QED
    BY <1>1, MoneyInvariant, PTL

-----------------------------------------------------------------------------
\* The escrow service implements Custody: every step takes one stake, hands one
\* stake out, or is invisible there.

\* The refinement mapping, under names of its own.
PhaseMap == [e \in EscrowIds |-> PhaseOf(e)]
StakeMap == [e \in EscrowIds |-> lock[e].amount]
PaidMap == [e \in EscrowIds |-> PaidOut(e)]

LEMMA PaidByRole ==
    ASSUME NEW e \in EscrowIds
    PROVE  /\ PaidOut(e) = [r \in Held!Role |-> PaidOut(e)[r]]
           /\ PaidOut(e)["buyer"] = posted[e]["ESCROW_UNLOCK"] + posted[e]["ADJUSTMENT"]
           /\ PaidOut(e)["seller"] = posted[e]["ESCROW_RELEASE"]
           /\ PaidOut(e)["platform"] = posted[e]["PLATFORM_FEE"]
           /\ PaidOut(e)["owner"] = posted[e]["BOT_FEE"]
BY DEF PaidOut, Held!Role

LEMMA InitIsCustodyInit == Init => Held!CustodyInit
<1> SUFFICES ASSUME Init PROVE Held!CustodyInit
    OBVIOUS
<1>1. ASSUME NEW e \in EscrowIds
      PROVE  PhaseOf(e) = "new" /\ lock[e].amount = 0 /\ PaidOut(e) = Held!NothingPaid
    <2>1. /\ lock[e].status = "none"
          /\ lock[e].amount = 0
          /\ \A t \in EntryType : posted[e][t] = 0
        BY DEF Init
    <2>2. PhaseOf(e) = "new"
        BY <2>1 DEF PhaseOf
    <2>3. PaidOut(e) = Held!NothingPaid
        BY <2>1 DEF PaidOut, Held!NothingPaid, Held!Role, EntryType
    <2>. QED
        BY <2>1, <2>2, <2>3
<1>. QED
    BY <1>1 DEF Held!CustodyInit

\* Away from the deal of the step nothing of the mapping moves.
LEMMA OtherDealsUnmoved ==
    ASSUME Inv, NEW e \in EscrowIds, DealStep(e), NEW d \in EscrowIds, d # e
    PROVE  PhaseOf(d)' = PhaseOf(d) /\ lock'[d].amount = lock[d].amount
           /\ PaidOut(d)' = PaidOut(d)
<1>1. lock'[d] = lock[d] /\ posted'[d] = posted[d]
    BY StepStaysInItsDeal
<1>. QED
    BY <1>1 DEF PhaseOf, PaidOut

LEMMA OpeningTakes ==
    ASSUME IInv, NEW e \in EscrowIds, DealStep(e), Opens(e)
    PROVE  Held!Take(e)
<1>1. PICK u \in Users, a \in Amounts :
         /\ lock' = [lock EXCEPT ![e] = [status |-> "locked", user |-> u, amount |-> a]]
         /\ posted' = [posted EXCEPT ![e]["ESCROW_LOCK"] = @ - a]
    BY DEF Opens
<1>2. /\ lock \in [EscrowIds -> LockRow]
      /\ posted \in [EscrowIds -> [EntryType -> Int]]
    BY DEF IInv, Inv, TypeOK
<1>3. lock'[e].status = "locked" /\ lock'[e].amount = a
    BY <1>1, <1>2
<1>4. PhaseOf(e) = "new" /\ PhaseOf(e)' = "held"
    BY <1>3 DEF Opens, PhaseOf
<1>5. a \in Nat \ {0}
    BY AmountsArePositive
<1>6. PaidOut(e)' = PaidOut(e)
    <2>1. \A t \in PayEntries : posted'[e][t] = posted[e][t]
        BY <1>1, <1>2 DEF PayEntries, EntryType
    <2>. QED
        BY <2>1 DEF PaidOut, PayEntries, EntryType
<1>7. /\ PhaseMap[e] = "new"
      /\ PhaseMap' = [PhaseMap EXCEPT ![e] = "held"]
    BY <1>4, OtherDealsUnmoved DEF PhaseMap, IInv
<1>8. StakeMap'[e] \in Nat \ {0} /\ StakeMap' = [StakeMap EXCEPT ![e] = StakeMap'[e]]
    BY <1>3, <1>5, OtherDealsUnmoved DEF StakeMap, IInv
<1>9. PaidMap' = PaidMap
    BY <1>6, OtherDealsUnmoved DEF PaidMap, IInv
<1>. QED
    BY <1>7, <1>8, <1>9 DEF Held!Take, PhaseMap, StakeMap, PaidMap

LEMMA SettlingHandsOut ==
    ASSUME IInv, ExactAmounts, NEW e \in EscrowIds, DealStep(e), HandsOut(e)
    PROVE  Held!HandOut(e)
<1>1. /\ lock \in [EscrowIds -> LockRow]
      /\ posted \in [EscrowIds -> [EntryType -> Int]]
    BY DEF IInv, Inv, TypeOK
<1>2. /\ lock[e].status = "locked"
      /\ lock' = [lock EXCEPT ![e].status = "released"]
      /\ \A t \in PayEntries : posted'[e][t] \in Nat
      /\ PaySum(posted'[e]) = lock[e].amount
    BY DEF HandsOut, HandedWhole
<1>3. lock'[e].status = "released" /\ lock'[e].amount = lock[e].amount
    BY <1>1, <1>2 DEF LockRow
<1>4. PhaseOf(e) = "held" /\ PhaseOf(e)' = "settled"
    BY <1>2, <1>3 DEF PhaseOf
<1>5. PaidOut(e)' \in [Held!Role -> Nat] /\ Held!Sum(PaidOut(e)') = lock[e].amount
    BY <1>2 DEF PaidOut, Held!Role, Held!Sum, PaySum, PayEntries, EntryType
<1>6. PhaseMap[e] = "held" /\ PhaseMap' = [PhaseMap EXCEPT ![e] = "settled"]
    BY <1>4, OtherDealsUnmoved DEF PhaseMap, IInv
<1>7. StakeMap' = StakeMap /\ StakeMap[e] = lock[e].amount
    BY <1>3, OtherDealsUnmoved DEF StakeMap, IInv
<1>8. /\ PaidMap'[e] \in [Held!Role -> Nat]
      /\ Held!Sum(PaidMap'[e]) = StakeMap[e]
      /\ PaidMap' = [PaidMap EXCEPT ![e] = PaidMap'[e]]
    BY <1>5, <1>7, OtherDealsUnmoved DEF PaidMap, IInv
<1>. QED
    BY <1>6, <1>7, <1>8 DEF Held!HandOut, PhaseMap, StakeMap, PaidMap

LEMMA StepIsCustodyStep ==
    ASSUME ExactAmounts
    PROVE  IInv /\ [Next]_vars =>
              [Held!CustodyNext]_<<PhaseMap, StakeMap, PaidMap>>
<1> SUFFICES ASSUME IInv, [Next]_vars
             PROVE  [Held!CustodyNext]_<<PhaseMap, StakeMap, PaidMap>>
    OBVIOUS
<1>1. ASSUME UNCHANGED <<lock, posted>>
      PROVE  UNCHANGED <<PhaseMap, StakeMap, PaidMap>>
    BY <1>1 DEF PhaseMap, StakeMap, PaidMap, PhaseOf, PaidOut
<1>2. ASSUME NEW b \in Bots, NEW o \in Owners, NEW f \in BotFees,
             CreateOrUpdateTenant(b, o, f)
      PROVE  UNCHANGED <<lock, posted>>
    BY <1>2 DEF CreateOrUpdateTenant
<1>3. ASSUME NEW e \in EscrowIds, DealStep(e)
      PROVE  Held!CustodyNext \/ UNCHANGED <<lock, posted>>
    BY <1>3, StepOnMoney, OpeningTakes, SettlingHandsOut DEF Held!CustodyNext
<1>4. CASE UNCHANGED vars
    BY <1>1, <1>4 DEF vars
<1>. QED
    BY <1>1, <1>2, <1>3, <1>4 DEF Next

\* Whatever users, moderators and tenants do, and in whatever order, a deal's
\* stake is taken once, held while the deal is open, and handed out once and
\* whole: for every set of whole-cent amounts, users, deals and fees.
THEOREM EscrowImplementsCustody ==
    ASSUME ExactAmounts
    PROVE  Spec => ImplementsCustody
<1>1. Init => Held!CustodyInit
    BY InitIsCustodyInit
<1>2. IInv /\ [Next]_vars => [Held!CustodyNext]_<<PhaseMap, StakeMap, PaidMap>>
    BY StepIsCustodyStep
<1>3. Spec => []IInv
    BY MoneyInvariant
<1>. QED
    BY <1>1, <1>2, <1>3, PTL
    DEF Spec, ImplementsCustody, Held!CustodySpec, PhaseMap, StakeMap, PaidMap

-----------------------------------------------------------------------------
(* Sums over a finite set.  SumFunction takes one element after another    *)
(* away, always the one CHOOSE names; two sums of functions that differ at *)
(* one element take the same path, so no law of reordering is needed.      *)

Pick(s) == CHOOSE x \in s : TRUE

SumStep(f, g, s) == IF s = {} THEN 0 ELSE f[Pick(s)] + g[s \ {Pick(s)}]

IsSum(f, S, g) == g = [s \in SUBSET S |-> SumStep(f, g, s)]

SumsOf(f, S) == CHOOSE g : IsSum(f, S, g)

LEMMA SumIsChosen ==
    ASSUME NEW f, NEW S, DOMAIN f = S
    PROVE  SumFunction(f) = SumsOf(f, S)[S]
BY SMT DEF SumFunction, SumFunctionOnSet, FoldFunctionOnSet, MapThenFoldSet, SumsOf,
           IsSum, SumStep, Pick

\* Any nonempty set of numbers has a least one.
LEMMA LeastNumber ==
    ASSUME NEW T \in SUBSET Nat, T # {}
    PROVE  \E n \in T : \A m \in T : n <= m
<1>. DEFINE Below == {ss \in Nat \X Nat : ss[1] < ss[2]}
<1>1. IsWellFoundedOn(Below, Nat)
    BY NatLessThanWellFounded, Zenon DEF OpToRel
<1>2. PICK n \in T : \A m \in T : ~(<<m, n>> \in Below)
    BY <1>1, WFMin
<1>3. ASSUME NEW m \in T PROVE n <= m
    <2>1. n \in Nat /\ m \in Nat /\ <<m, n>> \in Nat \X Nat
        OBVIOUS
    <2>2. ~(m < n)
        BY <1>2, <2>1
    <2>. QED
        BY <2>1, <2>2
<1>. QED
    BY <1>3

\* Taking the picked element away makes a set smaller.
LEMMA PickShrinks ==
    ASSUME NEW S, IsFiniteSet(S), NEW t \in SUBSET S, t # {}
    PROVE  /\ Pick(t) \in t
           /\ t \ {Pick(t)} \in SUBSET S
           /\ Cardinality(t) \in Nat
           /\ Cardinality(t \ {Pick(t)}) \in Nat
           /\ Cardinality(t \ {Pick(t)}) = Cardinality(t) - 1
<1>1. Pick(t) \in t
    BY DEF Pick
<1>2. IsFiniteSet(t) /\ IsFiniteSet(t \ {Pick(t)})
    BY FS_Subset, FS_RemoveElement
<1>3. Cardinality(t \ {Pick(t)}) = Cardinality(t) - 1
    BY <1>1, <1>2, FS_RemoveElement
<1>4. Cardinality(t) \in Nat /\ Cardinality(t \ {Pick(t)}) \in Nat
    BY <1>2, FS_CardinalityType
<1>. QED
    BY <1>1, <1>3, <1>4

\* What holds of the empty set, and of a set when it holds of the set without
\* its picked element, holds of every subset of a finite set.
LEMMA PickingInduction ==
    ASSUME NEW S, IsFiniteSet(S), NEW Good, {} \in Good,
           \A t \in SUBSET S : t # {} /\ t \ {Pick(t)} \in Good => t \in Good
    PROVE  SUBSET S \subseteq Good
<1> DEFINE Bad == {n \in Nat : \E t \in SUBSET S : t \notin Good /\ Cardinality(t) = n}
<1>1. SUFFICES ASSUME NEW u \in SUBSET S, u \notin Good PROVE FALSE
    OBVIOUS
<1>2. Cardinality(u) \in Bad
    <2>1. IsFiniteSet(u)
        BY FS_Subset
    <2>. QED
        BY <1>1, <2>1, FS_CardinalityType
<1>3. PICK n \in Bad : \A m \in Bad : n <= m
    <2>1. Bad \in SUBSET Nat /\ Bad # {}
        BY <1>2
    <2> HIDE DEF Bad
    <2>. QED
        BY <2>1, LeastNumber
<1>4. PICK t \in SUBSET S : t \notin Good /\ Cardinality(t) = n
    BY <1>3
<1>5. t # {}
    BY <1>4
<1>6. t \ {Pick(t)} \notin Good
    BY <1>4, <1>5
<1>7. /\ t \ {Pick(t)} \in SUBSET S
      /\ Cardinality(t \ {Pick(t)}) \in Nat
      /\ Cardinality(t \ {Pick(t)}) = n - 1
      /\ n \in Nat
    BY <1>4, <1>5, PickShrinks
<1>8. n - 1 \in Bad
    BY <1>6, <1>7
<1>. QED
    BY <1>3, <1>7, <1>8

\* The recursive equation of a sum has a solution.
LEMMA SumExists ==
    ASSUME NEW f, NEW S, IsFiniteSet(S)
    PROVE  IsSum(f, S, SumsOf(f, S))
<1> DEFINE Small(n) == {s \in SUBSET S : Cardinality(s) <= n}
           Upto(n) == \E g : g = [s \in Small(n) |-> SumStep(f, g, s)]
           Missing == {n \in Nat : ~Upto(n)}
<1>1. Upto(0)
    <2> DEFINE g == [s \in Small(0) |-> 0]
    <2>1. ASSUME NEW s \in Small(0) PROVE s = {}
        <3>1. IsFiniteSet(s) /\ Cardinality(s) \in Nat
            BY FS_Subset, FS_CardinalityType
        <3>2. Cardinality(s) = 0
            BY <3>1
        <3>. QED
            BY <3>1, <3>2, FS_EmptySet
    <2>2. \A s \in Small(0) : SumStep(f, g, s) = 0
        BY <2>1 DEF SumStep
    <2>3. g = [s \in Small(0) |-> SumStep(f, g, s)]
        BY <2>2
    <2>. QED
        BY <2>3
<1>2. ASSUME NEW n \in Nat, Upto(n) PROVE Upto(n + 1)
    <2>1. PICK g : g = [s \in Small(n) |-> SumStep(f, g, s)]
        BY <1>2
    <2> DEFINE h == [s \in Small(n + 1) |-> SumStep(f, g, s)]
    <2>2. ASSUME NEW s \in Small(n) PROVE s \in Small(n + 1) /\ h[s] = g[s]
        <3>1. s \in Small(n + 1)
            <4>1. Cardinality(s) \in Nat
                BY FS_Subset, FS_CardinalityType
            <4>. QED
                BY <4>1
        <3>. QED
            BY <2>1, <3>1
    <2>3. ASSUME NEW s \in Small(n + 1) PROVE SumStep(f, h, s) = SumStep(f, g, s)
        <3>1. CASE s = {}
            BY <3>1 DEF SumStep
        <3>2. CASE s # {}
            <4>1. s \ {Pick(s)} \in Small(n)
                BY <3>2, PickShrinks
            <4>2. h[s \ {Pick(s)}] = g[s \ {Pick(s)}]
                BY <2>2, <4>1
            <4> HIDE DEF h
            <4>. QED
                BY <4>2 DEF SumStep
        <3>. QED
            BY <3>1, <3>2
    <2>4. h = [s \in Small(n + 1) |-> SumStep(f, h, s)]
        <3> HIDE DEF Small
        <3>1. \A s \in Small(n + 1) : SumStep(f, h, s) = SumStep(f, g, s)
            BY <2>3
        <3>. QED
            BY <3>1
    <2>. QED
        BY <2>4
<1>3. Missing = {}
    <2>1. SUFFICES ASSUME Missing # {} PROVE FALSE
        OBVIOUS
    <2>2. PICK n \in Missing : \A m \in Missing : n <= m
        <3>1. Missing \in SUBSET Nat
            OBVIOUS
        <3> HIDE DEF Missing
        <3>. QED
            BY <2>1, <3>1, LeastNumber
    <2> HIDE DEF Upto
    <2>3. n \in Nat /\ n # 0
        BY <1>1, <2>2
    <2>4. n - 1 \in Nat /\ (n - 1) + 1 = n
        BY <2>3
    <2>5. ~Upto(n - 1)
        BY <1>2, <2>2, <2>4
    <2>. QED
        BY <2>2, <2>4, <2>5
<1>4. Cardinality(S) \in Nat
    BY FS_CardinalityType
<1>5. Upto(Cardinality(S))
    BY <1>3, <1>4
<1>6. Small(Cardinality(S)) = SUBSET S
    BY FS_Subset
<1>7. \E g : IsSum(f, S, g)
    BY <1>5, <1>6 DEF IsSum
<1>. QED
    BY <1>7 DEF SumsOf

\* The sum of every subset, by the element picked from it.
LEMMA SumUnfolds ==
    ASSUME NEW f, NEW S, IsFiniteSet(S), NEW t \in SUBSET S
    PROVE  SumsOf(f, S)[t] = IF t = {} THEN 0
                             ELSE f[Pick(t)] + SumsOf(f, S)[t \ {Pick(t)}]
<1> DEFINE g == SumsOf(f, S)
<1>0. IsSum(f, S, g)
    BY SumExists
<1> HIDE DEF g
<1>1. g = [s \in SUBSET S |-> SumStep(f, g, s)]
    BY <1>0 DEF IsSum
<1>2. g[t] = SumStep(f, g, t)
    BY <1>1
<1>. QED
    BY <1>2 DEF SumStep, g

LEMMA SumsAreIntegers ==
    ASSUME NEW S, IsFiniteSet(S), NEW f \in [S -> Int]
    PROVE  \A t \in SUBSET S : SumsOf(f, S)[t] \in Int
<1> DEFINE Good == {t \in SUBSET S : SumsOf(f, S)[t] \in Int}
<1>1. {} \in Good
    BY SumUnfolds
<1>2. ASSUME NEW t \in SUBSET S, t # {}, t \ {Pick(t)} \in Good PROVE t \in Good
    <2>1. Pick(t) \in S
        BY <1>2, PickShrinks
    <2>2. SumsOf(f, S)[t] = f[Pick(t)] + SumsOf(f, S)[t \ {Pick(t)}]
        BY <1>2, SumUnfolds
    <2>. QED
        BY <1>2, <2>1, <2>2
<1>3. SUBSET S \subseteq Good
    <2> HIDE DEF Good
    <2>. QED
        BY <1>1, <1>2, PickingInduction
<1>. QED
    BY <1>3

LEMMA SumIsInteger ==
    ASSUME NEW S, IsFiniteSet(S), NEW f \in [S -> Int]
    PROVE  SumFunction(f) \in Int
BY SumIsChosen, SumsAreIntegers

\* A sum of zeros.
LEMMA SumOfZeros ==
    ASSUME NEW S, IsFiniteSet(S), NEW f \in [S -> Int], \A s \in S : f[s] = 0
    PROVE  SumFunction(f) = 0
<1> DEFINE Good == {t \in SUBSET S : SumsOf(f, S)[t] = 0}
<1>1. {} \in Good
    BY SumUnfolds
<1>2. ASSUME NEW t \in SUBSET S, t # {}, t \ {Pick(t)} \in Good PROVE t \in Good
    <2>1. Pick(t) \in S
        BY <1>2, PickShrinks
    <2>2. SumsOf(f, S)[t] = f[Pick(t)] + SumsOf(f, S)[t \ {Pick(t)}]
        BY <1>2, SumUnfolds
    <2>. QED
        BY <1>2, <2>1, <2>2
<1>3. SUBSET S \subseteq Good
    <2> HIDE DEF Good
    <2>. QED
        BY <1>1, <1>2, PickingInduction
<1>. QED
    BY <1>3, SumIsChosen

\* Changing one term changes the sum by as much.
LEMMA SumChanges ==
    ASSUME NEW S, IsFiniteSet(S), NEW f \in [S -> Int], NEW g \in [S -> Int],
           NEW x \in S, \A s \in S \ {x} : g[s] = f[s]
    PROVE  SumFunction(g) = SumFunction(f) + (g[x] - f[x])
<1> DEFINE d == g[x] - f[x]
           Good == {t \in SUBSET S : SumsOf(g, S)[t]
                                       = SumsOf(f, S)[t] + (IF x \in t THEN d ELSE 0)}
<1>0. d \in Int /\ g[x] = f[x] + d
    OBVIOUS
<1> HIDE DEF d
<1>1. {} \in Good
    <2>1. SumsOf(f, S)[{}] = 0 /\ SumsOf(g, S)[{}] = 0
        BY SumUnfolds
    <2>. QED
        BY <2>1
<1>2. ASSUME NEW t \in SUBSET S, t # {}, t \ {Pick(t)} \in Good PROVE t \in Good
    <2> DEFINE p == Pick(t)
               r == t \ {Pick(t)}
    <2>1. p \in t /\ p \in S /\ r \in SUBSET S
        BY <1>2, PickShrinks
    <2>2. /\ SumsOf(f, S)[t] = f[p] + SumsOf(f, S)[r]
          /\ SumsOf(g, S)[t] = g[p] + SumsOf(g, S)[r]
        BY <1>2, SumUnfolds
    <2>3. /\ SumsOf(f, S)[r] \in Int
          /\ SumsOf(g, S)[r] \in Int
          /\ f[p] \in Int
          /\ g[p] \in Int
        BY <2>1, SumsAreIntegers
    <2>4. SumsOf(g, S)[r] = SumsOf(f, S)[r] + (IF x \in r THEN d ELSE 0)
        BY <1>2
    <2>5. x \in r <=> x \in t /\ x # p
        OBVIOUS
    <2>6. p # x => g[p] = f[p]
        BY <2>1
    <2>7. SumsOf(g, S)[t] = SumsOf(f, S)[t] + (IF x \in t THEN d ELSE 0)
        <3> HIDE DEF p, r
        <3>1. CASE p = x
            BY <1>0, <2>1, <2>2, <2>3, <2>4, <2>5, <3>1
        <3>2. CASE p # x
            BY <1>0, <2>1, <2>2, <2>3, <2>4, <2>5, <2>6, <3>2
        <3>. QED
            BY <3>1, <3>2
    <2>. QED
        BY <2>7
<1>3. SUBSET S \subseteq Good
    <2> HIDE DEF Good
    <2>. QED
        BY <1>1, <1>2, PickingInduction
<1>4. SumsOf(g, S)[S] = SumsOf(f, S)[S] + d
    BY <1>3
<1>. QED
    BY <1>4, SumIsChosen DEF d

-----------------------------------------------------------------------------
(* Every entry reaches its party.  This needs no ExactAmounts: what is     *)
(* posted on a deal and what its parties' accounts move by are the same    *)
(* figures, rounded or not.                                                *)

\* A deal that is not there yet has no ledger rows.
Unposted(e) == escrow[e].status = "none" => \A t \in EntryType : posted[e][t] = 0

PartiesInv ==
    /\ Inv
    /\ \A e \in EscrowIds : Unposted(e)
    /\ EntriesReachTheirParties

\* The accounts move by what the step posts on the deal.
Moves(e) ==
    /\ \A u \in Users : net'[User(u)] - net[User(u)] = Owed(e, u)' - Owed(e, u)
    /\ net'[Platform] - net[Platform]
          = posted'[e]["PLATFORM_FEE"] - posted[e]["PLATFORM_FEE"]
    /\ \E o \in Users :
          /\ net'[BotOwner(o)] - net[BotOwner(o)]
                = posted'[e]["BOT_FEE"] - posted[e]["BOT_FEE"]
          /\ \A u \in Users \ {o} : net'[BotOwner(u)] = net[BotOwner(u)]

SumsTyped ==
    /\ \A e \in EscrowIds, u \in Users : Owed(e, u) \in Int
    /\ \A u \in Users : OwedTo(u) \in [EscrowIds -> Int]
    /\ \A t \in EntryType : PostedAs(t) \in [EscrowIds -> Int]
    /\ OwnerRevenue \in [Users -> Int]

LEMMA SumsAreTyped == TypeOK => SumsTyped
<1> SUFFICES ASSUME TypeOK PROVE SumsTyped
    OBVIOUS
<1>1. ASSUME NEW e \in EscrowIds, NEW u \in Users PROVE Owed(e, u) \in Int
    <2>1. posted[e] \in [EntryType -> Int]
        BY DEF TypeOK
    <2>. QED
        BY <2>1 DEF Owed, EntryType
<1>2. \A u \in Users : OwedTo(u) \in [EscrowIds -> Int]
    BY <1>1 DEF OwedTo
<1>3. \A t \in EntryType : PostedAs(t) \in [EscrowIds -> Int]
    BY DEF PostedAs, TypeOK
<1>4. OwnerRevenue \in [Users -> Int]
    BY Accounts DEF OwnerRevenue, TypeOK
<1>. QED
    BY <1>1, <1>2, <1>3, <1>4 DEF SumsTyped

LEMMA SumsStayTyped == TypeOK' => SumsTyped'
BY SumsAreTyped, PTL

LEMMA MovesKeepParties ==
    ASSUME PartiesInv, Inv', NEW e \in EscrowIds, DealStep(e), Moves(e)
    PROVE  EntriesReachTheirParties'
<1>1. TypeOK /\ TypeOK' /\ SumsTyped /\ SumsTyped'
    BY SumsAreTyped, SumsStayTyped DEF PartiesInv, Inv
<1>2. /\ net \in [Account -> Int]
      /\ net' \in [Account -> Int]
      /\ posted \in [EscrowIds -> [EntryType -> Int]]
      /\ posted' \in [EscrowIds -> [EntryType -> Int]]
    BY <1>1 DEF TypeOK
<1>3. \A d \in EscrowIds \ {e} : escrow'[d] = escrow[d] /\ posted'[d] = posted[d]
    BY StepStaysInItsDeal DEF PartiesInv
<1>4. IsFiniteSet(EscrowIds) /\ IsFiniteSet(Users)
    BY TablesAreFinite
<1>5. ASSUME NEW u \in Users
      PROVE  net'[User(u)] = InitialFunds[u] + SumFunction(OwedTo(u)')
    <2>1. OwedTo(u) \in [EscrowIds -> Int] /\ OwedTo(u)' \in [EscrowIds -> Int]
        BY <1>1 DEF SumsTyped
    <2>2. \A d \in EscrowIds \ {e} : OwedTo(u)'[d] = OwedTo(u)[d]
        BY <1>3 DEF OwedTo, Owed
    <2>3. SumFunction(OwedTo(u)')
             = SumFunction(OwedTo(u)) + (OwedTo(u)'[e] - OwedTo(u)[e])
        BY <1>4, <2>1, <2>2, SumChanges
    <2>4. OwedTo(u)'[e] = Owed(e, u)' /\ OwedTo(u)[e] = Owed(e, u)
        BY DEF OwedTo
    <2>5. net[User(u)] = InitialFunds[u] + SumFunction(OwedTo(u))
        BY DEF PartiesInv, EntriesReachTheirParties
    <2>6. SumFunction(OwedTo(u)) \in Int
        BY <1>4, <2>1, SumIsInteger
    <2>7. net'[User(u)] - net[User(u)] = Owed(e, u)' - Owed(e, u)
        BY DEF Moves
    <2>8. /\ Owed(e, u) \in Int
          /\ Owed(e, u)' \in Int
          /\ net[User(u)] \in Int
          /\ net'[User(u)] \in Int
          /\ InitialFunds[u] \in Int
        BY <1>1, <1>2, Accounts, EscrowAssumption DEF SumsTyped
    <2>. QED
        BY <2>3, <2>4, <2>5, <2>6, <2>7, <2>8
<1>6. ASSUME NEW t \in EntryType
      PROVE  /\ SumFunction(PostedAs(t)')
                   = SumFunction(PostedAs(t)) + (posted'[e][t] - posted[e][t])
             /\ SumFunction(PostedAs(t)) \in Int
             /\ posted[e][t] \in Int
             /\ posted'[e][t] \in Int
    <2>1. PostedAs(t) \in [EscrowIds -> Int] /\ PostedAs(t)' \in [EscrowIds -> Int]
        BY <1>1 DEF SumsTyped
    <2>2. \A d \in EscrowIds \ {e} : PostedAs(t)'[d] = PostedAs(t)[d]
        BY <1>3 DEF PostedAs
    <2>3. PostedAs(t)'[e] = posted'[e][t] /\ PostedAs(t)[e] = posted[e][t]
        BY DEF PostedAs
    <2>4. SumFunction(PostedAs(t)')
             = SumFunction(PostedAs(t)) + (PostedAs(t)'[e] - PostedAs(t)[e])
        BY <1>4, <2>1, <2>2, SumChanges
    <2>. QED
        BY <1>2, <1>4, <2>1, <2>3, <2>4, SumIsInteger
<1>7. net'[Platform] = SumFunction(PostedAs("PLATFORM_FEE")')
    <2>1. net[Platform] = SumFunction(PostedAs("PLATFORM_FEE"))
        BY DEF PartiesInv, EntriesReachTheirParties
    <2>2. net[Platform] \in Int /\ net'[Platform] \in Int
        BY <1>2, Accounts
    <2>3. net'[Platform] - net[Platform]
             = posted'[e]["PLATFORM_FEE"] - posted[e]["PLATFORM_FEE"]
        BY DEF Moves
    <2>4. "PLATFORM_FEE" \in EntryType
        BY DEF EntryType
    <2>. QED
        BY <1>6, <2>1, <2>2, <2>3, <2>4
<1>8. SumFunction(OwnerRevenue') = SumFunction(PostedAs("BOT_FEE")')
    <2>1. PICK o \in Users :
             /\ net'[BotOwner(o)] - net[BotOwner(o)]
                   = posted'[e]["BOT_FEE"] - posted[e]["BOT_FEE"]
             /\ \A u \in Users \ {o} : net'[BotOwner(u)] = net[BotOwner(u)]
        BY DEF Moves
    <2>2. OwnerRevenue \in [Users -> Int] /\ OwnerRevenue' \in [Users -> Int]
        BY <1>1 DEF SumsTyped
    <2>3. /\ \A u \in Users : OwnerRevenue[u] = net[BotOwner(u)]
          /\ \A u \in Users : OwnerRevenue'[u] = net'[BotOwner(u)]
        BY DEF OwnerRevenue, BotOwner
    <2>4. \A u \in Users \ {o} : OwnerRevenue'[u] = OwnerRevenue[u]
        BY <2>1, <2>3
    <2>5. SumFunction(OwnerRevenue')
             = SumFunction(OwnerRevenue) + (OwnerRevenue'[o] - OwnerRevenue[o])
        BY <1>4, <2>2, <2>4, SumChanges
    <2>6. SumFunction(OwnerRevenue) = SumFunction(PostedAs("BOT_FEE"))
        BY DEF PartiesInv, EntriesReachTheirParties
    <2>7. OwnerRevenue'[o] - OwnerRevenue[o] = posted'[e]["BOT_FEE"] - posted[e]["BOT_FEE"]
        BY <2>1, <2>3
    <2>8. "BOT_FEE" \in EntryType
        BY DEF EntryType
    <2>. QED
        BY <1>6, <2>5, <2>6, <2>7, <2>8
<1>. QED
    BY <1>5, <1>7, <1>8 DEF EntriesReachTheirParties

-----------------------------------------------------------------------------

LEMMA AccountsDiffer ==
    /\ \A u, v \in Users : User(u) = User(v) => u = v
    /\ \A u, v \in Users : BotOwner(u) = BotOwner(v) => u = v
    /\ \A u, v \in Users : User(u) # BotOwner(v)
    /\ \A u \in Users : User(u) # Platform /\ BotOwner(u) # Platform
BY DEF User, BotOwner, Platform

LEMMA CreateMoves ==
    ASSUME PartiesInv, NEW e \in EscrowIds, NEW b \in Bots, NEW buyer \in Users,
           NEW seller \in Users, NEW a \in Amounts, CreateEscrow(e, b, buyer, seller, a)
    PROVE  Moves(e)
<1>1. /\ escrow[e].status = "none"
      /\ buyer # seller
      /\ escrow' = [escrow EXCEPT ![e] = [status |-> "pending", bot |-> b, buyer |-> buyer,
                                          seller |-> seller, amount |-> a]]
      /\ posted' = [posted EXCEPT ![e]["ESCROW_LOCK"] = @ - a]
      /\ net' = [net EXCEPT ![User(buyer)] = @ - a]
    BY DEF CreateEscrow, LockForEscrow
<1>2. /\ escrow \in [EscrowIds -> EscrowRow]
      /\ posted \in [EscrowIds -> [EntryType -> Int]]
      /\ net \in [Account -> Int]
    BY DEF PartiesInv, Inv, TypeOK
<1>3. a \in Int
    BY AmountsArePositive
<1>4. \A t \in EntryType : posted[e][t] = 0
    BY <1>1 DEF PartiesInv, Unposted
<1>5. /\ posted'[e]["ESCROW_LOCK"] = -a
      /\ \A t \in EntryType \ {"ESCROW_LOCK"} : posted'[e][t] = 0
    BY <1>1, <1>2, <1>3, <1>4 DEF EntryType
<1>6. escrow'[e].buyer = buyer /\ escrow'[e].seller = seller
    BY <1>1, <1>2
<1>7. ASSUME NEW u \in Users
      PROVE  net'[User(u)] - net[User(u)] = Owed(e, u)' - Owed(e, u)
    <2>1. Owed(e, u) = 0
        BY <1>4 DEF Owed, EntryType
    <2>2. Owed(e, u)' = IF u = buyer THEN -a ELSE 0
        BY <1>1, <1>3, <1>5, <1>6 DEF Owed, EntryType
    <2>3. net'[User(u)] = IF u = buyer THEN net[User(u)] - a ELSE net[User(u)]
        BY <1>1, <1>2, Accounts, AccountsDiffer
    <2>4. net[User(u)] \in Int
        BY <1>2, Accounts
    <2>. QED
        BY <1>3, <2>1, <2>2, <2>3, <2>4
<1>8. /\ net'[Platform] = net[Platform]
      /\ \A u \in Users : net'[BotOwner(u)] = net[BotOwner(u)]
    BY <1>1, <1>2, Accounts, AccountsDiffer
<1>9. posted'[e]["PLATFORM_FEE"] = posted[e]["PLATFORM_FEE"]
      /\ posted'[e]["BOT_FEE"] = posted[e]["BOT_FEE"]
    BY <1>4, <1>5 DEF EntryType
<1>10. \A k \in Account : net[k] \in Int
    BY <1>2
<1>11. \A t \in EntryType : posted[e][t] \in Int
    BY <1>2
<1>12. net'[Platform] - net[Platform]
          = posted'[e]["PLATFORM_FEE"] - posted[e]["PLATFORM_FEE"]
    BY <1>8, <1>9, <1>10, <1>11, Accounts DEF EntryType
<1>13. net'[BotOwner(buyer)] - net[BotOwner(buyer)]
          = posted'[e]["BOT_FEE"] - posted[e]["BOT_FEE"]
    BY <1>8, <1>9, <1>10, <1>11, Accounts DEF EntryType
<1>. QED
    BY <1>7, <1>8, <1>12, <1>13 DEF Moves

\* A release and a split, seen at once: the seller's and the buyer's share and
\* the two fees, each on its row and on its account.
LEMMA PayoutMoves ==
    ASSUME Inv, NEW e \in EscrowIds, NEW o \in Users, escrow[e].status # "none",
           escrow'[e].buyer = escrow[e].buyer, escrow'[e].seller = escrow[e].seller,
           NEW pay \in Int, NEW rest \in Int, NEW pf \in Int, NEW bf \in Int,
           posted'[e]["ESCROW_LOCK"] = posted[e]["ESCROW_LOCK"],
           posted'[e]["ESCROW_UNLOCK"] = posted[e]["ESCROW_UNLOCK"],
           posted'[e]["ESCROW_RELEASE"] = posted[e]["ESCROW_RELEASE"] + pay,
           posted'[e]["ADJUSTMENT"] = posted[e]["ADJUSTMENT"] + rest,
           posted'[e]["PLATFORM_FEE"] = posted[e]["PLATFORM_FEE"] + pf,
           posted'[e]["BOT_FEE"] = posted[e]["BOT_FEE"] + bf,
           \A u \in Users :
              net'[User(u)] = net[User(u)] + (IF u = escrow[e].seller THEN pay ELSE 0)
                                           + (IF u = escrow[e].buyer THEN rest ELSE 0),
           net'[Platform] = net[Platform] + pf,
           net'[BotOwner(o)] = net[BotOwner(o)] + bf,
           \A u \in Users \ {o} : net'[BotOwner(u)] = net[BotOwner(u)]
    PROVE  Moves(e)
<1> DEFINE b == escrow[e].buyer
           s == escrow[e].seller
<1>1. b \in Users /\ s \in Users /\ b # s
    BY DEF Inv, DealsInv, DealIsWhole
<1>2. /\ posted \in [EscrowIds -> [EntryType -> Int]]
      /\ net \in [Account -> Int]
    BY DEF Inv, TypeOK
<1>3. posted[e] \in [EntryType -> Int]
    BY <1>2
<1>4. /\ posted'[e]["ESCROW_LOCK"] = posted[e]["ESCROW_LOCK"]
      /\ posted'[e]["ESCROW_UNLOCK"] = posted[e]["ESCROW_UNLOCK"]
      /\ posted'[e]["ESCROW_RELEASE"] = posted[e]["ESCROW_RELEASE"] + pay
      /\ posted'[e]["ADJUSTMENT"] = posted[e]["ADJUSTMENT"] + rest
      /\ posted'[e]["PLATFORM_FEE"] = posted[e]["PLATFORM_FEE"] + pf
      /\ posted'[e]["BOT_FEE"] = posted[e]["BOT_FEE"] + bf
      /\ \A t \in EntryType : posted[e][t] \in Int
    BY <1>3 DEF EntryType
<1>5. ASSUME NEW u \in Users
      PROVE  net'[User(u)] - net[User(u)] = Owed(e, u)' - Owed(e, u)
    <2>1. net'[User(u)] = net[User(u)] + (IF u = s THEN pay ELSE 0)
                                       + (IF u = b THEN rest ELSE 0)
        OBVIOUS
    <2>2. net[User(u)] \in Int
        BY <1>2, Accounts
    <2>3. /\ u = b => Owed(e, u)' = Owed(e, u) + rest
          /\ u = s => Owed(e, u)' = Owed(e, u) + pay
          /\ u # b /\ u # s => Owed(e, u)' = Owed(e, u)
        <3> DEFINE x == posted[e]["ESCROW_LOCK"]
                   y == posted[e]["ESCROW_UNLOCK"]
                   z == posted[e]["ADJUSTMENT"]
                   w == posted[e]["ESCROW_RELEASE"]
        <3>1. x \in Int /\ y \in Int /\ z \in Int /\ w \in Int
            BY <1>4 DEF EntryType
        <3>2. Owed(e, u) = (IF b = u THEN x + y + z ELSE 0) + (IF s = u THEN w ELSE 0)
            BY DEF Owed
        <3>3. Owed(e, u)' = (IF b = u THEN x + y + (z + rest) ELSE 0)
                            + (IF s = u THEN w + pay ELSE 0)
            BY <1>4 DEF Owed
        <3> HIDE DEF x, y, z, w, b, s
        <3>. QED
            BY <1>1, <3>1, <3>2, <3>3
    <2>4. Owed(e, u) \in Int
        BY SumsAreTyped DEF SumsTyped, Inv
    <2> HIDE DEF b, s
    <2>. QED
        BY <1>1, <2>1, <2>2, <2>3, <2>4
<1>6. /\ net'[Platform] = net[Platform] + pf
      /\ net'[BotOwner(o)] = net[BotOwner(o)] + bf
      /\ \A u \in Users \ {o} : net'[BotOwner(u)] = net[BotOwner(u)]
    OBVIOUS
<1>7. /\ net[Platform] \in Int
      /\ net[BotOwner(o)] \in Int
      /\ posted[e]["PLATFORM_FEE"] \in Int
      /\ posted[e]["BOT_FEE"] \in Int
    BY <1>2, <1>4, Accounts DEF EntryType
<1>8. /\ net'[Platform] - net[Platform]
            = posted'[e]["PLATFORM_FEE"] - posted[e]["PLATFORM_FEE"]
      /\ net'[BotOwner(o)] - net[BotOwner(o)]
            = posted'[e]["BOT_FEE"] - posted[e]["BOT_FEE"]
    BY <1>4, <1>6, <1>7
<1>. QED
    BY <1>5, <1>6, <1>8 DEF Moves

LEMMA ReleaseMoves ==
    ASSUME Inv, NEW e \in EscrowIds, NEW o \in Owners, NEW f \in BotFees,
           escrow[e].status # "none",
           escrow'[e].buyer = escrow[e].buyer, escrow'[e].seller = escrow[e].seller,
           ReleaseEscrow(e, escrow[e].seller, o, escrow[e].amount, f)
    PROVE  Moves(e)
<1> DEFINE pay == SellerPayout(escrow[e].amount, f)
           pf == PlatformFee(escrow[e].amount)
           bf == BotFee(escrow[e].amount, f)
           rest == 0
<1>1. /\ posted' = [posted EXCEPT ![e]["ESCROW_RELEASE"] = @ + pay,
                                  ![e]["PLATFORM_FEE"] = @ + pf,
                                  ![e]["BOT_FEE"] = @ + bf]
      /\ net' = [net EXCEPT ![User(escrow[e].seller)] = @ + pay, ![Platform] = @ + pf,
                            ![BotOwner(o)] = @ + bf]
    BY DEF ReleaseEscrow
<1>2. escrow[e].amount \in Int /\ f \in Int
    <2>1. escrow[e].amount \in Amounts
        BY DEF Inv, DealsInv, DealIsWhole
    <2>. QED
        BY <2>1, AmountsArePositive, FeesAreNumbers
<1>3. pay \in Int /\ pf \in Int /\ bf \in Int /\ rest \in Int
    <2> DEFINE a == escrow[e].amount
    <2>1. a \in Int
        BY <1>2
    <2> HIDE DEF a
    <2>2. SellerPayout(a, f) \in Int /\ PlatformFee(a) \in Int /\ BotFee(a, f) \in Int
        BY <1>2, <2>1, FeesAreIntegers
    <2>. QED
        BY <2>2 DEF a
<1> HIDE DEF pay, pf, bf
<1>4. /\ posted \in [EscrowIds -> [EntryType -> Int]]
      /\ net \in [Account -> Int]
      /\ escrow[e].buyer \in Users
      /\ escrow[e].seller \in Users
      /\ o \in Users
    BY OwnersAreUsers DEF Inv, TypeOK, DealsInv, DealIsWhole
<1>5. /\ posted'[e]["ESCROW_LOCK"] = posted[e]["ESCROW_LOCK"]
      /\ posted'[e]["ESCROW_UNLOCK"] = posted[e]["ESCROW_UNLOCK"]
      /\ posted'[e]["ESCROW_RELEASE"] = posted[e]["ESCROW_RELEASE"] + pay
      /\ posted'[e]["ADJUSTMENT"] = posted[e]["ADJUSTMENT"] + rest
      /\ posted'[e]["PLATFORM_FEE"] = posted[e]["PLATFORM_FEE"] + pf
      /\ posted'[e]["BOT_FEE"] = posted[e]["BOT_FEE"] + bf
    BY <1>1, <1>3, <1>4 DEF EntryType
<1>6. ASSUME NEW u \in Users
      PROVE  net'[User(u)] = net[User(u)] + (IF u = escrow[e].seller THEN pay ELSE 0)
                                          + (IF u = escrow[e].buyer THEN rest ELSE 0)
    <2>1. net[User(u)] \in Int
        BY <1>4, Accounts
    <2>2. net'[User(u)] = IF u = escrow[e].seller THEN net[User(u)] + pay ELSE net[User(u)]
        BY <1>1, <1>3, <1>4, Accounts, AccountsDiffer
    <2>. QED
        BY <1>3, <2>1, <2>2
<1>7. /\ net'[Platform] = net[Platform] + pf
      /\ net'[BotOwner(o)] = net[BotOwner(o)] + bf
      /\ \A u \in Users \ {o} : net'[BotOwner(u)] = net[BotOwner(u)]
    BY <1>1, <1>3, <1>4, Accounts, AccountsDiffer
<1>8. o \in Users
    BY <1>4
<1> HIDE DEF rest
<1>. QED
    BY <1>3, <1>5, <1>6, <1>7, <1>8, PayoutMoves

LEMMA CancelMoves ==
    ASSUME Inv, NEW e \in EscrowIds, escrow[e].status # "none",
           escrow'[e].buyer = escrow[e].buyer, escrow'[e].seller = escrow[e].seller,
           CancelEscrowLock(e)
    PROVE  Moves(e)
<1> DEFINE b == escrow[e].buyer
           s == escrow[e].seller
           a == lock[e].amount
<1>1. b \in Users /\ s \in Users /\ b # s /\ a \in Int /\ lock[e].user = b
    BY AmountsArePositive DEF Inv, DealsInv, DealIsWhole, LockMatches
<1>2. /\ posted \in [EscrowIds -> [EntryType -> Int]]
      /\ net \in [Account -> Int]
    BY DEF Inv, TypeOK
<1>3. /\ posted' = [posted EXCEPT ![e]["ESCROW_UNLOCK"] = @ + a]
      /\ net' = [net EXCEPT ![User(b)] = @ + a]
    BY <1>1 DEF CancelEscrowLock
<1> HIDE DEF a
<1>4. /\ posted'[e]["ESCROW_UNLOCK"] = posted[e]["ESCROW_UNLOCK"] + a
      /\ \A t \in EntryType \ {"ESCROW_UNLOCK"} : posted'[e][t] = posted[e][t]
      /\ \A t \in EntryType : posted[e][t] \in Int
    BY <1>2, <1>3 DEF EntryType
<1>5. ASSUME NEW u \in Users
      PROVE  net'[User(u)] - net[User(u)] = Owed(e, u)' - Owed(e, u)
    <2>1. net'[User(u)] = net[User(u)] + (IF u = b THEN a ELSE 0)
        BY <1>1, <1>2, <1>3, Accounts, AccountsDiffer
    <2>2. net[User(u)] \in Int
        BY <1>2, Accounts
    <2>3. /\ u = b => Owed(e, u)' = Owed(e, u) + a
          /\ u # b => Owed(e, u)' = Owed(e, u)
        BY <1>1, <1>4 DEF Owed, EntryType
    <2>4. Owed(e, u) \in Int
        BY SumsAreTyped DEF SumsTyped, Inv
    <2> HIDE DEF b, s
    <2>. QED
        BY <1>1, <2>1, <2>2, <2>3, <2>4
<1>6. /\ net'[Platform] = net[Platform]
      /\ \A u \in Users : net'[BotOwner(u)] = net[BotOwner(u)]
    BY <1>1, <1>2, <1>3, Accounts, AccountsDiffer
<1>7. /\ net[Platform] \in Int
      /\ \A u \in Users : net[BotOwner(u)] \in Int
      /\ posted'[e]["PLATFORM_FEE"] = posted[e]["PLATFORM_FEE"]
      /\ posted'[e]["BOT_FEE"] = posted[e]["BOT_FEE"]
      /\ posted[e]["PLATFORM_FEE"] \in Int
      /\ posted[e]["BOT_FEE"] \in Int
    BY <1>2, <1>4, Accounts DEF EntryType
<1>8. /\ net'[Platform] - net[Platform]
            = posted'[e]["PLATFORM_FEE"] - posted[e]["PLATFORM_FEE"]
      /\ net'[BotOwner(b)] - net[BotOwner(b)]
            = posted'[e]["BOT_FEE"] - posted[e]["BOT_FEE"]
    BY <1>1, <1>6, <1>7
<1>. QED
    BY <1>1, <1>5, <1>6, <1>8 DEF Moves

LEMMA SplitMoves ==
    ASSUME Inv, NEW e \in EscrowIds, NEW o \in Owners, NEW f \in BotFees,
           NEW p \in SplitPercents, escrow[e].status # "none",
           escrow'[e].buyer = escrow[e].buyer, escrow'[e].seller = escrow[e].seller,
           SplitEscrow(e, escrow[e].buyer, escrow[e].seller, o, f, p)
    PROVE  Moves(e)
<1> DEFINE part == (lock[e].amount * p) \div 100
           rest == lock[e].amount - part
           pay == SellerPayout(part, f)
           pf == PlatformFee(part)
           bf == BotFee(part, f)
<1>1. /\ posted' = [posted EXCEPT ![e]["ESCROW_RELEASE"] = @ + pay,
                                  ![e]["ADJUSTMENT"] = @ + rest,
                                  ![e]["PLATFORM_FEE"] = @ + pf,
                                  ![e]["BOT_FEE"] = @ + bf]
      /\ net' = [net EXCEPT ![User(escrow[e].seller)] = @ + pay,
                            ![User(escrow[e].buyer)] = @ + rest,
                            ![Platform] = @ + pf, ![BotOwner(o)] = @ + bf]
    BY DEF SplitEscrow
<1>2. lock[e].amount \in Int /\ f \in Int /\ p \in Int /\ o \in Users
    BY AmountsArePositive, FeesAreNumbers, PercentsAreNumbers, OwnersAreUsers
    DEF Inv, DealsInv, DealIsWhole, LockMatches
<1>3. part \in Int
    BY <1>2
<1>4. rest \in Int
    <2> HIDE DEF part
    <2>. QED BY <1>2, <1>3
<1>5. pay \in Int /\ pf \in Int /\ bf \in Int
    <2> HIDE DEF part
    <2>. QED BY <1>2, <1>3, FeesAreIntegers
<1> HIDE DEF part, rest, pay, pf, bf
<1>6. /\ posted \in [EscrowIds -> [EntryType -> Int]]
      /\ net \in [Account -> Int]
      /\ escrow[e].buyer \in Users
      /\ escrow[e].seller \in Users
      /\ escrow[e].buyer # escrow[e].seller
    BY DEF Inv, TypeOK, DealsInv, DealIsWhole
<1>7. /\ posted'[e]["ESCROW_LOCK"] = posted[e]["ESCROW_LOCK"]
      /\ posted'[e]["ESCROW_UNLOCK"] = posted[e]["ESCROW_UNLOCK"]
      /\ posted'[e]["ESCROW_RELEASE"] = posted[e]["ESCROW_RELEASE"] + pay
      /\ posted'[e]["ADJUSTMENT"] = posted[e]["ADJUSTMENT"] + rest
      /\ posted'[e]["PLATFORM_FEE"] = posted[e]["PLATFORM_FEE"] + pf
      /\ posted'[e]["BOT_FEE"] = posted[e]["BOT_FEE"] + bf
    BY <1>1, <1>4, <1>5, <1>6 DEF EntryType
<1>8. ASSUME NEW u \in Users
      PROVE  net'[User(u)] = net[User(u)] + (IF u = escrow[e].seller THEN pay ELSE 0)
                                          + (IF u = escrow[e].buyer THEN rest ELSE 0)
    <2>1. net[User(u)] \in Int
        BY <1>6, Accounts
    <2>2. /\ u = escrow[e].seller => net'[User(u)] = net[User(u)] + pay
          /\ u = escrow[e].buyer => net'[User(u)] = net[User(u)] + rest
          /\ u # escrow[e].seller /\ u # escrow[e].buyer => net'[User(u)] = net[User(u)]
        BY <1>1, <1>2, <1>6, Accounts, AccountsDiffer
    <2>. QED
        BY <1>4, <1>5, <1>6, <2>1, <2>2
<1>9. /\ net'[Platform] = net[Platform] + pf
      /\ net'[BotOwner(o)] = net[BotOwner(o)] + bf
      /\ \A u \in Users \ {o} : net'[BotOwner(u)] = net[BotOwner(u)]
    BY <1>1, <1>2, <1>6, Accounts, AccountsDiffer
<1>. QED
    BY <1>2, <1>4, <1>5, <1>7, <1>8, <1>9, PayoutMoves

LEMMA QuietMoves ==
    ASSUME Inv, NEW e \in EscrowIds, NEW u \in Users, UNCHANGED <<posted, net>>,
           escrow'[e].buyer = escrow[e].buyer, escrow'[e].seller = escrow[e].seller
    PROVE  Moves(e)
<1>1. /\ posted \in [EscrowIds -> [EntryType -> Int]]
      /\ net \in [Account -> Int]
    BY DEF Inv, TypeOK
<1>2. ASSUME NEW v \in Users
      PROVE  /\ net[User(v)] \in Int
             /\ net[BotOwner(v)] \in Int
             /\ Owed(e, v) \in Int
             /\ Owed(e, v)' = Owed(e, v)
    <2>1. Owed(e, v) \in Int
        BY SumsAreTyped DEF SumsTyped, Inv
    <2>2. Owed(e, v)' = Owed(e, v)
        BY DEF Owed
    <2>. QED
        BY <1>1, <2>1, <2>2, Accounts
<1>3. /\ net[Platform] \in Int
      /\ posted[e]["PLATFORM_FEE"] \in Int
      /\ posted[e]["BOT_FEE"] \in Int
    BY <1>1, Accounts DEF EntryType
<1>4. \A v \in Users : net'[User(v)] - net[User(v)] = Owed(e, v)' - Owed(e, v)
    BY <1>2
<1>5. /\ net'[Platform] - net[Platform]
            = posted'[e]["PLATFORM_FEE"] - posted[e]["PLATFORM_FEE"]
      /\ net'[BotOwner(u)] - net[BotOwner(u)]
            = posted'[e]["BOT_FEE"] - posted[e]["BOT_FEE"]
    BY <1>2, <1>3
<1>. QED
    BY <1>4, <1>5 DEF Moves

LEMMA StepMoves ==
    ASSUME PartiesInv, NEW e \in EscrowIds, DealStep(e)
    PROVE  Moves(e)
<1>1. Inv /\ escrow \in [EscrowIds -> EscrowRow]
    BY DEF PartiesInv, Inv, TypeOK
<1>2. ASSUME NEW st, SetStatus(e, st)
      PROVE  escrow'[e].buyer = escrow[e].buyer /\ escrow'[e].seller = escrow[e].seller
    BY <1>1, <1>2 DEF SetStatus, EscrowRow
<1>3. ASSUME escrow[e].status # "none"
      PROVE  /\ tenant[escrow[e].bot].owner \in Owners
             /\ tenant[escrow[e].bot].fee \in BotFees
    BY <1>1, <1>3 DEF Inv, DealsInv, DealIsWhole, TypeOK, TenantRow
<1>4. ASSUME NEW b \in Bots, NEW buyer \in Users, NEW seller \in Users, NEW a \in Amounts,
             CreateEscrow(e, b, buyer, seller, a)
      PROVE  Moves(e)
    BY <1>4, CreateMoves
<1>5. ASSUME NEW u \in Users, AcceptEscrow(e, u) \/ Dispute(e, u)
      PROVE  Moves(e)
    BY <1>1, <1>2, <1>5, QuietMoves DEF AcceptEscrow, Dispute
<1>6. ASSUME NEW u \in Users, RequestCancel(e, u) \/ DeclineCancel(e, u)
      PROVE  Moves(e)
    BY <1>1, <1>6, QuietMoves DEF RequestCancel, DeclineCancel
<1>7. ASSUME NEW u \in Users, Release(e, u)
      PROVE  Moves(e)
    BY <1>1, <1>2, <1>3, <1>7, ReleaseMoves DEF Release
<1>8. ASSUME NEW u \in Users, CancelEscrow(e, u) \/ AcceptCancel(e, u)
      PROVE  Moves(e)
    BY <1>1, <1>2, <1>8, CancelMoves DEF CancelEscrow, AcceptCancel, CancelEscrowMutual
<1>9. ASSUME NEW m \in Moderators, NEW r \in Resolutions, NEW p \in SplitPercents,
             ResolveDispute(e, m, r, p)
      PROVE  Moves(e)
    <2>1. escrow[e].status # "none"
        BY <1>9 DEF ResolveDispute
    <2>2. escrow'[e].buyer = escrow[e].buyer /\ escrow'[e].seller = escrow[e].seller
        BY <1>2, <1>9 DEF ResolveDispute
    <2>. QED
        BY <1>1, <1>3, <1>9, <2>1, <2>2, ReleaseMoves, CancelMoves, SplitMoves
        DEF ResolveDispute
<1>. QED
    BY <1>4, <1>5, <1>6, <1>7, <1>8, <1>9 DEF DealStep

\* A step on a deal leaves a row behind it.
LEMMA StepLeavesADeal ==
    ASSUME Inv, NEW e \in EscrowIds, DealStep(e)
    PROVE  escrow'[e].status # "none"
<1>1. escrow \in [EscrowIds -> EscrowRow]
    BY DEF Inv, TypeOK
<1>2. ASSUME NEW st, SetStatus(e, st) PROVE escrow'[e].status = st
    BY <1>1, <1>2 DEF SetStatus, EscrowRow
<1>3. ASSUME NEW b \in Bots, NEW buyer \in Users, NEW seller \in Users, NEW a \in Amounts,
             CreateEscrow(e, b, buyer, seller, a)
      PROVE  escrow'[e].status # "none"
    BY <1>1, <1>3 DEF CreateEscrow
<1>4. ASSUME NEW u \in Users,
             \/ AcceptEscrow(e, u) \/ Dispute(e, u) \/ Release(e, u)
             \/ CancelEscrow(e, u) \/ AcceptCancel(e, u)
      PROVE  escrow'[e].status # "none"
    BY <1>2, <1>4
    DEF AcceptEscrow, Dispute, Release, CancelEscrow, AcceptCancel, CancelEscrowMutual
<1>5. ASSUME NEW u \in Users, RequestCancel(e, u) \/ DeclineCancel(e, u)
      PROVE  escrow'[e].status # "none"
    BY <1>5 DEF RequestCancel, DeclineCancel, MayAnswerCancel
<1>6. ASSUME NEW m \in Moderators, NEW r \in Resolutions, NEW p \in SplitPercents,
             ResolveDispute(e, m, r, p)
      PROVE  escrow'[e].status # "none"
    BY <1>2, <1>6 DEF ResolveDispute
<1>. QED
    BY <1>3, <1>4, <1>5, <1>6 DEF DealStep

\* Each balance and its sum of entries are read from the same unchanged rows.
LEMMA PartiesUnmoved ==
    ASSUME PartiesInv, UNCHANGED <<escrow, posted, net>>
    PROVE  (\A e \in EscrowIds : Unposted(e)') /\ EntriesReachTheirParties'
<1>1. \A e \in EscrowIds : Unposted(e)'
    BY DEF PartiesInv, Unposted
<1>2. \A u \in Users : OwedTo(u)' = OwedTo(u)
    BY DEF OwedTo, Owed
<1>3. \A t \in EntryType : PostedAs(t)' = PostedAs(t)
    BY DEF PostedAs
<1>4. OwnerRevenue' = OwnerRevenue
    BY DEF OwnerRevenue
<1>5. EntriesReachTheirParties'
    BY <1>2, <1>3, <1>4 DEF PartiesInv, EntriesReachTheirParties, EntryType
<1>. QED
    BY <1>1, <1>5

LEMMA PartiesInit == Init => PartiesInv
<1> SUFFICES ASSUME Init PROVE PartiesInv
    OBVIOUS
<1>1. Inv /\ SumsTyped
    BY InitInv, SumsAreTyped DEF Inv
<1>2. IsFiniteSet(EscrowIds) /\ IsFiniteSet(Users)
    BY TablesAreFinite
<1>3. \A e \in EscrowIds, t \in EntryType : posted[e][t] = 0
    BY DEF Init
<1>4. /\ \A u \in Users : net[User(u)] = InitialFunds[u] /\ net[BotOwner(u)] = 0
      /\ net[Platform] = 0
    <2>1. /\ \A u \in Users : User(u)[1] = "USER" /\ User(u)[2] = u
                              /\ BotOwner(u)[1] = "BOT_OWNER_REVENUE"
          /\ Platform[1] = "PLATFORM_REVENUE"
        BY DEF User, BotOwner, Platform
    <2>. QED
        BY <2>1, Accounts DEF Init
<1>5. ASSUME NEW u \in Users PROVE SumFunction(OwedTo(u)) = 0
    <2>1. OwedTo(u) \in [EscrowIds -> Int]
        BY <1>1 DEF SumsTyped
    <2>2. \A e \in EscrowIds : OwedTo(u)[e] = 0
        BY <1>3 DEF OwedTo, Owed, EntryType
    <2>. QED
        BY <1>2, <2>1, <2>2, SumOfZeros
<1>6. ASSUME NEW t \in EntryType PROVE SumFunction(PostedAs(t)) = 0
    <2>1. PostedAs(t) \in [EscrowIds -> Int]
        BY <1>1 DEF SumsTyped
    <2>2. \A e \in EscrowIds : PostedAs(t)[e] = 0
        BY <1>3 DEF PostedAs
    <2>. QED
        BY <1>2, <2>1, <2>2, SumOfZeros
<1>7. SumFunction(OwnerRevenue) = 0
    <2>1. OwnerRevenue \in [Users -> Int]
        BY <1>1 DEF SumsTyped
    <2>2. \A u \in Users : OwnerRevenue[u] = 0
        BY <1>4 DEF OwnerRevenue
    <2>. QED
        BY <1>2, <2>1, <2>2, SumOfZeros
<1>8. \A u \in Users : InitialFunds[u] = InitialFunds[u] + 0
    BY EscrowAssumption
<1>9. EntriesReachTheirParties
    BY <1>4, <1>5, <1>6, <1>7, <1>8 DEF EntriesReachTheirParties, EntryType
<1>. QED
    BY <1>1, <1>3, <1>9 DEF PartiesInv, Unposted

LEMMA PartiesStep == PartiesInv /\ [Next]_vars => PartiesInv'
<1> SUFFICES ASSUME PartiesInv, [Next]_vars PROVE PartiesInv'
    OBVIOUS
<1>1. Inv'
    BY InvStep DEF PartiesInv
<1>2. ASSUME NEW b \in Bots, NEW o \in Owners, NEW f \in BotFees,
             CreateOrUpdateTenant(b, o, f)
      PROVE  UNCHANGED <<escrow, posted, net>>
    BY <1>2 DEF CreateOrUpdateTenant
<1>3. ASSUME NEW e \in EscrowIds, DealStep(e)
      PROVE  (\A d \in EscrowIds : Unposted(d)') /\ EntriesReachTheirParties'
    <2>1. EntriesReachTheirParties'
        BY <1>1, <1>3, StepMoves, MovesKeepParties
    <2>2. ASSUME NEW d \in EscrowIds, d # e PROVE Unposted(d)'
        <3>1. escrow'[d] = escrow[d] /\ posted'[d] = posted[d]
            BY <1>3, <2>2, StepStaysInItsDeal DEF PartiesInv
        <3>. QED
            BY <3>1 DEF PartiesInv, Unposted
    <2>3. escrow'[e].status # "none"
        BY <1>3, StepLeavesADeal DEF PartiesInv
    <2>. QED
        BY <2>1, <2>2, <2>3 DEF Unposted
<1>4. CASE UNCHANGED vars
    BY <1>1, <1>4, PartiesUnmoved DEF vars, PartiesInv
<1>. QED
    BY <1>1, <1>2, <1>3, <1>4, PartiesUnmoved DEF Next, PartiesInv

\* Every entry reaches the party it names, for every set of users, deals, fees
\* and amounts: balances and ledger entries never drift apart, and no share is
\* paid to an account of somebody else.
THEOREM EntriesAlwaysReachTheirParties == Spec => []EntriesReachTheirParties
<1>1. PartiesInv => EntriesReachTheirParties
    BY DEF PartiesInv
<1>. QED
    BY <1>1, PartiesInit, PartiesStep, PTL DEF Spec
=============================================================================
