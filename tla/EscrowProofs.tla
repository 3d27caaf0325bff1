---------------------------- MODULE EscrowProofs ----------------------------
(***************************************************************************)
(* Theorems about Escrow for every set of users, bots, deals, amounts and  *)
(* fees.  The argument is one inductive invariant, Inv: what each deal's   *)
(* escrow, lock and dispute rows say of one another, beside the typing.    *)
(* It holds whatever the amounts; EscrowBooksProofs adds the money.        *)
(***************************************************************************)
EXTENDS Escrow, FeesProofs

\* A deal that exists has two different parties, a real amount and a tenant
\* that is still there to be paid.
DealIsWhole(e) ==
    escrow[e].status # "none" =>
        /\ escrow[e].bot \in Bots
        /\ tenant[escrow[e].bot] # None
        /\ escrow[e].buyer \in Users
        /\ escrow[e].seller \in Users
        /\ escrow[e].buyer # escrow[e].seller
        /\ escrow[e].amount \in Amounts

LockMatches(e) ==
    /\ lock[e].status = "locked" <=> escrow[e].status \in OpenStatus
    /\ lock[e].status = "none" <=> escrow[e].status = "none"
    /\ escrow[e].status # "none" =>
          /\ lock[e].user = escrow[e].buyer
          /\ lock[e].amount = escrow[e].amount

DisputesMatch(e) ==
    /\ disputes[e].open = (IF escrow[e].status = "disputed" THEN 1 ELSE 0)
    /\ disputes[e].resolved <= 1
    /\ escrow[e].status \notin FinalStatus => disputes[e].resolved = 0

DealsInv ==
    \A e \in EscrowIds : /\ DealIsWhole(e)
                         /\ LockMatches(e)
                         /\ DisputesMatch(e)

Inv == TypeOK /\ DealsInv

-----------------------------------------------------------------------------
(* Typing of the fee arithmetic.                                           *)

\* Every fee and payout is an integer number of units.
LEMMA FeesAreIntegers ==
    ASSUME NEW a \in Int, NEW f \in Int
    PROVE  /\ PlatformFee(a) \in Int
           /\ BotFee(a, f) \in Int
           /\ SellerPayout(a, f) \in Int
<1>1. Cent \in Nat \ {0} /\ PlatformFeeBps \in Nat
    BY FeesAssumption
<1>2. ASSUME NEW n \in Int, NEW d \in Nat \ {0}
      PROVE  Money(n, d) \in Int
    <2>1. d * Cent \in Nat \ {0}
        BY <1>1, SMTT(30)
    <2>2. HalfUp(n, d * Cent) \in Int
        BY <2>1 DEF HalfUp
    <2>. QED
        BY <1>1, <2>2 DEF Money
<1>3. a * PlatformFeeBps \in Int /\ a * f \in Int
    BY <1>1
<1>4. PlatformFee(a) \in Int /\ BotFee(a, f) \in Int
    BY <1>2, <1>3 DEF PlatformFee, BotFee, PercentOf
<1>5. TotalFee(a, f) \in Int
    BY <1>2, <1>4 DEF TotalFee
<1>. QED
    BY <1>2, <1>4, <1>5 DEF SellerPayout

-----------------------------------------------------------------------------
(* The constants, the accounts and the rows, said once.                    *)

LEMMA OwnersAreUsers == Owners \subseteq Users
BY EscrowAssumption

LEMMA FeesAreNumbers == \A f \in BotFees : f \in Nat /\ ValidBotFee(f)
BY EscrowAssumption

LEMMA AmountsArePositive == \A a \in Amounts : a \in Nat \ {0}
BY EscrowAssumption

LEMMA PercentsAreNumbers == \A p \in SplitPercents : p \in 0 .. 100
BY EscrowAssumption

LEMMA Accounts ==
    /\ \A u \in Users : User(u) \in Account /\ BotOwner(u) \in Account
    /\ Platform \in Account
BY DEF Account, User, BotOwner, Platform

LEMMA StatusTyped ==
    ASSUME TypeOK, NEW e \in EscrowIds, NEW st \in OpenStatus \cup FinalStatus
    PROVE  [escrow EXCEPT ![e].status = st] \in [EscrowIds -> EscrowRow]
<1>1. [escrow[e] EXCEPT !.status = st] \in EscrowRow
    BY DEF TypeOK, EscrowRow
<1>. QED
    BY <1>1 DEF TypeOK

LEMMA LockTyped ==
    ASSUME TypeOK, NEW e \in EscrowIds
    PROVE  [lock EXCEPT ![e].status = "released"] \in [EscrowIds -> LockRow]
<1>1. [lock[e] EXCEPT !.status = "released"] \in LockRow
    BY DEF TypeOK, LockRow
<1>. QED
    BY <1>1 DEF TypeOK

-----------------------------------------------------------------------------
(* The structural invariant: no assumption on the amounts.                 *)

LEMMA InitInv == Init => Inv
<1> SUFFICES ASSUME Init PROVE Inv
    OBVIOUS
<1>1. \A a \in Account : a[1] = "USER" => a[2] \in Users
    BY DEF Account, Platform
<1>2. TypeOK
    BY <1>1, EscrowAssumption
    DEF Init, TypeOK, EscrowRow, LockRow, CancelRow, DisputeRows, OpenStatus, FinalStatus
<1>3. DealsInv
    BY DEF Init, DealsInv, DealIsWhole, LockMatches, DisputesMatch, OpenStatus, FinalStatus
<1>. QED
    BY <1>2, <1>3 DEF Inv

LEMMA TenantStep ==
    ASSUME Inv, NEW b \in Bots, NEW o \in Owners, NEW f \in BotFees,
           CreateOrUpdateTenant(b, o, f)
    PROVE  Inv'
<1>1. TypeOK'
    BY DEF Inv, TypeOK, CreateOrUpdateTenant, TenantRow
<1>2. [owner |-> o, fee |-> f] # None
    BY EscrowAssumption
<1>3. DealsInv'
    BY <1>2
    DEF Inv, TypeOK, DealsInv, DealIsWhole, LockMatches, DisputesMatch,
           CreateOrUpdateTenant
<1>. QED
    BY <1>1, <1>3 DEF Inv

LEMMA CreateStep ==
    ASSUME Inv, NEW e \in EscrowIds, NEW b \in Bots, NEW buyer \in Users,
           NEW seller \in Users, NEW a \in Amounts, CreateEscrow(e, b, buyer, seller, a)
    PROVE  Inv'
<1> USE DEF CreateEscrow, LockForEscrow, OpenStatus, FinalStatus
<1>1. TypeOK'
    BY EscrowAssumption
    DEF Inv, TypeOK, EscrowRow, LockRow, Account, User, EntryType
<1>2. DealsInv'
    BY DEF Inv, TypeOK, DealsInv, DealIsWhole, LockMatches, DisputesMatch,
           EscrowRow, LockRow
<1>. QED
    BY <1>1, <1>2 DEF Inv

LEMMA AcceptStep ==
    ASSUME Inv, NEW e \in EscrowIds, NEW u \in Users,
           AcceptEscrow(e, u)
    PROVE  Inv'
<1> USE DEF AcceptEscrow, SetStatus, OpenStatus, FinalStatus
<1>1. TypeOK'
    BY StatusTyped DEF Inv, TypeOK
<1>2. DealsInv'
    BY DEF Inv, TypeOK, DealsInv, DealIsWhole, LockMatches, DisputesMatch,
           EscrowRow, LockRow, CancelRow, DisputeRows
<1>. QED
    BY <1>1, <1>2 DEF Inv

LEMMA DisputeStep ==
    ASSUME Inv, NEW e \in EscrowIds, NEW u \in Users,
           Dispute(e, u)
    PROVE  Inv'
<1> USE DEF Dispute, SetStatus, OpenStatus, FinalStatus
<1>1. TypeOK'
    <2>1. [disputes[e] EXCEPT !.open = @ + 1] \in DisputeRows
        BY DEF Inv, TypeOK, DisputeRows
    <2>2. disputes' \in [EscrowIds -> DisputeRows]
        BY <2>1 DEF Inv, TypeOK
    <2>. QED
        BY <2>2, StatusTyped DEF Inv, TypeOK
<1>2. DealsInv'
    BY DEF Inv, TypeOK, DealsInv, DealIsWhole, LockMatches, DisputesMatch,
           EscrowRow, LockRow, CancelRow, DisputeRows
<1>. QED
    BY <1>1, <1>2 DEF Inv

LEMMA RequestStep ==
    ASSUME Inv, NEW e \in EscrowIds, NEW u \in Users,
           RequestCancel(e, u)
    PROVE  Inv'
<1> USE DEF RequestCancel, Participants, Counterparty, OpenStatus, FinalStatus
<1>1. TypeOK'
    BY DEF Inv, DealsInv, DealIsWhole, TypeOK, EscrowRow, LockRow, CancelRow, DisputeRows
<1>2. DealsInv'
    BY DEF Inv, TypeOK, DealsInv, DealIsWhole, LockMatches, DisputesMatch,
           EscrowRow, LockRow, CancelRow, DisputeRows
<1>. QED
    BY <1>1, <1>2 DEF Inv

LEMMA DeclineStep ==
    ASSUME Inv, NEW e \in EscrowIds, NEW u \in Users,
           DeclineCancel(e, u)
    PROVE  Inv'
<1> USE DEF DeclineCancel, OpenStatus, FinalStatus
<1>1. TypeOK'
    BY DEF Inv, TypeOK, EscrowRow, LockRow, CancelRow, DisputeRows
<1>2. DealsInv'
    BY DEF Inv, TypeOK, DealsInv, DealIsWhole, LockMatches, DisputesMatch,
           EscrowRow, LockRow, CancelRow, DisputeRows
<1>. QED
    BY <1>1, <1>2 DEF Inv

\* Releasing the lock, however the money goes, keeps the ledger typed.
LEMMA ReleaseEscrowTyped ==
    ASSUME Inv, NEW e \in EscrowIds, escrow[e].status # "none",
           NEW s \in Users, NEW o \in Owners, NEW f \in BotFees,
           ReleaseEscrow(e, s, o, escrow[e].amount, f)
    PROVE  posted' \in [EscrowIds -> [EntryType -> Int]] /\ net' \in [Account -> Int]
<1> DEFINE pay == SellerPayout(escrow[e].amount, f)
           pf == PlatformFee(escrow[e].amount)
           bf == BotFee(escrow[e].amount, f)
<1>1. escrow[e].amount \in Amounts
    BY DEF Inv, DealsInv, DealIsWhole
<1>2. escrow[e].amount \in Int /\ f \in Int
    BY <1>1, AmountsArePositive, FeesAreNumbers
<1>3. pf \in Int /\ bf \in Int /\ pay \in Int
    BY <1>2, FeesAreIntegers
<1>4. posted' = [posted EXCEPT ![e]["ESCROW_RELEASE"] = @ + pay,
                               ![e]["PLATFORM_FEE"] = @ + pf,
                               ![e]["BOT_FEE"] = @ + bf]
    BY DEF ReleaseEscrow
<1>5. net' = [net EXCEPT ![User(s)] = @ + pay, ![Platform] = @ + pf,
                         ![BotOwner(o)] = @ + bf]
    BY DEF ReleaseEscrow
<1> HIDE DEF pay, pf, bf
<1>6. posted' \in [EscrowIds -> [EntryType -> Int]]
    BY <1>3, <1>4 DEF Inv, TypeOK, EntryType
<1>7. net' \in [Account -> Int]
    <2>1. o \in Users
        BY OwnersAreUsers
    <2>2. User(s) \in Account /\ BotOwner(o) \in Account /\ Platform \in Account
        BY <2>1, Accounts
    <2>3. net \in [Account -> Int]
        BY DEF Inv, TypeOK
    <2>. QED
        BY <1>3, <1>5, <2>2, <2>3
<1>. QED
    BY <1>6, <1>7

LEMMA CancelLockTyped ==
    ASSUME Inv, NEW e \in EscrowIds, escrow[e].status # "none", CancelEscrowLock(e)
    PROVE  posted' \in [EscrowIds -> [EntryType -> Int]] /\ net' \in [Account -> Int]
<1>1. lock[e].amount \in Amounts /\ lock[e].user \in Users
    BY DEF Inv, DealsInv, DealIsWhole, LockMatches
<1>2. lock[e].amount \in Int
    BY <1>1, AmountsArePositive
<1>3. posted' \in [EscrowIds -> [EntryType -> Int]]
    BY <1>2 DEF CancelEscrowLock, Inv, TypeOK, EntryType
<1>4. net' \in [Account -> Int]
    BY <1>1, <1>2, Accounts DEF CancelEscrowLock, Inv, TypeOK
<1>. QED
    BY <1>3, <1>4

LEMMA SplitEscrowTyped ==
    ASSUME Inv, NEW e \in EscrowIds, escrow[e].status # "none",
           NEW b \in Users, NEW s \in Users, NEW o \in Owners, NEW f \in BotFees,
           NEW p \in SplitPercents, SplitEscrow(e, b, s, o, f, p)
    PROVE  posted' \in [EscrowIds -> [EntryType -> Int]] /\ net' \in [Account -> Int]
<1> DEFINE part == (lock[e].amount * p) \div 100
           rest == lock[e].amount - part
           pay == SellerPayout(part, f)
           pf == PlatformFee(part)
           bf == BotFee(part, f)
<1>1. lock[e].amount \in Amounts
    BY DEF Inv, DealsInv, DealIsWhole, LockMatches
<1>2. lock[e].amount \in Int /\ p \in Int /\ f \in Int
    <2>1. lock[e].amount \in Int
        BY <1>1, AmountsArePositive
    <2>2. p \in Int
        BY PercentsAreNumbers
    <2>3. f \in Int
        BY FeesAreNumbers
    <2>. QED
        BY <2>1, <2>2, <2>3
<1>3. part \in Int /\ rest \in Int
    BY <1>2
<1>4. pf \in Int /\ bf \in Int /\ pay \in Int
    <2> HIDE DEF part
    <2>. QED BY <1>2, <1>3, FeesAreIntegers
<1>5. posted' = [posted EXCEPT ![e]["ESCROW_RELEASE"] = @ + pay,
                               ![e]["ADJUSTMENT"] = @ + rest,
                               ![e]["PLATFORM_FEE"] = @ + pf,
                               ![e]["BOT_FEE"] = @ + bf]
    BY DEF SplitEscrow
<1>6. net' = [net EXCEPT ![User(s)] = @ + pay, ![User(b)] = @ + rest,
                         ![Platform] = @ + pf, ![BotOwner(o)] = @ + bf]
    BY DEF SplitEscrow
<1> HIDE DEF part, rest, pay, pf, bf
<1>7. posted' \in [EscrowIds -> [EntryType -> Int]]
    BY <1>3, <1>4, <1>5 DEF Inv, TypeOK, EntryType
<1>8. net' \in [Account -> Int]
    <2>1. o \in Users
        BY OwnersAreUsers
    <2>2. /\ User(s) \in Account
          /\ User(b) \in Account
          /\ BotOwner(o) \in Account
          /\ Platform \in Account
        BY <2>1, Accounts
    <2>3. net \in [Account -> Int]
        BY DEF Inv, TypeOK
    <2>. QED
        BY <1>3, <1>4, <1>6, <2>2, <2>3
<1>. QED
    BY <1>7, <1>8

LEMMA ReleaseStep ==
    ASSUME Inv, NEW e \in EscrowIds, NEW u \in Users, Release(e, u)
    PROVE  Inv'
<1> DEFINE t == tenant[escrow[e].bot]
<1>1. /\ escrow[e].status = "active"
      /\ ReleaseEscrow(e, escrow[e].seller, t.owner, escrow[e].amount, t.fee)
      /\ SetStatus(e, "completed")
      /\ UNCHANGED <<tenant, cancelRequest, disputes>>
    BY DEF Release
<1>2. escrow[e].seller \in Users /\ t \in TenantRow
    BY <1>1 DEF Inv, TypeOK, DealsInv, DealIsWhole
<1>3. t.owner \in Owners /\ t.fee \in BotFees
    BY <1>2 DEF TenantRow
<1>4. posted' \in [EscrowIds -> [EntryType -> Int]] /\ net' \in [Account -> Int]
    <2> HIDE DEF t
    <2>. QED BY <1>1, <1>2, <1>3, ReleaseEscrowTyped
<1>5. TypeOK'
    BY <1>1, <1>4, StatusTyped, LockTyped
    DEF Inv, TypeOK, SetStatus, ReleaseEscrow, OpenStatus, FinalStatus
<1>6. DealsInv'
    <2> HIDE DEF t
    <2>. QED
        BY <1>1 DEF Inv, TypeOK, DealsInv, DealIsWhole, LockMatches, DisputesMatch,
            EscrowRow, LockRow, SetStatus, ReleaseEscrow, OpenStatus, FinalStatus
<1>. QED
    BY <1>5, <1>6 DEF Inv

LEMMA CancelStep ==
    ASSUME Inv, NEW e \in EscrowIds, NEW u \in Users, CancelEscrow(e, u)
    PROVE  Inv'
<1> USE DEF CancelEscrow, SetStatus, OpenStatus, FinalStatus
<1>1. posted' \in [EscrowIds -> [EntryType -> Int]] /\ net' \in [Account -> Int]
    BY CancelLockTyped
<1>2. TypeOK'
    BY <1>1, StatusTyped, LockTyped DEF Inv, TypeOK, CancelEscrowLock
<1>3. DealsInv'
    BY DEF Inv, TypeOK, DealsInv, DealIsWhole, LockMatches, DisputesMatch,
           EscrowRow, LockRow, CancelEscrowLock
<1>. QED
    BY <1>2, <1>3 DEF Inv

LEMMA AcceptCancelStep ==
    ASSUME Inv, NEW e \in EscrowIds, NEW u \in Users, AcceptCancel(e, u)
    PROVE  Inv'
<1> USE DEF AcceptCancel, CancelEscrowMutual, SetStatus, OpenStatus, FinalStatus
<1>1. posted' \in [EscrowIds -> [EntryType -> Int]] /\ net' \in [Account -> Int]
    BY CancelLockTyped
<1>2. cancelRequest' \in [EscrowIds -> CancelRow]
    BY DEF Inv, TypeOK, CancelRow
<1>3. TypeOK'
    BY <1>1, <1>2, StatusTyped, LockTyped DEF Inv, TypeOK, CancelEscrowLock
<1>4. DealsInv'
    BY DEF Inv, TypeOK, DealsInv, DealIsWhole, LockMatches, DisputesMatch,
           EscrowRow, LockRow, CancelEscrowLock
<1>. QED
    BY <1>3, <1>4 DEF Inv

LEMMA ResolveStep ==
    ASSUME Inv, NEW e \in EscrowIds, NEW m \in Moderators, NEW r \in Resolutions,
           NEW p \in SplitPercents, ResolveDispute(e, m, r, p)
    PROVE  Inv'
<1> DEFINE d == escrow[e]
           t == tenant[d.bot]
<1>1. /\ d.status = "disputed"
      /\ \/ ReleaseEscrow(e, d.seller, t.owner, d.amount, t.fee)
         \/ CancelEscrowLock(e)
         \/ SplitEscrow(e, d.buyer, d.seller, t.owner, t.fee, p)
      /\ SetStatus(e, "completed")
      /\ CloseDisputes(e)
      /\ UNCHANGED <<tenant, cancelRequest>>
    BY DEF ResolveDispute
<1>2. d.buyer \in Users /\ d.seller \in Users /\ t \in TenantRow
    BY <1>1 DEF Inv, TypeOK, DealsInv, DealIsWhole
<1>3. t.owner \in Owners /\ t.fee \in BotFees
    BY <1>2 DEF TenantRow
<1>4. posted' \in [EscrowIds -> [EntryType -> Int]] /\ net' \in [Account -> Int]
    <2> HIDE DEF t
    <2>1. CASE ReleaseEscrow(e, d.seller, t.owner, d.amount, t.fee)
        BY <1>1, <1>2, <1>3, <2>1, ReleaseEscrowTyped
    <2>2. CASE CancelEscrowLock(e)
        BY <1>1, <2>2, CancelLockTyped
    <2>3. CASE SplitEscrow(e, d.buyer, d.seller, t.owner, t.fee, p)
        BY <1>1, <1>2, <1>3, <2>3, SplitEscrowTyped
    <2>. QED
        BY <1>1, <2>1, <2>2, <2>3
<1>5. /\ lock[e].status = "locked"
      /\ lock' = [lock EXCEPT ![e].status = "released"]
    BY <1>1 DEF ReleaseEscrow, CancelEscrowLock, SplitEscrow
<1>6. disputes' \in [EscrowIds -> DisputeRows]
    BY <1>1 DEF Inv, TypeOK, CloseDisputes, DisputeRows
<1>7. TypeOK'
    BY <1>1, <1>4, <1>5, <1>6, StatusTyped, LockTyped
    DEF Inv, TypeOK, SetStatus, OpenStatus, FinalStatus
<1>8. DealsInv'
    <2> HIDE DEF t
    <2>. QED
        BY <1>1, <1>5 DEF Inv, TypeOK, DealsInv, DealIsWhole, LockMatches, DisputesMatch,
            EscrowRow, LockRow, DisputeRows, SetStatus, CloseDisputes, OpenStatus, FinalStatus
<1>. QED
    BY <1>7, <1>8 DEF Inv

LEMMA InvStep == Inv /\ [Next]_vars => Inv'
<1> SUFFICES ASSUME Inv, [Next]_vars PROVE Inv'
    OBVIOUS
<1>1. ASSUME NEW b \in Bots, NEW o \in Owners, NEW f \in BotFees,
             CreateOrUpdateTenant(b, o, f)
      PROVE  Inv'
    BY <1>1, TenantStep
<1>2. ASSUME NEW e \in EscrowIds, DealStep(e)
      PROVE  Inv'
    BY <1>2, CreateStep, AcceptStep, ReleaseStep, DisputeStep, CancelStep, RequestStep,
       DeclineStep, AcceptCancelStep, ResolveStep DEF DealStep
<1>3. CASE UNCHANGED vars
    BY <1>3 DEF vars, Inv, TypeOK, DealsInv, DealIsWhole, LockMatches, DisputesMatch
<1>. QED
    BY <1>1, <1>2, <1>3 DEF Next

THEOREM Invariant == Spec => []Inv
BY InitInv, InvStep, PTL DEF Spec

\* The tables keep their types, through every interleaving of users,
\* moderators and tenant updates.
THEOREM TypeCorrect == Spec => []TypeOK
<1>1. Inv => TypeOK
    BY DEF Inv
<1>. QED
    BY <1>1, Invariant, PTL

\* Funds stay locked exactly while the deal is open, for its buyer and amount.
THEOREM LockIsHeldWhileOpen == Spec => []LockFollowsStatus
<1>1. Inv => LockFollowsStatus
    BY DEF Inv, TypeOK, DealsInv, LockMatches, LockFollowsStatus
<1>. QED
    BY <1>1, Invariant, PTL

\* A deal is disputed exactly while its one dispute row is open.
THEOREM OneDisputePerDeal == Spec => []DisputeRowsFollowStatus
<1>1. Inv => DisputeRowsFollowStatus
    <2> SUFFICES ASSUME Inv, NEW e \in EscrowIds
                 PROVE  /\ disputes[e].open = (IF escrow[e].status = "disputed" THEN 1 ELSE 0)
                        /\ disputes[e].open + disputes[e].resolved <= 1
        BY DEF DisputeRowsFollowStatus
    <2>1. DisputesMatch(e) /\ disputes[e] \in DisputeRows
        BY DEF Inv, TypeOK, DealsInv
    <2>. QED
        BY <2>1 DEF DisputesMatch, DisputeRows, FinalStatus
<1>. QED
    BY <1>1, Invariant, PTL
=============================================================================
