------------------------------- MODULE Escrow -------------------------------
(***************************************************************************)
(* The escrow life cycle: escrow_service.py over the escrow locks of       *)
(* wallet_service.py, the ledger of ledger_service.py, the tenants of      *)
(* tenant_service.py and the mutual-cancel table that the two handlers of  *)
(* bot.py write and the service reads.                                     *)
(*                                                                         *)
(* Every operation of the service runs in one SQLite write transaction     *)
(* (BEGIN IMMEDIATE, or a SAVEPOINT in the caller's) that commits whole or *)
(* rolls back whole, so an operation is one action; an operation that      *)
(* raises changes nothing and is no step.  The actors are the users and    *)
(* moderators behind the bot, in any order and any number.                 *)
(*                                                                         *)
(* The model follows one asset: every ledger row, lock and balance of an   *)
(* escrow carries the escrow's own asset, so assets never meet.            *)
(***************************************************************************)
EXTENDS Fees, FiniteSets, Functions

CONSTANTS
    Users,          \* internal user ids
    Bots,           \* tenant bots
    EscrowIds,      \* rows the escrows table may come to hold
    Moderators,     \* Settings.moderator_ids
    Owners,         \* users who may own a tenant bot
    BotFees,        \* bot_extra_fee_percent values, in basis points
    Amounts,        \* escrow amounts a buyer may type
    SplitPercents,  \* split_percent values of a dispute resolution
    InitialFunds,   \* USER ledger balance of each user before any escrow
    LivePrices,     \* USD cents per unit the price service may report
    FallbackPrice,  \* the static price used when the live check raises
    MinEscrowUsd,   \* MIN_ESCROW_USD, in USD cents
    None            \* SQL NULL, or a row that is not there

\* The unit is fine enough to write a split's seller part exactly, as Decimal
\* does: locked_amount * split_percent / 100 is a whole number of units.
ASSUME EscrowAssumption ==
    /\ Owners \subseteq Users
    /\ BotFees \subseteq {bps \in Nat : ValidBotFee(bps)}
    /\ Amounts \subseteq Nat \ {0}
    /\ SplitPercents \subseteq 0 .. 100
    /\ \A a \in Amounts, p \in SplitPercents : (a * p) % 100 = 0
    /\ InitialFunds \in [Users -> Nat]
    /\ LivePrices \subseteq Nat
    /\ FallbackPrice \in Nat
    /\ MinEscrowUsd \in Nat
    /\ None \notin Users
    /\ None \notin [owner : Owners, fee : BotFees]

\* A table has finitely many rows.
ASSUME TablesAreFinite == IsFiniteSet(Users) /\ IsFiniteSet(EscrowIds)

VARIABLES
    tenant,         \* bots: the owner and the extra fee, or None
    escrow,         \* escrows
    lock,           \* escrow_locks, one row per escrow
    cancelRequest,  \* active_cancel_requests, keyed by escrow
    disputes,       \* disputes: how many rows are open and resolved
    posted,         \* ledger_entries by ref_id: the sum posted per entry type
    net             \* ledger_entries by account: the running sum

vars == <<tenant, escrow, lock, cancelRequest, disputes, posted, net>>

-----------------------------------------------------------------------------

OpenStatus == {"pending", "active", "disputed"}
FinalStatus == {"completed", "cancelled"}

EntryType == {"ESCROW_LOCK", "ESCROW_UNLOCK", "ESCROW_RELEASE", "ADJUSTMENT",
              "PLATFORM_FEE", "BOT_FEE"}

User(u) == <<"USER", u>>
BotOwner(u) == <<"BOT_OWNER_REVENUE", u>>
Platform == <<"PLATFORM_REVENUE", None>>
Account == ({"USER", "BOT_OWNER_REVENUE"} \X Users) \cup {Platform}

TenantRow == [owner : Owners, fee : BotFees]
EscrowRow == [status : {"none"} \cup OpenStatus \cup FinalStatus,
              bot : Bots \cup {None}, buyer : Users \cup {None},
              seller : Users \cup {None}, amount : Amounts \cup {0}]
LockRow == [status : {"none", "locked", "released"},
            user : Users \cup {None}, amount : Amounts \cup {0}]
CancelRow == [status : {"none", "open", "accepted", "declined"},
              requester : Users \cup {None}, responder : Users \cup {None}]
DisputeRows == [open : Nat, resolved : Nat]

TypeOK ==
    /\ tenant \in [Bots -> TenantRow \cup {None}]
    /\ escrow \in [EscrowIds -> EscrowRow]
    /\ lock \in [EscrowIds -> LockRow]
    /\ cancelRequest \in [EscrowIds -> CancelRow]
    /\ disputes \in [EscrowIds -> DisputeRows]
    /\ posted \in [EscrowIds -> [EntryType -> Int]]
    /\ net \in [Account -> Int]

\* A database whose users have funded balances and no deal yet.
Init ==
    /\ tenant = [b \in Bots |-> None]
    /\ escrow = [e \in EscrowIds |-> [status |-> "none", bot |-> None, buyer |-> None,
                                      seller |-> None, amount |-> 0]]
    /\ lock = [e \in EscrowIds |-> [status |-> "none", user |-> None, amount |-> 0]]
    /\ cancelRequest = [e \in EscrowIds |->
                           [status |-> "none", requester |-> None, responder |-> None]]
    /\ disputes = [e \in EscrowIds |-> [open |-> 0, resolved |-> 0]]
    /\ posted = [e \in EscrowIds |-> [t \in EntryType |-> 0]]
    /\ net = [a \in Account |-> IF a[1] = "USER" THEN InitialFunds[a[2]] ELSE 0]

-----------------------------------------------------------------------------
(* The wallet's escrow locks and the ledger entries they post.             *)

AvailableBalance(u) == net[User(u)]

LockForEscrow(e, u, amount) ==
    /\ AvailableBalance(u) >= amount
    /\ lock' = [lock EXCEPT ![e] = [status |-> "locked", user |-> u, amount |-> amount]]
    /\ posted' = [posted EXCEPT ![e]["ESCROW_LOCK"] = @ - amount]
    /\ net' = [net EXCEPT ![User(u)] = @ - amount]

\* A wrong variant: the fees posted and the payout forgotten.
ReleaseWithoutPayout(e, seller, owner, amount, fee) ==
    /\ lock[e].status = "locked"
    /\ lock' = [lock EXCEPT ![e].status = "released"]
    /\ posted' = [posted EXCEPT ![e]["PLATFORM_FEE"] = @ + PlatformFee(amount),
                                ![e]["BOT_FEE"] = @ + BotFee(amount, fee)]
    /\ net' = [net EXCEPT ![Platform] = @ + PlatformFee(amount),
                          ![BotOwner(owner)] = @ + BotFee(amount, fee)]

\* A wrong variant: the escrow is paid out and its lock left standing.
ReleaseKeepingLock(e, seller, owner, amount, fee) ==
    /\ lock[e].status = "locked"
    /\ lock' = lock
    /\ posted' = [posted EXCEPT ![e]["ESCROW_RELEASE"] = @ + SellerPayout(amount, fee),
                                ![e]["PLATFORM_FEE"] = @ + PlatformFee(amount),
                                ![e]["BOT_FEE"] = @ + BotFee(amount, fee)]
    /\ net' = [net EXCEPT ![User(seller)] = @ + SellerPayout(amount, fee),
                          ![Platform] = @ + PlatformFee(amount),
                          ![BotOwner(owner)] = @ + BotFee(amount, fee)]

\* A wrong variant: the tenant's fee is credited to the platform.
ReleaseFeesToPlatform(e, seller, owner, amount, fee) ==
    /\ lock[e].status = "locked"
    /\ lock' = [lock EXCEPT ![e].status = "released"]
    /\ posted' = [posted EXCEPT ![e]["ESCROW_RELEASE"] = @ + SellerPayout(amount, fee),
                                ![e]["PLATFORM_FEE"] = @ + PlatformFee(amount),
                                ![e]["BOT_FEE"] = @ + BotFee(amount, fee)]
    /\ net' = [net EXCEPT ![User(seller)] = @ + SellerPayout(amount, fee),
                          ![Platform] = @ + PlatformFee(amount) + BotFee(amount, fee)]

ReleaseEscrow(e, seller, owner, amount, fee) ==
    /\ lock[e].status = "locked"
    /\ lock' = [lock EXCEPT ![e].status = "released"]
    /\ posted' = [posted EXCEPT ![e]["ESCROW_RELEASE"] = @ + SellerPayout(amount, fee),
                                ![e]["PLATFORM_FEE"] = @ + PlatformFee(amount),
                                ![e]["BOT_FEE"] = @ + BotFee(amount, fee)]
    /\ net' = [net EXCEPT ![User(seller)] = @ + SellerPayout(amount, fee),
                          ![Platform] = @ + PlatformFee(amount),
                          ![BotOwner(owner)] = @ + BotFee(amount, fee)]

CancelEscrowLock(e) ==
    /\ lock[e].status = "locked"
    /\ lock' = [lock EXCEPT ![e].status = "released"]
    /\ posted' = [posted EXCEPT ![e]["ESCROW_UNLOCK"] = @ + lock[e].amount]
    /\ net' = [net EXCEPT ![User(lock[e].user)] = @ + lock[e].amount]

\* The third resolution: the seller's share pays the fees, the rest goes back
\* to the buyer as an adjustment.
SplitEscrow(e, buyer, seller, owner, fee, percent) ==
    LET sellerPart == (lock[e].amount * percent) \div 100
        buyerPart == lock[e].amount - sellerPart
    IN  /\ lock[e].status = "locked"
        /\ lock' = [lock EXCEPT ![e].status = "released"]
        /\ posted' = [posted EXCEPT
                        ![e]["ESCROW_RELEASE"] = @ + SellerPayout(sellerPart, fee),
                        ![e]["ADJUSTMENT"] = @ + buyerPart,
                        ![e]["PLATFORM_FEE"] = @ + PlatformFee(sellerPart),
                        ![e]["BOT_FEE"] = @ + BotFee(sellerPart, fee)]
        /\ net' = [net EXCEPT ![User(seller)] = @ + SellerPayout(sellerPart, fee),
                              ![User(buyer)] = @ + buyerPart,
                              ![Platform] = @ + PlatformFee(sellerPart),
                              ![BotOwner(owner)] = @ + BotFee(sellerPart, fee)]

-----------------------------------------------------------------------------
(* Tenants.                                                                *)

\* create_or_update_tenant: the owner and the fee may change at any time, also
\* under deals that are already open.
CreateOrUpdateTenant(b, owner, fee) ==
    /\ tenant' = [tenant EXCEPT ![b] = [owner |-> owner, fee |-> fee]]
    /\ UNCHANGED <<escrow, lock, cancelRequest, disputes, posted, net>>

-----------------------------------------------------------------------------
(* The escrow service.                                                     *)

\* A live price below the minimum raises just as a failed lookup does, and
\* either is caught and retried with the static price: the amount passes if
\* one of the two prices values it at the minimum.
MeetsMinimum(amount) ==
    \E usd \in LivePrices \cup {FallbackPrice} : amount * usd >= MinEscrowUsd

SetStatus(e, status) == escrow' = [escrow EXCEPT ![e].status = status]

\* A wrong variant: the balance is not checked against the amount, neither
\* here nor in the wallet.
CreateUnfunded(e, b, buyer, seller, amount) ==
    /\ escrow[e].status = "none"
    /\ tenant[b] # None
    /\ buyer # seller
    /\ escrow' = [escrow EXCEPT ![e] = [status |-> "pending", bot |-> b, buyer |-> buyer,
                                        seller |-> seller, amount |-> amount]]
    /\ lock' = [lock EXCEPT ![e] = [status |-> "locked", user |-> buyer, amount |-> amount]]
    /\ posted' = [posted EXCEPT ![e]["ESCROW_LOCK"] = @ - amount]
    /\ net' = [net EXCEPT ![User(buyer)] = @ - amount]
    /\ UNCHANGED <<tenant, cancelRequest, disputes>>

\* A wrong variant: the row holds the amount the seller will get.
CreateNetOfFees(e, b, buyer, seller, amount) ==
    /\ escrow[e].status = "none"
    /\ tenant[b] # None
    /\ buyer # seller
    /\ MeetsMinimum(amount)
    /\ escrow' = [escrow EXCEPT ![e] = [status |-> "pending", bot |-> b, buyer |-> buyer,
                                        seller |-> seller,
                                        amount |-> SellerPayout(amount, tenant[b].fee)]]
    /\ LockForEscrow(e, buyer, amount)
    /\ UNCHANGED <<tenant, cancelRequest, disputes>>

CreateEscrow(e, b, buyer, seller, amount) ==
    /\ escrow[e].status = "none"
    /\ tenant[b] # None
    /\ buyer # seller
    /\ MeetsMinimum(amount)
    /\ escrow' = [escrow EXCEPT ![e] = [status |-> "pending", bot |-> b, buyer |-> buyer,
                                        seller |-> seller, amount |-> amount]]
    /\ LockForEscrow(e, buyer, amount)
    /\ UNCHANGED <<tenant, cancelRequest, disputes>>

AcceptEscrow(e, actor) ==
    /\ escrow[e].status = "pending"
    /\ escrow[e].seller = actor
    /\ SetStatus(e, "active")
    /\ UNCHANGED <<tenant, lock, cancelRequest, disputes, posted, net>>

\* The fee is the tenant's at this moment, not the one shown at creation.
Release(e, actor) ==
    /\ escrow[e].status = "active"
    /\ escrow[e].buyer = actor
    /\ LET t == tenant[escrow[e].bot]
       IN  ReleaseEscrow(e, escrow[e].seller, t.owner, escrow[e].amount, t.fee)
    /\ SetStatus(e, "completed")
    /\ UNCHANGED <<tenant, cancelRequest, disputes>>

Participants(e) == {escrow[e].buyer, escrow[e].seller}

\* A wrong variant: the dispute opens whatever became of the deal.
DisputeAnyDeal(e, actor) ==
    /\ escrow[e].status # "none"
    /\ actor \in Participants(e)
    /\ SetStatus(e, "disputed")
    /\ disputes' = [disputes EXCEPT ![e].open = @ + 1]
    /\ UNCHANGED <<tenant, lock, cancelRequest, posted, net>>

Dispute(e, actor) ==
    /\ escrow[e].status \in {"pending", "active"}
    /\ actor \in Participants(e)
    /\ SetStatus(e, "disputed")
    /\ disputes' = [disputes EXCEPT ![e].open = @ + 1]
    /\ UNCHANGED <<tenant, lock, cancelRequest, posted, net>>

\* A wrong variant: the deal is cancelled and the lock forgotten.
CancelWithoutUnlock(e, actor) ==
    /\ escrow[e].status = "pending"
    /\ actor \in Participants(e)
    /\ SetStatus(e, "cancelled")
    /\ UNCHANGED <<tenant, lock, posted, net, cancelRequest, disputes>>

CancelEscrow(e, actor) ==
    /\ escrow[e].status = "pending"
    /\ actor \in Participants(e)
    /\ CancelEscrowLock(e)
    /\ SetStatus(e, "cancelled")
    /\ UNCHANGED <<tenant, cancelRequest, disputes>>

CancelEscrowMutual(e, requester, responder) ==
    /\ escrow[e].status = "active"
    /\ {requester, responder} \subseteq Participants(e)
    /\ requester # responder
    /\ cancelRequest[e] = [status |-> "open", requester |-> requester,
                           responder |-> responder]
    /\ CancelEscrowLock(e)
    /\ SetStatus(e, "cancelled")
    /\ cancelRequest' = [cancelRequest EXCEPT ![e].status = "accepted"]
    /\ UNCHANGED <<tenant, disputes>>

\* A wrong variant: the dispute rows are left open.
CloseNoDispute(e) == UNCHANGED disputes

\* UPDATE disputes SET status='resolved' ... WHERE status='open'.
CloseDisputes(e) ==
    disputes' = [disputes EXCEPT ![e] = [open |-> 0, resolved |-> @.resolved + @.open]]

ResolveDispute(e, admin, resolution, percent) ==
    /\ admin \in Moderators
    /\ escrow[e].status = "disputed"
    /\ LET d == escrow[e]
           t == tenant[d.bot]
       IN  \/ /\ resolution = "release_seller"
              /\ ReleaseEscrow(e, d.seller, t.owner, d.amount, t.fee)
           \/ /\ resolution = "refund_buyer"
              /\ CancelEscrowLock(e)
           \/ /\ resolution = "split"
              /\ SplitEscrow(e, d.buyer, d.seller, t.owner, t.fee, percent)
    /\ SetStatus(e, "completed")
    /\ CloseDisputes(e)
    /\ UNCHANGED <<tenant, cancelRequest>>

-----------------------------------------------------------------------------
(* The mutual-cancel table, written by two handlers of bot.py.             *)

Counterparty(e, u) == IF u = escrow[e].buyer THEN escrow[e].seller ELSE escrow[e].buyer

\* esc_active_cancel_handler: an upsert, so a second request, also the
\* counterparty's own, replaces the first whatever became of it.
RequestCancel(e, actor) ==
    /\ escrow[e].status = "active"
    /\ actor \in Participants(e)
    /\ cancelRequest' = [cancelRequest EXCEPT ![e] =
                            [status |-> "open", requester |-> actor,
                             responder |-> Counterparty(e, actor)]]
    /\ UNCHANGED <<tenant, escrow, lock, disputes, posted, net>>

\* esc_cancel_response_handler checks the open row before it answers it.
MayAnswerCancel(e, actor) ==
    LET req == cancelRequest[e]
    IN  /\ escrow[e].status = "active"
        /\ req.status = "open"
        /\ req.requester # actor
        /\ {req.requester, req.responder} \subseteq Participants(e)
        /\ req.responder = actor

DeclineCancel(e, actor) ==
    /\ MayAnswerCancel(e, actor)
    /\ cancelRequest' = [cancelRequest EXCEPT ![e].status = "declined"]
    /\ UNCHANGED <<tenant, escrow, lock, disputes, posted, net>>

AcceptCancel(e, actor) ==
    /\ MayAnswerCancel(e, actor)
    /\ CancelEscrowMutual(e, cancelRequest[e].requester, actor)

-----------------------------------------------------------------------------

Resolutions == {"release_seller", "refund_buyer", "split"}

DealStep(e) ==
    \/ \E b \in Bots, buyer, seller \in Users, a \in Amounts :
          CreateEscrow(e, b, buyer, seller, a)
    \/ \E u \in Users : \/ AcceptEscrow(e, u)
                        \/ Release(e, u)
                        \/ Dispute(e, u)
                        \/ CancelEscrow(e, u)
                        \/ RequestCancel(e, u)
                        \/ DeclineCancel(e, u)
                        \/ AcceptCancel(e, u)
    \/ \E m \in Moderators, r \in Resolutions, p \in SplitPercents :
          ResolveDispute(e, m, r, p)

Next ==
    \/ \E b \in Bots, o \in Owners, f \in BotFees : CreateOrUpdateTenant(b, o, f)
    \/ \E e \in EscrowIds : DealStep(e)

Spec == Init /\ [][Next]_vars

-----------------------------------------------------------------------------
(* Properties.                                                             *)

\* Funds stay locked exactly as long as the deal is open, for its buyer and
\* its amount: no operation of the service forgets the lock, takes it twice
\* or releases it under a deal that goes on.
LockFollowsStatus ==
    \A e \in EscrowIds :
        /\ lock[e].status = "locked" <=> escrow[e].status \in OpenStatus
        /\ escrow[e].status # "none" =>
              /\ lock[e].status # "none"
              /\ lock[e].user = escrow[e].buyer
              /\ lock[e].amount = escrow[e].amount

EntrySum(e) ==
    posted[e]["ESCROW_LOCK"] + posted[e]["ESCROW_UNLOCK"] + posted[e]["ESCROW_RELEASE"]
    + posted[e]["ADJUSTMENT"] + posted[e]["PLATFORM_FEE"] + posted[e]["BOT_FEE"]

\* The ledger rows that reference one escrow take its amount while it is locked
\* and add up to nothing once it is settled, whichever way it was settled and
\* whatever fee the tenant charged by then (the ledger of escrow_service.py).
EscrowBooksBalance ==
    \A e \in EscrowIds :
        EntrySum(e) = IF lock[e].status = "locked" THEN -lock[e].amount ELSE 0

\* An amount may have fractions of a cent, which the payout's rounding loses or
\* adds: whatever the amount, a deal's rows take it whole while it is locked, and
\* once it is settled they add up to no more than half a cent either way.
EscrowBooksNearlyBalance ==
    \A e \in EscrowIds :
        /\ lock[e].status = "locked" => EntrySum(e) = -lock[e].amount
        /\ lock[e].status # "locked" => 2 * EntrySum(e) \in -Cent .. Cent

\* Locks taken one after another never promise the same money twice: no user's
\* ledger balance is driven below zero by escrows (create_escrow's check and
\* lock_for_escrow's inside the write transaction).
NoOverdraft == \A u \in Users : net[User(u)] >= 0

\* A deal is disputed exactly while one dispute row is open, and no deal is
\* ever disputed twice.
DisputeRowsFollowStatus ==
    \A e \in EscrowIds :
        /\ disputes[e].open = (IF escrow[e].status = "disputed" THEN 1 ELSE 0)
        /\ disputes[e].open + disputes[e].resolved <= 1

\* A completed or cancelled deal is closed for good: a stale button, a second
\* release, a late cancel answer or a late dispute moves neither its row, its
\* lock, its ledger entries, its disputes nor its cancel request.
SettledIsFinal ==
    [][\A e \in EscrowIds :
          escrow[e].status \in FinalStatus =>
              UNCHANGED <<escrow[e], lock[e], posted[e], disputes[e], cancelRequest[e]>>]_vars

\* What the rows of one escrow owe a user, by the user's role in it.
Owed(e, u) ==
    (IF escrow[e].buyer = u
        THEN posted[e]["ESCROW_LOCK"] + posted[e]["ESCROW_UNLOCK"] + posted[e]["ADJUSTMENT"]
        ELSE 0)
    + (IF escrow[e].seller = u THEN posted[e]["ESCROW_RELEASE"] ELSE 0)

OwedTo(u) == [e \in EscrowIds |-> Owed(e, u)]

\* What each escrow posted under one entry type.
PostedAs(t) == [e \in EscrowIds |-> posted[e][t]]

OwnerRevenue == [u \in Users |-> net[BotOwner(u)]]

\* Every entry reached the party it names: a user's balance is what they
\* started with plus what their deals owe them, the platform holds all platform
\* fees, and the tenant owners, whoever owned when, hold all bot fees.
EntriesReachTheirParties ==
    /\ \A u \in Users :
          net[User(u)] = InitialFunds[u] + SumFunction(OwedTo(u))
    /\ net[Platform] = SumFunction(PostedAs("PLATFORM_FEE"))
    /\ SumFunction(OwnerRevenue) = SumFunction(PostedAs("BOT_FEE"))

-----------------------------------------------------------------------------
(* The custody an escrow gives, seen through its lock and ledger entries.  *)

\* The roles a hand-out pays and the entry types that pay them.
PaidOut(e) ==
    [r \in {"buyer", "seller", "platform", "owner"} |->
        CASE r = "buyer" -> posted[e]["ESCROW_UNLOCK"] + posted[e]["ADJUSTMENT"]
          [] r = "seller" -> posted[e]["ESCROW_RELEASE"]
          [] r = "platform" -> posted[e]["PLATFORM_FEE"]
          [] r = "owner" -> posted[e]["BOT_FEE"]]

PhaseOf(e) == CASE lock[e].status = "none" -> "new"
                [] lock[e].status = "locked" -> "held"
                [] lock[e].status = "released" -> "settled"

Held == INSTANCE Custody WITH
            Deals <- EscrowIds,
            phase <- [e \in EscrowIds |-> PhaseOf(e)],
            stake <- [e \in EscrowIds |-> lock[e].amount],
            paid <- [e \in EscrowIds |-> PaidOut(e)]

\* Amounts whose payouts have no fraction of a cent to round away: the deals
\* for which the fee arithmetic is exact.
ExactAmounts ==
    \A a \in Amounts :
        /\ WholeCents(a)
        /\ \A p \in SplitPercents : WholeCents((a * p) \div 100)

\* The escrow service implements Custody: what it locks it hands out once,
\* whole, and never by charging a party again.
ImplementsCustody == Held!CustodySpec

=============================================================================
