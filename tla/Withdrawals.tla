---------------------------- MODULE Withdrawals -----------------------------
(***************************************************************************)
(* The withdrawals table of wallet_service.py and the ledger entries that  *)
(* refer to it: what each mark of the wallet does to one row.  A row is    *)
(* changed by processes that hold copies of it, so a mark is a function    *)
(* from the row it finds to the row it leaves.                             *)
(*                                                                         *)
(* One asset is followed, as in Escrow.  An amount is a number of units;   *)
(* Quantum is how many make the smallest amount the wallet quantizes to.   *)
(***************************************************************************)
EXTENDS Integers

CONSTANTS
    WithdrawalUsers,    \* internal user ids
    WithdrawalAmounts,  \* amounts a user may type
    Quantum,            \* units in the asset's ASSET_QUANTA
    WithdrawalFeeBps,   \* Settings.withdrawal_platform_fee_percent
    NetworkFee,         \* Settings.withdrawal_network_fee_<asset>
    ActualFees,         \* actual_network_fee_amount values of the provider
    TxidSane,           \* whether _txid_sane_for_asset can accept a txid
    Null                \* SQL NULL, or a row that is not there

\* Both fees are configured positive, so a fee is booked exactly when the sum
\* of its ledger rows is not zero, which is how the code tells.
ASSUME WithdrawalsAssumption ==
    /\ Quantum \in Nat \ {0}
    /\ WithdrawalFeeBps \in Nat
    /\ NetworkFee \in Nat \ {0}
    /\ ActualFees \subseteq Nat
    /\ WithdrawalAmounts \subseteq Nat \ {0}
    /\ TxidSane \in BOOLEAN
    /\ Null \notin WithdrawalUsers
    /\ Null \notin Nat

-----------------------------------------------------------------------------
(* Amounts.                                                                *)

\* The amount n / d rounded half up to whole quanta.
QuantizeAsset(n, d) == Quantum * ((2 * n + d * Quantum) \div (2 * d * Quantum))

WithdrawalPlatformFee(amount) == QuantizeAsset(amount * WithdrawalFeeBps, 10000)

WithdrawalTotalDebit(amount) ==
    QuantizeAsset(amount + WithdrawalPlatformFee(amount) + NetworkFee, 1)

-----------------------------------------------------------------------------
(* Rows.                                                                   *)

UnresolvedStatus == {"pending", "submitted", "broadcasted", "signer_retry"}

\* A wrong variant: rows with an outcome are asked about again.
AnsweredStatus == {"submitted", "broadcasted", "signer_retry", "confirmed", "failed"}

ReconcilableStatus == {"submitted", "broadcasted", "signer_retry"}
WithdrawalStatus == {"none", "confirmed", "failed"} \cup UnresolvedStatus

UserEntry == {"RESERVE", "RELEASE", "NETWORK_FEE_REFUND", "NETWORK_FEE_ADJUSTMENT"}
PlatformEntry == {"PLATFORM_FEE", "NETWORK_FEE"}

\* entries holds the sum of the row's ledger entries of each WITHDRAWAL_ type;
\* actual is network_fee_actual_amount.
Row == [status : WithdrawalStatus, user : WithdrawalUsers \cup {Null},
        amount : WithdrawalAmounts \cup {0}, fee : Nat, networkFee : Nat,
        actual : ActualFees \cup {Null}, entries : [UserEntry \cup PlatformEntry -> Int]]

NoRow == [status |-> "none", user |-> Null, amount |-> 0, fee |-> 0, networkFee |-> 0,
          actual |-> Null, entries |-> [t \in UserEntry \cup PlatformEntry |-> 0]]

AddEntry(row, type, amount) == [row EXCEPT !.entries[type] = @ + amount]

UserSum(row) ==
    row.entries["RESERVE"] + row.entries["RELEASE"]
    + row.entries["NETWORK_FEE_REFUND"] + row.entries["NETWORK_FEE_ADJUSTMENT"]

PlatformSum(row) == row.entries["PLATFORM_FEE"] + row.entries["NETWORK_FEE"]

-----------------------------------------------------------------------------
(* The wallet's operations on a row.                                       *)

\* The row request_withdrawal inserts, and its reservation.
NewRow(user, amount) ==
    AddEntry([NoRow EXCEPT !.status = "pending", !.user = user, !.amount = amount,
                           !.fee = WithdrawalPlatformFee(amount), !.networkFee = NetworkFee],
             "RESERVE", -WithdrawalTotalDebit(amount))

FeeBooked(row) == row.entries["PLATFORM_FEE"] # 0

BookPlatformFee(row) ==
    IF FeeBooked(row) THEN row ELSE AddEntry(row, "PLATFORM_FEE", row.fee)

NetworkFeeSettled(row) ==
    \E t \in {"NETWORK_FEE", "NETWORK_FEE_REFUND", "NETWORK_FEE_ADJUSTMENT"} :
        row.entries[t] # 0

\* A wrong variant: a fee above the estimate is not charged on.
SettleWithoutAdjustment(row, force) ==
    LET actual == IF row.actual = Null THEN row.networkFee ELSE row.actual
    IN  IF NetworkFeeSettled(row) \/ (row.actual = Null /\ ~force) THEN row
        ELSE [row EXCEPT !.entries["NETWORK_FEE"] = actual,
                         !.entries["NETWORK_FEE_REFUND"] =
                             IF actual < row.networkFee THEN row.networkFee - actual ELSE 0]

\* A wrong variant: it does not look whether the fee is settled already.
SettleAgain(row, force) ==
    LET actual == IF row.actual = Null THEN row.networkFee ELSE row.actual
        delta == actual - row.networkFee
    IN  IF row.actual = Null /\ ~force THEN row
        ELSE [row EXCEPT !.entries["NETWORK_FEE"] = @ + actual,
                         !.entries["NETWORK_FEE_ADJUSTMENT"] = @ - delta]

\* The platform earns what the network took, and the user is refunded or
\* charged the difference to the estimate: once, whatever the fee is later.
SettleNetworkFee(row, force) ==
    LET actual == IF row.actual = Null THEN row.networkFee ELSE row.actual
        delta == actual - row.networkFee
    IN  IF NetworkFeeSettled(row) \/ (row.actual = Null /\ ~force) THEN row
        ELSE [row EXCEPT !.entries["NETWORK_FEE"] = actual,
                         !.entries["NETWORK_FEE_REFUND"] = IF delta < 0 THEN -delta ELSE 0,
                         !.entries["NETWORK_FEE_ADJUSTMENT"] = IF delta > 0 THEN -delta ELSE 0]

\* Wrong variants: the provider's external_status lands in status, and the fee
\* is earned when the payout is only queued.
StoreExternalStatus(row) == [row EXCEPT !.status = "queued_manual_review"]
EarnOnSubmission(row) == [BookPlatformFee(row) EXCEPT !.status = "submitted"]

MarkSubmitted(row) == [row EXCEPT !.status = "submitted"]

MarkBroadcasted(row) ==
    SettleNetworkFee([BookPlatformFee(row) EXCEPT !.status = "broadcasted"], FALSE)

MarkConfirmed(row) ==
    SettleNetworkFee([BookPlatformFee(row) EXCEPT !.status = "confirmed"], TRUE)

\* A wrong variant: an unclear outcome gives the reservation back.
RetryWithRelease(row) ==
    AddEntry([row EXCEPT !.status = "signer_retry"], "RELEASE",
             row.amount + row.fee + row.networkFee)

MarkSignerRetry(row) == [row EXCEPT !.status = "signer_retry"]

\* A wrong variant: the network's estimate stays with nobody.
FailWithoutNetworkFee(row) ==
    AddEntry([row EXCEPT !.status = "failed"], "RELEASE", row.amount + row.fee)

\* The reservation is given back whatever the row's status was.
MarkFailed(row) ==
    AddEntry([row EXCEPT !.status = "failed"], "RELEASE",
             row.amount + row.fee + row.networkFee)

Requeue(row) == [row EXCEPT !.status = "pending"]

\* record_withdrawal_provider_result: an actual fee replaces the stored one.
RecordResult(row, answer) ==
    IF answer.fee = Null THEN row ELSE [row EXCEPT !.actual = answer.fee]

\* An on-chain status whose txid has not the asset's shape raises.
Recordable(answer) == answer.status \in {"broadcasted", "confirmed"} => TxidSane

\* The mark that follows a recorded answer.
MarkAs(row, status) ==
    CASE status = "submitted" -> MarkSubmitted(row)
      [] status = "broadcasted" -> MarkBroadcasted(row)
      [] status = "confirmed" -> MarkConfirmed(row)

=============================================================================
