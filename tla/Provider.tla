------------------------------ MODULE Provider ------------------------------
(***************************************************************************)
(* The self-hosted withdrawal provider, withdrawal_provider_service/app.py:*)
(* a queue of payouts in a database of its own, one record for each        *)
(* idempotency key, which an operator moves along by hand after paying     *)
(* from a wallet the program knows nothing of.                             *)
(*                                                                         *)
(* A key and a provider_ref are functions of the withdrawal's id, so a     *)
(* record is named by the id and the mismatches the code refuses, of refs, *)
(* keys, assets and amounts, do not arise.                                 *)
(***************************************************************************)
EXTENDS Integers

CONSTANTS
    WithdrawalIds,  \* rows the withdrawals table may come to hold
    Unpayable,      \* those whose destination the provider's checks refuse
    OperatorMoves,  \* the changes of status an operator makes by set-status
    ReportedFees,   \* --actual-network-fee values
    Absent          \* no record, or a value that is not given

ProviderStatus == {"submitted", "broadcasted", "confirmed", "rejected",
                   "permanent_failure", "retryable", "ambiguous", "unknown"}

VARIABLE record   \* provider_withdrawals: the status and the reported fee

Record == [status : ProviderStatus, fee : ReportedFees \cup {Absent}]

ProviderInit == record = [w \in WithdrawalIds |-> Absent]

Refusal == [status |-> "rejected", fee |-> Absent]
NotFound == [status |-> "unknown", fee |-> Absent]

\* handle_execute: a payload that fails validation leaves no record; a key that
\* is known leaves the record as it is; a new one is queued.
HandleExecute(w) ==
    IF w \in Unpayable \/ record[w] # Absent THEN UNCHANGED record
    ELSE record' = [record EXCEPT ![w] = [status |-> "submitted", fee |-> Absent]]

\* What it answers, after it has handled the request.
ExecuteAnswer(w) == IF w \in Unpayable THEN Refusal ELSE record'[w]

\* handle_reconcile.
ReconcileAnswer(w) == IF record[w] = Absent THEN NotFound ELSE record[w]

\* update_status lets any status follow any other.  Metadata that are not given
\* leave the stored ones, and with them the fee; given, they replace them.
UpdateStatus(w, status, fee) ==
    /\ record[w] # Absent
    /\ <<record[w].status, status>> \in OperatorMoves
    /\ record' = [record EXCEPT ![w] = [status |-> status, fee |-> fee]]

=============================================================================
