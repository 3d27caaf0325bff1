------------------------------- MODULE Signer -------------------------------
(***************************************************************************)
(* Withdrawals from request to payment: the bot's process, in which users  *)
(* request and admins intervene, the signer's process, and the provider.   *)
(*                                                                         *)
(* A process reads rows, calls the provider over HTTP, and writes what it  *)
(* learns.  Its first write takes SQLite's write lock, which it holds, over*)
(* HTTP calls too, until it commits or rolls back; what it read before is  *)
(* as old as that call.  db is what is committed, work the copy of the     *)
(* process that holds the lock.                                            *)
(***************************************************************************)
EXTENDS Withdrawals, FiniteSetsExt

CONSTANTS
    WithdrawalIds,   \* rows the withdrawals table may come to hold, numbered
    Funds,           \* each user's balance before any withdrawal
    Price,           \* USD cents per unit
    MinimumUsd,      \* WITHDRAWAL_MINIMUM_USD, in USD cents
    DailyLimitUsd,   \* WITHDRAWAL_DAILY_LIMIT_USD, in USD cents
    Unpayable,       \* withdrawals the provider's own validation refuses
    OperatorMoves,   \* the status changes the provider's operator makes
    AdminFailsWhen,  \* provider statuses in which an admin fails a withdrawal
    Overlap,         \* whether commands and cycles run at the same time
    MaxFaults        \* how many answers are lost and cycles broken off

VARIABLES
    record,   \* the provider's records
    db,       \* the rows of withdrawals, with their ledger entries
    work,     \* the rows as the process with the write lock has them
    writer,   \* that process, or Null
    session,  \* what each process is doing
    delayed,  \* execute requests whose sender has given up, still on their way
    faults    \* how many calls and cycles have gone wrong

INSTANCE Provider WITH Absent <- Null, ReportedFees <- ActualFees

signerVars == <<record, db, work, writer, session, delayed, faults>>

Process == {"signer", "bot"}

ASSUME SignerAssumption ==
    /\ WithdrawalIds \subseteq Nat
    /\ Funds \in [WithdrawalUsers -> Nat]
    /\ Price \in Nat /\ MinimumUsd \in Nat /\ DailyLimitUsd \in Nat
    /\ Unpayable \subseteq WithdrawalIds
    /\ OperatorMoves \subseteq ProviderStatus \X ProviderStatus
    /\ AdminFailsWhen \subseteq ProviderStatus \cup {"absent"}
    /\ Overlap \in BOOLEAN
    /\ MaxFaults \in Nat
    /\ Null \notin Process /\ Null \notin Record

Job == {"idle", "execute", "reconcile", "targeted", "requeue", "fail"}

\* What a process takes for the answer when none came back.
Lost == [status |-> "lost", fee |-> Null]

Answer == Record \cup {Lost}

\* todo is what the process has still to do of what it read; answer is the
\* provider's, for the first of these, once the call has returned.
Session == [job : Job, todo : SUBSET WithdrawalIds, answer : Answer \cup {Null}]

Idle == [job |-> "idle", todo |-> {}, answer |-> Null]

SignerTypeOK ==
    /\ record \in [WithdrawalIds -> Record \cup {Null}]
    /\ db \in [WithdrawalIds -> Row]
    /\ work \in [WithdrawalIds -> Row]
    /\ writer \in Process \cup {Null}
    /\ session \in [Process -> Session]
    /\ delayed \subseteq WithdrawalIds
    /\ faults \in 0 .. MaxFaults

SignerInit ==
    /\ ProviderInit
    /\ db = [w \in WithdrawalIds |-> NoRow]
    /\ work = db
    /\ writer = Null
    /\ session = [p \in Process |-> Idle]
    /\ delayed = {}
    /\ faults = 0

-----------------------------------------------------------------------------
(* Transactions.                                                           *)

\* The rows as p sees them.
View(p) == IF writer = p THEN work ELSE db

\* p writes one row in a transaction that stays open.
Write(p, w, row) ==
    /\ writer \in {Null, p}
    /\ writer' = p
    /\ work' = [View(p) EXCEPT ![w] = row]
    /\ db' = db

\* p writes one row in a transaction of its own.
WriteAtOnce(w, row) ==
    /\ writer = Null
    /\ db' = [db EXCEPT ![w] = row]
    /\ work' = db'
    /\ writer' = writer

Finish(p) == session' = [session EXCEPT ![p] = Idle]

\* A wrong variant: each mark of a cycle is lost with the connection.
CloseWithoutCommit(p) ==
    /\ db' = db
    /\ work' = IF writer = p THEN db ELSE work
    /\ writer' = IF writer = p THEN Null ELSE writer

CommitAll(p) ==
    /\ db' = View(p)
    /\ work' = work
    /\ writer' = IF writer = p THEN Null ELSE writer

RollBack(p) ==
    /\ db' = db
    /\ work' = IF writer = p THEN db ELSE work
    /\ writer' = IF writer = p THEN Null ELSE writer

Fault == faults < MaxFaults /\ faults' = faults + 1

-----------------------------------------------------------------------------
(* Users.                                                                  *)

Usd(amount) == amount * Price

Balance(u) ==
    Funds[u] + MapThenSumSet(LAMBDA w : UserSum(db[w]),
                             {w \in WithdrawalIds : db[w].user = u})

UnresolvedUsd(u) ==
    MapThenSumSet(LAMBDA w : Usd(db[w].amount),
                  {w \in WithdrawalIds : db[w].user = u /\ db[w].status \in UnresolvedStatus})

\* request_withdrawal, in the bot, which handles one update at a time.
RequestWithdrawal(w, u, amount) ==
    /\ session["bot"] = Idle
    /\ db[w].status = "none"
    /\ \A v \in WithdrawalIds : v < w => db[v].status # "none"
    /\ Usd(amount) >= MinimumUsd
    /\ UnresolvedUsd(u) + Usd(amount) <= DailyLimitUsd
    /\ Balance(u) >= WithdrawalTotalDebit(amount)
    /\ WriteAtOnce(w, NewRow(u, amount))
    /\ UNCHANGED <<record, session, delayed, faults>>

-----------------------------------------------------------------------------
(* Cycles of the signer: the daemon's, and those of the bot's /run_signer. *)

\* Whether p may begin something.  Without Overlap, people wait for the signer
\* and its cycles happen to fall between their commands.
MayBegin(p) ==
    /\ session[p] = Idle
    /\ ~Overlap => \A q \in Process : session[q] = Idle

First(p) == CHOOSE w \in session[p].todo : \A v \in session[p].todo : w <= v

\* process_withdrawals begins with the pending rows, read without a lock.
StartCycle(p) ==
    /\ MayBegin(p)
    /\ session' = [session EXCEPT ![p] =
                     [job |-> "execute", answer |-> Null,
                      todo |-> {w \in WithdrawalIds : db[w].status = "pending"}]]
    /\ UNCHANGED <<record, db, work, writer, delayed, faults>>

Calling(p, jobs) ==
    /\ session[p].job \in jobs
    /\ session[p].todo # {}
    /\ session[p].answer = Null

Answered(p, answer) == session' = [session EXCEPT ![p].answer = answer]

\* persist_withdrawal_idempotency takes the lock and leaves the row as it is;
\* then the provider is called.
CallExecute(p) ==
    /\ Calling(p, {"execute"})
    /\ LET w == First(p)
       IN  /\ Write(p, w, View(p)[w])
           /\ \/ /\ HandleExecute(w)
                 /\ Answered(p, ExecuteAnswer(w))
                 /\ UNCHANGED <<delayed, faults>>
              \/ /\ Answered(p, Lost)
                 /\ delayed' = delayed \cup {w}
                 /\ Fault
                 /\ record' = record

\* _execute_single on the answer.
Executed(row, answer) ==
    CASE answer.status \in {"rejected", "permanent_failure"} -> MarkFailed(row)
      [] answer.status \in {"submitted", "broadcasted", "confirmed"} /\ Recordable(answer) ->
            MarkAs(RecordResult(row, answer), answer.status)
      [] OTHER -> MarkSignerRetry(row)

\* _reconcile_single on the answer: whatever goes wrong, a refusal included,
\* ends in signer_retry.
Reconciled(row, answer) ==
    IF answer.status \in {"submitted", "broadcasted", "confirmed"} /\ Recordable(answer)
    THEN MarkAs(RecordResult(row, answer), answer.status)
    ELSE MarkSignerRetry(row)

Done(p, w) == session' = [session EXCEPT ![p].todo = @ \ {w}, ![p].answer = Null]

MarkExecuted(p) ==
    /\ session[p].job = "execute" /\ session[p].answer # Null
    /\ LET w == First(p)
       IN  /\ Write(p, w, Executed(View(p)[w], session[p].answer))
           /\ Done(p, w)
    /\ UNCHANGED <<record, delayed, faults>>

\* unresolved_withdrawals_for_reconcile: those whose interval has passed.
BeginReconcile(p, due) ==
    /\ session[p].job = "execute" /\ session[p].todo = {}
    /\ due \subseteq {w \in WithdrawalIds : View(p)[w].status \in ReconcilableStatus}
    /\ session' = [session EXCEPT ![p] = [job |-> "reconcile", todo |-> due, answer |-> Null]]
    /\ UNCHANGED <<record, db, work, writer, delayed, faults>>

\* The call of a reconcile, which comes before its first write.
CallReconcile(p) ==
    /\ Calling(p, {"reconcile", "targeted"})
    /\ \/ Answered(p, ReconcileAnswer(First(p))) /\ faults' = faults
       \/ Answered(p, Lost) /\ Fault
    /\ UNCHANGED <<record, db, work, writer, delayed>>

MarkReconciled(p) ==
    /\ session[p].job = "reconcile" /\ session[p].answer # Null
    /\ LET w == First(p)
       IN  /\ Write(p, w, Reconciled(View(p)[w], session[p].answer))
           /\ Done(p, w)
    /\ UNCHANGED <<record, delayed, faults>>

CommitCycle(p) ==
    /\ session[p].job = "reconcile" /\ session[p].todo = {}
    /\ CommitAll(p)
    /\ Finish(p)
    /\ UNCHANGED <<record, delayed, faults>>

\* A crash, or an exception no clause catches, such as a lock not obtained in
\* five seconds: nothing of the transaction stays.
BreakOff(p) ==
    /\ session[p] # Idle
    /\ Fault
    /\ RollBack(p)
    /\ Finish(p)
    /\ UNCHANGED <<record, delayed>>

-----------------------------------------------------------------------------
(* Admins, through the bot.                                                *)

\* /withdrawal_reconcile <id> CONFIRM [FORCE].
StartTargeted(w) ==
    /\ MayBegin("bot")
    /\ db[w].status \in ReconcilableStatus
    /\ session' = [session EXCEPT !["bot"] = [job |-> "targeted", todo |-> {w}, answer |-> Null]]
    /\ UNCHANGED <<record, db, work, writer, delayed, faults>>

\* An outcome the wallet could use is committed; a signer_retry is rolled back
\* with the connection.
MarkTargeted ==
    /\ session["bot"].job = "targeted" /\ session["bot"].answer # Null
    /\ LET w == First("bot")
           row == Reconciled(db[w], session["bot"].answer)
       IN  WriteAtOnce(w, IF row.status = "signer_retry" THEN db[w] ELSE row)
    /\ Finish("bot")
    /\ UNCHANGED <<record, delayed, faults>>

StatusAtProvider(w) == IF record[w] = Null THEN "absent" ELSE record[w].status

\* /signer_retry_action <id> requeue|fail CONFIRM: set_withdrawal_status reads
\* the status first.
CheckRetry(w, action) ==
    /\ MayBegin("bot")
    /\ db[w].status = "signer_retry"
    /\ action = "fail" => StatusAtProvider(w) \in AdminFailsWhen
    /\ session' = [session EXCEPT !["bot"] = [job |-> action, todo |-> {w}, answer |-> Null]]
    /\ UNCHANGED <<record, db, work, writer, delayed, faults>>

\* And writes when it gets the lock.
ActOnRetry ==
    /\ session["bot"].job \in {"requeue", "fail"}
    /\ LET w == First("bot")
       IN  WriteAtOnce(w, IF session["bot"].job = "fail" THEN MarkFailed(db[w])
                          ELSE Requeue(db[w]))
    /\ Finish("bot")
    /\ UNCHANGED <<record, delayed, faults>>

-----------------------------------------------------------------------------
(* The provider.                                                           *)

\* A request whose answer nobody waits for any more arrives, if it ever does.
LateRequest(w) ==
    /\ w \in delayed
    /\ delayed' = delayed \ {w}
    /\ HandleExecute(w)
    /\ UNCHANGED <<db, work, writer, session, faults>>

OperatorActs(w) ==
    /\ \E s \in ProviderStatus, f \in ActualFees \cup {Null} : UpdateStatus(w, s, f)
    /\ UNCHANGED <<db, work, writer, session, delayed, faults>>

-----------------------------------------------------------------------------

CycleStep(p) ==
    \/ CallExecute(p)
    \/ MarkExecuted(p)
    \/ CallReconcile(p)
    \/ MarkReconciled(p)
    \/ CommitCycle(p)

SignerNext ==
    \/ \E w \in WithdrawalIds, u \in WithdrawalUsers, a \in WithdrawalAmounts :
          RequestWithdrawal(w, u, a)
    \/ \E p \in Process : \/ StartCycle(p)
                          \/ CycleStep(p)
                          \/ \E due \in SUBSET WithdrawalIds : BeginReconcile(p, due)
                          \/ BreakOff(p)
    \/ \E w \in WithdrawalIds : \/ StartTargeted(w)
                                \/ \E action \in {"requeue", "fail"} : CheckRetry(w, action)
                                \/ LateRequest(w)
                                \/ OperatorActs(w)
    \/ MarkTargeted
    \/ ActOnRetry

Due(p) == {w \in WithdrawalIds : View(p)[w].status \in ReconcilableStatus}

\* The daemon loops for ever, its calls and the bot's handlers end, and every
\* row is due again some time after it was last reconciled.
SignerFairness ==
    /\ \A p \in Process : WF_signerVars(CycleStep(p))
    /\ WF_signerVars(MarkTargeted \/ ActOnRetry)
    /\ SF_signerVars(StartCycle("signer"))
    /\ \A p \in Process : SF_signerVars(BeginReconcile(p, Due(p)))

SignerSpec == SignerInit /\ [][SignerNext]_signerVars /\ SignerFairness

-----------------------------------------------------------------------------
(* Properties.                                                             *)

\* However often a row is marked, by whom and after which crash, its platform
\* fee is booked once and the network fee settled once, so that refund or
\* adjustment and the platform's part make up the estimate that was reserved
\* (_book_withdrawal_platform_fee_if_needed, _settle_withdrawal_network_fee).
FeesBookedOnce ==
    \A w \in WithdrawalIds :
        LET row == db[w]
        IN  /\ row.entries["PLATFORM_FEE"] \in {0, row.fee}
            /\ row.entries["NETWORK_FEE"] + row.entries["NETWORK_FEE_REFUND"]
               + row.entries["NETWORK_FEE_ADJUSTMENT"] \in {0, row.networkFee}
            /\ row.status = "confirmed" =>
                  (FeeBooked(row) \/ row.fee = 0) /\ NetworkFeeSettled(row)

\* The books never run ahead of the provider: nothing is booked as sent that it
\* does not have as sent, and nothing given back that it has not refused, however
\* late answers arrive and whoever else is at work (signer_service.py).
BooksFollowProvider ==
    \A w \in WithdrawalIds :
        /\ FeeBooked(db[w]) => StatusAtProvider(w) \in {"broadcasted", "confirmed"}
        /\ db[w].entries["RELEASE"] # 0 =>
              w \in Unpayable \/ StatusAtProvider(w) \in {"rejected", "permanent_failure"}

\* "unresolved: retryable|ambiguous|unknown (forced to signer_retry, funds
\* remain reserved)" (README.md:55).
UnresolvedStaysReserved ==
    \A w \in WithdrawalIds :
        db[w].status \in UnresolvedStatus => db[w].entries["RELEASE"] = 0

ClosedStatus == {"confirmed", "failed"}

\* Some process has read the withdrawal and not yet committed what it makes of it.
InHand(w) == work[w] # db[w] \/ \E p \in Process : w \in session[p].todo

Closed(w) == db[w].status \in ClosedStatus /\ ~InHand(w)

\* A withdrawal that is confirmed or has failed, and that nobody has in hand, is
\* closed for good: no cycle, reconcile, requeue, late request or act of the
\* operator takes it up again or changes its row or its ledger entries, also where
\* processes overlap.  One that another process had read before may be written
\* over: a mark does not look at the status it replaces (wallet_service.py:1069).
OutcomeIsFinal ==
    [][\A w \in WithdrawalIds : Closed(w) => Closed(w)' /\ db'[w] = db[w]]_signerVars

PhaseOf(row) ==
    IF row.status = "none" THEN "new"
    ELSE IF row.entries["RELEASE"] # 0 THEN "released"
    ELSE IF NetworkFeeSettled(row) THEN "paid"
    ELSE IF FeeBooked(row) THEN "sent"
    ELSE "reserved"

Payments == INSTANCE Payout WITH
    Ids <- WithdrawalIds,
    phase <- [w \in WithdrawalIds |-> PhaseOf(db[w])],
    stake <- [w \in WithdrawalIds |-> db[w].amount],
    charged <- [w \in WithdrawalIds |-> -UserSum(db[w])],
    earned <- [w \in WithdrawalIds |-> PlatformSum(db[w])]

\* Withdrawals implement Payout, as far as their committed rows show: one
\* outcome, once, and every unit of the charge accounted for.
ImplementsPayout == Payments!PayoutSpec

\* What the operator has confirmed becomes confirmed in the wallet, through lost
\* answers, crashes and requeues: the "Provider returns the stored state so
\* EscrowHub advances the withdrawal row" of WITHDRAWAL_PROVIDER_SELF_HOSTED.md:37.
ConfirmedReachesWallet ==
    \A w \in WithdrawalIds :
        StatusAtProvider(w) = "confirmed" ~> db[w].status = "confirmed"

=============================================================================
