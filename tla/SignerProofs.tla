---------------------------- MODULE SignerProofs -----------------------------
(***************************************************************************)
(* Theorems about Signer for every set of withdrawals, users and fees, any *)
(* overlap of processes and any number of faults.  A mark is a function of *)
(* a row, so what it keeps of a row it keeps of the table, whoever writes  *)
(* it and however old the answer is that it writes.                        *)
(***************************************************************************)
EXTENDS Signer, WellFoundedInduction, TLAPS

-----------------------------------------------------------------------------
\* Amounts.

LEMMA QuantizeIsWhole ==
    ASSUME NEW n \in Nat, NEW d \in Nat \ {0}
    PROVE  \E q \in Nat : QuantizeAsset(n, d) = q * Quantum
<1>1. Quantum \in Nat \ {0}
  BY WithdrawalsAssumption
<1>2. ASSUME NEW m \in Nat, NEW k \in Nat \ {0}
      PROVE  m \div k \in Nat
  BY <1>2, SMTT(30)
<1>3. d * Quantum \in Nat \ {0}
  BY <1>1, SMTT(30)
<1>4. 2 * n + d * Quantum \in Nat /\ 2 * d * Quantum \in Nat \ {0}
  BY <1>1, <1>3, SMTT(30)
<1>5. (2 * n + d * Quantum) \div (2 * d * Quantum) \in Nat
  BY <1>2, <1>4
<1>. DEFINE q == (2 * n + d * Quantum) \div (2 * d * Quantum)
<1>6. q \in Nat /\ QuantizeAsset(n, d) = Quantum * q
  BY <1>5 DEF QuantizeAsset
<1>. HIDE DEF q
<1>7. Quantum * q = q * Quantum
  BY <1>1, <1>6, SMTT(30)
<1>. QED
  BY <1>6, <1>7

LEMMA QuantizeIsNatural ==
    ASSUME NEW n \in Nat, NEW d \in Nat \ {0}
    PROVE  QuantizeAsset(n, d) \in Nat
<1>1. PICK q \in Nat : QuantizeAsset(n, d) = q * Quantum
  BY QuantizeIsWhole
<1>2. q * Quantum \in Nat
  BY WithdrawalsAssumption, SMTT(30)
<1>. QED
  BY <1>1, <1>2

LEMMA FeesAreNaturals ==
    ASSUME NEW a \in WithdrawalAmounts
    PROVE  WithdrawalPlatformFee(a) \in Nat /\ WithdrawalTotalDebit(a) \in Nat
<1>1. a \in Nat /\ WithdrawalFeeBps \in Nat /\ NetworkFee \in Nat
  BY WithdrawalsAssumption
<1>2. a * WithdrawalFeeBps \in Nat
  BY <1>1
<1>3. WithdrawalPlatformFee(a) \in Nat
  BY <1>2, QuantizeIsNatural DEF WithdrawalPlatformFee
<1>4. a + WithdrawalPlatformFee(a) + NetworkFee \in Nat
  BY <1>1, <1>3
<1>. QED
  BY <1>3, <1>4, QuantizeIsNatural DEF WithdrawalTotalDebit

-----------------------------------------------------------------------------
\* Rows.

\* What the books say of one row.
RowBooked(row) ==
    /\ row.entries["PLATFORM_FEE"] \in {0, row.fee}
    /\ row.entries["NETWORK_FEE"] + row.entries["NETWORK_FEE_REFUND"]
       + row.entries["NETWORK_FEE_ADJUSTMENT"] \in {0, row.networkFee}
    /\ row.status = "confirmed" =>
          (FeeBooked(row) \/ row.fee = 0) /\ NetworkFeeSettled(row)
    /\ row.status # "none" => row.networkFee # 0

\* A row somebody has requested.
Requested(row) == row \in Row /\ RowBooked(row) /\ row.status # "none"

LEMMA NoRowBooked == NoRow \in Row /\ RowBooked(NoRow)
BY WithdrawalsAssumption
   DEF NoRow, Row, RowBooked, UserEntry, PlatformEntry, WithdrawalStatus

LEMMA NewRowBooked ==
    ASSUME NEW u \in WithdrawalUsers, NEW a \in WithdrawalAmounts
    PROVE  Requested(NewRow(u, a))
<1>1. /\ WithdrawalPlatformFee(a) \in Nat /\ WithdrawalTotalDebit(a) \in Nat
      /\ NetworkFee \in Nat \ {0} /\ a \in Nat
  BY FeesAreNaturals, WithdrawalsAssumption
<1>. DEFINE blank == [NoRow EXCEPT !.status = "pending", !.user = u, !.amount = a,
                                   !.fee = WithdrawalPlatformFee(a), !.networkFee = NetworkFee]
            row == NewRow(u, a)
<1>2. /\ NoRow.entries \in [UserEntry \cup PlatformEntry -> Int]
      /\ \A t \in UserEntry \cup PlatformEntry : NoRow.entries[t] = 0
  BY DEF NoRow
<1>3. /\ blank \in Row /\ blank.status = "pending" /\ blank.fee = WithdrawalPlatformFee(a)
      /\ blank.networkFee = NetworkFee /\ blank.entries = NoRow.entries
  BY <1>1, NoRowBooked DEF Row, WithdrawalStatus, UnresolvedStatus
<1>4. row = [blank EXCEPT !.entries["RESERVE"] = @ + (-WithdrawalTotalDebit(a))]
  BY DEF NewRow, AddEntry
<1>. HIDE DEF blank, row
<1>5. /\ row \in Row /\ row.status = "pending" /\ row.fee = WithdrawalPlatformFee(a)
      /\ row.networkFee = NetworkFee
      /\ \A t \in PlatformEntry \cup (UserEntry \ {"RESERVE"}) : row.entries[t] = 0
  BY <1>1, <1>2, <1>3, <1>4 DEF Row, UserEntry, PlatformEntry
<1>6. Requested(row)
  BY <1>1, <1>5 DEF Requested, RowBooked, UserEntry, PlatformEntry
<1>. QED
  BY <1>6 DEF row

\* Only a confirmation asks more of a row than its books.
LEMMA StatusMark ==
    ASSUME NEW row, Requested(row), NEW s \in UnresolvedStatus \cup {"failed"}
    PROVE  Requested([row EXCEPT !.status = s])
BY DEF Requested, Row, RowBooked, FeeBooked, NetworkFeeSettled, WithdrawalStatus,
       UnresolvedStatus

LEMMA BookedFee ==
    ASSUME NEW row, Requested(row)
    PROVE  /\ Requested(BookPlatformFee(row))
           /\ FeeBooked(BookPlatformFee(row)) \/ BookPlatformFee(row).fee = 0
           /\ BookPlatformFee(row).status = row.status
BY DEF Requested, Row, RowBooked, BookPlatformFee, AddEntry, FeeBooked, NetworkFeeSettled,
       UserEntry, PlatformEntry

LEMMA SettledFee ==
    ASSUME NEW row \in Row, NEW force \in BOOLEAN,
           row.entries["NETWORK_FEE"] + row.entries["NETWORK_FEE_REFUND"]
               + row.entries["NETWORK_FEE_ADJUSTMENT"] \in {0, row.networkFee},
           row.networkFee # 0
    PROVE  LET settled == SettleNetworkFee(row, force)
           IN  /\ settled \in Row
               /\ settled.status = row.status /\ settled.fee = row.fee
               /\ settled.networkFee = row.networkFee
               /\ settled.entries["PLATFORM_FEE"] = row.entries["PLATFORM_FEE"]
               /\ settled.entries["NETWORK_FEE"] + settled.entries["NETWORK_FEE_REFUND"]
                  + settled.entries["NETWORK_FEE_ADJUSTMENT"] \in {0, row.networkFee}
               /\ NetworkFeeSettled(row) \/ force => NetworkFeeSettled(settled)
<1>. DEFINE actual == IF row.actual = Null THEN row.networkFee ELSE row.actual
            delta == actual - row.networkFee
            refund == IF delta < 0 THEN -delta ELSE 0
            charge == IF delta > 0 THEN -delta ELSE 0
            settled == SettleNetworkFee(row, force)
<1>1. /\ row.entries \in [UserEntry \cup PlatformEntry -> Int]
      /\ row.networkFee \in Nat
      /\ row.actual \in Nat \cup {Null}
  BY WithdrawalsAssumption DEF Row
<1>2. actual \in Nat /\ delta \in Int
  BY <1>1
<1>3. refund \in Int /\ charge \in Int /\ actual + refund + charge = row.networkFee
  BY <1>1, <1>2
<1>4. \/ settled = row /\ (NetworkFeeSettled(row) \/ ~force)
      \/ settled = [row EXCEPT !.entries["NETWORK_FEE"] = actual,
                               !.entries["NETWORK_FEE_REFUND"] = refund,
                               !.entries["NETWORK_FEE_ADJUSTMENT"] = charge]
  BY Zenon DEF SettleNetworkFee
<1>5. CASE settled = row /\ (NetworkFeeSettled(row) \/ ~force)
  BY <1>5
<1>6. CASE settled = [row EXCEPT !.entries["NETWORK_FEE"] = actual,
                                 !.entries["NETWORK_FEE_REFUND"] = refund,
                                 !.entries["NETWORK_FEE_ADJUSTMENT"] = charge]
  <2>. HIDE DEF actual, delta, refund, charge, settled
  <2>. DEFINE e == settled.entries
  <2>1. /\ e \in [UserEntry \cup PlatformEntry -> Int]
        /\ e["NETWORK_FEE"] = actual /\ e["NETWORK_FEE_REFUND"] = refund
        /\ e["NETWORK_FEE_ADJUSTMENT"] = charge
        /\ e["PLATFORM_FEE"] = row.entries["PLATFORM_FEE"]
    BY <1>1, <1>2, <1>3, <1>6 DEF Row, UserEntry, PlatformEntry
  <2>2. /\ settled \in Row /\ settled.status = row.status /\ settled.fee = row.fee
        /\ settled.networkFee = row.networkFee
    BY <2>1, <1>6 DEF Row
  <2>3. NetworkFeeSettled(settled)
    BY <2>1, <1>1, <1>2, <1>3 DEF NetworkFeeSettled
  <2>. QED
    BY <2>1, <2>2, <2>3, <1>3 DEF settled
<1>. QED
  BY <1>4, <1>5, <1>6

\* A broadcast and a confirmation book the platform's fee and settle the
\* network's.
LEMMA PaidMark ==
    ASSUME NEW row, Requested(row), NEW force \in BOOLEAN,
           NEW s \in {"broadcasted", "confirmed"}, s = "confirmed" => force
    PROVE  Requested(SettleNetworkFee([BookPlatformFee(row) EXCEPT !.status = s], force))
<1>. DEFINE b == BookPlatformFee(row)
            marked == [b EXCEPT !.status = s]
            settled == SettleNetworkFee(marked, force)
<1>1. Requested(b) /\ (FeeBooked(b) \/ b.fee = 0)
  BY BookedFee
<1>. HIDE DEF b
<1>2. /\ marked \in Row /\ marked.status = s /\ marked.fee = b.fee
      /\ marked.networkFee = b.networkFee /\ marked.entries = b.entries
  BY <1>1 DEF Requested, Row, WithdrawalStatus, UnresolvedStatus
<1>. HIDE DEF marked
<1>3. /\ marked.entries["PLATFORM_FEE"] \in {0, marked.fee}
      /\ marked.entries["NETWORK_FEE"] + marked.entries["NETWORK_FEE_REFUND"]
         + marked.entries["NETWORK_FEE_ADJUSTMENT"] \in {0, marked.networkFee}
      /\ marked.networkFee # 0
  BY <1>1, <1>2 DEF Requested, RowBooked
<1>4. /\ settled \in Row /\ settled.status = s /\ settled.fee = marked.fee
      /\ settled.networkFee = marked.networkFee
      /\ settled.entries["PLATFORM_FEE"] = marked.entries["PLATFORM_FEE"]
      /\ settled.entries["NETWORK_FEE"] + settled.entries["NETWORK_FEE_REFUND"]
         + settled.entries["NETWORK_FEE_ADJUSTMENT"] \in {0, marked.networkFee}
      /\ force => NetworkFeeSettled(settled)
  BY <1>2, <1>3, SettledFee
<1>. HIDE DEF settled
<1>5. FeeBooked(settled) \/ settled.fee = 0
  BY <1>1, <1>2, <1>4 DEF FeeBooked
<1>6. Requested(settled)
  BY <1>3, <1>4, <1>5 DEF Requested, RowBooked
<1>. QED
  BY <1>6 DEF settled, marked, b

LEMMA FailedMark ==
    ASSUME NEW row, Requested(row)
    PROVE  Requested(MarkFailed(row))
<1>. DEFINE failed == [row EXCEPT !.status = "failed"]
<1>1. Requested(failed)
  BY StatusMark
<1>2. row.amount + row.fee + row.networkFee \in Int
  <2>1. /\ row.amount \in WithdrawalAmounts \cup {0}
        /\ row.fee \in Nat /\ row.networkFee \in Nat
    BY DEF Requested, Row
  <2>2. WithdrawalAmounts \cup {0} \subseteq Nat
    BY WithdrawalsAssumption
  <2>. QED
    BY <2>1, <2>2
<1>3. MarkFailed(row) = AddEntry(failed, "RELEASE", row.amount + row.fee + row.networkFee)
  BY DEF MarkFailed
<1>. HIDE DEF failed
<1>. QED
  BY <1>1, <1>2, <1>3
     DEF Requested, Row, RowBooked, AddEntry, FeeBooked, NetworkFeeSettled,
         UserEntry, PlatformEntry

LEMMA Recorded ==
    ASSUME NEW row, Requested(row), NEW answer \in Answer
    PROVE  Requested(RecordResult(row, answer))
BY DEF Requested, Row, RowBooked, RecordResult, FeeBooked, NetworkFeeSettled, Answer, Record,
       Lost

\* What the signer makes of a row, whatever the answer.
LEMMA MarkKeepsBooks ==
    ASSUME NEW row, Requested(row), NEW answer \in Answer
    PROVE  /\ Requested(Executed(row, answer))
           /\ Requested(Reconciled(row, answer))
<1>1. ASSUME NEW s \in {"submitted", "broadcasted", "confirmed"}
      PROVE  Requested(MarkAs(RecordResult(row, answer), s))
  BY <1>1, Recorded, StatusMark, PaidMark
     DEF MarkAs, MarkSubmitted, MarkBroadcasted, MarkConfirmed, UnresolvedStatus
<1>2. Requested(MarkSignerRetry(row))
  BY StatusMark DEF MarkSignerRetry, UnresolvedStatus
<1>3. Requested(MarkFailed(row))
  BY FailedMark
<1>. QED
  BY <1>1, <1>2, <1>3 DEF Executed, Reconciled

-----------------------------------------------------------------------------
\* The table.

\* A nonempty set of rows has a first one.
LEMMA LeastId ==
    ASSUME NEW T \in SUBSET Nat, T # {}
    PROVE  \E x \in T : \A y \in T : x <= y
<1>. DEFINE Below == {ss \in Nat \X Nat : ss[1] < ss[2]}
<1>1. IsWellFoundedOn(OpToRel(<, Nat), Nat)
  BY NatLessThanWellFounded
<1>2. IsWellFoundedOn(Below, Nat)
  BY <1>1, Zenon DEF OpToRel
<1>3. PICK x \in T : \A y \in T : ~(<<y, x>> \in Below)
  BY <1>2, WFMin
<1>4. ASSUME NEW y \in T
      PROVE  x <= y
  <2>1. x \in Nat /\ y \in Nat /\ <<y, x>> \in Nat \X Nat
    OBVIOUS
  <2>2. ~(y < x)
    BY <1>3, <2>1
  <2>. QED
    BY <2>1, <2>2
<1>. QED
  BY <1>4

LEMMA FirstIsToDo ==
    ASSUME NEW p \in Process, session[p].todo \in SUBSET WithdrawalIds, session[p].todo # {}
    PROVE  First(p) \in session[p].todo
<1>1. \E w \in session[p].todo : \A v \in session[p].todo : w <= v
  BY LeastId, SignerAssumption
<1>. QED
  BY <1>1 DEF First

\* Both tables hold rows whose books are right, of the same withdrawals.
TablesBooked ==
    /\ db \in [WithdrawalIds -> Row] /\ work \in [WithdrawalIds -> Row]
    /\ \A w \in WithdrawalIds :
          /\ RowBooked(db[w]) /\ RowBooked(work[w])
          /\ db[w].status = "none" <=> work[w].status = "none"

\* A process has only withdrawals to do that exist, and those that need one have
\* one.
SessionsBusy ==
    /\ session \in [Process -> Session]
    /\ \A p \in Process :
          /\ \A w \in session[p].todo : db[w].status # "none"
          /\ session[p].answer # Null \/ session[p].job \in {"requeue", "fail"}
                => session[p].todo # {}

SignerInv == SignerTypeOK /\ TablesBooked /\ SessionsBusy

-----------------------------------------------------------------------------
\* Transactions.

\* What a process sees is one of the two tables.
LEMMA ViewBooked ==
    ASSUME TablesBooked, NEW p \in Process
    PROVE  /\ View(p) \in [WithdrawalIds -> Row]
           /\ \A w \in WithdrawalIds : /\ RowBooked(View(p)[w])
                                       /\ View(p)[w].status = "none" <=> db[w].status = "none"
BY DEF TablesBooked, View

\* No withdrawal that exists stops existing.
NoneLost == \A w \in WithdrawalIds : db[w].status # "none" => db'[w].status # "none"

LEMMA WriteStep ==
    ASSUME TablesBooked, NEW p \in Process, NEW w \in WithdrawalIds, NEW row,
           Requested(row), db[w].status # "none", Write(p, w, row),
           writer \in Process \cup {Null}
    PROVE  TablesBooked' /\ NoneLost /\ writer' \in Process \cup {Null}
<1>1. row \in Row /\ RowBooked(row) /\ row.status # "none"
  BY DEF Requested
<1>2. /\ work' \in [WithdrawalIds -> Row]
      /\ \A v \in WithdrawalIds : work'[v] = IF v = w THEN row ELSE View(p)[v]
  BY <1>1, ViewBooked DEF Write
<1>3. db' = db /\ writer' = p
  BY DEF Write
<1>. QED
  BY <1>1, <1>2, <1>3, ViewBooked DEF TablesBooked, NoneLost

LEMMA WriteAtOnceStep ==
    ASSUME TablesBooked, NEW w \in WithdrawalIds, NEW row, Requested(row),
           WriteAtOnce(w, row), writer \in Process \cup {Null}
    PROVE  TablesBooked' /\ NoneLost /\ writer' \in Process \cup {Null}
<1>1. row \in Row /\ RowBooked(row) /\ row.status # "none"
  BY DEF Requested
<1>2. /\ db' \in [WithdrawalIds -> Row] /\ work' = db' /\ writer' = writer
      /\ \A v \in WithdrawalIds : db'[v] = IF v = w THEN row ELSE db[v]
  BY <1>1 DEF WriteAtOnce, TablesBooked
<1>. QED
  BY <1>1, <1>2 DEF TablesBooked, NoneLost

LEMMA EndStep ==
    ASSUME TablesBooked, NEW p \in Process, CommitAll(p) \/ RollBack(p),
           writer \in Process \cup {Null}
    PROVE  TablesBooked' /\ NoneLost /\ writer' \in Process \cup {Null}
<1>1. /\ db' = db \/ db' = work
      /\ work' = work \/ work' = db
      /\ db' = work => work' = work
      /\ writer' \in {writer, Null}
  BY DEF CommitAll, RollBack, View
<1>. QED
  BY <1>1 DEF TablesBooked, NoneLost

LEMMA SameStep ==
    ASSUME TablesBooked, UNCHANGED <<db, work>>
    PROVE  TablesBooked' /\ NoneLost
BY DEF TablesBooked, NoneLost

-----------------------------------------------------------------------------
\* Types of the answers and of the record.

RecordTyped == record \in [WithdrawalIds -> Record \cup {Null}]

LEMMA HandledRecord ==
    ASSUME RecordTyped, NEW w \in WithdrawalIds, HandleExecute(w)
    PROVE  RecordTyped' /\ ExecuteAnswer(w) \in Answer
<1>1. RecordTyped' /\ (w \notin Unpayable => record'[w] \in Record)
  BY SignerAssumption
     DEF RecordTyped, HandleExecute, Record, ProviderStatus
<1>. QED
  BY <1>1 DEF ExecuteAnswer, Answer, Refusal, Record, ProviderStatus

LEMMA ReconcileAnswered ==
    ASSUME RecordTyped, NEW w \in WithdrawalIds
    PROVE  ReconcileAnswer(w) \in Answer
BY DEF RecordTyped, ReconcileAnswer, NotFound, Answer, Record, ProviderStatus

\* The faults are those that are counted.
Counted == faults \in 0 .. MaxFaults

LEMMA FaultCounted == Counted /\ (Fault \/ UNCHANGED faults) => Counted'
BY SignerAssumption DEF Counted, Fault

\* A session that goes on with one withdrawal less, or gets an answer, or ends.
LEMMA SessionSteps ==
    ASSUME SessionsBusy, NoneLost, NEW p \in Process
    PROVE  /\ Finish(p) => SessionsBusy'
           /\ \A w : session[p].job \notin {"requeue", "fail"} /\ Done(p, w) => SessionsBusy'
           /\ \A a \in Answer : session[p].todo # {} /\ Answered(p, a) => SessionsBusy'
           /\ UNCHANGED session => SessionsBusy'
<1>. USE DEF SessionsBusy, NoneLost, Session
<1>1. ASSUME Finish(p)
      PROVE  SessionsBusy'
  BY <1>1 DEF Finish, Idle, Job
<1>2. ASSUME NEW w, session[p].job \notin {"requeue", "fail"}, Done(p, w)
      PROVE  SessionsBusy'
  BY <1>2 DEF Done
<1>3. ASSUME NEW a \in Answer, session[p].todo # {}, Answered(p, a)
      PROVE  SessionsBusy'
  BY <1>3 DEF Answered
<1>4. ASSUME UNCHANGED session
      PROVE  SessionsBusy'
  BY <1>4
<1>. QED
  BY <1>1, <1>2, <1>3, <1>4

\* A session that begins with withdrawals that exist.
LEMMA SessionBegins ==
    ASSUME SessionsBusy, NoneLost, NEW p \in Process, NEW j \in Job,
           NEW T \in SUBSET WithdrawalIds, \A w \in T : db[w].status # "none",
           j \in {"requeue", "fail"} => T # {},
           session' = [session EXCEPT ![p] = [job |-> j, todo |-> T, answer |-> Null]]
    PROVE  SessionsBusy'
BY DEF SessionsBusy, NoneLost, Session

-----------------------------------------------------------------------------
\* The invariant.

LEMMA SignerInvInit == SignerInit => SignerInv
<1> SUFFICES ASSUME SignerInit PROVE SignerInv
  OBVIOUS
<1>1. record \in [WithdrawalIds -> Record \cup {Null}]
  BY DEF SignerInit, ProviderInit
<1>2. \A p \in Process : session[p] = Idle
  BY DEF SignerInit
<1>3. Idle \in Session
  BY DEF Idle, Session, Job
<1>4. session \in [Process -> Session] /\ SessionsBusy
  BY <1>2, <1>3 DEF SignerInit, SessionsBusy, Idle
<1>5. TablesBooked
  BY NoRowBooked DEF SignerInit, TablesBooked
<1>. QED
  BY <1>1, <1>4, <1>5, SignerAssumption DEF SignerInit, SignerInv, SignerTypeOK, TablesBooked

\* The parts of SignerTypeOK that neither of the other two has.
Rest == RecordTyped /\ writer \in Process \cup {Null} /\ delayed \subseteq WithdrawalIds /\ Counted

LEMMA SignerParts ==
    /\ SignerInv <=> TablesBooked /\ SessionsBusy /\ Rest
    /\ SignerInv' <=> TablesBooked' /\ SessionsBusy' /\ Rest'
BY DEF SignerInv, SignerTypeOK, TablesBooked, SessionsBusy, Rest, RecordTyped, Counted

LEMMA RequestStep ==
    ASSUME SignerInv, NEW w \in WithdrawalIds, NEW u \in WithdrawalUsers,
           NEW a \in WithdrawalAmounts, RequestWithdrawal(w, u, a)
    PROVE  SignerInv'
<1>1. Requested(NewRow(u, a))
  BY NewRowBooked
<1>2. /\ WriteAtOnce(w, NewRow(u, a))
      /\ UNCHANGED <<record, session, delayed, faults>>
  BY DEF RequestWithdrawal
<1>3. TablesBooked' /\ NoneLost /\ writer' \in Process \cup {Null}
  BY <1>1, <1>2, WriteAtOnceStep, SignerParts DEF Rest
<1>4. SessionsBusy'
  BY <1>2, <1>3, SignerParts, SessionSteps DEF Process
<1>. QED
  BY <1>2, <1>3, <1>4, SignerParts DEF Rest, RecordTyped, Counted

\* A step that only begins a session.
LEMMA BeginStep ==
    ASSUME SignerInv, NEW p \in Process, NEW j \in Job,
           NEW T \in SUBSET WithdrawalIds, \A w \in T : db[w].status # "none",
           j \in {"requeue", "fail"} => T # {},
           session' = [session EXCEPT ![p] = [job |-> j, todo |-> T, answer |-> Null]],
           UNCHANGED <<record, db, work, writer, delayed, faults>>
    PROVE  SignerInv'
<1>1. TablesBooked' /\ NoneLost
  BY SameStep, SignerParts
<1>2. SessionsBusy'
  BY <1>1, SessionBegins, SignerParts
<1>. QED
  BY <1>1, <1>2, SignerParts DEF Rest, RecordTyped, Counted

LEMMA StartCycleStep ==
    ASSUME SignerInv, NEW p \in Process, StartCycle(p)
    PROVE  SignerInv'
<1>1. \A w \in {v \in WithdrawalIds : db[v].status = "pending"} : db[w].status # "none"
  OBVIOUS
<1>. QED
  BY <1>1, BeginStep DEF StartCycle, Job

LEMMA BeginReconcileStep ==
    ASSUME SignerInv, NEW p \in Process, NEW due \in SUBSET WithdrawalIds,
           BeginReconcile(p, due)
    PROVE  SignerInv'
<1>1. ASSUME NEW w \in due
      PROVE  db[w].status # "none"
  <2>1. View(p)[w].status \in ReconcilableStatus
    BY <1>1 DEF BeginReconcile
  <2>2. View(p)[w].status # "none"
    BY <2>1 DEF ReconcilableStatus
  <2>. QED
    BY <2>2, ViewBooked, SignerParts
<1>. QED
  BY <1>1, BeginStep DEF BeginReconcile, Job

LEMMA StartTargetedStep ==
    ASSUME SignerInv, NEW w \in WithdrawalIds, StartTargeted(w)
    PROVE  SignerInv'
<1>1. {w} \in SUBSET WithdrawalIds /\ \A v \in {w} : db[v].status # "none"
  BY DEF StartTargeted, ReconcilableStatus
<1>2. "targeted" \in Job /\ "bot" \in Process
  BY DEF Job, Process
<1>. QED
  BY <1>1, <1>2, BeginStep DEF StartTargeted

LEMMA CheckRetryStep ==
    ASSUME SignerInv, NEW w \in WithdrawalIds, NEW action \in {"requeue", "fail"},
           CheckRetry(w, action)
    PROVE  SignerInv'
<1>1. {w} \in SUBSET WithdrawalIds /\ \A v \in {w} : db[v].status # "none"
  BY DEF CheckRetry
<1>2. action \in Job /\ "bot" \in Process
  BY DEF Job, Process
<1>. QED
  BY <1>1, <1>2, BeginStep DEF CheckRetry

\* The withdrawal a process is at exists.
LEMMA AtFirst ==
    ASSUME SignerInv, NEW p \in Process, session[p].todo # {}
    PROVE  /\ First(p) \in WithdrawalIds
           /\ db[First(p)].status # "none"
           /\ Requested(View(p)[First(p)])
           /\ Requested(db[First(p)])
<1>1. session[p].todo \in SUBSET WithdrawalIds
  BY SignerParts DEF SessionsBusy, Session
<1>2. First(p) \in session[p].todo
  BY <1>1, FirstIsToDo
<1>3. First(p) \in WithdrawalIds /\ db[First(p)].status # "none"
  BY <1>1, <1>2, SignerParts DEF SessionsBusy
<1>4. /\ db[First(p)] \in Row /\ RowBooked(db[First(p)])
      /\ View(p)[First(p)] \in Row /\ RowBooked(View(p)[First(p)])
      /\ View(p)[First(p)].status # "none"
  BY <1>3, ViewBooked, SignerParts DEF TablesBooked
<1>. QED
  BY <1>3, <1>4 DEF Requested

LEMMA CallExecuteStep ==
    ASSUME SignerInv, NEW p \in Process, CallExecute(p)
    PROVE  SignerInv'
<1>. DEFINE w == First(p)
<1>1. session[p].todo # {} /\ Write(p, w, View(p)[w])
  BY DEF CallExecute, Calling
<1>2. w \in WithdrawalIds /\ db[w].status # "none" /\ Requested(View(p)[w])
  BY <1>1, AtFirst
<1>3. TablesBooked' /\ NoneLost /\ writer' \in Process \cup {Null}
  BY <1>1, <1>2, WriteStep, SignerParts DEF Rest
<1>4. \/ HandleExecute(w) /\ Answered(p, ExecuteAnswer(w)) /\ UNCHANGED <<delayed, faults>>
      \/ Answered(p, Lost) /\ delayed' = delayed \cup {w} /\ Fault /\ record' = record
  BY DEF CallExecute
<1>. HIDE DEF w
<1>5. CASE HandleExecute(w) /\ Answered(p, ExecuteAnswer(w)) /\ UNCHANGED <<delayed, faults>>
  <2>1. RecordTyped' /\ ExecuteAnswer(w) \in Answer
    BY <1>2, <1>5, HandledRecord, SignerParts DEF Rest
  <2>2. SessionsBusy'
    BY <1>1, <1>3, <1>5, <2>1, SessionSteps, SignerParts
  <2>. QED
    BY <1>3, <1>5, <2>1, <2>2, SignerParts DEF Rest, Counted
<1>6. CASE Answered(p, Lost) /\ delayed' = delayed \cup {w} /\ Fault /\ record' = record
  <2>1. Lost \in Answer
    BY DEF Answer
  <2>2. SessionsBusy'
    BY <1>1, <1>3, <1>6, <2>1, SessionSteps, SignerParts
  <2>3. Counted'
    BY <1>6, FaultCounted, SignerParts DEF Rest
  <2>. QED
    BY <1>2, <1>3, <1>6, <2>2, <2>3, SignerParts DEF Rest, RecordTyped
<1>. QED
  BY <1>4, <1>5, <1>6

LEMMA CallReconcileStep ==
    ASSUME SignerInv, NEW p \in Process, CallReconcile(p)
    PROVE  SignerInv'
<1>1. /\ session[p].todo # {}
      /\ UNCHANGED <<record, db, work, writer, delayed>>
      /\ Fault \/ UNCHANGED faults
      /\ Answered(p, ReconcileAnswer(First(p))) \/ Answered(p, Lost)
  BY DEF CallReconcile, Calling
<1>2. ReconcileAnswer(First(p)) \in Answer /\ Lost \in Answer
  BY <1>1, AtFirst, ReconcileAnswered, SignerParts DEF Rest, Answer
<1>3. TablesBooked' /\ NoneLost
  BY <1>1, SameStep, SignerParts
<1>4. SessionsBusy'
  BY <1>1, <1>2, <1>3, SessionSteps, SignerParts
<1>5. Counted'
  BY <1>1, FaultCounted, SignerParts DEF Rest
<1>. QED
  BY <1>1, <1>3, <1>4, <1>5, SignerParts DEF Rest, RecordTyped

\* The marks of a cycle.
LEMMA CycleMarkStep ==
    ASSUME SignerInv, NEW p \in Process, MarkExecuted(p) \/ MarkReconciled(p)
    PROVE  SignerInv'
<1>. DEFINE w == First(p)
            answer == session[p].answer
<1>1. /\ answer # Null /\ session[p].job \notin {"requeue", "fail"}
      /\ \/ Write(p, w, Executed(View(p)[w], answer))
         \/ Write(p, w, Reconciled(View(p)[w], answer))
      /\ Done(p, w)
      /\ UNCHANGED <<record, delayed, faults>>
  BY DEF MarkExecuted, MarkReconciled
<1>2. answer \in Answer /\ session[p].todo # {}
  BY <1>1, SignerParts DEF SessionsBusy, Session
<1>3. w \in WithdrawalIds /\ db[w].status # "none" /\ Requested(View(p)[w])
  BY <1>2, AtFirst
<1>. HIDE DEF w, answer
<1>4. Requested(Executed(View(p)[w], answer)) /\ Requested(Reconciled(View(p)[w], answer))
  BY <1>2, <1>3, MarkKeepsBooks
<1>5. TablesBooked' /\ NoneLost /\ writer' \in Process \cup {Null}
  BY <1>1, <1>3, <1>4, WriteStep, SignerParts DEF Rest
<1>6. SessionsBusy'
  BY <1>1, <1>5, SessionSteps, SignerParts
<1>. QED
  BY <1>1, <1>5, <1>6, SignerParts DEF Rest, RecordTyped, Counted

\* The marks of the bot, in transactions of their own.
LEMMA CommandMarkStep ==
    ASSUME SignerInv, MarkTargeted \/ ActOnRetry
    PROVE  SignerInv'
<1>. DEFINE w == First("bot")
            answer == session["bot"].answer
<1>1. "bot" \in Process /\ session["bot"].todo # {}
  BY SignerParts DEF MarkTargeted, ActOnRetry, SessionsBusy, Process
<1>2. w \in WithdrawalIds /\ Requested(db[w])
  BY <1>1, AtFirst
<1>3. Finish("bot") /\ UNCHANGED <<record, delayed, faults>>
  BY DEF MarkTargeted, ActOnRetry
<1>4. \E row : Requested(row) /\ WriteAtOnce(w, row)
  <2>1. CASE MarkTargeted
    <3>1. answer \in Answer
      BY <1>1, <2>1, SignerParts DEF MarkTargeted, SessionsBusy, Session
    <3>2. Requested(Reconciled(db[w], answer))
      BY <1>2, <3>1, MarkKeepsBooks
    <3>. QED
      BY <1>2, <2>1, <3>2 DEF MarkTargeted
  <2>2. CASE ActOnRetry
    <3>1. Requested(MarkFailed(db[w])) /\ Requested(Requeue(db[w]))
      BY <1>2, FailedMark, StatusMark DEF Requeue, UnresolvedStatus
    <3>. QED
      BY <2>2, <3>1 DEF ActOnRetry
  <2>. QED
    BY <2>1, <2>2
<1>. HIDE DEF w
<1>5. TablesBooked' /\ NoneLost /\ writer' \in Process \cup {Null}
  BY <1>2, <1>4, WriteAtOnceStep, SignerParts DEF Rest
<1>6. SessionsBusy'
  BY <1>1, <1>3, <1>5, SessionSteps, SignerParts
<1>. QED
  BY <1>3, <1>5, <1>6, SignerParts DEF Rest, RecordTyped, Counted

LEMMA CycleEndStep ==
    ASSUME SignerInv, NEW p \in Process, CommitCycle(p) \/ BreakOff(p)
    PROVE  SignerInv'
<1>1. /\ CommitAll(p) \/ RollBack(p)
      /\ Finish(p)
      /\ Fault \/ UNCHANGED faults
      /\ UNCHANGED <<record, delayed>>
  BY DEF CommitCycle, BreakOff
<1>2. TablesBooked' /\ NoneLost /\ writer' \in Process \cup {Null}
  BY <1>1, EndStep, SignerParts DEF Rest
<1>3. SessionsBusy'
  BY <1>1, <1>2, SessionSteps, SignerParts
<1>4. Counted'
  BY <1>1, FaultCounted, SignerParts DEF Rest
<1>. QED
  BY <1>1, <1>2, <1>3, <1>4, SignerParts DEF Rest, RecordTyped

LEMMA ProviderStep ==
    ASSUME SignerInv, NEW w \in WithdrawalIds, LateRequest(w) \/ OperatorActs(w)
    PROVE  SignerInv'
<1>1. /\ UNCHANGED <<db, work, writer, session, faults>>
      /\ delayed' \subseteq delayed
  BY DEF LateRequest, OperatorActs
<1>2. RecordTyped'
  <2>1. CASE LateRequest(w)
    BY <2>1, HandledRecord, SignerParts DEF LateRequest, Rest
  <2>2. CASE OperatorActs(w)
    BY <2>2, SignerParts DEF OperatorActs, UpdateStatus, Rest, RecordTyped, Record
  <2>. QED
    BY <2>1, <2>2
<1>3. TablesBooked' /\ NoneLost
  BY <1>1, SameStep, SignerParts
<1>4. SessionsBusy'
  BY <1>1, <1>3, SessionSteps, SignerParts DEF Process
<1>. QED
  BY <1>1, <1>2, <1>3, <1>4, SignerParts DEF Rest, Counted

LEMMA SignerInvStep == SignerInv /\ [SignerNext]_signerVars => SignerInv'
<1> SUFFICES ASSUME SignerInv, [SignerNext]_signerVars PROVE SignerInv'
  OBVIOUS
<1>1. CASE UNCHANGED signerVars
  BY <1>1 DEF signerVars, SignerInv, SignerTypeOK, TablesBooked, SessionsBusy
<1>2. ASSUME NEW p \in Process, CycleStep(p)
      PROVE  SignerInv'
  BY <1>2, CallExecuteStep, CycleMarkStep, CallReconcileStep, CycleEndStep DEF CycleStep
<1>. QED
  BY <1>1, <1>2, RequestStep, StartCycleStep, BeginReconcileStep, CycleEndStep,
     StartTargetedStep, CheckRetryStep, ProviderStep, CommandMarkStep
     DEF SignerNext

THEOREM SignerInvariant == SignerSpec => []SignerInv
BY SignerInvInit, SignerInvStep, PTL DEF SignerSpec

\* Every table and every session keeps its type, through crashes, lost answers
\* and overlapping cycles.
THEOREM SignerIsTyped == SignerSpec => []SignerTypeOK
<1>1. SignerInv => SignerTypeOK
  BY DEF SignerInv
<1>. QED
  BY <1>1, SignerInvariant, PTL

\* The platform fee is booked once and the network fee settled once, whoever
\* marks a row, how often and with answers of whatever age (_book_withdrawal_
\* platform_fee_if_needed, _settle_withdrawal_network_fee_if_needed).
THEOREM FeesAreBookedOnce == SignerSpec => []FeesBookedOnce
<1>1. SignerInv => FeesBookedOnce
  BY DEF SignerInv, TablesBooked, RowBooked, FeesBookedOnce
<1>. QED
  BY <1>1, SignerInvariant, PTL

-----------------------------------------------------------------------------
\* Payments that nobody refuses.

\* The provider takes every withdrawal, its operator turns none down, and no
\* admin fails one.
NothingRefused ==
    /\ Unpayable = {} /\ AdminFailsWhen = {}
    /\ \A move \in OperatorMoves : move[2] \notin {"rejected", "permanent_failure"}

WholeQuanta(n) == n % Quantum = 0

\* Amounts and the network's estimate have no more decimals than the wallet
\* quantizes to, and every withdrawal costs a fee.
WholeDebits ==
    /\ WholeQuanta(NetworkFee)
    /\ \A a \in WithdrawalAmounts : WholeQuanta(a) /\ WithdrawalPlatformFee(a) > 0

LEMMA QuantaOf ==
    ASSUME NEW n \in Nat, WholeQuanta(n)
    PROVE  \E k \in Nat : n = k * Quantum
<1>1. Quantum \in Nat \ {0}
  BY WithdrawalsAssumption
<1>2. n \div Quantum \in Nat /\ n = (n \div Quantum) * Quantum
  BY <1>1, SMTT(30) DEF WholeQuanta
<1>. QED
  BY <1>2

LEMMA QuantaAreExact ==
    ASSUME NEW k \in Nat
    PROVE  QuantizeAsset(k * Quantum, 1) = k * Quantum
<1>1. Quantum \in Nat \ {0} /\ 1 * Quantum = Quantum /\ 2 * 1 * Quantum = 2 * Quantum
  BY WithdrawalsAssumption
<1>2. (2 * (k * Quantum) + Quantum) \div (2 * Quantum) = k
  BY <1>1, SMTT(30)
<1>. QED
  BY <1>1, <1>2, SMTT(30) DEF QuantizeAsset

\* A fee is whole quanta, so the reservation is the sum that a release adds up.
LEMMA DebitIsSum ==
    ASSUME WholeDebits, NEW a \in WithdrawalAmounts
    PROVE  WithdrawalTotalDebit(a) = a + WithdrawalPlatformFee(a) + NetworkFee
<1>1. Quantum \in Nat \ {0} /\ a \in Nat /\ NetworkFee \in Nat /\ WithdrawalFeeBps \in Nat
  BY WithdrawalsAssumption
<1>2. PICK j \in Nat : a = j * Quantum
  BY <1>1, QuantaOf DEF WholeDebits
<1>3. PICK m \in Nat : NetworkFee = m * Quantum
  BY <1>1, QuantaOf DEF WholeDebits
<1>4. PICK q \in Nat : WithdrawalPlatformFee(a) = q * Quantum
  <2>1. a * WithdrawalFeeBps \in Nat
    BY <1>1, SMTT(30)
  <2>. QED
    BY <2>1, QuantizeIsWhole DEF WithdrawalPlatformFee
<1>5. a + WithdrawalPlatformFee(a) + NetworkFee = (j + q + m) * Quantum
  BY <1>1, <1>2, <1>3, <1>4, SMTT(30)
<1>. QED
  BY <1>5, QuantaAreExact DEF WithdrawalTotalDebit

\* What is booked of a withdrawal that was never refused.
Ledger(row) ==
    /\ row.amount > 0 /\ row.fee > 0
    /\ row.entries["RESERVE"] = -(row.amount + row.fee + row.networkFee)
    /\ row.entries["RELEASE"] = 0
    /\ row.entries["NETWORK_FEE"] >= 0
    /\ NetworkFeeSettled(row) =>
          /\ FeeBooked(row)
          /\ row.entries["NETWORK_FEE"] + row.entries["NETWORK_FEE_REFUND"]
             + row.entries["NETWORK_FEE_ADJUSTMENT"] = row.networkFee

NetworkEntry == {"NETWORK_FEE", "NETWORK_FEE_REFUND", "NETWORK_FEE_ADJUSTMENT"}

\* A later state s of a row r: the request stands, and so does what was booked.
Onward(r, s) ==
    /\ r.status = "none" => s = r
    /\ r.status # "none" => s.status # "none"
    /\ s.amount = r.amount /\ s.fee = r.fee /\ s.networkFee = r.networkFee
    /\ FeeBooked(r) => FeeBooked(s)
    /\ NetworkFeeSettled(r) => \A t \in NetworkEntry : s.entries[t] = r.entries[t]

LEMMA OnwardIsOrder ==
    ASSUME NEW r, NEW s, NEW t
    PROVE  /\ Onward(r, r)
           /\ Onward(r, s) /\ Onward(s, t) => Onward(r, t)
BY DEF Onward, NetworkFeeSettled, NetworkEntry

\* A mark that books nothing.
LEMMA SameBooks ==
    ASSUME NEW r, NEW s, Ledger(r), r.status # "none", s.status # "none",
           s.amount = r.amount, s.fee = r.fee, s.networkFee = r.networkFee,
           s.entries = r.entries
    PROVE  Ledger(s) /\ Onward(r, s)
BY DEF Ledger, Onward, FeeBooked, NetworkFeeSettled, NetworkEntry

LEMMA NewRowLedger ==
    ASSUME WholeDebits, NEW u \in WithdrawalUsers, NEW a \in WithdrawalAmounts
    PROVE  LET row == NewRow(u, a)
           IN  Ledger(row) /\ ~FeeBooked(row) /\ ~NetworkFeeSettled(row)
<1>1. /\ WithdrawalPlatformFee(a) \in Nat \ {0} /\ a \in Nat \ {0}
      /\ WithdrawalTotalDebit(a) = a + WithdrawalPlatformFee(a) + NetworkFee
      /\ NetworkFee \in Nat \ {0}
  BY FeesAreNaturals, DebitIsSum, WithdrawalsAssumption DEF WholeDebits
<1>. DEFINE blank == [NoRow EXCEPT !.status = "pending", !.user = u, !.amount = a,
                                   !.fee = WithdrawalPlatformFee(a), !.networkFee = NetworkFee]
            row == NewRow(u, a)
<1>2. /\ NoRow.entries \in [UserEntry \cup PlatformEntry -> Int]
      /\ \A t \in UserEntry \cup PlatformEntry : NoRow.entries[t] = 0
  BY DEF NoRow
<1>3. /\ blank \in Row /\ blank.amount = a /\ blank.fee = WithdrawalPlatformFee(a)
      /\ blank.networkFee = NetworkFee /\ blank.entries = NoRow.entries
  BY <1>1, NoRowBooked DEF Row, WithdrawalStatus, UnresolvedStatus
<1>4. row = [blank EXCEPT !.entries["RESERVE"] = @ + (-WithdrawalTotalDebit(a))]
  BY DEF NewRow, AddEntry
<1>. HIDE DEF blank, row
<1>5. /\ row.amount = a /\ row.fee = WithdrawalPlatformFee(a) /\ row.networkFee = NetworkFee
      /\ row.entries["RESERVE"] = -(a + WithdrawalPlatformFee(a) + NetworkFee)
      /\ \A t \in PlatformEntry \cup (UserEntry \ {"RESERVE"}) : row.entries[t] = 0
  BY <1>1, <1>2, <1>3, <1>4 DEF Row, UserEntry, PlatformEntry
<1>6. Ledger(row) /\ ~FeeBooked(row) /\ ~NetworkFeeSettled(row)
  BY <1>1, <1>5 DEF Ledger, FeeBooked, NetworkFeeSettled, UserEntry, PlatformEntry
<1>. QED
  BY <1>6 DEF row

LEMMA BookedLedger ==
    ASSUME NEW row, Requested(row), Ledger(row)
    PROVE  LET b == BookPlatformFee(row)
           IN  Ledger(b) /\ Onward(row, b) /\ FeeBooked(b)
<1>1. /\ row.entries \in [UserEntry \cup PlatformEntry -> Int] /\ row.fee \in Nat \ {0}
      /\ row.status # "none"
  BY DEF Requested, Row, Ledger
<1>2. CASE FeeBooked(row)
  BY <1>2, OnwardIsOrder DEF BookPlatformFee
<1>3. CASE ~FeeBooked(row)
  <2>1. BookPlatformFee(row) = [row EXCEPT !.entries["PLATFORM_FEE"] = @ + row.fee]
    BY <1>3 DEF BookPlatformFee, AddEntry
  <2>. DEFINE b == BookPlatformFee(row)
  <2>. HIDE DEF b
  <2>2. /\ b.status = row.status /\ b.amount = row.amount /\ b.fee = row.fee
        /\ b.networkFee = row.networkFee
        /\ b.entries["PLATFORM_FEE"] = row.fee
        /\ \A t \in {"RESERVE", "RELEASE"} \cup NetworkEntry : b.entries[t] = row.entries[t]
    BY <1>1, <1>3, <2>1 DEF b, Requested, Row, FeeBooked, UserEntry, PlatformEntry, NetworkEntry
  <2>3. FeeBooked(b) /\ (NetworkFeeSettled(b) <=> NetworkFeeSettled(row))
    BY <1>1, <2>2 DEF FeeBooked, NetworkFeeSettled, NetworkEntry
  <2>4. Ledger(b) /\ Onward(row, b)
    BY <1>1, <2>2, <2>3 DEF Ledger, Onward, NetworkEntry
  <2>. QED
    BY <2>3, <2>4 DEF b
<1>. QED
  BY <1>2, <1>3

LEMMA SettledLedger ==
    ASSUME NEW row \in Row, row.status # "none", Ledger(row), FeeBooked(row),
           NEW force \in BOOLEAN
    PROVE  LET s == SettleNetworkFee(row, force)
           IN  Ledger(s) /\ Onward(row, s)
<1>. DEFINE actual == IF row.actual = Null THEN row.networkFee ELSE row.actual
            delta == actual - row.networkFee
            refund == IF delta < 0 THEN -delta ELSE 0
            charge == IF delta > 0 THEN -delta ELSE 0
            s == SettleNetworkFee(row, force)
<1>1. /\ row.entries \in [UserEntry \cup PlatformEntry -> Int]
      /\ row.networkFee \in Nat /\ actual \in Nat
  BY WithdrawalsAssumption DEF Row
<1>2. actual + refund + charge = row.networkFee
  BY <1>1
<1>3. \/ s = row
      \/ /\ ~NetworkFeeSettled(row)
         /\ s = [row EXCEPT !.entries["NETWORK_FEE"] = actual,
                            !.entries["NETWORK_FEE_REFUND"] = refund,
                            !.entries["NETWORK_FEE_ADJUSTMENT"] = charge]
  BY Zenon DEF SettleNetworkFee
<1>. HIDE DEF actual, refund, charge, s
<1>4. CASE s = row
  BY <1>4, OnwardIsOrder DEF s
<1>5. CASE /\ ~NetworkFeeSettled(row)
           /\ s = [row EXCEPT !.entries["NETWORK_FEE"] = actual,
                              !.entries["NETWORK_FEE_REFUND"] = refund,
                              !.entries["NETWORK_FEE_ADJUSTMENT"] = charge]
  <2>1. /\ s.status = row.status /\ s.amount = row.amount /\ s.fee = row.fee
        /\ s.networkFee = row.networkFee
        /\ s.entries["NETWORK_FEE"] = actual
        /\ s.entries["NETWORK_FEE_REFUND"] = refund
        /\ s.entries["NETWORK_FEE_ADJUSTMENT"] = charge
        /\ \A t \in {"RESERVE", "RELEASE", "PLATFORM_FEE"} : s.entries[t] = row.entries[t]
    BY <1>1, <1>5 DEF Row, UserEntry, PlatformEntry
  <2>2. FeeBooked(s)
    BY <2>1 DEF FeeBooked
  <2>3. Ledger(s) /\ Onward(row, s)
    BY <1>1, <1>2, <1>5, <2>1, <2>2 DEF Ledger, Onward
  <2>. QED
    BY <2>3 DEF s
<1>. QED
  BY <1>3, <1>4, <1>5

LEMMA PaidLedger ==
    ASSUME NEW row, Requested(row), Ledger(row), NEW force \in BOOLEAN,
           NEW status \in {"broadcasted", "confirmed"}
    PROVE  LET s == SettleNetworkFee([BookPlatformFee(row) EXCEPT !.status = status], force)
           IN  Ledger(s) /\ Onward(row, s)
<1>. DEFINE b == BookPlatformFee(row)
            marked == [b EXCEPT !.status = status]
<1>1. Requested(b) /\ Ledger(b) /\ Onward(row, b) /\ FeeBooked(b)
  BY BookedFee, BookedLedger
<1>. HIDE DEF b
<1>2. /\ marked \in Row /\ marked.status = status /\ marked.amount = b.amount
      /\ marked.fee = b.fee /\ marked.networkFee = b.networkFee /\ marked.entries = b.entries
  BY <1>1 DEF Requested, Row, WithdrawalStatus, UnresolvedStatus
<1>. HIDE DEF marked
<1>3. Ledger(marked) /\ Onward(b, marked) /\ FeeBooked(marked)
  BY <1>1, <1>2, SameBooks DEF Requested, FeeBooked
<1>4. LET s == SettleNetworkFee(marked, force) IN Ledger(s) /\ Onward(marked, s)
  BY <1>2, <1>3, SettledLedger
<1>5. LET s == SettleNetworkFee(marked, force) IN Ledger(s) /\ Onward(row, s)
  BY <1>1, <1>3, <1>4, OnwardIsOrder
<1>. QED
  BY <1>5 DEF marked, b

Refused == {"rejected", "permanent_failure"}

\* What the signer makes of a row, while no answer is a refusal.
LEMMA MarkKeepsLedger ==
    ASSUME NEW row, Requested(row), Ledger(row),
           NEW answer \in Answer, answer.status \notin Refused
    PROVE  /\ Ledger(Executed(row, answer)) /\ Onward(row, Executed(row, answer))
           /\ Ledger(Reconciled(row, answer)) /\ Onward(row, Reconciled(row, answer))
<1>. DEFINE recorded == RecordResult(row, answer)
            retry == MarkSignerRetry(row)
<1>1. Requested(recorded) /\ Ledger(recorded) /\ Onward(row, recorded)
  <2>1. /\ recorded.status = row.status /\ recorded.amount = row.amount
        /\ recorded.fee = row.fee /\ recorded.networkFee = row.networkFee
        /\ recorded.entries = row.entries
    BY DEF RecordResult, Requested, Row
  <2>. QED
    BY <2>1, Recorded, SameBooks DEF Requested
<1>2. Ledger(retry) /\ Onward(row, retry)
  BY SameBooks DEF MarkSignerRetry, Requested, Row
<1>. HIDE DEF recorded, retry
<1>3. ASSUME NEW s \in {"submitted", "broadcasted", "confirmed"}
      PROVE  Ledger(MarkAs(recorded, s)) /\ Onward(row, MarkAs(recorded, s))
  <2>. DEFINE m == MarkAs(recorded, s)
  <2>1. Ledger(m) /\ Onward(recorded, m)
    <3>1. CASE s = "submitted"
      BY <1>1, <3>1, SameBooks DEF MarkAs, MarkSubmitted, Requested, Row
    <3>2. CASE s = "broadcasted"
      BY <1>1, <3>2, PaidLedger DEF MarkAs, MarkBroadcasted
    <3>3. CASE s = "confirmed"
      BY <1>1, <3>3, PaidLedger DEF MarkAs, MarkConfirmed
    <3>. QED
      BY <1>3, <3>1, <3>2, <3>3
  <2>. HIDE DEF m
  <2>2. Ledger(m) /\ Onward(row, m)
    BY <1>1, <2>1, OnwardIsOrder
  <2>. QED
    BY <2>2 DEF m
<1>. QED
  BY <1>2, <1>3 DEF Executed, Reconciled, Refused, recorded, retry

-----------------------------------------------------------------------------
\* Tables and sessions while nothing is refused.

\* What is committed has its ledger, and whoever writes has moved it on only.
TablesPaid ==
    \A w \in WithdrawalIds :
        /\ db[w].status # "none" => Ledger(db[w]) /\ Ledger(work[w])
        /\ Onward(db[w], work[w])

NoRefusals ==
    /\ \A w \in WithdrawalIds : record[w] # Null => record[w].status \notin Refused
    /\ \A p \in Process :
          /\ session[p].answer # Null => session[p].answer.status \notin Refused
          /\ session[p].job # "fail"

PayoutInv == TablesPaid /\ NoRefusals

\* A committed row moves on, or is new.
Advances(w) ==
    \/ Onward(db[w], db'[w])
    \/ /\ db[w].status = "none" /\ db'[w].status # "none" /\ Ledger(db'[w])
       /\ ~FeeBooked(db'[w]) /\ ~NetworkFeeSettled(db'[w])

AllAdvance == \A w \in WithdrawalIds : Advances(w)

LEMMA StillAdvances ==
    ASSUME TablesPaid, UNCHANGED <<db, work>>
    PROVE  TablesPaid' /\ AllAdvance
BY OnwardIsOrder DEF TablesPaid, AllAdvance, Advances

LEMMA WriteAdvances ==
    ASSUME SignerInv, TablesPaid, NEW p \in Process, NEW w \in WithdrawalIds, NEW row,
           db[w].status # "none", Ledger(row), Onward(View(p)[w], row), Write(p, w, row)
    PROVE  TablesPaid' /\ AllAdvance
<1>1. \A v \in WithdrawalIds : /\ db[v].status # "none" => Ledger(View(p)[v])
                               /\ Onward(db[v], View(p)[v])
  BY OnwardIsOrder DEF TablesPaid, View
<1>2. Onward(db[w], row)
  BY <1>1, OnwardIsOrder
<1>3. View(p) \in [WithdrawalIds -> Row]
  BY ViewBooked, SignerParts
<1>4. /\ db' = db
      /\ \A v \in WithdrawalIds : work'[v] = IF v = w THEN row ELSE View(p)[v]
  BY <1>3 DEF Write
<1>. QED
  BY <1>1, <1>2, <1>4, OnwardIsOrder DEF TablesPaid, AllAdvance, Advances

\* A row that is committed at once, moved on or new.
LEMMA AtOnceAdvances ==
    ASSUME SignerInv, TablesPaid, NEW w \in WithdrawalIds, NEW row, Ledger(row),
           \/ Onward(db[w], row)
           \/ /\ db[w].status = "none" /\ row.status # "none"
              /\ ~FeeBooked(row) /\ ~NetworkFeeSettled(row),
           WriteAtOnce(w, row)
    PROVE  TablesPaid' /\ AllAdvance
<1>1. /\ work' = db'
      /\ \A v \in WithdrawalIds : db'[v] = IF v = w THEN row ELSE db[v]
  BY SignerParts DEF WriteAtOnce, TablesBooked
<1>. QED
  BY <1>1, OnwardIsOrder DEF TablesPaid, AllAdvance, Advances

LEMMA EndAdvances ==
    ASSUME SignerInv, TablesPaid, NEW p \in Process, CommitAll(p) \/ RollBack(p)
    PROVE  TablesPaid' /\ AllAdvance
<1>1. /\ db' = db \/ db' = work
      /\ work' = work \/ work' = db
      /\ db' = work => work' = work
  BY DEF CommitAll, RollBack, View
<1>2. \A w \in WithdrawalIds : db[w].status = "none" <=> work[w].status = "none"
  BY SignerParts DEF TablesBooked
<1>. QED
  BY <1>1, <1>2, OnwardIsOrder DEF TablesPaid, AllAdvance, Advances

\* The rows a process is at, while nothing is refused.
LEMMA LedgerAtFirst ==
    ASSUME SignerInv, TablesPaid, NEW p \in Process, session[p].todo # {}
    PROVE  LET w == First(p)
           IN  /\ w \in WithdrawalIds /\ db[w].status # "none"
               /\ Requested(View(p)[w]) /\ Ledger(View(p)[w])
               /\ Requested(db[w]) /\ Ledger(db[w])
BY AtFirst DEF TablesPaid, View

LEMMA MarksAdvance ==
    ASSUME SignerInv, PayoutInv, NEW p \in Process,
           CallExecute(p) \/ MarkExecuted(p) \/ MarkReconciled(p)
    PROVE  TablesPaid' /\ AllAdvance
<1>. DEFINE w == First(p)
            answer == session[p].answer
<1>1. CASE CallExecute(p)
  <2>1. session[p].todo # {} /\ Write(p, w, View(p)[w])
    BY <1>1 DEF CallExecute, Calling
  <2>2. w \in WithdrawalIds /\ db[w].status # "none" /\ Ledger(View(p)[w])
    BY <2>1, LedgerAtFirst DEF PayoutInv
  <2>. QED
    BY <2>1, <2>2, OnwardIsOrder, WriteAdvances DEF PayoutInv
<1>2. CASE MarkExecuted(p) \/ MarkReconciled(p)
  <2>1. /\ answer # Null
        /\ \/ Write(p, w, Executed(View(p)[w], answer))
           \/ Write(p, w, Reconciled(View(p)[w], answer))
    BY <1>2 DEF MarkExecuted, MarkReconciled
  <2>2. /\ answer \in Answer /\ answer.status \notin Refused
        /\ session[p].todo # {}
    BY <2>1, SignerParts DEF SessionsBusy, Session, PayoutInv, NoRefusals
  <2>3. /\ w \in WithdrawalIds /\ db[w].status # "none"
        /\ Requested(View(p)[w]) /\ Ledger(View(p)[w])
    BY <2>2, LedgerAtFirst DEF PayoutInv
  <2>. HIDE DEF w, answer
  <2>. QED
    BY <2>1, <2>2, <2>3, MarkKeepsLedger, WriteAdvances DEF PayoutInv
<1>. QED
  BY <1>1, <1>2

LEMMA CommandsAdvance ==
    ASSUME SignerInv, PayoutInv, MarkTargeted \/ ActOnRetry
    PROVE  TablesPaid' /\ AllAdvance
<1>. DEFINE w == First("bot")
            answer == session["bot"].answer
<1>1. "bot" \in Process /\ session["bot"].todo # {}
  BY SignerParts DEF MarkTargeted, ActOnRetry, SessionsBusy, Process
<1>2. w \in WithdrawalIds /\ Requested(db[w]) /\ Ledger(db[w])
  BY <1>1, LedgerAtFirst DEF PayoutInv
<1>3. \E row : Ledger(row) /\ Onward(db[w], row) /\ WriteAtOnce(w, row)
  <2>1. CASE MarkTargeted
    <3>1. answer \in Answer /\ answer.status \notin Refused
      BY <1>1, <2>1, SignerParts
         DEF MarkTargeted, SessionsBusy, Session, PayoutInv, NoRefusals
    <3>2. LET row == Reconciled(db[w], answer) IN Ledger(row) /\ Onward(db[w], row)
      BY <1>2, <3>1, MarkKeepsLedger
    <3>. QED
      BY <1>2, <2>1, <3>2, OnwardIsOrder DEF MarkTargeted
  <2>2. CASE ActOnRetry
    <3>1. WriteAtOnce(w, Requeue(db[w]))
      BY <1>1, <2>2 DEF ActOnRetry, PayoutInv, NoRefusals
    <3>2. Ledger(Requeue(db[w])) /\ Onward(db[w], Requeue(db[w]))
      BY <1>2, SameBooks DEF Requeue, Requested, Row
    <3>. QED
      BY <3>1, <3>2
  <2>. QED
    BY <2>1, <2>2
<1>. HIDE DEF w
<1>. QED
  BY <1>2, <1>3, AtOnceAdvances DEF PayoutInv

LEMMA RowsAdvance ==
    ASSUME WholeDebits, SignerInv, PayoutInv, [SignerNext]_signerVars
    PROVE  TablesPaid' /\ AllAdvance
<1>1. ASSUME NEW w \in WithdrawalIds, NEW u \in WithdrawalUsers, NEW a \in WithdrawalAmounts,
             RequestWithdrawal(w, u, a)
      PROVE  TablesPaid' /\ AllAdvance
  <2>1. /\ db[w].status = "none" /\ WriteAtOnce(w, NewRow(u, a))
        /\ NewRow(u, a).status # "none"
    BY <1>1, NewRowBooked DEF RequestWithdrawal, Requested
  <2>2. Ledger(NewRow(u, a)) /\ ~FeeBooked(NewRow(u, a)) /\ ~NetworkFeeSettled(NewRow(u, a))
    BY NewRowLedger
  <2>. QED
    BY <2>1, <2>2, AtOnceAdvances DEF PayoutInv
<1>2. ASSUME NEW p \in Process, CycleStep(p) \/ BreakOff(p)
      PROVE  TablesPaid' /\ AllAdvance
  BY <1>2, MarksAdvance, EndAdvances, StillAdvances
     DEF CycleStep, CommitCycle, BreakOff, CallReconcile, PayoutInv
<1>3. ASSUME NEW p \in Process, NEW due \in SUBSET WithdrawalIds,
             StartCycle(p) \/ BeginReconcile(p, due)
      PROVE  UNCHANGED <<db, work>>
  BY <1>3 DEF StartCycle, BeginReconcile
<1>4. ASSUME NEW p \in Process, StartCycle(p)
      PROVE  UNCHANGED <<db, work>>
  BY <1>4 DEF StartCycle
<1>5. ASSUME NEW w \in WithdrawalIds, NEW action \in {"requeue", "fail"},
             StartTargeted(w) \/ CheckRetry(w, action) \/ LateRequest(w) \/ OperatorActs(w)
      PROVE  UNCHANGED <<db, work>>
  BY <1>5 DEF StartTargeted, CheckRetry, LateRequest, OperatorActs
<1>6. CASE UNCHANGED signerVars
  BY <1>6, StillAdvances DEF signerVars, PayoutInv
<1>. QED
  BY <1>1, <1>2, <1>3, <1>4, <1>5, <1>6, CommandsAdvance, StillAdvances
     DEF SignerNext, PayoutInv

-----------------------------------------------------------------------------
\* Nothing is refused.

RecordsKept == \A w \in WithdrawalIds : record[w] # Null => record[w].status \notin Refused

LEMMA HandledUnrefused ==
    ASSUME NothingRefused, RecordTyped, RecordsKept, NEW w \in WithdrawalIds, HandleExecute(w)
    PROVE  RecordsKept' /\ ExecuteAnswer(w).status \notin Refused
<1>1. /\ record'[w] # Null /\ RecordsKept'
      /\ ExecuteAnswer(w) = record'[w]
  BY SignerAssumption
     DEF NothingRefused, RecordTyped, RecordsKept, HandleExecute, ExecuteAnswer, Refused,
         Record, ProviderStatus
<1>. QED
  BY <1>1 DEF RecordsKept

\* A session that begins, gets an answer, goes on or ends.
LEMMA SessionsUnrefused ==
    ASSUME SignerInv, NoRefusals, NEW p \in Process, RecordsKept',
           \/ UNCHANGED session
           \/ Finish(p)
           \/ \E w : Done(p, w)
           \/ \E a \in Answer : a.status \notin Refused /\ Answered(p, a)
           \/ \E j \in Job \ {"fail"}, T \in SUBSET WithdrawalIds :
                 session' = [session EXCEPT ![p] = [job |-> j, todo |-> T, answer |-> Null]]
    PROVE  NoRefusals'
<1>1. session \in [Process -> Session]
  BY SignerParts DEF SessionsBusy
<1>2. \A q \in Process : q # p => session'[q] = session[q]
  BY <1>1 DEF Finish, Done, Answered
<1>3. /\ session'[p].answer # Null => session'[p].answer.status \notin Refused
      /\ session'[p].job # "fail"
  <2>. USE <1>1 DEF NoRefusals
  <2>1. CASE UNCHANGED session
    BY <2>1
  <2>2. CASE Finish(p)
    BY <2>2 DEF Finish, Idle
  <2>3. ASSUME NEW w, Done(p, w)
        PROVE  <1>3!:
    BY <2>3 DEF Done, Session
  <2>4. ASSUME NEW a \in Answer, a.status \notin Refused, Answered(p, a)
        PROVE  <1>3!:
    BY <2>4 DEF Answered, Session
  <2>5. ASSUME NEW j \in Job \ {"fail"}, NEW T \in SUBSET WithdrawalIds,
               session' = [session EXCEPT ![p] = [job |-> j, todo |-> T, answer |-> Null]]
        PROVE  <1>3!:
    BY <2>5
  <2>. QED
    BY <2>1, <2>2, <2>3, <2>4, <2>5
<1>. QED
  BY <1>2, <1>3 DEF NoRefusals, RecordsKept

LEMMA CallsUnrefused ==
    ASSUME NothingRefused, SignerInv, NoRefusals, NEW p \in Process,
           CallExecute(p) \/ CallReconcile(p)
    PROVE  NoRefusals'
<1>. DEFINE w == First(p)
<1>1. w \in WithdrawalIds
  BY AtFirst DEF CallExecute, CallReconcile, Calling
<1>2. RecordTyped /\ RecordsKept
  BY SignerParts DEF Rest, NoRefusals, RecordsKept
<1>3. Lost \in Answer /\ Lost.status \notin Refused
  BY DEF Lost, Answer, Refused
<1>4. CASE CallExecute(p)
  <2>1. \/ HandleExecute(w) /\ Answered(p, ExecuteAnswer(w))
        \/ Answered(p, Lost) /\ record' = record
    BY <1>4 DEF CallExecute
  <2>2. CASE HandleExecute(w) /\ Answered(p, ExecuteAnswer(w))
    <3>1. /\ RecordsKept' /\ ExecuteAnswer(w) \in Answer
          /\ ExecuteAnswer(w).status \notin Refused
      BY <1>1, <1>2, <2>2, HandledRecord, HandledUnrefused
    <3>. QED
      BY <2>2, <3>1, SessionsUnrefused
  <2>3. CASE Answered(p, Lost) /\ record' = record
    BY <1>2, <1>3, <2>3, SessionsUnrefused DEF RecordsKept
  <2>. QED
    BY <2>1, <2>2, <2>3
<1>5. CASE CallReconcile(p)
  <2>1. RecordsKept' /\ (Answered(p, ReconcileAnswer(w)) \/ Answered(p, Lost))
    BY <1>2, <1>5 DEF CallReconcile, RecordsKept
  <2>2. ReconcileAnswer(w) \in Answer /\ ReconcileAnswer(w).status \notin Refused
    BY <1>1, <1>2, ReconcileAnswered DEF ReconcileAnswer, NotFound, RecordsKept, Refused
  <2>. QED
    BY <1>3, <2>1, <2>2, SessionsUnrefused
<1>. QED
  BY <1>4, <1>5

LEMMA StepsUnrefused ==
    ASSUME NothingRefused, SignerInv, NoRefusals, [SignerNext]_signerVars
    PROVE  NoRefusals'
<1>. USE DEF RecordsKept
<1>1. RecordTyped /\ RecordsKept
  BY SignerParts DEF Rest, NoRefusals
<1>2. CASE UNCHANGED signerVars
  BY <1>2, SessionsUnrefused DEF signerVars, NoRefusals, Process
<1>3. ASSUME NEW w \in WithdrawalIds, NEW u \in WithdrawalUsers, NEW a \in WithdrawalAmounts,
             RequestWithdrawal(w, u, a)
      PROVE  NoRefusals'
  BY <1>1, <1>3, SessionsUnrefused DEF RequestWithdrawal, Process
<1>4. ASSUME NEW p \in Process, StartCycle(p)
      PROVE  NoRefusals'
  BY <1>1, <1>4, SessionsUnrefused DEF StartCycle, Job
<1>5. ASSUME NEW p \in Process, NEW due \in SUBSET WithdrawalIds, BeginReconcile(p, due)
      PROVE  NoRefusals'
  BY <1>1, <1>5, SessionsUnrefused DEF BeginReconcile, Job
<1>6. ASSUME NEW p \in Process, CycleStep(p) \/ BreakOff(p)
      PROVE  NoRefusals'
  BY <1>1, <1>6, CallsUnrefused, SessionsUnrefused
     DEF CycleStep, MarkExecuted, MarkReconciled, CommitCycle, BreakOff
<1>7. ASSUME NEW w \in WithdrawalIds, StartTargeted(w)
      PROVE  NoRefusals'
  BY <1>1, <1>7, SessionsUnrefused DEF StartTargeted, Job, Process
<1>8. ASSUME NEW w \in WithdrawalIds, NEW action \in {"requeue", "fail"}, CheckRetry(w, action)
      PROVE  NoRefusals'
  <2>1. action = "requeue"
    BY <1>8 DEF CheckRetry, NothingRefused
  <2>. QED
    BY <1>1, <1>8, <2>1, SessionsUnrefused DEF CheckRetry, Job, Process
<1>9. ASSUME NEW w \in WithdrawalIds, LateRequest(w) \/ OperatorActs(w)
      PROVE  NoRefusals'
  <2>1. UNCHANGED session
    BY <1>9 DEF LateRequest, OperatorActs
  <2>2. RecordsKept'
    <3>1. CASE LateRequest(w)
      BY <1>1, <3>1, HandledUnrefused DEF LateRequest
    <3>2. CASE OperatorActs(w)
      BY <1>1, <3>2
         DEF OperatorActs, UpdateStatus, NothingRefused, RecordTyped, Refused
    <3>. QED
      BY <1>9, <3>1, <3>2
  <2>. QED
    BY <2>1, <2>2, SessionsUnrefused DEF Process
<1>10. CASE MarkTargeted \/ ActOnRetry
  BY <1>1, <1>10, SessionsUnrefused DEF MarkTargeted, ActOnRetry, Process
<1>. QED
  BY <1>2, <1>3, <1>4, <1>5, <1>6, <1>7, <1>8, <1>9, <1>10 DEF SignerNext

-----------------------------------------------------------------------------
\* The refinement.

PhaseMap == [w \in WithdrawalIds |-> PhaseOf(db[w])]
StakeMap == [w \in WithdrawalIds |-> db[w].amount]
ChargedMap == [w \in WithdrawalIds |-> -UserSum(db[w])]
EarnedMap == [w \in WithdrawalIds |-> PlatformSum(db[w])]

\* What the sums of a row are in each phase.
LEMMA LedgerSums ==
    ASSUME NEW row, Requested(row), Ledger(row)
    PROVE  /\ row.amount \in Nat \ {0} /\ row.fee \in Nat \ {0} /\ row.networkFee \in Nat \ {0}
           /\ UserSum(row) \in Int /\ PlatformSum(row) \in Int
           /\ PhaseOf(row) = IF NetworkFeeSettled(row) THEN "paid"
                             ELSE IF FeeBooked(row) THEN "sent" ELSE "reserved"
           /\ ~NetworkFeeSettled(row) =>
                 /\ -UserSum(row) = row.amount + row.fee + row.networkFee
                 /\ PlatformSum(row) = IF FeeBooked(row) THEN row.fee ELSE 0
           /\ NetworkFeeSettled(row) =>
                 /\ -UserSum(row) = row.amount + PlatformSum(row)
                 /\ PlatformSum(row) >= row.fee
<1>. DEFINE e == row.entries
<1>1. /\ \A t \in UserEntry \cup PlatformEntry : e[t] \in Int
      /\ row.amount \in Nat \ {0} /\ row.fee \in Nat \ {0} /\ row.networkFee \in Nat \ {0}
  <2>1. /\ e \in [UserEntry \cup PlatformEntry -> Int]
        /\ row.amount \in WithdrawalAmounts \cup {0} /\ row.fee \in Nat /\ row.networkFee \in Nat
        /\ row.networkFee # 0
    BY DEF Requested, Row, RowBooked
  <2>2. WithdrawalAmounts \cup {0} \subseteq Nat
    BY WithdrawalsAssumption
  <2>. QED
    BY <2>1, <2>2 DEF Ledger
<1>2. /\ e["RESERVE"] = -(row.amount + row.fee + row.networkFee) /\ e["RELEASE"] = 0
      /\ e["NETWORK_FEE"] >= 0
      /\ e["PLATFORM_FEE"] = IF FeeBooked(row) THEN row.fee ELSE 0
      /\ NetworkFeeSettled(row) => FeeBooked(row)
  BY DEF Ledger, Requested, RowBooked, FeeBooked
<1>3. /\ ~NetworkFeeSettled(row) => /\ e["NETWORK_FEE"] = 0 /\ e["NETWORK_FEE_REFUND"] = 0
                                    /\ e["NETWORK_FEE_ADJUSTMENT"] = 0
  BY DEF NetworkFeeSettled
<1>4. NetworkFeeSettled(row) =>
         e["NETWORK_FEE"] + e["NETWORK_FEE_REFUND"] + e["NETWORK_FEE_ADJUSTMENT"]
            = row.networkFee
  BY DEF Ledger
<1>5. PhaseOf(row) = IF NetworkFeeSettled(row) THEN "paid"
                     ELSE IF FeeBooked(row) THEN "sent" ELSE "reserved"
  BY DEF PhaseOf, Ledger, Requested
<1>6. /\ UserSum(row) = e["RESERVE"] + e["RELEASE"]
                        + e["NETWORK_FEE_REFUND"] + e["NETWORK_FEE_ADJUSTMENT"]
      /\ PlatformSum(row) = e["PLATFORM_FEE"] + e["NETWORK_FEE"]
  BY DEF UserSum, PlatformSum
<1>. HIDE DEF e
<1>7. /\ e["RESERVE"] \in Int /\ e["RELEASE"] \in Int /\ e["NETWORK_FEE_REFUND"] \in Int
      /\ e["NETWORK_FEE_ADJUSTMENT"] \in Int /\ e["PLATFORM_FEE"] \in Int
      /\ e["NETWORK_FEE"] \in Int
  BY <1>1 DEF UserEntry, PlatformEntry
<1>8. UserSum(row) \in Int /\ PlatformSum(row) \in Int
  BY <1>6, <1>7
<1>9. CASE NetworkFeeSettled(row)
  BY <1>1, <1>2, <1>4, <1>5, <1>6, <1>7, <1>8, <1>9
<1>10. CASE ~NetworkFeeSettled(row)
  BY <1>1, <1>2, <1>3, <1>5, <1>6, <1>7, <1>8, <1>10
<1>. QED
  BY <1>9, <1>10

\* A row that moves on does what Payout allows: it stays, is sent or is paid.
Unmoved(r, s) ==
    /\ PhaseOf(s) = PhaseOf(r) /\ s.amount = r.amount
    /\ UserSum(s) = UserSum(r) /\ PlatformSum(s) = PlatformSum(r)

Sent(r, s) ==
    /\ PhaseOf(r) = "reserved" /\ PhaseOf(s) = "sent" /\ s.amount = r.amount
    /\ UserSum(s) = UserSum(r)
    /\ 0 < PlatformSum(s) /\ PlatformSum(s) < -UserSum(r) - r.amount

Paid(r, s) ==
    /\ PhaseOf(r) \in {"reserved", "sent"} /\ PhaseOf(s) = "paid" /\ s.amount = r.amount
    /\ -UserSum(s) = r.amount + PlatformSum(s)
    /\ PlatformSum(s) >= PlatformSum(r)

LEMMA OnwardIsPayout ==
    ASSUME NEW r, NEW s, Requested(r), Ledger(r), Requested(s), Ledger(s), Onward(r, s)
    PROVE  Unmoved(r, s) \/ Sent(r, s) \/ Paid(r, s)
<1>1. /\ s.amount = r.amount /\ s.fee = r.fee /\ s.networkFee = r.networkFee
      /\ FeeBooked(r) => FeeBooked(s)
      /\ NetworkFeeSettled(r) => NetworkFeeSettled(s)
  BY DEF Onward, NetworkFeeSettled, NetworkEntry
<1>2. NetworkFeeSettled(r) => FeeBooked(r) /\ UserSum(s) = UserSum(r)
  BY DEF Onward, NetworkEntry, Ledger, UserSum
<1>3. CASE NetworkFeeSettled(r)
  <2>1. -UserSum(r) = r.amount + PlatformSum(r) /\ -UserSum(s) = s.amount + PlatformSum(s)
    BY <1>1, <1>3, LedgerSums
  <2>2. PhaseOf(r) = "paid" /\ PhaseOf(s) = "paid"
    BY <1>1, <1>3, LedgerSums
  <2>3. PlatformSum(s) = PlatformSum(r)
    <3>1. /\ UserSum(r) \in Int /\ PlatformSum(r) \in Int /\ PlatformSum(s) \in Int
          /\ r.amount \in Int
      BY LedgerSums
    <3>. QED
      BY <1>1, <1>2, <1>3, <2>1, <3>1
  <2>. QED
    BY <1>1, <1>2, <1>3, <2>2, <2>3 DEF Unmoved
<1>4. CASE ~NetworkFeeSettled(r) /\ NetworkFeeSettled(s)
  <2>1. /\ PhaseOf(r) \in {"reserved", "sent"} /\ PhaseOf(s) = "paid"
        /\ -UserSum(s) = r.amount + PlatformSum(s)
    BY <1>1, <1>4, LedgerSums
  <2>2. PlatformSum(s) >= r.fee /\ PlatformSum(r) \in {0, r.fee}
    BY <1>1, <1>4, LedgerSums
  <2>3. r.fee \in Nat /\ PlatformSum(s) \in Int
    BY LedgerSums
  <2>. QED
    BY <1>1, <2>1, <2>2, <2>3 DEF Paid
<1>5. CASE ~NetworkFeeSettled(r) /\ ~NetworkFeeSettled(s)
  <2>1. /\ -UserSum(r) = r.amount + r.fee + r.networkFee
        /\ -UserSum(s) = r.amount + r.fee + r.networkFee
        /\ UserSum(r) \in Int /\ UserSum(s) \in Int
        /\ r.amount \in Nat /\ r.fee \in Nat \ {0} /\ r.networkFee \in Nat \ {0}
    BY <1>1, <1>5, LedgerSums
  <2>2. UserSum(s) = UserSum(r)
    BY <2>1
  <2>3. CASE FeeBooked(r) <=> FeeBooked(s)
    <3>1. PhaseOf(s) = PhaseOf(r) /\ PlatformSum(s) = PlatformSum(r)
      BY <1>1, <1>5, <2>3, LedgerSums
    <3>. QED
      BY <1>1, <2>2, <3>1 DEF Unmoved
  <2>4. CASE ~FeeBooked(r) /\ FeeBooked(s)
    <3>1. PhaseOf(r) = "reserved" /\ PhaseOf(s) = "sent" /\ PlatformSum(s) = r.fee
      BY <1>1, <1>5, <2>4, LedgerSums
    <3>. QED
      BY <1>1, <2>1, <2>2, <3>1 DEF Sent
  <2>. QED
    BY <1>1, <2>3, <2>4
<1>. QED
  BY <1>3, <1>4, <1>5

LEMMA AdvanceIsPayout ==
    ASSUME SignerInv, SignerInv', TablesPaid, TablesPaid', NEW w \in WithdrawalIds, Advances(w)
    PROVE  \/ Payments!Same(w) \/ Payments!Reserve(w)
           \/ Payments!Send(w) \/ Payments!Pay(w)
<1>. DEFINE r == db[w]
            s == db'[w]
<1>1. /\ r \in Row /\ RowBooked(r) /\ s \in Row /\ RowBooked(s)
  BY SignerParts DEF TablesBooked
<1>2. /\ r.status # "none" => Requested(r) /\ Ledger(r)
      /\ s.status # "none" => Requested(s) /\ Ledger(s)
  BY <1>1 DEF Requested, TablesPaid
<1>3. /\ PhaseMap[w] = PhaseOf(r) /\ PhaseMap'[w] = PhaseOf(s)
      /\ StakeMap[w] = r.amount /\ StakeMap'[w] = s.amount
      /\ ChargedMap[w] = -UserSum(r) /\ ChargedMap'[w] = -UserSum(s)
      /\ EarnedMap[w] = PlatformSum(r) /\ EarnedMap'[w] = PlatformSum(s)
  BY DEF PhaseMap, StakeMap, ChargedMap, EarnedMap
<1>4. CASE r.status = "none" /\ Onward(r, s)
  <2>1. s = r
    BY <1>4 DEF Onward
  <2>. QED
    BY <1>3, <2>1 DEF Payments!Same, PhaseMap, StakeMap, ChargedMap, EarnedMap
<1>5. CASE r.status # "none" /\ Onward(r, s)
  <2>1. Unmoved(r, s) \/ Sent(r, s) \/ Paid(r, s)
    BY <1>2, <1>5, OnwardIsPayout DEF Onward
  <2>2. CASE Unmoved(r, s)
    BY <1>3, <2>2 DEF Unmoved, Payments!Same, PhaseMap, StakeMap, ChargedMap, EarnedMap
  <2>3. CASE Sent(r, s)
    BY <1>3, <2>3
       DEF Sent, Payments!Send, Payments!Moves, PhaseMap, StakeMap, ChargedMap, EarnedMap
  <2>4. CASE Paid(r, s)
    BY <1>3, <2>4
       DEF Paid, Payments!Pay, Payments!Moves, PhaseMap, StakeMap, ChargedMap, EarnedMap
  <2>. QED
    BY <2>1, <2>2, <2>3, <2>4
<1>6. CASE /\ r.status = "none" /\ s.status # "none" /\ Ledger(s)
           /\ ~FeeBooked(s) /\ ~NetworkFeeSettled(s)
  <2>1. PhaseOf(r) = "new" /\ PhaseOf(s) = "reserved"
    BY <1>2, <1>6, LedgerSums DEF PhaseOf
  <2>2. /\ s.amount \in Nat \ {0} /\ PlatformSum(s) = 0
        /\ -UserSum(s) = s.amount + s.fee + s.networkFee
        /\ s.fee \in Nat \ {0} /\ s.networkFee \in Nat \ {0}
    BY <1>2, <1>6, LedgerSums
  <2>3. -UserSum(s) > s.amount
    BY <2>2
  <2>. QED
    BY <1>3, <2>1, <2>2, <2>3
       DEF Payments!Reserve, Payments!Moves, PhaseMap, StakeMap, ChargedMap, EarnedMap
<1>. QED
  BY <1>4, <1>5, <1>6 DEF Advances

LEMMA PayoutInvInit == SignerInit => PayoutInv
<1> SUFFICES ASSUME SignerInit PROVE PayoutInv
  OBVIOUS
<1>1. TablesPaid
  BY OnwardIsOrder DEF SignerInit, NoRow, TablesPaid
<1>2. NoRefusals
  BY DEF SignerInit, ProviderInit, Idle, NoRefusals
<1>. QED
  BY <1>1, <1>2 DEF PayoutInv

LEMMA InitIsPayoutInit == SignerInit => Payments!PayoutInit
<1>1. /\ NoRow.status = "none" /\ NoRow.amount = 0
      /\ \A t \in UserEntry \cup PlatformEntry : NoRow.entries[t] = 0
  BY DEF NoRow
<1>2. PhaseOf(NoRow) = "new"
  BY <1>1 DEF PhaseOf
<1>3. -UserSum(NoRow) = 0 /\ PlatformSum(NoRow) = 0
  BY <1>1 DEF UserSum, PlatformSum, UserEntry, PlatformEntry
<1>. QED
  BY <1>1, <1>2, <1>3 DEF SignerInit, Payments!PayoutInit

LEMMA StepIsPayoutStep ==
    ASSUME NothingRefused, WholeDebits
    PROVE  SignerInv /\ PayoutInv /\ [SignerNext]_signerVars =>
              PayoutInv' /\ [Payments!PayoutNext]_<<PhaseMap, StakeMap, ChargedMap, EarnedMap>>
<1> SUFFICES ASSUME SignerInv, PayoutInv, [SignerNext]_signerVars
             PROVE  PayoutInv' /\ Payments!PayoutNext
  OBVIOUS
<1>1. TablesPaid' /\ AllAdvance
  BY RowsAdvance
<1>2. NoRefusals'
  BY StepsUnrefused DEF PayoutInv
<1>3. SignerInv'
  BY SignerInvStep
<1>4. Payments!PayoutNext
  BY <1>1, <1>3, AdvanceIsPayout DEF AllAdvance, PayoutInv, Payments!PayoutNext
<1>. QED
  BY <1>1, <1>2, <1>4 DEF PayoutInv

\* While nothing is refused, withdrawals implement Payout: one charge, one payment,
\* every unit accounted for, for any number of withdrawals, any overlap of cycles
\* and commands, and any number of lost answers and crashes.
THEOREM WithdrawalsImplementPayout ==
    ASSUME NothingRefused, WholeDebits
    PROVE  SignerSpec => ImplementsPayout
<1>1. SignerInit => Payments!PayoutInit /\ PayoutInv
  BY InitIsPayoutInit, PayoutInvInit
<1>2. SignerInv /\ PayoutInv /\ [SignerNext]_signerVars =>
         PayoutInv' /\ [Payments!PayoutNext]_<<PhaseMap, StakeMap, ChargedMap, EarnedMap>>
  BY StepIsPayoutStep
<1>3. SignerSpec => []SignerInv
  BY SignerInvariant
<1>. QED
  BY <1>1, <1>2, <1>3, PTL
     DEF SignerSpec, ImplementsPayout, Payments!PayoutSpec, PhaseMap, StakeMap, ChargedMap,
         EarnedMap

-----------------------------------------------------------------------------
\* What each mark does to the entries of a row.

LEMMA PaidRelease ==
    ASSUME NEW row, Requested(row), NEW force \in BOOLEAN,
           NEW s \in {"broadcasted", "confirmed"}
    PROVE  SettleNetworkFee([BookPlatformFee(row) EXCEPT !.status = s], force).entries["RELEASE"]
             = row.entries["RELEASE"]
<1>. DEFINE b == BookPlatformFee(row)
            marked == [b EXCEPT !.status = s]
            settled == SettleNetworkFee(marked, force)
<1>1. Requested(b) /\ b.entries["RELEASE"] = row.entries["RELEASE"]
  BY BookedFee DEF BookPlatformFee, AddEntry, Requested, Row, UserEntry, PlatformEntry
<1>. HIDE DEF b
<1>2. marked \in Row /\ marked.entries = b.entries
  BY <1>1 DEF Requested, Row, WithdrawalStatus, UnresolvedStatus
<1>. HIDE DEF marked
<1>3. \/ settled = marked
      \/ \E x, y, z : settled = [marked EXCEPT !.entries["NETWORK_FEE"] = x,
                                               !.entries["NETWORK_FEE_REFUND"] = y,
                                               !.entries["NETWORK_FEE_ADJUSTMENT"] = z]
  BY Zenon DEF SettleNetworkFee
<1>. HIDE DEF settled
<1>4. settled.entries["RELEASE"] = marked.entries["RELEASE"]
  BY <1>2, <1>3 DEF Row, UserEntry, PlatformEntry
<1>. QED
  BY <1>1, <1>2, <1>4 DEF settled, marked, b

\* A broadcast or a confirmation leaves the row with that status.
LEMMA PaidStatus ==
    ASSUME NEW row, Requested(row), NEW force \in BOOLEAN,
           NEW s \in {"broadcasted", "confirmed"}
    PROVE  SettleNetworkFee([BookPlatformFee(row) EXCEPT !.status = s], force).status = s
<1>. DEFINE b == BookPlatformFee(row)
            marked == [b EXCEPT !.status = s]
<1>1. Requested(b)
  BY BookedFee
<1>. HIDE DEF b
<1>2. marked \in Row /\ marked.status = s
  BY <1>1 DEF Requested, Row, WithdrawalStatus, UnresolvedStatus
<1>. HIDE DEF marked
<1>3. SettleNetworkFee(marked, force).status = marked.status
  BY <1>2 DEF SettleNetworkFee, Row
<1>. QED
  BY <1>2, <1>3 DEF marked, b

\* A failure gives back what was reserved and touches nothing else.
LEMMA FailedEntries ==
    ASSUME NEW row, Requested(row)
    PROVE  LET s == MarkFailed(row)
           IN  /\ s.status = "failed" /\ s.user = row.user
               /\ s.amount = row.amount /\ s.fee = row.fee /\ s.networkFee = row.networkFee
               /\ s.entries["RELEASE"] =
                     row.entries["RELEASE"] + (row.amount + row.fee + row.networkFee)
               /\ \A t \in {"RESERVE", "PLATFORM_FEE"} \cup NetworkEntry :
                     s.entries[t] = row.entries[t]
<1>. DEFINE failed == [row EXCEPT !.status = "failed"]
            back == row.amount + row.fee + row.networkFee
<1>1. /\ failed \in Row /\ failed.status = "failed" /\ failed.user = row.user
      /\ failed.amount = row.amount /\ failed.fee = row.fee
      /\ failed.networkFee = row.networkFee /\ failed.entries = row.entries
  BY DEF Requested, Row, WithdrawalStatus
<1>2. MarkFailed(row) = [failed EXCEPT !.entries["RELEASE"] = @ + back]
  BY DEF MarkFailed, AddEntry
<1>. HIDE DEF failed, back
<1>3. /\ MarkFailed(row).entries["RELEASE"] = row.entries["RELEASE"] + back
      /\ \A t \in {"RESERVE", "PLATFORM_FEE"} \cup NetworkEntry :
            MarkFailed(row).entries[t] = row.entries[t]
      /\ MarkFailed(row).status = "failed" /\ MarkFailed(row).user = row.user
      /\ MarkFailed(row).amount = row.amount /\ MarkFailed(row).fee = row.fee
      /\ MarkFailed(row).networkFee = row.networkFee
  BY <1>1, <1>2 DEF Row, UserEntry, PlatformEntry, NetworkEntry
<1>. QED
  BY <1>3 DEF back

\* What a mark that is no failure does: it gives nothing back, and books the fee
\* only where the answer was that the payout is sent.
Unreturned(row, s, answer) ==
    /\ s.entries["RELEASE"] = row.entries["RELEASE"]
    /\ answer.status \notin {"broadcasted", "confirmed"} =>
          s.entries["PLATFORM_FEE"] = row.entries["PLATFORM_FEE"]
    /\ s.status # "failed"

LEMMA MarkEntries ==
    ASSUME NEW row, Requested(row), NEW answer \in Answer
    PROVE  /\ answer.status \in Refused => Executed(row, answer) = MarkFailed(row)
           /\ answer.status \notin Refused => Unreturned(row, Executed(row, answer), answer)
           /\ Unreturned(row, Reconciled(row, answer), answer)
<1>. DEFINE recorded == RecordResult(row, answer)
            retry == MarkSignerRetry(row)
<1>1. Requested(recorded) /\ recorded.entries = row.entries
  BY Recorded DEF RecordResult, Requested, Row
<1>2. Unreturned(row, retry, answer)
  BY DEF Unreturned, MarkSignerRetry, Requested, Row
<1>. HIDE DEF recorded, retry
<1>3. ASSUME answer.status \in {"submitted", "broadcasted", "confirmed"}
      PROVE  Unreturned(row, MarkAs(recorded, answer.status), answer)
  <2>1. CASE answer.status = "submitted"
    BY <1>1, <2>1 DEF MarkAs, MarkSubmitted, Unreturned, Requested, Row
  <2>2. CASE answer.status = "broadcasted"
    <3>1. MarkAs(recorded, answer.status) = MarkBroadcasted(recorded)
      BY <2>2 DEF MarkAs
    <3>2. MarkBroadcasted(recorded).status # "failed"
      BY <1>1, PaidStatus DEF MarkBroadcasted
    <3>3. MarkBroadcasted(recorded).entries["RELEASE"] = row.entries["RELEASE"]
      BY <1>1, PaidRelease DEF MarkBroadcasted
    <3>. QED
      BY <2>2, <3>1, <3>2, <3>3 DEF Unreturned
  <2>3. CASE answer.status = "confirmed"
    <3>1. MarkAs(recorded, answer.status) = MarkConfirmed(recorded)
      BY <2>3 DEF MarkAs
    <3>2. MarkConfirmed(recorded).status # "failed"
      BY <1>1, PaidStatus DEF MarkConfirmed
    <3>3. MarkConfirmed(recorded).entries["RELEASE"] = row.entries["RELEASE"]
      BY <1>1, PaidRelease DEF MarkConfirmed
    <3>. QED
      BY <2>3, <3>1, <3>2, <3>3 DEF Unreturned
  <2>. QED
    BY <1>3, <2>1, <2>2, <2>3
<1>4. Unreturned(row, Reconciled(row, answer), answer)
  BY <1>2, <1>3 DEF Reconciled, recorded, retry
<1>5. CASE answer.status \in Refused
  <2>1. Executed(row, answer) = MarkFailed(row)
    BY <1>5 DEF Executed, Refused
  <2>. QED
    BY <1>4, <1>5, <2>1
<1>6. CASE answer.status \notin Refused
  BY <1>2, <1>3, <1>4, <1>6 DEF Executed, Refused, recorded, retry
<1>. QED
  BY <1>4, <1>5, <1>6

-----------------------------------------------------------------------------
\* Marks that come too late.

\* Who writes runs a cycle; while nobody writes, nothing is uncommitted.
WriterCycles ==
    /\ writer # Null => session[writer].job \in {"execute", "reconcile"}
    /\ writer = Null => work = db

\* What a cycle has marked it marks again only if the first mark left it open.
OwnMarks ==
    \A p \in Process : \A w \in session[p].todo :
        writer = p /\ work[w] # db[w] => work[w].status \in ReconcilableStatus

Unreserved(row) == row.status \in UnresolvedStatus /\ row.entries["RELEASE"] # 0

\* Whoever writes takes a reservation away only in place of an outcome.
LateMarks ==
    \A w \in WithdrawalIds :
        Unreserved(work[w]) => Unreserved(db[w]) \/ db[w].status \in ClosedStatus

MarksInv == WriterCycles /\ OwnMarks /\ LateMarks

\* A withdrawal loses its reservation only in place of an outcome that was
\* committed while somebody had it in hand; what nobody has in hand is closed.
LossesAreLate ==
    \A w \in WithdrawalIds :
        Unreserved(db'[w]) => Unreserved(db[w]) \/ (db[w].status \in ClosedStatus /\ InHand(w))

ClosedStay == \A w \in WithdrawalIds : Closed(w) => Closed(w)' /\ db'[w] = db[w]

LEMMA StatusesApart ==
    /\ ClosedStatus \cap ReconcilableStatus = {} /\ ClosedStatus \cap UnresolvedStatus = {}
    /\ ReconcilableStatus \subseteq UnresolvedStatus
    /\ "none" \notin ClosedStatus /\ "pending" \notin ClosedStatus /\ "failed" \in ClosedStatus
BY DEF ClosedStatus, ReconcilableStatus, UnresolvedStatus

\* A new row has nothing given back and no fee booked.
LEMMA NewRowReturns ==
    ASSUME NEW u \in WithdrawalUsers, NEW a \in WithdrawalAmounts
    PROVE  /\ NewRow(u, a).entries["RELEASE"] = 0
           /\ ~FeeBooked(NewRow(u, a))
<1>. DEFINE blank == [NoRow EXCEPT !.status = "pending", !.user = u, !.amount = a,
                                   !.fee = WithdrawalPlatformFee(a), !.networkFee = NetworkFee]
<1>1. blank.entries = NoRow.entries
  BY DEF NoRow
<1>2. blank.entries \in [UserEntry \cup PlatformEntry -> {0}] /\ "entries" \in DOMAIN blank
  BY <1>1 DEF NoRow
<1>3. NewRow(u, a) = [blank EXCEPT !.entries["RESERVE"] = @ + (-WithdrawalTotalDebit(a))]
  BY DEF NewRow, AddEntry
<1>. HIDE DEF blank
<1>4. NewRow(u, a).entries = [blank.entries EXCEPT !["RESERVE"] = @ + (-WithdrawalTotalDebit(a))]
  BY <1>2, <1>3
<1>. QED
  BY <1>2, <1>4 DEF FeeBooked, UserEntry, PlatformEntry

\* A mark that leaves a row unresolved gives nothing back.
LEMMA MarkReturns ==
    ASSUME NEW row, Requested(row), NEW answer \in Answer
    PROVE  /\ Unreserved(Executed(row, answer)) => row.entries["RELEASE"] # 0
           /\ Unreserved(Reconciled(row, answer)) => row.entries["RELEASE"] # 0
<1>1. MarkFailed(row).status = "failed"
  BY FailedEntries
<1>. QED
  BY <1>1, MarkEntries DEF Unreserved, Unreturned, UnresolvedStatus

\* The withdrawal a process is at.  Where that process has marked it before, it is
\* still open.
LEMMA InHandAtFirst ==
    ASSUME SignerInv, MarksInv, NEW p \in Process, session[p].todo # {}
    PROVE  \E w \in WithdrawalIds :
              /\ w = First(p) /\ w \in session[p].todo /\ InHand(w)
              /\ Requested(View(p)[w]) /\ Requested(db[w])
              /\ \/ View(p)[w] = db[w]
                 \/ View(p)[w] = work[w] /\ View(p)[w].status \in ReconcilableStatus
<1>1. session[p].todo \in SUBSET WithdrawalIds
  BY SignerParts DEF SessionsBusy, Session
<1>2. PICK w \in WithdrawalIds : w = First(p) /\ w \in session[p].todo
  BY <1>1, FirstIsToDo
<1>3. InHand(w)
  BY <1>2 DEF InHand
<1>4. \/ View(p)[w] = db[w]
      \/ View(p)[w] = work[w] /\ View(p)[w].status \in ReconcilableStatus
  BY <1>2 DEF View, MarksInv, OwnMarks
<1>. QED
  BY <1>2, <1>3, <1>4, AtFirst

\* A process begins.
LEMMA BeginMarks ==
    ASSUME SignerInv, MarksInv, NEW p \in Process,
           NEW j \in Job, NEW T \in SUBSET WithdrawalIds,
           \A w \in T : View(p)[w].status \notin ClosedStatus,
           writer = p => /\ j = "reconcile"
                         /\ \A w \in T : View(p)[w].status \in ReconcilableStatus,
           session' = [session EXCEPT ![p] = [job |-> j, todo |-> T, answer |-> Null]],
           UNCHANGED <<db, work, writer>>
    PROVE  MarksInv' /\ LossesAreLate /\ ClosedStay
<1>1. session \in [Process -> Session]
  BY SignerParts DEF SessionsBusy
<1>2. /\ session'[p].todo = T /\ session'[p].job = j
      /\ \A q \in Process \ {p} : session'[q] = session[q]
  BY <1>1
<1>3. WriterCycles'
  BY <1>2, SignerParts DEF MarksInv, WriterCycles, Rest
<1>4. OwnMarks'
  <2>1. writer = p => View(p) = work
    BY DEF View
  <2>. QED
    BY <1>2, <2>1 DEF MarksInv, OwnMarks
<1>5. LateMarks' /\ LossesAreLate
  BY DEF MarksInv, LateMarks, LossesAreLate, Unreserved
<1>6. ASSUME NEW w \in WithdrawalIds, Closed(w)
      PROVE  Closed(w)' /\ db'[w] = db[w]
  <2>1. View(p)[w] = db[w] /\ db[w].status \in ClosedStatus
    BY <1>6 DEF Closed, InHand, View
  <2>2. w \notin T
    BY <2>1
  <2>3. \A q \in Process : w \notin session'[q].todo
    BY <1>2, <1>6, <2>2 DEF Closed, InHand
  <2>. QED
    BY <1>6, <2>3 DEF Closed, InHand
<1>. QED
  BY <1>3, <1>4, <1>5, <1>6 DEF MarksInv, ClosedStay

\* A cycle writes the row it is at.
LEMMA WorkMarks ==
    ASSUME SignerInv, MarksInv, NEW p \in Process, NEW w \in session[p].todo,
           w \in WithdrawalIds, session[p].job \in {"execute", "reconcile"},
           Requested(db[w]),
           \/ View(p)[w] = db[w]
           \/ View(p)[w] = work[w] /\ View(p)[w].status \in ReconcilableStatus,
           NEW row, Unreserved(row) => View(p)[w].entries["RELEASE"] # 0,
           NEW T \in SUBSET session[p].todo, NEW a, row = View(p)[w] \/ w \notin T,
           session' = [session EXCEPT ![p].todo = T, ![p].answer = a],
           Write(p, w, row)
    PROVE  MarksInv' /\ LossesAreLate /\ ClosedStay
<1>1. session \in [Process -> Session]
  BY SignerParts DEF SessionsBusy
<1>2. /\ session'[p].todo = T /\ session'[p].job = session[p].job
      /\ \A q \in Process \ {p} : session'[q] = session[q]
  BY <1>1 DEF Session
<1>3. View(p) \in [WithdrawalIds -> Row]
  BY ViewBooked, SignerParts
<1>4. /\ db' = db /\ writer' = p
      /\ work'[w] = row /\ \A v \in WithdrawalIds \ {w} : work'[v] = View(p)[v]
  BY <1>3 DEF Write
<1>5. \A v : View(p)[v] = IF writer = p THEN work[v] ELSE db[v]
  BY DEF View
<1>6. WriterCycles'
  BY <1>2, <1>4, SignerAssumption DEF WriterCycles
<1>7. OwnMarks'
  <2>1. ASSUME NEW v \in T, work'[v] # db[v]
        PROVE  work'[v].status \in ReconcilableStatus
    <3>1. v \in WithdrawalIds /\ v \in session[p].todo /\ work'[v] = View(p)[v]
      BY <1>1, <1>4, <2>1 DEF Session
    <3>2. writer = p /\ work'[v] = work[v]
      BY <1>5, <2>1, <3>1
    <3>. QED
      BY <2>1, <3>1, <3>2 DEF MarksInv, OwnMarks
  <2>. QED
    BY <1>2, <1>4, <2>1 DEF OwnMarks
<1>8. LateMarks'
  <2>1. ASSUME Unreserved(row)
        PROVE  Unreserved(db[w]) \/ db[w].status \in ClosedStatus
    <3>1. CASE View(p)[w] = db[w]
      <4>1. db[w].status \in UnresolvedStatus \cup ClosedStatus
        BY DEF Requested, Row, WithdrawalStatus, ClosedStatus
      <4>. QED
        BY <2>1, <3>1, <4>1 DEF Unreserved
    <3>2. CASE View(p)[w] = work[w] /\ View(p)[w].status \in ReconcilableStatus
      <4>1. Unreserved(work[w])
        BY <2>1, <3>2, StatusesApart DEF Unreserved
      <4>. QED
        BY <4>1 DEF MarksInv, LateMarks
    <3>. QED
      BY <3>1, <3>2
  <2>2. ASSUME NEW v \in WithdrawalIds \ {w}, Unreserved(work'[v])
        PROVE  Unreserved(db[v]) \/ db[v].status \in ClosedStatus
    BY <1>4, <1>5, <2>2 DEF MarksInv, LateMarks
  <2>3. ASSUME NEW v \in WithdrawalIds, Unreserved(work'[v])
        PROVE  Unreserved(db'[v]) \/ db'[v].status \in ClosedStatus
    BY <1>4, <2>1, <2>2, <2>3
  <2>. QED
    BY <2>3 DEF LateMarks, Unreserved
<1>9. LossesAreLate
  BY <1>4 DEF LossesAreLate, Unreserved
<1>10. ASSUME NEW v \in WithdrawalIds, Closed(v)
       PROVE  Closed(v)' /\ db'[v] = db[v]
  <2>1. v # w /\ View(p)[v] = db[v] /\ work'[v] = db[v]
    BY <1>4, <1>5, <1>10 DEF Closed, InHand
  <2>2. \A q \in Process : v \notin session'[q].todo
    BY <1>2, <1>10 DEF Closed, InHand
  <2>. QED
    BY <1>4, <1>10, <2>1, <2>2 DEF Closed, InHand
<1>. QED
  BY <1>6, <1>7, <1>8, <1>9, <1>10 DEF MarksInv, ClosedStay

\* A process ends, with its transaction kept or lost.
LEMMA EndMarks ==
    ASSUME SignerInv, MarksInv, NEW p \in Process, CommitAll(p) \/ RollBack(p), Finish(p)
    PROVE  MarksInv' /\ LossesAreLate /\ ClosedStay
<1>1. session \in [Process -> Session]
  BY SignerParts DEF SessionsBusy
<1>2. session'[p].todo = {} /\ \A q \in Process \ {p} : session'[q] = session[q]
  BY <1>1 DEF Finish, Idle
<1>3. \/ writer = p /\ writer' = Null /\ work' = db' /\ (db' = db \/ db' = work)
      \/ writer # p /\ writer' = writer /\ work' = work /\ db' = db
  BY DEF CommitAll, RollBack, View
<1>4. WriterCycles' /\ OwnMarks'
  BY <1>2, <1>3, SignerAssumption, SignerParts
     DEF MarksInv, WriterCycles, OwnMarks, Rest
<1>5. LateMarks'
  BY <1>3 DEF MarksInv, LateMarks, Unreserved
<1>6. LossesAreLate
  BY <1>3 DEF MarksInv, LateMarks, LossesAreLate, InHand, Unreserved
<1>7. ASSUME NEW v \in WithdrawalIds, Closed(v)
      PROVE  Closed(v)' /\ db'[v] = db[v]
  BY <1>2, <1>3, <1>7 DEF Closed, InHand
<1>. QED
  BY <1>4, <1>5, <1>6, <1>7 DEF MarksInv, ClosedStay

\* A row is written at once, by somebody who has it in hand or by a request.
LEMMA AtOnceMarks ==
    ASSUME SignerInv, MarksInv, NEW w \in WithdrawalIds, NEW row, WriteAtOnce(w, row),
           InHand(w) \/ db[w].status = "none",
           Unreserved(row) => Unreserved(db[w]) \/ db[w].status \in ClosedStatus,
           \A q \in Process : session'[q].todo \subseteq session[q].todo
    PROVE  MarksInv' /\ LossesAreLate /\ ClosedStay
<1>1. /\ writer = Null /\ writer' = Null /\ work = db /\ work' = db'
      /\ db'[w] = row /\ \A v \in WithdrawalIds \ {w} : db'[v] = db[v]
  BY SignerParts DEF WriteAtOnce, TablesBooked, MarksInv, WriterCycles
<1>2. MarksInv'
  BY <1>1, SignerAssumption DEF MarksInv, WriterCycles, OwnMarks, LateMarks
<1>3. ASSUME NEW v \in WithdrawalIds, Unreserved(db'[v])
      PROVE  Unreserved(db[v]) \/ (db[v].status \in ClosedStatus /\ InHand(v))
  BY <1>1, <1>3, StatusesApart
<1>4. ASSUME NEW v \in WithdrawalIds, Closed(v)
      PROVE  Closed(v)' /\ db'[v] = db[v]
  <2>1. v # w
    BY <1>4, StatusesApart DEF Closed
  <2>. QED
    BY <1>1, <1>4, <2>1 DEF Closed, InHand
<1>. QED
  BY <1>2, <1>3, <1>4 DEF LossesAreLate, ClosedStay

\* A step that leaves the tables, and who has what in hand, alone.
LEMMA StillMarks ==
    ASSUME SignerInv, MarksInv, UNCHANGED <<db, work, writer>>,
           UNCHANGED session \/ \E p \in Process : \E a : Answered(p, a)
    PROVE  MarksInv' /\ LossesAreLate /\ ClosedStay
<1>1. session \in [Process -> Session]
  BY SignerParts DEF SessionsBusy
<1>2. \A q \in Process : session'[q].todo = session[q].todo /\ session'[q].job = session[q].job
  BY <1>1 DEF Answered, Session
<1>3. WriterCycles' /\ OwnMarks'
  BY <1>2, SignerParts DEF MarksInv, WriterCycles, OwnMarks, Rest
<1>4. LateMarks' /\ LossesAreLate
  BY DEF MarksInv, LateMarks, LossesAreLate, Unreserved
<1>5. ClosedStay
  BY <1>2 DEF ClosedStay, Closed, InHand
<1>. QED
  BY <1>3, <1>4, <1>5 DEF MarksInv

\* The steps of a cycle.
LEMMA CycleMarks ==
    ASSUME SignerInv, MarksInv, NEW p \in Process, CycleStep(p) \/ BreakOff(p)
    PROVE  MarksInv' /\ LossesAreLate /\ ClosedStay
<1>. DEFINE answer == session[p].answer
<1>0. session \in [Process -> Session]
  BY SignerParts DEF SessionsBusy
<1>1. CASE CallExecute(p)
  <2>1. /\ session[p].job = "execute" /\ session[p].todo # {}
        /\ Write(p, First(p), View(p)[First(p)])
        /\ Answered(p, ExecuteAnswer(First(p))) \/ Answered(p, Lost)
    BY <1>1 DEF CallExecute, Calling
  <2>2. PICK w \in WithdrawalIds :
           /\ w = First(p) /\ w \in session[p].todo
           /\ Requested(db[w])
           /\ \/ View(p)[w] = db[w]
              \/ View(p)[w] = work[w] /\ View(p)[w].status \in ReconcilableStatus
    BY <2>1, InHandAtFirst
  <2>3. \E a : session' = [session EXCEPT ![p].todo = session[p].todo, ![p].answer = a]
    BY <1>0, <2>1 DEF Answered, Session
  <2>4. Write(p, w, View(p)[w]) /\ session[p].todo \in SUBSET session[p].todo
    BY <2>1, <2>2
  <2>5. Unreserved(View(p)[w]) => View(p)[w].entries["RELEASE"] # 0
    BY DEF Unreserved
  <2>. QED
    BY <2>1, <2>2, <2>3, <2>4, <2>5, WorkMarks
<1>2. CASE MarkExecuted(p) \/ MarkReconciled(p)
  <2>1. /\ answer # Null /\ session[p].job \in {"execute", "reconcile"}
        /\ \/ Write(p, First(p), Executed(View(p)[First(p)], answer))
           \/ Write(p, First(p), Reconciled(View(p)[First(p)], answer))
        /\ Done(p, First(p))
    BY <1>2 DEF MarkExecuted, MarkReconciled
  <2>2. answer \in Answer /\ session[p].todo # {}
    BY <2>1, SignerParts DEF SessionsBusy, Session
  <2>3. PICK w \in WithdrawalIds :
           /\ w = First(p) /\ w \in session[p].todo
           /\ Requested(View(p)[w]) /\ Requested(db[w])
           /\ \/ View(p)[w] = db[w]
              \/ View(p)[w] = work[w] /\ View(p)[w].status \in ReconcilableStatus
    BY <2>2, InHandAtFirst
  <2>. HIDE DEF answer
  <2>4. PICK row : /\ Write(p, w, row)
                   /\ Unreserved(row) => View(p)[w].entries["RELEASE"] # 0
    BY <2>1, <2>2, <2>3, MarkReturns
  <2>. DEFINE T == session[p].todo \ {w}
  <2>5. session' = [session EXCEPT ![p].todo = T, ![p].answer = Null]
    BY <2>1, <2>3 DEF Done
  <2>6. T \in SUBSET session[p].todo /\ w \notin T
    OBVIOUS
  <2>. HIDE DEF T
  <2>. QED
    BY <2>1, <2>3, <2>4, <2>5, <2>6, WorkMarks
<1>3. CASE CallReconcile(p)
  BY <1>3, StillMarks DEF CallReconcile
<1>4. CASE CommitCycle(p) \/ BreakOff(p)
  BY <1>4, EndMarks DEF CommitCycle, BreakOff
<1>. QED
  BY <1>1, <1>2, <1>3, <1>4 DEF CycleStep

\* What people do, and how processes begin.
LEMMA CommandsMarks ==
    ASSUME SignerInv, MarksInv
    PROVE  /\ \A w \in WithdrawalIds, u \in WithdrawalUsers, a \in WithdrawalAmounts :
                 RequestWithdrawal(w, u, a) => MarksInv' /\ LossesAreLate /\ ClosedStay
           /\ \A p \in Process : StartCycle(p) => MarksInv' /\ LossesAreLate /\ ClosedStay
           /\ \A p \in Process, due \in SUBSET WithdrawalIds :
                 BeginReconcile(p, due) => MarksInv' /\ LossesAreLate /\ ClosedStay
           /\ \A w \in WithdrawalIds, action \in {"requeue", "fail"} :
                 StartTargeted(w) \/ CheckRetry(w, action)
                    => MarksInv' /\ LossesAreLate /\ ClosedStay
           /\ MarkTargeted \/ ActOnRetry => MarksInv' /\ LossesAreLate /\ ClosedStay
<1>0. session \in [Process -> Session] /\ "bot" \in Process
  BY SignerParts DEF SessionsBusy, Process
<1>1. ASSUME NEW w \in WithdrawalIds, NEW u \in WithdrawalUsers, NEW a \in WithdrawalAmounts,
             RequestWithdrawal(w, u, a)
      PROVE  MarksInv' /\ LossesAreLate /\ ClosedStay
  <2>1. db[w].status = "none" /\ WriteAtOnce(w, NewRow(u, a)) /\ UNCHANGED session
    BY <1>1 DEF RequestWithdrawal
  <2>2. ~Unreserved(NewRow(u, a))
    BY NewRowReturns DEF Unreserved
  <2>. QED
    BY <2>1, <2>2, AtOnceMarks
\* Who is idle does not write.
<1>2. ASSUME NEW p \in Process, MayBegin(p)
      PROVE  writer # p /\ View(p) = db
  <2>1. session[p].job = "idle"
    BY <1>2 DEF MayBegin, Idle
  <2>. QED
    BY <2>1, SignerAssumption DEF MarksInv, WriterCycles, View
<1>3. ASSUME NEW p \in Process, StartCycle(p)
      PROVE  MarksInv' /\ LossesAreLate /\ ClosedStay
  <2>. DEFINE T == {w \in WithdrawalIds : db[w].status = "pending"}
  <2>1. writer # p /\ View(p) = db
    BY <1>2, <1>3 DEF StartCycle
  <2>2. T \in SUBSET WithdrawalIds /\ \A w \in T : View(p)[w].status \notin ClosedStatus
    BY <2>1, StatusesApart
  <2>3. /\ session' = [session EXCEPT ![p] = [job |-> "execute", todo |-> T, answer |-> Null]]
        /\ UNCHANGED <<db, work, writer>>
    BY <1>3 DEF StartCycle
  <2>. HIDE DEF T
  <2>. QED
    BY <2>1, <2>2, <2>3, BeginMarks DEF Job
<1>4. ASSUME NEW p \in Process, NEW due \in SUBSET WithdrawalIds, BeginReconcile(p, due)
      PROVE  MarksInv' /\ LossesAreLate /\ ClosedStay
  <2>1. \A w \in due : /\ View(p)[w].status \in ReconcilableStatus
                       /\ View(p)[w].status \notin ClosedStatus
    BY <1>4, StatusesApart DEF BeginReconcile
  <2>2. /\ session' = [session EXCEPT ![p] = [job |-> "reconcile", todo |-> due, answer |-> Null]]
        /\ UNCHANGED <<db, work, writer>>
    BY <1>4 DEF BeginReconcile
  <2>. QED
    BY <2>1, <2>2, BeginMarks DEF Job
<1>5. ASSUME NEW w \in WithdrawalIds, NEW action \in {"requeue", "fail"},
             StartTargeted(w) \/ CheckRetry(w, action)
      PROVE  MarksInv' /\ LossesAreLate /\ ClosedStay
  <2>1. PICK j \in {"targeted", "requeue", "fail"} :
           session' = [session EXCEPT !["bot"] = [job |-> j, todo |-> {w}, answer |-> Null]]
    BY <1>5 DEF StartTargeted, CheckRetry
  <2>2. /\ MayBegin("bot") /\ UNCHANGED <<db, work, writer>>
        /\ db[w].status \in ReconcilableStatus
    BY <1>5 DEF StartTargeted, CheckRetry, ReconcilableStatus
  <2>3. writer # "bot" /\ View("bot") = db /\ db[w].status \notin ClosedStatus
    BY <1>0, <1>2, <2>2, StatusesApart
  <2>. DEFINE T == {w}
  <2>4. T \in SUBSET WithdrawalIds /\ \A v \in T : View("bot")[v].status \notin ClosedStatus
    BY <2>3
  <2>5. j \in Job /\ session' = [session EXCEPT !["bot"] = [job |-> j, todo |-> T, answer |-> Null]]
    BY <2>1 DEF Job
  <2>. HIDE DEF T
  <2>. QED
    BY <1>0, <2>2, <2>3, <2>4, <2>5, BeginMarks
<1>6. ASSUME MarkTargeted \/ ActOnRetry
      PROVE  MarksInv' /\ LossesAreLate /\ ClosedStay
  <2>. DEFINE answer == session["bot"].answer
  <2>1. session["bot"].todo # {} /\ writer = Null
    BY <1>0, <1>6, SignerParts DEF MarkTargeted, ActOnRetry, WriteAtOnce, SessionsBusy
  <2>2. PICK w \in WithdrawalIds :
           w = First("bot") /\ InHand(w) /\ Requested(db[w])
    BY <1>0, <2>1, InHandAtFirst
  <2>3. \A q \in Process : session'[q].todo \subseteq session[q].todo
    BY <1>0, <1>6 DEF MarkTargeted, ActOnRetry, Finish, Idle
  <2>4. db[w].entries["RELEASE"] # 0 => Unreserved(db[w]) \/ db[w].status \in ClosedStatus
    BY <2>2 DEF Requested, Row, WithdrawalStatus, ClosedStatus, Unreserved
  <2>5. \E row : WriteAtOnce(w, row) /\ (Unreserved(row) => db[w].entries["RELEASE"] # 0)
    <3>1. CASE MarkTargeted
      <4>1. answer \in Answer
        BY <1>0, <3>1 DEF MarkTargeted, Session
      <4>2. Unreserved(Reconciled(db[w], answer)) => db[w].entries["RELEASE"] # 0
        BY <2>2, <4>1, MarkReturns
      <4>3. Unreserved(db[w]) => db[w].entries["RELEASE"] # 0
        BY DEF Unreserved
      <4>. QED
        BY <2>2, <3>1, <4>2, <4>3 DEF MarkTargeted
    <3>2. CASE ActOnRetry
      <4>1. ~Unreserved(MarkFailed(db[w]))
        BY <2>2, FailedEntries, StatusesApart DEF Unreserved
      <4>2. Unreserved(Requeue(db[w])) => db[w].entries["RELEASE"] # 0
        BY <2>2 DEF Unreserved, Requeue, Requested, Row
      <4>. QED
        BY <2>2, <3>2, <4>1, <4>2 DEF ActOnRetry
    <3>. QED
      BY <1>6, <3>1, <3>2
  <2>. QED
    BY <2>2, <2>3, <2>4, <2>5, AtOnceMarks
<1>. QED
  BY <1>1, <1>3, <1>4, <1>5, <1>6

LEMMA MarksStep ==
    ASSUME SignerInv, MarksInv, [SignerNext]_signerVars
    PROVE  MarksInv' /\ LossesAreLate /\ ClosedStay
<1>1. CASE UNCHANGED signerVars
  BY <1>1, StillMarks DEF signerVars
<1>2. ASSUME NEW w \in WithdrawalIds, LateRequest(w) \/ OperatorActs(w)
      PROVE  MarksInv' /\ LossesAreLate /\ ClosedStay
  BY <1>2, StillMarks DEF LateRequest, OperatorActs
<1>. QED
  BY <1>1, <1>2, CycleMarks, CommandsMarks DEF SignerNext

LEMMA MarksInit == SignerInit => MarksInv
<1> SUFFICES ASSUME SignerInit PROVE MarksInv
  OBVIOUS
<1>. QED
  BY DEF SignerInit, MarksInv, WriterCycles, OwnMarks, LateMarks, Idle

LEMMA MarksAlways == SignerSpec => []MarksInv
<1>1. SignerInv /\ MarksInv /\ [SignerNext]_signerVars => MarksInv'
  BY MarksStep
<1>. QED
  BY <1>1, MarksInit, SignerInvariant, PTL DEF SignerSpec

\* A withdrawal that is confirmed or has failed, and that nobody has in hand, is
\* closed for good: under any overlap of processes, with answers of any age, no
\* cycle, reconcile or command takes it up again or changes its row.
THEOREM OutcomesAreFinal == SignerSpec => OutcomeIsFinal
<1>. DEFINE Final == \A w \in WithdrawalIds : Closed(w) => Closed(w)' /\ db'[w] = db[w]
<1>1. SignerInv /\ MarksInv /\ [SignerNext]_signerVars => [Final]_signerVars
  BY MarksStep DEF ClosedStay
<1>. QED
  BY <1>1, SignerInvariant, MarksAlways, PTL DEF SignerSpec, OutcomeIsFinal

\* What is reserved of an unresolved withdrawal stays reserved, with one exception:
\* a process that had the withdrawal in hand when another committed its outcome
\* writes over that outcome.  No crash, lost answer, refusal, requeue or move of the
\* operator takes a reservation away, under any overlap of processes.
THEOREM ReservationsGoWithOutcomes ==
    SignerSpec =>
       [][\A w \in WithdrawalIds :
             (db'[w].status \in UnresolvedStatus /\ db'[w].entries["RELEASE"] # 0)
             => \/ db[w].status \in UnresolvedStatus /\ db[w].entries["RELEASE"] # 0
                \/ db[w].status \in ClosedStatus /\ InHand(w)]_signerVars
<1>. DEFINE Losses ==
             \A w \in WithdrawalIds :
                (db'[w].status \in UnresolvedStatus /\ db'[w].entries["RELEASE"] # 0)
                => \/ db[w].status \in UnresolvedStatus /\ db[w].entries["RELEASE"] # 0
                   \/ db[w].status \in ClosedStatus /\ InHand(w)
<1>1. SignerInv /\ MarksInv /\ [SignerNext]_signerVars => [Losses]_signerVars
  BY MarksStep DEF LossesAreLate, Unreserved
<1>. QED
  BY <1>1, SignerInvariant, MarksAlways, PTL DEF SignerSpec

-----------------------------------------------------------------------------
\* The books and the provider's word.

SentStatus == {"broadcasted", "confirmed"}

\* What the provider has sent or refused stays sent or refused, and admins fail
\* only what it has refused.
WordKept ==
    /\ \A move \in OperatorMoves :
          /\ move[1] \in SentStatus => move[2] \in SentStatus
          /\ move[1] \in Refused => move[2] \in Refused
    /\ AdminFailsWhen \subseteq Refused

HasSent(w) == StatusAtProvider(w) \in SentStatus
HasRefused(w) == w \in Unpayable \/ StatusAtProvider(w) \in Refused

\* Nothing is booked of a row but what the provider has said of it.
RowTrue(w, row) ==
    /\ FeeBooked(row) => HasSent(w)
    /\ row.entries["RELEASE"] # 0 => HasRefused(w)

RowsTrue == \A w \in WithdrawalIds : RowTrue(w, db[w]) /\ RowTrue(w, work[w])

AnswerTrue(w, answer) ==
    /\ answer.status \in SentStatus => HasSent(w)
    /\ answer.status \in Refused => HasRefused(w)

\* An answer that is under way may be old, but it is no less true for that.
AnswersTrue ==
    \A p \in Process :
        /\ session[p].answer # Null => AnswerTrue(First(p), session[p].answer)
        /\ session[p].job = "fail" => HasRefused(First(p))

Unrecorded == \A w \in Unpayable : record[w] = Null

BooksInv == RowsTrue /\ AnswersTrue /\ Unrecorded

\* The provider does not go back on its word, and answers nothing that it then
\* does not have.
WordStands ==
    \A w \in WithdrawalIds : /\ HasSent(w) => HasSent(w)'
                             /\ HasRefused(w) => HasRefused(w)'

Tells(w, answer) ==
    /\ answer.status \in SentStatus => HasSent(w)'
    /\ answer.status \in Refused => HasRefused(w)'

LEMMA UnchangedWord == UNCHANGED record => WordStands
BY DEF WordStands, HasSent, HasRefused, StatusAtProvider

LEMMA HandledWord ==
    ASSUME RecordTyped, Unrecorded, NEW w \in WithdrawalIds, HandleExecute(w)
    PROVE  WordStands /\ Unrecorded' /\ Tells(w, ExecuteAnswer(w))
<1>1. CASE w \in Unpayable
  <2>1. record' = record /\ ExecuteAnswer(w) = Refusal
    BY <1>1 DEF HandleExecute, ExecuteAnswer
  <2>. QED
    BY <1>1, <2>1, UnchangedWord
       DEF Unrecorded, Tells, Refusal, HasRefused, SentStatus
<1>2. CASE w \notin Unpayable
  <2>1. record'[w] # Null /\ ExecuteAnswer(w) = record'[w]
    BY <1>2, SignerAssumption
       DEF HandleExecute, ExecuteAnswer, RecordTyped, Record, ProviderStatus
  <2>2. /\ record[w] # Null => record' = record
        /\ \A v \in WithdrawalIds \ {w} : record'[v] = record[v]
    BY <1>2 DEF HandleExecute, RecordTyped
  <2>3. Unrecorded'
    BY <1>2, <2>2, SignerAssumption DEF Unrecorded
  <2>4. Tells(w, ExecuteAnswer(w))
    BY <2>1 DEF Tells, HasSent, HasRefused, StatusAtProvider
  <2>5. WordStands
    BY <1>2, <2>2 DEF WordStands, HasSent, HasRefused, StatusAtProvider, SentStatus, Refused
  <2>. QED
    BY <2>3, <2>4, <2>5
<1>. QED
  BY <1>1, <1>2

LEMMA OperatorsWord ==
    ASSUME WordKept, RecordTyped, Unrecorded, NEW w \in WithdrawalIds, OperatorActs(w)
    PROVE  WordStands /\ Unrecorded'
<1>1. PICK s \in ProviderStatus, f \in ActualFees \cup {Null} : UpdateStatus(w, s, f)
  BY DEF OperatorActs
<1>2. /\ record[w] # Null /\ record'[w].status = s /\ record'[w] # Null
      /\ \A v \in WithdrawalIds \ {w} : record'[v] = record[v]
  BY <1>1, SignerAssumption DEF UpdateStatus, RecordTyped, Record
<1>3. /\ record[w].status \in SentStatus => s \in SentStatus
      /\ record[w].status \in Refused => s \in Refused
  <2>1. <<record[w].status, s>> \in OperatorMoves
    BY <1>1 DEF UpdateStatus
  <2>. QED
    BY <2>1 DEF WordKept
<1>4. w \notin Unpayable /\ Unrecorded'
  BY <1>2, SignerAssumption DEF Unrecorded
<1>5. WordStands
  BY <1>2, <1>3 DEF WordStands, HasSent, HasRefused, StatusAtProvider
<1>. QED
  BY <1>4, <1>5

\* A row that is written, of which the provider has said as much.
RowTold(w, row) ==
    /\ FeeBooked(row) => HasSent(w)'
    /\ row.entries["RELEASE"] # 0 => HasRefused(w)'

LEMMA StillTrue ==
    ASSUME RowsTrue, WordStands, UNCHANGED <<db, work>>
    PROVE  RowsTrue'
BY DEF RowsTrue, RowTrue, WordStands

LEMMA WriteTrue ==
    ASSUME SignerInv, RowsTrue, WordStands, NEW p \in Process, NEW w \in WithdrawalIds,
           NEW row, RowTold(w, row), Write(p, w, row)
    PROVE  RowsTrue'
<1>1. View(p) \in [WithdrawalIds -> Row] /\ \A v \in WithdrawalIds : RowTrue(v, View(p)[v])
  BY ViewBooked, SignerParts DEF View, RowsTrue
<1>2. /\ db' = db
      /\ \A v \in WithdrawalIds : work'[v] = IF v = w THEN row ELSE View(p)[v]
  BY <1>1 DEF Write
<1>. QED
  BY <1>1, <1>2 DEF RowsTrue, RowTrue, RowTold, WordStands

LEMMA AtOnceTrue ==
    ASSUME SignerInv, RowsTrue, WordStands, NEW w \in WithdrawalIds, NEW row,
           RowTold(w, row), WriteAtOnce(w, row)
    PROVE  RowsTrue'
<1>1. /\ work' = db'
      /\ \A v \in WithdrawalIds : db'[v] = IF v = w THEN row ELSE db[v]
  BY SignerParts DEF WriteAtOnce, TablesBooked
<1>. QED
  BY <1>1 DEF RowsTrue, RowTrue, RowTold, WordStands

LEMMA EndTrue ==
    ASSUME RowsTrue, WordStands, NEW p \in Process, CommitAll(p) \/ RollBack(p)
    PROVE  RowsTrue'
<1>1. /\ db' = db \/ db' = work
      /\ work' = work \/ work' = db
  BY DEF CommitAll, RollBack, View
<1>. QED
  BY <1>1 DEF RowsTrue, RowTrue, WordStands

\* A session that begins, gets an answer, goes on or ends.
LEMMA SessionsTrue ==
    ASSUME SignerInv, AnswersTrue, WordStands, NEW p \in Process,
           \/ UNCHANGED session
           \/ Finish(p)
           \/ session[p].job # "fail" /\ \E w : Done(p, w)
           \/ /\ session[p].job # "fail"
              /\ \E a \in Answer, w \in WithdrawalIds :
                    Answered(p, a) /\ w = First(p) /\ Tells(w, a)
           \/ \E j \in Job, T \in SUBSET WithdrawalIds :
                 /\ session' = [session EXCEPT ![p] = [job |-> j, todo |-> T, answer |-> Null]]
                 /\ j = "fail" => \E w \in WithdrawalIds : T = {w} /\ HasRefused(w)
    PROVE  AnswersTrue'
<1>1. session \in [Process -> Session]
  BY SignerParts DEF SessionsBusy
<1>2. ASSUME NEW q \in Process, session'[q] = session[q]
      PROVE  /\ session'[q].answer # Null => AnswerTrue(First(q), session[q].answer)'
             /\ session'[q].job = "fail" => HasRefused(First(q))'
  <2>. SUFFICES ASSUME session[q].answer # Null \/ session[q].job = "fail"
                PROVE  /\ session'[q].answer # Null => AnswerTrue(First(q), session[q].answer)'
                       /\ session'[q].job = "fail" => HasRefused(First(q))'
    BY <1>2
  <2>1. First(q) \in WithdrawalIds
    BY AtFirst, SignerParts DEF SessionsBusy
  <2>2. First(q)' = First(q)
    BY <1>2 DEF First
  <2>3. PICK w \in WithdrawalIds : w = First(q)
    BY <2>1
  <2>4. /\ session[q].answer # Null => AnswerTrue(w, session[q].answer)
        /\ session[q].job = "fail" => HasRefused(w)
    BY <2>3 DEF AnswersTrue
  <2>5. /\ session[q].answer # Null => Tells(w, session[q].answer)
        /\ session[q].job = "fail" => HasRefused(w)'
    BY <2>4 DEF AnswerTrue, Tells, WordStands
  <2>. QED
    BY <1>2, <2>2, <2>3, <2>5 DEF AnswerTrue, Tells, HasSent, HasRefused, StatusAtProvider
<1>3. ASSUME UNCHANGED session
      PROVE  AnswersTrue'
  BY <1>2, <1>3 DEF AnswersTrue
<1>4. ASSUME \A q \in Process \ {p} : session'[q] = session[q],
             session'[p].answer # Null => AnswerTrue(First(p), session[p].answer)',
             session'[p].job = "fail" => HasRefused(First(p))'
      PROVE  AnswersTrue'
  BY <1>2, <1>4 DEF AnswersTrue
<1>5. ASSUME Finish(p)
      PROVE  AnswersTrue'
  BY <1>1, <1>4, <1>5 DEF Finish, Idle
<1>6. ASSUME NEW w, session[p].job # "fail", Done(p, w)
      PROVE  AnswersTrue'
  <2>1. /\ session'[p] = [session[p] EXCEPT !.todo = @ \ {w}, !.answer = Null]
        /\ \A q \in Process \ {p} : session'[q] = session[q]
    BY <1>1, <1>6 DEF Done
  <2>2. session'[p].answer = Null /\ session'[p].job = session[p].job
    BY <1>1, <2>1 DEF Session
  <2>. QED
    BY <1>4, <1>6, <2>1, <2>2
<1>7. ASSUME NEW a \in Answer, NEW w \in WithdrawalIds, session[p].job # "fail",
             Answered(p, a), w = First(p), Tells(w, a)
      PROVE  AnswersTrue'
  <2>1. /\ session'[p].todo = session[p].todo /\ session'[p].answer = a
        /\ session'[p].job # "fail"
        /\ \A q \in Process \ {p} : session'[q] = session[q]
    BY <1>1, <1>7 DEF Answered, Session
  <2>2. First(p)' = w
    BY <1>7, <2>1 DEF First
  <2>3. AnswerTrue(First(p), session[p].answer)'
    BY <1>7, <2>1, <2>2 DEF AnswerTrue, Tells, HasSent, HasRefused, StatusAtProvider
  <2>. QED
    BY <1>4, <2>1, <2>3
<1>8. ASSUME NEW j \in Job, NEW T \in SUBSET WithdrawalIds,
             session' = [session EXCEPT ![p] = [job |-> j, todo |-> T, answer |-> Null]],
             j = "fail" => \E w \in WithdrawalIds : T = {w} /\ HasRefused(w)
      PROVE  AnswersTrue'
  <2>1. /\ session'[p].todo = T /\ session'[p].answer = Null /\ session'[p].job = j
        /\ \A q \in Process \ {p} : session'[q] = session[q]
    BY <1>1, <1>8
  <2>2. ASSUME j = "fail"
        PROVE  HasRefused(First(p))'
    <3>1. PICK w \in WithdrawalIds : T = {w} /\ HasRefused(w)
      BY <1>8, <2>2
    <3>2. session'[p].todo \in SUBSET WithdrawalIds /\ session'[p].todo # {}
      BY <2>1, <3>1
    <3>3. First(p)' = w
      <4>1. w \in Nat /\ w <= w
        BY SignerAssumption
      <4>. QED
        BY <2>1, <3>1, <4>1 DEF First
    <3>4. HasRefused(w)'
      BY <3>1 DEF WordStands
    <3>. QED
      BY <3>3, <3>4 DEF HasRefused, StatusAtProvider
  <2>. QED
    BY <1>4, <2>1, <2>2
<1>. QED
  BY <1>3, <1>5, <1>6, <1>7, <1>8

\* What is made of a true row on a true answer is true.
LEMMA MarksTold ==
    ASSUME WordStands, NEW w \in WithdrawalIds, NEW row, Requested(row), RowTrue(w, row),
           NEW answer \in Answer, AnswerTrue(w, answer)
    PROVE  RowTold(w, Executed(row, answer)) /\ RowTold(w, Reconciled(row, answer))
<1>1. ASSUME NEW s, Unreturned(row, s, answer)
      PROVE  RowTold(w, s)
  BY <1>1 DEF Unreturned, RowTrue, RowTold, AnswerTrue, FeeBooked, WordStands, SentStatus
<1>2. ASSUME answer.status \in Refused
      PROVE  RowTold(w, MarkFailed(row))
  BY <1>2, FailedEntries DEF RowTrue, RowTold, AnswerTrue, FeeBooked, WordStands
<1>. QED
  BY <1>1, <1>2, MarkEntries

\* The withdrawal a process is at: its row and the answer it waits to be marked with.
LEMMA TrueAtFirst ==
    ASSUME SignerInv, BooksInv, NEW p \in Process, session[p].todo # {}
    PROVE  /\ First(p) \in WithdrawalIds
           /\ Requested(View(p)[First(p)]) /\ RowTrue(First(p), View(p)[First(p)])
           /\ Requested(db[First(p)]) /\ RowTrue(First(p), db[First(p)])
<1>1. First(p) \in WithdrawalIds
  BY AtFirst
<1>2. RowTrue(First(p), db[First(p)]) /\ RowTrue(First(p), work[First(p)])
  BY <1>1 DEF BooksInv, RowsTrue
<1>. QED
  BY <1>1, <1>2, AtFirst DEF View

LEMMA CallsTrue ==
    ASSUME SignerInv, BooksInv, NEW p \in Process, CallExecute(p) \/ CallReconcile(p)
    PROVE  BooksInv'
<1>1. session[p].todo # {} /\ session[p].job # "fail"
  BY DEF CallExecute, CallReconcile, Calling
<1>2. PICK w \in WithdrawalIds :
         w = First(p) /\ Requested(View(p)[w]) /\ RowTrue(w, View(p)[w])
  BY <1>1, TrueAtFirst
<1>3. Lost \in Answer /\ Tells(w, Lost)
  BY DEF Lost, Answer, Tells, SentStatus, Refused
<1>4. RecordTyped /\ Unrecorded /\ RowsTrue /\ AnswersTrue
  BY SignerParts DEF Rest, BooksInv
<1>5. CASE CallExecute(p)
  <2>1. /\ Write(p, w, View(p)[w])
        /\ \/ HandleExecute(w) /\ Answered(p, ExecuteAnswer(w))
           \/ Answered(p, Lost) /\ record' = record
    BY <1>2, <1>5 DEF CallExecute
  <2>2. WordStands /\ Unrecorded'
    BY <1>2, <1>4, <2>1, HandledWord, UnchangedWord DEF Unrecorded
  <2>3. RowTold(w, View(p)[w])
    BY <1>2, <2>2 DEF RowTrue, RowTold, WordStands
  <2>4. RowsTrue'
    BY <1>2, <1>4, <2>1, <2>2, <2>3, WriteTrue
  <2>5. \E a \in Answer, v \in WithdrawalIds : Answered(p, a) /\ v = First(p) /\ Tells(v, a)
    <3>1. CASE HandleExecute(w) /\ Answered(p, ExecuteAnswer(w))
      BY <1>2, <1>4, <3>1, HandledRecord, HandledWord
    <3>2. CASE Answered(p, Lost)
      BY <1>2, <1>3, <3>2
    <3>. QED
      BY <2>1, <3>1, <3>2
  <2>6. AnswersTrue'
    BY <1>1, <1>4, <2>2, <2>5, SessionsTrue
  <2>. QED
    BY <2>2, <2>4, <2>6 DEF BooksInv
<1>6. CASE CallReconcile(p)
  <2>1. /\ UNCHANGED <<record, db, work>>
        /\ Answered(p, ReconcileAnswer(w)) \/ Answered(p, Lost)
    BY <1>2, <1>6 DEF CallReconcile
  <2>2. WordStands /\ Unrecorded' /\ RowsTrue'
    BY <1>4, <2>1, UnchangedWord, StillTrue DEF Unrecorded
  <2>3. ReconcileAnswer(w) \in Answer /\ Tells(w, ReconcileAnswer(w))
    BY <1>2, <1>4, <2>1, ReconcileAnswered
       DEF ReconcileAnswer, NotFound, Tells, HasSent, HasRefused, StatusAtProvider,
           SentStatus, Refused
  <2>4. \E a \in Answer, v \in WithdrawalIds : Answered(p, a) /\ v = First(p) /\ Tells(v, a)
    BY <1>2, <1>3, <2>1, <2>3
  <2>5. AnswersTrue'
    BY <1>1, <1>4, <2>2, <2>4, SessionsTrue
  <2>. QED
    BY <2>2, <2>5 DEF BooksInv
<1>. QED
  BY <1>5, <1>6

LEMMA CycleTrue ==
    ASSUME SignerInv, BooksInv, NEW p \in Process, CycleStep(p) \/ BreakOff(p)
    PROVE  BooksInv'
<1>1. CASE MarkExecuted(p) \/ MarkReconciled(p)
  <2>. DEFINE answer == session[p].answer
  <2>0. answer # Null /\ answer \in Answer /\ session[p].todo # {}
    BY <1>1, SignerParts DEF MarkExecuted, MarkReconciled, SessionsBusy, Session
  <2>3. PICK w \in WithdrawalIds :
           w = First(p) /\ Requested(View(p)[w]) /\ RowTrue(w, View(p)[w])
    BY <2>0, TrueAtFirst
  <2>1. /\ session[p].job # "fail" /\ record' = record
        /\ \/ Write(p, w, Executed(View(p)[w], answer))
           \/ Write(p, w, Reconciled(View(p)[w], answer))
        /\ Done(p, w)
    BY <1>1, <2>3 DEF MarkExecuted, MarkReconciled
  <2>2. answer \in Answer /\ AnswerTrue(w, answer)
    BY <2>0, <2>3 DEF BooksInv, AnswersTrue
  <2>. HIDE DEF answer
  <2>4. WordStands /\ Unrecorded'
    BY <2>1, UnchangedWord DEF BooksInv, Unrecorded
  <2>5. \E row : RowTold(w, row) /\ Write(p, w, row)
    BY <2>1, <2>2, <2>3, <2>4, MarksTold
  <2>6. RowsTrue'
    BY <2>3, <2>4, <2>5, WriteTrue DEF BooksInv
  <2>7. AnswersTrue'
    BY <2>1, <2>4, SessionsTrue DEF BooksInv
  <2>. QED
    BY <2>4, <2>6, <2>7 DEF BooksInv
<1>2. CASE CommitCycle(p) \/ BreakOff(p)
  <2>1. record' = record /\ (CommitAll(p) \/ RollBack(p)) /\ Finish(p)
    BY <1>2 DEF CommitCycle, BreakOff
  <2>2. WordStands /\ Unrecorded'
    BY <2>1, UnchangedWord DEF BooksInv, Unrecorded
  <2>3. RowsTrue' /\ AnswersTrue'
    BY <2>1, <2>2, EndTrue, SessionsTrue DEF BooksInv
  <2>. QED
    BY <2>2, <2>3 DEF BooksInv
<1>. QED
  BY <1>1, <1>2, CallsTrue DEF CycleStep

\* What people do, whenever they do it.
LEMMA CommandsTrue ==
    ASSUME WordKept, SignerInv, BooksInv
    PROVE  /\ \A w \in WithdrawalIds, u \in WithdrawalUsers, a \in WithdrawalAmounts :
                 RequestWithdrawal(w, u, a) => BooksInv'
           /\ \A p \in Process, due \in SUBSET WithdrawalIds :
                 StartCycle(p) \/ BeginReconcile(p, due) => BooksInv'
           /\ \A w \in WithdrawalIds, action \in {"requeue", "fail"} :
                 StartTargeted(w) \/ CheckRetry(w, action) => BooksInv'
           /\ MarkTargeted \/ ActOnRetry => BooksInv'
<1>0. RowsTrue /\ AnswersTrue /\ Unrecorded
  BY DEF BooksInv
<1>00. ASSUME record' = record
       PROVE  WordStands /\ Unrecorded'
  BY <1>0, <1>00, UnchangedWord DEF Unrecorded
<1>1. ASSUME NEW w \in WithdrawalIds, NEW u \in WithdrawalUsers, NEW a \in WithdrawalAmounts,
             RequestWithdrawal(w, u, a)
      PROVE  BooksInv'
  <2>1. WordStands /\ Unrecorded' /\ WriteAtOnce(w, NewRow(u, a)) /\ UNCHANGED session
    BY <1>00, <1>1 DEF RequestWithdrawal
  <2>2. RowTold(w, NewRow(u, a))
    BY NewRowReturns DEF RowTold
  <2>3. RowsTrue'
    BY <1>0, <2>1, <2>2, AtOnceTrue
  <2>4. AnswersTrue'
    BY <1>0, <2>1, SessionsTrue DEF Process
  <2>. QED
    BY <2>1, <2>3, <2>4 DEF BooksInv
<1>2. ASSUME NEW p \in Process, NEW j \in Job, NEW T \in SUBSET WithdrawalIds,
             session' = [session EXCEPT ![p] = [job |-> j, todo |-> T, answer |-> Null]],
             j = "fail" => \E w \in WithdrawalIds : T = {w} /\ HasRefused(w),
             UNCHANGED <<record, db, work>>
      PROVE  BooksInv'
  <2>1. WordStands /\ Unrecorded'
    BY <1>00, <1>2
  <2>2. RowsTrue'
    BY <1>0, <1>2, <2>1, StillTrue
  <2>3. AnswersTrue'
    BY <1>0, <1>2, <2>1, SessionsTrue
  <2>. QED
    BY <2>1, <2>2, <2>3 DEF BooksInv
<1>3. ASSUME NEW p \in Process, StartCycle(p)
      PROVE  BooksInv'
  BY <1>2, <1>3 DEF StartCycle, Job
<1>4. ASSUME NEW p \in Process, NEW due \in SUBSET WithdrawalIds, BeginReconcile(p, due)
      PROVE  BooksInv'
  BY <1>2, <1>4 DEF BeginReconcile, Job
<1>5. ASSUME NEW w \in WithdrawalIds, StartTargeted(w)
      PROVE  BooksInv'
  <2>1. "bot" \in Process /\ "targeted" \in Job /\ {w} \in SUBSET WithdrawalIds
    BY DEF Process, Job
  <2>. QED
    BY <1>2, <1>5, <2>1 DEF StartTargeted
<1>6. ASSUME NEW w \in WithdrawalIds, NEW action \in {"requeue", "fail"}, CheckRetry(w, action)
      PROVE  BooksInv'
  <2>1. "bot" \in Process /\ action \in Job /\ {w} \in SUBSET WithdrawalIds
    BY DEF Process, Job
  <2>2. action = "fail" => HasRefused(w)
    BY <1>6 DEF CheckRetry, WordKept, HasRefused
  <2>. QED
    BY <1>2, <1>6, <2>1, <2>2 DEF CheckRetry
<1>7. CASE MarkTargeted \/ ActOnRetry
  <2>. DEFINE answer == session["bot"].answer
  <2>1. "bot" \in Process /\ session["bot"].todo # {}
    BY <1>7, SignerParts DEF MarkTargeted, ActOnRetry, SessionsBusy, Process
  <2>2. WordStands /\ Unrecorded' /\ Finish("bot")
    BY <1>00, <1>7 DEF MarkTargeted, ActOnRetry
  <2>3. PICK w \in WithdrawalIds :
           w = First("bot") /\ Requested(db[w]) /\ RowTrue(w, db[w])
    BY <2>1, TrueAtFirst
  <2>4. RowTold(w, db[w])
    BY <2>2, <2>3 DEF RowTrue, RowTold, WordStands
  <2>5. \E row : RowTold(w, row) /\ WriteAtOnce(w, row)
    <3>1. CASE MarkTargeted
      <4>1. answer \in Answer /\ AnswerTrue(w, answer)
        BY <1>0, <2>1, <2>3, <3>1, SignerParts
           DEF MarkTargeted, SessionsBusy, Session, AnswersTrue
      <4>2. RowTold(w, Reconciled(db[w], answer))
        BY <2>2, <2>3, <4>1, MarksTold
      <4>. QED
        BY <2>3, <2>4, <3>1, <4>2 DEF MarkTargeted
    <3>2. CASE ActOnRetry
      <4>1. RowTold(w, Requeue(db[w]))
        <5>1. Requeue(db[w]).entries = db[w].entries
          BY <2>3 DEF Requeue, Requested, Row
        <5>. QED
          BY <2>4, <5>1 DEF RowTold, FeeBooked
      <4>2. session["bot"].job = "fail" => RowTold(w, MarkFailed(db[w]))
        BY <1>0, <2>1, <2>2, <2>3, <2>4, FailedEntries
           DEF RowTold, FeeBooked, AnswersTrue, WordStands
      <4>. QED
        BY <2>3, <3>2, <4>1, <4>2 DEF ActOnRetry
    <3>. QED
      BY <1>7, <3>1, <3>2
  <2>6. RowsTrue'
    BY <1>0, <2>2, <2>3, <2>5, AtOnceTrue
  <2>7. AnswersTrue'
    BY <1>0, <2>1, <2>2, SessionsTrue
  <2>. QED
    BY <2>2, <2>6, <2>7 DEF BooksInv
<1>. QED
  BY <1>1, <1>3, <1>4, <1>5, <1>6, <1>7

LEMMA ProviderTrue ==
    ASSUME WordKept, SignerInv, BooksInv, NEW w \in WithdrawalIds,
           LateRequest(w) \/ OperatorActs(w)
    PROVE  BooksInv'
<1>1. WordStands /\ Unrecorded'
  BY HandledWord, OperatorsWord, SignerParts DEF LateRequest, Rest, BooksInv
<1>2. UNCHANGED <<db, work, session>>
  BY DEF LateRequest, OperatorActs
<1>. QED
  BY <1>1, <1>2, StillTrue, SessionsTrue DEF BooksInv, Process

LEMMA BooksStep ==
    ASSUME WordKept
    PROVE  SignerInv /\ BooksInv /\ [SignerNext]_signerVars => BooksInv'
<1> SUFFICES ASSUME SignerInv, BooksInv, [SignerNext]_signerVars PROVE BooksInv'
  OBVIOUS
<1>1. CASE UNCHANGED signerVars
  BY <1>1, UnchangedWord, StillTrue, SessionsTrue
     DEF signerVars, BooksInv, Process, Unrecorded
<1>2. {} \in SUBSET WithdrawalIds
  OBVIOUS
<1>. QED
  BY <1>1, <1>2, CycleTrue, CommandsTrue, ProviderTrue DEF SignerNext

LEMMA BooksInit == SignerInit => BooksInv
<1> SUFFICES ASSUME SignerInit PROVE BooksInv
  OBVIOUS
<1>1. NoRow.entries["RELEASE"] = 0 /\ ~FeeBooked(NoRow)
  BY DEF NoRow, FeeBooked, UserEntry, PlatformEntry
<1>. QED
  BY <1>1, SignerAssumption
     DEF SignerInit, ProviderInit, BooksInv, RowsTrue, RowTrue, AnswersTrue, Unrecorded, Idle

LEMMA BooksAlways ==
    ASSUME WordKept
    PROVE  SignerSpec => []BooksInv
BY BooksStep, BooksInit, SignerInvariant, PTL DEF SignerSpec

\* The books never run ahead of the provider, for any overlap of commands and
\* cycles, any number of lost, late and repeated calls, crashes and any number of
\* withdrawals, as long as the provider's operator keeps to what is paid or refused.
THEOREM BooksAreTrue ==
    ASSUME WordKept
    PROVE  SignerSpec => []BooksFollowProvider
<1>1. BooksInv => BooksFollowProvider
  BY DEF BooksInv, RowsTrue, RowTrue, HasSent, HasRefused, SentStatus, Refused,
         BooksFollowProvider
<1>. QED
  BY <1>1, BooksAlways, PTL

-----------------------------------------------------------------------------
\* Payments, refused ones too.

\* What is booked of a withdrawal that was given back: the reservation and its
\* return, and nothing for the platform or the network.
Returned(row) ==
    /\ row.status = "failed"
    /\ row.amount > 0 /\ row.fee > 0
    /\ row.entries["RESERVE"] = -(row.amount + row.fee + row.networkFee)
    /\ row.entries["RELEASE"] = row.amount + row.fee + row.networkFee
    /\ ~FeeBooked(row) /\ ~NetworkFeeSettled(row)

GivenBack(r, s) ==
    /\ Ledger(r) /\ r.status # "none" /\ ~FeeBooked(r) /\ ~NetworkFeeSettled(r)
    /\ Returned(s)
    /\ s.amount = r.amount /\ s.fee = r.fee /\ s.networkFee = r.networkFee

MovedOn(r, s) == Ledger(r) /\ Ledger(s) /\ Onward(r, s)

\* s is what a row r may have become.
Follows(r, s) == s = r \/ MovedOn(r, s) \/ GivenBack(r, s)

\* The ledger entries of a row account for the whole charge.
Settles(row) == row.status # "none" => Ledger(row) \/ Returned(row)

\* What is made of a row that settles, and that has no outcome yet, settles too.
TablesFollow ==
    \A w \in WithdrawalIds :
        Settles(db[w]) => Follows(db[w], work[w]) \/ db[w].status \in ClosedStatus

\* A process writes over the outcome of a withdrawal that it had in hand when
\* another committed that outcome.
WrittenOver(w) == db[w].status \in ClosedStatus /\ InHand(w) /\ db'[w] # db[w]

\* A failure that finds no fee booked gives back what was reserved.
LEMMA FailureGivesBack ==
    ASSUME NEW row, Requested(row), Ledger(row), ~FeeBooked(row)
    PROVE  GivenBack(row, MarkFailed(row))
<1>. DEFINE s == MarkFailed(row)
            back == row.amount + row.fee + row.networkFee
<1>1. /\ s.status = "failed" /\ s.amount = row.amount /\ s.fee = row.fee
      /\ s.networkFee = row.networkFee
      /\ s.entries["RELEASE"] = row.entries["RELEASE"] + back
      /\ \A t \in {"RESERVE", "PLATFORM_FEE"} \cup NetworkEntry : s.entries[t] = row.entries[t]
  BY FailedEntries
<1>2. back \in Int
  <2>1. /\ row.amount \in WithdrawalAmounts \cup {0}
        /\ row.fee \in Nat /\ row.networkFee \in Nat
    BY DEF Requested, Row
  <2>2. WithdrawalAmounts \cup {0} \subseteq Nat
    BY WithdrawalsAssumption
  <2>. QED
    BY <2>1, <2>2
<1>. HIDE DEF s, back
<1>3. s.entries["RELEASE"] = back /\ s.entries["RESERVE"] = -back
  BY <1>1, <1>2 DEF Ledger, back
<1>4. ~NetworkFeeSettled(row) /\ row.status # "none"
  BY DEF Ledger, Requested
<1>5. ~FeeBooked(s) /\ ~NetworkFeeSettled(s)
  BY <1>1, <1>4 DEF FeeBooked, NetworkFeeSettled, NetworkEntry
<1>6. Returned(s)
  BY <1>1, <1>3, <1>5 DEF Returned, Ledger, back
<1>. QED
  BY <1>1, <1>4, <1>6 DEF GivenBack, s

\* Where an open row follows another, so does what becomes of it.
LEMMA FollowsOn ==
    ASSUME NEW r, NEW v, Settles(r), Follows(r, v), v.status \notin ClosedStatus,
           v.status # "none"
    PROVE  /\ Ledger(v) /\ r.status # "none"
           /\ \A s : MovedOn(v, s) \/ GivenBack(v, s) => Follows(r, s)
<1>1. ~Returned(v) /\ ~GivenBack(r, v)
  BY DEF Returned, GivenBack, ClosedStatus
<1>2. CASE v = r
  BY <1>1, <1>2 DEF Settles, Follows
<1>3. CASE MovedOn(r, v)
  <2>1. Ledger(r) /\ Ledger(v) /\ Onward(r, v) /\ r.status # "none"
    BY <1>3 DEF MovedOn, Onward
  <2>2. ASSUME NEW s, MovedOn(v, s)
        PROVE  MovedOn(r, s)
    BY <2>1, <2>2, OnwardIsOrder DEF MovedOn
  <2>3. ASSUME NEW s, GivenBack(v, s)
        PROVE  GivenBack(r, s)
    BY <2>1, <2>3 DEF GivenBack, Onward, NetworkFeeSettled, NetworkEntry
  <2>. QED
    BY <2>1, <2>2, <2>3 DEF Follows
<1>. QED
  BY <1>1, <1>2, <1>3 DEF Follows

\* What the signer or an admin makes of an open row, on an answer that is true.
LEMMA MarkFollows ==
    ASSUME Unrecorded, NEW w \in WithdrawalIds, NEW row, Requested(row), Ledger(row),
           RowTrue(w, row)
    PROVE  /\ HasRefused(w) => GivenBack(row, MarkFailed(row))
           /\ \A answer \in Answer : AnswerTrue(w, answer) =>
                 /\ MovedOn(row, Executed(row, answer)) \/ GivenBack(row, Executed(row, answer))
                 /\ MovedOn(row, Reconciled(row, answer))
<1>1. ASSUME HasRefused(w)
      PROVE  GivenBack(row, MarkFailed(row))
  <2>1. ~HasSent(w)
    BY <1>1 DEF HasRefused, HasSent, StatusAtProvider, Unrecorded, SentStatus, Refused
  <2>2. ~FeeBooked(row)
    BY <2>1 DEF RowTrue
  <2>. QED
    BY <2>2, FailureGivesBack
<1>2. ASSUME NEW answer \in Answer, answer.status \notin Refused
      PROVE  MovedOn(row, Executed(row, answer)) /\ MovedOn(row, Reconciled(row, answer))
  BY <1>2, MarkKeepsLedger DEF MovedOn
<1>3. ASSUME NEW answer \in Answer, answer.status \in Refused, AnswerTrue(w, answer)
      PROVE  GivenBack(row, Executed(row, answer)) /\ MovedOn(row, Reconciled(row, answer))
  <2>1. GivenBack(row, Executed(row, answer))
    BY <1>1, <1>3, MarkEntries DEF AnswerTrue
  <2>2. Reconciled(row, answer) = MarkSignerRetry(row)
    BY <1>3 DEF Reconciled, Refused
  <2>3. MovedOn(row, MarkSignerRetry(row))
    BY SameBooks DEF MovedOn, MarkSignerRetry, Requested, Row
  <2>. QED
    BY <2>1, <2>2, <2>3
<1>. QED
  BY <1>1, <1>2, <1>3

\* A committed row becomes what it may become, or is new.
Proceeds(w) ==
    \/ Follows(db[w], db'[w])
    \/ /\ db[w].status = "none" /\ db'[w].status # "none" /\ Ledger(db'[w])
       /\ ~FeeBooked(db'[w]) /\ ~NetworkFeeSettled(db'[w])

AllProceed == \A w \in WithdrawalIds : Settles(db[w]) => Proceeds(w) \/ WrittenOver(w)

LEMMA FollowsSettles ==
    ASSUME NEW r, NEW s, Settles(r), Follows(r, s)
    PROVE  Settles(s)
BY DEF Settles, Follows, MovedOn, GivenBack

LEMMA StillFollows ==
    ASSUME TablesFollow, UNCHANGED <<db, work>>
    PROVE  TablesFollow' /\ AllProceed
BY DEF TablesFollow, AllProceed, Proceeds, Follows

LEMMA WriteFollows ==
    ASSUME SignerInv, TablesFollow, NEW p \in Process, NEW w \in WithdrawalIds, NEW row,
           Settles(db[w]) => Follows(db[w], row) \/ db[w].status \in ClosedStatus,
           Write(p, w, row)
    PROVE  TablesFollow' /\ AllProceed
<1>1. /\ View(p) \in [WithdrawalIds -> Row]
      /\ \A v \in WithdrawalIds :
            Settles(db[v]) => Follows(db[v], View(p)[v]) \/ db[v].status \in ClosedStatus
  BY ViewBooked, SignerParts DEF View, TablesFollow, Follows
<1>2. /\ db' = db
      /\ \A v \in WithdrawalIds : work'[v] = IF v = w THEN row ELSE View(p)[v]
  BY <1>1 DEF Write
<1>3. AllProceed
  BY <1>2 DEF AllProceed, Proceeds, Follows
<1>. QED
  BY <1>1, <1>2, <1>3 DEF TablesFollow

LEMMA AtOnceFollows ==
    ASSUME SignerInv, NEW w \in WithdrawalIds, NEW row,
           Settles(db[w]) =>
              \/ Follows(db[w], row)
              \/ /\ db[w].status = "none" /\ row.status # "none" /\ Ledger(row)
                 /\ ~FeeBooked(row) /\ ~NetworkFeeSettled(row)
              \/ db[w].status \in ClosedStatus /\ InHand(w),
           WriteAtOnce(w, row)
    PROVE  TablesFollow' /\ AllProceed
<1>1. /\ work' = db'
      /\ \A v \in WithdrawalIds : db'[v] = IF v = w THEN row ELSE db[v]
  BY SignerParts DEF WriteAtOnce, TablesBooked
<1>2. AllProceed
  BY <1>1 DEF AllProceed, Proceeds, Follows, WrittenOver
<1>3. TablesFollow'
  BY <1>1 DEF TablesFollow, Follows
<1>. QED
  BY <1>2, <1>3

LEMMA EndFollows ==
    ASSUME TablesFollow, NEW p \in Process, CommitAll(p) \/ RollBack(p)
    PROVE  TablesFollow' /\ AllProceed
<1>1. /\ db' = db \/ db' = work
      /\ work' = work \/ work' = db
      /\ db' = work => work' = work
  BY DEF CommitAll, RollBack, View
<1>2. AllProceed
  BY <1>1 DEF AllProceed, Proceeds, TablesFollow, Follows, WrittenOver, InHand
<1>3. TablesFollow'
  BY <1>1 DEF TablesFollow, Follows
<1>. QED
  BY <1>2, <1>3

\* All that is known while the provider stands by its word.
AllInv == SignerInv /\ MarksInv /\ BooksInv /\ TablesFollow

\* The withdrawal a process is at: what comes of it follows what is committed, or
\* somebody else has closed it meanwhile.
LEMMA FollowsAtFirst ==
    ASSUME AllInv, NEW p \in Process, session[p].todo # {}
    PROVE  \E w \in WithdrawalIds :
              /\ w = First(p) /\ InHand(w) /\ Requested(View(p)[w])
              /\ RowTrue(w, View(p)[w])
              /\ \/ db[w].status \in ClosedStatus
                 \/ ~Settles(db[w])
                 \/ /\ Ledger(View(p)[w])
                    /\ \A s : MovedOn(View(p)[w], s) \/ GivenBack(View(p)[w], s)
                                 => Follows(db[w], s)
<1>1. PICK w \in WithdrawalIds :
         /\ w = First(p) /\ InHand(w) /\ Requested(View(p)[w])
         /\ \/ View(p)[w] = db[w]
            \/ View(p)[w] = work[w] /\ View(p)[w].status \in ReconcilableStatus
  BY InHandAtFirst DEF AllInv
<1>2. RowTrue(w, View(p)[w])
  BY <1>1, TrueAtFirst DEF AllInv
<1>3. ASSUME db[w].status \notin ClosedStatus, Settles(db[w])
      PROVE  /\ Ledger(View(p)[w])
             /\ \A s : MovedOn(View(p)[w], s) \/ GivenBack(View(p)[w], s)
                          => Follows(db[w], s)
  <2>. DEFINE v == View(p)[w]
  <2>1. Follows(db[w], v)
    BY <1>1, <1>3 DEF AllInv, TablesFollow, Follows
  <2>2. v.status # "none" /\ v.status \notin ClosedStatus
    BY <1>1, <1>3, StatusesApart DEF Requested
  <2>. HIDE DEF v
  <2>3. Ledger(v) /\ \A s : MovedOn(v, s) \/ GivenBack(v, s) => Follows(db[w], s)
    BY <1>3, <2>1, <2>2, FollowsOn
  <2>. QED
    BY <2>3 DEF v
<1>. QED
  BY <1>1, <1>2, <1>3

LEMMA CycleFollows ==
    ASSUME AllInv, NEW p \in Process, CycleStep(p) \/ BreakOff(p)
    PROVE  TablesFollow' /\ AllProceed
<1>0. SignerInv /\ TablesFollow /\ Unrecorded
  BY DEF AllInv, BooksInv
<1>1. CASE CallExecute(p)
  <2>1. session[p].todo # {} /\ Write(p, First(p), View(p)[First(p)])
    BY <1>1 DEF CallExecute, Calling
  <2>2. First(p) \in WithdrawalIds
    BY <1>0, <2>1, AtFirst
  <2>3. Settles(db[First(p)]) =>
           \/ Follows(db[First(p)], View(p)[First(p)])
           \/ db[First(p)].status \in ClosedStatus
    BY <2>2 DEF AllInv, TablesFollow, View, Follows
  <2>. QED
    BY <1>0, <2>1, <2>2, <2>3, WriteFollows
<1>2. CASE MarkExecuted(p) \/ MarkReconciled(p)
  <2>. DEFINE answer == session[p].answer
  <2>1. answer # Null /\ answer \in Answer /\ session[p].todo # {}
    BY <1>0, <1>2, SignerParts DEF MarkExecuted, MarkReconciled, SessionsBusy, Session
  <2>2. PICK w \in WithdrawalIds :
           /\ w = First(p) /\ Requested(View(p)[w]) /\ RowTrue(w, View(p)[w])
           /\ \/ db[w].status \in ClosedStatus
              \/ ~Settles(db[w])
              \/ /\ Ledger(View(p)[w])
                 /\ \A s : MovedOn(View(p)[w], s) \/ GivenBack(View(p)[w], s)
                              => Follows(db[w], s)
    BY <2>1, FollowsAtFirst
  <2>3. \/ Write(p, w, Executed(View(p)[w], answer))
        \/ Write(p, w, Reconciled(View(p)[w], answer))
    BY <1>2, <2>2 DEF MarkExecuted, MarkReconciled
  <2>4. AnswerTrue(w, answer)
    BY <2>1, <2>2 DEF AllInv, BooksInv, AnswersTrue
  <2>. HIDE DEF answer
  <2>5. Settles(db[w]) =>
           \/ /\ Follows(db[w], Executed(View(p)[w], answer))
              /\ Follows(db[w], Reconciled(View(p)[w], answer))
           \/ db[w].status \in ClosedStatus
    BY <1>0, <2>1, <2>2, <2>4, MarkFollows
  <2>. QED
    BY <1>0, <2>3, <2>5, WriteFollows
<1>3. CASE CallReconcile(p)
  BY <1>0, <1>3, StillFollows DEF CallReconcile
<1>4. CASE CommitCycle(p) \/ BreakOff(p)
  BY <1>0, <1>4, EndFollows DEF CommitCycle, BreakOff
<1>. QED
  BY <1>1, <1>2, <1>3, <1>4 DEF CycleStep

LEMMA CommandsFollow ==
    ASSUME AllInv, MarkTargeted \/ ActOnRetry
    PROVE  TablesFollow' /\ AllProceed
<1>. DEFINE answer == session["bot"].answer
<1>0. SignerInv /\ TablesFollow /\ Unrecorded
  BY DEF AllInv, BooksInv
<1>1. "bot" \in Process /\ session["bot"].todo # {} /\ writer = Null
  BY <1>0, SignerParts DEF MarkTargeted, ActOnRetry, WriteAtOnce, SessionsBusy, Process
<1>2. View("bot") = db
  BY <1>1, SignerAssumption DEF View
<1>3. PICK w \in WithdrawalIds :
         /\ w = First("bot") /\ InHand(w) /\ Requested(db[w]) /\ RowTrue(w, db[w])
         /\ \/ db[w].status \in ClosedStatus
            \/ ~Settles(db[w])
            \/ /\ Ledger(db[w])
               /\ \A s : MovedOn(db[w], s) \/ GivenBack(db[w], s) => Follows(db[w], s)
  BY <1>1, <1>2, FollowsAtFirst
<1>4. CASE Settles(db[w]) /\ db[w].status \notin ClosedStatus
  <2>. \E row : Follows(db[w], row) /\ WriteAtOnce(w, row)
    <3>0. Ledger(db[w]) /\ \A s : MovedOn(db[w], s) \/ GivenBack(db[w], s) => Follows(db[w], s)
      BY <1>3, <1>4
    <3>1. CASE MarkTargeted
      <4>1. answer \in Answer /\ AnswerTrue(w, answer)
        BY <1>0, <1>1, <1>3, <3>1, SignerParts
           DEF MarkTargeted, SessionsBusy, Session, AllInv, BooksInv, AnswersTrue
      <4>2. Follows(db[w], Reconciled(db[w], answer)) /\ Follows(db[w], db[w])
        BY <1>0, <1>3, <3>0, <4>1, MarkFollows DEF Follows
      <4>. QED
        BY <1>3, <3>1, <4>2 DEF MarkTargeted
    <3>2. CASE ActOnRetry
      <4>1. session["bot"].job = "fail" => Follows(db[w], MarkFailed(db[w]))
        BY <1>0, <1>1, <1>3, <3>0, MarkFollows DEF AllInv, BooksInv, AnswersTrue
      <4>2. MovedOn(db[w], Requeue(db[w]))
        BY <1>3, <3>0, SameBooks DEF MovedOn, Requeue, Requested, Row
      <4>. QED
        BY <1>3, <3>0, <3>2, <4>1, <4>2 DEF ActOnRetry
    <3>. QED
      BY <3>1, <3>2
  <2>. QED
    BY <1>0, <1>3, AtOnceFollows
<1>5. CASE ~Settles(db[w]) \/ db[w].status \in ClosedStatus
  <2>1. \E row : WriteAtOnce(w, row)
    BY <1>3 DEF MarkTargeted, ActOnRetry
  <2>. QED
    BY <1>0, <1>3, <1>5, <2>1, AtOnceFollows
<1>. QED
  BY <1>4, <1>5

LEMMA RowsFollow ==
    ASSUME WholeDebits, AllInv, [SignerNext]_signerVars
    PROVE  TablesFollow' /\ AllProceed
<1>0. SignerInv /\ TablesFollow
  BY DEF AllInv
<1>1. ASSUME NEW w \in WithdrawalIds, NEW u \in WithdrawalUsers, NEW a \in WithdrawalAmounts,
             RequestWithdrawal(w, u, a)
      PROVE  TablesFollow' /\ AllProceed
  <2>1. /\ db[w].status = "none" /\ WriteAtOnce(w, NewRow(u, a))
        /\ NewRow(u, a).status # "none"
    BY <1>1, NewRowBooked DEF RequestWithdrawal, Requested
  <2>2. Ledger(NewRow(u, a)) /\ ~FeeBooked(NewRow(u, a)) /\ ~NetworkFeeSettled(NewRow(u, a))
    BY NewRowLedger
  <2>. QED
    BY <1>0, <2>1, <2>2, AtOnceFollows
<1>2. ASSUME NEW p \in Process, NEW due \in SUBSET WithdrawalIds, BeginReconcile(p, due)
      PROVE  UNCHANGED <<db, work>>
  BY <1>2 DEF BeginReconcile
<1>3. ASSUME NEW p \in Process, StartCycle(p)
      PROVE  UNCHANGED <<db, work>>
  BY <1>3 DEF StartCycle
<1>4. ASSUME NEW w \in WithdrawalIds, NEW action \in {"requeue", "fail"},
             StartTargeted(w) \/ CheckRetry(w, action) \/ LateRequest(w) \/ OperatorActs(w)
      PROVE  UNCHANGED <<db, work>>
  BY <1>4 DEF StartTargeted, CheckRetry, LateRequest, OperatorActs
<1>5. CASE UNCHANGED signerVars
  BY <1>0, <1>5, StillFollows DEF signerVars
<1>. QED
  BY <1>0, <1>1, <1>2, <1>3, <1>4, <1>5, CycleFollows, CommandsFollow, StillFollows
     DEF SignerNext

\* What the sums of a row are that was given back.
LEMMA ReturnedSums ==
    ASSUME NEW row, Requested(row), Returned(row)
    PROVE  PhaseOf(row) = "released" /\ -UserSum(row) = 0 /\ PlatformSum(row) = 0
<1>. DEFINE e == row.entries
            back == row.amount + row.fee + row.networkFee
<1>1. back \in Int /\ back > 0
  <2>1. /\ row.amount \in WithdrawalAmounts \cup {0}
        /\ row.fee \in Nat /\ row.networkFee \in Nat
    BY DEF Requested, Row
  <2>2. WithdrawalAmounts \cup {0} \subseteq Nat
    BY WithdrawalsAssumption
  <2>. QED
    BY <2>1, <2>2 DEF Returned
<1>2. /\ e["RESERVE"] = -back /\ e["RELEASE"] = back
      /\ e["PLATFORM_FEE"] = 0 /\ e["NETWORK_FEE"] = 0
      /\ e["NETWORK_FEE_REFUND"] = 0 /\ e["NETWORK_FEE_ADJUSTMENT"] = 0
  BY DEF Returned, FeeBooked, NetworkFeeSettled
<1>3. /\ UserSum(row) = e["RESERVE"] + e["RELEASE"]
                        + e["NETWORK_FEE_REFUND"] + e["NETWORK_FEE_ADJUSTMENT"]
      /\ PlatformSum(row) = e["PLATFORM_FEE"] + e["NETWORK_FEE"]
  BY DEF UserSum, PlatformSum
<1>4. PhaseOf(row) = IF e["RELEASE"] # 0 THEN "released" ELSE PhaseOf(row)
  BY DEF PhaseOf, Requested
<1>. HIDE DEF e, back
<1>. QED
  BY <1>1, <1>2, <1>3, <1>4

LEMMA ProceedIsPayout ==
    ASSUME SignerInv, SignerInv', NEW w \in WithdrawalIds, Settles(db[w]), Proceeds(w)
    PROVE  /\ Settles(db'[w])
           /\ \/ Payments!Same(w) \/ Payments!Reserve(w)
              \/ Payments!Send(w) \/ Payments!Pay(w) \/ Payments!Release(w)
<1>. DEFINE r == db[w]
            s == db'[w]
<1>0. Settles(s)
  BY FollowsSettles DEF Proceeds, Settles
<1>. SUFFICES \/ Payments!Same(w) \/ Payments!Reserve(w)
              \/ Payments!Send(w) \/ Payments!Pay(w) \/ Payments!Release(w)
  BY <1>0
<1>1. /\ r.status # "none" => Requested(r)
      /\ s.status # "none" => Requested(s)
  BY SignerParts DEF TablesBooked, Requested
<1>2. /\ PhaseMap[w] = PhaseOf(r) /\ PhaseMap'[w] = PhaseOf(s)
      /\ StakeMap[w] = r.amount /\ StakeMap'[w] = s.amount
      /\ ChargedMap[w] = -UserSum(r) /\ ChargedMap'[w] = -UserSum(s)
      /\ EarnedMap[w] = PlatformSum(r) /\ EarnedMap'[w] = PlatformSum(s)
  BY DEF PhaseMap, StakeMap, ChargedMap, EarnedMap
<1>3. CASE s = r
  BY <1>2, <1>3 DEF Payments!Same, PhaseMap, StakeMap, ChargedMap, EarnedMap
<1>4. CASE MovedOn(r, s) /\ s # r
  <2>1. Requested(r) /\ Requested(s)
    BY <1>1, <1>4 DEF MovedOn, Onward
  <2>2. Unmoved(r, s) \/ Sent(r, s) \/ Paid(r, s)
    BY <1>4, <2>1, OnwardIsPayout DEF MovedOn
  <2>3. CASE Unmoved(r, s)
    BY <1>2, <2>3 DEF Unmoved, Payments!Same, PhaseMap, StakeMap, ChargedMap, EarnedMap
  <2>4. CASE Sent(r, s)
    BY <1>2, <2>4
       DEF Sent, Payments!Send, Payments!Moves, PhaseMap, StakeMap, ChargedMap, EarnedMap
  <2>5. CASE Paid(r, s)
    BY <1>2, <2>5
       DEF Paid, Payments!Pay, Payments!Moves, PhaseMap, StakeMap, ChargedMap, EarnedMap
  <2>. QED
    BY <2>2, <2>3, <2>4, <2>5
<1>5. CASE GivenBack(r, s)
  <2>1. Requested(r) /\ Ledger(r) /\ Requested(s) /\ Returned(s) /\ s.amount = r.amount
    BY <1>1, <1>5 DEF GivenBack, Returned
  <2>2. PhaseOf(r) = "reserved"
    BY <1>5, <2>1, LedgerSums DEF GivenBack
  <2>3. PhaseOf(s) = "released" /\ -UserSum(s) = 0 /\ PlatformSum(s) = 0
    BY <2>1, ReturnedSums
  <2>. QED
    BY <1>2, <2>1, <2>2, <2>3
       DEF Payments!Release, Payments!Moves, PhaseMap, StakeMap, ChargedMap, EarnedMap
<1>6. CASE /\ r.status = "none" /\ s.status # "none" /\ Ledger(s)
           /\ ~FeeBooked(s) /\ ~NetworkFeeSettled(s)
  <2>1. PhaseOf(r) = "new" /\ PhaseOf(s) = "reserved"
    BY <1>1, <1>6, LedgerSums DEF PhaseOf
  <2>2. /\ s.amount \in Nat \ {0} /\ PlatformSum(s) = 0
        /\ -UserSum(s) = s.amount + s.fee + s.networkFee
        /\ s.fee \in Nat \ {0} /\ s.networkFee \in Nat \ {0}
    BY <1>1, <1>6, LedgerSums
  <2>3. -UserSum(s) > s.amount
    BY <2>2
  <2>. QED
    BY <1>2, <2>1, <2>2, <2>3
       DEF Payments!Reserve, Payments!Moves, PhaseMap, StakeMap, ChargedMap, EarnedMap
<1>. QED
  BY <1>3, <1>4, <1>5, <1>6 DEF Proceeds, Follows

\* Whatever a step makes of a withdrawal that settles.
PaysOut(w) ==
    \/ /\ Settles(db'[w])
       /\ \/ Payments!Same(w) \/ Payments!Reserve(w)
          \/ Payments!Send(w) \/ Payments!Pay(w) \/ Payments!Release(w)
    \/ WrittenOver(w)

LEMMA FollowsStep ==
    ASSUME WordKept, WholeDebits
    PROVE  AllInv /\ [SignerNext]_signerVars =>
              AllInv' /\ \A w \in WithdrawalIds : Settles(db[w]) => PaysOut(w)
<1> SUFFICES ASSUME AllInv, [SignerNext]_signerVars
             PROVE  AllInv' /\ \A w \in WithdrawalIds : Settles(db[w]) => PaysOut(w)
  OBVIOUS
<1>1. TablesFollow' /\ AllProceed
  BY RowsFollow
<1>2. SignerInv' /\ MarksInv' /\ BooksInv'
  BY SignerInvStep, MarksStep, BooksStep DEF AllInv
<1>3. \A w \in WithdrawalIds : Settles(db[w]) => PaysOut(w)
  BY <1>1, <1>2, ProceedIsPayout DEF AllProceed, AllInv, PaysOut
<1>. QED
  BY <1>1, <1>2, <1>3 DEF AllInv

LEMMA FollowsInit == SignerInit => TablesFollow /\ \A w \in WithdrawalIds : Settles(db[w])
BY DEF SignerInit, NoRow, TablesFollow, Settles, Follows

\* With refusals too, and under any overlap of processes, a withdrawal whose entries
\* account for its charge takes the steps of Payout and stays accounted for: it is
\* sent and paid, or refused and given back whole, once.  The one exception is the
\* withdrawal whose outcome is written over by a process that had read it before.
\* The provider stands by its word; requests are lost, answered late and repeated,
\* and processes crash, any number of times.
THEOREM RefusedWithdrawalsFollowPayout ==
    ASSUME WordKept, WholeDebits
    PROVE  SignerSpec =>
              /\ \A w \in WithdrawalIds : Settles(db[w])
              /\ [][\A w \in WithdrawalIds :
                       Settles(db[w]) =>
                          \/ /\ Settles(db'[w])
                             /\ \/ Payments!Same(w) \/ Payments!Reserve(w)
                                \/ Payments!Send(w) \/ Payments!Pay(w)
                                \/ Payments!Release(w)
                          \/ /\ db[w].status \in ClosedStatus /\ InHand(w)
                             /\ db'[w] # db[w]]_signerVars
<1>. DEFINE Steps ==
             \A w \in WithdrawalIds :
                 Settles(db[w]) =>
                    \/ /\ Settles(db'[w])
                       /\ \/ Payments!Same(w) \/ Payments!Reserve(w)
                          \/ Payments!Send(w) \/ Payments!Pay(w)
                          \/ Payments!Release(w)
                    \/ /\ db[w].status \in ClosedStatus /\ InHand(w)
                       /\ db'[w] # db[w]
            Settled == \A w \in WithdrawalIds : Settles(db[w])
<1>1. SignerInit => AllInv /\ Settled
  BY MarksInit, SignerInvInit, BooksInit, FollowsInit DEF AllInv
<1>2. AllInv /\ [SignerNext]_signerVars => AllInv' /\ [Steps]_signerVars
  BY FollowsStep DEF PaysOut, WrittenOver
<1>. HIDE DEF Steps, Settled
<1>3. SignerSpec => Settled /\ [][Steps]_signerVars
  BY <1>1, <1>2, PTL DEF SignerSpec
<1>. QED
  BY <1>3 DEF Steps, Settled

=============================================================================
