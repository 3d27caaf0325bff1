--------------------------- MODULE DepositsProofs ---------------------------
(***************************************************************************)
(* What holds of the deposits, their books, the cursors of the watchers    *)
(* and, from the section on the routes onward, of the deposit addresses,   *)
(* for all users, transfers, providers, seeds, settings and bounds.        *)
(***************************************************************************)
EXTENDS Deposits, TLAPS

-----------------------------------------------------------------------------
\* Shapes.

Entries == [to : UserIds, net : Int, fee : Int]

Places == {"down", "idle", "mapped", "ingesting", "done"}

\* Every process has a place, a map, a batch of transfers, a block it has read
\* up to and the transfers it skipped.
CycleShape ==
    /\ DOMAIN cycle = Watchers
    /\ \A w \in Watchers :
          cycle[w] \in [at : Places, map : {cycle[w].map}, batch : SUBSET (Transfers \X BOOLEAN),
                        upto : Nat \cup {None}, skipped : SUBSET Transfers]

\* The shape of everything a later step reads.
Shapes ==
    /\ env \in Environments
    /\ RowsShape(route)
    /\ head \in [Watchers -> Nat]
    /\ deposit \in [Transfers -> {None} \cup DepositRows]
    /\ posted \in [Transfers -> Seq(Entries)]
    /\ cursor \in [Watchers -> Nat \cup {None}]
    /\ CycleShape

\* A deposit's fee is between nothing and the deposit, under any percentage.
LEMMA FeeWithinGross ==
    ASSUME env \in Environments, NEW gross \in Nat
    PROVE  /\ DepositPlatformFee(gross) \in Nat
           /\ gross - DepositPlatformFee(gross) \in Nat
<1>1. env.percent \in Int
  BY DepositsAssumption
<1>. DEFINE fee == (2 * gross * env.percent + 100) \div 200
<1>2. 2 * gross * env.percent \in Int
  BY <1>1
<1>3. fee \in Int
  BY <1>2
<1>4. DepositPlatformFee(gross) = IF fee < 0 THEN 0 ELSE IF fee > gross THEN gross ELSE fee
  BY DEF DepositPlatformFee
<1>. QED
  <2>. HIDE DEF fee
  <2>. QED BY <1>3, <1>4

\* A row that is written has its shape, and its two parts are natural numbers
\* that add up to what was paid.
LEMMA RowAddsUp ==
    ASSUME env \in Environments, NEW t \in Transfers, NEW status \in {"seen", "credited"}
    PROVE  LET row == DepositRow(t, status)
           IN  /\ row \in DepositRows /\ row # None
               /\ row.status = status
               /\ row.net \in Nat /\ row.fee \in Nat
               /\ row.net + row.fee = Payment[t].gross
<1>1. Payment[t].gross \in Nat
  BY DepositsAssumption
<1>2. /\ DepositPlatformFee(Payment[t].gross) \in Nat
      /\ Payment[t].gross - DepositPlatformFee(Payment[t].gross) \in Nat
  BY <1>1, FeeWithinGross
<1>. QED
  BY <1>1, <1>2, DepositsAssumption DEF DepositRow, DepositRows

-----------------------------------------------------------------------------
\* What a step is.

\* A step is one of these actions of one process.
LEMMA StepCases ==
    ASSUME Next
    PROVE  \/ /\ StartBot \/ StopBot \/ \E p \in Wanted : GetOrCreateDepositAddress(p[1], p[2])
              /\ UNCHANGED <<head, deposit, posted, told, cycle, cursor, health, missed, faults>>
           \/ \E w \in Watchers : StartWatcher(w) \/ LoadMap(w) \/ ReportSuccess(w)
                                  \/ CycleFails(w) \/ ChainGrows(w) \/ Crash(w) \/ Ingest(w)
           \/ \E w \in UtxoWatchers : UtxoFetchDeposits(w)
           \/ \E w \in BlockWatchers : BlockFetchDeposits(w) \/ IngestFails(w) \/ WriteCursor(w)
           \/ SolNodeUnhealthy
           \/ Redeploy
<1>1. /\ "btc_watcher" \in UtxoWatchers /\ "ltc_watcher" \in UtxoWatchers
      /\ "eth_watcher" \in BlockWatchers /\ "sol_watcher" \in BlockWatchers
      /\ UtxoWatchers \subseteq Watchers /\ BlockWatchers \subseteq Watchers
  BY DEF Watchers, UtxoWatchers, BlockWatchers
<1>2. CASE Bot
  BY <1>2 DEF Bot, bookVars, statusVars
<1>3. ASSUME NEW w \in Watchers, Main(w)
      PROVE  StartWatcher(w) \/ LoadMap(w) \/ ReportSuccess(w) \/ CycleFails(w)
  BY <1>3 DEF Main
<1>4. ASSUME NEW w \in UtxoWatchers, UtxoRunOnce(w)
      PROVE  UtxoFetchDeposits(w) \/ Ingest(w)
  BY <1>4 DEF UtxoRunOnce
<1>5. ASSUME NEW w \in BlockWatchers, BlockRunOnce(w)
      PROVE  BlockFetchDeposits(w) \/ Ingest(w) \/ IngestFails(w) \/ WriteCursor(w)
  BY <1>5 DEF BlockRunOnce
<1>6. CASE BtcWatcher
  BY <1>1, <1>3, <1>4, <1>6 DEF BtcWatcher
<1>7. CASE LtcWatcher
  BY <1>1, <1>3, <1>4, <1>7 DEF LtcWatcher
<1>8. CASE EthWatcher
  BY <1>1, <1>3, <1>5, <1>8 DEF EthWatcher, EthRunOnce
<1>9. CASE SolWatcher
  BY <1>1, <1>3, <1>5, <1>9 DEF SolWatcher, SolRunOnce
<1>. QED
  BY <1>2, <1>6, <1>7, <1>8, <1>9 DEF Next

\* The address of a transfer, what was found of it and how far the chain is
\* final have the types they are used with.
LEMMA FinalizedHeadNat ==
    ASSUME Shapes, NEW w \in Watchers
    PROVE  /\ FinalizedHead(w) \in Nat /\ LoadCursor(w) \in Nat
           /\ FinalizedHead(w) > 0 => FinalizedHead(w) + Confirmations[w] <= head[w]
<1>1. head[w] \in Nat /\ Confirmations[w] \in Nat /\ cursor[w] \in Nat \cup {None}
  BY DepositsAssumption DEF Shapes
<1>. QED
  BY <1>1 DEF FinalizedHead, LoadCursor

\* What a block watcher finds is a part of what the blocks hold.
BlockFetched(w, upto, found, skipped) ==
    /\ Fetched(w, {<<t, TRUE>> : t \in found}, upto, skipped)
    /\ upto = 0 \/ upto <= FinalizedHead(w)
    /\ \A t \in Transfers :
          /\ WatcherOf(t) = w /\ Payment[t].height > LoadCursor(w)
          /\ Payment[t].height <= upto
          => t \in found \cup skipped
    /\ \A t \in found : WatcherOf(t) = w /\ Payment[t].height <= FinalizedHead(w)

LEMMA BlockFetchCases ==
    ASSUME Shapes, NEW w \in BlockWatchers, BlockFetchDeposits(w)
    PROVE  \E upto \in Nat, found \in SUBSET Transfers, skipped \in SUBSET Transfers :
              BlockFetched(w, upto, found, skipped)
<1>1. w \in Watchers
  BY DEF Watchers
<1>2. FinalizedHead(w) \in Nat /\ LoadCursor(w) \in Nat /\ MaxBlocksPerRun \in Nat
  BY <1>1, FinalizedHeadNat, DepositsAssumption
<1>3. \A t \in Transfers : Payment[t].height \in Nat \ {0}
  BY DepositsAssumption
<1>4. {<<t, TRUE>> : t \in {}} = {} /\ {} \in SUBSET Transfers
  OBVIOUS
<1>5. CASE FinalizedHead(w) <= LoadCursor(w) /\ Fetched(w, {}, FinalizedHead(w), {})
  <2>1. /\ FinalizedHead(w) \in Nat /\ FinalizedHead(w) <= FinalizedHead(w)
        /\ \A t \in Transfers : ~(Payment[t].height > LoadCursor(w)
                                    /\ Payment[t].height <= FinalizedHead(w))
    BY <1>2, <1>3, <1>5
  <2>2. Fetched(w, {<<t, TRUE>> : t \in {}}, FinalizedHead(w), {})
    BY <1>4, <1>5
  <2>. QED
    BY <1>4, <2>1, <2>2, Zenon DEF BlockFetched
<1>6. CASE Fetched(w, {}, 0, {})
  <2>1. 0 \in Nat /\ \A t \in Transfers : ~(Payment[t].height <= 0)
    BY <1>3
  <2>2. Fetched(w, {<<t, TRUE>> : t \in {}}, 0, {})
    BY <1>4, <1>6
  <2>. QED
    BY <1>4, <2>1, <2>2, Zenon DEF BlockFetched
<1>7. CASE FinalizedHead(w) > LoadCursor(w) /\ ~Fetched(w, {}, 0, {})
  <2>1. PICK read \in ReadBlocks(w, Scanned(w)) :
           Fetched(w, {<<t, TRUE>> : t \in FoundIn(w, read)}, LastRead(w),
                   Scanned(w) \ FoundIn(w, read))
    <3>1. ~(FinalizedHead(w) <= LoadCursor(w))
      BY <1>2, <1>7
    <3>. QED
      BY <1>7, <3>1, Zenon DEF BlockFetchDeposits
  <2>2. LastRead(w) \in Nat /\ LastRead(w) <= FinalizedHead(w)
    BY <1>2 DEF LastRead
  <2>3. \A t \in Transfers : WatcherOf(t) = w /\ Payment[t].height > LoadCursor(w)
                                /\ Payment[t].height <= LastRead(w) => t \in Scanned(w)
    BY <1>2, <1>3, <2>2 DEF Scanned
  <2>4. Scanned(w) \subseteq Transfers
    BY DEF Scanned
  <2>5. FoundIn(w, read) \subseteq Transfers
    BY <2>4 DEF FoundIn, ReadBlocks, EthBlocks, SolBlocks
  <2>6. Scanned(w) \ FoundIn(w, read) \subseteq Transfers
    BY <2>4
  <2>7. \A t \in Scanned(w) : t \in FoundIn(w, read) \cup (Scanned(w) \ FoundIn(w, read))
    OBVIOUS
  <2>8. \A t \in FoundIn(w, read) : WatcherOf(t) = w /\ Payment[t].height <= FinalizedHead(w)
    <3>1. FoundIn(w, read) \subseteq Scanned(w)
      BY DEF FoundIn, ReadBlocks, EthBlocks, SolBlocks
    <3>. QED
      BY <1>2, <1>3, <2>2, <3>1 DEF Scanned
  <2>. QED
    BY <2>1, <2>2, <2>3, <2>5, <2>6, <2>7, <2>8, Zenon DEF BlockFetched
<1>. QED
  BY <1>2, <1>5, <1>6, <1>7 DEF BlockFetchDeposits

\* What a UTXO watcher finds.
LEMMA UtxoFetchCases ==
    ASSUME NEW w \in UtxoWatchers, UtxoFetchDeposits(w)
    PROVE  \E batch \in SUBSET (Transfers \X BOOLEAN) :
              /\ Fetched(w, batch, None, {})
              /\ \A d \in batch : Payment[d[1]].to \in Rows /\ WatcherOf(d[1]) = w
<1>. DEFINE Mined == {t \in Paid(w) : Payment[t].height <= head[w]}
            Mempool == {t \in Paid(w) : Payment[t].height = head[w] + 1}
            Final(t) == head[w] + 1 - Payment[t].height >= Confirmations[w]
<1>1. PICK absent \in SUBSET Mined, pending \in SUBSET Mempool :
         Fetched(w, {<<t, Final(t)>> : t \in (Mined \ absent) \cup pending}, None, {})
  BY DEF UtxoFetchDeposits
<1>2. \A t : Final(t) \in BOOLEAN
  OBVIOUS
<1>3. (Mined \ absent) \cup pending \subseteq Transfers
  BY DEF Paid
<1>4. \A t \in (Mined \ absent) \cup pending : Payment[t].to \in Rows /\ WatcherOf(t) = w
  BY DEF Paid
<1>. DEFINE batch == {<<t, Final(t)>> : t \in (Mined \ absent) \cup pending}
<1>. HIDE DEF Mined, Mempool, Final
<1>5. batch \in SUBSET (Transfers \X BOOLEAN)
  BY <1>2, <1>3
<1>6. \A d \in batch : Payment[d[1]].to \in Rows /\ WatcherOf(d[1]) = w
  BY <1>4
<1>7. Fetched(w, batch, None, {})
  BY <1>1
<1>. HIDE DEF batch
<1>. QED
  BY <1>5, <1>6, <1>7

-----------------------------------------------------------------------------
\* The shapes are kept.

\* Init has them.
LEMMA InitShapes ==
    ASSUME Init
    PROVE  Shapes
<1>1. /\ RowsShape(route) /\ env \in Environments
  BY RoutesAssumption DEF Init
<1>2. /\ head \in [Watchers -> Nat] /\ deposit \in [Transfers -> {None} \cup DepositRows]
      /\ posted \in [Transfers -> Seq(Entries)] /\ cursor \in [Watchers -> Nat \cup {None}]
  BY DEF Init
<1>3. CycleShape
  BY DEF Init, CycleShape, Stopped, Places
<1>. QED
  BY <1>1, <1>2, <1>3 DEF Shapes

\* The rows of the routes keep their shape, whoever writes them.
LEMMA RowsShapeStep ==
    ASSUME Shapes, [Next]_vars
    PROVE  RowsShape(route)'
<1>1. CASE UNCHANGED route
  BY <1>1 DEF Shapes, RowsShape
<1>2. CASE route' = StampedRoutes
  <2>1. ASSUME NEW p \in Rows
        PROVE  LET r == [route[p] EXCEPT !.stamped = TRUE]
               IN  r \in [address : {r.address}, ref : {r.ref}, origin : {r.origin},
                          stamped : BOOLEAN]
    BY <2>1 DEF Shapes, RowsShape, Rows
  <2>. QED
    BY <1>2, <2>1 DEF Shapes, RowsShape, StampedRoutes, Rows
<1>3. ASSUME NEW p \in Wanted, GetOrCreateDepositAddress(p[1], p[2])
      PROVE  RowsShape(route)'
  <2>1. p = <<p[1], p[2]>>
    BY RoutesAssumption
  <2>2. PICK r \in IssuedAddress(p[1], p[2]) :
           route' = [q \in Rows \cup {p} |-> IF q = p THEN r ELSE route[q]]
    BY <1>3, <2>1 DEF GetOrCreateDepositAddress, WithRow
  <2>3. r \in [address : {r.address}, ref : {r.ref}, origin : {r.origin}, stamped : BOOLEAN]
    <3>1. r \in HttpRoute(p[2]) \/ r = LocalRoute(p[1], p[2])
      BY <2>2 DEF IssuedAddress
    <3>2. CASE r \in HttpRoute(p[2])
      <4>1. PICK h : r = [address |-> h[1], ref |-> h[2], origin |-> "external_http",
                          stamped |-> TRUE]
        BY <3>2, Zenon DEF HttpRoute
      <4>. QED
        BY <4>1
    <3>3. CASE r = LocalRoute(p[1], p[2])
      BY <3>3 DEF LocalRoute
    <3>. QED
      BY <3>1, <3>2, <3>3
  <2>. QED
    BY <2>2, <2>3 DEF Shapes, RowsShape, Rows
<1>. QED
  BY <1>1, <1>2, <1>3, StepCases
     DEF vars, routeVars, StartBot, StopBot, StartWatcher, LoadMap, ReportSuccess, CycleFails,
         ChainGrows, Crash, Ingest, UtxoFetchDeposits, BlockFetchDeposits, IngestFails,
         WriteCursor, SolNodeUnhealthy, Redeploy

\* What Fetched leaves of the processes.
LEMMA FetchedShape ==
    ASSUME CycleShape, NEW w \in Watchers, NEW batch \in SUBSET (Transfers \X BOOLEAN),
           NEW upto \in Nat \cup {None}, NEW skipped \in SUBSET Transfers,
           Fetched(w, batch, upto, skipped)
    PROVE  /\ CycleShape'
           /\ cycle'[w].at = "ingesting" /\ cycle'[w].batch = batch
           /\ cycle'[w].upto = upto /\ cycle'[w].skipped = skipped
           /\ cycle'[w].map = cycle[w].map
           /\ \A v \in Watchers : v # w => cycle'[v] = cycle[v]
<1>1. "ingesting" \in Places
  BY DEF Places
<1>2. /\ cycle'[w].at = "ingesting" /\ cycle'[w].batch = batch
      /\ cycle'[w].upto = upto /\ cycle'[w].skipped = skipped
      /\ cycle'[w].map = cycle[w].map
  BY DEF Fetched, CycleShape
<1>3. \A v \in Watchers : v # w => cycle'[v] = cycle[v]
  BY DEF Fetched, CycleShape
<1>4. DOMAIN cycle' = Watchers
  BY DEF Fetched, CycleShape
<1>5. cycle'[w] \in [at : Places, map : {cycle[w].map}, batch : SUBSET (Transfers \X BOOLEAN),
                     upto : Nat \cup {None}, skipped : SUBSET Transfers]
  BY <1>1 DEF Fetched, CycleShape
<1>6. CycleShape'
  BY <1>2, <1>3, <1>4, <1>5 DEF CycleShape
<1>. QED
  BY <1>2, <1>3, <1>6

\* What a process does to its cycle keeps its shape.
LEMMA CycleShapeStep ==
    ASSUME Shapes, [Next]_vars
    PROVE  CycleShape'
<1>. USE DEF Places
<1>0. CycleShape
  BY DEF Shapes
<1>1. CASE UNCHANGED cycle
  BY <1>0, <1>1 DEF CycleShape
<1>2. ASSUME NEW w \in Watchers, LoadMap(w), cycle' # cycle
      PROVE  CycleShape'
  BY <1>0, <1>2 DEF LoadMap, CycleShape
<1>3. ASSUME NEW w \in UtxoWatchers, UtxoFetchDeposits(w)
      PROVE  CycleShape'
  <2>1. w \in Watchers
    BY DEF Watchers
  <2>2. PICK batch \in SUBSET (Transfers \X BOOLEAN) : Fetched(w, batch, None, {})
    BY <1>3, UtxoFetchCases
  <2>3. None \in Nat \cup {None} /\ {} \in SUBSET Transfers
    OBVIOUS
  <2>. QED
    BY <1>0, <2>1, <2>2, <2>3, FetchedShape
<1>4. ASSUME NEW w \in BlockWatchers, BlockFetchDeposits(w)
      PROVE  CycleShape'
  <2>1. w \in Watchers
    BY DEF Watchers
  <2>2. PICK upto \in Nat, found \in SUBSET Transfers, skipped \in SUBSET Transfers :
           BlockFetched(w, upto, found, skipped)
    BY <1>4, BlockFetchCases
  <2>3. {<<t, TRUE>> : t \in found} \in SUBSET (Transfers \X BOOLEAN)
    <3>1. \A t \in found : <<t, TRUE>> \in Transfers \X BOOLEAN
      OBVIOUS
    <3>. QED
      BY <3>1, Zenon
  <2>4. upto \in Nat \cup {None}
    OBVIOUS
  <2>. QED
    BY <1>0, <2>1, <2>2, <2>3, <2>4, FetchedShape DEF BlockFetched
<1>5. ASSUME NEW w \in Watchers, Ingest(w)
      PROVE  CycleShape'
  <2>1. PICK d \in cycle[w].batch : cycle' = [cycle EXCEPT ![w].batch = @ \ {d}]
    BY <1>5 DEF Ingest
  <2>. QED
    BY <1>0, <2>1 DEF CycleShape
<1>6. ASSUME NEW w \in BlockWatchers, IngestFails(w)
      PROVE  CycleShape'
  <2>1. PICK d \in cycle[w].batch :
           cycle' = [cycle EXCEPT ![w].batch = @ \ {d}, ![w].skipped = @ \cup {d[1]}]
    BY <1>6 DEF IngestFails
  <2>2. w \in Watchers /\ d[1] \in Transfers
    BY <1>0, <2>1 DEF CycleShape, Watchers
  <2>3. DOMAIN cycle' = Watchers /\ \A v \in Watchers : v # w => cycle'[v] = cycle[v]
    BY <1>0, <2>1, <2>2 DEF CycleShape
  <2>4. cycle'[w] \in [at : Places, map : {cycle[w].map}, batch : SUBSET (Transfers \X BOOLEAN),
                       upto : Nat \cup {None}, skipped : SUBSET Transfers]
    BY <1>0, <2>1, <2>2 DEF CycleShape
  <2>5. cycle'[w].map = cycle[w].map
    BY <2>4
  <2>. QED
    BY <1>0, <2>3, <2>4, <2>5 DEF CycleShape
<1>7. ASSUME NEW w \in BlockWatchers, WriteCursor(w)
      PROVE  CycleShape'
  BY <1>0, <1>7 DEF WriteCursor, CycleShape, Watchers
<1>8. ASSUME NEW w \in Watchers, cycle' = [cycle EXCEPT ![w] = Idle] \/
                                 cycle' = [cycle EXCEPT ![w] = Stopped]
      PROVE  CycleShape'
  BY <1>0, <1>8 DEF CycleShape, Idle, Stopped
<1>9. CASE cycle' = [w \in Watchers |-> Stopped]
  BY <1>9 DEF CycleShape, Stopped
<1>10. ASSUME NEW w \in Watchers,
              StartWatcher(w) \/ ReportSuccess(w) \/ CycleFails(w) \/ ChainGrows(w) \/ Crash(w)
       PROVE  CycleShape'
  <2>1. UNCHANGED cycle \/ cycle' = [cycle EXCEPT ![w] = Idle]
        \/ cycle' = [cycle EXCEPT ![w] = Stopped]
    BY <1>10 DEF StartWatcher, ReportSuccess, CycleFails, ChainGrows, Crash
  <2>. QED
    BY <1>1, <1>8, <2>1
<1>11. CASE SolNodeUnhealthy \/ Redeploy
  BY <1>1, <1>9, <1>11 DEF SolNodeUnhealthy, Redeploy
<1>. QED
  BY <1>1, <1>2, <1>3, <1>4, <1>5, <1>6, <1>7, <1>10, <1>11, StepCases DEF vars

\* What Ingest writes: a row of its shape, and at most one entry more.
LEMMA IngestShapes ==
    ASSUME Shapes, NEW w \in Watchers, Ingest(w)
    PROVE  /\ deposit' \in [Transfers -> {None} \cup DepositRows]
           /\ posted' \in [Transfers -> Seq(Entries)]
<1>1. PICK d \in cycle[w].batch, user \in UserIds : CreditIfConfirmed(d[1], user, d[2])
  BY DEF Ingest
<1>2. d[1] \in Transfers
  BY DEF Shapes, CycleShape
<1>. DEFINE status == IF d[2] \/ IsCredited(d[1]) THEN "credited" ELSE "seen"
            row == DepositRow(d[1], status)
<1>3. row \in DepositRows /\ row.net \in Int /\ row.fee \in Int
  <2>1. status \in {"seen", "credited"}
    OBVIOUS
  <2>. HIDE DEF status
  <2>. QED
    BY <1>2, <2>1, RowAddsUp DEF Shapes
<1>4. [to |-> user, net |-> row.net, fee |-> row.fee] \in Entries
  BY <1>3 DEF Entries
<1>5. /\ deposit' = [deposit EXCEPT ![d[1]] = row]
      /\ posted' = posted \/ posted' = [posted EXCEPT ![d[1]] =
                        Append(@, [to |-> user, net |-> row.net, fee |-> row.fee])]
  BY <1>1 DEF CreditIfConfirmed
<1>. HIDE DEF row
<1>6. deposit' \in [Transfers -> {None} \cup DepositRows]
  BY <1>2, <1>3, <1>5 DEF Shapes
<1>7. posted' \in [Transfers -> Seq(Entries)]
  <2>. DEFINE entry == [to |-> user, net |-> row.net, fee |-> row.fee]
  <2>1. posted[d[1]] \in Seq(Entries) /\ entry \in Entries
    BY <1>2, <1>4 DEF Shapes
  <2>2. posted' = posted \/ posted' = [posted EXCEPT ![d[1]] = Append(@, entry)]
    BY <1>5
  <2>. HIDE DEF entry
  <2>3. Append(posted[d[1]], entry) \in Seq(Entries)
    BY <2>1
  <2>. QED
    BY <1>2, <2>2, <2>3 DEF Shapes
<1>. QED
  BY <1>6, <1>7

\* Every step keeps the shapes.
LEMMA ShapesStep ==
    ASSUME Shapes, [Next]_vars
    PROVE  Shapes'
<1>1. env' \in Environments
  BY StepCases, DepositsAssumption
     DEF Shapes, vars, routeVars, StartBot, StopBot, GetOrCreateDepositAddress, StartWatcher,
         LoadMap, ReportSuccess, CycleFails, ChainGrows, Crash, Ingest, UtxoFetchDeposits,
         BlockFetchDeposits, IngestFails, WriteCursor, SolNodeUnhealthy, Redeploy
<1>2. head' \in [Watchers -> Nat]
  <2>1. UNCHANGED head \/ \E w \in Watchers : ChainGrows(w)
    BY StepCases
       DEF vars, StartWatcher, LoadMap, ReportSuccess, CycleFails, Crash, Ingest,
           UtxoFetchDeposits, BlockFetchDeposits, IngestFails, WriteCursor, SolNodeUnhealthy,
           Redeploy
  <2>2. ASSUME NEW w \in Watchers, ChainGrows(w)
        PROVE  head' \in [Watchers -> Nat]
    BY <2>2 DEF ChainGrows, Shapes
  <2>. QED
    BY <2>1, <2>2 DEF Shapes
<1>3. UNCHANGED <<deposit, posted>> \/ \E w \in Watchers : Ingest(w)
  BY StepCases
     DEF vars, bookVars, StartWatcher, LoadMap, ReportSuccess, CycleFails, ChainGrows, Crash,
         UtxoFetchDeposits, BlockFetchDeposits, IngestFails, WriteCursor,
         SolNodeUnhealthy, Redeploy
<1>4. /\ deposit' \in [Transfers -> {None} \cup DepositRows]
      /\ posted' \in [Transfers -> Seq(Entries)]
  BY <1>3, IngestShapes DEF Shapes
<1>5. cursor' \in [Watchers -> Nat \cup {None}]
  <2>1. ASSUME NEW w \in BlockWatchers, WriteCursor(w)
        PROVE  cursor' \in [Watchers -> Nat \cup {None}]
    BY <2>1 DEF Shapes, CycleShape, WriteCursor, Watchers
  <2>. QED
    BY <2>1, StepCases
       DEF Shapes, vars, statusVars, StartWatcher, LoadMap, ReportSuccess, CycleFails,
           ChainGrows, Crash, Ingest, UtxoFetchDeposits, BlockFetchDeposits, IngestFails,
           SolNodeUnhealthy, Redeploy
<1>. QED
  BY <1>1, <1>2, <1>4, <1>5, RowsShapeStep, CycleShapeStep DEF Shapes

-----------------------------------------------------------------------------
\* What one Ingest does.

\* The row of one transfer of the batch is written, and one entry if it is final
\* and was not credited before.
Booked(t, user, final) ==
    /\ deposit'[t] # None
    /\ IsCredited(t)' <=> final \/ IsCredited(t)
    /\ \A s \in Transfers : s # t => deposit'[s] = deposit[s] /\ posted'[s] = posted[s]
    /\ \/ /\ final /\ ~IsCredited(t)
          /\ \E entry \in Entries :
                /\ posted'[t] = Append(posted[t], entry)
                /\ entry.to = user /\ entry.net \in Nat /\ entry.fee \in Nat
                /\ entry.net + entry.fee = Payment[t].gross
       \/ ~(final /\ ~IsCredited(t)) /\ posted'[t] = posted[t]

Ingested(w, t, user, final) ==
    /\ <<t, final>> \in cycle[w].batch
    /\ <<AddressOf(t), user>> \in cycle[w].map
    /\ Booked(t, user, final)
    /\ cycle' = [cycle EXCEPT ![w].batch = @ \ {<<t, final>>}]
    /\ UNCHANGED <<route, env, bot, head, cursor, missed>>

LEMMA IngestEffect ==
    ASSUME Shapes, NEW w \in Watchers, Ingest(w)
    PROVE  \E t \in Transfers, user \in UserIds, final \in BOOLEAN :
              Ingested(w, t, user, final)
<1>1. PICK d \in cycle[w].batch, user \in UserIds :
         /\ <<AddressOf(d[1]), user>> \in cycle[w].map
         /\ CreditIfConfirmed(d[1], user, d[2])
         /\ cycle' = [cycle EXCEPT ![w].batch = @ \ {d}]
         /\ UNCHANGED <<route, env, bot, head, cursor, missed>>
  BY DEF Ingest, routeVars, statusVars
<1>. DEFINE t == d[1]
            final == d[2]
            status == IF final \/ IsCredited(t) THEN "credited" ELSE "seen"
            row == DepositRow(t, status)
            entry == [to |-> user, net |-> row.net, fee |-> row.fee]
<1>2. t \in Transfers /\ final \in BOOLEAN /\ d = <<t, final>>
  BY DEF Shapes, CycleShape
<1>3. /\ row \in DepositRows /\ row # None /\ row.status = status
      /\ row.net \in Nat /\ row.fee \in Nat /\ row.net + row.fee = Payment[t].gross
  <2>1. status \in {"seen", "credited"}
    OBVIOUS
  <2>. HIDE DEF status
  <2>. QED
    BY <1>2, <2>1, RowAddsUp DEF Shapes
<1>4. /\ deposit' = [deposit EXCEPT ![t] = row]
      /\ posted' = IF final /\ ~IsCredited(t)
                   THEN [posted EXCEPT ![t] = Append(@, entry)] ELSE posted
  BY <1>1 DEF CreditIfConfirmed
<1>5. /\ entry \in Entries /\ entry.to = user /\ entry.net \in Nat /\ entry.fee \in Nat
      /\ entry.net + entry.fee = Payment[t].gross
  BY <1>3 DEF Entries
<1>6. status = "credited" <=> final \/ IsCredited(t)
  BY <1>2
<1>. HIDE DEF t, final, status, row, entry
<1>7. deposit'[t] = row /\ \A s \in Transfers : s # t => deposit'[s] = deposit[s]
  BY <1>2, <1>4 DEF Shapes
<1>8. IsCredited(t)' <=> final \/ IsCredited(t)
  BY <1>3, <1>6, <1>7 DEF IsCredited
<1>9. \A s \in Transfers : s # t => posted'[s] = posted[s]
  BY <1>2, <1>4 DEF Shapes
<1>10. \/ final /\ ~IsCredited(t) /\ posted'[t] = Append(posted[t], entry)
       \/ ~(final /\ ~IsCredited(t)) /\ posted'[t] = posted[t]
  BY <1>2, <1>4 DEF Shapes
<1>11. /\ <<t, final>> \in cycle[w].batch /\ <<AddressOf(t), user>> \in cycle[w].map
       /\ cycle' = [cycle EXCEPT ![w].batch = @ \ {<<t, final>>}]
  BY <1>1, <1>2 DEF t
<1>12. Booked(t, user, final)
  <2>1. deposit'[t] # None
    BY <1>3, <1>7
  <2>. QED
    BY <2>1, <1>5, <1>7, <1>8, <1>9, <1>10, Zenon DEF Booked
<1>13. Ingested(w, t, user, final)
  BY <1>1, <1>11, <1>12 DEF Ingested
<1>. QED
  BY <1>2, <1>13

\* Nothing but an Ingest touches the books of the deposits.
LEMMA OnlyIngestBooks ==
    ASSUME [Next]_vars
    PROVE  UNCHANGED <<deposit, posted>> \/ \E w \in Watchers : Ingest(w)
BY StepCases
   DEF vars, bookVars, StartWatcher, LoadMap, ReportSuccess, CycleFails, ChainGrows, Crash,
       UtxoFetchDeposits, BlockFetchDeposits, IngestFails, WriteCursor, SolNodeUnhealthy, Redeploy

-----------------------------------------------------------------------------
\* The books.

\* A step keeps the books of the deposits in order.
LEMMA CreditsStep ==
    ASSUME Shapes, CreditsAddUp, [Next]_vars
    PROVE  CreditsAddUp'
<1>1. CASE UNCHANGED <<deposit, posted>>
  BY <1>1 DEF CreditsAddUp, IsCredited
<1>2. ASSUME NEW w \in Watchers, Ingest(w)
      PROVE  CreditsAddUp'
  <2>0. PICK t \in Transfers, user \in UserIds, final \in BOOLEAN :
              Ingested(w, t, user, final)
    BY <1>2, IngestEffect
  <2>1. /\ IsCredited(t)' <=> final \/ IsCredited(t)
        /\ \A s \in Transfers : s # t => deposit'[s] = deposit[s] /\ posted'[s] = posted[s]
    BY <2>0 DEF Ingested, Booked
  <2>2. ASSUME NEW s \in Transfers, s # t
        PROVE  /\ Len(posted[s])' = IF IsCredited(s)' THEN 1 ELSE 0
               /\ \A i \in 1 .. Len(posted'[s]) :
                     /\ posted'[s][i].net \in Nat /\ posted'[s][i].fee \in Nat
                     /\ posted'[s][i].net + posted'[s][i].fee = Payment[s].gross
    BY <2>1, <2>2 DEF CreditsAddUp, IsCredited
  <2>3. CASE ~(final /\ ~IsCredited(t))
    <3>1. posted'[t] = posted[t] /\ (IsCredited(t)' <=> IsCredited(t))
      BY <2>0, <2>3 DEF Ingested, Booked
    <3>. QED
      BY <2>2, <3>1 DEF CreditsAddUp
  <2>4. CASE final /\ ~IsCredited(t)
    <3>1. PICK entry \in Entries :
             /\ posted'[t] = Append(posted[t], entry)
             /\ entry.net \in Nat /\ entry.fee \in Nat
             /\ entry.net + entry.fee = Payment[t].gross
      BY <2>0, <2>4, Zenon DEF Ingested, Booked
    <3>2. posted[t] \in Seq(Entries) /\ Len(posted[t]) = 0
      BY <2>4 DEF Shapes, CreditsAddUp
    <3>3. Len(posted'[t]) = 1 /\ posted'[t][1] = entry
      BY <3>1, <3>2
    <3>4. IsCredited(t)'
      BY <2>1, <2>4
    <3>. QED
      BY <2>2, <3>1, <3>3, <3>4 DEF CreditsAddUp
  <2>. QED
    BY <2>3, <2>4
<1>. QED
  BY <1>1, <1>2, OnlyIngestBooks

\* A deposit is booked once or not at all, and its two entries add up to what was
\* paid: for any transfers, percentages, restarts and order of the watchers.
THEOREM DepositsBookedOnce == Spec => []CreditsAddUp
<1>1. Init => Shapes /\ CreditsAddUp
  <2>1. ASSUME Init PROVE CreditsAddUp
    BY <2>1 DEF Init, CreditsAddUp, IsCredited
  <2>. QED
    BY <2>1, InitShapes
<1>2. Shapes /\ CreditsAddUp /\ [Next]_vars => (Shapes /\ CreditsAddUp)'
  BY ShapesStep, CreditsStep
<1>. QED
  BY <1>1, <1>2, PTL DEF Spec

-----------------------------------------------------------------------------
\* The cursors.

\* A block watcher that ingests has read up to a final block, and so far every
\* transfer is credited, skipped, or still in its batch.
UptoIsFinal ==
    \A w \in BlockWatchers : cycle[w].at = "ingesting" =>
       /\ cycle[w].upto \in Nat
       /\ cycle[w].upto > 0 => cycle[w].upto + Confirmations[w] <= head[w]

BatchIsComplete ==
    \A t \in Transfers :
       LET w == WatcherOf(t)
       IN  (/\ w \in BlockWatchers /\ cycle[w].at = "ingesting"
            /\ cycle[w].upto \in Nat /\ Payment[t].height <= cycle[w].upto)
             => \/ IsCredited(t) \/ t \in missed \/ t \in cycle[w].skipped
                \/ <<t, TRUE>> \in cycle[w].batch

\* What every step but a fetch, an ingest and a cursor does to what these two and
\* the cursor's properties read: blocks are added, and cycles end.
Quiet(w) ==
    /\ cursor'[w] = cursor[w] /\ head'[w] >= head[w]
    /\ cycle'[w].at = "ingesting" => cycle'[w] = cycle[w]

LEMMA QuietSteps ==
    ASSUME Shapes, [Next]_vars, NEW w \in BlockWatchers,
           ~BlockFetchDeposits(w), ~Ingest(w), ~IngestFails(w), ~WriteCursor(w)
    PROVE  Quiet(w)
<1>. USE DEF CycleShape, Shapes
<1>0. w \in Watchers /\ w \notin UtxoWatchers /\ head[w] \in Nat
  BY DEF Watchers, UtxoWatchers, BlockWatchers
<1>1. CASE UNCHANGED <<head, cycle, cursor>>
  BY <1>0, <1>1 DEF Quiet
<1>2. ASSUME NEW v \in Watchers, ChainGrows(v)
      PROVE  Quiet(w)
  BY <1>0, <1>2 DEF Quiet, ChainGrows, statusVars
<1>3. ASSUME NEW v \in Watchers, UNCHANGED <<head, cursor>>,
             cycle' = [cycle EXCEPT ![v] = Idle] \/ cycle' = [cycle EXCEPT ![v] = Stopped]
      PROVE  Quiet(w)
  BY <1>0, <1>3 DEF Quiet, Idle, Stopped
<1>4. ASSUME NEW v \in Watchers,
             StartWatcher(v) \/ ReportSuccess(v) \/ CycleFails(v) \/ Crash(v)
      PROVE  Quiet(w)
  <2>1. /\ UNCHANGED <<head, cursor>>
        /\ \/ UNCHANGED cycle \/ cycle' = [cycle EXCEPT ![v] = Idle]
           \/ cycle' = [cycle EXCEPT ![v] = Stopped]
    BY <1>4 DEF StartWatcher, ReportSuccess, CycleFails, Crash, statusVars
  <2>. QED
    BY <1>1, <1>3, <2>1
<1>5. ASSUME NEW v \in Watchers, LoadMap(v)
      PROVE  Quiet(w)
  BY <1>0, <1>5 DEF Quiet, LoadMap
<1>6. ASSUME NEW v \in Watchers, v # w,
             Ingest(v) \/ (v \in BlockWatchers
                             /\ (BlockFetchDeposits(v) \/ IngestFails(v) \/ WriteCursor(v)))
                       \/ (v \in UtxoWatchers /\ UtxoFetchDeposits(v))
      PROVE  Quiet(w)
  <2>1. cursor'[w] = cursor[w] /\ head' = head
    BY <1>0, <1>6 DEF Ingest, BlockFetchDeposits, IngestFails, WriteCursor, UtxoFetchDeposits,
                      statusVars
  <2>2. CASE Ingest(v)
    <3>1. PICK d \in cycle[v].batch : cycle' = [cycle EXCEPT ![v].batch = @ \ {d}]
      BY <2>2 DEF Ingest
    <3>. QED
      BY <1>0, <1>6, <2>1, <3>1 DEF Quiet
  <2>3. CASE IngestFails(v)
    <3>1. PICK d \in cycle[v].batch :
             cycle' = [cycle EXCEPT ![v].batch = @ \ {d}, ![v].skipped = @ \cup {d[1]}]
      BY <2>3 DEF IngestFails
    <3>. QED
      BY <1>0, <1>6, <2>1, <3>1 DEF Quiet
  <2>4. CASE WriteCursor(v)
    BY <1>0, <1>6, <2>1, <2>4 DEF Quiet, WriteCursor
  <2>5. ASSUME NEW batch, NEW upto, NEW skipped, Fetched(v, batch, upto, skipped)
        PROVE  Quiet(w)
    BY <1>0, <1>6, <2>1, <2>5 DEF Quiet, Fetched
  <2>6. CASE v \in BlockWatchers /\ BlockFetchDeposits(v)
    BY <2>1, <2>5, <2>6, BlockFetchCases DEF BlockFetched
  <2>7. CASE v \in UtxoWatchers /\ UtxoFetchDeposits(v)
    BY <2>1, <2>5, <2>7, UtxoFetchCases
  <2>. QED
    BY <1>6, <2>1, <2>2, <2>3, <2>4, <2>6, <2>7
<1>7. CASE SolNodeUnhealthy \/ Redeploy
  BY <1>0, <1>7 DEF Quiet, SolNodeUnhealthy, Redeploy, Stopped, statusVars
<1>8. CASE UNCHANGED vars
  BY <1>1, <1>8 DEF vars
<1>9. BlockWatchers \subseteq Watchers /\ UtxoWatchers \subseteq Watchers
  BY DEF Watchers
<1>. QED
  BY <1>0, <1>1, <1>2, <1>4, <1>5, <1>6, <1>7, <1>8, <1>9, StepCases

\* What an ingest, written or failed, leaves of its process.
LEMMA IngestKeepsPlace ==
    ASSUME Shapes, NEW w \in Watchers, Ingest(w) \/ IngestFails(w)
    PROVE  /\ UNCHANGED <<head, cursor, missed>>
           /\ cycle'[w].at = cycle[w].at /\ cycle'[w].upto = cycle[w].upto
<1>1. UNCHANGED <<head, cursor, missed>>
  BY DEF Ingest, IngestFails, statusVars
<1>2. CASE Ingest(w)
  <2>1. PICK d \in cycle[w].batch : cycle' = [cycle EXCEPT ![w].batch = @ \ {d}]
    BY <1>2 DEF Ingest
  <2>. QED
    BY <1>1, <2>1 DEF Shapes, CycleShape
<1>3. CASE IngestFails(w)
  <2>1. PICK d \in cycle[w].batch :
           cycle' = [cycle EXCEPT ![w].batch = @ \ {d}, ![w].skipped = @ \cup {d[1]}]
    BY <1>3 DEF IngestFails
  <2>. QED
    BY <1>1, <2>1 DEF Shapes, CycleShape
<1>. QED
  BY <1>2, <1>3

\* A step leaves every cursor on a final block.
LEMMA CursorStep ==
    ASSUME Shapes, UptoIsFinal, CursorIsFinal, [Next]_vars
    PROVE  UptoIsFinal' /\ CursorIsFinal'
<1>. SUFFICES ASSUME NEW w \in BlockWatchers
              PROVE  /\ cycle'[w].at = "ingesting" =>
                          /\ cycle'[w].upto \in Nat
                          /\ cycle'[w].upto > 0 =>
                               cycle'[w].upto + Confirmations[w] <= head'[w]
                     /\ cursor'[w] # None /\ cursor'[w] > 0 =>
                          cursor'[w] + Confirmations[w] <= head'[w]
  BY DEF UptoIsFinal, CursorIsFinal
<1>1. /\ w \in Watchers /\ head[w] \in Nat /\ head'[w] \in Nat /\ Confirmations[w] \in Nat
      /\ cursor[w] \in Nat \cup {None}
      /\ CycleShape
  BY ShapesStep, DepositsAssumption DEF Shapes, Watchers
<1>2. CASE Quiet(w)
  BY <1>1, <1>2 DEF Quiet, UptoIsFinal, CursorIsFinal
<1>3. CASE BlockFetchDeposits(w)
  <2>1. PICK upto \in Nat, found \in SUBSET Transfers, skipped \in SUBSET Transfers :
           BlockFetched(w, upto, found, skipped)
    BY <1>3, BlockFetchCases
  <2>2. cycle'[w].upto = upto
    BY <1>1, <2>1 DEF BlockFetched, Fetched, CycleShape
  <2>3. UNCHANGED <<head, cursor>>
    BY <1>3 DEF BlockFetchDeposits, statusVars
  <2>4. upto > 0 => upto + Confirmations[w] <= head[w]
    BY <1>1, <2>1, FinalizedHeadNat DEF BlockFetched
  <2>. QED
    BY <1>1, <2>2, <2>3, <2>4 DEF CursorIsFinal
<1>4. CASE Ingest(w) \/ IngestFails(w)
  BY <1>1, <1>4, IngestKeepsPlace DEF UptoIsFinal, CursorIsFinal
<1>5. CASE WriteCursor(w)
  <2>1. cursor'[w] = cycle[w].upto /\ head' = head /\ cycle'[w].at = "done"
        /\ cycle[w].at = "ingesting"
    BY <1>1, <1>5 DEF WriteCursor, Shapes, CycleShape
  <2>. QED
    BY <1>1, <2>1 DEF UptoIsFinal
<1>. QED
  BY <1>2, <1>3, <1>4, <1>5, QuietSteps

\* No cursor is ever on a block with fewer confirmations than asked for.
THEOREM CursorsAreFinal == Spec => []CursorIsFinal
<1>1. Init => Shapes /\ UptoIsFinal /\ CursorIsFinal
  <2>1. ASSUME Init PROVE UptoIsFinal /\ CursorIsFinal
    BY <2>1 DEF Init, UptoIsFinal, CursorIsFinal, Stopped, Watchers
  <2>. QED
    BY <2>1, InitShapes
<1>2. Shapes /\ UptoIsFinal /\ CursorIsFinal /\ [Next]_vars
        => (Shapes /\ UptoIsFinal /\ CursorIsFinal)'
  BY ShapesStep, CursorStep
<1>. QED
  BY <1>1, <1>2, PTL DEF Spec

-----------------------------------------------------------------------------
\* Nothing is passed over.

\* What is credited or missed stays so.
LEMMA CreditedStays ==
    ASSUME Shapes, [Next]_vars, NEW t \in Transfers
    PROVE  /\ IsCredited(t) => IsCredited(t)'
           /\ t \in missed => t \in missed'
<1>1. IsCredited(t) => IsCredited(t)'
  <2>1. CASE UNCHANGED <<deposit, posted>>
    BY <2>1 DEF IsCredited
  <2>2. ASSUME NEW w \in Watchers, Ingest(w)
        PROVE  IsCredited(t) => IsCredited(t)'
    <3>1. PICK s \in Transfers, user \in UserIds, final \in BOOLEAN :
             Ingested(w, s, user, final)
      BY <2>2, IngestEffect
    <3>2. CASE s = t
      BY <3>1, <3>2 DEF Ingested, Booked
    <3>3. CASE s # t
      BY <3>1, <3>3 DEF Ingested, Booked, IsCredited
    <3>. QED
      BY <3>2, <3>3
  <2>. QED
    BY <2>1, <2>2, OnlyIngestBooks
<1>2. t \in missed => t \in missed'
  BY StepCases
     DEF vars, StartWatcher, LoadMap, ReportSuccess, CycleFails, ChainGrows, Crash, Ingest,
         UtxoFetchDeposits, BlockFetchDeposits, IngestFails, WriteCursor, SolNodeUnhealthy,
         Redeploy
<1>. QED
  BY <1>1, <1>2

\* A step keeps the account of every transfer that was read.
LEMMA ScannedStep ==
    ASSUME Shapes, UptoIsFinal, BatchIsComplete, ScannedTransfersAreCredited, [Next]_vars
    PROVE  BatchIsComplete' /\ ScannedTransfersAreCredited'
<1>. SUFFICES ASSUME NEW t \in Transfers, WatcherOf(t) \in BlockWatchers
              PROVE  LET w == WatcherOf(t)
                     IN  /\ (/\ cycle'[w].at = "ingesting" /\ cycle'[w].upto \in Nat
                             /\ Payment[t].height <= cycle'[w].upto)
                              => \/ IsCredited(t)' \/ t \in missed' \/ t \in cycle'[w].skipped
                                 \/ <<t, TRUE>> \in cycle'[w].batch
                         /\ cursor'[w] # None /\ Payment[t].height <= cursor'[w]
                              => IsCredited(t)' \/ t \in missed'
  BY DEF BatchIsComplete, ScannedTransfersAreCredited, WatcherOf
<1>. DEFINE w == WatcherOf(t)
<1>1. /\ w \in BlockWatchers /\ w \in Watchers /\ Payment[t].height \in Nat \ {0}
      /\ cursor[w] \in Nat \cup {None} /\ None \notin Nat
      /\ CycleShape
  BY DepositsAssumption DEF Shapes, Watchers
<1>2. /\ IsCredited(t) => IsCredited(t)'
      /\ t \in missed => t \in missed'
  BY CreditedStays
<1>3. /\ (/\ cycle[w].at = "ingesting" /\ cycle[w].upto \in Nat
          /\ Payment[t].height <= cycle[w].upto)
           => \/ IsCredited(t) \/ t \in missed \/ t \in cycle[w].skipped
              \/ <<t, TRUE>> \in cycle[w].batch
      /\ cursor[w] # None /\ Payment[t].height <= cursor[w] => IsCredited(t) \/ t \in missed
  BY <1>1 DEF BatchIsComplete, ScannedTransfersAreCredited
<1>. HIDE DEF w
<1>4. CASE Quiet(w)
  BY <1>2, <1>3, <1>4 DEF Quiet, w
<1>5. CASE BlockFetchDeposits(w)
  <2>1. PICK upto \in Nat, found \in SUBSET Transfers, skipped \in SUBSET Transfers :
           BlockFetched(w, upto, found, skipped)
    BY <1>1, <1>5, BlockFetchCases
  <2>2. /\ cycle'[w].upto = upto /\ cycle'[w].skipped = skipped
        /\ cycle'[w].batch = {<<s, TRUE>> : s \in found}
    BY <1>1, <2>1 DEF BlockFetched, Fetched, CycleShape
  <2>3. cursor' = cursor
    BY <1>5 DEF BlockFetchDeposits, statusVars
  <2>4. t \in found => <<t, TRUE>> \in cycle'[w].batch
    BY <2>2
  <2>5. Payment[t].height <= upto =>
           t \in found \/ t \in skipped \/ IsCredited(t) \/ t \in missed
    BY <1>1, <1>3, <2>1 DEF BlockFetched, LoadCursor, w
  <2>. QED
    BY <1>2, <1>3, <2>2, <2>3, <2>4, <2>5 DEF w
<1>6. CASE Ingest(w)
  <2>1. PICK s \in Transfers, user \in UserIds, final \in BOOLEAN : Ingested(w, s, user, final)
    BY <1>1, <1>6, IngestEffect
  <2>2. /\ cycle'[w].batch = cycle[w].batch \ {<<s, final>>}
        /\ cycle'[w].skipped = cycle[w].skipped
    BY <1>1, <2>1 DEF Ingested, CycleShape
  <2>3. s = t /\ final => IsCredited(t)'
    BY <2>1 DEF Ingested, Booked
  <2>4. <<t, TRUE>> \in cycle[w].batch => <<t, TRUE>> \in cycle'[w].batch \/ IsCredited(t)'
    BY <2>2, <2>3
  <2>. QED
    BY <1>1, <1>2, <1>3, <1>6, <2>2, <2>4, IngestKeepsPlace DEF w
<1>7. CASE IngestFails(w)
  <2>1. PICK d \in cycle[w].batch :
           cycle' = [cycle EXCEPT ![w].batch = @ \ {d}, ![w].skipped = @ \cup {d[1]}]
    BY <1>7 DEF IngestFails
  <2>2. /\ cycle'[w].batch = cycle[w].batch \ {d}
        /\ cycle'[w].skipped = cycle[w].skipped \cup {d[1]}
    BY <1>1, <2>1 DEF CycleShape
  <2>3. <<t, TRUE>> \in cycle[w].batch
          => <<t, TRUE>> \in cycle'[w].batch \/ t \in cycle'[w].skipped
    <3>1. d = <<t, TRUE>> => d[1] = t
      OBVIOUS
    <3>. QED
      BY <2>2, <3>1
  <2>. QED
    BY <1>1, <1>2, <1>3, <1>7, <2>2, <2>3, IngestKeepsPlace DEF w
<1>8. CASE WriteCursor(w)
  <2>1. /\ cursor'[w] = cycle[w].upto /\ cycle'[w].at = "done" /\ cycle[w].at = "ingesting"
        /\ cycle[w].batch = {} /\ missed' = missed \cup cycle[w].skipped
    BY <1>1, <1>8 DEF WriteCursor, Shapes, CycleShape
  <2>2. cycle[w].upto \in Nat
    BY <1>1, <2>1 DEF UptoIsFinal
  <2>. QED
    BY <1>2, <1>3, <2>1, <2>2 DEF w
<1>. QED
  BY <1>1, <1>4, <1>5, <1>6, <1>7, <1>8, QuietSteps

\* A cursor that has passed a transfer leaves it credited, or on record as missed
\* by a null block or a failed write: crashes between two commits lose nothing.
THEOREM CursorsPassNothing == Spec => []ScannedTransfersAreCredited
<1>. DEFINE Inv == Shapes /\ UptoIsFinal /\ CursorIsFinal /\ BatchIsComplete
                   /\ ScannedTransfersAreCredited
<1>1. Init => Inv
  <2>1. ASSUME Init
        PROVE  UptoIsFinal /\ CursorIsFinal /\ BatchIsComplete /\ ScannedTransfersAreCredited
    BY <2>1 DEF Init, UptoIsFinal, CursorIsFinal, BatchIsComplete, ScannedTransfersAreCredited,
                Stopped, Watchers
  <2>. QED
    BY <2>1, InitShapes
<1>2. Inv /\ [Next]_vars => Inv'
  BY ShapesStep, CursorStep, ScannedStep
<1>. QED
  BY <1>1, <1>2, PTL DEF Spec

-----------------------------------------------------------------------------
\* Types.

\* The parts of DepositsTypeOK that Shapes does not hold.
CyclesTyped ==
    \A w \in Watchers :
       /\ cycle[w].at \in Places
       /\ cycle[w].batch # {} => cycle[w].at = "ingesting"
       /\ cycle[w].upto # None => w \in BlockWatchers

HealthStates == {None, "ok", "transient_failure", "fatal_startup_blocked", "disabled"}

NoticesTyped ==
    \A t \in Transfers : told[t] \in {None, Detected} \/ told[t][1] \in 0 .. Payment[t].gross

Typed ==
    /\ bot \in {"down", "degraded", "issuing"}
    /\ head \in [Watchers -> 0 .. LastBlock]
    /\ DOMAIN told = Transfers /\ NoticesTyped
    /\ CyclesTyped
    /\ health \in [Watchers -> HealthStates]
    /\ faults \in 0 .. MaxFaults

\* What an Ingest books and tells: an entry of the row it writes, and at most a
\* notice of it.
LEMMA IngestTells ==
    ASSUME Shapes, DOMAIN told = Transfers, NEW w \in Watchers, Ingest(w)
    PROVE  \E t \in Transfers, final \in BOOLEAN :
              LET row == DepositRow(t, "credited")
              IN  /\ <<t, final>> \in cycle[w].batch
                  /\ row.net \in 0 .. Payment[t].gross
                  /\ \A s \in Transfers \ {t} : UNCHANGED <<told[s], posted[s]>>
                  /\ \/ /\ final /\ ~IsCredited(t)
                        /\ \E entry \in Entries :
                              entry.net = row.net /\ posted'[t] = Append(posted[t], entry)
                        /\ told'[t] \in {told[t], <<IF w \in UtxoWatchers THEN Payment[t].gross
                                                   ELSE row.net>>}
                     \/ /\ ~(final /\ ~IsCredited(t))
                        /\ UNCHANGED posted[t]
                        /\ told'[t] \in {told[t], Detected}
<1>1. PICK d \in cycle[w].batch, user \in UserIds :
         /\ CreditIfConfirmed(d[1], user, d[2])
         /\ \E notice \in Notice(d[1], d[2], w) \cup {told[d[1]]} :
               told' = [told EXCEPT ![d[1]] = notice]
  BY DEF Ingest
<1>. DEFINE t == d[1]
            final == d[2]
            row == DepositRow(t, "credited")
            entry == [to |-> user, net |-> row.net, fee |-> row.fee]
<1>2. t \in Transfers /\ final \in BOOLEAN /\ <<t, final>> \in cycle[w].batch
  <2>1. d \in Transfers \X BOOLEAN
    BY DEF Shapes, CycleShape
  <2>2. d = <<t, final>> /\ t \in Transfers /\ final \in BOOLEAN
    BY <2>1
  <2>. QED
    BY <2>2, Zenon
<1>3. /\ row.net \in Nat /\ row.fee \in Nat /\ row.net + row.fee = Payment[t].gross
      /\ Payment[t].gross \in Nat
  BY <1>2, RowAddsUp, DepositsAssumption DEF Shapes
<1>4. PICK notice \in Notice(t, final, w) \cup {told[t]} : told' = [told EXCEPT ![t] = notice]
  BY <1>1
<1>5. posted' = IF final /\ ~IsCredited(t)
                THEN [posted EXCEPT ![t] = Append(@, entry)] ELSE posted
  BY <1>1 DEF CreditIfConfirmed
<1>6. \/ notice = told[t]
      \/ /\ final /\ ~IsCredited(t)
         /\ notice = <<IF w \in UtxoWatchers THEN Payment[t].gross ELSE row.net>>
      \/ ~(final /\ ~IsCredited(t)) /\ notice = Detected
  BY <1>4, Zenon DEF Notice
<1>7. entry \in Entries /\ entry.net = row.net
  BY <1>3 DEF Entries
<1>8. row.net \in 0 .. Payment[t].gross
  BY <1>3
<1>. HIDE DEF t, final, row, entry
<1>9. /\ told'[t] = notice
      /\ \A s \in Transfers \ {t} : UNCHANGED <<told[s], posted[s]>>
  BY <1>2, <1>4, <1>5 DEF Shapes
<1>10. posted'[t] = IF final /\ ~IsCredited(t) THEN Append(posted[t], entry) ELSE posted[t]
  BY <1>2, <1>5 DEF Shapes
<1>. QED
  <2>1. CASE final /\ ~IsCredited(t)
    <3>1. told'[t] \in {told[t], <<IF w \in UtxoWatchers THEN Payment[t].gross ELSE row.net>>}
      BY <1>6, <1>9, <2>1, Zenon
    <3>2. posted'[t] = Append(posted[t], entry)
      BY <1>10, <2>1
    <3>. QED
      BY <1>2, <1>7, <1>8, <1>9, <2>1, <3>1, <3>2, Zenon DEF row
  <2>2. CASE ~(final /\ ~IsCredited(t))
    <3>1. told'[t] \in {told[t], Detected} /\ posted'[t] = posted[t]
      BY <1>6, <1>9, <1>10, <2>2, Zenon
    <3>. QED
      BY <1>2, <1>8, <1>9, <2>2, <3>1, Zenon DEF row
  <2>. QED
    BY <2>1, <2>2

\* Nothing but an Ingest sends a notice.
LEMMA OnlyIngestTells ==
    ASSUME [Next]_vars
    PROVE  UNCHANGED told \/ \E w \in Watchers : Ingest(w)
BY StepCases
   DEF vars, bookVars, StartWatcher, LoadMap, ReportSuccess, CycleFails, ChainGrows, Crash,
       UtxoFetchDeposits, BlockFetchDeposits, IngestFails, WriteCursor, SolNodeUnhealthy, Redeploy

\* A step keeps the notices typed.
LEMMA NoticesStep ==
    ASSUME Shapes, DOMAIN told = Transfers, NoticesTyped, [Next]_vars
    PROVE  DOMAIN told' = Transfers /\ NoticesTyped'
<1>1. CASE UNCHANGED told
  BY <1>1 DEF NoticesTyped
<1>2. ASSUME NEW w \in Watchers, Ingest(w)
      PROVE  DOMAIN told' = Transfers /\ NoticesTyped'
  <2>1. DOMAIN told' = Transfers
    BY <1>2 DEF Ingest
  <2>2. PICK t \in Transfers, final \in BOOLEAN :
           /\ DepositRow(t, "credited").net \in 0 .. Payment[t].gross
           /\ \A s \in Transfers \ {t} : told'[s] = told[s]
           /\ told'[t] \in {told[t], Detected,
                           <<IF w \in UtxoWatchers THEN Payment[t].gross
                             ELSE DepositRow(t, "credited").net>>}
    BY <1>2, IngestTells
  <2>3. Payment[t].gross \in 0 .. Payment[t].gross
    BY DepositsAssumption
  <2>4. told'[t] \in {None, Detected} \/ told'[t][1] \in 0 .. Payment[t].gross
    BY <2>2, <2>3 DEF NoticesTyped
  <2>. QED
    BY <2>1, <2>2, <2>4 DEF NoticesTyped
<1>. QED
  BY <1>1, <1>2, OnlyIngestTells

\* A step keeps what the place of a process says of its cycle.
LEMMA CyclesTypedStep ==
    ASSUME Shapes, CyclesTyped, [Next]_vars
    PROVE  CyclesTyped'
<1>0. /\ CycleShape /\ CycleShape'
      /\ \A w \in UtxoWatchers \cup BlockWatchers : w \in Watchers
  BY ShapesStep DEF Shapes, Watchers
<1>1. \A w \in Watchers : cycle'[w].at \in Places
  BY <1>0 DEF CycleShape
<1>. DEFINE Ok(v) == /\ cycle'[v].batch # {} => cycle'[v].at = "ingesting"
                     /\ cycle'[v].upto # None => v \in BlockWatchers
            Same(v) == /\ cycle'[v].at = cycle[v].at \/ cycle'[v].batch = {}
                       /\ cycle'[v].batch # {} => cycle[v].batch # {}
                       /\ cycle'[v].upto \in {None, cycle[v].upto}
<1>2. ASSUME NEW v \in Watchers, Same(v)
      PROVE  Ok(v)
  BY <1>2 DEF CyclesTyped
<1>3. CASE UNCHANGED cycle
  BY <1>3 DEF CyclesTyped
<1>4. ASSUME NEW w \in Watchers, NEW batch \in SUBSET (Transfers \X BOOLEAN),
             NEW upto \in Nat \cup {None}, NEW skipped \in SUBSET Transfers,
             Fetched(w, batch, upto, skipped), upto # None => w \in BlockWatchers
      PROVE  CyclesTyped'
  <2>1. Ok(w)
    BY <1>0, <1>4, FetchedShape
  <2>2. \A v \in Watchers : v # w => Same(v)
    BY <1>0, <1>4, FetchedShape
  <2>. QED
    BY <1>1, <1>2, <2>1, <2>2 DEF CyclesTyped
<1>5. ASSUME NEW w \in UtxoWatchers, UtxoFetchDeposits(w)
      PROVE  CyclesTyped'
  <2>1. PICK batch \in SUBSET (Transfers \X BOOLEAN) : Fetched(w, batch, None, {})
    BY <1>5, UtxoFetchCases
  <2>2. None \in Nat \cup {None} /\ {} \in SUBSET Transfers /\ w \in Watchers
    BY <1>0
  <2>. QED
    BY <1>4, <2>1, <2>2
<1>6. ASSUME NEW w \in BlockWatchers, BlockFetchDeposits(w)
      PROVE  CyclesTyped'
  <2>1. PICK upto \in Nat, found \in SUBSET Transfers, skipped \in SUBSET Transfers :
           BlockFetched(w, upto, found, skipped)
    BY <1>6, BlockFetchCases
  <2>2. {<<t, TRUE>> : t \in found} \in SUBSET (Transfers \X BOOLEAN)
    <3>1. \A t \in found : <<t, TRUE>> \in Transfers \X BOOLEAN
      OBVIOUS
    <3>. QED
      BY <3>1, Zenon
  <2>. QED
    BY <1>0, <1>4, <2>1, <2>2 DEF BlockFetched
<1>7. ASSUME NEW w \in Watchers,
             \/ LoadMap(w) \/ Ingest(w)
             \/ w \in BlockWatchers /\ (IngestFails(w) \/ WriteCursor(w))
             \/ cycle' = [cycle EXCEPT ![w] = Idle] \/ cycle' = [cycle EXCEPT ![w] = Stopped]
      PROVE  CyclesTyped'
  <2>1. CASE LoadMap(w)
    <3>1. cycle[w].at = "idle" /\ cycle[w].batch = {}
      BY <2>1 DEF LoadMap, CyclesTyped
    <3>2. \A v \in Watchers : Same(v)
      BY <1>0, <2>1, <3>1 DEF LoadMap, CycleShape
    <3>. QED
      BY <1>1, <1>2, <3>2 DEF CyclesTyped
  <2>2. CASE Ingest(w)
    <3>1. PICK d \in cycle[w].batch : cycle' = [cycle EXCEPT ![w].batch = @ \ {d}]
      BY <2>2 DEF Ingest
    <3>2. \A v \in Watchers : Same(v)
      BY <1>0, <3>1 DEF CycleShape
    <3>. QED
      BY <1>1, <1>2, <3>2 DEF CyclesTyped
  <2>3. CASE IngestFails(w)
    <3>1. PICK d \in cycle[w].batch :
             cycle' = [cycle EXCEPT ![w].batch = @ \ {d}, ![w].skipped = @ \cup {d[1]}]
      BY <2>3 DEF IngestFails
    <3>2. \A v \in Watchers : Same(v)
      BY <1>0, <3>1 DEF CycleShape
    <3>. QED
      BY <1>1, <1>2, <3>2 DEF CyclesTyped
  <2>4. CASE WriteCursor(w)
    <3>1. \A v \in Watchers : Same(v)
      BY <1>0, <2>4 DEF WriteCursor, CycleShape
    <3>. QED
      BY <1>1, <1>2, <3>1 DEF CyclesTyped
  <2>5. CASE cycle' = [cycle EXCEPT ![w] = Idle] \/ cycle' = [cycle EXCEPT ![w] = Stopped]
    <3>1. \A v \in Watchers : Same(v)
      BY <1>0, <2>5 DEF Idle, Stopped, CycleShape
    <3>. QED
      BY <1>1, <1>2, <3>1 DEF CyclesTyped
  <2>. QED
    BY <1>7, <2>1, <2>2, <2>3, <2>4, <2>5
<1>8. ASSUME NEW w \in Watchers,
             StartWatcher(w) \/ ReportSuccess(w) \/ CycleFails(w) \/ ChainGrows(w) \/ Crash(w)
      PROVE  CyclesTyped'
  <2>1. UNCHANGED cycle \/ cycle' = [cycle EXCEPT ![w] = Idle]
        \/ cycle' = [cycle EXCEPT ![w] = Stopped]
    BY <1>8 DEF StartWatcher, ReportSuccess, CycleFails, ChainGrows, Crash
  <2>. QED
    BY <1>3, <1>7, <2>1
<1>9. CASE SolNodeUnhealthy
  BY <1>3, <1>9 DEF SolNodeUnhealthy
<1>10. CASE Redeploy
  BY <1>10 DEF Redeploy, CyclesTyped, Stopped, Places
<1>. QED
  BY <1>0, <1>3, <1>5, <1>6, <1>7, <1>8, <1>9, <1>10, StepCases DEF vars

\* A step keeps the rest: chains end at their bound, a watcher's health is one of
\* the words the services write, and nothing fails more often than it may.
LEMMA TypedStep ==
    ASSUME Shapes, Typed, [Next]_vars
    PROVE  Typed'
<1>1. bot' \in {"down", "degraded", "issuing"}
  BY StepCases
     DEF Typed, vars, routeVars, StartBot, StopBot, GetOrCreateDepositAddress, StartWatcher,
         LoadMap, ReportSuccess, CycleFails, ChainGrows, Crash, Ingest, UtxoFetchDeposits,
         BlockFetchDeposits, IngestFails, WriteCursor, SolNodeUnhealthy, Redeploy
<1>2. head' \in [Watchers -> 0 .. LastBlock]
  <2>1. UNCHANGED head \/ \E w \in Watchers : ChainGrows(w)
    BY StepCases
       DEF vars, StartWatcher, LoadMap, ReportSuccess, CycleFails, Crash, Ingest,
           UtxoFetchDeposits, BlockFetchDeposits, IngestFails, WriteCursor, SolNodeUnhealthy,
           Redeploy
  <2>2. ASSUME NEW w \in Watchers, ChainGrows(w)
        PROVE  head' \in [Watchers -> 0 .. LastBlock]
    <3>1. head[w] \in 0 .. LastBlock /\ head[w] < LastBlock /\ LastBlock \in Nat
      BY <2>2, DepositsAssumption DEF ChainGrows, Typed
    <3>2. head[w] + 1 \in 0 .. LastBlock
      BY <3>1
    <3>. QED
      BY <2>2, <3>2 DEF ChainGrows, Typed
  <2>. QED
    BY <2>1, <2>2 DEF Typed
<1>3. health' \in [Watchers -> HealthStates]
  <2>1. \A w \in BlockWatchers : w \in Watchers
    BY DEF Watchers
  <2>2. \/ UNCHANGED health
        \/ \E w \in Watchers, h \in HealthStates : health' = [health EXCEPT ![w] = h]
    <3>1. ASSUME NEW w \in Watchers, LoadMap(w) \/ ReportSuccess(w) \/ CycleFails(w)
          PROVE  UNCHANGED health \/ \E h \in HealthStates : health' = [health EXCEPT ![w] = h]
      BY <3>1 DEF LoadMap, ReportSuccess, CycleFails, HealthStates
    <3>2. ASSUME NEW w \in Watchers, StartWatcher(w)
          PROVE  UNCHANGED health \/ \E h \in HealthStates : health' = [health EXCEPT ![w] = h]
      <4>1. health[w] \in HealthStates
        BY DEF Typed
      <4>2. \/ UNCHANGED health
            \/ health' = [health EXCEPT ![w] = IF RouteIntegrity THEN "disabled" ELSE @]
            \/ health' = [health EXCEPT ![w] =
                            IF RouteIntegrity THEN "fatal_startup_blocked" ELSE @]
        BY <3>2, Zenon DEF StartWatcher
      <4>. QED
        BY <4>1, <4>2 DEF HealthStates
    <3>3. ASSUME NEW w \in BlockWatchers, WriteCursor(w)
          PROVE  \E h \in HealthStates : health' = [health EXCEPT ![w] = h]
      <4>1. health[w] \in HealthStates
        BY <2>1 DEF Typed
      <4>. QED
        BY <3>3, <4>1 DEF WriteCursor, HealthStates
    <3>4. CASE SolNodeUnhealthy
      <4>1. "sol_watcher" \in Watchers
        BY DEF Watchers, BlockWatchers
      <4>2. health["sol_watcher"] \in HealthStates
        BY <4>1 DEF Typed
      <4>. QED
        BY <3>4, <4>1, <4>2 DEF SolNodeUnhealthy, HealthStates
    <3>. QED
      BY <2>1, <3>1, <3>2, <3>3, <3>4, StepCases
         DEF vars, statusVars, ChainGrows, Crash, Ingest, UtxoFetchDeposits,
             BlockFetchDeposits, IngestFails, Redeploy
  <2>. QED
    BY <2>2 DEF Typed
<1>4. faults' \in 0 .. MaxFaults
  <2>1. UNCHANGED faults \/ Fails
    BY StepCases
       DEF vars, StartWatcher, LoadMap, ReportSuccess, CycleFails, ChainGrows, Crash, Ingest,
           UtxoFetchDeposits, BlockFetchDeposits, IngestFails, WriteCursor, SolNodeUnhealthy,
           Redeploy
  <2>. QED
    BY <2>1, DepositsAssumption DEF Fails, Typed
<1>. QED
  BY <1>1, <1>2, <1>3, <1>4, NoticesStep, CyclesTypedStep DEF Typed

\* Init is typed.
LEMMA InitTyped ==
    ASSUME Init
    PROVE  Typed
BY DepositsAssumption
   DEF Init, Typed, NoticesTyped, CyclesTyped, HealthStates, Places, Stopped

\* The variables of the deposits have their types, and the place of a process says
\* what it holds: a batch only while it ingests, a block only if it reads blocks.
THEOREM DepositsAreTyped == Spec => []DepositsTypeOK
<1>1. Init => Shapes /\ Typed
  BY InitShapes, InitTyped
<1>2. Shapes /\ Typed /\ [Next]_vars => (Shapes /\ Typed)'
  BY ShapesStep, TypedStep
<1>3. Shapes /\ Typed => DepositsTypeOK
  <2>. SUFFICES ASSUME Shapes, Typed PROVE DepositsTypeOK
    OBVIOUS
  <2>1. \A t \in Transfers : deposit[t] # None => deposit[t].status \in {"seen", "credited"}
    BY DEF Shapes, DepositRows
  <2>. QED
    BY <2>1 DEF Shapes, Typed, NoticesTyped, CyclesTyped, HealthStates, Places, DepositsTypeOK
<1>. QED
  BY <1>1, <1>2, <1>3, PTL DEF Spec

-----------------------------------------------------------------------------
\* What users are told.

\* A watcher has found only transfers of its own assets.
OwnBatches == \A w \in Watchers : \A d \in cycle[w].batch : WatcherOf(d[1]) = w

\* A step keeps the batches apart.
LEMMA OwnBatchesStep ==
    ASSUME Shapes, Typed, OwnBatches, [Next]_vars
    PROVE  OwnBatches'
<1>0. /\ CycleShape /\ \A w \in UtxoWatchers \cup BlockWatchers : w \in Watchers
  BY DEF Shapes, Watchers
<1>. DEFINE Kept == \A v \in Watchers : cycle'[v].batch \subseteq cycle[v].batch
<1>1. CASE Kept
  BY <1>1 DEF OwnBatches
<1>2. CASE UNCHANGED cycle
  BY <1>1, <1>2
<1>3. ASSUME NEW w \in Watchers, NEW batch \in SUBSET (Transfers \X BOOLEAN),
             NEW upto \in Nat \cup {None}, NEW skipped \in SUBSET Transfers,
             Fetched(w, batch, upto, skipped), \A d \in batch : WatcherOf(d[1]) = w
      PROVE  OwnBatches'
  <2>1. \A v \in Watchers : v # w => cycle'[v] = cycle[v]
    BY <1>0, <1>3, FetchedShape
  <2>2. cycle'[w].batch = batch
    BY <1>0, <1>3, FetchedShape
  <2>3. ASSUME NEW v \in Watchers, NEW d \in cycle'[v].batch
        PROVE  WatcherOf(d[1]) = v
    BY <1>3, <2>1, <2>2, <2>3 DEF OwnBatches
  <2>. QED
    BY <2>3 DEF OwnBatches
<1>4. ASSUME NEW w \in UtxoWatchers, UtxoFetchDeposits(w)
      PROVE  OwnBatches'
  <2>1. PICK batch \in SUBSET (Transfers \X BOOLEAN) :
           Fetched(w, batch, None, {}) /\ \A d \in batch : WatcherOf(d[1]) = w
    BY <1>4, UtxoFetchCases
  <2>2. None \in Nat \cup {None} /\ {} \in SUBSET Transfers /\ w \in Watchers
    BY <1>0
  <2>. QED
    BY <1>3, <2>1, <2>2
<1>5. ASSUME NEW w \in BlockWatchers, BlockFetchDeposits(w)
      PROVE  OwnBatches'
  <2>1. PICK upto \in Nat, found \in SUBSET Transfers, skipped \in SUBSET Transfers :
           BlockFetched(w, upto, found, skipped)
    BY <1>5, BlockFetchCases
  <2>2. {<<t, TRUE>> : t \in found} \in SUBSET (Transfers \X BOOLEAN)
    <3>1. \A t \in found : <<t, TRUE>> \in Transfers \X BOOLEAN
      OBVIOUS
    <3>. QED
      BY <3>1, Zenon
  <2>3. \A d \in {<<t, TRUE>> : t \in found} : WatcherOf(d[1]) = w
    <3>1. \A t \in found : WatcherOf(<<t, TRUE>>[1]) = w
      <4>1. ASSUME NEW t \in found PROVE <<t, TRUE>>[1] = t
        OBVIOUS
      <4>. QED
        BY <2>1, <4>1, Zenon DEF BlockFetched
    <3>. QED
      BY <3>1, Zenon
  <2>. QED
    BY <1>0, <1>3, <2>1, <2>2, <2>3 DEF BlockFetched
<1>6. ASSUME NEW w \in Watchers, LoadMap(w) \/ WriteCursor(w)
      PROVE  OwnBatches'
  BY <1>0, <1>1, <1>6 DEF LoadMap, WriteCursor, CycleShape
<1>7. ASSUME NEW w \in Watchers, Ingest(w) \/ IngestFails(w)
      PROVE  OwnBatches'
  <2>1. CASE Ingest(w)
    <3>1. PICK d \in cycle[w].batch : cycle' = [cycle EXCEPT ![w].batch = @ \ {d}]
      BY <2>1 DEF Ingest
    <3>. QED
      BY <1>0, <1>1, <3>1 DEF CycleShape
  <2>2. CASE IngestFails(w)
    <3>1. PICK d \in cycle[w].batch :
             cycle' = [cycle EXCEPT ![w].batch = @ \ {d}, ![w].skipped = @ \cup {d[1]}]
      BY <2>2 DEF IngestFails
    <3>. QED
      BY <1>0, <1>1, <3>1 DEF CycleShape
  <2>. QED
    BY <1>7, <2>1, <2>2
<1>8. ASSUME NEW w \in Watchers,
             StartWatcher(w) \/ ReportSuccess(w) \/ CycleFails(w) \/ ChainGrows(w) \/ Crash(w)
      PROVE  OwnBatches'
  <2>1. UNCHANGED cycle \/ cycle' = [cycle EXCEPT ![w] = Idle]
        \/ cycle' = [cycle EXCEPT ![w] = Stopped]
    BY <1>8 DEF StartWatcher, ReportSuccess, CycleFails, ChainGrows, Crash
  <2>2. CASE cycle' = [cycle EXCEPT ![w] = Idle] \/ cycle' = [cycle EXCEPT ![w] = Stopped]
    BY <1>0, <1>1, <2>2 DEF Idle, Stopped, CycleShape
  <2>. QED
    BY <1>2, <2>1, <2>2
<1>9. CASE SolNodeUnhealthy \/ Redeploy
  BY <1>2, <1>9 DEF SolNodeUnhealthy, Redeploy, OwnBatches, Stopped
<1>. QED
  BY <1>0, <1>2, <1>4, <1>5, <1>6, <1>7, <1>8, <1>9, StepCases DEF vars

\* A step keeps what users were told of credits true.
LEMMA ToldStep ==
    ASSUME Shapes, Typed, CreditsAddUp, OwnBatches, ToldWhatWasBooked, [Next]_vars
    PROVE  ToldWhatWasBooked'
<1>1. CASE UNCHANGED <<told, posted>>
  BY <1>1 DEF ToldWhatWasBooked, WatcherOf
<1>2. ASSUME NEW w \in Watchers, Ingest(w)
      PROVE  ToldWhatWasBooked'
  <2>1. PICK t \in Transfers, final \in BOOLEAN :
           LET row == DepositRow(t, "credited")
           IN  /\ <<t, final>> \in cycle[w].batch
               /\ \A s \in Transfers \ {t} : UNCHANGED <<told[s], posted[s]>>
               /\ \/ /\ final /\ ~IsCredited(t)
                     /\ \E entry \in Entries :
                           entry.net = row.net /\ posted'[t] = Append(posted[t], entry)
                     /\ told'[t] \in {told[t], <<IF w \in UtxoWatchers THEN Payment[t].gross
                                                ELSE row.net>>}
                  \/ /\ ~(final /\ ~IsCredited(t))
                     /\ UNCHANGED posted[t]
                     /\ told'[t] \in {told[t], Detected}
    BY <1>2, IngestTells DEF Typed
  <2>2. \A s \in Transfers \ {t} : told'[s] = told[s] /\ posted'[s] = posted[s]
    BY <2>1
  <2>3. WatcherOf(t) = w
    <3>1. \E d \in cycle[w].batch : d[1] = t
      BY <2>1
    <3>. QED
      BY <3>1 DEF OwnBatches
  <2>4. UtxoWatchers \cap BlockWatchers = {}
    BY DEF UtxoWatchers, BlockWatchers
  <2>5. told'[t] \notin {None, Detected} =>
           /\ Len(posted'[t]) = 1
           /\ w \in BlockWatchers => told'[t] = <<posted'[t][1].net>>
    <3>1. CASE final /\ ~IsCredited(t)
      <4>1. PICK entry \in Entries : entry.net = DepositRow(t, "credited").net
                                     /\ posted'[t] = Append(posted[t], entry)
        BY <2>1, <3>1
      <4>2. posted[t] \in Seq(Entries) /\ Len(posted[t]) = 0
        BY <3>1 DEF Shapes, CreditsAddUp
      <4>3. Len(posted'[t]) = 1 /\ posted'[t][1] = entry
        BY <4>1, <4>2
      <4>4. told[t] \in {None, Detected}
        BY <4>2 DEF ToldWhatWasBooked
      <4>5. told'[t] \in {told[t], <<IF w \in UtxoWatchers THEN Payment[t].gross
                                    ELSE DepositRow(t, "credited").net>>}
        BY <2>1, <3>1
      <4>. QED
        BY <2>4, <4>1, <4>3, <4>4, <4>5
    <3>2. CASE ~(final /\ ~IsCredited(t))
      <4>1. posted'[t] = posted[t] /\ told'[t] \in {told[t], Detected}
        BY <2>1, <3>2
      <4>. QED
        BY <2>3, <4>1 DEF ToldWhatWasBooked
    <3>. QED
      BY <3>1, <3>2
  <2>. QED
    BY <2>2, <2>3, <2>5 DEF ToldWhatWasBooked, WatcherOf
<1>. QED
  BY <1>1, <1>2, OnlyIngestTells, OnlyIngestBooks

\* Whoever was told of a credit has it, booked once, and the account watchers named
\* the very amount: whatever was paid and however often it was read.
THEOREM NoticesAreTrue == Spec => []ToldWhatWasBooked
<1>. DEFINE Inv == Shapes /\ Typed /\ CreditsAddUp /\ OwnBatches /\ ToldWhatWasBooked
<1>1. Init => Inv
  <2>1. ASSUME Init PROVE CreditsAddUp /\ OwnBatches /\ ToldWhatWasBooked
    BY <2>1 DEF Init, CreditsAddUp, IsCredited, OwnBatches, ToldWhatWasBooked, Stopped
  <2>. QED
    BY <2>1, InitShapes, InitTyped
<1>2. Inv /\ [Next]_vars => Inv'
  BY ShapesStep, TypedStep, CreditsStep, OwnBatchesStep, ToldStep
<1>. QED
  BY <1>1, <1>2, PTL DEF Spec

-----------------------------------------------------------------------------
\* What a step does to the routes.

\* Either everything stops, or the routes are left alone, stamped by a program
\* that starts, or extended by the bot.
LEMMA RouteSteps ==
    ASSUME [Next]_vars
    PROVE  \/ ~Running'
           \/ UNCHANGED <<route, env>> /\ Running
           \/ route' = StampedRoutes /\ UNCHANGED env /\ (Running \/ PreflightPasses)
           \/ /\ UNCHANGED env /\ Running
              /\ \E p \in Wanted : GetOrCreateDepositAddress(p[1], p[2])
<1>1. CASE UNCHANGED <<route, env, bot, cycle>>
  BY <1>1 DEF Running
<1>2. CASE StartBot /\ UNCHANGED cycle
  BY <1>2 DEF StartBot, Running
<1>3. CASE StopBot /\ UNCHANGED cycle
  BY <1>3 DEF StopBot, Running
<1>4. ASSUME NEW p \in Wanted, GetOrCreateDepositAddress(p[1], p[2])
      PROVE  UNCHANGED env /\ Running
  BY <1>4 DEF GetOrCreateDepositAddress, AsksForDeposit, Running
<1>5. ASSUME NEW w \in Watchers, StartWatcher(w)
      PROVE  \/ ~Running'
             \/ route' = StampedRoutes /\ UNCHANGED env /\ (Running \/ PreflightPasses)
  BY <1>5 DEF StartWatcher, Running
<1>6. CASE SolNodeUnhealthy
  BY <1>6 DEF SolNodeUnhealthy, Running
<1>7. CASE Redeploy
  BY <1>7 DEF Redeploy, Running, Stopped
<1>8. ASSUME NEW w \in Watchers,
             LoadMap(w) \/ ReportSuccess(w) \/ CycleFails(w) \/ Crash(w) \/ Ingest(w)
                \/ UtxoFetchDeposits(w) \/ BlockFetchDeposits(w) \/ IngestFails(w)
                \/ WriteCursor(w)
      PROVE  UNCHANGED <<route, env>> /\ Running
  <2>1. cycle[w].at # "down"
    BY <1>8 DEF LoadMap, ReportSuccess, CycleFails, Crash, Ingest, UtxoFetchDeposits,
                BlockFetchDeposits, IngestFails, WriteCursor
  <2>2. UNCHANGED <<route, env>>
    BY <1>8 DEF LoadMap, ReportSuccess, CycleFails, Crash, Ingest, UtxoFetchDeposits,
                BlockFetchDeposits, IngestFails, WriteCursor, routeVars
  <2>. QED
    BY <2>1, <2>2 DEF Running
<1>9. ASSUME NEW w \in Watchers, ChainGrows(w)
      PROVE  UNCHANGED <<route, env, bot, cycle>>
  BY <1>9 DEF ChainGrows, routeVars
<1>10. CASE UNCHANGED vars
  BY <1>1, <1>10 DEF vars
<1>11. UtxoWatchers \subseteq Watchers /\ BlockWatchers \subseteq Watchers
  BY DEF Watchers
<1>12. CASE Next
  BY <1>1, <1>2, <1>3, <1>4, <1>5, <1>6, <1>7, <1>8, <1>9, <1>11, <1>12, StepCases
<1>. QED
  BY <1>10, <1>12

\* Stamping leaves every row its address, and stamps all if they pass.
LEMMA StampedEffect ==
    ASSUME Shapes, route' = StampedRoutes
    PROVE  /\ Rows' = Rows
           /\ \A p \in Rows : /\ route'[p].address = route[p].address
                              /\ route[p].stamped => route'[p].stamped
                              /\ RouteIntegrity => route'[p].stamped
<1>. DEFINE rows == [p \in Rows |-> [route[p] EXCEPT !.stamped = TRUE]]
<1>1. \A p \in Rows : /\ rows[p].address = route[p].address
                      /\ rows[p].ref = route[p].ref /\ rows[p].origin = route[p].origin
                      /\ rows[p].stamped
  BY DEF Shapes, RowsShape, Rows
<1>2. DOMAIN rows = Rows /\ (route' = rows \/ route' = route)
  BY DEF StampedRoutes
<1>3. RouteIntegrity => NoRouteCollisions(rows)
  <2>. HIDE DEF rows
  <2>. QED
    BY <1>1 DEF RouteIntegrity, NoRouteCollisions
<1>4. RouteIntegrity => route' = rows
  BY <1>3 DEF StampedRoutes
<1>. HIDE DEF rows
<1>. QED
  BY <1>1, <1>2, <1>4 DEF Rows

\* What the bot adds to the routes.
LEMMA IssueEffect ==
    ASSUME NEW p \in Wanted, GetOrCreateDepositAddress(p[1], p[2])
    PROVE  \E r \in IssuedAddress(p[1], p[2]) :
              /\ p \notin Rows /\ Rows' = Rows \cup {p}
              /\ route'[p] = r /\ \A q \in Rows : route'[q] = route[q]
              /\ FingerprintFree(p[1], r)
<1>1. p = <<p[1], p[2]>>
  BY RoutesAssumption
<1>2. PICK r \in IssuedAddress(p[1], p[2]) :
         /\ p \notin Rows /\ FingerprintFree(p[1], r)
         /\ route' = [q \in Rows \cup {p} |-> IF q = p THEN r ELSE route[q]]
  BY <1>1 DEF GetOrCreateDepositAddress, WithRow
<1>. QED
  BY <1>2 DEF Rows

\* Every issued row has its fingerprint, and one from a seed its own path.
LEMMA IssuedRow ==
    ASSUME NEW u, NEW asset, NEW r \in IssuedAddress(u, asset)
    PROVE  /\ r.stamped
           /\ env.mode \in SeedModes => r.address = Derive(env.seed, u, asset)
<1>1. \/ env.mode = "external_http" /\ r \in HttpRoute(asset)
      \/ env.mode \in SeedModes /\ r = LocalRoute(u, asset)
  BY DEF IssuedAddress, SeedModes
<1>2. ASSUME env.mode = "external_http", r \in HttpRoute(asset)
      PROVE  r.stamped /\ env.mode \notin SeedModes
  <2>1. PICK h : r = [address |-> h[1], ref |-> h[2], origin |-> "external_http",
                      stamped |-> TRUE]
    BY <1>2, Zenon DEF HttpRoute
  <2>. QED
    BY <1>2, <2>1 DEF SeedModes
<1>3. ASSUME r = LocalRoute(u, asset)
      PROVE  r.stamped /\ r.address = Derive(env.seed, u, asset)
  BY <1>3 DEF LocalRoute
<1>. QED
  BY <1>1, <1>2, <1>3

-----------------------------------------------------------------------------
\* One owner.

\* While any program runs, every row has its fingerprint, so the triggers see
\* every address: this is what the preflight's stamping is for.
RoutesGuarded ==
    Running => /\ \A p \in Rows : route[p].stamped
               /\ \A p, q \in Rows : route[p].address = route[q].address => p[1] = q[1]

\* A step keeps the routes guarded.
LEMMA RoutesGuardedStep ==
    ASSUME Shapes, RoutesGuarded, [Next]_vars
    PROVE  RoutesGuarded'
<1>1. CASE ~Running'
  BY <1>1 DEF RoutesGuarded
<1>2. CASE UNCHANGED <<route, env>> /\ Running
  BY <1>2 DEF RoutesGuarded, Rows
<1>3. CASE route' = StampedRoutes /\ (Running \/ PreflightPasses)
  BY <1>3, StampedEffect DEF RoutesGuarded, PreflightPasses, RouteIntegrity
<1>4. ASSUME Running, NEW p \in Wanted, GetOrCreateDepositAddress(p[1], p[2])
      PROVE  RoutesGuarded'
  <2>1. PICK r \in IssuedAddress(p[1], p[2]) :
           /\ p \notin Rows /\ Rows' = Rows \cup {p}
           /\ route'[p] = r /\ \A q \in Rows : route'[q] = route[q]
           /\ FingerprintFree(p[1], r)
    BY <1>4, IssueEffect
  <2>2. r.stamped
    BY <2>1, IssuedRow
  <2>. QED
    BY <1>4, <2>1, <2>2 DEF RoutesGuarded, FingerprintFree
<1>. QED
  BY <1>1, <1>2, <1>3, <1>4, RouteSteps

\* While any service runs, no address is that of two users, whatever routes an
\* older version left, a provider answers, or a redeployment changes.
THEOREM AddressesHaveOneOwner == Spec => []OneOwnerPerAddress
<1>1. Init => Shapes /\ RoutesGuarded
  <2>1. ASSUME Init PROVE RoutesGuarded
    BY <2>1 DEF Init, RoutesGuarded, Running, Stopped
  <2>. QED
    BY <2>1, InitShapes
<1>2. Shapes /\ RoutesGuarded /\ [Next]_vars => (Shapes /\ RoutesGuarded)'
  BY ShapesStep, RoutesGuardedStep
<1>3. RoutesGuarded => OneOwnerPerAddress
  BY DEF RoutesGuarded, OneOwnerPerAddress
<1>. QED
  BY <1>1, <1>2, <1>3, PTL DEF Spec

-----------------------------------------------------------------------------
\* One seed.

\* A step leaves every route one the seed can spend from.
LEMMA RoutesMatchSeedStep ==
    ASSUME Shapes, RoutesMatchSeed, [Next]_vars
    PROVE  RoutesMatchSeed'
<1>1. CASE ~Running'
  BY <1>1 DEF RoutesMatchSeed
<1>2. CASE UNCHANGED <<route, env>> /\ Running
  BY <1>2 DEF RoutesMatchSeed, Rows, Derive
<1>3. CASE route' = StampedRoutes /\ UNCHANGED env /\ (Running \/ PreflightPasses)
  <2>1. env.mode \in SeedModes =>
           \A p \in Rows : route[p].address = Derive(env.seed, p[1], p[2])
    BY <1>3 DEF RoutesMatchSeed, PreflightPasses, DerivationConsistent
  <2>. QED
    BY <1>3, <2>1, StampedEffect DEF RoutesMatchSeed, Derive
<1>4. ASSUME Running, UNCHANGED env, NEW p \in Wanted, GetOrCreateDepositAddress(p[1], p[2])
      PROVE  RoutesMatchSeed'
  <2>1. PICK r \in IssuedAddress(p[1], p[2]) :
           /\ p \notin Rows /\ Rows' = Rows \cup {p}
           /\ route'[p] = r /\ \A q \in Rows : route'[q] = route[q]
           /\ FingerprintFree(p[1], r)
    BY <1>4, IssueEffect
  <2>2. env.mode \in SeedModes => r.address = Derive(env.seed, p[1], p[2])
    BY <2>1, IssuedRow
  <2>. QED
    BY <1>4, <2>1, <2>2 DEF RoutesMatchSeed, Derive
<1>. QED
  BY <1>1, <1>2, <1>3, <1>4, RouteSteps

\* While any service runs on a seed, that seed can spend from every address ever
\* handed out.
THEOREM SeedSpendsEveryRoute == Spec => []RoutesMatchSeed
<1>1. Init => Shapes /\ RoutesMatchSeed
  <2>1. ASSUME Init PROVE RoutesMatchSeed
    BY <2>1 DEF Init, RoutesMatchSeed, Running, Stopped
  <2>. QED
    BY <2>1, InitShapes
<1>2. Shapes /\ RoutesMatchSeed /\ [Next]_vars => (Shapes /\ RoutesMatchSeed)'
  BY ShapesStep, RoutesMatchSeedStep
<1>. QED
  BY <1>1, <1>2, PTL DEF Spec

-----------------------------------------------------------------------------
\* Credits.

\* What the processes know of the routes is true of the routes.
MapsAreRoutes ==
    \A w \in Watchers : \A e \in cycle[w].map :
       \E p \in Rows : e = <<route[p].address, p[1]>>

BatchesArePaid ==
    /\ \A w \in Watchers : \A d \in cycle[w].batch : Payment[d[1]].to \in Rows
    /\ \A t \in Transfers : Payment[t].height <= head[WatcherOf(t)] => Payment[t].to \in Rows

\* No row is ever removed, or its address changed.
LEMMA RowsStay ==
    ASSUME Shapes, [Next]_vars
    PROVE  Rows \subseteq Rows' /\ \A p \in Rows : route'[p].address = route[p].address
<1>1. CASE UNCHANGED route
  BY <1>1 DEF Rows
<1>2. CASE route' = StampedRoutes
  BY <1>2, StampedEffect
<1>3. ASSUME NEW p \in Wanted, GetOrCreateDepositAddress(p[1], p[2])
      PROVE  Rows \subseteq Rows' /\ \A q \in Rows : route'[q].address = route[q].address
  BY <1>3, IssueEffect
<1>. QED
  BY <1>1, <1>2, <1>3, StepCases
     DEF vars, routeVars, StartBot, StopBot, StartWatcher, LoadMap, ReportSuccess, CycleFails,
         ChainGrows, Crash, Ingest, UtxoFetchDeposits, BlockFetchDeposits, IngestFails,
         WriteCursor, SolNodeUnhealthy, Redeploy

\* A process keeps its map and its batch or less, or takes them from the routes
\* and the chain.
Informed(w) ==
    /\ \/ cycle'[w].map \subseteq cycle[w].map
       \/ cycle'[w].map = MonitoredAddresses(WatchedAssets(w))
    /\ \/ cycle'[w].batch \subseteq cycle[w].batch
       \/ \A d \in cycle'[w].batch : Payment[d[1]].to \in Rows

LEMMA InformedStep ==
    ASSUME Shapes, BatchesArePaid, [Next]_vars, NEW w \in Watchers
    PROVE  Informed(w)
<1>0. CycleShape
  BY DEF Shapes
<1>1. CASE cycle'[w] = cycle[w]
  BY <1>1 DEF Informed
<1>2. ASSUME NEW v \in Watchers,
             cycle' = [cycle EXCEPT ![v] = Idle] \/ cycle' = [cycle EXCEPT ![v] = Stopped]
      PROVE  Informed(w)
  <2>1. cycle'[w] = cycle[w] \/ cycle'[w] = Idle \/ cycle'[w] = Stopped
    BY <1>0, <1>2 DEF CycleShape
  <2>2. Idle.map = {} /\ Idle.batch = {} /\ Stopped.map = {} /\ Stopped.batch = {}
    BY DEF Idle, Stopped
  <2>. QED
    BY <2>1, <2>2 DEF Informed
<1>3. ASSUME NEW v \in Watchers, StartWatcher(v) \/ ReportSuccess(v) \/ CycleFails(v)
                                   \/ ChainGrows(v) \/ Crash(v)
      PROVE  Informed(w)
  <2>1. UNCHANGED cycle \/ cycle' = [cycle EXCEPT ![v] = Idle]
        \/ cycle' = [cycle EXCEPT ![v] = Stopped]
    BY <1>3 DEF StartWatcher, ReportSuccess, CycleFails, ChainGrows, Crash
  <2>. QED
    BY <1>1, <1>2, <2>1
<1>4. ASSUME NEW v \in Watchers, LoadMap(v)
      PROVE  Informed(w)
  <2>1. /\ cycle'[w].map = cycle[w].map \/ cycle'[w].map = MonitoredAddresses(WatchedAssets(w))
        /\ cycle'[w].batch = cycle[w].batch
    BY <1>0, <1>4 DEF LoadMap, CycleShape
  <2>. QED
    BY <2>1 DEF Informed
<1>5. ASSUME NEW v \in Watchers, Ingest(v)
      PROVE  Informed(w)
  <2>1. PICK d \in cycle[v].batch : cycle' = [cycle EXCEPT ![v].batch = @ \ {d}]
    BY <1>5 DEF Ingest
  <2>2. cycle'[w].map = cycle[w].map /\ cycle'[w].batch \subseteq cycle[w].batch
    BY <1>0, <2>1 DEF CycleShape
  <2>. QED
    BY <2>2 DEF Informed
<1>6. ASSUME NEW v \in BlockWatchers, IngestFails(v)
      PROVE  Informed(w)
  <2>1. PICK d \in cycle[v].batch :
           cycle' = [cycle EXCEPT ![v].batch = @ \ {d}, ![v].skipped = @ \cup {d[1]}]
    BY <1>6 DEF IngestFails
  <2>2. v \in Watchers
    BY DEF Watchers
  <2>3. cycle'[w].map = cycle[w].map /\ cycle'[w].batch \subseteq cycle[w].batch
    BY <1>0, <2>1, <2>2 DEF CycleShape
  <2>. QED
    BY <2>3 DEF Informed
<1>7. ASSUME NEW v \in BlockWatchers, WriteCursor(v)
      PROVE  Informed(w)
  BY <1>0, <1>7 DEF Informed, WriteCursor, Watchers, CycleShape
<1>8. ASSUME NEW v \in UtxoWatchers, UtxoFetchDeposits(v)
      PROVE  Informed(w)
  <2>1. PICK batch \in SUBSET (Transfers \X BOOLEAN) :
           Fetched(v, batch, None, {}) /\ \A d \in batch : Payment[d[1]].to \in Rows
    BY <1>8, UtxoFetchCases
  <2>2. v \in Watchers /\ None \in Nat \cup {None} /\ {} \in SUBSET Transfers
    BY DEF Watchers
  <2>3. /\ cycle'[v].map = cycle[v].map /\ cycle'[v].batch = batch
        /\ w # v => cycle'[w] = cycle[w]
    BY <1>0, <2>1, <2>2, FetchedShape
  <2>. QED
    BY <2>1, <2>3 DEF Informed
<1>9. ASSUME NEW v \in BlockWatchers, BlockFetchDeposits(v)
      PROVE  Informed(w)
  <2>1. PICK upto \in Nat, found \in SUBSET Transfers, skipped \in SUBSET Transfers :
           BlockFetched(v, upto, found, skipped)
    BY <1>9, BlockFetchCases
  <2>. DEFINE batch == {<<t, TRUE>> : t \in found}
  <2>2. v \in Watchers /\ head[v] \in Nat /\ Confirmations[v] \in Nat
    BY DepositsAssumption DEF Watchers, Shapes
  <2>3. FinalizedHead(v) <= head[v] /\ FinalizedHead(v) \in Nat
    BY <2>2 DEF FinalizedHead
  <2>4. \A t \in found : WatcherOf(t) = v /\ Payment[t].height <= FinalizedHead(v)
    BY <2>1 DEF BlockFetched
  <2>5. \A t \in Transfers : Payment[t].height \in Nat
    BY DepositsAssumption
  <2>6. ASSUME NEW t \in found
        PROVE  Payment[t].to \in Rows
    <3>1. WatcherOf(t) = v /\ Payment[t].height <= head[v]
      BY <2>2, <2>3, <2>4, <2>5
    <3>. QED
      BY <3>1 DEF BatchesArePaid
  <2>7. ASSUME NEW d \in batch
        PROVE  Payment[d[1]].to \in Rows
    <3>1. PICK t \in found : d = <<t, TRUE>>
      BY <2>7
    <3>2. d[1] = t
      BY <3>1
    <3>. QED
      BY <2>6, <3>2
  <2>8. Fetched(v, batch, upto, skipped)
    BY <2>1 DEF BlockFetched
  <2>. HIDE DEF batch
  <2>9. /\ cycle'[v].map = cycle[v].map /\ cycle'[v].batch = batch
        /\ w # v => cycle'[w] = cycle[w]
    BY <1>0, <2>2, <2>8 DEF Fetched, CycleShape
  <2>. QED
    BY <2>7, <2>9 DEF Informed
<1>10. CASE Redeploy
  BY <1>10 DEF Informed, Redeploy, Stopped
<1>11. CASE SolNodeUnhealthy \/ UNCHANGED cycle
  BY <1>1, <1>11 DEF SolNodeUnhealthy
<1>. QED
  BY <1>3, <1>4, <1>5, <1>6, <1>7, <1>8, <1>9, <1>10, <1>11, StepCases DEF vars

\* A step leaves what the processes know of the routes true.
LEMMA KnowledgeStep ==
    ASSUME Shapes, MapsAreRoutes, BatchesArePaid, [Next]_vars
    PROVE  MapsAreRoutes' /\ BatchesArePaid'
<1>1. ASSUME NEW w \in Watchers, NEW e \in cycle'[w].map
      PROVE  \E p \in Rows' : e = <<route'[p].address, p[1]>>
  <2>1. \E p \in Rows : e = <<route[p].address, p[1]>>
    <3>1. CASE e \in cycle[w].map
      BY <3>1 DEF MapsAreRoutes
    <3>2. CASE e \in MonitoredAddresses(WatchedAssets(w))
      BY <3>2 DEF MonitoredAddresses, Watched
    <3>. QED
      BY <1>1, <3>1, <3>2, InformedStep DEF Informed
  <2>. QED
    BY <2>1, RowsStay
<1>2. ASSUME NEW w \in Watchers, NEW d \in cycle'[w].batch
      PROVE  Payment[d[1]].to \in Rows'
  BY <1>2, InformedStep, RowsStay DEF Informed, BatchesArePaid
<1>3. ASSUME NEW t \in Transfers, Payment[t].height <= head'[WatcherOf(t)]
      PROVE  Payment[t].to \in Rows'
  <2>1. /\ WatcherOf(t) \in Watchers /\ head[WatcherOf(t)] \in Nat
        /\ Payment[t].height \in Nat
    BY DepositsAssumption
       DEF WatcherOf, Assets, Watchers, UtxoWatchers, BlockWatchers, Shapes
  <2>2. CASE UNCHANGED head
    BY <1>3, <2>2, RowsStay DEF BatchesArePaid
  <2>3. ASSUME NEW w \in Watchers, ChainGrows(w)
        PROVE  Payment[t].to \in Rows'
    <3>1. /\ head' = [head EXCEPT ![w] = @ + 1]
          /\ WatcherOf(t) = w /\ Payment[t].height = head[w] + 1 => Payment[t].to \in Rows
      BY <2>3 DEF ChainGrows
    <3>2. Payment[t].to \in Rows
      BY <1>3, <2>1, <3>1 DEF BatchesArePaid, Shapes
    <3>. QED
      BY <3>2, RowsStay
  <2>. QED
    BY <2>2, <2>3, StepCases
       DEF vars, StartWatcher, LoadMap, ReportSuccess, CycleFails, Crash, Ingest,
           UtxoFetchDeposits, BlockFetchDeposits, IngestFails, WriteCursor, SolNodeUnhealthy,
           Redeploy
<1>4. MapsAreRoutes'
  BY <1>1 DEF MapsAreRoutes
<1>5. BatchesArePaid'
  BY <1>2, <1>3 DEF BatchesArePaid, WatcherOf
<1>. QED
  BY <1>4, <1>5

\* An Ingest finds the owner of the address that was paid.
LEMMA IngestedForOwner ==
    ASSUME RoutesGuarded, MapsAreRoutes, BatchesArePaid, NEW w \in Watchers, Ingest(w),
           NEW t \in Transfers, NEW user, NEW final, Ingested(w, t, user, final)
    PROVE  user = Payment[t].to[1]
<1>1. Running
  BY DEF Ingest, Running
<1>2. Payment[t].to \in Rows
  <2>1. <<t, final>> \in cycle[w].batch /\ <<t, final>>[1] = t
    BY DEF Ingested
  <2>. QED
    BY <2>1 DEF BatchesArePaid
<1>3. PICK p \in Rows : <<AddressOf(t), user>> = <<route[p].address, p[1]>>
  BY DEF Ingested, MapsAreRoutes
<1>. QED
  BY <1>1, <1>2, <1>3 DEF RoutesGuarded, AddressOf

\* A credit goes to the owner of the address.
LEMMA OwnerStep ==
    ASSUME Shapes, RoutesGuarded, MapsAreRoutes, BatchesArePaid, CreditsReachOwner, [Next]_vars
    PROVE  CreditsReachOwner'
<1>1. CASE UNCHANGED <<deposit, posted>>
  BY <1>1 DEF CreditsReachOwner
<1>2. ASSUME NEW w \in Watchers, Ingest(w)
      PROVE  CreditsReachOwner'
  <2>1. PICK t \in Transfers, user \in UserIds, final \in BOOLEAN : Ingested(w, t, user, final)
    BY <1>2, IngestEffect
  <2>2. user = Payment[t].to[1]
    BY <1>2, <2>1, IngestedForOwner
  <2>3. ASSUME NEW s \in Transfers, NEW i \in 1 .. Len(posted'[s])
        PROVE  posted'[s][i].to = Payment[s].to[1]
    <3>1. CASE posted'[s] = posted[s]
      BY <2>3, <3>1 DEF CreditsReachOwner
    <3>2. CASE posted'[s] # posted[s]
      <4>1. s = t
        BY <2>1, <3>2 DEF Ingested, Booked
      <4>2. PICK entry \in Entries : posted'[t] = Append(posted[t], entry) /\ entry.to = user
        BY <2>1, <3>2, <4>1, Zenon DEF Ingested, Booked
      <4>3. posted[t] \in Seq(Entries)
        BY DEF Shapes
      <4>4. \/ i \in 1 .. Len(posted[t]) /\ posted'[t][i] = posted[t][i]
            \/ posted'[t][i] = entry
        BY <2>3, <4>1, <4>2, <4>3
      <4>. QED
        BY <2>2, <4>1, <4>2, <4>4 DEF CreditsReachOwner
    <3>. QED
      BY <3>1, <3>2
  <2>. QED
    BY <2>3 DEF CreditsReachOwner
<1>. QED
  BY <1>1, <1>2, OnlyIngestBooks

\* What makes the owner found the right one.
OwnersInv == Shapes /\ RoutesGuarded /\ MapsAreRoutes /\ BatchesArePaid /\ CreditsReachOwner

LEMMA OwnersInit == Init => OwnersInv
<1>1. ASSUME Init
      PROVE  RoutesGuarded /\ MapsAreRoutes /\ CreditsReachOwner
  BY <1>1 DEF Init, RoutesGuarded, MapsAreRoutes, CreditsReachOwner, Running, Stopped
<1>2. ASSUME Init
      PROVE  BatchesArePaid
  <2>1. \A t \in Transfers : WatcherOf(t) \in Watchers /\ Payment[t].height \in Nat \ {0}
    BY DepositsAssumption DEF WatcherOf, Assets, Watchers, UtxoWatchers, BlockWatchers
  <2>. QED
    BY <1>2, <2>1 DEF Init, BatchesArePaid, Stopped
<1>. QED
  BY <1>1, <1>2, InitShapes DEF OwnersInv

LEMMA OwnersStep == OwnersInv /\ [Next]_vars => OwnersInv'
BY ShapesStep, RoutesGuardedStep, KnowledgeStep, OwnerStep DEF OwnersInv

\* Every deposit entry is its address's owner's: for any routes left by older
\* versions, any provider, and a map read before the batch is written.
THEOREM CreditsGoToTheOwner == Spec => []CreditsReachOwner
<1>1. OwnersInv => CreditsReachOwner
  BY DEF OwnersInv
<1>. QED
  BY <1>1, OwnersInit, OwnersStep, PTL DEF Spec

-----------------------------------------------------------------------------
\* Deposits implement Crediting.

\* What a row says of its transfer, as Crediting sees it.
StageOf(t) == IF deposit[t] = None THEN "unknown" ELSE deposit[t].status
Stages == [t \in Transfers |-> StageOf(t)]

\* A transfer that is booked was not before, and what is booked is its owner's
\* and adds up to what was paid.
LEMMA EntryIsCredit ==
    ASSUME OwnersInv, CreditsAddUp, NEW w \in Watchers, Ingest(w),
           NEW t \in Transfers, NEW user \in UserIds, NEW final \in BOOLEAN,
           Ingested(w, t, user, final), posted'[t] # posted[t]
    PROVE  \E entry \in Credits!Entry(t) : posted' = [posted EXCEPT ![t] = <<entry>>]
<1>1. user = Payment[t].to[1]
  BY IngestedForOwner DEF OwnersInv
<1>2. PICK entry \in Entries :
         /\ posted'[t] = Append(posted[t], entry)
         /\ entry.to = user /\ entry.net \in Nat /\ entry.fee \in Nat
         /\ entry.net + entry.fee = Payment[t].gross
  BY Zenon DEF Ingested, Booked
<1>3. posted[t] = <<>>
  <2>1. ~IsCredited(t)
    BY DEF Ingested, Booked
  <2>2. posted[t] \in Seq(Entries) /\ Len(posted[t]) = 0
    BY <2>1 DEF OwnersInv, Shapes, CreditsAddUp
  <2>. QED
    BY <2>2
<1>4. posted'[t] = <<entry>>
  BY <1>2, <1>3
<1>5. posted' = [posted EXCEPT ![t] = <<entry>>]
  <2>1. posted \in [Transfers -> Seq(Entries)] /\ posted' \in [Transfers -> Seq(Entries)]
    BY IngestShapes DEF OwnersInv, Shapes
  <2>2. \A s \in Transfers : s # t => posted'[s] = posted[s]
    BY DEF Ingested, Booked
  <2>. QED
    BY <1>4, <2>1, <2>2
<1>6. entry \in Credits!Entry(t)
  <2>1. entry.fee \in 0 .. Payment[t].gross /\ entry.net = Payment[t].gross - entry.fee
    BY <1>2, DepositsAssumption
  <2>2. entry = [to |-> Payment[t].to[1], net |-> Payment[t].gross - entry.fee,
                 fee |-> entry.fee]
    BY <1>1, <1>2, <2>1 DEF Entries
  <2>. QED
    BY <2>1, <2>2 DEF Credits!Entry
<1>. QED
  BY <1>5, <1>6

\* Each step sees a payment, credits one, or does neither.
LEMMA CreditingStep ==
    ASSUME OwnersInv, CreditsAddUp, [Next]_vars
    PROVE  (\E t \in Transfers : Credits!See(t) \/ Credits!Credit(t))
           \/ UNCHANGED <<Stages, posted>>
<1>1. CASE UNCHANGED <<deposit, posted>>
  BY <1>1 DEF Stages, StageOf
<1>2. ASSUME NEW w \in Watchers, Ingest(w)
      PROVE  (\E t \in Transfers : Credits!See(t) \/ Credits!Credit(t))
             \/ UNCHANGED <<Stages, posted>>
  <2>1. PICK t \in Transfers, user \in UserIds, final \in BOOLEAN : Ingested(w, t, user, final)
    BY <1>2, IngestEffect DEF OwnersInv
  <2>2. /\ deposit \in [Transfers -> {None} \cup DepositRows]
        /\ deposit' \in [Transfers -> {None} \cup DepositRows]
        /\ posted \in [Transfers -> Seq(Entries)] /\ posted' \in [Transfers -> Seq(Entries)]
    BY <1>2, IngestShapes DEF OwnersInv, Shapes
  <2>3. /\ StageOf(t)' = IF final \/ IsCredited(t) THEN "credited" ELSE "seen"
        /\ IsCredited(t) <=> StageOf(t) = "credited"
        /\ StageOf(t) \in {"unknown", "seen", "credited"}
    <3>1. \A row \in DepositRows : row.status \in {"seen", "credited"}
      BY DEF DepositRows
    <3>2. deposit'[t] # None /\ (IsCredited(t)' <=> final \/ IsCredited(t))
      BY <2>1 DEF Ingested, Booked
    <3>. QED
      BY <2>2, <3>1, <3>2 DEF StageOf, IsCredited
  <2>4. Stages' = [Stages EXCEPT ![t] = StageOf(t)']
    <3>1. \A s \in Transfers : s # t => StageOf(s)' = StageOf(s)
      BY <2>1 DEF Ingested, Booked, StageOf
    <3>. QED
      BY <3>1 DEF Stages
  <2>5. CASE final /\ ~IsCredited(t)
    <3>0. posted'[t] # posted[t]
      BY <2>1, <2>2, <2>5 DEF Ingested, Booked
    <3>1. \E entry \in Credits!Entry(t) : posted' = [posted EXCEPT ![t] = <<entry>>]
      BY <1>2, <2>1, <3>0, EntryIsCredit
    <3>. QED
      BY <2>3, <2>4, <2>5, <3>1 DEF Credits!Credit, Stages, StageOf
  <2>6. CASE ~(final /\ ~IsCredited(t))
    <3>1. posted' = posted
      <4>1. \A s \in Transfers : posted'[s] = posted[s]
        BY <2>1, <2>6 DEF Ingested, Booked
      <4>. QED
        BY <2>2, <4>1
    <3>2. CASE StageOf(t) = "unknown"
      BY <2>3, <2>4, <2>6, <3>1, <3>2 DEF Credits!See, Stages, StageOf
    <3>3. CASE StageOf(t) # "unknown"
      <4>1. StageOf(t)' = StageOf(t)
        BY <2>3, <2>6, <3>3
      <4>. QED
        BY <2>4, <3>1, <4>1 DEF Stages
    <3>. QED
      BY <3>2, <3>3
  <2>. QED
    BY <2>5, <2>6
<1>. QED
  BY <1>1, <1>2, OnlyIngestBooks

\* The four watchers implement Crediting: each payment is credited at most once, to
\* its owner, and never unbooked or booked otherwise, for any users, transfers
\* and settings, and whatever is lost, repeated or restarted.
THEOREM DepositsImplementCrediting == Spec => ImplementsCrediting
<1>. DEFINE Inv == OwnersInv /\ CreditsAddUp
<1>1. Init => Inv /\ Credits!CreditingInit
  BY OwnersInit DEF Init, CreditsAddUp, IsCredited, Credits!CreditingInit
<1>2. Inv /\ [Next]_vars => Inv'
  BY OwnersStep, CreditsStep DEF OwnersInv
<1>3. Inv /\ [Next]_vars => [Credits!CreditingNext]_<<Stages, posted>>
  BY CreditingStep DEF Credits!CreditingNext
<1>. QED
  BY <1>1, <1>2, <1>3, PTL DEF Spec, ImplementsCrediting, Credits!CreditingSpec, Stages, StageOf
=============================================================================
