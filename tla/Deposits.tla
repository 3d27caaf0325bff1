------------------------------ MODULE Deposits ------------------------------
(***************************************************************************)
(* The deposit watchers: one process per chain that reads blocks or        *)
(* addresses, credits what was paid to a deposit route, keeps a cursor     *)
(* and reports its health (run_*_watcher.py, watchers/, infra/             *)
(* chain_adapters/, WalletService.credit_deposit_if_confirmed,             *)
(* watcher_status_service.py).                                             *)
(*                                                                         *)
(* A transfer is known by its unique_key.  Every credit is a transaction   *)
(* of its own, and so is the cursor: a crash falls between them.  Chains   *)
(* grow and do not reorganise.  Processes are restarted (Restart=always).  *)
(* faults counts what goes wrong, up to MaxFaults.                         *)
(***************************************************************************)
EXTENDS DepositRoutes, FiniteSets, Sequences

CONSTANTS
    Transfers,         \* payments to deposit addresses
    Payment,           \* .to a pair of Wanted, .asset, .height, .gross
    Confirmations,     \* watcher -> blocks its adapter waits for
    MaxBlocksPerRun,   \* ETH_MAX_BLOCKS_PER_RUN, SOL_MAX_SLOTS_PER_RUN
    Redeployments,     \* bound: the pairs of settings one may follow another
    LastBlock,         \* bound: blocks a chain grows by
    MaxFaults          \* bound: failures, crashes and redeployments

UtxoWatchers == {"btc_watcher", "ltc_watcher"}
BlockWatchers == {"eth_watcher", "sol_watcher"}
Watchers == UtxoWatchers \cup BlockWatchers

\* The assets each program asks monitored_deposit_address_map for.
WatchedAssets(w) ==
    CASE w = "btc_watcher" -> {"BTC"}
      [] w = "ltc_watcher" -> {"LTC"}
      [] w = "eth_watcher" -> {"ETH", "USDT"}
      [] w = "sol_watcher" -> {"SOL"}

DepositRows == [status : {"seen", "credited"}, fee : Int, net : Int]

ASSUME DepositsAssumption ==
    /\ None \notin DepositRows /\ None \notin Nat
    /\ \A t \in Transfers :
          /\ Payment[t].to \in Wanted
          /\ Payment[t].asset \in Assets
          /\ ChainFamily(Payment[t].asset) = ChainFamily(Payment[t].to[2])
          /\ Payment[t].height \in Nat \ {0} /\ Payment[t].gross \in Nat \ {0}
    /\ Confirmations \in [Watchers -> Nat]
    /\ MaxBlocksPerRun \in Nat \ {0} /\ LastBlock \in Nat /\ MaxFaults \in Nat
    /\ \A e \in Environments :
          e.percent \in Int /\ e.units \subseteq Watchers /\ e.enabled \subseteq e.units
    /\ Redeployments \subseteq Environments \X Environments

VARIABLES
    head,      \* the height of each watcher's chain
    deposit,   \* deposits: the row of a transfer
    posted,    \* ledger_entries: what was booked for a transfer
    told,      \* the last notice about a transfer its user was sent
    cycle,     \* each process: where it is, its address map and its batch
    cursor,    \* watcher_status.cursor
    health,    \* watcher_status.health_state
    missed,    \* history: what the cursor passed without an ingest
    faults     \* bound: counts failures

bookVars == <<deposit, posted, told>>
routeVars == <<route, env, bot>>
statusVars == <<cursor, health>>
vars == <<route, env, bot, head, deposit, posted, told, cycle, cursor, health, missed, faults>>

AddressOf(t) == route[Payment[t].to].address
WatcherOf(t) ==
    CASE Payment[t].asset = "BTC" -> "btc_watcher"
      [] Payment[t].asset = "LTC" -> "ltc_watcher"
      [] Payment[t].asset \in {"ETH", "USDT"} -> "eth_watcher"
      [] Payment[t].asset = "SOL" -> "sol_watcher"

Stopped == [at |-> "down", map |-> {}, batch |-> {}, upto |-> None, skipped |-> {}]
Idle == [Stopped EXCEPT !.at = "idle"]

Fails == faults < MaxFaults /\ faults' = faults + 1

-----------------------------------------------------------------------------
\* Crediting.

\* Half up to the asset's quantum, and never below nothing or above the gross.
DepositPlatformFee(gross) ==
    LET fee == (2 * gross * env.percent + 100) \div 200
    IN  IF fee < 0 THEN 0 ELSE IF fee > gross THEN gross ELSE fee

\* The row that credit_deposit_if_confirmed writes, new or not.
DepositRow(t, status) ==
    LET fee == DepositPlatformFee(Payment[t].gross)
    IN  [status |-> status, fee |-> fee, net |-> Payment[t].gross - fee]

IsCredited(t) == deposit[t] # None /\ deposit[t].status = "credited"

\* A wrong variant: the row's status is not looked at.
CreditAgain(t, user, finalized) ==
    /\ deposit' = [deposit EXCEPT ![t] = DepositRow(t, IF finalized THEN "credited" ELSE "seen")]
    /\ posted' = IF finalized
                 THEN [posted EXCEPT ![t] = Append(@, [to |-> user, net |-> deposit'[t].net,
                                                       fee |-> deposit'[t].fee])]
                 ELSE posted

\* A wrong variant: the entries follow the amounts that are written again.
CreditRewritten(t, user, finalized) ==
    LET row == DepositRow(t, IF finalized \/ IsCredited(t) THEN "credited" ELSE "seen")
    IN  /\ deposit' = [deposit EXCEPT ![t] = row]
        /\ posted' = IF row.status = "credited"
                     THEN [posted EXCEPT ![t] = <<[to |-> user, net |-> row.net, fee |-> row.fee]>>]
                     ELSE posted

\* credit_deposit_if_confirmed: one transaction.  A credited row stays credited,
\* and its amounts are written again at today's percentage.
CreditIfConfirmed(t, user, finalized) ==
    LET row == DepositRow(t, IF finalized \/ IsCredited(t) THEN "credited" ELSE "seen")
    IN  /\ deposit' = [deposit EXCEPT ![t] = row]
        /\ posted' = IF finalized /\ ~IsCredited(t)
                     THEN [posted EXCEPT ![t] =
                             Append(@, [to |-> user, net |-> row.net, fee |-> row.fee])]
                     ELSE posted

Detected == <<>>

\* A wrong variant: every watcher says the gross amount was credited.
GrossNotice(t, finalized, w) ==
    CASE finalized /\ ~IsCredited(t) -> {<<Payment[t].gross>>}
      [] ~finalized /\ deposit[t] = None -> {Detected}
      [] OTHER -> {}

\* What run_once sends: a credit, or a first sight of an unconfirmed one.  The
\* UTXO watchers say the gross amount was credited.
Notice(t, finalized, w) ==
    CASE finalized /\ ~IsCredited(t) ->
            {<<IF w \in UtxoWatchers THEN Payment[t].gross
               ELSE DepositRow(t, "credited").net>>}
      [] ~finalized /\ deposit[t] = None -> {Detected}
      [] OTHER -> {}

-----------------------------------------------------------------------------
\* The chain.

\* A block is added.  Nobody pays to an address that was never handed out; what
\* a chain does while nobody watches it is done when it is watched again.
ChainGrows(w) ==
    /\ head[w] < LastBlock /\ w \in env.enabled
    /\ \A t \in Transfers :
          WatcherOf(t) = w /\ Payment[t].height = head[w] + 1 => Payment[t].to \in Rows
    /\ head' = [head EXCEPT ![w] = @ + 1]
    /\ UNCHANGED <<routeVars, bookVars, cycle, statusVars, missed, faults>>

Watching(w, t) == \E user \in UserIds : <<AddressOf(t), user>> \in cycle[w].map

\* A wrong variant: the confirmations are not waited for.
UnfinalizedHead(w) == head[w]

\* _finalized_head.  For Solana the head is the finalized slot.
FinalizedHead(w) == IF head[w] > Confirmations[w] THEN head[w] - Confirmations[w] ELSE 0

\* _load_cursor, with a start block of 0.
LoadCursor(w) == IF cursor[w] = None THEN 0 ELSE cursor[w]

\* What may be found in a range of blocks.  A block the node answers null for
\* costs its ether, but not its tokens, which come from the logs of the range.
EthBlocks(range) ==
    {range \ {t \in range : Payment[t].asset = "ETH" /\ Payment[t].height = h} :
        h \in 1 .. LastBlock}
    \cup {{t \in range : Payment[t].asset = "ETH"}}
    \cup {range}

\* A slot that is answered null costs its transfers.
SolBlocks(range) ==
    {{t \in range : Payment[t].height # h} : h \in 1 .. LastBlock} \cup {range}

ReadBlocks(w, range) == IF w = "eth_watcher" THEN EthBlocks(range) ELSE SolBlocks(range)

-----------------------------------------------------------------------------
\* One cycle.

\* _address_map; an ambiguous one fails the cycle.
LoadMap(w) ==
    /\ cycle[w].at = "idle"
    /\ IF Unambiguous(WatchedAssets(w))
       THEN /\ cycle' = [cycle EXCEPT ![w].at = "mapped",
                                      ![w].map = MonitoredAddresses(WatchedAssets(w))]
            /\ UNCHANGED health
       ELSE health' = [health EXCEPT ![w] = "transient_failure"] /\ UNCHANGED cycle
    /\ UNCHANGED <<routeVars, head, bookVars, cursor, missed, faults>>

Fetched(w, batch, upto, skipped) ==
    cycle' = [cycle EXCEPT ![w].at = "ingesting", ![w].batch = batch,
                           ![w].upto = upto, ![w].skipped = skipped]

Paid(w) == {t \in Transfers : /\ Payment[t].to \in Rows
                              /\ WatcherOf(t) = w /\ Watching(w, t)}

\* A wrong variant: the answer's confirmations are not found.
UtxoFetchUnconfirmed(w) ==
    /\ cycle[w].at = "mapped"
    /\ Fetched(w, {<<t, FALSE>> : t \in {p \in Paid(w) : Payment[p].height <= head[w]}}, None, {})
    /\ UNCHANGED <<routeVars, head, bookVars, statusVars, missed, faults>>

\* BlockstreamUtxoAdapter.fetch_deposits: every output of every watched address,
\* in every cycle, of the mempool too, unless a source leaves some out.
UtxoFetchDeposits(w) ==
    /\ cycle[w].at = "mapped"
    /\ LET Mined == {t \in Paid(w) : Payment[t].height <= head[w]}
           Mempool == {t \in Paid(w) : Payment[t].height = head[w] + 1}
           Final(t) == head[w] + 1 - Payment[t].height >= Confirmations[w]
       IN  \E absent \in SUBSET Mined, pending \in SUBSET Mempool :
              /\ IF absent = {} THEN UNCHANGED faults ELSE Fails
              /\ Fetched(w, {<<t, Final(t)>> : t \in (Mined \ absent) \cup pending}, None, {})
    /\ UNCHANGED <<routeVars, head, bookVars, statusVars, missed>>

\* The last block of a run, the transfers of its blocks, and those to an address
\* of the map.
LastRead(w) ==
    IF FinalizedHead(w) < LoadCursor(w) + MaxBlocksPerRun
    THEN FinalizedHead(w) ELSE LoadCursor(w) + MaxBlocksPerRun

Scanned(w) ==
    {t \in Transfers : WatcherOf(t) = w /\ Payment[t].height \in LoadCursor(w) + 1 .. LastRead(w)}

FoundIn(w, read) == {t \in read : Watching(w, t)}

\* EthRpcAdapter.fetch_deposits and SolRpcAdapter.fetch_deposits.  A node that
\* answers the head with an error has a head of 0, and the cursor follows it.
BlockFetchDeposits(w) ==
    /\ cycle[w].at = "mapped"
    /\ \/ /\ FinalizedHead(w) <= LoadCursor(w)
          /\ Fetched(w, {}, FinalizedHead(w), {})
          /\ UNCHANGED faults
       \/ Fetched(w, {}, 0, {}) /\ Fails
       \/ /\ FinalizedHead(w) > LoadCursor(w)
          /\ \E read \in ReadBlocks(w, Scanned(w)) :
                /\ IF read = Scanned(w) THEN UNCHANGED faults ELSE Fails
                /\ Fetched(w, {<<t, TRUE>> : t \in FoundIn(w, read)}, LastRead(w),
                           Scanned(w) \ FoundIn(w, read))
    /\ UNCHANGED <<routeVars, head, bookVars, statusVars, missed>>

\* A wrong variant: the first user of the table is credited.
IngestForFirst(w) ==
    /\ cycle[w].at = "ingesting"
    /\ \E d \in cycle[w].batch :
          /\ CreditIfConfirmed(d[1], CHOOSE u \in UserIds : TRUE, d[2])
          /\ told' = told
          /\ cycle' = [cycle EXCEPT ![w].batch = @ \ {d}]
    /\ UNCHANGED <<routeVars, head, statusVars, missed, faults>>

\* One deposit of the batch is written, and its notice sent or lost.
Ingest(w) ==
    /\ cycle[w].at = "ingesting"
    /\ \E d \in cycle[w].batch, user \in UserIds :
          LET t == d[1]
          IN  /\ <<AddressOf(t), user>> \in cycle[w].map
              /\ CreditIfConfirmed(t, user, d[2])
              /\ \E notice \in Notice(t, d[2], w) \cup {told[t]} :
                    told' = [told EXCEPT ![t] = notice]
              /\ cycle' = [cycle EXCEPT ![w].batch = @ \ {d}]
    /\ UNCHANGED <<routeVars, head, statusVars, missed, faults>>

\* The ETH and SOL watchers log a deposit they fail to write, and go on.
IngestFails(w) ==
    /\ w \in BlockWatchers /\ cycle[w].at = "ingesting" /\ Fails
    /\ \E d \in cycle[w].batch :
          cycle' = [cycle EXCEPT ![w].batch = @ \ {d}, ![w].skipped = @ \cup {d[1]}]
    /\ UNCHANGED <<routeVars, head, bookVars, statusVars, missed>>

\* A wrong variant: the cursor is written before the deposits.
WriteCursorFirst(w) ==
    /\ w \in BlockWatchers /\ cycle[w].at = "ingesting"
    /\ cursor' = [cursor EXCEPT ![w] = cycle[w].upto]
    /\ health' = [health EXCEPT ![w] = IF @ = None THEN "ok" ELSE @]
    /\ missed' = missed \cup cycle[w].skipped
    /\ cycle' = IF cycle[w].batch = {} THEN [cycle EXCEPT ![w].at = "done"] ELSE cycle
    /\ UNCHANGED <<routeVars, head, bookVars, faults>>

\* write_watcher_cursor and the commit of run_once.
WriteCursor(w) ==
    /\ w \in BlockWatchers /\ cycle[w].at = "ingesting" /\ cycle[w].batch = {}
    /\ cursor' = [cursor EXCEPT ![w] = cycle[w].upto]
    /\ health' = [health EXCEPT ![w] = IF @ = None THEN "ok" ELSE @]
    /\ missed' = missed \cup cycle[w].skipped
    /\ cycle' = [cycle EXCEPT ![w].at = "done"]
    /\ UNCHANGED <<routeVars, head, bookVars, faults>>

\* upsert_watcher_status(success) and the sleep.
ReportSuccess(w) ==
    /\ \/ cycle[w].at = "done"
       \/ w \in UtxoWatchers /\ cycle[w].at = "ingesting" /\ cycle[w].batch = {}
    /\ health' = [health EXCEPT ![w] = "ok"]
    /\ cycle' = [cycle EXCEPT ![w] = Idle]
    /\ UNCHANGED <<routeVars, head, bookVars, cursor, missed, faults>>

\* A wrong variant: the next cycle begins with what is left of the batch.
CycleFailsKeepingBatch(w) ==
    /\ cycle[w].at \in {"mapped", "ingesting"} /\ Fails
    /\ health' = [health EXCEPT ![w] = "transient_failure"]
    /\ cycle' = [cycle EXCEPT ![w].at = "idle"]
    /\ UNCHANGED <<routeVars, head, bookVars, cursor, missed>>

\* An exception of the cycle: what was committed stays.
CycleFails(w) ==
    /\ cycle[w].at \in {"mapped", "ingesting"} /\ Fails
    /\ health' = [health EXCEPT ![w] = "transient_failure"]
    /\ cycle' = [cycle EXCEPT ![w] = Idle]
    /\ UNCHANGED <<routeVars, head, bookVars, cursor, missed>>

-----------------------------------------------------------------------------
\* Processes.

\* A wrong variant: a blocked start leaves no trace.
StartWatcherSilently(w) ==
    /\ cycle[w].at = "down" /\ w \in env.units
    /\ route' = StampedRoutes
    /\ cycle' = [cycle EXCEPT ![w] =
                   IF w \in env.enabled /\ PreflightPasses THEN Idle ELSE Stopped]
    /\ UNCHANGED health
    /\ UNCHANGED <<env, bot, head, bookVars, cursor, missed, faults>>

\* main up to its loop.  A disabled watcher says so and exits; a preflight that
\* fails is recorded, unless init_db fails again while that is done.
StartWatcher(w) ==
    /\ cycle[w].at = "down" /\ w \in env.units
    /\ route' = StampedRoutes
    /\ CASE w \notin env.enabled ->
              /\ health' = [health EXCEPT ![w] = IF RouteIntegrity THEN "disabled" ELSE @]
              /\ UNCHANGED cycle
         [] w \in env.enabled /\ PreflightPasses ->
              /\ cycle' = [cycle EXCEPT ![w] = Idle]
              /\ UNCHANGED health
         [] OTHER ->
              /\ health' = [health EXCEPT ![w] =
                              IF RouteIntegrity THEN "fatal_startup_blocked" ELSE @]
              /\ UNCHANGED cycle
    /\ UNCHANGED <<env, bot, head, bookVars, cursor, missed, faults>>

\* _check_sol_watcher_ready: a node that is not healthy is fatal as well.
SolNodeUnhealthy ==
    /\ cycle["sol_watcher"].at = "down" /\ "sol_watcher" \in env.enabled /\ Fails
    /\ route' = StampedRoutes
    /\ health' = [health EXCEPT !["sol_watcher"] =
                    IF RouteIntegrity THEN "fatal_startup_blocked" ELSE @]
    /\ UNCHANGED <<env, bot, head, bookVars, cycle, cursor, missed>>

\* A process is killed, wherever it is.
Crash(w) ==
    /\ cycle[w].at # "down" /\ Fails
    /\ cycle' = [cycle EXCEPT ![w] = Stopped]
    /\ UNCHANGED <<routeVars, head, bookVars, statusVars, missed>>

\* Everything is stopped and started with other settings.
Redeploy ==
    /\ Fails
    /\ \E change \in Redeployments : env = change[1] /\ env' = change[2]
    /\ bot' = "down"
    /\ cycle' = [w \in Watchers |-> Stopped]
    /\ UNCHANGED <<route, head, bookVars, statusVars, missed>>

UtxoRunOnce(w) ==
    UtxoFetchDeposits(w) \/ Ingest(w)

BlockRunOnce(w) ==
    BlockFetchDeposits(w) \/ Ingest(w) \/ IngestFails(w) \/ WriteCursor(w)

EthRunOnce == BlockRunOnce("eth_watcher")
SolRunOnce == BlockRunOnce("sol_watcher")

\* The four programs.
Main(w) == StartWatcher(w) \/ LoadMap(w) \/ ReportSuccess(w) \/ CycleFails(w)
BtcWatcher == Main("btc_watcher") \/ UtxoRunOnce("btc_watcher")
LtcWatcher == Main("ltc_watcher") \/ UtxoRunOnce("ltc_watcher")
EthWatcher == Main("eth_watcher") \/ EthRunOnce
SolWatcher == Main("sol_watcher") \/ SolNodeUnhealthy \/ SolRunOnce

Bot ==
    /\ \/ StartBot
       \/ StopBot
       \/ \E p \in Wanted : GetOrCreateDepositAddress(p[1], p[2])
    /\ UNCHANGED <<head, bookVars, cycle, statusVars, missed, faults>>

Init ==
    /\ route \in LegacyRoutes
    /\ env \in Environments
    /\ bot = "down"
    /\ head = [w \in Watchers |-> 0]
    /\ deposit = [t \in Transfers |-> None]
    /\ posted = [t \in Transfers |-> <<>>]
    /\ told = [t \in Transfers |-> None]
    /\ cycle = [w \in Watchers |-> Stopped]
    /\ cursor = [w \in Watchers |-> None]
    /\ health = [w \in Watchers |-> None]
    /\ missed = {}
    /\ faults = 0

Next ==
    \/ Bot
    \/ BtcWatcher
    \/ LtcWatcher
    \/ EthWatcher
    \/ SolWatcher
    \/ Redeploy
    \/ \E w \in Watchers : ChainGrows(w) \/ Crash(w)

\* systemd restarts every program, the loops do not end, and chains grow.
Fairness ==
    /\ WF_vars(BtcWatcher) /\ WF_vars(LtcWatcher)
    /\ WF_vars(EthWatcher) /\ WF_vars(SolWatcher)
    /\ \A w \in Watchers : WF_vars(ChainGrows(w))

Spec == Init /\ [][Next]_vars
FairSpec == Spec /\ Fairness

-----------------------------------------------------------------------------
\* What an operator is shown (watcher_status_service.py, bot.py).

Blocked(h) == h = "fatal_startup_blocked"
Degraded(h) == h \in {"degraded", "transient_failure"}

\* map_operator_health_state.
OperatorState(ready, blocked, disabled, degraded) ==
    CASE blocked -> "blocked"
      [] ~blocked /\ disabled -> "disabled"
      [] ~blocked /\ ~disabled /\ ready /\ ~degraded -> "ready"
      [] OTHER -> "degraded"

\* The line of /watcher_status: a row that is missing counts as disabled, and so
\* does a watcher the settings disable, whatever its row says.
ShownState(w) ==
    OperatorState(health[w] = "ok" /\ w \in env.enabled,
                  Blocked(health[w]),
                  health[w] \in {None, "disabled"} \/ w \notin env.enabled,
                  Degraded(health[w]))

-----------------------------------------------------------------------------
\* Properties.

Running == bot # "down" \/ \E w \in Watchers : cycle[w].at # "down"

\* The types of the variables, and what a process's place says of its cycle.
DepositsTypeOK ==
    /\ env \in Environments /\ bot \in {"down", "degraded", "issuing"}
    /\ head \in [Watchers -> 0 .. LastBlock]
    /\ \A t \in Transfers :
          /\ deposit[t] # None => deposit[t].status \in {"seen", "credited"}
          /\ told[t] \in {None, Detected} \/ told[t][1] \in 0 .. Payment[t].gross
    /\ \A w \in Watchers :
          /\ cycle[w].at \in {"down", "idle", "mapped", "ingesting", "done"}
          /\ cycle[w].batch # {} => cycle[w].at = "ingesting"
          /\ cycle[w].upto # None => w \in BlockWatchers
    /\ health \in [Watchers -> {None, "ok", "transient_failure",
                                "fatal_startup_blocked", "disabled"}]
    /\ faults \in 0 .. MaxFaults

\* A transfer is booked once if its row is credited and never otherwise, and its
\* two entries add up to what was paid, however often a cycle, a restart, a
\* cursor gone back or a changed percentage brings the transfer again.
CreditsAddUp ==
    \A t \in Transfers :
       /\ Len(posted[t]) = IF IsCredited(t) THEN 1 ELSE 0
       /\ \A i \in 1 .. Len(posted[t]) :
             /\ posted[t][i].net \in Nat /\ posted[t][i].fee \in Nat
             /\ posted[t][i].net + posted[t][i].fee = Payment[t].gross

\* The credit goes to the user the address was issued to, not to whoever the
\* table of routes may name for it.
CreditsReachOwner ==
    \A t \in Transfers : \A i \in 1 .. Len(posted[t]) :
       posted[t][i].to = Payment[t].to[1]

\* While any service runs, an address belongs to one user: what the preflight
\* refused, the triggers keep out.
OneOwnerPerAddress ==
    Running => \A p, q \in Rows : route[p].address = route[q].address => p[1] = q[1]

\* While any service runs on a seed, every address handed out by any version
\* under any settings is one that seed can spend from.
RoutesMatchSeed ==
    Running /\ env.mode \in SeedModes =>
       \A p \in Rows : route[p].address = Derive(env.seed, p[1], p[2])

\* A cursor never passes a transfer unless it was credited, or its block was not
\* answered, or its own write failed: no crash between the two commits loses one.
ScannedTransfersAreCredited ==
    \A t \in Transfers :
       LET w == WatcherOf(t)
       IN  w \in BlockWatchers /\ cursor[w] # None /\ Payment[t].height <= cursor[w]
              => IsCredited(t) \/ t \in missed

\* A cursor never stands on a block that has fewer confirmations than asked for.
CursorIsFinal ==
    \A w \in BlockWatchers :
       cursor[w] # None /\ cursor[w] > 0 => cursor[w] + Confirmations[w] <= head[w]

\* A user who is told of a credit has it, and by the account watchers is told
\* exactly the amount the ledger shows.
ToldWhatWasBooked ==
    \A t \in Transfers : told[t] \notin {None, Detected} =>
       /\ Len(posted[t]) = 1
       /\ WatcherOf(t) \in BlockWatchers => told[t] = <<posted[t][1].net>>

\* What was paid to a route is credited in the end, through crashes, failing
\* cycles and restarts, unless it was passed over or the operator stands in the
\* way with a watcher turned off or routes no preflight accepts.
PaymentsAreCredited ==
    []<>\A t \in Transfers :
           LET w == WatcherOf(t)
           IN  head[w] >= Payment[t].height
                  => \/ IsCredited(t) \/ t \in missed
                     \/ w \notin env.enabled \/ ~PreflightPasses

\* The docs' promise for ADDRESS_PROVIDER=http, which the code does not keep: the
\* routes the provider issued do not keep the services from starting.
ProviderRoutesPassPreflight ==
    (/\ env.mode = "external_http" /\ RouteIntegrity
     /\ \A p \in Rows : route[p].origin = "external_http")
       => PreflightPasses

\* A watcher that cannot start for its routes does not stay shown as ready.
FailureIsShown ==
    []<>\A w \in {"btc_watcher", "eth_watcher", "sol_watcher"} :
           cycle[w].at = "down" /\ w \in env.enabled /\ ~PreflightPasses
              => ShownState(w) # "ready"

\* The rows and the ledger as a crediting of payments.
Credits == INSTANCE Crediting WITH
              Payments <- Transfers,
              Owner <- [t \in Transfers |-> Payment[t].to[1]],
              Gross <- [t \in Transfers |-> Payment[t].gross],
              stage <- [t \in Transfers |->
                           IF deposit[t] = None THEN "unknown" ELSE deposit[t].status],
              credits <- posted

\* The watchers implement Crediting: through lost answers, crashes between two
\* commits, cursors gone back and new settings, a row is never unseen or
\* uncredited, and what is in the ledger stays as it was booked, even when
\* credit_deposit_if_confirmed writes the row's amounts again.
ImplementsCrediting == Credits!CreditingSpec

=============================================================================
