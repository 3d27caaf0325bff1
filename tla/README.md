# EscrowHub in TLA+

EscrowHub is a Telegram bot that holds money in escrow between a buyer and a
seller. Balances are rows of a ledger in one SQLite database. Four kinds of
process write to it: the bot, one watcher per chain, the signer that sends
withdrawals, and the scripts of an operator. This directory holds TLA+ models
of its parts, the TLC runs that check them, and theorems about them that TLAPS
checks. `PROJECT.json` lists the runs, the mutants that show each property can
fail, the lines each definition models, the findings, the hazards and the
theorems.

Source paths below are relative to the repository's root.

## Inventory

| Part | State | Operations | What makes it correct |
|---|---|---|---|
| Fees (`fee_service.py`) | none | two fees and a payout, each rounded to 0.01 | the parts of a settlement add up to the amount |
| Escrow service (`escrow_service.py`) | `escrows`, `disputes`, `escrow_events`, `admin_actions` | create, accept, release, dispute, cancel, mutual cancel, resolve | a deal is settled once, by whom it may be, and never moves again |
| Locks and ledger (`wallet_service.py`, `ledger_service.py`) | `escrow_locks`, `ledger_entries` | lock, release, unlock, add an entry, sum a balance | funds are locked exactly while a deal is open; rows of a deal balance; nobody is overdrawn |
| Tenants (`tenant_service.py`) | `bots`, `users` | create or change a bot | its fee is at most 3 %, and a change does not unbalance open deals |
| Mutual cancel (`bot.py` 3185-3346) | `active_cancel_requests` | request, accept, decline | the two parties agreed, in the same request |
| Dispute conversation (`bot.py` 3349-3651) | `user_data`, in memory | prompt, reason, confirm, resolve | the reason is the deal's; a dispute comes to an end |
| Other deal conversations (`bot.py`) | `user_data`, `users.frozen`, `reviews` | draft a deal, list, rate, recover, freeze | a draft is confirmed as it was shown; one review for each party |
| Withdrawals (`wallet_service.py` 760-1200) | `withdrawals`, ledger | request, reserve, mark, settle fees | a reservation ends as a payment or a release, never both |
| Signer (`signer/`, `run_signer.py`) | none of its own | execute, reconcile, one commit a cycle | nothing is paid twice; an unclear outcome keeps its reservation |
| Provider (`withdrawal_provider_service/app.py`) | its own database | execute, reconcile, an operator's update | one payment per idempotency key |
| Deposits (`wallet_service.py` 570-650) | `deposits`, ledger | credit when confirmed | a transfer is credited once, and every transfer is |
| Watchers (`watchers/`, `infra/chain_adapters/`) | `watcher_status.cursor` | read blocks, ingest, advance | no block is skipped |
| Deposit routes (`wallet_service.py` 329-570, `address_provider.py`) | `wallet_addresses` | issue, verify, fail closed | one address never leads to two users |
| Rate limiter (`bot.py` 117-160) | `rate_limit_events` | count, prune, record | at most `limit` events in a window |
| Status and readiness | `watcher_status` | report success or failure | a fault shows |
| Prices (`price_service.py`) | a cache | look up, fall back | a deal is worth its minimum |

How they interact. The handlers of `bot.py` open a connection for each update,
call the services on it and close it. The escrow service calls the wallet's
locks, which call the ledger, inside one write transaction. Watchers and the
signer are processes of their own which meet the bot only in the database; the
signer calls the provider over HTTP with its transaction open. `Settings` is
read from the environment when a process starts.

What is hard here. Buttons stay on a user's screen after the deal has moved on,
so any operation may be attempted in any state, by either party, twice.
Tenants change fee and owner under open deals. Three ways of ending a deal
compete for one lock. The conversation state is in memory and is lost in a
restart. Money is split by a rounding arithmetic whose quantum is 0.01 of any
asset. Between signer, provider and operator the same withdrawal may be sent,
reconciled, failed and requeued at once. A watcher reads a map of addresses, then
a chain, then writes in two transactions, and may stop between any two; its API may
answer for less than it was asked. `PROJECT.json` lists these hazards at
their lines, those no property covers yet included.

## Modules

| Module | What it is |
|---|---|
| `Fees` | the arithmetic of `fee_service.py`, as operators |
| `Custody` | abstract: a stake is taken once and handed out once, whole |
| `Escrow` | escrow service, locks, ledger entries, tenants, mutual cancel |
| `DisputeFlow` | the dispute conversation and the moderators, over `Escrow` |
| `Payout` | abstract: a charge ends as a payment or comes back, to the last unit |
| `Withdrawals` | a withdrawal's row and ledger entries, and each mark of the wallet, as operators |
| `Provider` | the provider's records and its answers |
| `Signer` | withdrawals from request to outcome: users, cycles, admins, over `Withdrawals` and `Provider` |
| `Crediting` | abstract: a payment is credited once, to its owner, and its credit stays as booked |
| `DepositRoutes` | deposit addresses: issue, triggers, preflight, the map the watchers read |
| `Deposits` | the four watchers, crediting, cursors and health, over `DepositRoutes` |
| `Conversations` | the draft of a deal, the withdrawal conversation, `/recover`, frozen accounts, ratings |
| `MCFees`, `MCEscrow`, `MCDisputeFlow`, `MCSigner`, `MCDeposits`, `MCConversations` | instances for TLC |
| `FeesProofs`, `MCFeesProofs` | theorems about the fee arithmetic |
| `EscrowProofs`, `EscrowBooksProofs` | theorems about escrow, its books and balances |
| `DisputeFlowProofs` | theorems about the dispute conversation |
| `SignerProofs` | theorems about withdrawals |
| `DepositsProofs` | theorems about deposits and their routes |
| `ConversationsProofs` | theorems about the conversations |

A few definitions are introduced by "A wrong variant". No specification uses
them: each is the definition that follows it with a plausible mistake in it,
and a property of a run that fails with the mistake is a property about the code.

### Fees

An amount is a number of the asset's smallest units and `Cent` is how many
make 0.01 of the asset: 10^6 for Bitcoin, and 10 or 20 in the runs.
`Money` is `_money`, which rounds half up to whole cents. Python's `Decimal`
carries 28 digits, so everything before the rounding is exact. The platform's
percentage comes from the environment unchecked; `FeesAssumption` asks only that
the percentages together stay under a half, so that a payout is not negative.

### Escrow

The variables are the tables: `tenant` is `bots`, `escrow` is `escrows`, `lock`
is `escrow_locks`, `cancelRequest` is `active_cancel_requests`, `disputes`
counts the rows of a deal in `disputes` by status. Ledger rows are kept as two
sums, which is all the code ever takes of them: `posted`, by deal and entry
type, and `net`, by account. A row that does not exist has the status "none".

| Action | Code |
|---|---|
| `CreateEscrow`, with `MeetsMinimum`, `LockForEscrow` | `create_escrow`, `lock_for_escrow` |
| `AcceptEscrow` | `accept_escrow` |
| `Release`, with `ReleaseEscrow` | `release`, `release_escrow` |
| `Dispute` | `dispute` |
| `CancelEscrow`, with `CancelEscrowLock` | `cancel_escrow`, `cancel_escrow_lock` |
| `CancelEscrowMutual` | `cancel_escrow_mutual`, reached through `AcceptCancel` |
| `RequestCancel`, `AcceptCancel`, `DeclineCancel` | the two handlers of mutual cancel |
| `ResolveDispute`, with `SplitEscrow`, `CloseDisputes` | `resolve_dispute` |
| `CreateOrUpdateTenant` | `create_or_update_tenant` |

One operation is one action because it is one transaction: each takes SQLite's
write lock (`BEGIN IMMEDIATE`, or a savepoint in the caller's transaction)
before it reads the row it decides on, and commits or rolls back all of it.
`_services` commits its migrations, so a handler's operation begins its own
transaction. The mutual-cancel handlers read and write without `BEGIN
IMMEDIATE`; they are atomic because the bot is one process (README.md, "Run each
service separately") which handles one update at a time and awaits nothing
between the check and the write. A raised exception leaves nothing behind and is
no step. A crash between two operations loses nothing the model keeps in
`Escrow`; in `DisputeFlow` it is `Restart`.

Any user may try anything at any moment, which is what old buttons allow. The
guards are those of the service, not of the buttons: a handler that looks at the
row first only refuses earlier.

One asset is followed. A deal's lock, entries and balance checks all carry the
deal's own asset, so several assets are several copies of the model that share
the tenants. Not in the model: descriptions, events, audit rows and listings,
which no operation reads to decide anything; and the rounding of an asset's
units in the user interface.

### DisputeFlow

`awaiting`, `prompted` and `pending` are the keys `awaiting_dispute_reason`,
`dispute_escrow_id` and `pending_dispute` of a user's `user_data`; the reason
text is known by the deal whose prompt it answered. `PromptDispute`,
`TypeReason`, `Submit`, `PressResolve` are the four handlers, `ClearFlow` is
`_clear_interactive_state`, which leaves `pending_dispute` where it is, and
`Restart` is the crash or restart of the bot. `Submit` drops the pending reason
before it looks at anything else, as the handler does, so a rate-limited or
late press uses it up. A moderator's press is let in by the Telegram id and then
judged by the internal id: `TelegramId` relates the two, and `refused` notes
that a press ended in `PermissionError`, so that a press that only fails is a
step too.

### Withdrawals, Provider, Signer

`db` is the committed table `withdrawals`, each row with the sums of its ledger
entries by type, which is how the code asks whether a fee is booked. A mark of
the wallet is a function of a row, for it writes the row it finds by id, not the
one its caller read: `MarkBroadcasted` and its like in `Withdrawals`. `record` is
the provider's own database. The key and the `provider_ref` of a withdrawal are
functions of its row, so both are the row's number here, and the refusals of
keys, refs, origins and assets that differ are left out because they cannot.

A process (the daemon of `run_signer.py`, the bot with `/run_signer` and the
admin commands) reads, calls the provider and marks. Reads take no lock. The
first write takes SQLite's write lock, which the process keeps, over further
HTTP calls, until it commits: `writer` is that process and `work` what it sees.
`session` is where each process is: the rows still to do and the answer of the
call that has returned. A call and the mark that follows it are two steps, with
the steps of everyone else between them.

| Action | Code |
|---|---|
| `RequestWithdrawal` | `request_withdrawal` |
| `StartCycle`, `BeginReconcile`, `CommitCycle` | `process_withdrawals` in the loop of `run_signer.py`, and `/run_signer` |
| `CallExecute`, `MarkExecuted` | `_execute_single` up to the answer, and after it |
| `CallReconcile`, `MarkReconciled` | `_reconcile_single`, the same |
| `BreakOff` | a crash, a lock not obtained in five seconds, the loop's `except` and `rollback` |
| `StartTargeted`, `MarkTargeted` | `/withdrawal_reconcile`, whose result is dropped when it is `signer_retry` |
| `CheckRetry`, `ActOnRetry` | `/signer_retry_action`: the status is read, and then written under the lock |
| `LateRequest` | a request whose sender gave up reaches `handle_execute` |
| `OperatorActs` | `set-status` of `withdrawal_provider_admin.py` |

A lost answer covers a timeout, a server error, an answer that does not parse
and the provider's unique index refusing a second insert: the code treats them
alike. When a row is due is left open: `BeginReconcile` takes any of the
reconcilable ones. The provider's validation of a destination is the set
`Unpayable`; the wallet's check of a txid is `TxidSane`, since it depends on the
asset alone once the provider has accepted the txid. The limit of a day covers
all rows, because no row of a run is a day old. Amounts are in tenths of the
asset's quantum, and the platform's fee of the runs, 1.5 % of 1,000, falls on half a
quantum, so it is rounded up.

### DepositRoutes and Deposits

`route` is `wallet_addresses`, by user and asset; a row carries its address, the
provider that issued it and that provider's reference, and whether its
fingerprint is written (`stamped`). `env` is the environment the services run
with, `bot` whether the bot issues, and `deposit`, `cursor` and `health` are
`deposits` and the two columns of `watcher_status`. `posted` is the ledger by
transfer, `told` the last notice to a user, and `cycle` where each watcher is,
with the map and the batch it holds in memory. `missed` is history: what a
cursor passed over with an error in between.

| Action | Code |
|---|---|
| `GetOrCreateDepositAddress`, with `IssuedAddress`, `FingerprintFree`, `ProviderRefFree` | `get_or_create_deposit_address`, the two address providers, the triggers and the index |
| `StartBot`, `StopBot`, with `PreflightPasses`, `StampedRoutes`, `IssuanceReady` | `main` of `bot.py`, `run_startup_preflight`, `init_db`, `is_ready` |
| `StartWatcher`, `SolNodeUnhealthy` | `main` of the four `run_*_watcher.py` up to the loop |
| `LoadMap` | `monitored_deposit_address_map` |
| `UtxoFetchDeposits` | `BlockstreamUtxoAdapter.fetch_deposits` |
| `BlockFetchDeposits`, with `FinalizedHead`, `LoadCursor`, `ReadBlocks` | `EthRpcAdapter` and `SolRpcAdapter.fetch_deposits` |
| `Ingest`, `IngestFails`, with `CreditIfConfirmed`, `Notice` | the loop of `run_once`, `credit_deposit_if_confirmed`, the notice |
| `WriteCursor` | `write_watcher_cursor` and its commit |
| `ReportSuccess`, `CycleFails` | `upsert_watcher_status` after a good cycle and in the `except` |
| `Crash`, `Redeploy`, `ChainGrows` | a killed process; a stop and start with other settings; the chain |
| `ShownState`, with `OperatorState` | `/watcher_status` |

Every credit is a transaction of its own and the cursor another, so a crash falls
between any two. The map of a cycle is read once and kept: routes issued later
are watched from the next cycle on. A chain does not reorganise, and nobody pays to
an address before it was handed out; what a chain does while its watcher is
turned off it does when the watcher is back. An API may leave transactions out of
an answer, a node may answer a block with null (which costs a block's ether but
not its tokens, since those come from the logs of the range) or its head with an
error; each such answer counts as a fault. The UTXO adapters read every address
anew in each cycle, its mempool too, and keep no cursor.

`Derive` stands for key derivation: it tells seed, chain family and user apart,
where the user's id is split at BIP32's hardened boundary, `Radix`. Formats and
encryption are left out. What is fatal in a preflight keeps a service down;
`DerivationConsistent` looks at every row as the code does, also at rows it was
meant to pass over.

### Conversations

`data` is `context.user_data` of each user, whose keys every conversation shares;
`atDeal` and `atWd` are the states of the two conversations. An amount is known
by the asset it was checked and priced in, which is what can go wrong with it.
`made` and `withdrawn` record how a deal or a withdrawal came about, `prompt` what
the user was last shown. A handler that refuses changes nothing and is no step.
python-telegram-bot handles one update at a time by default, so a handler is one
action; buttons of any older message may be pressed at any time, and act on
whatever the dictionary holds.

| Action | Code |
|---|---|
| `CheckUser`, `DealNew`, `SearchText`, `SearchResult`, with `LookUp` | `check_user_global` and `check_user_entry`, `deal_new_entry`, the search |
| `DealAsset`, `DealAmount`, `BackFromConditions` | `deal_enter_amount_callbacks`, `deal_amount_input`, `deal_back_from_conditions` |
| `DealConditions` | `deal_conditions_input`, which opens the deal |
| `LeavePending`, `CancelRequest` | `deal_pending_actions` |
| `BackMain` | `deal_back_main`, `/start`, `/cancel` |
| `Recover` | `recover_command` |
| `WithdrawStart`, `WithdrawSelectAsset`, `WithdrawAmount`, `WithdrawAddress` | the withdrawal conversation up to its prompt |
| `WithdrawBack`, `WithdrawCancelAddress`, `WithdrawConfirm` | its buttons; `withdraw_confirm` |
| `SetFrozen` | `freeze_user`, `unfreeze_user` |
| `RateDeal` | the rating in `escrow_history_actions`, with the guards of the handler |
| `OtherMakes`, `DealMoves` | what others do with deals, which `Escrow` has in full |
| `Restart` | the bot starts again |

The database orders a user's deals by their last update; `Recover` takes any open
deal of the user, which covers the one the code takes.

## Runs

| Run | Instance | Result |
|---|---|---|
| `mc_fees` | every amount from 3 to 2,000 units of 20 to the cent, fees of 0, 0.75, 1.5 and 3 % | passes |
| `mc_fees_formula` | the same amounts, the documented payout formula | violated, a finding |
| `mc_escrow` | two deals, two users, two owners, two fees, two amounts, splits of 0 and 30 % | passes, 140,649 states |
| `mc_dispute_flow` | two deals of 50.5 cents, two users, one of them a moderator who may be a party | passes, 174,098 states |
| `mc_moderator_ids` | one deal, moderators by Telegram id | violated, a finding |
| `mc_signer` | two withdrawals, one the provider refuses; commands and cycles take turns; one fault | passes, 169,972 states |
| `mc_signer_races` | one withdrawal, everything at once, no refusals; one fault | passes, 578,809 states |
| `mc_signer_overlap` | the same with refusals and no fault | violated, a finding |
| `mc_signer_sol` | one withdrawal of an asset whose txids the wallet cannot accept | violated, a finding |
| `mc_deposits` | two users, five payments on four chains of three blocks, nine environments; two faults | passes, 133,048 states |
| `mc_provider_restart` | the same instance | violated, a finding |
| `mc_conversations` | one user in full and two others, two deals, two assets, two addresses | passes, 699,721 states |

`mc_fees` ends at `MaxAmount`, where it deadlocks on purpose. It,
`mc_fees_formula` and the two runs of `MCDeposits`, where everything may be
credited on chains that have ended and with no watcher enabled, are the only runs that
do not check for deadlock. Every amount
up to a hundred cents meets every remainder of a percentage of basis points that
the rounding can tell apart at this quantum: halves, just under and just over.

`mc_escrow`. Two deals are the least for which one user's money can be promised
twice: Alice has 3,000 and Bob 1,000, the amounts are 1,000 and 2,000, so two
deals of 2,000 do not fit and one of each does. Each user may be the buyer of one
deal and the seller of the other, and each may own the tenant, whose fee and
owner change while deals are open. One of the two live prices puts 1,000 below
the minimum, and the static price accepts it. Two amounts and two split
percentages, one of them zero, make the sums of different settlements different.
All amounts are whole cents; what becomes of others is the business of
`mc_dispute_flow`. No counter is bounded: deals are not reused, so the state
space is finite by itself.

- `LockFollowsStatus`: funds are locked, for the deal's buyer and amount, exactly while it is open.
- `EscrowBooksBalance`: a deal's ledger rows sum to minus the lock, and to zero after.
- `NoOverdraft`: locks one after another never promise money that is not there.
- `DisputeRowsFollowStatus`: one open dispute row exactly while the deal is disputed, one row for ever.
- `EntriesReachTheirParties`: each balance is what the deals owe its owner, in the role held when it was settled.
- `SettledIsFinal`: no step changes anything of a settled deal.
- `ImplementsCustody`: through `lock` and `posted`, the service is `Custody`.

`mc_dispute_flow`. Each user holds conversations about two deals at once, with
buttons of any age, restarts and `/recover` between any two steps. User 2 is a
moderator as `tests/test_escrow_service.py:76` makes one, by internal id, and has
the same Telegram id; user 1 is listed by Telegram id alone and is refused. A
moderator may be a party of the deal, which the code does not forbid.
`ReasonBelongsToDeal` says that the reason filed was typed for that deal.
`DisputesAreResolved` says that a dispute does not last for ever.

Its deals have fractions of a cent. The payout is rounded like the fees, so 1,010
units at 20 to the cent, with fees of 3 and 1.5 %, are paid out as 960, 40 and 20:
half a cent too much. `EscrowBooksNearlyBalance` says that this is the worst there
is: the rows take an amount whole while it is locked, and once it is released,
split or given back they miss zero by half a cent at most, either way. By its
theorem that is so for every amount, and so is `NoOverdraft`.

Fairness. `FlowSpec` asks weak fairness of `ModeratorAnswers` for each deal:
that moderators, who were all notified, keep answering a dispute while it is
open. It is an assumption about people. No user, tenant or process has to do
anything, and no other liveness property is claimed: a deal may stay open for
ever, for the code has no timeout for deals. `Escrow` has no fairness at all.

`mc_signer`. One of the two withdrawals can be paid, the other is refused by
validation. The estimate of the network's fee is 30 units and the operator
reports 20, 50 or nothing, and may change it later, so there are a refund, an
adjustment and neither. The operator follows the life cycle of
`docs/WITHDRAWAL_PROVIDER_SELF_HOSTED.md`, may refuse before the broadcast, and
passes through an unclear status (`MCSigner!DocumentedMoves`); admins requeue
freely and fail a withdrawal only when the provider has refused it
(`AdminFailsWhen`), the reconciliation that `docs/RUNBOOK.md:79` asks for. Both
are assumptions about people: the code enforces neither. Processes begin work
when the other is idle; one answer may be lost, or one piece of work broken off.
One fault is enough for every pair of "done at the provider" and "forgotten in
the wallet"; the state space with two is ten times as large.

- `BooksFollowProvider`: nothing is booked as sent or refused that the provider does not have so.
- `UnresolvedStaysReserved`: an unresolved row keeps its reservation.
- `OutcomeIsFinal`: a confirmed or failed row that no process has in hand is taken up by none and never changes.
- `ImplementsPayout`: every step of the committed rows is a step of `Payout`.
- `ConfirmedReachesWallet`: what the operator confirms becomes confirmed in the wallet.

`mc_signer_races` drops the turns: daemon, bot cycle, targeted reconcile and
requeue on one row, with answers of any age. It is the run for `FeesBookedOnce`: refund or
adjustment and the platform's part make up the estimate, once. Statuses may go back: a
process that read a row before another confirmed it puts its late `submitted` over
the `confirmed`. `OutcomeIsFinal` says that this is the only way: with turns nobody
ever has a closed row in hand, so it says there that closed rows do not change, and
here that they change under the hands of such a process and no other. The books are
right all the same, because each booking looks for its own ledger row. With refusals
that is not so, which is `mc_signer_overlap`: `mark_withdrawal_failed` looks for
nothing, and since a row may then be released again and again its states would not
even be finite.

Fairness of `SignerSpec`. Weak fairness of each process's next call or mark:
calls have a timeout and loops go on. Strong fairness of the daemon's next cycle,
which begins every interval whatever commands come between, and of a cycle in
which every unresolved row is due, since each row's interval passes. Nothing is
asked of users, admins or the operator, and faults are bounded by `MaxFaults`.

`mc_deposits`. An environment turns on one watcher and says who asks for an
address, so chains are followed one after another and not in all
combinations: they share no row but routes and settings. `MCRedeployments` has the
changes that matter: another fee, another seed, a mode, a watcher turned off. The
tables may begin empty, with a row of before fingerprints, with two users on one
address, or with rows of two seeds. Users 1 and 9 lie on either side of the
hardened boundary, here 8, and one percentage is above 100. The provider of
addresses may give everybody the same address, which the triggers refuse. Chains
have three blocks and are read one at a time, so a confirmation, a cursor that is
behind and a head that goes back to zero all occur; two faults make pairs such
as a lost answer and then a crash.

- `CreditsAddUp`: a transfer is booked once if its row is credited, never otherwise, in parts that add up.
- `CreditsReachOwner`: to the user the address was issued to.
- `OneOwnerPerAddress`, `RoutesMatchSeed`: while a service runs, an address has one user, and the seed can spend from it.
- `ScannedTransfersAreCredited`, `CursorIsFinal`: a cursor stands on final blocks, and what it passes is credited or `missed`.
- `ToldWhatWasBooked`: who is told of a credit has it; ETH and SOL tell the amount booked.
- `ImplementsCrediting`: a row is never unseen or uncredited, and a credit stays as it
  was booked, also when a later read at another percentage rewrites the row.
- `PaymentsAreCredited`: what is paid to a route is credited in the end.
- `FailureIsShown`: a watcher whose routes keep it down does not stay shown as ready.

Fairness of `FairSpec`. Weak fairness of each watcher program, which systemd
restarts (`Restart=always`) and whose loop sleeps and goes on, and of the growth
of each chain. Nothing is asked of the bot, of users or of operators. After
`MaxFaults` nothing fails, which is what "eventually" needs; the property is about
what remains wrong after the last fault. A payment the cursor passed over with
an error (`missed`) is excepted, for the code does not come back to it.
`FailureIsShown` leaves out `ltc_watcher`, which `/watcher_status` does not list. In
mode `external_http` both say little beyond the first start, since after it nothing starts again:
see `mc_provider_restart`.

`mc_conversations`. Conversations of two users meet only in rows, so one user is
followed through every handler, and the others through the deals they make. The run takes
one of three plans from its first state: two deals; a withdrawal beside a deal
that is drafted but not made, since the two share dictionary and texts and no row;
deals and their reviews. Two deals are the least for which an old button can mean
another one. Deals are interchangeable, so they are symmetric; nothing is
bounded.

- `WithdrawsWhatWasShown`: asset, amount and address are those of the last prompt, once.
- `DealsKeepTheirQuote`: the amount of a deal was priced in the deal's asset.
- `BuyersMakeTheirDeals`: a deal's buyer described it, unless `/recover` put the buyer in the draft.
- `FrozenFundsStay`: an account frozen in the middle of a conversation pays for nothing after.
- `ContextDealIsOwn`: buttons without an id act on a deal of the user's.

Three of them name their exception. `/recover` writes the buyer of a deal where the
user may be the seller, and leaves the deal conversation where it is: conditions
typed next open a deal in the other's name, on the other's funds, frozen or not.
`docs/ARCHITECTURE.md:95` describes the recovery and does not say whose deal
comes next; so this is stated as an exception and is not a finding.

### Findings

`mc_fees_formula`. `docs/ARCHITECTURE.md:11` gives `seller_payout = amount -
(platform_fee + bot_extra_fee)`. The payout is rounded to 0.01 of the asset,
which for a deal of 0.0015 BTC, over the minimum of 40 USD, is nothing at all:
the lock is released, and no row of the settlement gives the amount to anyone.
The theorems that a settled deal's rows sum to exactly zero, and that `Escrow`
implements `Custody`, assume whole-cent amounts (`ExactAmounts`) for this reason; the
others about money do not.

`mc_moderator_ids`. `Settings.moderator_ids` holds Telegram ids: the bot lets a
moderator in by them and writes to them. `mod_resolve_handler` then passes the
internal user id to `resolve_dispute`, which looks for it among the same ids.
Unless they coincide the press fails and the deal stays disputed with its funds
locked.

`mc_signer_overlap`. `README.md:55` says that an unresolved withdrawal is "forced
to `signer_retry`, funds remain reserved". A process that has read a row as
unresolved marks it as unresolved when its answer comes, also when another has
failed and released it meanwhile. The trace has the daemon's cycle and a targeted
reconcile; an admin's `fail` during a reconcile does the same. The released row
can be failed, and released, again. The same gap lets a late `submitted` replace a
`confirmed`, against the order of states of `docs/ARCHITECTURE.md:64`.

`mc_signer_sol`. `_txid_sane_for_asset` of the wallet has no case for SOL, while
the provider's has: every broadcasted or confirmed SOL withdrawal raises when it
is recorded and goes back to `signer_retry`, though its coins are sent. The
documentation says that reconciling "advances the withdrawal row". `README.md:48-49`
and `docs/RUNBOOK.md:153-155` leave SOL out of the supported assets and ask that it
stay disabled, but a withdrawal of SOL has no switch (`bot.py:694`): this is what
enabling it would meet.

`mc_provider_restart`. `docs/RUNBOOK.md:24-30` gives `ADDRESS_PROVIDER=http` as one of
two production modes. `verify_address_derivation_consistency` passes over rows of
an external provider, by a column its `SELECT` does not read. The first route
issued is therefore derived with a seed this mode does not have, and no service
starts again.

Met while modelling, without a run of their own:

- BTC and LTC watchers tell the gross amount as credited, while the net is booked
  (`watchers/btc_watcher.py:37-43`); `ToldWhatWasBooked` is about the others.
- `README.md:77` and `docs/RUNBOOK.md:120` name a deposit minimum of 40 USD;
  `deposit_amount_input` (`bot.py:1141-1165`) asks for a positive number up to 10,000.
- Back on the withdrawal's prompt of an older message is routed to
  `withdraw_confirm` (`bot.py:3822`) and confirms. `WithdrawsWhatWasShown` holds
  for it: it withdraws what was shown.
- The global `/cancel` answers before those of the withdrawal and the deposit,
  whose states it leaves; their entry button is dead until the conversation is
  left with one of its own buttons.
- A text goes to the deal conversation while that waits for one, also when the
  user was asked for a withdrawal amount or a dispute reason.
- An API that leaves out `confirmations` leaves a UTXO deposit "seen"; an address
  with more than one page of transactions loses the older ones of a cycle.
- `esc_hist_rate` (`bot.py:1753`) looks at the parties of a deal and at an earlier
  review, not at the status: that a deal is rated after its end is a matter of which
  messages have the stars. No text says when a deal may be rated.
- A frozen buyer can release a deal: `esc_release_confirm_handler` (`bot.py:3119-3143`)
  does not look. `FrozenFundsStay` is about deals made and withdrawals requested.
- A null block and a deposit whose ingest fails are passed over for good
  (`infra/chain_adapters/eth_rpc.py:100`, `watchers/eth_watcher.py:60`). The
  properties of deposits except them, as `missed`.
- The status "ok" overrides a degraded health given with it (`run_signer.py:47`).

## Proofs

`tlapm` checks all of them, from the definitions and the named assumptions
`FeesAssumption`, `SweepAssumption`, `EscrowAssumption`, `SplitAssumption`,
`TablesAreFinite` (users and deals are finite in number, without which a sum
over a table means nothing), `WithdrawalsAssumption`, `SignerAssumption`,
`RoutesAssumption`, `DepositsAssumption`, `ConversationsAssumption` and
`NoneIsNoDeal`: for any number of users, bots,
deals, moderators, amounts and percentages; of withdrawals and lost answers; of
transfers, blocks, environments, faults and address providers; and with all
users in conversation at once.

| Theorem | Statement |
|---|---|
| `WholeCentSettlementIsExact` | payout and fees of a whole-cent amount are natural numbers and add up to it |
| `SettlementIsNear` | payout and fees of any amount are natural numbers and add up to it to within half a cent |
| `WholeCentsAreExact` | `Spec => []ExactOnWholeCents`, of the sweep |
| `FeesAreWithinHalfCent` | `Spec => []FeesWithinHalfCent`, of the sweep |
| `TypeCorrect` | `Spec => []TypeOK` |
| `LockIsHeldWhileOpen` | `Spec => []LockFollowsStatus` |
| `OneDisputePerDeal` | `Spec => []DisputeRowsFollowStatus` |
| `SettledStaysSettled` | `Spec => SettledIsFinal` |
| `BooksAlwaysBalance` | `ExactAmounts`, so `Spec => []EscrowBooksBalance` |
| `BooksNearlyBalance` | `Spec => []EscrowBooksNearlyBalance` |
| `NobodyIsOverdrawn` | `Spec => []NoOverdraft` |
| `EntriesAlwaysReachTheirParties` | `Spec => []EntriesReachTheirParties` |
| `EscrowImplementsCustody` | `ExactAmounts`, so `Spec => ImplementsCustody` |
| `FlowImplementsService` | `FlowSpec => Spec` |
| `ReasonsAreOfTheirDeals` | `FlowSpec => []ReasonBelongsToDeal` |
| `FlowIsTyped` | `FlowSpec => []FlowTypeOK` |
| `SignerIsTyped` | `SignerSpec => []SignerTypeOK` |
| `FeesAreBookedOnce` | `SignerSpec => []FeesBookedOnce` |
| `WithdrawalsImplementPayout` | `NothingRefused` and `WholeDebits`, so `SignerSpec => ImplementsPayout` |
| `OutcomesAreFinal` | `SignerSpec => OutcomeIsFinal` |
| `ReservationsGoWithOutcomes` | `SignerSpec`, so every step that takes away the reservation of an unresolved row writes over an outcome |
| `BooksAreTrue` | `WordKept`, so `SignerSpec => []BooksFollowProvider` |
| `RefusedWithdrawalsFollowPayout` | `WordKept` and `WholeDebits`, so in `SignerSpec` every step of a withdrawal that settles is one of `Payout` and leaves it so, or writes over an outcome |
| `DepositsBookedOnce` | `Spec => []CreditsAddUp` |
| `DepositsImplementCrediting` | `Spec => ImplementsCrediting` |
| `CursorsAreFinal` | `Spec => []CursorIsFinal` |
| `CursorsPassNothing` | `Spec => []ScannedTransfersAreCredited` |
| `DepositsAreTyped` | `Spec => []DepositsTypeOK` |
| `NoticesAreTrue` | `Spec => []ToldWhatWasBooked` |
| `AddressesHaveOneOwner` | `Spec => []OneOwnerPerAddress` |
| `SeedSpendsEveryRoute` | `Spec => []RoutesMatchSeed` |
| `CreditsGoToTheOwner` | `Spec => []CreditsReachOwner` |
| `WithdrawalsAreAsShown` | `Spec => []WithdrawsWhatWasShown` |
| `DealsAreAsQuoted` | `Spec => []DealsKeepTheirQuote` |
| `DealsAreTheBuyers` | `Spec => []BuyersMakeTheirDeals` |
| `FrozenAccountsPayNothing` | `Spec => []FrozenFundsStay` |
| `ContextsHoldOwnDeals` | `Spec => []ContextDealIsOwn` |
| `ConversationsAreTyped` | `Spec => []ConversationsTypeOK` |

The argument. `FeesProofs` shows that a quantity of whole cents is rounded to
itself and that a fee of at most half the amount leaves a payout, so that a
whole-cent settlement is exact. For any other amount, rounding half up is off by at most half a
cent (`HalfUpIsNear`) and a rounded percentage is at most twice the unrounded one
(`PercentIsAtMostDouble`): both fees are whole cents, so only the payout's rounding
is left over, and the fees never exceed the amount, since the percentages together stay
under a half. `MCFeesProofs` states the same of the sweep's own properties. The
proofs that follow use of the arithmetic only these two theorems.

`EscrowProofs` has the inductive invariant `Inv`: `TypeOK`, and for each deal
`DealsInv`. `LockFollowsStatus` alone is not inductive. A release reads the
tenant of the deal's bot and pays the deal's seller, so a deal that exists must
have a tenant that does, two parties who are users and differ, and a lock whose
buyer and amount are its own. With those, each action is one of four things to
one deal (it opens it, moves it, settles it, or leaves it) and to every other
deal nothing, and the proof has one step for each action.

`EscrowBooksProofs` adds `BooksInv` to make `IInv`: what is posted for a deal in each
entry type, by its phase, and no balance negative. The sum of a deal's rows is
not enough to carry itself through a split, which posts four types. What a settlement
hands out is there as three natural numbers near the amount, `HandedOut`
(`HandedWhole` makes it the amount where that is whole cents), so one invariant serves
both the exact and the near balance. Credits are natural numbers, so only a lock
can take from a balance, and its guard is the balance; that is why nobody is
overdrawn at any amount. `SettledIsFinal` follows from `Inv` alone: each action on
a deal has a guard that no settled status meets, or needs a lock that is gone.

A second part maps `lock` to the phase and the stake and `posted` to what
was paid, and shows that every step of `Escrow` is a `Take`, a `HandOut` or a
stutter of `Custody`. `HandOut` needs that nothing had been paid to the deal
before, which is `BooksInv`, and that the parts are natural numbers that sum to
the stake, which is `WholeCentSettlementIsExact`.

A third part is about sums over all deals. `SumFunction` of the community modules
folds over a finite set by choosing an element, then one of the rest, and so on.
That such a recursion has a value at every finite set is proved by
picking subsets in order of their size, from the library's `WellFoundedInduction`
in the form that speaks of sets rather than of an operator. Two functions which
differ at one element are then summed along the same choices, so the sums differ
by that one difference (`SumChanges`), and no law about the order of a sum is
needed. With it, `PartiesInv` (the sums, and that a deal that does not exist has no
rows) is kept by every action: an action on a deal posts to one deal and moves
the same amounts between the accounts its parties name (`Moves`), while a change of
owner changes who is paid next and no sum.

`DisputeFlowProofs`. Every handler of the conversation leaves the tables alone or
takes one step of the service, so what is proved of `Escrow` holds with the
conversation, its old buttons and its restarts on top. For the reasons the
invariant `ReasonsMatch` adds what `user_data` holds: whoever is asked for a
reason is asked about a deal, and a reason that waits names the deal it is of.

`SignerProofs`. A mark is a function of a row, so it is enough to show once for
each mark what it keeps of a row (`RowBooked`), and then that a process writes
only rows that exist: it keeps the ids it read, a withdrawal never stops
existing, and a nonempty set of ids has a first one because the natural numbers
are well-founded. The answer a process writes may be of any age; nothing is
asked of it.
The refinement asks for more than the invariant `RowBooked`, because the charge
is spread over entries: `Ledger` says what each is, and `Onward` what a later
state of a row may differ in. `Onward` holds between what is committed and what
the holder of the lock has (`TablesPaid`), so a commit of many marks is, row by
row, one step of `Payout`.

No theorem about withdrawals assumes that commands and cycles take turns. Three have
hypotheses about the provider, the operator or amounts, which the code does not enforce
and a run satisfies (`mc_signer` the last two):

- `NothingRefused`: the provider refuses no withdrawal, its operator turns none
  down and no admin fails one. `mc_signer_races` is such a case.
- `WholeDebits`: amounts and the network's estimate have no more decimals than
  the wallet quantizes to, and a withdrawal costs a fee; a finer amount is
  reserved rounded and released unrounded.
- `WordKept`: the operator does not go back on what was sent or refused, and
  admins fail only what the provider refused, as `docs/RUNBOOK.md:79` asks.

A process writes what it makes of a row it read before, so what overlap can do is
limited by who has a row in hand (`InHand`: it is still to do, or marked and not
committed). `MarksInv` says three things that hold under any overlap: only a cycle holds the
lock (`WriterCycles`), what it has marked and marks again it had left open
(`OwnMarks`), and it takes a reservation away only in place of an outcome
(`LateMarks`). Every action looks at a status before it takes a row in hand, so a closed row
that nobody has in hand stays closed: `OutcomesAreFinal`. The same invariant says when an
unresolved row can lose its reservation, in `ReservationsGoWithOutcomes`: when a
process writes over an outcome that was committed while it had the row in hand, which is
what `mc_signer_overlap` shows, and never otherwise. With turns that does not occur,
and `UnresolvedStaysReserved` is what `mc_signer` finds.

`BooksAreTrue` needs the word kept. Each row,
committed or in the writer's hands, and each answer not yet written claims no more
than the provider says now (`BooksInv`: `RowsTrue`, `AnswersTrue`), and since "sent"
and "refused" last at the provider, an old answer is still true.

`RefusedWithdrawalsFollowPayout` needs both. `Settles` says that the entries of a row
account for its whole charge, and `Follows` that a later state of a row is
`Onward` or gives the whole charge back once (`GivenBack`); a commit is again, row by row,
one step of `Payout`. It is stated step by step and not as `ImplementsPayout`, because
after one outcome has been written over its withdrawal need not follow `Payout` any more;
all the others still do. With `NothingRefused` no outcome that is written over was
a release, and the refinement holds without exception.

`DepositsProofs`. That a transfer is booked once is inductive with the shapes
of the rows alone: a credit looks at the status in the transaction that writes it,
so no assumption about cycles, cursors or chains is needed. What the cursor says
of the chain needs what a process holds in memory: `UptoIsFinal` (the block it
will write is final, or zero) and `BatchIsComplete` (each transfer up to that block
is credited, still in the batch, or noted as skipped), each of which a crash
simply empties.

`DepositsAreTyped` is those shapes with the types of the rest (`Typed`).
`NoticesAreTrue` rests on `CreditsAddUp`, since what is booked once is never booked
again under a notice already given, and on `OwnBatches`, that a watcher ingests
transfers of its own chain only, since BTC and LTC tell another amount than ETH and SOL.

The second half of `DepositsProofs` is about routes. `OneOwnerPerAddress` is weaker than what the triggers
keep: they see stamped rows only, so `RoutesGuarded` says that while anything
runs every row is stamped and no address has two users. It is established by the
preflight of whichever service starts first, and kept by the issue of a route.
For the owner of a credit it is not enough that the table is right now: the map of
a cycle was read earlier (`MapsAreRoutes`: what it holds is still in the table,
since routes are never deleted) and a batch was found with it (`BatchesArePaid`).
The two halves meet in `DepositsImplementCrediting`: `CreditsAddUp` makes the one entry
of a step the first of its transfer, and the invariant of the routes (`OwnersInv`)
makes it the owner's.

`ConversationsProofs`. Two invariants, one for each concern. `DealsInv`: the
buyer in a dictionary is its user or came from `/recover` (`BuyersKnown`), where
the conditions are asked for the amount is of the asset beside it
(`QuotesKept`), and each deal was made well (`MadeWell`). `WithdrawInv`: from the
address on, the amount is of its asset, and at the prompt the dictionary
holds what the prompt shows (`Faithful`). Of ratings only the types are
kept (`ReviewsTyped`). Most handlers do one of a few things to a dictionary and to a deal, which
lemmas about "drafts" and "fates" state once. The dictionary is shared, so each
invariant must survive the handlers of the other conversation, and does because
they write other keys or clear all of them.

Only model-checked: the four liveness properties, `DisputesAreResolved`,
`ConfirmedReachesWallet`, `PaymentsAreCredited` and `FailureIsShown`, since
liveness under fairness is beyond TLAPS; and `UnresolvedStaysReserved`, which holds
while commands and cycles take turns and not otherwise, so that its theorem is
`ReservationsGoWithOutcomes`, which says when it fails. Every other invariant and action
property of a passing run is a theorem, and so are the refinements, that of `Payout`
without refusals; with them the theorem is `RefusedWithdrawalsFollowPayout`. What is left
to the runs is the instances outside a theorem's hypotheses, of which the violated
runs show that some fail.

## Not modelled

- Key derivation, encryption at rest, the formats of addresses and amounts, the
  text and layout of messages, HTTP details, systemd units and the `.bak`
  copies: no property distinguishes their values.
- The conversation of a deposit, whose one write is the route; menus, histories
  and profiles, which write nothing.
- `DEAL_RELEASE_CONFIRM`, `RATE_SELLER`, `RATE_BUYER` and
  `seller_rate_buyer_callback`, and the button `deal_back_to_search`: no handler
  or message of the bot leads to them.
- The window of the rate limiter. A limited handler changes nothing, except in a
  dispute, where it drops the reason; both are in the modules.
- The age of a cached price: any live price or the static one is allowed.
- Migrations of columns, the readiness report and the status of the signer,
  which read settings and decide nothing here.
- `scripts/`, checks for operators; `apps/bot_main`, the old entry point, which is
  blocked in production; `Settings` and the texts of errors.

## Plan

What could still be added: the balances users are shown (`locked_balance`,
`total_balance`) over `Withdrawals`, and `Provider`'s create as two transactions
of a threaded server.
