--------------------------- MODULE DepositRoutes ----------------------------
(***************************************************************************)
(* Deposit routes: the rows of wallet_addresses, how the bot has them      *)
(* issued, the triggers that guard them, and the preflight every process   *)
(* runs over them before it serves (wallet_service.py, address_provider.py,*)
(* hd_wallet.py, infra/db/database.py, runtime_preflight.py).              *)
(*                                                                         *)
(* An address belongs to one chain family, so a provider's answer of the   *)
(* wrong format, which is refused without a trace, does not arise.  A      *)
(* fingerprint is a function of family and address: a row only says        *)
(* whether it has one.  The bot is the one process that issues, and it     *)
(* does so without giving way to another of its handlers.                  *)
(***************************************************************************)
EXTENDS Integers

CONSTANTS
    None,          \* no seed, no value
    UserIds,       \* users.id
    Wanted,        \* the pairs of user and asset somebody asks a deposit for
    Radix,         \* HDWalletDeriver: 0x80000000, BIP32's hardened boundary
    HttpRoutes,    \* chain family -> the pairs of address and provider_ref
    Environments,  \* the settings an operator may start the services with:
                   \* .mode and .seed of the provider, and .asked, the pairs
                   \* somebody asks for while they last
    LegacyRoutes   \* wallet_addresses as an older version may have left it

Assets == {"BTC", "LTC", "ETH", "USDT", "SOL"}

ChainFamily(asset) ==
    CASE asset \in {"ETH", "USDT"} -> "ETHEREUM"
      [] asset = "SOL" -> "SOLANA"
      [] OTHER -> asset

\* build_address_provider: an HTTP service, the local seed or nothing; outside
\* production the wallet derives from the seed itself, under a name of its own.
Modes == {"external_http", "local_hd", "legacy_seed", "disabled"}
SeedModes == {"local_hd", "legacy_seed"}

\* A row has an address, what its provider calls it, whose it is, and whether it
\* has its fingerprint.
RowsShape(rows) ==
    /\ DOMAIN rows \subseteq Wanted
    /\ \A p \in DOMAIN rows :
          rows[p] \in [address : {rows[p].address}, ref : {rows[p].ref},
                       origin : {rows[p].origin}, stamped : BOOLEAN]

ASSUME RoutesAssumption ==
    /\ Radix \in Nat \ {0}
    /\ UserIds \subseteq 1 .. Radix * Radix - 1
    /\ Wanted \subseteq UserIds \X Assets
    /\ \A e \in Environments : e.mode \in Modes /\ e.asked \subseteq Wanted
    /\ \A r \in LegacyRoutes : RowsShape(r)

VARIABLES
    route,   \* wallet_addresses: the rows, by user and asset
    env,     \* the environment the services were started with
    bot      \* "down", "degraded", or "issuing" (DEPOSIT_ISSUANCE_READY)

Rows == DOMAIN route

-----------------------------------------------------------------------------
\* Derivation.

UserAccountAndIndex(u) == <<u \div Radix, u % Radix>>

\* The derivation path, under the coin type of the family, is the address.
Derive(seed, u, asset) == <<seed, ChainFamily(asset), UserAccountAndIndex(u)>>

\* _require_xpub refuses to derive in production unless the provider is local;
\* derive_sol_address does not ask it.
CanDerive(asset) ==
    env.seed # None /\ (env.mode \in SeedModes \/ asset = "SOL")

-----------------------------------------------------------------------------
\* Issuing.

\* LocalHDAddressProvider.get_or_create_address, and outside production the
\* wallet's own derivation.
LocalRoute(u, asset) ==
    [address |-> Derive(env.seed, u, asset), ref |-> <<asset, u>>,
     origin |-> env.mode, stamped |-> TRUE]

\* HttpAddressProvider.get_or_create_address: what the service likes to answer.
HttpRoute(asset) ==
    {[address |-> h[1], ref |-> h[2], origin |-> "external_http", stamped |-> TRUE] :
        h \in HttpRoutes[ChainFamily(asset)]}

\* What an address provider hands out for a user and an asset.
IssuedAddress(u, asset) ==
    CASE env.mode = "external_http" -> HttpRoute(asset)
      [] env.mode \in SeedModes /\ env.seed # None -> {LocalRoute(u, asset)}
      [] OTHER -> {}

\* trg_wallet_addresses_chain_fp_user_guard: no address of another user.
FingerprintFree(u, r) ==
    \A p \in Rows : p[1] # u /\ route[p].stamped => route[p].address # r.address

\* idx_wallet_addresses_provider_ref, unique, and the trigger beside it.
ProviderRefFree(r) ==
    \A p \in Rows : <<route[p].origin, route[p].ref>> # <<r.origin, r.ref>>

\* The table with one row more.
WithRow(u, asset, r) ==
    [p \in Rows \cup {<<u, asset>>} |-> IF p = <<u, asset>> THEN r ELSE route[p]]

\* deposit_amount_input: nobody gets an address of a degraded bot.
AsksForDeposit(u, asset) == bot = "issuing" /\ <<u, asset>> \in env.asked

\* A wrong variant: the triggers are missing.
IssueUnguarded(u, asset) ==
    /\ AsksForDeposit(u, asset)
    /\ <<u, asset>> \notin Rows
    /\ \E r \in IssuedAddress(u, asset) : route' = WithRow(u, asset, r)
    /\ UNCHANGED <<env, bot>>

\* get_or_create_deposit_address.  A stored route is returned as it is; an
\* insert that a guard aborts is rolled back, and the user told to try later.
GetOrCreateDepositAddress(u, asset) ==
    /\ AsksForDeposit(u, asset)
    /\ <<u, asset>> \notin Rows
    /\ \E r \in IssuedAddress(u, asset) :
          /\ FingerprintFree(u, r)
          /\ ProviderRefFree(r)
          /\ route' = WithRow(u, asset, r)
    /\ UNCHANGED <<env, bot>>

-----------------------------------------------------------------------------
\* Preflight.

\* ensure_wallet_route_integrity: an address has one user, and a provider_ref one
\* user and address.
RouteIntegrity ==
    \A p, q \in Rows :
       /\ route[p].address = route[q].address => p[1] = q[1]
       /\ route[p].origin # None /\ route[p].origin = route[q].origin
             /\ route[p].ref # None /\ route[p].ref = route[q].ref
             => p[1] = q[1] /\ route[p].address = route[q].address

\* _wallet_route_collisions: the same of the rows that have their fingerprint.
NoRouteCollisions(rows) ==
    \A p, q \in Rows :
       /\ rows[p].stamped /\ rows[q].stamped /\ rows[p].address = rows[q].address
             => p[1] = q[1]
       /\ rows[p].origin # None /\ rows[p].ref # None
             /\ <<rows[p].origin, rows[p].ref>> = <<rows[q].origin, rows[q].ref>>
             => p[1] = q[1] /\ rows[p].address = rows[q].address

\* init_db writes the missing fingerprints, and keeps them if both checks pass.
StampedRoutes ==
    LET rows == [p \in Rows |-> [route[p] EXCEPT !.stamped = TRUE]]
    IN  IF RouteIntegrity /\ NoRouteCollisions(rows) THEN rows ELSE route

\* A wrong variant: rows of a user are compared by a sample of one.
DerivationSampled ==
    Rows # {} => \E p \in Rows :
       CanDerive(p[2]) /\ route[p].address = Derive(env.seed, p[1], p[2])

\* verify_address_derivation_consistency.  It would skip the rows of other
\* providers, but does not read the column that says whose they are.
DerivationConsistent ==
    \A p \in Rows :
       CanDerive(p[2]) /\ route[p].address = Derive(env.seed, p[1], p[2])

\* run_startup_preflight, what of it is fatal to every service.
PreflightPasses == RouteIntegrity /\ DerivationConsistent

\* LocalHDAddressProvider.is_ready.
LocalReady == env.seed # None

\* HttpAddressProvider.is_ready: the service may be healthy or not.
HttpReady == {TRUE, FALSE}

\* What assert_startup_deposit_issuance_ready may find; it asks in production.
IssuanceReady ==
    CASE env.mode = "external_http" -> HttpReady
      [] env.mode = "local_hd" -> {LocalReady}
      [] env.mode = "legacy_seed" -> {TRUE}
      [] OTHER -> {FALSE}

\* main of bot.py: a bot that cannot issue runs degraded, one whose routes do
\* not pass does not run.
StartBot ==
    /\ bot = "down"
    /\ route' = StampedRoutes
    /\ IF PreflightPasses
       THEN \E ready \in IssuanceReady : bot' = IF ready THEN "issuing" ELSE "degraded"
       ELSE bot' = bot
    /\ UNCHANGED env

StopBot == bot # "down" /\ bot' = "down" /\ UNCHANGED <<route, env>>

-----------------------------------------------------------------------------
\* What the watchers are given.

Watched(assets) == {p \in Rows : p[2] \in assets}

\* monitored_deposit_address_map refuses to answer for an ambiguous table.
Unambiguous(assets) ==
    \A p, q \in Watched(assets) : route[p].address = route[q].address => p[1] = q[1]

\* The addresses to watch and whose they are.
MonitoredAddresses(assets) == {<<route[p].address, p[1]>> : p \in Watched(assets)}

=============================================================================
