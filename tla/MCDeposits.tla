----------------------------- MODULE MCDeposits -----------------------------
(***************************************************************************)
(* Model checking of Deposits.                                             *)
(***************************************************************************)
EXTENDS Deposits, TLC

\* One user on each side of the hardened boundary, which is 8 here.
MCUserIds == {1, 9}

MCWanted == {<<1, "ETH">>, <<9, "ETH">>, <<1, "USDT">>, <<9, "BTC">>, <<1, "LTC">>,
             <<9, "SOL">>}

\* The provider of addresses may repeat itself.
MCHttpRoutes ==
    [f \in {"BTC", "LTC", "ETHEREUM", "SOLANA"} |->
        {<<<<"http", f>>, "r1">>, <<<<"http", f>>, "r2">>}]

Setting(mode, seed, percent, enabled, asked) ==
    [mode |-> mode, seed |-> seed, percent |-> percent, units |-> enabled,
     enabled |-> enabled, asked |-> asked]

TwoUsers == {<<1, "ETH">>, <<9, "ETH">>}

Eth == Setting("local_hd", "s1", 1, {"eth_watcher"}, TwoUsers)
EthOverpriced == Setting("legacy_seed", "s1", 150, {"eth_watcher"}, {<<1, "ETH">>, <<1, "USDT">>})
Btc == Setting("local_hd", "s1", 10, {"btc_watcher"}, {<<9, "BTC">>})
BtcCheap == Setting("local_hd", "s1", 0, {"btc_watcher"}, {<<9, "BTC">>})
BtcOtherSeed == Setting("local_hd", "s2", 10, {"btc_watcher"}, {<<9, "BTC">>})
BtcOff == [Btc EXCEPT !.enabled = {}]
Ltc == Setting("local_hd", "s1", 1, {"ltc_watcher"}, {<<1, "LTC">>})
Sol == Setting("local_hd", "s1", 1, {"sol_watcher"}, {<<9, "SOL">>})
EthHttp == Setting("external_http", None, 1, {"eth_watcher"}, TwoUsers)

MCEnvironments == {Eth, EthOverpriced, Btc, BtcCheap, BtcOtherSeed, BtcOff, Ltc, Sol, EthHttp}

MCRedeployments ==
    {<<Eth, EthOverpriced>>, <<EthOverpriced, Eth>>, <<Btc, BtcCheap>>, <<Btc, BtcOtherSeed>>,
     <<BtcOtherSeed, Btc>>, <<BtcOff, Btc>>, <<Btc, BtcOff>>, <<EthHttp, Eth>>}

SeedRow(seed, u, asset) ==
    [address |-> Derive(seed, u, asset), ref |-> None, origin |-> None, stamped |-> FALSE]

\* No rows; a row from before fingerprints; an address two users share; rows of
\* two seeds.
MCLegacyRoutes ==
    {<<>>,
     (<<1, "ETH">> :> SeedRow("s1", 1, "ETH")),
     (<<1, "ETH">> :> SeedRow("s1", 1, "ETH")) @@ (<<9, "ETH">> :> SeedRow("s1", 1, "ETH")),
     (<<9, "BTC">> :> SeedRow("s1", 9, "BTC")) @@ (<<1, "LTC">> :> SeedRow("s2", 1, "LTC"))}

Pay(to, asset, height, gross) == [to |-> to, asset |-> asset, height |-> height, gross |-> gross]

MCPayment ==
    [e1 |-> Pay(<<1, "ETH">>, "ETH", 1, 100),
     e2 |-> Pay(<<1, "ETH">>, "USDT", 2, 50),
     b1 |-> Pay(<<9, "BTC">>, "BTC", 1, 25),
     l1 |-> Pay(<<1, "LTC">>, "LTC", 1, 30),
     s1 |-> Pay(<<9, "SOL">>, "SOL", 2, 200)]

MCTransfers == {"e1", "e2", "b1", "l1", "s1"}

MCConfirmations == [w \in Watchers |-> IF w = "sol_watcher" THEN 0 ELSE IF w = "eth_watcher" THEN 1 ELSE 2]

=============================================================================
