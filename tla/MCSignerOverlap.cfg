SPECIFICATION SignerSpec
CONSTANTS
    Null = Null
    WithdrawalUsers = {u}
    WithdrawalAmounts = {1000}
    Quantum = 10
    WithdrawalFeeBps = 150
    NetworkFee = 30
    ActualFees = {20, 50}
    TxidSane = TRUE
    WithdrawalIds = {1}
    Funds <- MCWithdrawalFunds
    Price = 1
    MinimumUsd = 10
    DailyLimitUsd = 5000
    Unpayable = {}
    OperatorMoves <- DocumentedMoves
    AdminFailsWhen = {"rejected", "permanent_failure"}
    Overlap = TRUE
    MaxFaults = 0
INVARIANT
    UnresolvedStaysReserved
