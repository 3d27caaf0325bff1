SPECIFICATION Spec
CONSTANTS
    None = None
    UserIds <- MCUserIds
    Wanted <- MCWanted
    Radix = 8
    HttpRoutes <- MCHttpRoutes
    Environments <- MCEnvironments
    LegacyRoutes <- MCLegacyRoutes
    Transfers <- MCTransfers
    Payment <- MCPayment
    Confirmations <- MCConfirmations
    Redeployments <- MCRedeployments
    MaxBlocksPerRun = 1
    LastBlock = 3
    MaxFaults = 2
CHECK_DEADLOCK FALSE
INVARIANTS
    ProviderRoutesPassPreflight
