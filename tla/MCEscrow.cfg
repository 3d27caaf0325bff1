SPECIFICATION Spec
CONSTANTS
    alice = alice
    bob = bob
    None = None
    Users <- MCUsers
    Bots = {bot}
    EscrowIds = {d1, d2}
    Moderators = {moderator}
    Owners = {alice, bob}
    BotFees = {0, 150}
    Amounts = {1000, 2000}
    SplitPercents = {0, 30}
    InitialFunds <- MCFunds
    LivePrices = {3, 5}
    FallbackPrice = 4
    MinEscrowUsd = 4000
    Cent = 10
    PlatformFeeBps = 300
INVARIANTS
    TypeOK
    LockFollowsStatus
    EscrowBooksBalance
    NoOverdraft
    DisputeRowsFollowStatus
    EntriesReachTheirParties
PROPERTIES
    SettledIsFinal
    ImplementsCustody
