SPECIFICATION FlowSpec
CONSTANTS
    None = None
    Users = {1, 2}
    Bots = {bot}
    EscrowIds = {d1, d2}
    Moderators = {2, 501}
    Owners = {2}
    BotFees = {150}
    Amounts = {1010}
    SplitPercents = {50}
    InitialFunds <- MCFunds
    LivePrices = {5}
    FallbackPrice = 4
    MinEscrowUsd = 4000
    Cent = 20
    PlatformFeeBps = 300
    TelegramId <- IdsOfTests
INVARIANTS
    FlowTypeOK
    ReasonBelongsToDeal
    EscrowBooksNearlyBalance
PROPERTIES
    DisputesAreResolved
