SPECIFICATION FlowSpec
CONSTANTS
    None = None
    Users = {1, 2, 3}
    Bots = {bot}
    EscrowIds = {d1}
    Moderators = {503}
    Owners = {3}
    BotFees = {0}
    Amounts = {1000}
    SplitPercents = {50}
    InitialFunds <- MCFunds
    LivePrices = {5}
    FallbackPrice = 4
    MinEscrowUsd = 4000
    Cent = 10
    PlatformFeeBps = 300
    TelegramId <- IdsOfProduction
PROPERTIES
    DisputesAreResolved
