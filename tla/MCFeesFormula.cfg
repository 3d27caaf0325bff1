SPECIFICATION Spec
CONSTANTS
    Cent = 20
    PlatformFeeBps = 300
    MaxAmount = 2000
    MinAmount = 3
    BotFees = {0, 75, 150, 300}
INVARIANTS
    PayoutFormula
CHECK_DEADLOCK FALSE
