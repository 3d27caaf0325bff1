SPECIFICATION MCSpec
CONSTANTS
    None = None
    Users = {1, 2, 3}
    Talkers = {1}
    Others = {2}
    Frozen = {1, 2}
    Assets = {usdt, btc}
    DefaultAsset = usdt
    DealIds = {d1, d2}
    Addresses = {x, y}
SYMMETRY DealSymmetry
INVARIANTS
    ConversationsTypeOK
    WithdrawsWhatWasShown
    DealsKeepTheirQuote
    BuyersMakeTheirDeals
    FrozenFundsStay
    ContextDealIsOwn
