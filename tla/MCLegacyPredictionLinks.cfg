SPECIFICATION TradingSpec
CONSTANTS
    Traders = {ann, bob}
    Tick = 1
    Payout = 4
    WalletTokens <- TradingWallet
    Tradable = {"Yes", "No"}
    Prices = {1, 2, 3}
    Quantities = {1, 2}
    TransferAmounts = {4}
    FeeRates = {0}
    MaxOrders = 3
INVARIANTS IndexMatchesOrders
PROPERTIES PriceTimePriority
CHECK_DEADLOCK FALSE
SYMMETRY Symmetry
