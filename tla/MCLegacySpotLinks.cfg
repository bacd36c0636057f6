SPECIFICATION Spec
CONSTANTS
    Traders <- MCTraders
    Scale = 1
    Tick = 1
    Lot = 1
    WalletTokens <- LinksWallet
    Prices = {1, 2, 3}
    Quantities = {1, 2}
    TransferAmounts = {3}
    FeeRates = {0}
    MaxOrders = 3
INVARIANTS IndexMatchesOrders
PROPERTIES PriceTimePriority
