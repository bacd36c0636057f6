SPECIFICATION Spec
CONSTANTS
    Traders <- MCTraders
    Scale = 10
    Tick = 5
    Lot = 1
    WalletTokens <- MoneyWallet
    Prices = {5, 15}
    Quantities = {1, 2, 3}
    TransferAmounts = {1, 3}
    FeeRates = {1000}
    MaxOrders = 2
INVARIANTS TypeOK VaultsBacked LocksBacked OpenOrdersCancelable ClosedOwesNothing
PROPERTIES HistoryNeverOverwritten
