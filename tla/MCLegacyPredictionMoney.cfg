SPECIFICATION Spec
CONSTANTS
    Traders = {ann, bob}
    Tick = 2
    Payout = 4
    WalletTokens <- MoneyWallet
    Tradable = {"Yes", "No"}
    Prices = {2}
    Quantities = {1, 2}
    TransferAmounts = {2}
    FeeRates = {1000}
    MaxOrders = 2
INVARIANTS TypeOK VaultsBacked SuppliesHeld ReserveExact OrdersBacked LocksBacked
           OpenOrdersCancelable
CHECK_DEADLOCK FALSE
SYMMETRY Symmetry
