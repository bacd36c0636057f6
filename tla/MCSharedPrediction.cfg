SPECIFICATION Spec
CONSTANTS
    Traders <- MCTraders
    Mints <- MCMints
    Assets <- MCAssets
    SpotBooks = {}
    PredictionBooks <- MCBooks
    QuoteOf <- MCQuoteOf
    ClaimOf <- MCClaimOf
    Scale <- MCOne
    Tick <- MCTick
    Lot <- MCOne
    Payout <- MCPayout
    WalletTokens <- MCWallet
    Prices = {5}
    Quantities = {1, 2}
    TransferAmounts = {10}
    FeeRates = {1000}
    MaxOrders = 2
INVARIANTS ReserveExact SuppliesHeld OpenOrdersRecoverable
