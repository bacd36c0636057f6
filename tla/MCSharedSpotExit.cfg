SPECIFICATION Spec
CONSTANTS
    Traders <- MCTraders
    Mints <- MCMints
    Assets <- MCMints
    SpotBooks <- MCSpot
    PredictionBooks = {}
    QuoteOf <- MCQuoteOf
    ClaimOf <- MCClaimOf
    Scale <- MCScale
    Tick <- MCTick
    Lot <- MCLot
    Payout <- MCPayout
    WalletTokens <- ExitWallet
    Prices = {5, 10}
    Quantities = {2, 3}
    TransferAmounts = {3, 4}
    FeeRates = {1000}
    MaxOrders = 3
INVARIANTS OpenOrdersRecoverable
