SPECIFICATION Spec
CONSTANTS
    Traders <- MCTraders
    Mints <- MCMints
    Assets <- MCMints
    SpotBooks <- MCSpot
    PredictionBooks = {}
    QuoteOf <- MCQuoteOf
    ClaimOf <- MCClaimOf
    Scale <- MCScale
    Tick <- MCOne
    Lot <- MCOne
    Payout <- MCPayout
    WalletTokens <- MCWallet
    Prices = {5, 15}
    Quantities = {1, 2, 3}
    TransferAmounts = {3}
    FeeRates = {1000}
    MaxOrders = 1
INVARIANTS TypeOK CustodyBacked OrdersFunded LocksBacked
PROPERTIES HistoryNeverOverwritten
