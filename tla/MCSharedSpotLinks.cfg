SPECIFICATION Spec
CONSTANTS
    Traders <- MCTraders
    Mints <- MCMints
    Assets <- MCMints
    SpotBooks <- MCSpot
    PredictionBooks = {}
    QuoteOf <- MCQuoteOf
    ClaimOf <- MCClaimOf
    Scale <- LinksOne
    Tick <- LinksOne
    Lot <- MCLot
    Payout <- MCPayout
    WalletTokens <- LinksWallet
    Prices = {1, 2, 3}
    Quantities = {1, 2}
    TransferAmounts = {3}
    FeeRates = {0}
    MaxOrders = 3
INVARIANTS PricesLinked QueuesLinked
PROPERTIES PriceTimePriority
