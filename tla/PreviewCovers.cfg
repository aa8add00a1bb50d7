SPECIFICATION FundsSpec
CONSTANTS
    g1 = g1
    g2 = g2
    a1 = a1
    NoTx = NoTx
    NoQuote = NoQuote
    Spenders = {a1}
    Groups = {g1, g2}
    Prices = {1, 2}
    MaxNonce = 2
    MayRevert <- AllTxs
    Losable <- SecondPrice
    StaleNonce = FALSE
    PayerKind = "eth"
    Limit = 2
    Drains = {FALSE}
    Lag = "none"
    MaxAborts = 2
    USD <- Amounts
    Deposit = 3
    TopUp = 1
    Allowances = {3, 4}
INVARIANTS
    WorthPaid
    AloneNeverReverts
PROPERTIES
    PreviewHolds
