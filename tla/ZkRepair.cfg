SPECIFICATION RepairSpec
CONSTANTS
    g1 = g1
    g2 = g2
    p1 = p1
    p2 = p2
    p3 = p3
    a1 = a1
    a2 = a2
    NoTx = NoTx
    Spenders = {a1}
    Groups = {g1, g2}
    Prices = {p1, p2}
    MaxNonce = 2
    MayRevert <- FirstNonce
    Losable <- AllTxs
    StaleNonce = FALSE
    PayerKind = "zksync"
    Limit = 2
    Drains = {FALSE, TRUE}
    Lag = "any"
    MaxAborts = 1
INVARIANTS
    NoDoublePay
    RepairForgetsNoPayment
    OnePendingPerNonce
    DoneMeansPaid
SYMMETRY GroupSymmetry
