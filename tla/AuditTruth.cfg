SPECIFICATION AuditSpec
CONSTANTS
    g1 = g1
    g2 = g2
    p1 = p1
    p2 = p2
    a1 = a1
    NoTx = NoTx
    Spenders = {a1}
    Groups = {g1, g2}
    Prices = {p1, p2}
    MaxNonce = 2
    MayRevert <- FirstNonce
    Losable <- FirstPrice
    StaleNonce = TRUE
    PayerKind = "eth"
    Limit = 1
    Drains = {FALSE}
    Lag = "none"
    MaxAborts = 1
INVARIANTS
    ReceiptsArePayments
    UnpaidIsUnpaid
    ReceiptsAreComplete
    NoFalseAlarm
SYMMETRY GroupSymmetry
