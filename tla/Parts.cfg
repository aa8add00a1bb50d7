SPECIFICATION PartsSpec
CONSTANTS
    Processes = {q1, q2, q3}
    Payouts = 2
    NoFile = NoFile
    MaxFaults = 3
    NoTx = NoTx
    Spenders = {a1}
    Groups = {g1, g2}
    Prices = {p1, p2}
    MaxNonce = 1
    Commands = {c1, c2}
    Nobody = Nobody
    Lines = {1, 2}
    MaxCalls = 4
    y1 = y1
    y2 = y2
    u1 = u1
    u2 = u2
    Payees = {y1, y2}
    Amounts = {u1, u2}
    Records <- MCRecords
    MaxRecords = 3
    MaxEdits = 1
    Callers = {r1, r2}
    NoEntry = NoEntry
    FeeExpiry = 2
    Horizon = 3
    Quoters = {r1, r2}
    Unlocked = Unlocked
    NeverFetched = NeverFetched
    QuoteExpiry = 2
    QuoteHorizon = 5
    MaxGas = 3
    GasTipCap = 1
    HighestFee = 5
    Constructors = {"CreatePayer", "NewPayers", "NewAuditors"}
    Amount = 2
    MostTokens = 4
    Batch = {b1, b2, b3}
    AdHoc = adhoc
    PipelineLimit = 2
    Drainings = {TRUE, FALSE}
    MaxInterrupts = 2
    MaxFailures = 2
INVARIANTS
    DirInv
    ReadsAgree
    LoadsNonceGroups
    AuditSeesEdits
    FreshFees
    ClientsOwned
    ExitTellsOutcome
PROPERTIES
    PublishedForGood
    EventuallyImported
    ImplementsStore
    AnswersAreTrue
    EveryPaymentOnce
    OnlyNeededFetches
    WaitEnds
    VerdictIsTrue
    MinedIsNoticed
    RecordsOnlyWhatIsWanted
    SimSettlesAll
CHECK_DEADLOCK FALSE
