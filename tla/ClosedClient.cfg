SPECIFICATION ClientsSpec
CONSTANTS
    Constructors = {"CreatePayer"}
INVARIANT PayerReachesNode
CHECK_DEADLOCK FALSE
