SPECIFICATION Spec
CONSTANTS
    o1 = o1
    o2 = o2
    p1 = p1
    p2 = p2
    p3 = p3
    None = None
    Blank = Blank
    Invalid = Invalid
    Owner = {o1, o2}
    Scan = {"s1", "S1"}
    FoldOf <- MCFoldOf
    Wallet = {"w1", "w2"}
    Address <- MCAddress
    NormalizeOf <- MCNormalizeOf
    Id = {1, 2, 3}
    Proc = {p1, p2}
    Calls <- CallsRoutes
INVARIANTS
    OneActivePolicy
    CountAgreesWithW1
PROPERTIES
    LedgerSpec
CHECK_DEADLOCK FALSE
