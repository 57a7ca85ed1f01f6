SPECIFICATION Spec
CONSTANTS
    o1 = o1
    o2 = o2
    r1 = r1
    r2 = r2
    r3 = r3
    None = None
    Chain = {1, 2}
    Payload = {"p1", "p1b", "p2", "p3"}
    Digest = {"d1", "d2"}
    DigestOf <- MCDigestOf
    GateOf <- MCGateOf
    MaxValidityWindow = 1
    Req = {r1, r2, r3}
    Owner = {o1}
    Wallet = {"w1"}
    Scan = {"s1"}
    Domain = {"cpm"}
    Route <- RouteRace
    Bodies <- BodiesRace
    ClientMessages <- MessagesRace
    Signatures = {"w1"}
    MaxClock = 2
    MaxTarget = 1
    ClockSkew = 0
SYMMETRY RaceSymmetry
INVARIANTS
    ReplayWindow
    RefusalIsFinal
PROPERTIES
    PromiseSpec
CHECK_DEADLOCK FALSE
