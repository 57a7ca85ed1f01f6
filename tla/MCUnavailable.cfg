SPECIFICATION Spec
CONSTANTS
    o1 = o1
    o2 = o2
    r1 = r1
    r2 = r2
    r3 = r3
    None = None
    Chain = {1, 2}
    Payload = {"p1", "p1b", "p2", "p3"}
    Digest = {"d1", "d2"}
    DigestOf <- MCDigestOf
    GateOf <- MCGateOf
    MaxValidityWindow = 1
    Req = {r1, r2, r3}
    Owner = {o1, o2}
    Wallet = {"w1"}
    Scan = {"s1"}
    Domain = {"cpm"}
    Route <- RouteOwners
    Bodies <- BodiesOwners
    ClientMessages <- MessagesOwners
    Signatures = {"w1"}
    MaxClock = 0
    MaxTarget = 1
    ClockSkew = 0
PROPERTIES
    UnavailableIs503
CHECK_DEADLOCK FALSE
