SPECIFICATION Spec
CONSTANTS
    o1 = o1
    o2 = o2
    r1 = r1
    r2 = r2
    r3 = r3
    None = None
    Chain = {1, 2}
    Payload = {"p1", "p1b", "p2", "p3"}
    Digest = {"d1", "d2"}
    DigestOf <- MCDigestOf
    GateOf <- MCGateOf
    MaxValidityWindow = 1
    Req = {r1, r2}
    Owner = {o1}
    Wallet = {"w1"}
    Scan = {"s1", "s2"}
    Domain = {"cpm"}
    Route <- RouteEngage
    Bodies <- BodiesEngage
    ClientMessages <- MessagesEngage
    Signatures = {"w1"}
    MaxClock = 3
    MaxTarget = 1
    ClockSkew = 1
INVARIANTS
    FreshDuringRequest
    ScanLatestDuringRequest
    ChallengeIsHonoured
CHECK_DEADLOCK FALSE
