SPECIFICATION Spec
CONSTANTS
    o1 = o1
    o2 = o2
    r1 = r1
    r2 = r2
    r3 = r3
    None = None
    Chain = {1, 2}
    Payload = {"p1", "p1b", "p2", "p3", "p4", "p5", "p6"}
    Digest = {"d1", "d2", "d3"}
    Tree <- WireTree
    Sha <- WireSha
    DigestOf <- WireDigestOf
    GateOf <- WireGateOf
    MaxValidityWindow = 1
    Req = {r2, r3}
    Owner = {o1}
    Wallet = {"w1", "w2"}
    Scan = {"s1", "s2"}
    Domain = {"cpm", "other"}
    Route <- RouteVerify
    Bodies <- BodiesWire
    ClientMessages <- MessagesWire
    Signatures = {"w1", "w2", "blank", "invalid"}
    MaxClock = 1
    MaxTarget = 1
    MaxNesting = 3
    ClockSkew = 0
INVARIANTS
    EngagementSound
    TextAgrees
    StoredPayloadIsSigned
CONSTRAINT ListBesideCreate
CHECK_DEADLOCK FALSE
