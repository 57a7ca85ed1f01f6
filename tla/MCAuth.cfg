\* The middleware on one request of every kind.
SPECIFICATION Spec
CONSTANTS
    u1 = u1  u2 = u2  w1 = w1  t1 = t1  t2 = t2  t3 = t3  s1 = s1  s2 = s2  s3 = s3
    Req = {r1}
    User = {u1, u2}
    Wallet = {w1}
    Token = {t1, t2, t3}
    UserOf <- MCUserOf
    ExpiryOf <- MCExpiryOf
    Leeway = 1
    Id = {"s1", "S1", "s2", "s3", "no uuid"}
    Scan = {s1, s2, s3}
    ScanOf <- MCScanOf
    OwnerOf <- MCOwnerOf
    WalletOf <- MCWalletOf
    Inputs <- MCInputs
    Environments <- MCEnvironments
    MaxClock = 1
    Blank = Blank  Invalid = Invalid  None = None
INVARIANTS TypeOK HandlerIsVouched OwnerRoutesNeedDiscovery ExploresLatestScan RefusalIsGrounded
CHECK_DEADLOCK FALSE
CONSTRAINT Unfinished
