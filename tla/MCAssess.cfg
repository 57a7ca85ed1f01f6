\* The assessment route: two requests, one scan, a connection that may fail.
SPECIFICATION SpecAll
CONSTANTS
    u1 = u1  w1 = w1  t1 = t1  s1 = s1
    Req = {r1, r2}
    User = {u1}
    Wallet = {w1}
    Token = {t1}
    UserOf <- MCUserOf
    ExpiryOf <- MCExpiryOf
    Leeway = 0
    Id = {"s1"}
    Scan = {s1}
    ScanOf <- MCScanOf
    OwnerOf <- MCOwnerOf
    WalletOf <- MCWalletOf
    Inputs <- MCInputs
    Environments <- MCEnvironments
    MaxClock = 0
    Blank = Blank  Invalid = Invalid  None = None
CHECK_DEADLOCK FALSE
INVARIANTS TransportTypeOK CommandsAreVouched SentOnceIfAccepted LostOnlyWithConnection
PROPERTIES AcceptedIsSettled EveryRequestAnswered
