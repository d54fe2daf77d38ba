\* Two calls between two users, which may cross, with every fault of the
\* browser, and a connection that is cut once.
SPECIFICATION FairCalls
CONSTANTS
    ann = ann
    bob = bob
    t1 = t1
    s1 = s1
    s2 = s2
    s3 = s3
    None = None
    User = {ann, bob}
    Tenant = {t1}
    Socket = {s1, s2, s3}
    UserOf <- MCUserOf
    TenantOf <- MCTenantOf
    Direct <- MCDirect
    CallId = {i1, i2}
    RingTimeout = 1
    Faults = {"given_up", "mic", "media", "cut"}
INVARIANTS
    QuietScreensAgree
    TalkingWasAccepted
PROPERTY
    RingingEnds
CHECK_DEADLOCK FALSE
