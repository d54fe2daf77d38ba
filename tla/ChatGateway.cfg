\* Three users, one of them on two tabs, in one tenant.
SPECIFICATION Spec
CONSTANTS
    ann = ann
    bob = bob
    cy = cy
    t1 = t1
    s1 = s1
    s2 = s2
    s3 = s3
    s4 = s4
    None = None
    User = {ann, bob, cy}
    Tenant = {t1}
    Socket = {s1, s2, s3, s4}
    UserOf <- MCUserOf
    TenantOf <- OneTenant
    Direct <- MCDirect
    CallId = {i1, i2}
    RingTimeout = 1
SYMMETRY CallSymmetry
INVARIANTS
    OneCallEach
    PresenceIsTrue
PROPERTIES
    DropEndsEveryCall
CHECK_DEADLOCK FALSE
