SPECIFICATION FairSpec
CONSTANTS
    Tenant = {acme, zenith}
    Days = {1, 2}
    NoEnd = NoEnd
    Req = {p, q}
    MaxDeletes = 1
    MaxChanges = 4
INVARIANTS DecisionsAreKept
PROPERTIES LapsedIsMarked
