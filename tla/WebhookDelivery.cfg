\* Runs that may outlive their lease, replicas that crash, updates that fail,
\* and one event for two webhooks, of which a run reads one row at a time.
SPECIFICATION FairJobs
CONSTANTS
    Run = {r1, r2}
    NoRow = NoRow
    Lease = 1
    MaxSkew = 0
    MaxClaim = 1
    MaxRun = 2
    MaxCrash = 1
    Hook = {h1, h2}
    Removable = {h2}
    Event = {e1}
    Limit = 2
    Take = 1
    MaxFault = 1
INVARIANTS
    TimelyIsAlone
    AttemptsAreCounted
PROPERTIES
    DeliveredIsFinal
    EveryDeliveryEnds
