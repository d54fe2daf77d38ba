\* Three subscriptions, one of them without a plan, two handlers at a time, one
\* fault and one use of credits.
SPECIFICATION FairBillingSpec
CONSTANTS
    Plan <- MCPlan
    Free = "free"
    Included <- MCIncluded
    NoPlan = NoPlan
    NoSub = 0
    Sub = {1, 2, 3}
    PlanOf <- MCPlanOf
    Worker = {1, 2}
    MaxEvents = 3
    MaxFaults = 1
    MaxUses = 1
INVARIANTS LedgerExplainsBalance SettledMirrorsStripe
PROPERTIES EventsSettle
CHECK_DEADLOCK FALSE
