\* Requests, integration and escalation job, one handler at a time.
SPECIFICATION EscalationSpec
CONSTANTS
    ann = ann
    bob = bob
    cy = cy
    NoUser = NoUser
    Cron = Cron
    NSteps = 3
    User <- MCUser
    Admin = {cy}
    Starter = {ann}
    Submission = {1}
    Required = {1, 2}
    Resolve <- MCResolve
    Holder <- RoleHolder
    Rules <- AutoRules
    Req = {r1}
    Serial = TRUE
    MaxEdits = 0
PROPERTIES
    ImplementsLifecycle
    EscalationFinishes
CHECK_DEADLOCK FALSE
