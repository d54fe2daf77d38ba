\* Two requests, the escalation job and a template edit, overlapping freely.
SPECIFICATION Spec
CONSTANTS
    ann = ann
    bob = bob
    cy = cy
    NoUser = NoUser
    Cron = Cron
    NSteps = 3
    User <- TwoUsers
    Admin = {ann}
    Starter = {ann}
    Submission = {1}
    Required = {1, 2}
    Resolve <- TwoResolve
    Holder <- NoHolder
    Rules <- TwoRules
    Req = {r1, r2}
    Serial = FALSE
    MaxEdits = 1
SYMMETRY ReqSymmetry
INVARIANTS
    ApprovedHasNoOpenStep
PROPERTIES
    DecidedStaysDecided
    NoStepOvertaken
CHECK_DEADLOCK FALSE
