\* Two members; two requests of any kind, or three sends, two of which may overlap;
\* the browser of one member, whose socket connects, joins or is refused, and drops.
SPECIFICATION FairMessages
CONSTANTS
    Member = {ann, bob}
    Admin = {ann}
    Msg = {1, 2, 3, 4}
    Req = {1, 2}
    First = ann
    Viewer = {bob}
    PlanLimit = 2
    MaxOps = 2
    MaxSends = 3
    NoMsg = NoMsg
    NoPoll = NoPoll
INVARIANTS DeletedHasNoBody OvershootIsBounded
PROPERTIES ScreensConverge ShownIsRead
CHECK_DEADLOCK FALSE
