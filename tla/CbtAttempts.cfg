\* Two requests that overlap at every await, a clock and a teacher's edit.
SPECIFICATION Spec
CONSTANTS
    NoOption = NoOption
    MaxNumber = 3
    MaxAttempts = 1
    Question = {q1}
    Option = {a}
    Duration = {1, 2}
    Req = {r1, r2}
    MaxTime = 2
    MaxEdits = 1
SYMMETRY ReqSymmetry
INVARIANTS
    OneLiveAttempt
    SavedWasScored
    NobodyLosesTime
    SubmittedByDeadline
PROPERTIES
    ClosedIsFinal
\* The tries, the clock and the edits of the instance are used up.
CHECK_DEADLOCK FALSE
