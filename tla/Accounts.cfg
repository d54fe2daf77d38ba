\* Two tabs that share a cookie, three tokens, and four requests around them.
SPECIFICATION Spec
CONSTANTS
    Tab = {t1, t2}
    Flight = {f1, f2}
    Job = {1, 2}
    Token = {1, 2, 3}
    NoToken = NoToken
    NoTab = NoTab
    MaxOps = 4
    Reenrols = 1
SYMMETRY AccountsSymmetry
INVARIANTS OldSessionsEnd StaysSignedIn LeaverCannotSignIn
CHECK_DEADLOCK FALSE
