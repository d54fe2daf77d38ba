------------------------------ MODULE Accounts ------------------------------
(***************************************************************************)
(* The login of one student: its password, the refresh tokens that auth/   *)
(* issues, rotates and revokes, the browser whose tabs share one cookie,   *)
(* the reset link and the reset request an administrator decides, and the  *)
(* enrolment (school/students.service.ts) that enables and disables it.    *)
(* Every request reads first and writes later, and some write twice.       *)
(***************************************************************************)
EXTENDS Integers, FiniteSets

CONSTANTS
    Tab,        \* tabs of the browser
    Flight,     \* logins and refreshes in flight
    Job,        \* slots for the other requests, taken in order
    Token,      \* refresh token ids, taken in order
    NoToken,    \* the browser has no refresh cookie
    NoTab,
    MaxOps,     \* bound: requests other than refreshes
    Reenrols    \* bound: enrolments after the first

ASSUME AccountsAssumption ==
    /\ Job \subseteq Nat /\ Token \subseteq Nat /\ NoToken \notin Token /\ NoTab \notin Tab
    /\ MaxOps \in Nat /\ Reenrols \in Nat

VARIABLES
    pw,         \* how often the password was set: the value it has
    active,     \* user.isActive
    status,     \* the student row: "none", "ACTIVE", "OTHER", or "removed"
    token,      \* the refresh token rows, with the password their session logged in with
    cookie,     \* the browser's refresh cookie
    flight,     \* logins and refreshes
    job,        \* the other requests
    link,       \* the latest password-reset link: "none", "live", "used"
    ask,        \* the PasswordResetRequest row
    ops, enrols,
    signed,     \* history: signed in, and nothing that would end the session since
    crossed,    \* history: a session was being issued when the password changed
    overlapped, \* history: two of the other requests were in flight together
    leftBy      \* history: what ended the enrolment: "no", "change", "failure", "enrolment"

account == <<pw, link, ask>>
student == <<active, status, enrols, leftBy>>
session == <<token, cookie, flight, signed>>
vars    == <<account, student, session, job, ops, crossed, overlapped>>

Grounded == [at |-> "idle", tab |-> NoTab, tk |-> NoToken, pw |-> 0]
Free     == [at |-> "free", kind |-> "none", arg |-> "none"]
Unissued == [state |-> "none", pw |-> 0]

Kinds == {"change", "forgot", "reset", "approve", "reject", "status", "remove"}

TokenRow == [state : {"none", "live", "revoked"}, pw : 0 .. MaxOps]
Exchange == [at : {"idle", "check", "revoke", "issue", "ok", "fail"}, tab : Tab \cup {NoTab},
             tk : Token \cup {NoToken}, pw : 0 .. MaxOps]
Request  == [at : {"free", "write", "login"}, kind : Kinds \cup {"none"},
             arg : {"none", "ACTIVE", "OTHER", "removed"}]

TypeOK ==
    /\ pw \in 0 .. MaxOps /\ active \in BOOLEAN
    /\ status \in {"none", "ACTIVE", "OTHER", "removed"}
    /\ token \in [Token -> TokenRow] /\ cookie \in Token \cup {NoToken}
    /\ flight \in [Flight -> Exchange] /\ job \in [Job -> Request]
    /\ link \in {"none", "live", "used"}
    /\ ask \in {"none", "PENDING", "COMPLETED", "REJECTED"}
    /\ signed \in BOOLEAN /\ crossed \in BOOLEAN /\ overlapped \in BOOLEAN
    /\ leftBy \in {"no", "change", "failure", "enrolment"}
    /\ ops \in 0 .. MaxOps /\ enrols \in 0 .. Reenrols + 1

Init ==
    /\ pw = 0 /\ active = FALSE /\ status = "none"
    /\ token = [k \in Token |-> Unissued] /\ cookie = NoToken
    /\ flight = [f \in Flight |-> Grounded] /\ job = [j \in Job |-> Free]
    /\ link = "none" /\ ask = "none"
    /\ ops = 0 /\ enrols = 0
    /\ signed = FALSE /\ crossed = FALSE /\ overlapped = FALSE /\ leftBy = "no"

-----------------------------------------------------------------------------
\* Sessions.

Unused == {k \in Token : token[k].state = "none"}
Fly(f, at, t, k, p) == flight' = [flight EXCEPT ![f] = [at |-> at, tab |-> t, tk |-> k, pw |-> p]]
AtGate(f) == flight[f].at = "idle" /\ Unused # {}

\* login: the account is active and the password matches; the token follows.
Login(f, t) ==
    /\ AtGate(f) /\ ops < MaxOps /\ ops' = ops + 1
    /\ active
    /\ Fly(f, "issue", t, NoToken, pw)
    /\ UNCHANGED <<account, student, token, cookie, signed, job, crossed, overlapped>>

\* (Mutant of OnePerTab: each 401 of a tab starts a refresh of its own.)
NoSharedPromise(t) == TRUE

\* refreshPromise: one refresh per tab, which later 401s of the tab wait for.
OnePerTab(t) == \A f \in Flight : flight[f].tab # t

\* A 401: POST /auth/refresh with the cookie of now.  Two tabs may both do it.
Refresh(f, t) ==
    /\ AtGate(f) /\ OnePerTab(t) /\ cookie # NoToken
    /\ Fly(f, "check", t, cookie, token[cookie].pw)
    /\ signed' = (signed /\ \A g \in Flight : flight[g].tab \in {t, NoTab})
    /\ UNCHANGED <<account, student, token, cookie, job, ops, crossed, overlapped>>

\* rotateRefreshToken: the row is not revoked, then the account is active.
RotateCheck(f) ==
    /\ flight[f].at = "check"
    /\ flight' = [flight EXCEPT ![f].at =
          IF token[flight[f].tk].state = "live" /\ active THEN "revoke" ELSE "fail"]
    /\ UNCHANGED <<account, student, token, cookie, signed, job, ops, crossed, overlapped>>

RotateRevoke(f) ==
    /\ flight[f].at = "revoke"
    /\ token' = [token EXCEPT ![flight[f].tk].state = "revoked"]
    /\ flight' = [flight EXCEPT ![f].at = "issue"]
    /\ UNCHANGED <<account, student, cookie, signed, job, ops, crossed, overlapped>>

\* issueRefreshToken creates the row of the new token.
Issue(f) ==
    /\ flight[f].at = "issue"
    /\ \E k \in Unused :
          /\ \A o \in Unused : k <= o
          /\ token' = [token EXCEPT ![k] = [state |-> "live", pw |-> flight[f].pw]]
          /\ flight' = [flight EXCEPT ![f].at = "ok", ![f].tk = k]
    /\ UNCHANGED <<account, student, cookie, signed, job, ops, crossed, overlapped>>

\* A statement fails: a login just answers with an error, a refresh as when the token
\* is not valid.
StatementFails(f) ==
    /\ flight[f].at \in {"check", "revoke", "issue"} /\ ops < MaxOps /\ ops' = ops + 1
    /\ flight' = [flight EXCEPT ![f] = IF @.tk = NoToken THEN Grounded ELSE [@ EXCEPT !.at = "fail"]]
    /\ signed' = (signed /\ flight[f].tk = NoToken)
    /\ UNCHANGED <<account, student, token, cookie, job, crossed, overlapped>>

\* The response sets the cookies, or clears them: whatever they hold by now.
Answer(f) ==
    /\ flight[f].at \in {"ok", "fail"}
    /\ cookie' = IF flight[f].at = "ok" THEN flight[f].tk ELSE NoToken
    /\ signed' = IF flight[f].at = "ok" /\ active /\ token[flight[f].tk].state = "live"
                    /\ \A g \in Flight \ {f} : flight[g].at = "idle"
                 THEN TRUE ELSE signed
    /\ flight' = [flight EXCEPT ![f] = Grounded]
    /\ UNCHANGED <<account, student, token, job, ops, crossed, overlapped>>

\* The response is lost: the browser keeps the cookie it sent.
AnswerLost(f) ==
    /\ flight[f].at \in {"ok", "fail"} /\ ops < MaxOps /\ ops' = ops + 1
    /\ flight' = [flight EXCEPT ![f] = Grounded]
    /\ signed' = FALSE
    /\ UNCHANGED <<account, student, token, cookie, job, crossed, overlapped>>

\* logout: the token of the cookie is revoked and the cookies are cleared.
Logout ==
    /\ cookie # NoToken /\ ops < MaxOps /\ ops' = ops + 1
    /\ token' = [token EXCEPT ![cookie].state = "revoked"]
    /\ cookie' = NoToken /\ signed' = FALSE
    /\ UNCHANGED <<account, student, flight, job, crossed, overlapped>>

-----------------------------------------------------------------------------
\* Passwords.

Arrives(j) ==
    /\ job[j].at = "free" /\ \A o \in Job : o < j => job[o].at # "free"
    /\ ops < MaxOps /\ ops' = ops + 1
    /\ overlapped' = (overlapped \/ \E o \in Job : job[o].at # "free")

Take(j, at, kind, arg) == job' = [job EXCEPT ![j] = [at |-> at, kind |-> kind, arg |-> arg]]
Done(j) == job' = [job EXCEPT ![j] = Free]

\* What each request reads before it writes: changePassword compares the current
\* password, forgotPassword finds an active account, resetPassword a live link,
\* and the two decisions a PENDING request.
Reads(kind) ==
    CASE kind = "change" -> cookie # NoToken
      [] kind = "forgot" -> active
      [] kind = "reset"  -> link = "live"
      [] kind \in {"approve", "reject"} -> ask = "PENDING"

Ask(j) ==
    /\ \E kind \in {"change", "forgot", "reset", "approve", "reject"} :
          Reads(kind) /\ Arrives(j) /\ Take(j, "write", kind, "none")
    /\ UNCHANGED <<account, student, session, crossed>>

\* createPasswordResetRequest, when there is none that is pending.
AskAdmin ==
    /\ status # "none" /\ ask = "none" /\ ops < MaxOps /\ ops' = ops + 1
    /\ ask' = "PENDING"
    /\ UNCHANGED <<pw, link, student, session, job, crossed, overlapped>>

\* (Mutant of Revoked: only the token of the request is revoked.)
RevokedOwn == [k \in Token |-> IF k = cookie THEN [token[k] EXCEPT !.state = "revoked"] ELSE token[k]]

\* revokeAllRefreshTokens.
Revoked == [k \in Token |-> IF token[k].state = "live" THEN [token[k] EXCEPT !.state = "revoked"] ELSE token[k]]

\* One transaction sets the password and revokes the tokens there are.
SetPassword ==
    /\ pw' = pw + 1
    /\ token' = Revoked
    /\ signed' = FALSE
    /\ crossed' = (crossed \/ \E f \in Flight : flight[f].at \in {"revoke", "issue"})
    /\ UNCHANGED <<cookie, flight>>

\* The transaction of changePassword, resetPassword or approvePasswordReset.
CommitPassword(j) ==
    /\ job[j].at = "write" /\ job[j].kind \in {"change", "reset", "approve"}
    /\ SetPassword
    /\ link' = IF job[j].kind = "reset" THEN "used" ELSE link
    /\ ask' = IF job[j].kind = "approve" THEN "COMPLETED" ELSE ask
    /\ Done(j)
    /\ UNCHANGED <<student, ops, overlapped>>

\* issueAndEmailForUser: earlier links are used up, a new one is created.
CommitLink(j) ==
    /\ job[j].at = "write" /\ job[j].kind = "forgot"
    /\ link' = "live" /\ Done(j)
    /\ UNCHANGED <<pw, ask, student, session, ops, crossed, overlapped>>

\* rejectPasswordReset.
CommitReject(j) ==
    /\ job[j].at = "write" /\ job[j].kind = "reject"
    /\ ask' = "REJECTED" /\ Done(j)
    /\ UNCHANGED <<pw, link, student, session, ops, crossed, overlapped>>

-----------------------------------------------------------------------------
\* Enrolment.

Enrolled == status \in {"ACTIVE", "OTHER"}

\* create, in one transaction, with any status of the form: a new account is
\* active, an account that already has the email is reused as it is.
Enrol(s) ==
    /\ ~Enrolled /\ enrols <= Reenrols /\ enrols' = enrols + 1
    /\ status' = s
    /\ active' = IF status = "none" THEN TRUE ELSE active
    /\ leftBy' = IF s = "ACTIVE" THEN "no" ELSE "enrolment"
    /\ UNCHANGED <<account, session, job, ops, crossed, overlapped>>

\* update with a status, and delete, up to their first write.
ChangeStatus(j) ==
    /\ Enrolled
    /\ \/ \E s \in {"ACTIVE", "OTHER"} : Arrives(j) /\ Take(j, "write", "status", s)
       \/ \E s \in {"OTHER", "removed"} : Arrives(j) /\ Take(j, "write", "remove", s)
    /\ UNCHANGED <<account, student, session, crossed>>

\* The student row: its new status, WITHDRAWN when there are records, or its end.
\* A row that another request removed makes the statement throw.
WriteStatus(j) ==
    /\ job[j].at = "write" /\ job[j].kind \in {"status", "remove"}
    /\ IF Enrolled
       THEN /\ status' = job[j].arg
            /\ leftBy' = IF job[j].arg = "ACTIVE" THEN "no" ELSE "change"
            /\ job' = [job EXCEPT ![j].at = "login"]
       ELSE Done(j) /\ UNCHANGED <<status, leftBy>>
    /\ UNCHANGED <<account, active, enrols, session, ops, crossed, overlapped>>

\* (Mutant of LoginFor: a removed student's login is left alone.)
LoginForUpdates(s) == IF s = "removed" THEN active ELSE s = "ACTIVE"

LoginFor(s) == s = "ACTIVE"

\* setLoginActive, a statement of its own.
WriteLogin(j) ==
    /\ job[j].at = "login"
    /\ active' = LoginFor(job[j].arg)
    /\ signed' = (signed /\ active')
    /\ Done(j)
    /\ UNCHANGED <<account, status, enrols, leftBy, token, cookie, flight, ops, crossed, overlapped>>

\* The request dies between the two.
LoginFails(j) ==
    /\ job[j].at = "login" /\ ops < MaxOps /\ ops' = ops + 1
    /\ leftBy' = IF leftBy = "change" THEN "failure" ELSE leftBy
    /\ Done(j)
    /\ UNCHANGED <<account, active, status, enrols, session, crossed, overlapped>>

-----------------------------------------------------------------------------

Next ==
    \/ \E f \in Flight : \/ RotateCheck(f) \/ RotateRevoke(f) \/ Issue(f) \/ StatementFails(f)
                         \/ Answer(f) \/ AnswerLost(f)
                         \/ \E t \in Tab : Login(f, t) \/ Refresh(f, t)
    \/ Logout \/ AskAdmin
    \/ \E j \in Job : \/ Ask(j) \/ CommitPassword(j) \/ CommitLink(j) \/ CommitReject(j)
                      \/ ChangeStatus(j) \/ WriteStatus(j) \/ WriteLogin(j) \/ LoginFails(j)
    \/ \E s \in {"ACTIVE", "OTHER"} : Enrol(s)

Spec == Init /\ [][Next]_vars

-----------------------------------------------------------------------------

NoFlight == \A f \in Flight : flight[f].at = "idle"
NoJob    == \A j \in Job : job[j].at = "free"

\* However the password came to be set, no session that was opened with an earlier
\* one can be refreshed, unless its token was just being issued.
OldSessionsEnd == crossed \/ \A k \in Token : token[k].state = "live" => token[k].pw = pw

\* A browser stays signed in over its refreshes: unless it logs out, the account
\* changes, a refresh fails or its answer is lost, or two tabs refresh together (the
\* slower one is told that its token is revoked, and clears the cookies the faster one
\* has set).
StaysSignedIn == signed /\ NoFlight => cookie # NoToken /\ token[cookie].state = "live"

\* "A removed or withdrawn student must not keep an active portal login": unless
\* two changes overlap, the second write of one fails, or the student was enrolled
\* with that status.
LeaverCannotSignIn == NoJob /\ ~overlapped /\ leftBy = "change" => ~active

=============================================================================
