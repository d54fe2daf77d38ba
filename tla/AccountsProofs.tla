---------------------------- MODULE AccountsProofs ----------------------------
(***************************************************************************)
(* What the login of a student owes it, proved for any tabs, tokens and    *)
(* requests: old sessions end, a browser stays signed in, leavers do not.  *)
(***************************************************************************)
EXTENDS Accounts, FiniteSetTheorems, TLAPS

Busy == {j \in Job : job[j].at # "free"}

\* Each password set was a request of its own, and a request in flight is one too:
\* no session remembers a password the account never had.
PasswordsCounted ==
    /\ IsFiniteSet(Busy) /\ pw + Cardinality(Busy) <= ops
    /\ \A k \in Token : token[k].pw <= pw
    /\ \A f \in Flight : flight[f].pw <= pw

\* The tokens that the cookie and the flights name have rows, and a rotation
\* carries the password of the session it goes on with.
SessionRows ==
    /\ cookie # NoToken => token[cookie].state # "none"
    /\ \A f \in Flight : flight[f].at \in {"check", "revoke"}
          => flight[f].tk \in Token /\ token[flight[f].tk].state # "none"
             /\ token[flight[f].tk].pw = flight[f].pw
    /\ \A f \in Flight : flight[f].at = "ok"
          => flight[f].tk \in Token /\ token[flight[f].tk].state # "none"

\* Sessions that are about to be issued are as young as those that are live.
CurrentIssues ==
    ~crossed => \A f \in Flight : flight[f].at \in {"revoke", "issue"} => flight[f].pw = pw

InTab == \A f \in Flight : flight[f].tab = NoTab => flight[f].at = "idle"

\* While nothing has ended the session: at most one rotation, of a token that
\* is live; every answer under way brings a live token; and a cookie whose token
\* was revoked has its successor under way.
SignedIn ==
    signed =>
        /\ active
        /\ \A f \in Flight : flight[f].at # "fail"
        /\ \A f \in Flight : flight[f].at \in {"check", "revoke", "ok"} => token[flight[f].tk].state = "live"
        /\ \A f, g \in Flight : flight[f].at \in {"check", "revoke"} /\ flight[g].at \in {"check", "revoke"} => f = g
        /\ \A f, g \in Flight : flight[f].at \in {"check", "revoke"} /\ flight[g].at = "ok"
                                  => flight[f].tk # flight[g].tk
        /\ cookie # NoToken
        /\ \/ token[cookie].state = "live"
           \/ \E f \in Flight : flight[f].at = "ok" \/ (flight[f].at = "issue" /\ flight[f].tk # NoToken)

\* A change that took the student out of the classes has switched the login off,
\* or is about to.
Leaving ==
    /\ \A j \in Job : job[j].at # "free" /\ job[j].kind \in {"status", "remove"} => job[j].arg # "none"
    /\ \A j \in Job : job[j].at = "login" => job[j].kind \in {"status", "remove"}
    /\ status = "none" => leftBy = "no"
    /\ ~overlapped =>
          /\ \A i, j \in Busy : i = j
          /\ \A j \in Job : job[j].at = "login" /\ job[j].arg = "ACTIVE" => leftBy # "change"
          /\ leftBy = "change" => ~active \/ \E j \in Job : job[j].at = "login" /\ job[j].arg # "ACTIVE"


\* The password was set less often than there were requests, while one is in flight.
LEMMA CountedRange ==
    ASSUME TypeOK, PasswordsCounted
    PROVE  /\ Cardinality(Busy) \in Nat /\ pw <= ops
           /\ \A j \in Job : job[j].at # "free" => pw < ops
<1>1. Cardinality(Busy) \in Nat /\ (Busy # {} => Cardinality(Busy) # 0)
  BY FS_CardinalityType, FS_EmptySet DEF PasswordsCounted
<1>2. \A j \in Job : job[j].at # "free" => Busy # {}
  BY DEF Busy
<1> QED BY <1>1, <1>2, AccountsAssumption DEF TypeOK, PasswordsCounted

\* A request that arrives is one more in flight, and one that ends is one less.
LEMMA BusyStep ==
    ASSUME PasswordsCounted, NEW j \in Job,
           \A o \in Job \ {j} : job'[o].at = job[o].at
    PROVE  /\ IsFiniteSet(Busy)'
           /\ job[j].at = "free" => Cardinality(Busy)' <= Cardinality(Busy) + 1
           /\ job[j].at # "free" => Cardinality(Busy)' <= Cardinality(Busy)
           /\ job[j].at # "free" /\ job'[j].at = "free" => Cardinality(Busy)' = Cardinality(Busy) - 1
<1>1. Busy' = Busy \cup {j} \/ Busy' = Busy \ {j}
  BY DEF Busy
<1>2. j \in Busy <=> job[j].at # "free"
  BY DEF Busy
<1>3. job'[j].at = "free" => Busy' = Busy \ {j}
  BY DEF Busy
<1>4. /\ IsFiniteSet(Busy) /\ Cardinality(Busy) \in Nat
      /\ IsFiniteSet(Busy \cup {j}) /\ Cardinality(Busy \cup {j}) = IF j \in Busy THEN Cardinality(Busy) ELSE Cardinality(Busy) + 1
      /\ IsFiniteSet(Busy \ {j}) /\ Cardinality(Busy \ {j}) = IF j \in Busy THEN Cardinality(Busy) - 1 ELSE Cardinality(Busy)
  <2> HIDE DEF Busy
  <2> QED BY FS_AddElement, FS_RemoveElement, FS_CardinalityType DEF PasswordsCounted
<1> QED
  <2> DEFINE B == Busy  C == Busy'
  <2> HIDE DEF B, C
  <2>1. /\ C = B \cup {j} \/ C = B \ {j}
        /\ j \in B <=> job[j].at # "free"
        /\ job'[j].at = "free" => C = B \ {j}
        /\ IsFiniteSet(B) /\ Cardinality(B) \in Nat
        /\ IsFiniteSet(B \cup {j}) /\ Cardinality(B \cup {j}) = IF j \in B THEN Cardinality(B) ELSE Cardinality(B) + 1
        /\ IsFiniteSet(B \ {j}) /\ Cardinality(B \ {j}) = IF j \in B THEN Cardinality(B) - 1 ELSE Cardinality(B)
    BY <1>1, <1>2, <1>3, <1>4 DEF B, C
  <2>2. /\ IsFiniteSet(C)
        /\ job[j].at = "free" => Cardinality(C) <= Cardinality(B) + 1
        /\ job[j].at # "free" => Cardinality(C) <= Cardinality(B)
        /\ job[j].at # "free" /\ job'[j].at = "free" => Cardinality(C) = Cardinality(B) - 1
    <3>1. CASE C = B \cup {j}
      BY <2>1, <3>1
    <3>2. CASE C = B \ {j}
      BY <2>1, <3>2
    <3> QED BY <2>1, <3>1, <3>2
  <2> QED BY <2>2 DEF B, C

\* Every step keeps the type of every variable, as long as passwords are counted.
LEMMA TypeStep ==
    ASSUME TypeOK, PasswordsCounted, [Next]_vars
    PROVE  TypeOK'
<1> USE AccountsAssumption DEF TypeOK, account, student, session, Grounded, Unused, Kinds
<1>1. ASSUME NEW f \in Flight, RotateCheck(f) PROVE TypeOK'
  <2>1. flight' \in [Flight -> Exchange]
    BY <1>1 DEF RotateCheck, Exchange
  <2> QED BY <1>1, <2>1 DEF RotateCheck
<1>2. ASSUME NEW f \in Flight, RotateRevoke(f) PROVE TypeOK'
  <2>1. flight' \in [Flight -> Exchange]
    BY <1>2 DEF RotateRevoke, Exchange
  <2>2. token' \in [Token -> TokenRow]
    BY <1>2 DEF RotateRevoke, TokenRow
  <2> QED BY <1>2, <2>1, <2>2 DEF RotateRevoke
<1>3. ASSUME NEW f \in Flight, Issue(f) PROVE TypeOK'
  <2>1. PICK k \in Token : /\ flight' = [flight EXCEPT ![f].at = "ok", ![f].tk = k]
                           /\ token' = [token EXCEPT ![k] = [state |-> "live", pw |-> flight[f].pw]]
    BY <1>3 DEF Issue
  <2>2. flight[f].pw \in 0 .. MaxOps
    BY DEF Exchange
  <2>3. token' \in [Token -> TokenRow]
    BY <2>1, <2>2 DEF TokenRow
  <2>4. /\ flight'[f] = [flight[f] EXCEPT !.at = "ok", !.tk = k]
        /\ \A g \in Flight \ {f} : flight'[g] = flight[g]
    BY <2>1 DEF Exchange
  <2>5. [flight[f] EXCEPT !.at = "ok", !.tk = k] \in Exchange
    BY DEF Exchange
  <2>6. flight' \in [Flight -> Exchange]
    BY <2>1, <2>4, <2>5
  <2> QED BY <1>3, <2>3, <2>6 DEF Issue
<1>4. ASSUME NEW f \in Flight, Answer(f) PROVE TypeOK'
  <2>1. flight' \in [Flight -> Exchange]
    BY <1>4 DEF Answer, Exchange
  <2>2. cookie' \in Token \cup {NoToken}
    BY <1>4 DEF Answer, Exchange
  <2>3. signed' \in BOOLEAN
    BY <1>4 DEF Answer
  <2>4. UNCHANGED <<pw, active, status, token, job, link, ask, crossed, overlapped, leftBy, ops, enrols>>
    BY <1>4 DEF Answer
  <2> QED BY <2>1, <2>2, <2>3, <2>4
<1>5. ASSUME NEW f \in Flight, AnswerLost(f) PROVE TypeOK'
  <2>1. flight' \in [Flight -> Exchange]
    BY <1>5 DEF AnswerLost, Exchange
  <2>2. ops' \in 0 .. MaxOps /\ signed' \in BOOLEAN
    <3>1. ops < MaxOps /\ ops' = ops + 1
      BY <1>5 DEF AnswerLost
    <3>2. ops' \in 0 .. MaxOps
      BY <3>1
    <3> QED BY <1>5, <3>2 DEF AnswerLost
  <2>3. UNCHANGED <<pw, active, status, token, cookie, job, link, ask, crossed, overlapped, leftBy, enrols>>
    BY <1>5 DEF AnswerLost
  <2> QED BY <2>1, <2>2, <2>3
<1>20. ASSUME NEW f \in Flight, StatementFails(f) PROVE TypeOK'
  <2>1. flight' \in [Flight -> Exchange]
    BY <1>20 DEF StatementFails, Exchange
  <2>2. ops' \in 0 .. MaxOps /\ signed' \in BOOLEAN
    <3>1. ops < MaxOps /\ ops' = ops + 1
      BY <1>20 DEF StatementFails
    <3>2. ops' \in 0 .. MaxOps
      BY <3>1
    <3>3. signed' \in BOOLEAN
      BY <1>20 DEF StatementFails
    <3> QED BY <3>2, <3>3
  <2>3. UNCHANGED <<pw, active, status, token, cookie, job, link, ask, crossed, overlapped, leftBy, enrols>>
    BY <1>20 DEF StatementFails
  <2> QED BY <2>1, <2>2, <2>3
<1>6. ASSUME NEW f \in Flight, NEW t \in Tab, Login(f, t) PROVE TypeOK'
  <2>1. flight' \in [Flight -> Exchange]
    BY <1>6 DEF Login, AtGate, Fly, Exchange
  <2> QED BY <1>6, <2>1 DEF Login, AtGate, Fly
<1>7. ASSUME NEW f \in Flight, NEW t \in Tab, Refresh(f, t) PROVE TypeOK'
  <2>1. token[cookie].pw \in 0 .. MaxOps
    BY <1>7 DEF Refresh, TokenRow
  <2>2. flight' \in [Flight -> Exchange]
    BY <1>7, <2>1 DEF Refresh, AtGate, Fly, Exchange
  <2>3. signed' \in BOOLEAN
    BY <1>7 DEF Refresh
  <2> QED BY <1>7, <2>2, <2>3 DEF Refresh, AtGate, Fly
<1>8. ASSUME Logout PROVE TypeOK'
  <2>2. token' \in [Token -> TokenRow]
    BY <1>8 DEF Logout, TokenRow
  <2>3. ops' \in 0 .. MaxOps /\ signed' \in BOOLEAN /\ cookie' \in Token \cup {NoToken}
    <3>1. ops < MaxOps /\ ops' = ops + 1
      BY <1>8 DEF Logout
    <3>2. ops' \in 0 .. MaxOps
      BY <3>1
    <3> QED BY <1>8, <3>2 DEF Logout
  <2>4. UNCHANGED <<pw, active, status, flight, job, link, ask, crossed, overlapped, leftBy, enrols>>
    BY <1>8 DEF Logout
  <2> QED BY <2>2, <2>3, <2>4
<1>9. ASSUME AskAdmin PROVE TypeOK'
  BY <1>9 DEF AskAdmin
<1>10. ASSUME NEW j \in Job, Ask(j) PROVE TypeOK'
  <2>3. job' \in [Job -> Request]
    BY <1>10 DEF Ask, Arrives, Take, Request
  <2> QED BY <1>10, <2>3 DEF Ask, Arrives, Take
<1>11. ASSUME NEW j \in Job, CommitPassword(j) PROVE TypeOK'
  <2>1. job[j] # Free /\ job' \in [Job -> Request]
    BY <1>11 DEF CommitPassword, Done, Free, Request
  <2>2. token' \in [Token -> TokenRow]
    BY <1>11 DEF CommitPassword, SetPassword, Revoked, TokenRow
  <2>3. pw' \in 0 .. MaxOps
    BY <1>11, CountedRange DEF CommitPassword, SetPassword, PasswordsCounted
  <2> QED BY <1>11, <2>1, <2>2, <2>3 DEF CommitPassword, SetPassword
<1>12. ASSUME NEW j \in Job, CommitLink(j) PROVE TypeOK'
  <2>3. job' \in [Job -> Request]
    BY <1>12 DEF CommitLink, Done, Free, Request
  <2> QED BY <1>12, <2>3 DEF CommitLink, Done, Free
<1>13. ASSUME NEW j \in Job, CommitReject(j) PROVE TypeOK'
  <2>3. job' \in [Job -> Request]
    BY <1>13 DEF CommitReject, Done, Free, Request
  <2> QED BY <1>13, <2>3 DEF CommitReject, Done, Free
<1>14. ASSUME NEW j \in Job, ChangeStatus(j) PROVE TypeOK'
  <2>3. job' \in [Job -> Request]
    BY <1>14 DEF ChangeStatus, Arrives, Take, Request
  <2>4. Arrives(j)
    BY <1>14 DEF ChangeStatus
  <2>5. ops' \in 0 .. MaxOps
    BY <2>4 DEF Arrives
  <2>6. overlapped' \in BOOLEAN
    BY <2>4 DEF Arrives
  <2> QED BY <1>14, <2>3, <2>5, <2>6 DEF ChangeStatus
<1>15. ASSUME NEW j \in Job, WriteStatus(j) PROVE TypeOK'
  <2>1. job' \in [Job -> Request]
    BY <1>15 DEF WriteStatus, Done, Free, Request
  <2>2. job[j].arg = "none" \/ job[j].arg \in {"ACTIVE", "OTHER", "removed"}
    BY DEF Request
  <2> QED BY <1>15, <2>1, <2>2 DEF WriteStatus
<1>16. ASSUME NEW j \in Job, WriteLogin(j) PROVE TypeOK'
  <2>1. job' \in [Job -> Request]
    BY <1>16 DEF WriteLogin, Done, Free, Request
  <2>2. active' \in BOOLEAN /\ signed' \in BOOLEAN
    BY <1>16 DEF WriteLogin, LoginFor
  <2> QED BY <1>16, <2>1, <2>2 DEF WriteLogin
<1>17. ASSUME NEW j \in Job, LoginFails(j) PROVE TypeOK'
  <2>3. job' \in [Job -> Request]
    BY <1>17 DEF LoginFails, Done, Free, Request
  <2> QED BY <1>17, <2>3 DEF LoginFails, Done, Free
<1>18. ASSUME NEW s \in {"ACTIVE", "OTHER"}, Enrol(s) PROVE TypeOK'
  <2>1. active' \in BOOLEAN
    BY <1>18 DEF Enrol
  <2>2. enrols' \in 0 .. Reenrols + 1
    BY <1>18 DEF Enrol
  <2>3. status' \in {"none", "ACTIVE", "OTHER", "removed"} /\ leftBy' \in {"no", "change", "failure", "enrolment"}
    BY <1>18 DEF Enrol
  <2> QED BY <1>18, <2>1, <2>2, <2>3 DEF Enrol
<1>19. CASE UNCHANGED vars
  BY <1>19 DEF vars
<1> QED
  BY <1>1, <1>2, <1>3, <1>4, <1>5, <1>6, <1>7, <1>8, <1>9, <1>10, <1>11, <1>12, <1>13, <1>14, <1>15, <1>16, <1>17, <1>18, <1>19, <1>20 DEF Next

\* Every step keeps the rows that the cookie and the flights name.
LEMMA SessionRowsStep ==
    ASSUME TypeOK, SessionRows, [Next]_vars
    PROVE  SessionRows'
<1> USE AccountsAssumption DEF TypeOK, TokenRow, Exchange, Request, SessionRows, account, student, session, Grounded, Unused
<1>1. ASSUME NEW f \in Flight, RotateCheck(f) PROVE SessionRows'
  BY <1>1 DEF RotateCheck
<1>2. ASSUME NEW f \in Flight, RotateRevoke(f) PROVE SessionRows'
  BY <1>2 DEF RotateRevoke
<1>3. ASSUME NEW f \in Flight, Issue(f) PROVE SessionRows'
  BY <1>3 DEF Issue
<1>4. ASSUME NEW f \in Flight, Answer(f) PROVE SessionRows'
  BY <1>4 DEF Answer
<1>5. ASSUME NEW f \in Flight, AnswerLost(f) PROVE SessionRows'
  BY <1>5 DEF AnswerLost
<1>20. ASSUME NEW f \in Flight, StatementFails(f) PROVE SessionRows'
  BY <1>20 DEF StatementFails
<1>6. ASSUME NEW f \in Flight, NEW t \in Tab, Login(f, t) PROVE SessionRows'
  BY <1>6 DEF Login, AtGate, Fly
<1>7. ASSUME NEW f \in Flight, NEW t \in Tab, Refresh(f, t) PROVE SessionRows'
  BY <1>7 DEF Refresh, AtGate, Fly, OnePerTab
<1>8. ASSUME Logout PROVE SessionRows'
  BY <1>8 DEF Logout
<1>9. ASSUME AskAdmin PROVE SessionRows'
  BY <1>9 DEF AskAdmin
<1>10. ASSUME NEW j \in Job, Ask(j) PROVE SessionRows'
  BY <1>10 DEF Ask, Arrives, Take
<1>11. ASSUME NEW j \in Job, CommitPassword(j) PROVE SessionRows'
  BY <1>11 DEF CommitPassword, SetPassword, Revoked, Done, Free
<1>12. ASSUME NEW j \in Job, CommitLink(j) PROVE SessionRows'
  BY <1>12 DEF CommitLink, Done, Free
<1>13. ASSUME NEW j \in Job, CommitReject(j) PROVE SessionRows'
  BY <1>13 DEF CommitReject, Done, Free
<1>14. ASSUME NEW j \in Job, ChangeStatus(j) PROVE SessionRows'
  BY <1>14 DEF ChangeStatus, Arrives, Take
<1>15. ASSUME NEW j \in Job, WriteStatus(j) PROVE SessionRows'
  BY <1>15 DEF WriteStatus, Done, Free
<1>16. ASSUME NEW j \in Job, WriteLogin(j) PROVE SessionRows'
  BY <1>16 DEF WriteLogin, Done, Free
<1>17. ASSUME NEW j \in Job, LoginFails(j) PROVE SessionRows'
  BY <1>17 DEF LoginFails, Done, Free
<1>18. ASSUME NEW s \in {"ACTIVE", "OTHER"}, Enrol(s) PROVE SessionRows'
  BY <1>18 DEF Enrol, Enrolled
<1>19. CASE UNCHANGED vars
  BY <1>19 DEF vars
<1> QED
  BY <1>1, <1>2, <1>3, <1>4, <1>5, <1>6, <1>7, <1>8, <1>9, <1>10, <1>11, <1>12, <1>13, <1>14, <1>15, <1>16, <1>17, <1>18, <1>19, <1>20 DEF Next

\* Every step keeps the flights of tabs apart from those that are over.
LEMMA InTabStep ==
    ASSUME TypeOK, InTab, [Next]_vars
    PROVE  InTab'
<1> USE AccountsAssumption DEF TypeOK, TokenRow, Exchange, Request, InTab, account, student, session, Grounded, Unused
<1>1. ASSUME NEW f \in Flight, RotateCheck(f) PROVE InTab'
  BY <1>1 DEF RotateCheck
<1>2. ASSUME NEW f \in Flight, RotateRevoke(f) PROVE InTab'
  BY <1>2 DEF RotateRevoke
<1>3. ASSUME NEW f \in Flight, Issue(f) PROVE InTab'
  BY <1>3 DEF Issue
<1>4. ASSUME NEW f \in Flight, Answer(f) PROVE InTab'
  BY <1>4 DEF Answer
<1>5. ASSUME NEW f \in Flight, AnswerLost(f) PROVE InTab'
  BY <1>5 DEF AnswerLost
<1>20. ASSUME NEW f \in Flight, StatementFails(f) PROVE InTab'
  BY <1>20 DEF StatementFails
<1>6. ASSUME NEW f \in Flight, NEW t \in Tab, Login(f, t) PROVE InTab'
  BY <1>6 DEF Login, AtGate, Fly
<1>7. ASSUME NEW f \in Flight, NEW t \in Tab, Refresh(f, t) PROVE InTab'
  BY <1>7 DEF Refresh, AtGate, Fly, OnePerTab
<1>8. ASSUME Logout PROVE InTab'
  BY <1>8 DEF Logout
<1>9. ASSUME AskAdmin PROVE InTab'
  BY <1>9 DEF AskAdmin
<1>10. ASSUME NEW j \in Job, Ask(j) PROVE InTab'
  BY <1>10 DEF Ask, Arrives, Take
<1>11. ASSUME NEW j \in Job, CommitPassword(j) PROVE InTab'
  BY <1>11 DEF CommitPassword, SetPassword, Revoked, Done, Free
<1>12. ASSUME NEW j \in Job, CommitLink(j) PROVE InTab'
  BY <1>12 DEF CommitLink, Done, Free
<1>13. ASSUME NEW j \in Job, CommitReject(j) PROVE InTab'
  BY <1>13 DEF CommitReject, Done, Free
<1>14. ASSUME NEW j \in Job, ChangeStatus(j) PROVE InTab'
  BY <1>14 DEF ChangeStatus, Arrives, Take
<1>15. ASSUME NEW j \in Job, WriteStatus(j) PROVE InTab'
  BY <1>15 DEF WriteStatus, Done, Free
<1>16. ASSUME NEW j \in Job, WriteLogin(j) PROVE InTab'
  BY <1>16 DEF WriteLogin, Done, Free
<1>17. ASSUME NEW j \in Job, LoginFails(j) PROVE InTab'
  BY <1>17 DEF LoginFails, Done, Free
<1>18. ASSUME NEW s \in {"ACTIVE", "OTHER"}, Enrol(s) PROVE InTab'
  BY <1>18 DEF Enrol, Enrolled
<1>19. CASE UNCHANGED vars
  BY <1>19 DEF vars
<1> QED
  BY <1>1, <1>2, <1>3, <1>4, <1>5, <1>6, <1>7, <1>8, <1>9, <1>10, <1>11, <1>12, <1>13, <1>14, <1>15, <1>16, <1>17, <1>18, <1>19, <1>20 DEF Next

\* Every step keeps the sessions about to be issued current.
LEMMA CurrentStep ==
    ASSUME TypeOK, SessionRows, CurrentIssues, OldSessionsEnd, [Next]_vars
    PROVE  CurrentIssues' /\ OldSessionsEnd'
<1> USE AccountsAssumption DEF TypeOK, TokenRow, Exchange, Request, SessionRows, CurrentIssues, OldSessionsEnd, account, student, session, Grounded, Unused
<1>1. ASSUME NEW f \in Flight, RotateCheck(f) PROVE CurrentIssues' /\ OldSessionsEnd'
  BY <1>1 DEF RotateCheck
<1>2. ASSUME NEW f \in Flight, RotateRevoke(f) PROVE CurrentIssues' /\ OldSessionsEnd'
  BY <1>2 DEF RotateRevoke
<1>3. ASSUME NEW f \in Flight, Issue(f) PROVE CurrentIssues' /\ OldSessionsEnd'
  BY <1>3 DEF Issue
<1>4. ASSUME NEW f \in Flight, Answer(f) PROVE CurrentIssues' /\ OldSessionsEnd'
  BY <1>4 DEF Answer
<1>5. ASSUME NEW f \in Flight, AnswerLost(f) PROVE CurrentIssues' /\ OldSessionsEnd'
  BY <1>5 DEF AnswerLost
<1>20. ASSUME NEW f \in Flight, StatementFails(f) PROVE CurrentIssues' /\ OldSessionsEnd'
  BY <1>20 DEF StatementFails
<1>6. ASSUME NEW f \in Flight, NEW t \in Tab, Login(f, t) PROVE CurrentIssues' /\ OldSessionsEnd'
  BY <1>6 DEF Login, AtGate, Fly
<1>7. ASSUME NEW f \in Flight, NEW t \in Tab, Refresh(f, t) PROVE CurrentIssues' /\ OldSessionsEnd'
  BY <1>7 DEF Refresh, AtGate, Fly, OnePerTab
<1>8. ASSUME Logout PROVE CurrentIssues' /\ OldSessionsEnd'
  BY <1>8 DEF Logout
<1>9. ASSUME AskAdmin PROVE CurrentIssues' /\ OldSessionsEnd'
  BY <1>9 DEF AskAdmin
<1>10. ASSUME NEW j \in Job, Ask(j) PROVE CurrentIssues' /\ OldSessionsEnd'
  BY <1>10 DEF Ask, Arrives, Take
<1>11. ASSUME NEW j \in Job, CommitPassword(j) PROVE CurrentIssues' /\ OldSessionsEnd'
  <2>1. /\ UNCHANGED flight /\ crossed' = (crossed \/ \E f \in Flight : flight[f].at \in {"revoke", "issue"})
        /\ token' = Revoked
    BY <1>11 DEF CommitPassword, SetPassword
  <2>2. \A k \in Token : token'[k].state # "live"
    BY <2>1 DEF Revoked
  <2> QED BY <2>1, <2>2
<1>12. ASSUME NEW j \in Job, CommitLink(j) PROVE CurrentIssues' /\ OldSessionsEnd'
  BY <1>12 DEF CommitLink, Done, Free
<1>13. ASSUME NEW j \in Job, CommitReject(j) PROVE CurrentIssues' /\ OldSessionsEnd'
  BY <1>13 DEF CommitReject, Done, Free
<1>14. ASSUME NEW j \in Job, ChangeStatus(j) PROVE CurrentIssues' /\ OldSessionsEnd'
  BY <1>14 DEF ChangeStatus, Arrives, Take
<1>15. ASSUME NEW j \in Job, WriteStatus(j) PROVE CurrentIssues' /\ OldSessionsEnd'
  BY <1>15 DEF WriteStatus, Done, Free
<1>16. ASSUME NEW j \in Job, WriteLogin(j) PROVE CurrentIssues' /\ OldSessionsEnd'
  BY <1>16 DEF WriteLogin, Done, Free
<1>17. ASSUME NEW j \in Job, LoginFails(j) PROVE CurrentIssues' /\ OldSessionsEnd'
  BY <1>17 DEF LoginFails, Done, Free
<1>18. ASSUME NEW s \in {"ACTIVE", "OTHER"}, Enrol(s) PROVE CurrentIssues' /\ OldSessionsEnd'
  BY <1>18 DEF Enrol, Enrolled
<1>19. CASE UNCHANGED vars
  BY <1>19 DEF vars
<1> QED
  BY <1>1, <1>2, <1>3, <1>4, <1>5, <1>6, <1>7, <1>8, <1>9, <1>10, <1>11, <1>12, <1>13, <1>14, <1>15, <1>16, <1>17, <1>18, <1>19, <1>20 DEF Next

\* Every step keeps what being signed in stands on.
LEMMA SignedInStep ==
    ASSUME TypeOK, SessionRows, InTab, SignedIn, [Next]_vars
    PROVE  SignedIn'
<1> USE AccountsAssumption DEF TypeOK, TokenRow, Exchange, Request, SessionRows, InTab, SignedIn, account, student, session, Grounded, Unused
<1>1. ASSUME NEW f \in Flight, RotateCheck(f) PROVE SignedIn'
  BY <1>1 DEF RotateCheck
<1>2. ASSUME NEW f \in Flight, RotateRevoke(f) PROVE SignedIn'
  BY <1>2 DEF RotateRevoke
<1>3. ASSUME NEW f \in Flight, Issue(f) PROVE SignedIn'
  BY <1>3 DEF Issue
<1>4. ASSUME NEW f \in Flight, Answer(f) PROVE SignedIn'
  <2>1. flight[f].tk \in Token \cup {NoToken} /\ flight'[f].at = "idle" /\ \A g \in Flight \ {f} : flight'[g] = flight[g]
    BY <1>4 DEF Answer
  <2>2. CASE flight[f].at = "fail"
    BY <1>4, <2>1, <2>2 DEF Answer
  <2>3. CASE flight[f].at = "ok" /\ signed
    BY <1>4, <2>1, <2>3 DEF Answer
  <2>4. CASE flight[f].at = "ok" /\ ~signed
    <3> SUFFICES ASSUME signed' PROVE SignedIn'
      OBVIOUS
    <3>1. /\ active /\ token[flight[f].tk].state = "live" /\ \A g \in Flight \ {f} : flight[g].at = "idle"
          /\ cookie' = flight[f].tk /\ UNCHANGED <<token, active>>
      BY <1>4, <2>4 DEF Answer
    <3>2. \A g \in Flight : flight'[g].at = "idle"
      BY <2>1, <3>1
    <3>3. flight[f].tk # NoToken
      BY <2>4
    <3> QED BY <3>1, <3>2, <3>3
  <2> QED BY <1>4, <2>2, <2>3, <2>4 DEF Answer
<1>5. ASSUME NEW f \in Flight, AnswerLost(f) PROVE SignedIn'
  BY <1>5 DEF AnswerLost
<1>20. ASSUME NEW f \in Flight, StatementFails(f) PROVE SignedIn'
  <2> SUFFICES ASSUME signed' PROVE SignedIn'
    OBVIOUS
  <2>1. /\ signed /\ flight' = [flight EXCEPT ![f] = Grounded]
        /\ UNCHANGED <<token, cookie, active>>
        /\ flight[f].at # "ok" /\ flight[f].tk = NoToken
    BY <1>20 DEF StatementFails
  <2>2. flight'[f].at = "idle" /\ \A g \in Flight \ {f} : flight'[g] = flight[g]
    BY <2>1
  <2>3. token[cookie].state = "live" \/ \E g \in Flight \ {f} : flight[g].at = "ok" \/ (flight[g].at = "issue" /\ flight[g].tk # NoToken)
    BY <2>1
  <2> HIDE DEF TypeOK, SessionRows, InTab
  <2>4. token'[cookie'].state = "live" \/ \E g \in Flight : flight'[g].at = "ok" \/ (flight'[g].at = "issue" /\ flight'[g].tk # NoToken)
    BY <2>1, <2>2, <2>3
  <2> QED BY <2>1, <2>2, <2>4
<1>6. ASSUME NEW f \in Flight, NEW t \in Tab, Login(f, t) PROVE SignedIn'
  BY <1>6 DEF Login, AtGate, Fly
<1>7. ASSUME NEW f \in Flight, NEW t \in Tab, Refresh(f, t) PROVE SignedIn'
  <2> SUFFICES ASSUME signed' PROVE SignedIn'
    OBVIOUS
  <2>1. signed /\ \A g \in Flight : flight[g].at = "idle"
    BY <1>7 DEF Refresh, OnePerTab
  <2>2. /\ cookie # NoToken /\ token[cookie].state = "live" /\ UNCHANGED <<token, cookie, active>>
        /\ flight'[f].at = "check" /\ flight'[f].tk = cookie
        /\ \A g \in Flight \ {f} : flight'[g].at = "idle"
    BY <1>7, <2>1 DEF Refresh, Fly
  <2>3. \A g \in Flight : flight'[g].at \in {"idle", "check"} /\ (flight'[g].at = "check" => g = f)
    BY <2>2
  <2> HIDE DEF TypeOK, SessionRows, InTab
  <2>4. active' /\ cookie' # NoToken /\ token'[cookie'].state = "live"
    BY <2>1, <2>2
  <2>5. \A g \in Flight : flight'[g].at = "check" => token'[flight'[g].tk].state = "live"
    BY <2>2, <2>3
  <2> QED BY <2>3, <2>4, <2>5
<1>8. ASSUME Logout PROVE SignedIn'
  BY <1>8 DEF Logout
<1>9. ASSUME AskAdmin PROVE SignedIn'
  BY <1>9 DEF AskAdmin
<1>10. ASSUME NEW j \in Job, Ask(j) PROVE SignedIn'
  BY <1>10 DEF Ask, Arrives, Take
<1>11. ASSUME NEW j \in Job, CommitPassword(j) PROVE SignedIn'
  BY <1>11 DEF CommitPassword, SetPassword, Revoked, Done, Free
<1>12. ASSUME NEW j \in Job, CommitLink(j) PROVE SignedIn'
  BY <1>12 DEF CommitLink, Done, Free
<1>13. ASSUME NEW j \in Job, CommitReject(j) PROVE SignedIn'
  BY <1>13 DEF CommitReject, Done, Free
<1>14. ASSUME NEW j \in Job, ChangeStatus(j) PROVE SignedIn'
  BY <1>14 DEF ChangeStatus, Arrives, Take
<1>15. ASSUME NEW j \in Job, WriteStatus(j) PROVE SignedIn'
  BY <1>15 DEF WriteStatus, Done, Free
<1>16. ASSUME NEW j \in Job, WriteLogin(j) PROVE SignedIn'
  <2>1. UNCHANGED <<flight, token, cookie>> /\ (signed' => signed /\ active')
    BY <1>16 DEF WriteLogin, LoginFor
  <2> QED BY <2>1
<1>17. ASSUME NEW j \in Job, LoginFails(j) PROVE SignedIn'
  BY <1>17 DEF LoginFails, Done, Free
<1>18. ASSUME NEW s \in {"ACTIVE", "OTHER"}, Enrol(s) PROVE SignedIn'
  BY <1>18 DEF Enrol, Enrolled
<1>19. CASE UNCHANGED vars
  BY <1>19 DEF vars
<1> QED
  BY <1>1, <1>2, <1>3, <1>4, <1>5, <1>6, <1>7, <1>8, <1>9, <1>10, <1>11, <1>12, <1>13, <1>14, <1>15, <1>16, <1>17, <1>18, <1>19, <1>20 DEF Next

\* Every step keeps the account of those who leave.
LEMMA LeavingStep ==
    ASSUME TypeOK, Leaving, [Next]_vars
    PROVE  Leaving'
<1> USE AccountsAssumption DEF TypeOK, TokenRow, Exchange, Request, Leaving, Busy, account, student, session, LoginFor, Enrolled, Kinds
<1>1. ASSUME NEW f \in Flight, RotateCheck(f) PROVE Leaving'
  BY <1>1 DEF RotateCheck
<1>2. ASSUME NEW f \in Flight, RotateRevoke(f) PROVE Leaving'
  BY <1>2 DEF RotateRevoke
<1>3. ASSUME NEW f \in Flight, Issue(f) PROVE Leaving'
  BY <1>3 DEF Issue
<1>4. ASSUME NEW f \in Flight, Answer(f) PROVE Leaving'
  BY <1>4 DEF Answer
<1>5. ASSUME NEW f \in Flight, AnswerLost(f) PROVE Leaving'
  BY <1>5 DEF AnswerLost
<1>20. ASSUME NEW f \in Flight, StatementFails(f) PROVE Leaving'
  BY <1>20 DEF StatementFails
<1>6. ASSUME NEW f \in Flight, NEW t \in Tab, Login(f, t) PROVE Leaving'
  BY <1>6 DEF Login, AtGate, Fly
<1>7. ASSUME NEW f \in Flight, NEW t \in Tab, Refresh(f, t) PROVE Leaving'
  BY <1>7 DEF Refresh, AtGate, Fly, OnePerTab
<1>8. ASSUME Logout PROVE Leaving'
  BY <1>8 DEF Logout
<1>9. ASSUME AskAdmin PROVE Leaving'
  BY <1>9 DEF AskAdmin
<1>10. ASSUME NEW j \in Job, Ask(j) PROVE Leaving'
  <2>1. /\ job[j].at = "free" /\ job'[j].at = "write" /\ UNCHANGED <<active, status, leftBy>>
        /\ \A o \in Job \ {j} : job'[o] = job[o]
    BY <1>10 DEF Ask, Arrives, Take
  <2>2. job'[j].kind \in {"status", "remove"} => job'[j].arg # "none"
    BY <1>10 DEF Ask, Take
  <2>3. Arrives(j)
    BY <1>10 DEF Ask
  <2>4. ~overlapped' => ~overlapped /\ \A o \in Job : job[o].at = "free"
    BY <2>3 DEF Arrives
  <2>5. ~overlapped' => \A i, k \in Busy' : i = k
    BY <2>1, <2>4
  <2> QED BY <2>1, <2>2, <2>4, <2>5
<1>11. ASSUME NEW j \in Job, CommitPassword(j) PROVE Leaving'
  BY <1>11 DEF CommitPassword, SetPassword, Revoked, Done, Free
<1>12. ASSUME NEW j \in Job, CommitLink(j) PROVE Leaving'
  BY <1>12 DEF CommitLink, Done, Free
<1>13. ASSUME NEW j \in Job, CommitReject(j) PROVE Leaving'
  BY <1>13 DEF CommitReject, Done, Free
<1>14. ASSUME NEW j \in Job, ChangeStatus(j) PROVE Leaving'
  <2>1. /\ job[j].at = "free" /\ job'[j].at = "write" /\ UNCHANGED <<active, status, leftBy>>
        /\ \A o \in Job \ {j} : job'[o] = job[o]
    BY <1>14 DEF ChangeStatus, Arrives, Take
  <2>2. job'[j].kind \in {"status", "remove"} => job'[j].arg # "none"
    BY <1>14 DEF ChangeStatus, Take
  <2>3. Arrives(j)
    BY <1>14 DEF ChangeStatus
  <2>4. ~overlapped' => ~overlapped /\ \A o \in Job : job[o].at = "free"
    BY <2>3 DEF Arrives
  <2>5. ~overlapped' => \A i, k \in Busy' : i = k
    BY <2>1, <2>4
  <2> QED BY <2>1, <2>2, <2>4, <2>5
<1>15. ASSUME NEW j \in Job, WriteStatus(j) PROVE Leaving'
  <2>1. /\ job[j].at = "write" /\ job[j].kind \in {"status", "remove"} /\ UNCHANGED <<active, overlapped>>
        /\ \A o \in Job \ {j} : job'[o] = job[o]
    BY <1>15 DEF WriteStatus, Done
  <2>2. CASE Enrolled
    <3>1. /\ status' = job[j].arg /\ leftBy' = IF job[j].arg = "ACTIVE" THEN "no" ELSE "change"
          /\ job'[j].at = "login" /\ job'[j].kind = job[j].kind /\ job'[j].arg = job[j].arg
      BY <1>15, <2>2 DEF WriteStatus
    <3>2. job[j].arg # "none" /\ job[j] # Free /\ Busy' = Busy
      <4>1. job[j].arg # "none"
        BY <2>1
      <4>2. job[j] # Free
        BY <2>1 DEF Free
      <4> HIDE DEF TypeOK, Leaving
      <4>3. \A o \in Job : job'[o].at # "free" <=> job[o].at # "free"
        BY <2>1, <3>1
      <4> QED BY <4>1, <4>2, <4>3
    <3>3. ~overlapped => \A o \in Job \ {j} : job[o].at = "free"
      BY <2>1
    <3>4. \A o \in Job : job'[o].kind = job[o].kind /\ job'[o].arg = job[o].arg
      BY <2>1, <3>1
    <3>5. /\ \A o \in Job : job'[o].at # "free" /\ job'[o].kind \in {"status", "remove"} => job'[o].arg # "none"
          /\ \A o \in Job : job'[o].at = "login" => job'[o].kind \in {"status", "remove"}
          /\ status' # "none"
      BY <2>1, <3>1, <3>2, <3>4
    <3>6. ~overlapped => /\ \A o \in Job : job'[o].at = "login" => o = j
                         /\ \A i, o \in Busy' : i = o
                         /\ job[j].arg = "ACTIVE" => leftBy' = "no"
                         /\ job[j].arg # "ACTIVE" => job'[j].at = "login" /\ job'[j].arg # "ACTIVE"
      BY <2>1, <3>1, <3>2, <3>3
    <3> HIDE DEF TypeOK
    <3> QED BY <2>1, <3>1, <3>5, <3>6
  <2>3. CASE ~Enrolled
    <3>1. job'[j] = Free /\ UNCHANGED <<status, leftBy>>
      BY <1>15, <2>3 DEF WriteStatus, Done
    <3> QED BY <2>1, <3>1 DEF Free
  <2> QED BY <2>2, <2>3
<1>16. ASSUME NEW j \in Job, WriteLogin(j) PROVE Leaving'
  BY <1>16 DEF WriteLogin, Done, Free
<1>17. ASSUME NEW j \in Job, LoginFails(j) PROVE Leaving'
  BY <1>17 DEF LoginFails, Done, Free
<1>18. ASSUME NEW s \in {"ACTIVE", "OTHER"}, Enrol(s) PROVE Leaving'
  BY <1>18 DEF Enrol, Enrolled
<1>19. CASE UNCHANGED vars
  BY <1>19 DEF vars
<1> HIDE DEF TypeOK, Leaving
<1> QED
  BY <1>1, <1>2, <1>3, <1>4, <1>5, <1>6, <1>7, <1>8, <1>9, <1>10, <1>11, <1>12, <1>13, <1>14, <1>15, <1>16, <1>17, <1>18, <1>19, <1>20 DEF Next

-----------------------------------------------------------------------------

\* Every step keeps the passwords counted: setting one ends a request.
LEMMA CountedStep ==
    ASSUME TypeOK, PasswordsCounted, SessionRows, [Next]_vars
    PROVE  PasswordsCounted'
<1> USE AccountsAssumption DEF TypeOK, account, student, session, Grounded, Unused
<1>1. ASSUME NEW j \in Job, Ask(j) \/ ChangeStatus(j) PROVE PasswordsCounted'
  <2>1. Arrives(j) /\ UNCHANGED <<pw, token, flight>> /\ \E r : job' = [job EXCEPT ![j] = r]
    BY <1>1 DEF Ask, ChangeStatus, Take
  <2>2. \A o \in Job \ {j} : job'[o].at = job[o].at
    BY <2>1
  <2>3. job[j].at = "free" /\ ops' = ops + 1
    BY <2>1 DEF Arrives
  <2>4. IsFiniteSet(Busy)' /\ Cardinality(Busy)' <= Cardinality(Busy) + 1
    BY <2>2, <2>3, BusyStep
  <2> QED BY <2>1, <2>3, <2>4, CountedRange, FS_CardinalityType DEF PasswordsCounted
<1>2. ASSUME NEW j \in Job, CommitLink(j) \/ CommitReject(j) \/ WriteStatus(j) \/ WriteLogin(j) \/ LoginFails(j)
      PROVE  PasswordsCounted'
  <2>1. /\ job[j].at # "free" /\ UNCHANGED <<pw, token, flight>> /\ ops' \in {ops, ops + 1}
        /\ \A o \in Job \ {j} : job'[o].at = job[o].at
    BY <1>2 DEF CommitLink, CommitReject, WriteStatus, WriteLogin, LoginFails, Done, Free
  <2>2. IsFiniteSet(Busy)' /\ Cardinality(Busy)' <= Cardinality(Busy)
    BY <2>1, BusyStep
  <2> QED BY <2>1, <2>2, CountedRange, FS_CardinalityType DEF PasswordsCounted
<1>3. ASSUME NEW j \in Job, CommitPassword(j) PROVE PasswordsCounted'
  <2>1. /\ job[j].at # "free" /\ pw' = pw + 1 /\ UNCHANGED <<flight, ops>> /\ job' = [job EXCEPT ![j] = Free]
        /\ token' = Revoked
    BY <1>3 DEF CommitPassword, SetPassword, Done
  <2>2. job'[j].at = "free" /\ \A o \in Job \ {j} : job'[o].at = job[o].at
    BY <2>1 DEF Free
  <2>3. IsFiniteSet(Busy)' /\ Cardinality(Busy)' = Cardinality(Busy) - 1
    BY <2>1, <2>2, BusyStep
  <2>4. \A k \in Token : token'[k].pw = token[k].pw
    BY <2>1 DEF Revoked, TokenRow
  <2>5. /\ \A k \in Token : token[k].pw \in Nat /\ token[k].pw <= pw
        /\ \A f \in Flight : flight[f].pw \in Nat /\ flight[f].pw <= pw
    BY DEF PasswordsCounted, TokenRow, Exchange
  <2> QED BY <2>1, <2>3, <2>4, <2>5, CountedRange DEF PasswordsCounted
<1>4. ASSUME NEW f \in Flight, RotateCheck(f) \/ RotateRevoke(f) \/ Issue(f) \/ StatementFails(f)
                                   \/ Answer(f) \/ AnswerLost(f)
      PROVE  PasswordsCounted'
  <2>1. UNCHANGED <<pw, job>> /\ ops' \in {ops, ops + 1}
    BY <1>4 DEF RotateCheck, RotateRevoke, Issue, StatementFails, Answer, AnswerLost
  <2>2. \A g \in Flight : flight'[g].pw \in {flight[g].pw, 0}
    <3>1. CASE RotateCheck(f) \/ RotateRevoke(f)
      BY <3>1 DEF RotateCheck, RotateRevoke, Exchange
    <3>2. CASE Issue(f)
      BY <3>2 DEF Issue, Exchange
    <3>3. CASE Answer(f) \/ AnswerLost(f)
      <4>1. flight' = [flight EXCEPT ![f] = Grounded]
        BY <3>3 DEF Answer, AnswerLost
      <4>2. \A g \in Flight : flight'[g] = flight[g] \/ flight'[g] = Grounded
        BY <4>1
      <4>3. Grounded.pw = 0
        BY DEF Grounded
      <4> QED BY <4>2, <4>3
    <3>4. CASE StatementFails(f)
      BY <3>4 DEF StatementFails, Exchange, Grounded
    <3> QED BY <1>4, <3>1, <3>2, <3>3, <3>4
  <2>3. \A k \in Token : token'[k].pw \in {token[k].pw, flight[f].pw}
    <3>1. CASE RotateRevoke(f)
      BY <3>1 DEF RotateRevoke, TokenRow
    <3>2. CASE Issue(f)
      BY <3>2 DEF Issue
    <3>3. CASE RotateCheck(f) \/ StatementFails(f) \/ Answer(f) \/ AnswerLost(f)
      BY <3>3 DEF RotateCheck, StatementFails, Answer, AnswerLost
    <3> QED BY <1>4, <3>1, <3>2, <3>3
  <2>4. Busy' = Busy
    BY <2>1 DEF Busy
  <2> QED BY <2>1, <2>2, <2>3, <2>4, CountedRange DEF PasswordsCounted
<1>5. ASSUME NEW f \in Flight, NEW t \in Tab, Login(f, t) \/ Refresh(f, t) PROVE PasswordsCounted'
  <2>1. UNCHANGED <<pw, job, token>> /\ ops' \in {ops, ops + 1}
    BY <1>5 DEF Login, Refresh
  <2>2. \A g \in Flight : flight'[g].pw \in {flight[g].pw, pw} \/ \E k \in Token : flight'[g].pw = token[k].pw
    BY <1>5 DEF Login, Refresh, Fly, Exchange
  <2>3. Busy' = Busy
    BY <2>1 DEF Busy
  <2> QED BY <2>1, <2>2, <2>3, CountedRange DEF PasswordsCounted
<1>6. ASSUME Logout \/ AskAdmin \/ \E s \in {"ACTIVE", "OTHER"} : Enrol(s) PROVE PasswordsCounted'
  <2>1. UNCHANGED <<pw, job, flight>> /\ ops' \in {ops, ops + 1}
    BY <1>6 DEF Logout, AskAdmin, Enrol
  <2>2. \A k \in Token : token'[k].pw = token[k].pw
    <3>1. CASE Logout
      BY <3>1 DEF Logout, TokenRow
    <3> QED BY <1>6, <3>1 DEF AskAdmin, Enrol
  <2>3. Busy' = Busy
    BY <2>1 DEF Busy
  <2> QED BY <2>1, <2>2, <2>3, CountedRange DEF PasswordsCounted
<1>7. CASE UNCHANGED vars
  BY <1>7 DEF vars, PasswordsCounted, Busy
<1> QED BY <1>1, <1>2, <1>3, <1>4, <1>5, <1>6, <1>7 DEF Next

-----------------------------------------------------------------------------

\* The inductive invariant.
Accounted ==
    /\ TypeOK /\ PasswordsCounted /\ SessionRows /\ InTab
    /\ CurrentIssues /\ OldSessionsEnd /\ SignedIn /\ Leaving

\* It holds at first and every step keeps it.
LEMMA AlwaysAccounted == Spec => []Accounted
<1>1. Init => Accounted
  <2> SUFFICES ASSUME Init PROVE Accounted
    OBVIOUS
  <2> USE AccountsAssumption DEF Init, Grounded, Free, Unissued
  <2>1. TypeOK
    <3>1. token \in [Token -> TokenRow] /\ flight \in [Flight -> Exchange]
      BY DEF TokenRow, Exchange
    <3>2. job \in [Job -> Request]
      BY DEF Request
    <3>3. /\ pw \in 0 .. MaxOps /\ ops \in 0 .. MaxOps /\ enrols \in 0 .. Reenrols + 1
      OBVIOUS
    <3>4. /\ active \in BOOLEAN /\ signed \in BOOLEAN /\ crossed \in BOOLEAN /\ overlapped \in BOOLEAN
      OBVIOUS
    <3> QED BY <3>1, <3>2, <3>3, <3>4 DEF TypeOK
  <2>2. Busy = {}
    BY DEF Busy
  <2>3. PasswordsCounted
    BY <2>2, FS_EmptySet DEF PasswordsCounted
  <2>4. SessionRows /\ InTab /\ CurrentIssues /\ OldSessionsEnd /\ SignedIn /\ Leaving
    BY <2>2 DEF SessionRows, InTab, CurrentIssues, OldSessionsEnd, SignedIn, Leaving
  <2> QED BY <2>1, <2>3, <2>4 DEF Accounted
<1>2. Accounted /\ [Next]_vars => Accounted'
  BY TypeStep, CountedStep, SessionRowsStep, InTabStep, CurrentStep, SignedInStep, LeavingStep DEF Accounted
<1> QED BY <1>1, <1>2, PTL DEF Spec

\* Every variable keeps its type; the passwords set are no more than the requests made.
THEOREM TypeCorrect == Spec => []TypeOK
<1>1. Accounted => TypeOK
  BY DEF Accounted
<1> QED BY <1>1, AlwaysAccounted, PTL

\* Whichever way the password was set, and whatever was in flight: the tokens that can
\* still be refreshed belong to sessions of the password of now, unless one of them
\* was just being issued (rotateRefreshToken does not look at the password again).
THEOREM SetPasswordEndsSessions == Spec => []OldSessionsEnd
<1>1. Accounted => OldSessionsEnd
  BY DEF Accounted
<1> QED BY <1>1, AlwaysAccounted, PTL

\* A browser whose requests are answered, and whose tabs refresh one at a time, holds
\* a token that can be refreshed until something ends its session: a logout, a new
\* password, a disabled account, a refresh that fails or whose answer is lost.  Two tabs
\* that refresh together may sign it out, and that is excepted.
THEOREM RefreshKeepsSession == Spec => []StaysSignedIn
<1>1. Accounted => StaysSignedIn
  BY DEF Accounted, SignedIn, StaysSignedIn, NoFlight
<1> QED BY <1>1, AlwaysAccounted, PTL

\* A change of status that took a student out has switched its login off, for any
\* number of requests of which no two overlapped and none failed halfway.
THEOREM LeaverIsLockedOut == Spec => []LeaverCannotSignIn
<1>1. Accounted => LeaverCannotSignIn
  BY DEF Accounted, Leaving, LeaverCannotSignIn, NoJob
<1> QED BY <1>1, AlwaysAccounted, PTL

=============================================================================
