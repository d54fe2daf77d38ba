-------------------------- MODULE CbtAttemptsProofs --------------------------
(***************************************************************************)
(* What CbtAttempts promises for every number of tries, questions and      *)
(* requests: its type; until requests overlap, that what was saved is      *)
(* scored, a closed attempt is final and an edit of the exam takes nobody  *)
(* time; and, however they overlap, that no attempt ends after its         *)
(* deadline as long as nobody edits the exam.                              *)
(***************************************************************************)
EXTENDS CbtAttempts, TLAPS

LEMMA SnapshotType ==
    ASSUME TypeOK, NEW n \in Number, NEW reason \in Reason
    PROVE  Snapshot(n, reason) \in Calls
<1>1. att[n].expires \in Nat /\ answer[n] \in Selection
  BY DEF TypeOK, Attempt
<1> QED BY <1>1 DEF Snapshot, Calls

LEMMA FinalizeType ==
    ASSUME TypeOK, NEW n \in Number, NEW sel \in Selection, NEW expires \in Nat, NEW reason \in Reason,
           Finalize(n, sel, expires, reason)
    PROVE  att' \in [Number -> Attempt] /\ scored' \in [Number -> Selection]
<1> DEFINE expired == reason = "expired" \/ Passed(expires, now)
<1>1. ClosedStatus(expired) \in Status /\ SubmittedAt(expired, expires) \in Nat
  BY DEF ClosedStatus, SubmittedAt, Status, TypeOK
<1>2. att' = [att EXCEPT ![n].status = ClosedStatus(expired),
                         ![n].submitted = SubmittedAt(expired, expires)]
  BY DEF Finalize
<1> HIDE DEF expired
<1>3. \A x \in Attempt : [x EXCEPT !.status = ClosedStatus(expired),
                                   !.submitted = SubmittedAt(expired, expires)] \in Attempt
  BY <1>1 DEF Attempt
<1>4. att' \in [Number -> Attempt]
  BY <1>2, <1>3 DEF TypeOK
<1> QED BY <1>4 DEF Finalize, TypeOK

\* The state has its type; in particular an edit never drives an expiry below zero.
THEOREM CbtTypeCorrect == Spec => []TypeOK
<1> USE AttemptsAssumption
<1>1. Init => TypeOK
  <2>1. Init => mixed \in BOOLEAN
    BY Zenon DEF Init
  <2> QED BY <2>1 DEF Init, TypeOK, Attempt, Status, Selection, Blank
<1>2. TypeOK /\ [Next]_vars => TypeOK'
  <2> SUFFICES ASSUME TypeOK, [Next]_vars PROVE TypeOK'
    OBVIOUS
  <2>0. \A p \in Req, c \in Calls \cup {Idle} : Go(p, c) => call' \in [Req -> Calls \cup {Idle}]
    BY DEF Go, TypeOK
  <2>e. \A p \in Req : End(p) => call' \in [Req -> Calls \cup {Idle}]
    BY <2>0 DEF End
  <2>m. Mix => mixed' \in BOOLEAN
    BY Zenon DEF Mix
  <2>1. ASSUME NEW p \in Req, StartRead(p) PROVE TypeOK'
    <3>1. [kind |-> "live", length |-> duration, at |-> now] \in Calls
      BY DEF Calls, TypeOK
    <3> QED BY <2>0, <2>m, <2>1, <3>1 DEF StartRead, MayBegin, TypeOK
  <2>2. ASSUME NEW p \in Req, StartLive(p) PROVE TypeOK'
    <3>1. call[p] \in Calls /\ call[p].kind = "live"
      BY <2>2 DEF StartLive, TypeOK, Idle
    <3>2. call[p].length \in Duration /\ call[p].at \in Nat
      BY <3>1 DEF Calls
    <3>3. [call[p] EXCEPT !.kind = "count"] \in Calls
      BY <3>1 DEF Calls
    <3>4. \A n \in Number : [kind |-> "restart", n |-> n, sel |-> answer[n],
            expires |-> att[n].expires, length |-> call[p].length, at |-> call[p].at] \in Calls
      BY <3>2 DEF Calls, TypeOK, Attempt
    <3>5. Resumable \subseteq Number
      BY DEF Resumable, Live
    <3>6. call' \in [Req -> Calls \cup {Idle}]
      BY <2>0, <2>e, <2>2, <3>3, <3>4, <3>5 DEF StartLive
    <3> QED BY <2>2, <3>6 DEF StartLive, TypeOK
  <2>3. ASSUME NEW p \in Req, StartClose(p) PROVE TypeOK'
    <3>1. call[p] \in Calls /\ call[p].kind = "restart"
      BY <2>3 DEF StartClose, TypeOK, Idle
    <3>2. /\ call[p].n \in Number /\ call[p].sel \in Selection /\ call[p].expires \in Nat
          /\ call[p].length \in Duration /\ call[p].at \in Nat
      BY <3>1 DEF Calls
    <3>3. [kind |-> "count", length |-> call[p].length, at |-> call[p].at] \in Calls
      BY <3>2 DEF Calls
    <3>4. att' \in [Number -> Attempt] /\ scored' \in [Number -> Selection]
      BY <2>3, <3>2, FinalizeType DEF StartClose, Reason
    <3>5. call' \in [Req -> Calls \cup {Idle}]
      BY <2>0, <2>3, <3>3 DEF StartClose
    <3> QED BY <2>3, <3>4, <3>5 DEF StartClose, Finalize, TypeOK
  <2>4. ASSUME NEW p \in Req, StartCount(p) PROVE TypeOK'
    <3>1. call[p] \in Calls /\ call[p].kind = "count"
      BY <2>4 DEF StartCount, TypeOK, Idle
    <3>2. [call[p] EXCEPT !.kind = "number"] \in Calls
      BY <3>1 DEF Calls
    <3>3. call' \in [Req -> Calls \cup {Idle}]
      BY <2>0, <2>e, <2>4, <3>2 DEF StartCount
    <3> QED BY <2>4, <3>3 DEF StartCount, TypeOK
  <2>5. ASSUME NEW p \in Req, StartNumber(p) PROVE TypeOK'
    <3>1. call[p] \in Calls /\ call[p].kind = "number"
      BY <2>5 DEF StartNumber, TypeOK, Idle
    <3>2. \A last \in Existing \cup {0} :
            [kind |-> "create", length |-> call[p].length, at |-> call[p].at, n |-> last + 1] \in Calls
      BY <3>1 DEF Calls, Existing, Number
    <3>3. call' \in [Req -> Calls \cup {Idle}]
      BY <2>0, <2>5, <3>2 DEF StartNumber
    <3> QED BY <2>5, <3>3 DEF StartNumber, TypeOK
  <2>6. ASSUME NEW p \in Req, StartCreate(p) PROVE TypeOK'
    <3>1. call[p] \in Calls /\ call[p].kind = "create"
      BY <2>6 DEF StartCreate, TypeOK, Idle
    <3>2. call[p].length \in Nat
      BY <3>1 DEF Calls
    <3>3. now \in Nat /\ now + call[p].length \in Nat
      BY <3>2 DEF TypeOK
    <3>4. [status |-> "IN_PROGRESS", started |-> now, expires |-> now + call[p].length,
           submitted |-> 0] \in Attempt
      BY <3>3 DEF Attempt, Status
    <3>5. att' \in [Number -> Attempt]
      BY <2>6, <3>4 DEF StartCreate, TypeOK
    <3>6. call' \in [Req -> Calls \cup {Idle}]
      BY <2>e, <2>6 DEF StartCreate
    <3> QED BY <2>6, <3>5, <3>6 DEF StartCreate, TypeOK
  <2>7. ASSUME NEW p \in Req, NEW n \in Number, GetRead(p, n) \/ SubmitRead(p, n) PROVE TypeOK'
    <3>1. call' \in [Req -> Calls \cup {Idle}]
      BY <2>0, <2>7, SnapshotType DEF GetRead, SubmitRead, Reason
    <3> QED BY <2>m, <2>7, <3>1 DEF GetRead, SubmitRead, MayBegin, TypeOK
  <2>8. ASSUME NEW p \in Req, NEW n \in Number, NEW q \in Question,
               NEW o \in Option \cup {NoOption}, SaveRead(p, n, q, o)
        PROVE  TypeOK'
    <3>1. [kind |-> "save", n |-> n, q |-> q, o |-> o] \in Calls
      BY DEF Calls
    <3>2. call' \in [Req -> Calls \cup {Idle}]
      BY <2>0, <2>8, <3>1, SnapshotType DEF SaveRead, Reason
    <3> QED BY <2>m, <2>8, <3>2 DEF SaveRead, MayBegin, TypeOK
  <2>9. ASSUME NEW p \in Req, NEW d \in Duration, EditRead(p, d) PROVE TypeOK'
    <3>1. OpenAttempts \in SUBSET Number /\ [n \in Number |-> att[n].expires] \in [Number -> Nat]
      BY DEF OpenAttempts, Live, TypeOK, Attempt
    <3>2. [kind |-> "shift", open |-> OpenAttempts, ends |-> [n \in Number |-> att[n].expires],
           old |-> duration, length |-> d] \in Calls
      BY <3>1 DEF Calls, TypeOK
    <3>3. call' \in [Req -> Calls \cup {Idle}]
      BY <2>0, <2>9, <3>2 DEF EditRead
    <3> QED BY <2>m, <2>9, <3>3 DEF EditRead, MayBegin, TypeOK
  <2>10. ASSUME NEW p \in Req, CloseCommit(p) PROVE TypeOK'
    <3>1. call[p] \in Calls /\ call[p].kind = "close"
      BY <2>10 DEF CloseCommit, TypeOK, Idle
    <3>2. /\ call[p].n \in Number /\ call[p].sel \in Selection /\ call[p].expires \in Nat
          /\ call[p].reason \in Reason
      BY <3>1 DEF Calls
    <3>3. att' \in [Number -> Attempt] /\ scored' \in [Number -> Selection]
      BY <2>10, <3>2, FinalizeType DEF CloseCommit
    <3>4. call' \in [Req -> Calls \cup {Idle}]
      BY <2>e, <2>10 DEF CloseCommit
    <3> QED BY <2>10, <3>3, <3>4 DEF CloseCommit, Finalize, TypeOK
  <2>11. ASSUME NEW p \in Req, SaveCommit(p) PROVE TypeOK'
    <3>1. call[p] \in Calls /\ call[p].kind = "save"
      BY <2>11 DEF SaveCommit, TypeOK, Idle
    <3>2. call[p].n \in Number /\ call[p].q \in Question /\ call[p].o \in Option \cup {NoOption}
      BY <3>1 DEF Calls
    <3>a. [answer[call[p].n] EXCEPT ![call[p].q] = call[p].o] \in Selection
      BY <3>2 DEF TypeOK, Selection
    <3>3. answer' \in [Number -> Selection]
      BY <2>11, <3>a, <3>2 DEF SaveCommit, TypeOK
    <3>4. call' \in [Req -> Calls \cup {Idle}]
      BY <2>e, <2>11 DEF SaveCommit
    <3> QED BY <2>11, <3>3, <3>4 DEF SaveCommit, TypeOK
  <2>12. ASSUME NEW p \in Req, EditShift(p) PROVE TypeOK'
    <3>1. call[p] \in Calls /\ call[p].kind = "shift"
      BY <2>12 DEF EditShift, TypeOK, Idle
    <3>2. /\ call[p].ends \in [Number -> Nat] /\ call[p].old \in Nat
          /\ call[p].length \in Nat /\ call[p].length \in Duration
      BY <3>1 DEF Calls
    <3>3. \A n \in Number : Shifted(call[p].ends[n], call[p].old, call[p].length) \in Nat
      <4>1. now \in Nat
        BY DEF TypeOK
      <4> QED BY <3>2, <4>1 DEF Shifted
    <3>4. \A x \in Attempt, e \in Nat : [x EXCEPT !.expires = e] \in Attempt
      BY DEF Attempt
    <3>5. att' \in [Number -> Attempt]
      BY <2>12, <3>3, <3>4 DEF EditShift, TypeOK
    <3>6. [kind |-> "exam", length |-> call[p].length] \in Calls
      BY <3>2 DEF Calls
    <3>7. call' \in [Req -> Calls \cup {Idle}]
      BY <2>0, <2>12, <3>6 DEF EditShift
    <3> QED BY <2>12, <3>5, <3>7 DEF EditShift, TypeOK
  <2>13. ASSUME NEW p \in Req, EditExam(p) PROVE TypeOK'
    <3>1. call[p] \in Calls /\ call[p].kind = "exam"
      BY <2>13 DEF EditExam, TypeOK, Idle
    <3>2. call[p].length \in Duration
      BY <3>1 DEF Calls
    <3>3. call' \in [Req -> Calls \cup {Idle}]
      BY <2>e, <2>13 DEF EditExam
    <3> QED BY <2>13, <3>2, <3>3 DEF EditExam, TypeOK
  <2>14. ASSUME Tick PROVE TypeOK'
    BY <2>m, <2>14 DEF Tick, TypeOK
  <2>15. ASSUME UNCHANGED vars PROVE TypeOK'
    BY <2>15 DEF vars, TypeOK
  <2> QED
    BY <2>1, <2>2, <2>3, <2>4, <2>5, <2>6, <2>7, <2>8, <2>9, <2>10, <2>11, <2>12, <2>13,
       <2>14, <2>15 DEF Next, Begin, Proceed
<1> QED BY <1>1, <1>2, PTL DEF Spec

-----------------------------------------------------------------------------
(***************************************************************************)
(* Handlers that have not overlapped.  That one attempt is live, what was  *)
(* saved is scored and a closed attempt is final is not inductive: what a  *)
(* handler has read must still be so when it writes.  Fits says that of    *)
(* each kind of call, and OneAtATime that nobody else can have written in  *)
(* between.                                                                *)
(***************************************************************************)
OneAtATime == \A p, r \in Req : call[p] # Idle /\ call[r] # Idle => p = r
OneLive    == \A n, m \in Live : n = m

Fits(c) ==
    /\ c.kind \in {"count", "number", "create"} => Live = {}
    /\ c.kind \in {"close", "restart"} => c.n \in Live /\ c.sel = answer[c.n]
    /\ c.kind = "save" => c.n \in Live
    /\ c.kind = "shift" => c.open \subseteq Live

SerialInv ==
    /\ OneAtATime
    /\ OneLive
    /\ SavedIsScored
    /\ \A p \in Req : Fits(call[p])

\* Once requests have overlapped, they have.
LEMMA MixedStays == ASSUME mixed, [Next]_vars PROVE mixed'
<1>1. ASSUME NEW p \in Req, MayBegin(p) PROVE mixed'
  BY <1>1 DEF MayBegin, Mix
<1>2. ASSUME NEW p \in Req, Begin(p) PROVE mixed'
  BY <1>1, <1>2 DEF Begin, StartRead, GetRead, SubmitRead, SaveRead, EditRead
<1>3. ASSUME NEW p \in Req, Proceed(p) PROVE mixed'
  BY <1>3 DEF Proceed, StartLive, StartClose, StartCount, StartNumber, StartCreate, CloseCommit,
              SaveCommit, EditShift, EditExam, Finalize
<1>4. ASSUME Tick PROVE mixed'
  BY <1>4 DEF Tick, Mix
<1> QED BY <1>2, <1>3, <1>4 DEF Next, vars

LEMMA FinalizeEffect ==
    ASSUME TypeOK, NEW n \in Number, NEW sel, NEW expires, NEW reason,
           Finalize(n, sel, expires, reason)
    PROVE  /\ Live' = Live \ {n}
           /\ Closed' = Closed \cup {n}
           /\ \A m \in Number \ {n} : att'[m] = att[m]
           /\ scored' = [scored EXCEPT ![n] = sel]
           /\ answer' = answer
<1> DEFINE expired == reason = "expired" \/ Passed(expires, now)
<1>1. att' = [att EXCEPT ![n].status = ClosedStatus(expired),
                         ![n].submitted = SubmittedAt(expired, expires)]
  BY DEF Finalize
<1>2. ClosedStatus(expired) \in {"SUBMITTED", "EXPIRED"}
  BY DEF ClosedStatus
<1> HIDE DEF expired
<1>3. att'[n].status \in {"SUBMITTED", "EXPIRED"} /\ \A m \in Number \ {n} : att'[m] = att[m]
  BY <1>1, <1>2 DEF TypeOK, Attempt
<1>4. Live' = Live \ {n} /\ Closed' = Closed \cup {n}
  BY <1>3 DEF Live, Closed
<1> QED BY <1>3, <1>4 DEF Finalize

LEMMA IdleFits == Fits(Idle)
BY DEF Fits, Idle

\* Who goes on is alone, and the others stay idle.
LEMMA Alone ==
    ASSUME TypeOK, OneAtATime, NEW p \in Req, call[p] # Idle, NEW c, Go(p, c)
    PROVE  OneAtATime' /\ call'[p] = c /\ \A r \in Req \ {p} : call'[r] = Idle
BY DEF TypeOK, OneAtATime, Go

LEMMA AloneAtFirst ==
    ASSUME TypeOK, ~mixed', NEW p \in Req, MayBegin(p), NEW c, Go(p, c)
    PROVE  OneAtATime' /\ call'[p] = c /\ \A r \in Req \ {p} : call'[r] = Idle
BY DEF TypeOK, OneAtATime, Go, MayBegin, Mix, InFlight

\* A step that leaves attempts and answers alone, and ends or keeps a fitting call.
LEMMA ReadOnly ==
    ASSUME TypeOK, SerialInv, UNCHANGED <<att, answer, scored>>, OneAtATime',
           NEW p \in Req, Fits(call'[p]), \A r \in Req \ {p} : call'[r] = Idle
    PROVE  SerialInv'
<1>1. Live' = Live /\ Closed' = Closed
  BY DEF Live, Closed
<1>2. OneLive' /\ SavedIsScored'
  BY <1>1 DEF SerialInv, OneLive, SavedIsScored
<1>3. \A r \in Req : Fits(call'[r])
  BY IdleFits
<1>4. (\A r \in Req : Fits(call[r]))'
  BY <1>1, <1>3 DEF Fits
<1> QED BY <1>2, <1>4 DEF SerialInv

\* The step that closes the attempt a fitting call has read.
LEMMA Closing ==
    ASSUME TypeOK, SerialInv, OneAtATime', NEW p \in Req, NEW n \in Live, NEW expires, NEW reason,
           Finalize(n, answer[n], expires, reason),
           call'[p].kind \in {"idle", "count"}, \A r \in Req \ {p} : call'[r] = Idle
    PROVE  SerialInv'
<1>1. n \in Number
  BY DEF Live
<1>2. /\ Live' = Live \ {n} /\ Closed' = Closed \cup {n}
      /\ scored' = [scored EXCEPT ![n] = answer[n]] /\ answer' = answer
  BY <1>1, FinalizeEffect
<1>3. Live' = {}
  BY <1>2 DEF SerialInv, OneLive
<1>4. OneLive'
  BY <1>3 DEF OneLive
<1>5. Closed \subseteq Number
  BY DEF Closed
<1>6. SavedIsScored'
  BY <1>1, <1>2, <1>5 DEF SerialInv, SavedIsScored, TypeOK
<1>7. \A r \in Req : Fits(call[r])'
  BY <1>3 DEF Fits, Idle
<1> QED BY <1>4, <1>6, <1>7 DEF SerialInv

LEMMA SerialStep ==
    ASSUME TypeOK, TypeOK', SerialInv, ~mixed', [Next]_vars
    PROVE  /\ SerialInv'
           /\ \A n \in Closed : att'[n] = att[n] /\ scored'[n] = scored[n]
<1> USE AttemptsAssumption
<1> DEFINE Kept == \A n \in Closed : att'[n] = att[n] /\ scored'[n] = scored[n]
<1>i. \A p \in Req : call[p].kind # "idle" => call[p] # Idle
  BY DEF Idle
<1>o. OneAtATime
  BY DEF SerialInv
<1>1. ASSUME NEW p \in Req, StartRead(p) PROVE SerialInv' /\ Kept
  <2>1. MayBegin(p) /\ Go(p, [kind |-> "live", length |-> duration, at |-> now])
        /\ UNCHANGED <<att, answer, scored>>
    BY <1>1 DEF StartRead
  <2>2. Fits([kind |-> "live", length |-> duration, at |-> now])
    BY DEF Fits
  <2> QED BY <2>1, <2>2, AloneAtFirst, ReadOnly
<1>2. ASSUME NEW p \in Req, StartLive(p) PROVE SerialInv' /\ Kept
  <2>1. UNCHANGED <<att, answer, scored>> /\ call[p] # Idle
    BY <1>2, <1>i DEF StartLive
  <2>2. CASE Resumable = {} /\ Go(p, [call[p] EXCEPT !.kind = "count"])
    <3>1. Live = {}
      <4>1. ASSUME NEW n \in Live PROVE n \in Resumable
        <5>1. \A m \in Live : m = n
          BY DEF SerialInv, OneLive
        <5>2. n <= n
          BY DEF Live, Number
        <5> QED BY <5>1, <5>2 DEF Resumable
      <4> QED BY <2>2, <4>1
    <3>2. call[p] \in Calls /\ call[p].kind = "live"
      BY <1>2, <2>1 DEF TypeOK, StartLive
    <3>3. [call[p] EXCEPT !.kind = "count"].kind = "count"
      BY <3>2 DEF Calls
    <3>4. Fits([call[p] EXCEPT !.kind = "count"])
      BY <3>1, <3>3 DEF Fits
    <3> QED BY <1>o, <2>1, <2>2, <3>4, Alone, ReadOnly
  <2>3. CASE End(p)
    BY <1>o, <2>1, <2>3, IdleFits, Alone, ReadOnly DEF End
  <2>4. ASSUME NEW n \in Resumable,
               Go(p, [kind |-> "restart", n |-> n, sel |-> answer[n], expires |-> att[n].expires,
                      length |-> call[p].length, at |-> call[p].at])
        PROVE  SerialInv' /\ Kept
    <3>1. Fits([kind |-> "restart", n |-> n, sel |-> answer[n], expires |-> att[n].expires,
                length |-> call[p].length, at |-> call[p].at])
      BY DEF Fits, Resumable
    <3> QED BY <1>o, <2>1, <2>4, <3>1, Alone, ReadOnly
  <2> QED BY <1>2, <2>2, <2>3, <2>4 DEF StartLive
<1>3. ASSUME NEW p \in Req, StartClose(p) PROVE SerialInv' /\ Kept
  <2>1. /\ call[p] # Idle /\ call[p].kind = "restart"
        /\ Finalize(call[p].n, call[p].sel, call[p].expires, "expired")
        /\ Go(p, [kind |-> "count", length |-> call[p].length, at |-> call[p].at])
    BY <1>3, <1>i DEF StartClose
  <2>2. call[p].n \in Live /\ call[p].sel = answer[call[p].n]
    BY <2>1 DEF SerialInv, Fits
  <2>3. OneAtATime' /\ call'[p].kind = "count" /\ \A r \in Req \ {p} : call'[r] = Idle
    BY <1>o, <2>1, Alone
  <2>4. SerialInv'
    BY <2>1, <2>2, <2>3, Closing
  <2>5. Kept
    BY <2>1, <2>2, FinalizeEffect DEF Live, Closed, TypeOK
  <2> QED BY <2>4, <2>5
<1>4. ASSUME NEW p \in Req, StartCount(p) PROVE SerialInv' /\ Kept
  <2>1. UNCHANGED <<att, answer, scored>> /\ call[p] # Idle /\ call[p].kind = "count"
    BY <1>4, <1>i DEF StartCount
  <2>2. CASE End(p)
    BY <1>o, <2>1, <2>2, IdleFits, Alone, ReadOnly DEF End
  <2>3. CASE Go(p, [call[p] EXCEPT !.kind = "number"])
    <3>1. Live = {}
      BY <2>1 DEF SerialInv, Fits
    <3>2. call[p] \in Calls
      BY <2>1 DEF TypeOK
    <3>3. [call[p] EXCEPT !.kind = "number"].kind = "number"
      BY <2>1, <3>2 DEF Calls
    <3>4. Fits([call[p] EXCEPT !.kind = "number"])
      BY <3>1, <3>3 DEF Fits
    <3> QED BY <1>o, <2>1, <2>3, <3>4, Alone, ReadOnly
  <2> QED BY <1>4, <2>2, <2>3 DEF StartCount
<1>5. ASSUME NEW p \in Req, StartNumber(p) PROVE SerialInv' /\ Kept
  <2>1. UNCHANGED <<att, answer, scored>> /\ call[p] # Idle /\ call[p].kind = "number"
    BY <1>5, <1>i DEF StartNumber
  <2>2. Live = {}
    BY <2>1 DEF SerialInv, Fits
  <2>3. PICK last : Go(p, [kind |-> "create", length |-> call[p].length, at |-> call[p].at,
                           n |-> last + 1])
    BY <1>5 DEF StartNumber
  <2>4. Fits([kind |-> "create", length |-> call[p].length, at |-> call[p].at, n |-> last + 1])
    BY <2>2 DEF Fits
  <2> QED BY <1>o, <2>1, <2>3, <2>4, Alone, ReadOnly
<1>6. ASSUME NEW p \in Req, StartCreate(p) PROVE SerialInv' /\ Kept
  <2>1. /\ call[p] # Idle /\ call[p].kind = "create" /\ call[p].n \in Number /\ End(p)
        /\ UNCHANGED <<answer, scored>>
    BY <1>6, <1>i DEF StartCreate
  <2>2. OneAtATime' /\ call'[p] = Idle /\ \A r \in Req \ {p} : call'[r] = Idle
    BY <1>o, <2>1, Alone DEF End
  <2>3. Live = {}
    BY <2>1 DEF SerialInv, Fits
  <2>4. CASE UNCHANGED att
    BY <2>1, <2>2, <2>4, IdleFits, ReadOnly
  <2>5. CASE /\ att[call[p].n].status = "NONE"
             /\ att' = [att EXCEPT ![call[p].n] =
                          [status |-> "IN_PROGRESS", started |-> now,
                           expires |-> now + call[p].length, submitted |-> 0]]
    <3>1. Live' = {call[p].n} /\ Closed' = Closed /\ \A n \in Closed : att'[n] = att[n]
      BY <2>1, <2>3, <2>5 DEF Live, Closed, TypeOK
    <3>2. OneLive' /\ SavedIsScored'
      BY <2>1, <3>1 DEF OneLive, SavedIsScored, SerialInv
    <3>3. \A r \in Req : Fits(call[r])'
      BY <2>2 DEF Fits, Idle
    <3> QED BY <2>1, <2>2, <3>1, <3>2, <3>3 DEF SerialInv
  <2> QED BY <1>6, <2>4, <2>5 DEF StartCreate
<1>7. ASSUME NEW p \in Req, NEW n \in Number, GetRead(p, n) \/ SubmitRead(p, n)
      PROVE  SerialInv' /\ Kept
  <2>1. UNCHANGED <<att, answer, scored>> /\ n \in Live /\ MayBegin(p)
    BY <1>7 DEF GetRead, SubmitRead
  <2>2. PICK reason : Go(p, Snapshot(n, reason))
    BY <1>7 DEF GetRead, SubmitRead
  <2>3. Fits(Snapshot(n, reason))
    BY <2>1 DEF Fits, Snapshot
  <2> QED BY <2>1, <2>2, <2>3, AloneAtFirst, ReadOnly
<1>8. ASSUME NEW p \in Req, NEW n \in Number, NEW q \in Question,
             NEW o \in Option \cup {NoOption}, SaveRead(p, n, q, o)
      PROVE  SerialInv' /\ Kept
  <2>1. UNCHANGED <<att, answer, scored>> /\ n \in Live /\ MayBegin(p)
    BY <1>8 DEF SaveRead
  <2>2. PICK c \in {Snapshot(n, "expired"), [kind |-> "save", n |-> n, q |-> q, o |-> o]} : Go(p, c)
    BY <1>8 DEF SaveRead
  <2>3. Fits(c)
    BY <2>1 DEF Fits, Snapshot
  <2> QED BY <2>1, <2>2, <2>3, AloneAtFirst, ReadOnly
<1>9. ASSUME NEW p \in Req, NEW d \in Duration, EditRead(p, d) PROVE SerialInv' /\ Kept
  <2>1. UNCHANGED <<att, answer, scored>> /\ MayBegin(p)
    BY <1>9 DEF EditRead
  <2>2. PICK ends : Go(p, [kind |-> "shift", open |-> Live, ends |-> ends, old |-> duration,
                           length |-> d])
    BY <1>9 DEF EditRead, OpenAttempts
  <2>3. Fits([kind |-> "shift", open |-> Live, ends |-> ends, old |-> duration, length |-> d])
    BY DEF Fits
  <2> QED BY <2>1, <2>2, <2>3, AloneAtFirst, ReadOnly
<1>10. ASSUME NEW p \in Req, CloseCommit(p) PROVE SerialInv' /\ Kept
  <2>1. /\ call[p] # Idle /\ call[p].kind = "close" /\ End(p)
        /\ Finalize(call[p].n, call[p].sel, call[p].expires, call[p].reason)
    BY <1>10, <1>i DEF CloseCommit
  <2>2. call[p].n \in Live /\ call[p].sel = answer[call[p].n]
    BY <2>1 DEF SerialInv, Fits
  <2>3. OneAtATime' /\ call'[p].kind = "idle" /\ \A r \in Req \ {p} : call'[r] = Idle
    BY <1>o, <2>1, Alone DEF End, Idle
  <2>4. SerialInv'
    BY <2>1, <2>2, <2>3, Closing
  <2>5. Kept
    BY <2>1, <2>2, FinalizeEffect DEF Live, Closed, TypeOK
  <2> QED BY <2>4, <2>5
<1>11. ASSUME NEW p \in Req, SaveCommit(p) PROVE SerialInv' /\ Kept
  <2>1. /\ call[p] # Idle /\ call[p].kind = "save" /\ End(p) /\ UNCHANGED <<att, scored>>
        /\ answer' = [answer EXCEPT ![call[p].n] = [@ EXCEPT ![call[p].q] = call[p].o]]
    BY <1>11, <1>i DEF SaveCommit
  <2>2. call[p].n \in Live
    BY <2>1 DEF SerialInv, Fits
  <2>3. Live' = Live /\ Closed' = Closed /\ \A n \in Closed : answer'[n] = answer[n]
    BY <2>1, <2>2 DEF Live, Closed, TypeOK
  <2>4. OneAtATime' /\ call'[p] = Idle /\ \A r \in Req \ {p} : call'[r] = Idle
    BY <1>o, <2>1, Alone DEF End
  <2>5. OneLive' /\ SavedIsScored'
    BY <2>1, <2>3 DEF OneLive, SavedIsScored, SerialInv
  <2>6. \A r \in Req : Fits(call[r])'
    BY <2>4 DEF Fits, Idle
  <2> QED BY <2>1, <2>4, <2>5, <2>6 DEF SerialInv
<1>12. ASSUME NEW p \in Req, EditShift(p) PROVE SerialInv' /\ Kept
  <2>1. /\ call[p] # Idle /\ call[p].kind = "shift" /\ UNCHANGED <<answer, scored>>
        /\ Go(p, [kind |-> "exam", length |-> call[p].length])
    BY <1>12, <1>i DEF EditShift
  <2>2. call[p].open \subseteq Live
    BY <2>1 DEF SerialInv, Fits
  <2>3. /\ \A n \in Number \ call[p].open : att'[n] = att[n]
        /\ \A n \in call[p].open : att'[n].status = att[n].status
    BY <1>12, <2>2 DEF EditShift, TypeOK, Attempt, Live
  <2>4. \A n \in Number : att'[n].status = att[n].status
    BY <2>3
  <2>5. Live' = Live /\ Closed' = Closed /\ \A n \in Closed : att'[n] = att[n]
    BY <2>2, <2>3, <2>4 DEF Live, Closed
  <2>6. /\ OneAtATime' /\ call'[p] = [kind |-> "exam", length |-> call[p].length]
        /\ \A r \in Req \ {p} : call'[r] = Idle
    BY <1>o, <2>1, Alone
  <2>7. OneLive' /\ SavedIsScored'
    BY <2>1, <2>5 DEF OneLive, SavedIsScored, SerialInv
  <2>8. \A r \in Req : Fits(call[r])'
    BY <2>6 DEF Fits, Idle
  <2> QED BY <2>1, <2>5, <2>6, <2>7, <2>8 DEF SerialInv
<1>13. ASSUME NEW p \in Req, EditExam(p) PROVE SerialInv' /\ Kept
  <2>1. UNCHANGED <<att, answer, scored>> /\ call[p] # Idle /\ End(p)
    BY <1>13, <1>i DEF EditExam
  <2> QED BY <1>o, <2>1, IdleFits, Alone, ReadOnly DEF End
<1>14. ASSUME Tick \/ UNCHANGED vars PROVE SerialInv' /\ Kept
  <2>1. UNCHANGED <<att, answer, scored, call>>
    BY <1>14 DEF Tick, vars
  <2>2. Live' = Live /\ Closed' = Closed
    BY <2>1 DEF Live, Closed
  <2> QED
    BY <2>1, <2>2 DEF SerialInv, OneAtATime, OneLive, SavedIsScored, Fits
<1> QED
  BY <1>1, <1>2, <1>3, <1>4, <1>5, <1>6, <1>7, <1>8, <1>9, <1>10, <1>11, <1>12, <1>13, <1>14
     DEF Next, Begin, Proceed

LEMMA SerialInitially == Init => SerialInv
BY DEF Init, SerialInv, OneAtATime, OneLive, SavedIsScored, Fits, Live, Closed, Idle

\* What holds until requests overlap.
CalmInv == ~mixed => SerialInv

LEMMA CalmInductive == Spec => []CalmInv
<1>1. Init => CalmInv
  BY SerialInitially DEF CalmInv
<1>2. TypeOK /\ TypeOK' /\ CalmInv /\ [Next]_vars => CalmInv'
  BY SerialStep, MixedStays DEF CalmInv
<1> QED BY <1>1, <1>2, CbtTypeCorrect, PTL DEF Spec

\* Until requests overlap a student has one live attempt: a second start resumes it.
THEOREM OneAttemptIsLive == Spec => []OneLiveAttempt
<1>1. CalmInv => OneLiveAttempt
  BY DEF CalmInv, SerialInv, OneLive, OneLiveAttempt
<1> QED BY <1>1, CalmInductive, PTL

\* Every answer reported as saved is in the score of its attempt, whatever expires.
THEOREM SavedAnswersCount == Spec => []SavedWasScored
<1>1. CalmInv => SavedWasScored
  BY DEF CalmInv, SerialInv, SavedWasScored
<1> QED BY <1>1, CalmInductive, PTL

\* Nothing rescores, reopens or moves a closed attempt, whatever the teacher edits.
THEOREM ClosedStaysClosed == Spec => ClosedIsFinal
<1>1. TypeOK /\ TypeOK' /\ CalmInv /\ [Next]_vars
        => [~mixed' => \A n \in Closed : att'[n] = att[n] /\ scored'[n] = scored[n]]_vars
  BY SerialStep, MixedStays DEF CalmInv
<1> QED BY <1>1, CalmInductive, CbtTypeCorrect, PTL DEF Spec, ClosedIsFinal

-----------------------------------------------------------------------------
(***************************************************************************)
(* Time.  A handler that is alone knows the duration of the exam, the      *)
(* deadlines that it shifts are the ones of now, and between the shift and *)
(* the write of the exam the open attempts have the time of the new one.   *)
(***************************************************************************)
Generous(length) == \A n \in Live : att[n].expires >= att[n].started + length

Timely(c) ==
    /\ c.kind \in {"live", "count", "number", "create", "restart"} => c.length = duration
    /\ c.kind = "shift" => /\ c.open = Live /\ c.old = duration
                          /\ \A n \in Live : c.ends[n] = att[n].expires
    /\ c.kind = "exam" => Generous(c.length)

TimeInv ==
    /\ \A p \in Req : Timely(call[p])
    /\ Generous(duration) \/ \E p \in Req : call[p].kind = "exam"

LEMMA KnownNumbers ==
    ASSUME TypeOK
    PROVE  /\ now \in Nat /\ duration \in Nat
           /\ \A n \in Number : att[n] \in Attempt /\ att[n].expires \in Nat /\ att[n].started \in Nat
BY AttemptsAssumption DEF TypeOK, Attempt

LEMMA TimeKept ==
    ASSUME NEW p \in Req, Timely(call[p])', \A r \in Req \ {p} : call'[r] = Idle,
           Generous(duration)' \/ call'[p].kind = "exam"
    PROVE  TimeInv'
<1>1. \A r \in Req : Timely(call[r])'
  BY DEF Timely, Idle
<1> QED BY <1>1 DEF TimeInv

\* Whoever is alone and does not write the exam finds everybody with enough time.
LEMMA TimeNow ==
    ASSUME TimeInv, NEW p \in Req, call[p].kind # "exam", \A r \in Req \ {p} : call[r] = Idle
    PROVE  Generous(duration)
BY DEF TimeInv, Idle

\* A step that leaves attempts and exam alone.
LEMMA TimeReadOnly ==
    ASSUME UNCHANGED <<att, duration>>, Generous(duration), NEW p \in Req, NEW c, Timely(c),
           call'[p] = c, \A r \in Req \ {p} : call'[r] = Idle
    PROVE  TimeInv'
<1>1. Live' = Live
  BY DEF Live
<1>2. Generous(duration)'
  BY <1>1 DEF Generous
<1>3. Timely(call[p])'
  BY <1>1, <1>2 DEF Timely, Generous
<1> QED BY <1>2, <1>3, TimeKept

LEMMA FinalizeTime ==
    ASSUME TypeOK, Generous(duration), NEW n \in Number, NEW sel, NEW expires, NEW reason,
           Finalize(n, sel, expires, reason)
    PROVE  Generous(duration)' /\ duration' = duration
<1>1. Live' = Live \ {n} /\ \A m \in Number \ {n} : att'[m] = att[m]
  BY FinalizeEffect
<1> QED BY <1>1 DEF Generous, Live, Finalize

LEMMA TimeStep ==
    ASSUME TypeOK, TypeOK', SerialInv, TimeInv, ~mixed', [Next]_vars
    PROVE  TimeInv'
<1>i. \A p \in Req : call[p].kind # "idle" => call[p] # Idle
  BY DEF Idle
<1>o. OneAtATime
  BY DEF SerialInv
<1>b. ASSUME NEW p \in Req, MayBegin(p), NEW c, Go(p, c), UNCHANGED <<att, duration>>, Generous(duration) => Timely(c)
      PROVE  TimeInv'
  <2>1. call'[p] = c /\ \A r \in Req \ {p} : call'[r] = Idle
    BY <1>b, AloneAtFirst
  <2>2. \A r \in Req : call[r] = Idle
    BY <1>b DEF MayBegin, Mix, InFlight
  <2>3. Generous(duration)
    BY <2>2 DEF TimeInv, Idle
  <2> QED BY <1>b, <2>1, <2>3, TimeReadOnly
<1>p. ASSUME NEW p \in Req, call[p].kind \notin {"idle", "exam"}
      PROVE  /\ Generous(duration) /\ Timely(call[p]) /\ call[p] \in Calls
             /\ \A c : Go(p, c) => call'[p] = c /\ \A r \in Req \ {p} : call'[r] = Idle
  <2>1. call[p] # Idle /\ \A r \in Req \ {p} : call[r] = Idle
    BY <1>i, <1>o, <1>p DEF OneAtATime
  <2>2. Generous(duration)
    BY <1>p, <2>1, TimeNow
  <2>3. Timely(call[p]) /\ call[p] \in Calls
    BY <2>1 DEF TimeInv, TypeOK
  <2> QED BY <1>o, <2>1, <2>2, <2>3, Alone
<1>n. Timely(Idle)
  BY DEF Timely, Idle
<1>g. ASSUME NEW p \in Req, call[p].kind \notin {"idle", "exam"}, UNCHANGED <<att, duration>>,
             NEW c, Go(p, c), Timely(c)
      PROVE  TimeInv'
  BY <1>p, <1>g, TimeReadOnly
<1>1. ASSUME NEW p \in Req, StartRead(p) PROVE TimeInv'
  <2>1. Timely([kind |-> "live", length |-> duration, at |-> now])
    BY DEF Timely
  <2> QED BY <1>b, <1>1, <2>1 DEF StartRead
<1>2. ASSUME NEW p \in Req, StartLive(p) PROVE TimeInv'
  <2>1. call[p].length = duration /\ call[p] \in Calls /\ call[p].kind = "live"
    BY <1>p, <1>2 DEF StartLive, Timely
  <2>2. Timely([call[p] EXCEPT !.kind = "count"])
    BY <2>1 DEF Timely, Calls
  <2>3. \A n : Timely([kind |-> "restart", n |-> n, sel |-> answer[n], expires |-> att[n].expires,
                       length |-> call[p].length, at |-> call[p].at])
    BY <2>1 DEF Timely
  <2>4. PICK c : Go(p, c) /\ Timely(c)
    BY <1>2, <1>n, <2>2, <2>3 DEF StartLive, End
  <2> QED BY <1>g, <1>2, <2>1, <2>4 DEF StartLive
<1>3. ASSUME NEW p \in Req, StartClose(p) PROVE TimeInv'
  <2>1. call[p].length = duration /\ call[p].kind = "restart" /\ call[p].n \in Live
    BY <1>p, <1>3 DEF StartClose, Timely, SerialInv, Fits
  <2>2. Generous(duration)' /\ duration' = duration
    BY <1>p, <1>3, <2>1, FinalizeTime DEF StartClose, Live
  <2>3. call'[p] = [kind |-> "count", length |-> duration, at |-> call[p].at] /\ \A r \in Req \ {p} : call'[r] = Idle
    BY <1>p, <1>3, <2>1 DEF StartClose
  <2>4. Timely(call[p])'
    BY <2>2, <2>3 DEF Timely
  <2> QED BY <2>2, <2>3, <2>4, TimeKept
<1>4. ASSUME NEW p \in Req, StartCount(p) \/ StartNumber(p) PROVE TimeInv'
  <2>1. call[p].length = duration /\ call[p] \in Calls /\ call[p].kind \in {"count", "number"}
    BY <1>p, <1>4 DEF StartCount, StartNumber, Timely
  <2>2. Timely([call[p] EXCEPT !.kind = "number"])
    BY <2>1 DEF Timely, Calls
  <2>3. \A n : Timely([kind |-> "create", length |-> call[p].length, at |-> call[p].at, n |-> n])
    BY <2>1 DEF Timely
  <2>4. PICK c : Go(p, c) /\ Timely(c)
    BY <1>4, <1>n, <2>2, <2>3 DEF StartCount, StartNumber, End
  <2> QED BY <1>g, <1>4, <2>1, <2>4 DEF StartCount, StartNumber
<1>5. ASSUME NEW p \in Req, StartCreate(p) PROVE TimeInv'
  <2>1. call[p].length = duration /\ call[p].kind = "create" /\ Live = {} /\ duration' = duration
    BY <1>p, <1>5 DEF StartCreate, Timely, SerialInv, Fits
  <2>2. call'[p] = Idle /\ \A r \in Req \ {p} : call'[r] = Idle
    BY <1>p, <1>5 DEF StartCreate, End
  <2>3. Generous(duration)'
    <3>1. CASE UNCHANGED att
      BY <2>1, <3>1 DEF Generous, Live
    <3>2. CASE att' = [att EXCEPT ![call[p].n] = [status |-> "IN_PROGRESS", started |-> now,
                                                  expires |-> now + call[p].length, submitted |-> 0]]
      <4>1. \A n \in Live' : n = call[p].n /\ n \in Number
        BY <2>1, <3>2 DEF Live, TypeOK
      <4>2. \A n \in Live' : att'[n].expires = now + duration /\ att'[n].started = now
        BY <2>1, <3>2, <4>1 DEF TypeOK
      <4> QED BY <2>1, <4>2, KnownNumbers DEF Generous
    <3> QED BY <1>5, <3>1, <3>2 DEF StartCreate
  <2>4. Timely(call[p])'
    BY <2>2 DEF Timely, Idle
  <2> QED BY <2>2, <2>3, <2>4, TimeKept
<1>6. ASSUME NEW p \in Req, NEW n \in Number, GetRead(p, n) \/ SubmitRead(p, n) PROVE TimeInv'
  <2>1. PICK reason : Go(p, Snapshot(n, reason))
    BY <1>6 DEF GetRead, SubmitRead
  <2>2. Timely(Snapshot(n, reason))
    BY DEF Timely, Snapshot
  <2> QED BY <1>b, <1>6, <2>1, <2>2 DEF GetRead, SubmitRead
<1>7. ASSUME NEW p \in Req, NEW n \in Number, NEW q \in Question, NEW o \in Option \cup {NoOption}, SaveRead(p, n, q, o)
      PROVE  TimeInv'
  <2>1. PICK c \in {Snapshot(n, "expired"), [kind |-> "save", n |-> n, q |-> q, o |-> o]} : Go(p, c)
    BY <1>7 DEF SaveRead
  <2>2. Timely(c)
    BY DEF Timely, Snapshot
  <2> QED BY <1>b, <1>7, <2>1, <2>2 DEF SaveRead
<1>8. ASSUME NEW p \in Req, NEW d \in Duration, EditRead(p, d) PROVE TimeInv'
  <2> DEFINE c == [kind |-> "shift", open |-> OpenAttempts, ends |-> [n \in Number |-> att[n].expires],
                   old |-> duration, length |-> d]
  <2>1. Timely(c)
    BY DEF Timely, OpenAttempts, Live
  <2>2. MayBegin(p) /\ Go(p, c) /\ UNCHANGED <<att, duration>>
    BY <1>8 DEF EditRead
  <2> HIDE DEF c
  <2> QED BY <1>b, <2>1, <2>2
<1>9. ASSUME NEW p \in Req, CloseCommit(p) PROVE TimeInv'
  <2>1. call[p].kind = "close" /\ call[p].n \in Live
    BY <1>9 DEF CloseCommit, SerialInv, Fits
  <2>2. Generous(duration)' /\ duration' = duration
    BY <1>p, <1>9, <2>1, FinalizeTime DEF CloseCommit, Live
  <2>3. call'[p] = Idle /\ \A r \in Req \ {p} : call'[r] = Idle
    BY <1>p, <1>9, <2>1 DEF CloseCommit, End
  <2>4. Timely(call[p])'
    BY <2>3 DEF Timely, Idle
  <2> QED BY <2>2, <2>3, <2>4, TimeKept
<1>10. ASSUME NEW p \in Req, SaveCommit(p) PROVE TimeInv'
  BY <1>g, <1>n, <1>10 DEF SaveCommit, End
<1>11. ASSUME NEW p \in Req, EditShift(p) PROVE TimeInv'
  <2> DEFINE c == call[p]
  <2>1. /\ c \in Calls /\ c.kind = "shift" /\ c.open = Live /\ c.old = duration
        /\ \A n \in Live : c.ends[n] = att[n].expires
        /\ Generous(duration)
    BY <1>p, <1>11 DEF EditShift, Timely
  <2>2. c.length \in Nat
    BY <2>1, AttemptsAssumption DEF Calls
  <2>3. call'[p] = [kind |-> "exam", length |-> c.length] /\ \A r \in Req \ {p} : call'[r] = Idle
    BY <1>p, <1>11, <2>1 DEF EditShift
  <2>4. \A n \in Number : att'[n] = IF n \in Live THEN [att[n] EXCEPT !.expires = Shifted(att[n].expires, duration, c.length)]
                                                 ELSE att[n]
    BY <1>11, <2>1 DEF EditShift
  <2>5. \A n \in Number : att[n] \in Attempt
    BY KnownNumbers
  <2>6. Live' = Live /\ \A n \in Live : /\ att'[n].started = att[n].started
                                        /\ att'[n].expires = Shifted(att[n].expires, duration, c.length)
    BY <2>4, <2>5 DEF Live, Attempt
  <2>7. \A n \in Live : Shifted(att[n].expires, duration, c.length) >= att[n].started + c.length
    BY <2>1, <2>2, KnownNumbers DEF Shifted, Generous, Live
  <2>8. Generous(c.length)'
    <3> SUFFICES \A n \in Live' : att'[n].expires >= att'[n].started + call'[p].length
      BY <2>3, <2>6, <2>7 DEF Generous
    <3> QED BY <2>3, <2>6, <2>7
  <2>9. Timely(call[p])'
    BY <2>3, <2>6, <2>7 DEF Timely, Generous
  <2> QED BY <2>3, <2>9, TimeKept
<1>12. ASSUME NEW p \in Req, EditExam(p) PROVE TimeInv'
  <2>1. call[p].kind = "exam" /\ call[p] # Idle /\ duration' = call[p].length /\ att' = att
    BY <1>i, <1>12 DEF EditExam
  <2>2. call'[p] = Idle /\ \A r \in Req \ {p} : call'[r] = Idle
    BY <1>o, <1>12, <2>1, Alone DEF EditExam, End
  <2>3. Generous(call[p].length)
    BY <2>1 DEF TimeInv, Timely
  <2>4. Generous(duration)'
    BY <2>1, <2>3 DEF Generous, Live
  <2>5. Timely(call[p])'
    BY <2>2 DEF Timely, Idle
  <2> QED BY <2>2, <2>4, <2>5, TimeKept
<1>13. ASSUME Tick \/ UNCHANGED vars PROVE TimeInv'
  <2>1. UNCHANGED <<att, call, duration>>
    BY <1>13 DEF Tick, vars
  <2>2. Live' = Live
    BY <2>1 DEF Live
  <2> QED BY <2>1, <2>2 DEF TimeInv, Timely, Generous
<1> QED
  BY <1>1, <1>2, <1>3, <1>4, <1>5, <1>6, <1>7, <1>8, <1>9, <1>10, <1>11, <1>12, <1>13
     DEF Next, Begin, Proceed

\* Until requests overlap no edit of the exam, and no restart, leaves a student less
\* time than the exam says, whatever the durations.
THEOREM NobodyIsCutShort == Spec => []NobodyLosesTime
<1> DEFINE CalmTime == ~mixed => TimeInv
<1>1. Init => CalmTime
  BY DEF Init, TimeInv, Timely, Generous, Live, Idle
<1>2. TypeOK /\ TypeOK' /\ CalmInv /\ CalmTime /\ [Next]_vars => CalmTime'
  BY TimeStep, MixedStays DEF CalmInv
<1>3. CalmTime => NobodyLosesTime
  BY DEF NobodyLosesTime, TimeInv, Generous, InFlight, Idle
<1> HIDE DEF CalmTime
<1> QED BY <1>1, <1>2, <1>3, CalmInductive, CbtTypeCorrect, PTL DEF Spec

-----------------------------------------------------------------------------
(***************************************************************************)
(* Handlers that overlap.  A stale handler may close an attempt again, but *)
(* it still knows the deadline, which nothing but an edit moves.           *)
(***************************************************************************)
KnowsDeadline(c) ==
    /\ c.kind # "shift"
    /\ c.kind \in {"close", "restart"} => c.n \in Existing /\ c.expires = att[c.n].expires

InTime == \A n \in Closed : att[n].submitted <= att[n].expires

DeadlineInv ==
    /\ \A p \in Req : KnowsDeadline(call[p])
    /\ InTime

\* A step of one request that leaves every existing attempt's deadline where it is.
LEMMA DeadlineKept ==
    ASSUME TypeOK, DeadlineInv, NEW p \in Req, NEW c, Go(p, c), KnowsDeadline(c)',
           Existing \subseteq Existing', \A n \in Existing : att'[n].expires = att[n].expires,
           InTime'
    PROVE  DeadlineInv'
<1>1. \A r \in Req : call'[r] = IF r = p THEN c ELSE call[r]
  BY DEF Go, TypeOK
<1>2. \A r \in Req : KnowsDeadline(call[r])'
  <2> TAKE r \in Req
  <2>1. CASE r = p
    BY <1>1, <2>1 DEF KnowsDeadline
  <2>2. CASE r # p
    BY <1>1, <2>2 DEF KnowsDeadline, DeadlineInv
  <2> QED BY <2>1, <2>2
<1> QED BY <1>2 DEF DeadlineInv

\* Whoever closes it, an attempt is stored with a time up to the deadline of the snapshot.
LEMMA FinalizeInTime ==
    ASSUME TypeOK, DeadlineInv, NEW n \in Existing, NEW sel, NEW reason,
           Finalize(n, sel, att[n].expires, reason)
    PROVE  /\ Existing' = Existing /\ \A m \in Number : att'[m].expires = att[m].expires
           /\ InTime'
<1>1. n \in Number /\ att[n].expires \in Nat /\ now \in Nat
  BY DEF Existing, TypeOK, Attempt
<1> DEFINE expired == reason = "expired" \/ Passed(att[n].expires, now)
           at == SubmittedAt(expired, att[n].expires)
           st == ClosedStatus(expired)
<1>2. att' = [att EXCEPT ![n].status = st, ![n].submitted = at]
  BY DEF Finalize
<1>3. at <= att[n].expires
  BY <1>1 DEF SubmittedAt, Passed
<1>4. st # "NONE"
  BY DEF ClosedStatus
<1> HIDE DEF at, st, expired
<1>5. /\ att'[n].status = st /\ att'[n].submitted = at /\ att'[n].expires = att[n].expires
      /\ \A m \in Number \ {n} : att'[m] = att[m]
  BY <1>1, <1>2 DEF TypeOK, Attempt
<1>6. Existing' = Existing /\ \A m \in Number : att'[m].expires = att[m].expires
  BY <1>1, <1>4, <1>5 DEF Existing
<1>7. InTime'
  BY <1>1, <1>3, <1>5 DEF DeadlineInv, InTime, Closed
<1> QED BY <1>6, <1>7

LEMMA DeadlineStep ==
    ASSUME TypeOK, DeadlineInv, edits' = 0, [Next]_vars
    PROVE  DeadlineInv'
<1> USE AttemptsAssumption
<1>i. KnowsDeadline(Idle)' /\ \A c : c.kind \notin {"shift", "close", "restart"} => KnowsDeadline(c)'
  BY DEF KnowsDeadline, Idle
<1>u. UNCHANGED att => /\ Existing' = Existing /\ InTime'
                       /\ \A n \in Existing : att'[n].expires = att[n].expires
  BY DEF Existing, Closed, InTime, DeadlineInv
<1>1. ASSUME NEW p \in Req, NEW c, Go(p, c), KnowsDeadline(c)', UNCHANGED att PROVE DeadlineInv'
  BY <1>1, <1>u, DeadlineKept
<1>2. ASSUME NEW p \in Req, StartRead(p) PROVE DeadlineInv'
  BY <1>1, <1>2, <1>i DEF StartRead
<1>3. ASSUME NEW p \in Req, StartLive(p) PROVE DeadlineInv'
  <2>1. UNCHANGED att /\ call[p] \in Calls /\ call[p].kind = "live"
    BY <1>3 DEF StartLive, TypeOK, Idle
  <2>2. [call[p] EXCEPT !.kind = "count"].kind = "count"
    BY <2>1 DEF Calls
  <2>3. CASE Go(p, [call[p] EXCEPT !.kind = "count"])
    BY <1>1, <1>i, <2>1, <2>2, <2>3
  <2>4. CASE End(p)
    BY <1>1, <1>i, <2>1, <2>4 DEF End
  <2>5. ASSUME NEW n \in Resumable,
               Go(p, [kind |-> "restart", n |-> n, sel |-> answer[n], expires |-> att[n].expires,
                      length |-> call[p].length, at |-> call[p].at])
        PROVE  DeadlineInv'
    <3>1. PICK c : c = [kind |-> "restart", n |-> n, sel |-> answer[n], expires |-> att[n].expires,
                        length |-> call[p].length, at |-> call[p].at]
      OBVIOUS
    <3>2. KnowsDeadline(c)'
      BY <2>1, <3>1 DEF KnowsDeadline, Resumable, Live, Existing
    <3> QED BY <1>1, <2>1, <2>5, <3>1, <3>2
  <2> QED BY <1>3, <2>3, <2>4, <2>5 DEF StartLive
<1>4. ASSUME NEW p \in Req, StartClose(p) PROVE DeadlineInv'
  <2>1. /\ call[p].n \in Existing
        /\ Finalize(call[p].n, call[p].sel, att[call[p].n].expires, "expired")
    BY <1>4 DEF StartClose, DeadlineInv, KnowsDeadline
  <2>2. PICK c : c.kind = "count" /\ Go(p, c)
    BY <1>4 DEF StartClose
  <2>3. KnowsDeadline(c)'
    BY <1>i, <2>2
  <2>4. Existing \subseteq Number
    BY DEF Existing
  <2> QED BY <2>1, <2>2, <2>3, <2>4, FinalizeInTime, DeadlineKept
<1>5. ASSUME NEW p \in Req, StartCount(p) PROVE DeadlineInv'
  <2>1. UNCHANGED att /\ call[p] \in Calls /\ call[p].kind = "count"
    BY <1>5 DEF StartCount, TypeOK, Idle
  <2>2. [call[p] EXCEPT !.kind = "number"].kind = "number"
    BY <2>1 DEF Calls
  <2> QED BY <1>1, <1>5, <1>i, <2>1, <2>2 DEF StartCount, End
<1>6. ASSUME NEW p \in Req, StartNumber(p) PROVE DeadlineInv'
  BY <1>1, <1>6, <1>i DEF StartNumber
<1>7. ASSUME NEW p \in Req, StartCreate(p) PROVE DeadlineInv'
  <2>1. CASE UNCHANGED att
    BY <1>1, <1>7, <1>i, <2>1 DEF StartCreate, End
  <2>2. ASSUME NEW n \in Number, att[n].status = "NONE",
               att' = [att EXCEPT ![n] = [status |-> "IN_PROGRESS", started |-> now,
                                          expires |-> now + call[p].length, submitted |-> 0]]
        PROVE  DeadlineInv'
    <3>1. /\ Existing' = Existing \cup {n} /\ Closed' = Closed /\ n \notin Existing
          /\ \A m \in Number \ {n} : att'[m] = att[m]
      BY <2>2 DEF Existing, Closed, TypeOK
    <3>2. Closed \subseteq Existing /\ Existing \subseteq Number
      BY DEF Existing, Closed
    <3>3. InTime'
      BY <3>1, <3>2 DEF DeadlineInv, InTime
    <3>4. \A m \in Existing : att'[m].expires = att[m].expires
      BY <3>1, <3>2
    <3> QED BY <1>7, <1>i, <3>1, <3>3, <3>4, DeadlineKept DEF StartCreate, End
  <2> QED BY <1>7, <2>1, <2>2 DEF StartCreate
<1>8. ASSUME NEW p \in Req, NEW n \in Number, GetRead(p, n) \/ SubmitRead(p, n)
      PROVE  DeadlineInv'
  <2>1. UNCHANGED att /\ n \in Live
    BY <1>8 DEF GetRead, SubmitRead
  <2>2. PICK c : /\ \E reason : c = Snapshot(n, reason)
                 /\ Go(p, c)
    BY <1>8 DEF GetRead, SubmitRead
  <2>3. KnowsDeadline(c)'
    BY <2>1, <2>2 DEF KnowsDeadline, Snapshot, Live, Existing
  <2> QED BY <1>1, <2>1, <2>2, <2>3
<1>9. ASSUME NEW p \in Req, NEW n \in Number, NEW q \in Question,
             NEW o \in Option \cup {NoOption}, SaveRead(p, n, q, o)
      PROVE  DeadlineInv'
  <2>1. UNCHANGED att /\ n \in Live
    BY <1>9 DEF SaveRead
  <2>2. CASE Go(p, Snapshot(n, "expired"))
    <3>1. PICK c : c = Snapshot(n, "expired")
      OBVIOUS
    <3>2. KnowsDeadline(c)'
      BY <2>1, <3>1 DEF KnowsDeadline, Snapshot, Live, Existing
    <3> QED BY <1>1, <2>1, <2>2, <3>1, <3>2
  <2>3. CASE Go(p, [kind |-> "save", n |-> n, q |-> q, o |-> o])
    BY <1>1, <1>i, <2>1, <2>3
  <2> QED BY <1>9, <2>2, <2>3 DEF SaveRead
<1>10. ASSUME NEW p \in Req, NEW d \in Duration, EditRead(p, d) PROVE DeadlineInv'
  BY <1>10 DEF EditRead, TypeOK
<1>11. ASSUME NEW p \in Req, CloseCommit(p) PROVE DeadlineInv'
  <2>1. /\ call[p].n \in Existing
        /\ Finalize(call[p].n, call[p].sel, att[call[p].n].expires, call[p].reason)
        /\ Go(p, Idle)
    BY <1>11 DEF CloseCommit, End, DeadlineInv, KnowsDeadline
  <2>2. Existing \subseteq Number
    BY DEF Existing
  <2> QED BY <1>i, <2>1, <2>2, FinalizeInTime, DeadlineKept
<1>12. ASSUME NEW p \in Req, SaveCommit(p) \/ EditExam(p) PROVE DeadlineInv'
  BY <1>1, <1>12, <1>i DEF SaveCommit, EditExam, End
<1>13. ASSUME NEW p \in Req, EditShift(p) PROVE DeadlineInv'
  BY <1>13 DEF EditShift, DeadlineInv, KnowsDeadline
<1>14. ASSUME Tick \/ UNCHANGED vars PROVE DeadlineInv'
  BY <1>14, <1>u DEF Tick, vars, DeadlineInv, KnowsDeadline
<1> QED
  BY <1>2, <1>3, <1>4, <1>5, <1>6, <1>7, <1>8, <1>9, <1>10, <1>11, <1>12, <1>13, <1>14
     DEF Next, Begin, Proceed

\* An edit is not forgotten.
LEMMA EditsStay == ASSUME TypeOK, edits # 0, [Next]_vars PROVE edits' # 0
<1>1. ASSUME NEW p \in Req, Begin(p) PROVE edits' # 0
  <2>1. edits \in Nat
    BY AttemptsAssumption DEF TypeOK
  <2>2. ASSUME NEW d \in Duration, EditRead(p, d) PROVE edits' # 0
    BY <2>1, <2>2 DEF EditRead
  <2> QED BY <1>1, <2>2 DEF Begin, StartRead, GetRead, SubmitRead, SaveRead
<1>2. ASSUME NEW p \in Req, Proceed(p) PROVE edits' # 0
  BY <1>2 DEF Proceed, StartLive, StartClose, StartCount, StartNumber, StartCreate, CloseCommit,
              SaveCommit, EditShift, EditExam, Finalize
<1> QED BY <1>1, <1>2 DEF Next, Tick, vars

\* However requests overlap, while nobody has edited the exam no attempt is stored
\* as submitted after its deadline.
THEOREM SubmittedInTime == Spec => []SubmittedByDeadline
<1> DEFINE UneditedInv == edits = 0 => DeadlineInv
<1>1. Init => UneditedInv
  BY DEF Init, DeadlineInv, KnowsDeadline, InTime, Closed, Idle
<1>2. TypeOK /\ UneditedInv /\ [Next]_vars => UneditedInv'
  BY DeadlineStep, EditsStay
<1>3. UneditedInv => SubmittedByDeadline
  BY DEF DeadlineInv, InTime, SubmittedByDeadline
<1> HIDE DEF UneditedInv
<1> QED BY <1>1, <1>2, <1>3, CbtTypeCorrect, PTL DEF Spec
=============================================================================
