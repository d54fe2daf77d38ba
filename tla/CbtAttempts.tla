----------------------------- MODULE CbtAttempts -----------------------------
(***************************************************************************)
(* The attempts of one student at one computer-based examination           *)
(* (modules/cbt/cbt-attempts.service.ts), and the teacher who changes its  *)
(* duration meanwhile (update in cbt-exams.service.ts).                    *)
(*                                                                         *)
(* Every await is a point where another request may run.  A handler keeps  *)
(* what it has read in its call; the transaction that closes an attempt    *)
(* writes from that snapshot and does not look at the status again.        *)
(***************************************************************************)
EXTENDS Integers, FiniteSets

CONSTANTS
    MaxNumber,      \* bound on the attempt numbers
    MaxAttempts,    \* exam.maxAttempts
    Question, Option, NoOption,
    Duration,       \* the durations a teacher may choose
    Req,            \* requests in flight at a time
    MaxTime, MaxEdits   \* bounds on the clock and on the edits of the exam

ASSUME AttemptsAssumption ==
    /\ MaxNumber \in Nat
    /\ MaxAttempts \in Nat
    /\ NoOption \notin Option
    /\ Duration \subseteq Nat
    /\ MaxTime \in Nat /\ MaxEdits \in Nat

VARIABLES
    now,
    duration,   \* exam.durationMinutes
    att,        \* att[n]: the attempt of that number
    answer,     \* answer[n]: its answer rows, which saveAnswers reports as saved
    scored,     \* scored[n]: the selections its score was computed from
    call,       \* the handlers in flight
    edits,
    mixed       \* history: handlers have overlapped, or time has passed in one

vars == <<now, duration, att, answer, scored, call, edits, mixed>>

Number    == 1 .. MaxNumber
Selection == [Question -> Option \cup {NoOption}]
Blank     == [q \in Question |-> NoOption]
Status    == {"NONE", "IN_PROGRESS", "SUBMITTED", "EXPIRED"}
Attempt   == [status : Status, started : Nat, expires : Nat, submitted : Nat]
Reason    == {"expired", "submitted"}
Idle      == [kind |-> "idle"]

Calls ==
    [kind : {"live", "count", "number"}, length : Duration, at : Nat]
    \cup [kind : {"create"}, length : Duration, at : Nat, n : Nat]
    \cup [kind : {"close"}, n : Number, sel : Selection, expires : Nat, reason : Reason]
    \cup [kind : {"restart"}, n : Number, sel : Selection, expires : Nat, length : Duration, at : Nat]
    \cup [kind : {"save"}, n : Number, q : Question, o : Option \cup {NoOption}]
    \cup [kind : {"shift"}, open : SUBSET Number, ends : [Number -> Nat], old : Duration,
          length : Duration]
    \cup [kind : {"exam"}, length : Duration]

TypeOK ==
    /\ now \in 0 .. MaxTime
    /\ duration \in Duration
    /\ att \in [Number -> Attempt]
    /\ answer \in [Number -> Selection]
    /\ scored \in [Number -> Selection]
    /\ call \in [Req -> Calls \cup {Idle}]
    /\ edits \in 0 .. MaxEdits
    /\ mixed \in BOOLEAN

Init ==
    /\ now = 0
    /\ duration \in Duration
    /\ att = [n \in Number |-> [status |-> "NONE", started |-> 0, expires |-> 0, submitted |-> 0]]
    /\ answer = [n \in Number |-> Blank]
    /\ scored = [n \in Number |-> Blank]
    /\ call = [p \in Req |-> Idle]
    /\ edits = 0
    /\ mixed = FALSE

InFlight    == {p \in Req : call[p] # Idle}
Mix         == mixed' = (mixed \/ InFlight # {})
MayBegin(p) == call[p] = Idle /\ Mix
Go(p, c)    == call' = [call EXCEPT ![p] = c]
End(p)      == Go(p, Idle)

Existing == {n \in Number : att[n].status # "NONE"}
Live     == {n \in Number : att[n].status = "IN_PROGRESS"}
Closed   == {n \in Number : att[n].status \in {"SUBMITTED", "EXPIRED"}}

\* expiresAt <= now
Passed(expires, at) == expires <= at

-----------------------------------------------------------------------------
\* finalize: score the answers of the snapshot, then write by id.

\* (Mutant of SubmittedAt: the time of a late request is stored.)
RequestTime(expired, expires) == now

SubmittedAt(expired, expires) == IF expired THEN expires ELSE now

ClosedStatus(expired) == IF expired THEN "EXPIRED" ELSE "SUBMITTED"

Finalize(n, sel, expires, reason) ==
    /\ LET expired == reason = "expired" \/ Passed(expires, now) IN
       att' = [att EXCEPT ![n].status = ClosedStatus(expired),
                          ![n].submitted = SubmittedAt(expired, expires)]
    /\ scored' = [scored EXCEPT ![n] = sel]
    /\ UNCHANGED <<now, duration, answer, edits, mixed>>

CloseCommit(p) ==
    /\ call[p].kind = "close"
    /\ Finalize(call[p].n, call[p].sel, call[p].expires, call[p].reason)
    /\ End(p)

\* (Mutant of Snapshot: the answers as they were when the attempt began.)
SnapshotBlank(n, reason) ==
    [kind |-> "close", n |-> n, sel |-> Blank, expires |-> att[n].expires, reason |-> reason]

Snapshot(n, reason) ==
    [kind |-> "close", n |-> n, sel |-> answer[n], expires |-> att[n].expires, reason |-> reason]

-----------------------------------------------------------------------------
\* start.  The examination is read first; its window is open.

StartRead(p) ==
    /\ MayBegin(p)
    /\ Go(p, [kind |-> "live", length |-> duration, at |-> now])
    /\ UNCHANGED <<now, duration, att, answer, scored, edits>>

\* (Mutant of Resumable: a live attempt is not looked for.)
NothingToResume == {}

\* The live attempt of the highest number.
Resumable == {n \in Live : \A m \in Live : m <= n}

StartLive(p) ==
    /\ call[p].kind = "live"
    /\ LET c == call[p] IN
       \/ Resumable = {} /\ Go(p, [c EXCEPT !.kind = "count"])
       \/ \E n \in Resumable : ~Passed(att[n].expires, c.at) /\ End(p)
       \/ \E n \in Resumable :
            /\ Passed(att[n].expires, c.at)
            /\ Go(p, [kind |-> "restart", n |-> n, sel |-> answer[n], expires |-> att[n].expires,
                      length |-> c.length, at |-> c.at])
    /\ UNCHANGED <<now, duration, att, answer, scored, edits, mixed>>

StartClose(p) ==
    /\ call[p].kind = "restart"
    /\ LET c == call[p] IN
       /\ Finalize(c.n, c.sel, c.expires, "expired")
       /\ Go(p, [kind |-> "count", length |-> c.length, at |-> c.at])

UsedUp == Cardinality(Closed) >= MaxAttempts

StartCount(p) ==
    /\ call[p].kind = "count"
    /\ IF UsedUp THEN End(p) ELSE Go(p, [call[p] EXCEPT !.kind = "number"])
    /\ UNCHANGED <<now, duration, att, answer, scored, edits, mixed>>

\* (_max.attemptNumber ?? 0) + 1
StartNumber(p) ==
    /\ call[p].kind = "number"
    /\ \E last \in Existing \cup {0} :
         /\ \A m \in Existing : m <= last
         /\ Go(p, [kind |-> "create", length |-> call[p].length, at |-> call[p].at, n |-> last + 1])
    /\ UNCHANGED <<now, duration, att, answer, scored, edits, mixed>>

\* Two attempts of one number violate a unique index.
StartCreate(p) ==
    /\ call[p].kind = "create"
    /\ call[p].n \in Number
    /\ LET n == call[p].n IN
       \/ /\ att[n].status = "NONE"
          /\ att' = [att EXCEPT ![n] = [status |-> "IN_PROGRESS", started |-> now,
                                        expires |-> now + call[p].length, submitted |-> 0]]
       \/ att[n].status # "NONE" /\ UNCHANGED att
    /\ End(p)
    /\ UNCHANGED <<now, duration, answer, scored, edits, mixed>>

-----------------------------------------------------------------------------
\* getAttempt, saveAnswers and submit, on a live attempt (on another they only read).

GetRead(p, n) ==
    /\ MayBegin(p) /\ n \in Live
    /\ Passed(att[n].expires, now) /\ Go(p, Snapshot(n, "expired"))
    /\ UNCHANGED <<now, duration, att, answer, scored, edits>>

SaveRead(p, n, q, o) ==
    /\ MayBegin(p) /\ n \in Live
    /\ IF Passed(att[n].expires, now) THEN Go(p, Snapshot(n, "expired"))
       ELSE Go(p, [kind |-> "save", n |-> n, q |-> q, o |-> o])
    /\ UNCHANGED <<now, duration, att, answer, scored, edits>>

SaveCommit(p) ==
    /\ call[p].kind = "save"
    /\ answer' = [answer EXCEPT ![call[p].n] = [@ EXCEPT ![call[p].q] = call[p].o]]
    /\ End(p)
    /\ UNCHANGED <<now, duration, att, scored, edits, mixed>>

SubmitRead(p, n) ==
    /\ MayBegin(p) /\ n \in Live
    /\ Go(p, Snapshot(n, IF Passed(att[n].expires, now) THEN "expired" ELSE "submitted"))
    /\ UNCHANGED <<now, duration, att, answer, scored, edits>>

-----------------------------------------------------------------------------
\* update, by a teacher: the open attempts are shifted, then the exam is written.

\* (Mutant of OpenAttempts: the status is not asked for.)
AllAttempts == Existing

\* where: { examId, status: 'IN_PROGRESS' }
OpenAttempts == Live

EditRead(p, d) ==
    /\ MayBegin(p) /\ edits < MaxEdits /\ d # duration
    /\ Go(p, [kind |-> "shift", open |-> OpenAttempts, ends |-> [n \in Number |-> att[n].expires],
              old |-> duration, length |-> d])
    /\ edits' = edits + 1
    /\ UNCHANGED <<now, duration, att, answer, scored>>

\* (Mutant of Shifted: the new duration counts from now.)
ShiftedFromNow(expires, old, new) == now + new - old

Shifted(expires, old, new) ==
    IF expires + new - old < now THEN now ELSE expires + new - old

EditShift(p) ==
    /\ call[p].kind = "shift"
    /\ LET c == call[p] IN
       /\ att' = [n \in Number |-> IF n \in c.open
                    THEN [att[n] EXCEPT !.expires = Shifted(c.ends[n], c.old, c.length)]
                    ELSE att[n]]
       /\ Go(p, [kind |-> "exam", length |-> c.length])
    /\ UNCHANGED <<now, duration, answer, scored, edits, mixed>>

EditExam(p) ==
    /\ call[p].kind = "exam"
    /\ duration' = call[p].length
    /\ End(p)
    /\ UNCHANGED <<now, att, answer, scored, edits, mixed>>

Tick ==
    /\ now < MaxTime
    /\ now' = now + 1
    /\ Mix
    /\ UNCHANGED <<duration, att, answer, scored, call, edits>>

-----------------------------------------------------------------------------

Begin(p) ==
    \/ StartRead(p)
    \/ \E n \in Number : GetRead(p, n) \/ SubmitRead(p, n)
    \/ \E n \in Number, q \in Question, o \in Option \cup {NoOption} : SaveRead(p, n, q, o)
    \/ \E d \in Duration : EditRead(p, d)

Proceed(p) ==
    \/ StartLive(p) \/ StartClose(p) \/ StartCount(p) \/ StartNumber(p) \/ StartCreate(p)
    \/ CloseCommit(p) \/ SaveCommit(p) \/ EditShift(p) \/ EditExam(p)

Next == (\E p \in Req : Begin(p) \/ Proceed(p)) \/ Tick

Spec == Init /\ [][Next]_vars

-----------------------------------------------------------------------------

\* "Nothing is reported as saved until the transaction commits, and an expired
\* attempt is finalised instead": the score counts what was reported as saved.
SavedIsScored == \A n \in Closed : scored[n] = answer[n]

\* Requests that neither overlap nor take long: "resumes an existing live attempt
\* instead of creating a new one" ...
OneLiveAttempt == ~mixed => \A n, m \in Live : n = m

\* ... what was reported as saved has been scored ...
SavedWasScored == ~mixed => SavedIsScored

\* ... "is idempotent - submitting twice does not rescore" ...
ClosedIsFinal ==
    [][~mixed' => \A n \in Closed : att'[n] = att[n] /\ scored'[n] = scored[n]]_vars

\* ... and "Shift open attempts by the duration change so edits stay
\* server-authoritative": no student has less time than the exam says.
NobodyLosesTime ==
    ~mixed /\ InFlight = {} => \A n \in Live : att[n].expires >= att[n].started + duration

\* However requests overlap, an attempt of an exam that is not edited never ends
\* after its deadline.
SubmittedByDeadline == edits = 0 => \A n \in Closed : att[n].submitted <= att[n].expires

=============================================================================
