----------------------------- MODULE CbtExamPage -----------------------------
(***************************************************************************)
(* The page on which a student takes an examination (Frontend, pages/      *)
(* school/cbt/CbtTakeExam.tsx) against the attempt at the server: answers  *)
(* that wait to be saved, one debounce timer that all questions share, a   *)
(* safety net every ten seconds, a countdown on the student's clock, and   *)
(* a submission that saves first if it can.  The server's handlers are     *)
(* those of CbtAttempts, here each a single step.                          *)
(***************************************************************************)
EXTENDS Naturals, FiniteSets

CONSTANTS
    Question, Option, NoOption,
    None,           \* nothing: no entry, no timer
    MaxChanges,     \* bound: answers given
    MaxFaults,      \* bound: requests and answers lost
    MaxPosts        \* bound: submissions in flight at a time

ASSUME PageAssumption ==
    /\ NoOption \notin Option /\ None \notin Option \cup {NoOption} \cup Question
    /\ MaxChanges \in Nat /\ MaxFaults \in Nat /\ MaxPosts \in Nat \ {0}

VARIABLES
    chosen,     \* the answers on the page
    pending,    \* pendingRef: those that wait, by question
    timer,      \* the question whose flush is scheduled, or None
    save,       \* the flush in flight: its entries and how far it is
    waiting,    \* a submission waits for that flush
    finished,   \* finishedRef
    posts,      \* submissions in flight
    status,     \* saveStatus
    done,       \* the result is shown
    saved,      \* at the server: the answer rows,
    scored,     \*   what the score was computed from,
    closed,     \*   the attempt is closed,
    over,       \*   and its deadline has passed
    clock,      \* the countdown on the page has come to zero
    changes, faults,
    dropped,    \* history: questions whose newer answer was forgotten with an older one
    cut,        \* history: the attempt was closed with answers that had no chance to be saved
    stranded    \* history: the page was refused a save and could not fetch the result

page    == <<chosen, pending, timer, save, waiting, finished, posts, status, done>>
server  == <<saved, scored, closed, over>>
history == <<dropped, cut, stranded>>
vars    == <<page, server, clock, changes, faults, history>>

Blank     == [q \in Question |-> NoOption]
NoEntries == [q \in Question |-> None]
NoSave    == [at |-> "none", entries |-> NoEntries]
Answers   == [Question -> Option \cup {NoOption}]
Entries   == [Question -> Option \cup {None}]
Saving    == [at : {"none", "sent", "taken", "refused", "fetch"}, entries : Entries]

TypeOK ==
    /\ chosen \in Answers /\ saved \in Answers /\ scored \in Answers
    /\ pending \in Entries /\ timer \in Question \cup {None}
    /\ save \in Saving
    /\ waiting \in BOOLEAN /\ finished \in BOOLEAN /\ done \in BOOLEAN
    /\ posts \in 0 .. MaxPosts
    /\ status \in {"idle", "unsaved", "saving", "saved", "error"}
    /\ closed \in BOOLEAN /\ over \in BOOLEAN /\ clock \in BOOLEAN
    /\ changes \in 0 .. MaxChanges /\ faults \in 0 .. MaxFaults
    /\ dropped \subseteq Question /\ cut \in BOOLEAN /\ stranded \in BOOLEAN

Init ==
    /\ chosen = Blank /\ saved = Blank /\ scored = Blank
    /\ pending = NoEntries /\ timer = None /\ save = NoSave
    /\ waiting = FALSE /\ finished = FALSE /\ posts = 0 /\ status = "idle" /\ done = FALSE
    /\ closed = FALSE /\ over = FALSE /\ clock = FALSE
    /\ changes = 0 /\ faults = 0
    /\ dropped = {} /\ cut = FALSE /\ stranded = FALSE

Busy       == save.at # "none"
Submitting == waiting \/ finished \/ posts > 0
Fault      == faults < MaxFaults /\ faults' = faults + 1

-----------------------------------------------------------------------------
\* The student and the timers.

Answer(q, o) ==
    /\ ~done /\ changes < MaxChanges /\ o # chosen[q]
    /\ chosen' = [chosen EXCEPT ![q] = o]
    /\ pending' = [pending EXCEPT ![q] = o]
    /\ status' = "unsaved"
    /\ timer' = q
    /\ changes' = changes + 1
    /\ dropped' = dropped \ {q}
    /\ cut' = (cut \/ Submitting)
    /\ UNCHANGED <<save, waiting, finished, posts, done, server, clock, faults, stranded>>

\* (Mutant of Scope: the net saves what the timer would.)
ScopeOfTimer(scope) == IF timer = None THEN {} ELSE {timer}

Scope(scope) == scope

\* flush: nothing while another one runs, after the end, or without entries.
ToFlush(scope)  == {q \in Scope(scope) : pending[q] # None}
MayFlush(scope) == ~Busy /\ ~finished /\ ToFlush(scope) # {}
Flush(scope) ==
    /\ save' = [at |-> "sent",
                entries |-> [q \in Question |-> IF q \in ToFlush(scope) THEN pending[q] ELSE None]]
    /\ status' = "saving"

TimerFires ==
    /\ ~done /\ timer # None
    /\ timer' = None
    /\ IF MayFlush({timer}) THEN Flush({timer}) ELSE UNCHANGED <<save, status>>
    /\ UNCHANGED <<chosen, pending, waiting, finished, posts, done, server, clock, changes, faults, history>>

NetFires ==
    /\ ~done /\ MayFlush(Question)
    /\ Flush(Question)
    /\ UNCHANGED <<chosen, pending, timer, waiting, finished, posts, done, server, clock, changes, faults, history>>

\* submitAttempt is sent.
Post == finished' = TRUE /\ posts' = posts + 1

\* (Mutant of SavesFirst: a submission does not save.)
SavesNothing == FALSE

SavesFirst == MayFlush(Question)

\* submit: by hand, or by the countdown, which asks again every second until
\* the page is finished.  A flush in flight is not waited for.
Submit ==
    /\ ~done /\ ~finished
    /\ posts + (IF waiting THEN 1 ELSE 0) < MaxPosts
    /\ timer' = None
    /\ cut' = (cut \/ Busy)
    /\ IF SavesFirst
       THEN waiting' = TRUE /\ Flush(Question) /\ UNCHANGED <<finished, posts>>
       ELSE Post /\ UNCHANGED <<waiting, save, status>>
    /\ UNCHANGED <<chosen, pending, done, server, clock, changes, faults, dropped, stranded>>

\* The flush in flight ends, and a submission that waited for it is sent.
FlushEnds ==
    /\ save' = NoSave /\ waiting' = FALSE
    /\ finished' = (finished \/ waiting)
    /\ posts' = posts + (IF waiting THEN 1 ELSE 0)

-----------------------------------------------------------------------------
\* The server: a save is taken or refused, whatever closes the attempt scores it.

Close == closed' = TRUE /\ scored' = (IF closed THEN scored ELSE saved)

SaveArrives ==
    /\ save.at = "sent"
    /\ IF closed \/ over
       THEN /\ save' = [save EXCEPT !.at = "refused"]
            /\ Close /\ cut' = TRUE /\ UNCHANGED saved
       ELSE /\ save' = [save EXCEPT !.at = "taken"]
            /\ saved' = [q \in Question |-> IF save.entries[q] = None THEN saved[q] ELSE save.entries[q]]
            /\ UNCHANGED <<closed, scored, cut>>
    /\ UNCHANGED <<chosen, pending, timer, waiting, finished, posts, status, done, over, clock, changes, faults,
                   dropped, stranded>>

\* Any other request that meets the attempt after its deadline closes it.
ExpiredElsewhere ==
    /\ over /\ ~closed
    /\ Close /\ cut' = TRUE
    /\ UNCHANGED <<page, saved, over, clock, changes, faults, dropped, stranded>>

DeadlinePasses == ~over /\ over' = TRUE /\ UNCHANGED <<page, saved, scored, closed, clock, changes, faults, history>>
ClockRunsOut   == ~clock /\ clock' = TRUE /\ UNCHANGED <<page, server, changes, faults, history>>

-----------------------------------------------------------------------------
\* Answers that come back.

\* (Mutant of Kept: everything that waits is forgotten.)
KeptNothing == NoEntries

\* The entries that were sent are forgotten, by question.
Kept == [q \in Question |-> IF save.entries[q] = None THEN pending[q] ELSE None]

Answered ==
    /\ ~done /\ save.at = "taken"
    /\ pending' = Kept
    /\ dropped' = dropped \cup {q \in Question : save.entries[q] # None /\ pending[q] # save.entries[q]}
    /\ status' = IF Kept = NoEntries THEN "saved" ELSE "unsaved"
    /\ FlushEnds
    /\ UNCHANGED <<chosen, timer, done, server, clock, changes, faults, cut, stranded>>

\* saved: false ends the page: the attempt is fetched.
Refused ==
    /\ ~done /\ save.at = "refused"
    /\ pending' = Kept
    /\ finished' = TRUE
    /\ save' = [save EXCEPT !.at = "fetch"]
    /\ UNCHANGED <<chosen, timer, waiting, posts, status, done, server, clock, changes, faults, history>>

Fetched ==
    /\ ~done /\ save.at = "fetch"
    /\ done' = TRUE
    /\ FlushEnds
    /\ UNCHANGED <<chosen, pending, timer, status, server, clock, changes, faults, history>>

\* A save or the fetch after it fails: the request or its answer is lost.
SaveFails ==
    /\ ~done /\ Busy /\ Fault
    /\ status' = "error"
    /\ FlushEnds
    /\ cut' = (cut \/ waiting)
    /\ stranded' = (stranded \/ (save.at = "fetch" /\ ~waiting))
    /\ UNCHANGED <<chosen, pending, timer, done, server, clock, changes, dropped>>

\* submitAttempt closes the attempt, if it was not, and its result is shown.
Submitted ==
    /\ ~done /\ posts > 0
    /\ posts' = posts - 1
    /\ Close
    /\ cut' = (cut \/ (~closed /\ over))
    /\ done' = TRUE
    /\ UNCHANGED <<chosen, pending, timer, save, waiting, finished, status, saved, over, clock, changes, faults,
                   dropped, stranded>>

\* (Mutant of Retries: finishedRef is not reset.)
NoRetry == TRUE

Retries == FALSE

SubmitFails(reached) ==
    /\ ~done /\ posts > 0 /\ Fault
    /\ posts' = posts - 1
    /\ finished' = Retries
    /\ IF reached THEN Close /\ cut' = (cut \/ (~closed /\ over)) ELSE UNCHANGED <<closed, scored, cut>>
    /\ UNCHANGED <<chosen, pending, timer, save, waiting, status, done, saved, over, clock, changes, dropped, stranded>>

-----------------------------------------------------------------------------
Next ==
    \/ \E q \in Question, o \in Option : Answer(q, o)
    \/ TimerFires \/ NetFires \/ Submit
    \/ SaveArrives \/ ExpiredElsewhere \/ DeadlinePasses \/ ClockRunsOut
    \/ Answered \/ Refused \/ Fetched \/ SaveFails \/ Submitted
    \/ \E reached \in BOOLEAN : SubmitFails(reached)

Spec == Init /\ [][Next]_vars

\* Requests are answered or lost, the net keeps firing, and the countdown asks
\* for a submission every second once it has come to zero (it need not come).
FairSpec ==
    /\ Spec
    /\ WF_vars(SaveArrives) /\ WF_vars(Answered \/ Refused \/ Fetched)
    /\ WF_vars(Submitted)
    /\ WF_vars(NetFires)
    /\ WF_vars(clock /\ Submit)

-----------------------------------------------------------------------------
Agrees(rows) == \A q \in Question \ dropped : rows[q] = chosen[q]

\* "Saved" on the page is true: the server has every answer the student sees,
\* however saves fail and repeat, except one that was changed while its older
\* value was being saved.
SavedIsTrue == status = "saved" /\ ~closed => Agrees(saved)

\* A submission counts every answer the student saw, unless the attempt was
\* closed behind it or answers had no chance: a save was still in flight or
\* failed, or they were given after the submission.
ResultCountsWhatWasSeen == done /\ ~cut => closed /\ Agrees(scored)

\* An answer does not wait for ever: whatever question the shared timer serves
\* and whatever gets lost, in the end it is at the server or the attempt is closed.
AnswersReachServer == <>[](closed \/ Agrees(saved))

\* Once the countdown is over the student gets the result, unless the page was
\* refused a save and then could not fetch it.
ResultIsShown == clock ~> (done \/ stranded)
=============================================================================
