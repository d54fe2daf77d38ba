-------------------------- MODULE CbtExamPageProofs --------------------------
(***************************************************************************)
(* What the examination page promises the student, proved for any number   *)
(* of questions, answers, losses and submissions: "saved" is true, and the *)
(* result counts what the page showed.                                     *)
(***************************************************************************)
EXTENDS CbtExamPage, TLAPS

\* An answer that waits is the one on the page, the entries of a flush wait until
\* it has been answered, and the rows it wrote are there.
WaitingIsShown ==
    /\ \A q \in Question : pending[q] # None => pending[q] = chosen[q]
    /\ save.at \in {"sent", "taken", "refused"}
          => \A q \in Question : save.entries[q] # None => pending[q] # None
    /\ save.at = "taken" => \A q \in Question : save.entries[q] # None => saved[q] = save.entries[q]
    /\ save.at \in {"refused", "fetch"} => closed /\ cut

\* An answer that does not wait is at the server, as long as no save was refused.
SavedUnlessWaiting ==
    /\ ~closed \/ ~cut => \A q \in Question \ dropped : pending[q] = None => saved[q] = chosen[q]
    /\ status = "saved" => pending = NoEntries

\* A submission that waits has a flush to wait for, and fits with those in flight.
PostsFit ==
    /\ waiting => Busy
    /\ posts + (IF waiting THEN 1 ELSE 0) <= MaxPosts

\* A submission is sent when nothing waits, or carries all that waits in its save.
SubmitsAll ==
    /\ closed => scored = saved
    /\ waiting /\ ~cut => pending = save.entries
    /\ posts > 0 /\ ~cut => pending = NoEntries
    /\ done /\ ~cut => closed /\ pending = NoEntries

\* A flush starts a save of entries, whatever its scope.
LEMMA FlushType ==
    ASSUME TypeOK, NEW scope, Flush(scope)
    PROVE  save' \in Saving /\ status' = "saving"
<1>1. [q \in Question |-> IF q \in ToFlush(scope) THEN pending[q] ELSE None] \in Entries
  BY DEF TypeOK, Entries
<1> QED BY <1>1 DEF Flush, Saving

\* Each way a flush ends leaves no save, and a submission that waited in flight.
LEMMA FlushEndsType ==
    ASSUME TypeOK, PostsFit, FlushEnds
    PROVE  /\ save' \in Saving /\ waiting' \in BOOLEAN /\ finished' \in BOOLEAN
           /\ posts' \in 0 .. MaxPosts
<1>1. save' \in Saving
  BY DEF FlushEnds, NoSave, NoEntries, Saving, Entries
<1>2. waiting' \in BOOLEAN /\ finished' \in BOOLEAN
  BY DEF FlushEnds, TypeOK
<1>3. posts' \in 0 .. MaxPosts
  BY PageAssumption DEF FlushEnds, TypeOK, PostsFit
<1> QED BY <1>1, <1>2, <1>3

\* What is kept of the entries, and what a closed attempt was scored from, have their types.
LEMMA DataType ==
    ASSUME TypeOK
    PROVE  /\ Kept \in Entries
           /\ Close => closed' \in BOOLEAN /\ scored' \in Answers
<1>1. Kept \in Entries
  BY DEF TypeOK, Kept, Entries
<1> QED BY <1>1 DEF TypeOK, Close

\* Every step keeps the type of every variable, as long as the submissions fit.
LEMMA TypeStep ==
    ASSUME TypeOK, PostsFit, [Next]_vars
    PROVE  TypeOK'
<1> USE PageAssumption DEF TypeOK, page, server, history, PostsFit, Busy
<1>1. ASSUME NEW q \in Question, NEW o \in Option, Answer(q, o) PROVE TypeOK'
  <2>1. chosen' \in Answers /\ pending' \in Entries
    BY <1>1 DEF Answer, Answers, Entries
  <2>2. changes' \in 0 .. MaxChanges /\ timer' \in Question \cup {None} /\ dropped' \subseteq Question
    BY <1>1 DEF Answer
  <2>3. cut' \in BOOLEAN
    BY <1>1 DEF Answer, Submitting
  <2> QED BY <1>1, <2>1, <2>2, <2>3 DEF Answer
<1>2. ASSUME TimerFires PROVE TypeOK'
  <2>1. save' \in Saving /\ status' \in {"idle", "unsaved", "saving", "saved", "error"}
    BY <1>2, FlushType DEF TimerFires
  <2> QED BY <1>2, <2>1 DEF TimerFires
<1>3. ASSUME NetFires PROVE TypeOK'
  <2>1. save' \in Saving /\ status' = "saving"
    BY <1>3, FlushType DEF NetFires
  <2> QED BY <1>3, <2>1 DEF NetFires
<1>4. ASSUME Submit PROVE TypeOK'
  <2>1. save' \in Saving /\ status' \in {"idle", "unsaved", "saving", "saved", "error"}
    BY <1>4, FlushType DEF Submit
  <2>2. waiting' \in BOOLEAN /\ finished' \in BOOLEAN /\ cut' \in BOOLEAN
    BY <1>4 DEF Submit, Post
  <2>3. posts' \in 0 .. MaxPosts
    BY <1>4 DEF Submit, Post
  <2> QED BY <1>4, <2>1, <2>2, <2>3 DEF Submit
<1>5. ASSUME SaveArrives PROVE TypeOK'
  <2>1. save' \in Saving
    BY <1>5 DEF SaveArrives, Saving
  <2>2. saved' \in Answers
    <3>1. [q \in Question |-> IF save.entries[q] = None THEN saved[q] ELSE save.entries[q]] \in Answers
      BY DEF Saving, Entries, Answers
    <3> QED BY <1>5, <3>1 DEF SaveArrives
  <2>3. closed' \in BOOLEAN /\ scored' \in Answers /\ cut' \in BOOLEAN
    BY <1>5, DataType DEF SaveArrives
  <2> QED BY <1>5, <2>1, <2>2, <2>3 DEF SaveArrives
<1>6. ASSUME ExpiredElsewhere PROVE TypeOK'
  BY <1>6 DEF ExpiredElsewhere, Close
<1>7. ASSUME DeadlinePasses PROVE TypeOK'
  BY <1>7 DEF DeadlinePasses
<1>8. ASSUME ClockRunsOut PROVE TypeOK'
  BY <1>8 DEF ClockRunsOut
<1>9. ASSUME Answered PROVE TypeOK'
  <2>1. pending' \in Entries /\ dropped' \subseteq Question
    BY <1>9, DataType DEF Answered
  <2>2. status' \in {"saved", "unsaved"}
    BY <1>9 DEF Answered
  <2>3. FlushEnds
    BY <1>9 DEF Answered
  <2> QED BY <1>9, <2>1, <2>2, <2>3, FlushEndsType DEF Answered
<1>10. ASSUME Refused PROVE TypeOK'
  <2>1. pending' \in Entries
    BY <1>10, DataType DEF Refused
  <2>2. save' \in Saving
    BY <1>10 DEF Refused, Saving
  <2> QED BY <1>10, <2>1, <2>2 DEF Refused
<1>11. ASSUME Fetched PROVE TypeOK'
  <2>1. FlushEnds
    BY <1>11 DEF Fetched
  <2> QED BY <1>11, <2>1, FlushEndsType DEF Fetched
<1>12. ASSUME SaveFails PROVE TypeOK'
  <2>1. FlushEnds
    BY <1>12 DEF SaveFails
  <2>2. cut' \in BOOLEAN
    BY <1>12 DEF SaveFails
  <2>3. stranded' \in BOOLEAN
    BY <1>12 DEF SaveFails
  <2>4. faults' \in 0 .. MaxFaults
    BY <1>12 DEF SaveFails, Fault
  <2> QED BY <1>12, <2>1, <2>2, <2>3, <2>4, FlushEndsType DEF SaveFails
<1>13. ASSUME Submitted PROVE TypeOK'
  BY <1>13 DEF Submitted, Close
<1>14. ASSUME NEW reached \in BOOLEAN, SubmitFails(reached) PROVE TypeOK'
  <2>1. posts' \in 0 .. MaxPosts
    BY <1>14 DEF SubmitFails
  <2>2. finished' \in BOOLEAN
    BY <1>14 DEF SubmitFails, Retries
  <2>3. closed' \in BOOLEAN /\ scored' \in Answers /\ cut' \in BOOLEAN
    <3>1. CASE reached
      BY <1>14, <3>1, DataType DEF SubmitFails
    <3>2. CASE ~reached
      BY <1>14, <3>2 DEF SubmitFails
    <3> QED BY <3>1, <3>2
  <2>4. faults' \in 0 .. MaxFaults
    BY <1>14 DEF SubmitFails, Fault
  <2> QED BY <1>14, <2>1, <2>2, <2>3, <2>4 DEF SubmitFails
<1>15. CASE UNCHANGED vars
  BY <1>15 DEF vars
<1> QED
  BY <1>1, <1>2, <1>3, <1>4, <1>5, <1>6, <1>7, <1>8, <1>9, <1>10, <1>11, <1>12, <1>13, <1>14, <1>15 DEF Next

\* Every step lets the submissions fit.
LEMMA PostsFitStep ==
    ASSUME TypeOK, PostsFit, [Next]_vars
    PROVE  PostsFit'
<1> USE PageAssumption DEF TypeOK, Answers, Entries, Saving, page, server, history, Busy, NoSave, NoEntries, PostsFit
<1>1. ASSUME NEW q \in Question, NEW o \in Option, Answer(q, o) PROVE PostsFit'
  BY <1>1 DEF Answer
<1>2. ASSUME TimerFires PROVE PostsFit'
  BY <1>2 DEF TimerFires, MayFlush, Flush, ToFlush, Scope
<1>3. ASSUME NetFires PROVE PostsFit'
  BY <1>3 DEF NetFires, MayFlush, Flush, ToFlush, Scope
<1>4. ASSUME Submit PROVE PostsFit'
  BY <1>4 DEF Submit, SavesFirst, Post, MayFlush, Flush, ToFlush, Scope
<1>5. ASSUME SaveArrives PROVE PostsFit'
  BY <1>5 DEF SaveArrives, Close
<1>6. ASSUME ExpiredElsewhere PROVE PostsFit'
  BY <1>6 DEF ExpiredElsewhere, Close
<1>7. ASSUME DeadlinePasses PROVE PostsFit'
  BY <1>7 DEF DeadlinePasses
<1>8. ASSUME ClockRunsOut PROVE PostsFit'
  BY <1>8 DEF ClockRunsOut
<1>9. ASSUME Answered PROVE PostsFit'
  BY <1>9 DEF Answered, FlushEnds, Kept
<1>10. ASSUME Refused PROVE PostsFit'
  BY <1>10 DEF Refused, Kept
<1>11. ASSUME Fetched PROVE PostsFit'
  BY <1>11 DEF Fetched, FlushEnds
<1>12. ASSUME SaveFails PROVE PostsFit'
  BY <1>12 DEF SaveFails, Fault, FlushEnds
<1>13. ASSUME Submitted PROVE PostsFit'
  BY <1>13 DEF Submitted, Close
<1>14. ASSUME NEW reached \in BOOLEAN, SubmitFails(reached) PROVE PostsFit'
  BY <1>14 DEF SubmitFails, Fault, Close, Retries
<1>15. CASE UNCHANGED vars
  BY <1>15 DEF vars
<1> QED
  BY <1>1, <1>2, <1>3, <1>4, <1>5, <1>6, <1>7, <1>8, <1>9, <1>10, <1>11, <1>12, <1>13, <1>14, <1>15 DEF Next

\* Every step keeps what waits to what is shown.
LEMMA WaitingStep ==
    ASSUME TypeOK, WaitingIsShown, [Next]_vars
    PROVE  WaitingIsShown'
<1> USE PageAssumption DEF TypeOK, Answers, Entries, Saving, page, server, history, Busy, NoSave, NoEntries, WaitingIsShown
<1>1. ASSUME NEW q \in Question, NEW o \in Option, Answer(q, o) PROVE WaitingIsShown'
  BY <1>1 DEF Answer
<1>2. ASSUME TimerFires PROVE WaitingIsShown'
  BY <1>2 DEF TimerFires, MayFlush, Flush, ToFlush, Scope
<1>3. ASSUME NetFires PROVE WaitingIsShown'
  BY <1>3 DEF NetFires, MayFlush, Flush, ToFlush, Scope
<1>4. ASSUME Submit PROVE WaitingIsShown'
  BY <1>4 DEF Submit, SavesFirst, Post, MayFlush, Flush, ToFlush, Scope
<1>5. ASSUME SaveArrives PROVE WaitingIsShown'
  BY <1>5 DEF SaveArrives, Close
<1>6. ASSUME ExpiredElsewhere PROVE WaitingIsShown'
  BY <1>6 DEF ExpiredElsewhere, Close
<1>7. ASSUME DeadlinePasses PROVE WaitingIsShown'
  BY <1>7 DEF DeadlinePasses
<1>8. ASSUME ClockRunsOut PROVE WaitingIsShown'
  BY <1>8 DEF ClockRunsOut
<1>9. ASSUME Answered PROVE WaitingIsShown'
  BY <1>9 DEF Answered, FlushEnds, Kept
<1>10. ASSUME Refused PROVE WaitingIsShown'
  BY <1>10 DEF Refused, Kept
<1>11. ASSUME Fetched PROVE WaitingIsShown'
  BY <1>11 DEF Fetched, FlushEnds
<1>12. ASSUME SaveFails PROVE WaitingIsShown'
  BY <1>12 DEF SaveFails, Fault, FlushEnds
<1>13. ASSUME Submitted PROVE WaitingIsShown'
  BY <1>13 DEF Submitted, Close
<1>14. ASSUME NEW reached \in BOOLEAN, SubmitFails(reached) PROVE WaitingIsShown'
  BY <1>14 DEF SubmitFails, Fault, Close, Retries
<1>15. CASE UNCHANGED vars
  BY <1>15 DEF vars
<1> QED
  BY <1>1, <1>2, <1>3, <1>4, <1>5, <1>6, <1>7, <1>8, <1>9, <1>10, <1>11, <1>12, <1>13, <1>14, <1>15 DEF Next

\* Every step keeps what does not wait at the server.
LEMMA SavedStep ==
    ASSUME TypeOK, WaitingIsShown, SavedUnlessWaiting, [Next]_vars
    PROVE  SavedUnlessWaiting'
<1> USE PageAssumption DEF TypeOK, Answers, Entries, Saving, page, server, history, Busy, NoSave, NoEntries, WaitingIsShown, SavedUnlessWaiting
<1>1. ASSUME NEW q \in Question, NEW o \in Option, Answer(q, o) PROVE SavedUnlessWaiting'
  BY <1>1 DEF Answer
<1>2. ASSUME TimerFires PROVE SavedUnlessWaiting'
  BY <1>2 DEF TimerFires, MayFlush, Flush, ToFlush, Scope
<1>3. ASSUME NetFires PROVE SavedUnlessWaiting'
  BY <1>3 DEF NetFires, MayFlush, Flush, ToFlush, Scope
<1>4. ASSUME Submit PROVE SavedUnlessWaiting'
  BY <1>4 DEF Submit, SavesFirst, Post, MayFlush, Flush, ToFlush, Scope
<1>5. ASSUME SaveArrives PROVE SavedUnlessWaiting'
  BY <1>5 DEF SaveArrives, Close
<1>6. ASSUME ExpiredElsewhere PROVE SavedUnlessWaiting'
  BY <1>6 DEF ExpiredElsewhere, Close
<1>7. ASSUME DeadlinePasses PROVE SavedUnlessWaiting'
  BY <1>7 DEF DeadlinePasses
<1>8. ASSUME ClockRunsOut PROVE SavedUnlessWaiting'
  BY <1>8 DEF ClockRunsOut
<1>9. ASSUME Answered PROVE SavedUnlessWaiting'
  BY <1>9 DEF Answered, FlushEnds, Kept
<1>10. ASSUME Refused PROVE SavedUnlessWaiting'
  BY <1>10 DEF Refused, Kept
<1>11. ASSUME Fetched PROVE SavedUnlessWaiting'
  BY <1>11 DEF Fetched, FlushEnds
<1>12. ASSUME SaveFails PROVE SavedUnlessWaiting'
  BY <1>12 DEF SaveFails, Fault, FlushEnds
<1>13. ASSUME Submitted PROVE SavedUnlessWaiting'
  BY <1>13 DEF Submitted, Close
<1>14. ASSUME NEW reached \in BOOLEAN, SubmitFails(reached) PROVE SavedUnlessWaiting'
  BY <1>14 DEF SubmitFails, Fault, Close, Retries
<1>15. CASE UNCHANGED vars
  BY <1>15 DEF vars
<1> QED
  BY <1>1, <1>2, <1>3, <1>4, <1>5, <1>6, <1>7, <1>8, <1>9, <1>10, <1>11, <1>12, <1>13, <1>14, <1>15 DEF Next

\* Every step keeps the submissions complete.
LEMMA SubmitsStep ==
    ASSUME TypeOK, PostsFit, WaitingIsShown, SubmitsAll, [Next]_vars
    PROVE  SubmitsAll'
<1> USE PageAssumption DEF TypeOK, Answers, Entries, Saving, page, server, history, Busy, NoSave, NoEntries, WaitingIsShown, PostsFit, SubmitsAll, Submitting
<1>1. ASSUME NEW q \in Question, NEW o \in Option, Answer(q, o) PROVE SubmitsAll'
  BY <1>1 DEF Answer
<1>2. ASSUME TimerFires PROVE SubmitsAll'
  BY <1>2 DEF TimerFires, MayFlush, Flush, ToFlush, Scope
<1>3. ASSUME NetFires PROVE SubmitsAll'
  BY <1>3 DEF NetFires, MayFlush, Flush, ToFlush, Scope
<1>4. ASSUME Submit PROVE SubmitsAll'
  <2>1. UNCHANGED <<pending, done, closed, scored, saved>> /\ ~done /\ ~finished /\ cut' = (cut \/ Busy)
    BY <1>4 DEF Submit
  <2>2. CASE SavesFirst
    <3>1. ~Busy /\ waiting' = TRUE /\ UNCHANGED posts /\ ToFlush(Question) # {}
      BY <1>4, <2>2 DEF Submit, SavesFirst, MayFlush
    <3>2. \A q \in Question : save'.entries[q] = pending[q]
      BY <1>4, <2>2 DEF Submit, Flush, ToFlush, Scope
    <3>3. save'.entries \in Entries
      BY <1>4, <2>2 DEF Submit, Flush, ToFlush, Scope
    <3>4. save'.entries = pending
      BY <3>2, <3>3
    <3> QED BY <2>1, <3>1, <3>4
  <2>3. CASE ~SavesFirst
    <3>1. UNCHANGED <<waiting, save>>
      BY <1>4, <2>3 DEF Submit
    <3>2. ~Busy => \A q \in Question : pending[q] = None
      BY <1>4, <2>1, <2>3 DEF SavesFirst, MayFlush, ToFlush, Scope
    <3>3. ~Busy => pending = NoEntries
      BY <3>2
    <3> QED BY <2>1, <3>1, <3>3
  <2> QED BY <2>2, <2>3
<1>5. ASSUME SaveArrives PROVE SubmitsAll'
  BY <1>5 DEF SaveArrives, Close
<1>6. ASSUME ExpiredElsewhere PROVE SubmitsAll'
  BY <1>6 DEF ExpiredElsewhere, Close
<1>7. ASSUME DeadlinePasses PROVE SubmitsAll'
  BY <1>7 DEF DeadlinePasses
<1>8. ASSUME ClockRunsOut PROVE SubmitsAll'
  BY <1>8 DEF ClockRunsOut
<1>9. ASSUME Answered PROVE SubmitsAll'
  BY <1>9 DEF Answered, FlushEnds, Kept
<1>10. ASSUME Refused PROVE SubmitsAll'
  BY <1>10 DEF Refused, Kept
<1>11. ASSUME Fetched PROVE SubmitsAll'
  BY <1>11 DEF Fetched, FlushEnds
<1>12. ASSUME SaveFails PROVE SubmitsAll'
  BY <1>12 DEF SaveFails, Fault, FlushEnds
<1>13. ASSUME Submitted PROVE SubmitsAll'
  BY <1>13 DEF Submitted, Close
<1>14. ASSUME NEW reached \in BOOLEAN, SubmitFails(reached) PROVE SubmitsAll'
  BY <1>14 DEF SubmitFails, Fault, Close, Retries
<1>15. CASE UNCHANGED vars
  BY <1>15 DEF vars
<1> QED
  BY <1>1, <1>2, <1>3, <1>4, <1>5, <1>6, <1>7, <1>8, <1>9, <1>10, <1>11, <1>12, <1>13, <1>14, <1>15 DEF Next

-----------------------------------------------------------------------------

\* The inductive invariant.
PageAccount == TypeOK /\ PostsFit /\ WaitingIsShown /\ SavedUnlessWaiting /\ SubmitsAll

\* It holds at first and every step keeps it.
LEMMA PageAccounted == Spec => []PageAccount
<1>1. Init => PageAccount
  <2> SUFFICES ASSUME Init PROVE PageAccount
    OBVIOUS
  <2> USE PageAssumption DEF Init, Blank, NoEntries, NoSave
  <2>1. TypeOK
    <3>1. Blank \in Answers /\ NoEntries \in Entries
      BY DEF Answers, Entries
    <3>2. save \in Saving
      BY <3>1 DEF Saving
    <3>3. posts \in 0 .. MaxPosts /\ changes \in 0 .. MaxChanges /\ faults \in 0 .. MaxFaults
      OBVIOUS
    <3>4. /\ waiting \in BOOLEAN /\ finished \in BOOLEAN /\ done \in BOOLEAN
          /\ closed \in BOOLEAN /\ over \in BOOLEAN /\ clock \in BOOLEAN
          /\ cut \in BOOLEAN /\ stranded \in BOOLEAN
      OBVIOUS
    <3> QED BY <3>1, <3>2, <3>3, <3>4 DEF TypeOK
  <2>2. PostsFit /\ WaitingIsShown /\ SavedUnlessWaiting /\ SubmitsAll
    BY DEF PostsFit, WaitingIsShown, SavedUnlessWaiting, SubmitsAll, Busy
  <2> QED BY <2>1, <2>2 DEF PageAccount
<1>2. PageAccount /\ [Next]_vars => PageAccount'
  BY TypeStep, PostsFitStep, WaitingStep, SavedStep, SubmitsStep DEF PageAccount
<1> QED BY <1>1, <1>2, PTL DEF Spec

\* Every variable keeps its type; no more submissions are in flight than the page sends.
THEOREM TypeCorrect == Spec => []TypeOK
<1>1. PageAccount => TypeOK
  BY DEF PageAccount
<1> QED BY <1>1, PageAccounted, PTL

\* While the page says "saved", the server has every answer it shows, for any number
\* of questions that share the timer and any losses, unless an answer was changed
\* while its older value was being saved.
THEOREM SavedMeansSaved == Spec => []SavedIsTrue
<1>1. PageAccount => SavedIsTrue
  BY DEF PageAccount, SavedUnlessWaiting, SavedIsTrue, Agrees, NoEntries
<1> QED BY <1>1, PageAccounted, PTL

\* A result that is shown was computed from the answers on the page, however often
\* the submission was repeated, unless the attempt was closed behind the page or
\* answers were given, or lost, after it began to submit.
THEOREM ResultIsOfThePage == Spec => []ResultCountsWhatWasSeen
<1>1. PageAccount => ResultCountsWhatWasSeen
  BY DEF PageAccount, SavedUnlessWaiting, SubmitsAll, ResultCountsWhatWasSeen, Agrees, NoEntries
<1> QED BY <1>1, PageAccounted, PTL

=============================================================================
