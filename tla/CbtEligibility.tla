--------------------------- MODULE CbtEligibility ---------------------------
(***************************************************************************)
(* Which examinations a student sees (listForStudent), may open            *)
(* (getForStudent) and may begin (start of cbt-attempts.service.ts), in    *)
(* modules/cbt, as predicates of one exam and one student.                 *)
(*                                                                         *)
(* An exam has a class ("" is none), classes and students it is assigned   *)
(* to, a first and last moment (0 is none), a number of attempts and one   *)
(* of questions; attempts are the student's, the last one last.            *)
(***************************************************************************)
EXTENDS Integers, FiniteSets, Sequences

Untargeted(exam) == exam.class = "" /\ exam.classes = {} /\ exam.students = {}
AssignedTo(exam, s) == s.id \in exam.students \/ (s.class # "" /\ s.class \in exam.classes)
OfClass(exam, s) == s.class # "" /\ exam.class = s.class

\* The OR of listForStudent, and the three tests of getForStudent.
ExamReaches(exam, s) == exam.published /\ (OfClass(exam, s) \/ Untargeted(exam) \/ AssignedTo(exam, s))

WithinWindow(exam, now) == exam.first <= now /\ (exam.last = 0 \/ exam.last >= now)
Open(attempts)     == {i \in DOMAIN attempts : attempts[i].status = "IN_PROGRESS"}
Finished(attempts) == DOMAIN attempts \ Open(attempts)

\* canStart, in the list and on the card.
CanStart(exam, attempts, now) ==
    WithinWindow(exam, now) /\ (Cardinality(Finished(attempts)) < exam.max \/ Open(attempts) # {})

\* start: a live attempt in time is resumed, one out of time is closed first; then
\* there must be an attempt left and a question to answer.
Outcome(exam, s, attempts, now) ==
    LET due  == {i \in Open(attempts) : attempts[i].expires <= now}
        used == Cardinality(Finished(attempts)) + Cardinality(due)
    IN  CASE s.status # "ACTIVE" \/ ~ExamReaches(exam, s) \/ ~WithinWindow(exam, now) -> "refused"
          [] OTHER -> IF Open(attempts) \ due # {} THEN "resumed"
                      ELSE IF used >= exam.max \/ exam.questions = 0 THEN "refused" ELSE "begun"

-----------------------------------------------------------------------------
\* Two classes, a student who may be in none; up to two attempts, of which at most
\* the last one is live.

Pupils == [id : {"ann"}, class : {"", "c1"}, status : {"ACTIVE", "SUSPENDED"}]
Exams  == [published : BOOLEAN, class : {"", "c1", "c2"}, classes : SUBSET {"c1", "c2"}, students : SUBSET {"ann", "bob"},
           first : {0, 2}, last : {0, 2, 3}, max : 1 .. 2, questions : 0 .. 1]
Tries  == {<< >>} \cup {<<[status |-> "IN_PROGRESS", expires |-> e]>> : e \in 1 .. 4}
              \cup {<<[status |-> "SUBMITTED", expires |-> 1]>>}
              \cup {<<[status |-> "EXPIRED", expires |-> 1], [status |-> "IN_PROGRESS", expires |-> e]>> : e \in 1 .. 4}
Reached(exam, tries) == Len(tries) <= exam.max

\* A student off the roll of classes is given only what is for everybody or for the
\* student by name.
ASSUME WithoutClassByName ==
    \A exam \in Exams, s \in Pupils :
        s.class = "" /\ ExamReaches(exam, s) => Untargeted(exam) \/ "ann" \in exam.students

\* Whatever can be begun says that it can; and what says so can be, but for an exam
\* without questions and for a last attempt that has run out unnoticed.
ASSUME CanStartIsTrue ==
    \A exam \in Exams, s \in Pupils, tries \in Tries, now \in 1 .. 3 :
        s.status = "ACTIVE" /\ ExamReaches(exam, s) /\ Reached(exam, tries) =>
            /\ Outcome(exam, s, tries, now) # "refused" => CanStart(exam, tries, now)
            /\ CanStart(exam, tries, now) /\ Outcome(exam, s, tries, now) = "refused" =>
                  \/ exam.questions = 0
                  \/ Len(tries) = exam.max /\ \E i \in Open(tries) : tries[i].expires <= now

\* No student goes over the number of attempts.
ASSUME BegunIsWithinLimit ==
    \A exam \in Exams, s \in Pupils, tries \in Tries, now \in 1 .. 3 :
        Reached(exam, tries) /\ Outcome(exam, s, tries, now) = "begun" => Len(tries) < exam.max

\* An attempt may have time left when the last moment is past: it is then not to be
\* resumed, although it could be the moment before.
ASSUME LiveAttemptOutlivesWindow ==
    \E exam \in Exams, s \in Pupils, tries \in Tries :
        /\ Outcome(exam, s, tries, 2) = "resumed" /\ Outcome(exam, s, tries, 3) = "refused"
        /\ \A i \in Open(tries) : tries[i].expires > 3
=============================================================================
