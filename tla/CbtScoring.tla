----------------------------- MODULE CbtScoring -----------------------------
(***************************************************************************)
(* How an attempt is scored (modules/cbt/cbt-scoring.ts), and what reports *)
(* make of the scores and who sees them (cbt-analytics.service.ts), as     *)
(* functions.  Marks are integers, hundredths of a mark; percentages       *)
(* hundredths of a percent, which is what round2 leaves of either.         *)
(***************************************************************************)
EXTENDS Integers, Sequences, FiniteSets
LOCAL INSTANCE FiniteSetsExt

Clamp(x, lo, hi) == IF x < lo THEN lo ELSE IF x > hi THEN hi ELSE x

\* Math.round of the quotient of two naturals.
Rounded(n, d) == (2 * n + d) \div (2 * d)

\* A paper gives each question its marks and the options accepted; penalty is
\* negativeMarkPerWrong, or 0 without negative marking; "" is no answer.
Wanted(paper, q)        == IF paper[q].marks > 0 THEN paper[q].marks ELSE 0
Right(paper, sel)       == {q \in DOMAIN paper : sel[q] # "" /\ sel[q] \in paper[q].accepted}
Unanswered(paper, sel)  == {q \in DOMAIN paper : sel[q] = ""}
Wrong(paper, sel)       == DOMAIN paper \ (Right(paper, sel) \cup Unanswered(paper, sel))

Total(paper)            == MapThenSumSet(LAMBDA q : Wanted(paper, q), DOMAIN paper)
Raw(paper, sel, penalty) ==
    MapThenSumSet(LAMBDA q : Wanted(paper, q), Right(paper, sel)) - penalty * Cardinality(Wrong(paper, sel))

Score(paper, sel, penalty) == Clamp(Raw(paper, sel, penalty), 0, Total(paper))

Percentage(paper, sel, penalty) ==
    IF Total(paper) = 0 THEN 0
    ELSE Clamp(Rounded(10000 * Score(paper, sel, penalty), Total(paper)), 0, 10000)

HasPassed(paper, sel, penalty, passMark) ==
    Total(paper) > 0 /\ Percentage(paper, sel, penalty) >= passMark

\* In seconds, for a duration in minutes.
TimeUsed(started, submitted, duration) == Clamp(submitted - started, 0, 60 * duration)
Remaining(expires, at)                 == IF expires > at THEN expires - at ELSE 0

-----------------------------------------------------------------------------
\* Checked over every paper of two questions and every selection from it.

Marks      == {-100, 0, 100, 233}
Penalties  == {0, 50, 300}
Papers     == [{1, 2} -> [marks : Marks, accepted : {{}, {"a"}, {"a", "b"}}]]
Selections == [{1, 2} -> {"", "a", "b"}]

\* Answering one more question rightly never lowers the score, and answering it
\* wrongly never raises it, whatever the penalty and the clamp do to the rest.
ASSUME ScoreIsMonotone ==
    \A paper \in Papers, sel \in Selections, penalty \in Penalties, q \in {1, 2}, o \in {"a", "b"} :
      sel[q] = "" =>
        LET after == [sel EXCEPT ![q] = o] IN
        IF o \in paper[q].accepted
        THEN Score(paper, after, penalty) >= Score(paper, sel, penalty)
        ELSE Score(paper, after, penalty) <= Score(paper, sel, penalty)

\* "the final score is clamped": full marks are 100 %, a pass needs the share of
\* the marks that the pass mark says, up to half a hundredth of a percent.
ASSUME PassNeedsItsShare ==
    \A paper \in Papers, sel \in Selections, penalty \in Penalties, passMark \in {0, 3333, 5000, 10000} :
      /\ Total(paper) > 0 /\ Right(paper, sel) = DOMAIN paper => Percentage(paper, sel, penalty) = 10000
      /\ HasPassed(paper, sel, penalty, passMark)
           => 20000 * Score(paper, sel, penalty) >= (2 * passMark - 1) * Total(paper)

\* "so a stale client clock or a late request can never report more time than the
\* exam allows": what was used and what is left never exceed the duration.
ASSUME TimeIsBounded ==
    \A started \in 0 .. 60, at \in 0 .. 200, duration \in 0 .. 2 :
      at >= started =>
        /\ TimeUsed(started, at, duration) + Remaining(started + 60 * duration, at) = 60 * duration
        /\ TimeUsed(at, started, duration) = 0

-----------------------------------------------------------------------------
\* The reports.  A result is a submitted attempt with its student, the class the
\* student is in, its exam and the exam's subject.

MeanOf(values)    == IF values = << >> THEN 0
                     ELSE Rounded(MapThenSumSet(LAMBDA i : values[i], DOMAIN values), Len(values))
Percentages(rows) == [i \in DOMAIN rows |-> rows[i].percentage]
PassRate(rows)    == MeanOf([i \in DOMAIN rows |-> IF rows[i].passed THEN 10000 ELSE 0])
ScoreBucket(percentage) ==
    1 + Cardinality({lower \in {4000, 5000, 6000, 7000, 8000, 9000} : percentage >= lower})

Stats(rows) ==
    [attempts     |-> Len(rows),
     students     |-> Cardinality({rows[i].student : i \in DOMAIN rows}),
     average      |-> MeanOf(Percentages(rows)),
     highest      |-> IF rows = << >> THEN 0 ELSE Max({rows[i].percentage : i \in DOMAIN rows}),
     lowest       |-> IF rows = << >> THEN 0 ELSE Min({rows[i].percentage : i \in DOMAIN rows}),
     passRate     |-> PassRate(rows),
     distribution |-> [b \in 1 .. 7 |-> Cardinality({i \in DOMAIN rows : ScoreBucket(rows[i].percentage) = b})]]

\* Rows grouped by a field, and the figures of a class: each student's, and the mean of
\* their averages.
RowsOf(rows, key, k) == SelectSeq(rows, LAMBDA row : row[key] = k)
AggregateBy(rows, key) ==
    [k \in {rows[i][key] : i \in DOMAIN rows} |->
        LET own == RowsOf(rows, key, k) IN [attempts |-> Len(own), average |-> MeanOf(Percentages(own))]]
ClassAverage(rows) ==
    LET each == AggregateBy(rows, "student") IN
    IF rows = << >> THEN 0
    ELSE Rounded(MapThenSumSet(LAMBDA u : each[u].average, DOMAIN each), Cardinality(DOMAIN each))

\* Topics with enough answers, in the order of their first one, and the n of them with
\* the best or the worst accuracy; a sort keeps that order where they are equal.
MinTopicAnswers == 4
TopicsShown(topics) == {t \in DOMAIN topics : topics[t].total >= MinTopicAnswers}
Accuracy(topic)     == Rounded(10000 * topic.correct, topic.total)
Strongest(topics, n) ==
    {t \in TopicsShown(topics) : n > Cardinality({u \in TopicsShown(topics) :
        \/ Accuracy(topics[u]) > Accuracy(topics[t])
        \/ Accuracy(topics[u]) = Accuracy(topics[t]) /\ u < t})}
Weakest(topics, n) ==
    {t \in TopicsShown(topics) : n > Cardinality({u \in TopicsShown(topics) :
        \/ Accuracy(topics[u]) < Accuracy(topics[t])
        \/ Accuracy(topics[u]) = Accuracy(topics[t]) /\ u < t})}

\* Who sees an exam's report, and whose results the figures of a class and the
\* dashboard are made of: one who is not an administrator needs a staff record, and
\* teaches the subject, leads a class or made the exam.
MayReport(actor, exam) ==
    \/ actor.admin
    \/ actor.staff /\ (exam.subject \in actor.subjects \/ exam.class \in actor.classes \/ exam.by = actor.user)
InFigures(actor, exam, row) ==
    \/ actor.admin
    \/ actor.staff /\ (exam.subject \in actor.subjects \/ row.class \in actor.classes \/ exam.by = actor.user)

-----------------------------------------------------------------------------
\* Up to three results of two students in two subjects, and a teacher of one subject
\* who leads one class.

Result   == [student : {"s", "t"}, subject : {"x", "y"}, percentage : {0, 3333, 4000, 10000}, passed : BOOLEAN]
Results  == UNION {[1 .. n -> Result] : n \in 0 .. 3}
ReportExams    == [subject : {"x", "y"}, class : {"a", "b", "none"}, by : {"me", "other"}]
Teachers == [admin : BOOLEAN, staff : BOOLEAN, subjects : {{}, {"x"}}, classes : {{}, {"a"}}, user : {"me"}]

\* A mean stays between the lowest and the highest although it is rounded, everyone is
\* in one bucket, and the figures per subject make up those of the whole, up to the
\* rounding of each.
ASSUME FiguresAgree ==
    \A rows \in Results :
        LET stats == Stats(rows)
            each  == AggregateBy(rows, "subject")
            total == MapThenSumSet(LAMBDA k : each[k].attempts * each[k].average, DOMAIN each)
        IN  /\ stats.lowest <= stats.average /\ stats.average <= stats.highest
            /\ MapThenSumSet(LAMBDA b : stats.distribution[b], 1 .. 7) = stats.attempts
            /\ MapThenSumSet(LAMBDA k : each[k].attempts, DOMAIN each) = stats.attempts
            /\ total - stats.attempts * stats.average \in - stats.attempts .. stats.attempts

\* A class's average is that of its results only where its students took as many.
ASSUME ClassAverageWeighsStudents ==
    /\ \A rows \in Results :
          LET each == AggregateBy(rows, "student") IN
          (\A u, v \in DOMAIN each : each[u].attempts = each[v].attempts)
              => ClassAverage(rows) - Stats(rows).average \in -1 .. 1
    /\ \E rows \in Results : ClassAverage(rows) > Stats(rows).average + 1000

\* No strong topic is less accurate than one that is not, but with few topics the same
\* one is among the strong and the weak.
TopicSets == [1 .. 3 -> {[correct |-> c, total |-> n] : c \in 0 .. 2, n \in {3, 4, 7}}]
ASSUME StrongTopicsAreBest ==
    \A topics \in TopicSets, n \in 1 .. 2 :
        /\ \A t \in Strongest(topics, n), u \in TopicsShown(topics) \ Strongest(topics, n) :
              Accuracy(topics[t]) >= Accuracy(topics[u])
        /\ Cardinality({Accuracy(topics[t]) : t \in TopicsShown(topics)}) = Cardinality(TopicsShown(topics))
           /\ Cardinality(TopicsShown(topics)) >= 2 * n
              => Strongest(topics, n) \cap Weakest(topics, n) = {}
        /\ Cardinality(TopicsShown(topics)) = 1 => Strongest(topics, n) = Weakest(topics, n)

\* Where an exam is for the pupils of its class, its results are in a teacher's figures
\* exactly if its report is; an exam for everybody has a report that is refused to one
\* whose figures it is in; and who made an exam without a staff record sees neither.
ASSUME FiguresFollowReports ==
    \A actor \in Teachers, exam \in ReportExams, class \in {"a", "b"} :
        exam.class = class => (MayReport(actor, exam) <=> InFigures(actor, exam, [class |-> class]))
ASSUME InFiguresButRefused ==
    \E actor \in Teachers, exam \in ReportExams : ~MayReport(actor, exam) /\ InFigures(actor, exam, [class |-> "a"])
ASSUME MakerNeedsStaffRecord ==
    \E actor \in Teachers, exam \in ReportExams : exam.by = actor.user /\ ~MayReport(actor, exam)
=============================================================================
