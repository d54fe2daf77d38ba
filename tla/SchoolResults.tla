--------------------------- MODULE SchoolResults ---------------------------
(***************************************************************************)
(* The results of a class in one subject and term (modules/school/         *)
(* grading.service.ts), as functions.  A score is in thousandths of a      *)
(* mark, a stored total in hundredths.  The rows give each student that    *)
(* has a result its total, position, status and lock.                      *)
(***************************************************************************)
EXTENDS Integers, Sequences, FiniteSets, TLC

\* The standard scale, in the order in which it is read (minScore, descending).
Band(min, max, grade) == [min |-> min, max |-> max, grade |-> grade]
StandardScale ==
    << Band(70000, 100000, "A"), Band(60000, 69990, "B"), Band(50000, 59990, "C"),
       Band(45000, 49990, "D"), Band(40000, 44990, "E"), Band(0, 39990, "F") >>

\* resolveGrade: the first band that holds the score, or else "F".
GradeOf(score, scale) ==
    LET held == {i \in DOMAIN scale : score >= scale[i].min /\ score <= scale[i].max} IN
    IF held = {} THEN "F" ELSE scale[CHOOSE i \in held : \A j \in held : i <= j].grade

\* Math.round of the total to two digits; the grade is that of the total before.
StoredTotal(score) == (score + 5) \div 10

\* The place of entry i in the list sorted by total, which keeps ties in order.
PositionIn(totals, i) ==
    1 + Cardinality({j \in DOMAIN totals : totals[j] > totals[i] \/ (totals[j] = totals[i] /\ j < i)})

\* recordClassResults: an upsert for each entry of the batch, in one transaction.
NewResult == [total |-> 0, position |-> 0, status |-> "DRAFT", locked |-> FALSE]
Recorded(rows, students, scores) ==
    LET totals == [i \in DOMAIN scores |-> StoredTotal(scores[i])]
        place(s) == CHOOSE i \in DOMAIN students : students[i] = s
        given == {students[i] : i \in DOMAIN students}
    IN  [s \in DOMAIN rows \cup given |->
            IF s \notin given THEN rows[s]
            ELSE [(IF s \in DOMAIN rows THEN rows[s] ELSE NewResult)
                    EXCEPT !.total = totals[place(s)], !.position = PositionIn(totals, place(s))]]

\* approveResults changes every row of the class, whatever its status.
Decided(rows, action) ==
    [s \in DOMAIN rows |->
        CASE action = "APPROVE" -> [rows[s] EXCEPT !.status = "APPROVED"]
          [] action = "PUBLISH" -> [rows[s] EXCEPT !.status = "PUBLISHED", !.locked = TRUE]
          [] action = "REJECT"  -> [rows[s] EXCEPT !.status = "DRAFT", !.locked = FALSE]]

-----------------------------------------------------------------------------
\* Checked over every total of a subject and every class of three.

Hundredths == {10 * n : n \in 0 .. 10000}
Worth      == [A |-> 5, B |-> 4, C |-> 3, D |-> 2, E |-> 1, F |-> 0]
Scores     == {44994, 44995, 45000}
Pupils     == {"ada", "ben", "eve"}
Lists      == {l \in [1 .. 3 -> Pupils] : \A i, j \in 1 .. 3 : i # j => l[i] # l[j]}

\* In whole hundredths a higher total never has a lower grade: the bands meet.
ASSUME GradesFollowTotals ==
    \A t \in Hundredths \ {0} :
        Worth[GradeOf(t, StandardScale)] >= Worth[GradeOf(t - 10, StandardScale)]

\* Scores are not rounded before they are graded, and four components may come to
\* more than 100: between two bands, and above the first, a total is an "F".
ASSUME OutsideTheBandsIsAnF ==
    /\ GradeOf(69990, StandardScale) = "B" /\ GradeOf(70000, StandardScale) = "A"
    /\ GradeOf(69995, StandardScale) = "F" /\ StoredTotal(69995) = 7000
    /\ GradeOf(100010, StandardScale) = "F"

\* Recorded in one batch, a class gets the positions from first to last once each,
\* and the better total the better one; recording it again in any order changes
\* nothing but who of two equals comes first.
ASSUME PositionsAreARanking ==
    \A list, again \in Lists, scores \in [1 .. 3 -> Scores] :
        LET rows  == Recorded(<<>>, list, scores)
            twice == Recorded(rows, again, [i \in 1 .. 3 |-> scores[CHOOSE j \in 1 .. 3 : list[j] = again[i]]])
        IN  /\ {rows[s].position : s \in Pupils} = 1 .. 3
            /\ \A s, o \in Pupils : rows[s].total > rows[o].total => rows[s].position < rows[o].position
            /\ \A s \in Pupils : rows[s].total = twice[s].total /\ rows[s].status = twice[s].status
            /\ (Cardinality({rows[s].total : s \in Pupils}) = 3 => twice = rows)

\* Positions are those of the batch: a class recorded in two has two firsts.
ASSUME EachBatchHasAFirst ==
    \A list \in Lists, scores \in [1 .. 3 -> Scores] :
        LET first == Recorded(<<>>, SubSeq(list, 1, 2), SubSeq(scores, 1, 2))
            rows  == Recorded(first, SubSeq(list, 3, 3), SubSeq(scores, 3, 3))
        IN  Cardinality({s \in Pupils : rows[s].position = 1}) = 2

\* A published result is locked, but nothing reads the lock: recording changes it
\* and leaves it published, and an approval takes the status and keeps the lock.
ASSUME LockIsNotRead ==
    \A list \in Lists, scores, later \in [1 .. 3 -> Scores] :
        LET rows    == Decided(Recorded(<<>>, list, scores), "PUBLISH")
            changed == Recorded(rows, list, later)
        IN  \A i \in 1 .. 3 :
                /\ changed[list[i]].status = "PUBLISHED" /\ changed[list[i]].locked
                /\ changed[list[i]].total = StoredTotal(later[i])
                /\ Decided(rows, "APPROVE")[list[i]] = [rows[list[i]] EXCEPT !.status = "APPROVED"]
=============================================================================
