----------------------------- MODULE Timetable -----------------------------
(***************************************************************************)
(* The timetable of a school (modules/school/timetable.service.ts), as     *)
(* functions from a table and a request to the table after it.  A table    *)
(* gives each row a period; times of day are ordinals, "" is no teacher.   *)
(* A request that the code refuses leaves the table as it is.              *)
(***************************************************************************)
EXTENDS Integers, FiniteSets, TLC

\* periodsOverlap: touching ends are allowed.
PeriodsOverlap(a, b) == a.day = b.day /\ a.start < b.end /\ a.end > b.start

\* assertNoConflicts for a period and the row it is to replace, if any.
Conflicts(table, p, ignored) ==
    {i \in DOMAIN table \ ignored :
        /\ PeriodsOverlap(p, table[i])
        /\ table[i].class = p.class \/ (p.teacher # "" /\ table[i].teacher = p.teacher)}

\* The schemas ask for the order of two times only when a request has both.
InOrder(p) == p.start < p.end
WellFormed(patch) == {"start", "end"} \subseteq DOMAIN patch => InOrder(patch)

PeriodCreated(table, i, p) ==
    IF InOrder(p) /\ Conflicts(table, p, {}) = {} THEN (i :> p) @@ table ELSE table

\* update takes each field from the request, or else from the row.
PeriodMerged(p, patch) == patch @@ p

PeriodUpdated(table, i, patch) ==
    LET p == PeriodMerged(table[i], patch) IN
    IF WellFormed(patch) /\ Conflicts(table, p, {i}) = {} THEN [table EXCEPT ![i] = p] ELSE table

-----------------------------------------------------------------------------
\* Two classes, one teacher, two days of four moments, and every table of two
\* periods between them.

Moment  == 0 .. 3
Periods == [day : {"mon", "tue"}, class : {"c1", "c2"}, teacher : {"", "t"}, start : Moment, end : Moment]
Patches == UNION {[F -> Moment] : F \in SUBSET {"start", "end"}}
Moves   == {<<>>, "day" :> "mon", "day" :> "tue", "class" :> "c1", "teacher" :> "t", "teacher" :> ""}

\* The moments of a period, whichever way the code compares its ends.
Taken(p) == {t \in Moment : p.start <= t /\ t < p.end}
SamePlace(p, q) == p.day = q.day /\ (p.class = q.class \/ (p.teacher # "" /\ p.teacher = q.teacher))

DoubleBooked(table) ==
    \E i, j \in DOMAIN table :
        i # j /\ SamePlace(table[i], table[j]) /\ Taken(table[i]) \cap Taken(table[j]) # {}

Ordered == {p \in Periods : InOrder(p)}
Sound   == {t \in [{1, 2} -> Ordered] : ~DoubleBooked(t)}

\* From any sound timetable, whatever is created and however a period is moved,
\* no class and no teacher is in two places; and nothing is refused that would
\* not have double-booked them.
ASSUME NothingIsDoubleBooked ==
    \A table \in Sound :
        /\ \A p \in Ordered :
              /\ ~DoubleBooked(PeriodCreated(table, 3, p))
              /\ PeriodCreated(table, 3, p) = table => DoubleBooked((3 :> p) @@ table)
        /\ \A times \in Patches, move \in Moves :
              LET after == PeriodUpdated(table, 1, times @@ move) IN
              InOrder(PeriodMerged(table[1], times)) => after \in Sound

\* "End time must be after start time" holds of a request, not of the row: a
\* request that moves one end past the other is accepted, and the same class can
\* then be booked over both ends of the row it leaves.
ASSUME OneEndIsMovedPastTheOther ==
    \E table \in Sound, p \in Ordered, end \in Moment :
        LET after == PeriodUpdated(table, 1, "end" :> end)
        IN  /\ ~InOrder(after[1])
            /\ p.class = after[1].class /\ p.day = after[1].day
            /\ after[1].start \in Taken(p) /\ end \in Taken(p)
            /\ PeriodCreated(after, 3, p) # after
=============================================================================
