--------------------------- MODULE GateAttendance ---------------------------
(***************************************************************************)
(* The attendance of a student at the gate and in the register             *)
(* (modules/school/attendance.service.ts), as functions from the rows of a *)
(* student, one for each date, to the rows after it.  Instants are hours   *)
(* of UTC, 0 stands for no instant; zone is what a school's clock is ahead *)
(* of UTC.                                                                 *)
(***************************************************************************)
EXTENDS Integers, FiniteSets, Sequences, TLC

\* The date of a row is that of UTC, lateness goes by the school's own clock.
DateOf(now) == now \div 24
LocalTime(now, zone) == (now + zone) % 24
Arrival(now, zone, threshold) == IF LocalTime(now, zone) > threshold THEN "LATE" ELSE "PRESENT"

\* scan: the first of a date checks in, every other one checks out.
ScanAction(rows, now) == IF DateOf(now) \in DOMAIN rows THEN "CHECK_OUT" ELSE "CHECK_IN"
Scanned(rows, now, zone, threshold) ==
    IF ScanAction(rows, now) = "CHECK_IN"
    THEN (DateOf(now) :> [status |-> Arrival(now, zone, threshold), in |-> now, out |-> 0]) @@ rows
    ELSE [rows EXCEPT ![DateOf(now)].out = now]

\* markBulk for one student: a time that is not given is now for a new row, and
\* left as it is in one that exists.
MarkedBy(rows, date, status, in, out, now) ==
    IF date \in DOMAIN rows
    THEN [rows EXCEPT ![date] = [status |-> status, in |-> IF in = 0 THEN @.in ELSE in,
                                                    out |-> IF out = 0 THEN @.out ELSE out]]
    ELSE (date :> [status |-> status, in |-> IF in = 0 THEN now ELSE in, out |-> out]) @@ rows

\* getStats: active students on the roll, and how many rows of the date have each
\* status, whoever they are of.
GateStats(active, count) ==
    LET marked == count["PRESENT"] + count["LATE"] + count["ABSENT"] + count["EXCUSED"] + count["CHECKED_OUT"]
    IN  [present |-> count["PRESENT"], late |-> count["LATE"], excused |-> count["EXCUSED"],
         absent  |-> count["ABSENT"] + (IF active > marked THEN active - marked ELSE 0)]

\* resolveGeofence and assertGeofence: the gate's own fence, or else the school's.
\* A radius of 0 is a fence that is not set; distances are from either's centre.
ScanIsNear(gate, school, located, distance) ==
    located => LET fence == IF gate > 0 THEN "gate" ELSE "school"
                   radius == IF gate > 0 THEN gate ELSE school
               IN  radius = 0 \/ distance[fence] <= radius

-----------------------------------------------------------------------------
\* Two days of a school that is open from six to eighteen, in every zone.

Zones == -11 .. 12
SchoolTime(day, hour, zone) == 24 * day + hour - zone
ScansOf(times, zone) ==
    LET rows[i \in 0 .. Len(times)] ==
            IF i = 0 THEN << >> ELSE Scanned(rows[i - 1], times[i], zone, 8)
    IN  rows[Len(times)]

\* The first scan of a date is when the student came and decides if late, the last
\* is when the student left, however many are between.
ASSUME FirstInLastOut ==
    \A zone \in Zones, a, b, c \in 24 .. 47 : a < b /\ b < c =>
        ScansOf(<<a, b, c>>, zone) = 1 :> [status |-> Arrival(a, zone, 8), in |-> a, out |-> c]

\* A day at school is a check-in and a check-out only where it is within a date of
\* UTC: for clocks up to six hours ahead or five behind.
ASSUME DayIsOneRow ==
    \A zone \in Zones :
        (\A in, out \in 6 .. 18 : in < out =>
            Cardinality(DOMAIN ScansOf(<<SchoolTime(2, in, zone), SchoolTime(2, out, zone)>>, zone)) = 1)
        <=> zone \in -5 .. 6

\* Elsewhere who leaves in the evening has come late to the next date, and on the
\* next morning is checked out.
ASSUME EveningIsTheNextDay ==
    \E zone \in Zones :
        LET evening == SchoolTime(2, 18, zone)
            rows == ScansOf(<<SchoolTime(2, 7, zone), evening>>, zone)
        IN  /\ rows[DateOf(evening)].status = "LATE"
            /\ ScanAction(rows, SchoolTime(3, 7, zone)) = "CHECK_OUT"

\* A student marked absent who comes after all is checked out and stays absent; the
\* time of coming is when the register was taken.
ASSUME AbsentIsCheckedOut ==
    \A taken, came \in 24 .. 47 : taken < came =>
        LET rows == MarkedBy(<< >>, 1, "ABSENT", 0, 0, taken) IN
        /\ ScanAction(rows, came) = "CHECK_OUT"
        /\ Scanned(rows, came, 1, 8) = 1 :> [status |-> "ABSENT", in |-> taken, out |-> came]

\* The register, taken again in any order of marks, keeps the times of the gate.
ASSUME RegisterKeepsTimes ==
    \A came, left \in 30 .. 40, first, second \in {"PRESENT", "ABSENT", "EXCUSED"} : came < left =>
        LET rows == MarkedBy(MarkedBy(ScansOf(<<came, left>>, 1), 1, first, 0, 0, left), 1, second, 0, 0, left)
        IN  rows = 1 :> [status |-> second, in |-> came, out |-> left]

\* The figures add up to the roll when only students of the roll have rows and no
\* row says CHECKED_OUT: those who have are in no figure.
ASSUME FiguresAddUp ==
    \A active \in 0 .. 4, count \in [{"PRESENT", "LATE", "ABSENT", "EXCUSED", "CHECKED_OUT"} -> 0 .. 2] :
        LET stats == GateStats(active, count)
            sum   == stats.present + stats.late + stats.absent + stats.excused
            rows  == count["PRESENT"] + count["LATE"] + count["ABSENT"] + count["EXCUSED"] + count["CHECKED_OUT"]
        IN  /\ rows <= active => sum + count["CHECKED_OUT"] = active
            /\ rows >= active => sum + count["CHECKED_OUT"] = rows

\* No scan is refused for a fence that is not set or a place that is not known; a
\* gate's fence is asked instead of the school's, also where the school's is wider.
ASSUME FenceOfTheGate ==
    \A gate, school \in 0 .. 2, located \in BOOLEAN, distance \in [{"gate", "school"} -> 0 .. 3] :
        LET near == ScanIsNear(gate, school, located, distance) IN
        /\ ~located \/ (gate = 0 /\ school = 0) => near
        /\ located /\ gate > 0 /\ distance["gate"] > gate => ~near
=============================================================================
