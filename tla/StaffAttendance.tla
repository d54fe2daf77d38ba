-------------------------- MODULE StaffAttendance --------------------------
(***************************************************************************)
(* When staff clock in and out (modules/attendance/attendance.service.ts)  *)
(* under the schedules of modules/schedules/schedules.service.ts, as       *)
(* functions.  Instants are half minutes of local time, so that what the   *)
(* code rounds away shows; a schedule's times are minutes of a day.        *)
(***************************************************************************)
EXTENDS Integers, FiniteSets

DayLength == 2880
At(day, time) == day * DayLength + 2 * time
DayOf(now) == now \div DayLength
Weekday(day) == day % 7
EarlyGrace == 60

-----------------------------------------------------------------------------
\* Schedules: [scope, target, days, start, end, grace].

\* assertNoOverlap, among the schedules of the same target.
ScheduleConflicts(schedules, s) ==
    {o \in schedules : /\ o.scope = s.scope /\ o.target = s.target
                       /\ o.days \cap s.days # {} /\ o.start < s.end /\ o.end > s.start}

\* create, and update, which leaves out the row it replaces.
ScheduleSaved(schedules, old, s) ==
    IF s.end > s.start /\ ScheduleConflicts(schedules \ old, s) = {}
    THEN (schedules \ old) \cup {s} ELSE schedules

\* What resolveApplicableSchedule finds for a member of staff.  A member without
\* a department asks for undefined, by which the query does not filter.
AppliesTo(s, staff) ==
    CASE s.scope = "STAFF"      -> s.target = staff.id
      [] s.scope = "DEPARTMENT" -> staff.department \in {"", s.target}
      [] s.scope = "BRANCH"     -> s.target = staff.branch

ScopeRank == [STAFF |-> 0, DEPARTMENT |-> 1, BRANCH |-> 2]

\* The first one by rank: any of them when there are several, since the rows come
\* in no order.  The day it is makes no difference.
Applicable(schedules, staff) ==
    LET found == {s \in schedules : AppliesTo(s, staff)} IN
    {s \in found : \A o \in found : ScopeRank[s.scope] <= ScopeRank[o.scope]}

-----------------------------------------------------------------------------
\* clockIn and evaluateClockIn.  Rules from the tenant's settings (default) do
\* not refuse anybody.

MayClockIn(s, default, now) ==
    \/ default
    \/ /\ Weekday(DayOf(now)) \in s.days
       /\ now >= At(DayOf(now), s.start) - EarlyGrace /\ now <= At(DayOf(now), s.end)

LateMinutes(s, now) ==
    LET late == At(DayOf(now), s.start) + 2 * s.grace IN
    IF now > late THEN (now - late) \div 2 ELSE 0

ClockInStatus(s, now) == IF LateMinutes(s, now) > 0 THEN "LATE" ELSE "ON_TIME"

\* clockOut: the closing time is that of the day on which one clocks out.
ClockOutStatus(s, status, now) ==
    LET end == At(DayOf(now), s.end) IN
    IF now < end THEN "EARLY_LEAVE" ELSE IF now > end THEN "OVERTIME" ELSE status

EarlyMinutes(s, now) ==
    LET end == At(DayOf(now), s.end) IN IF now < end THEN (end - now + 1) \div 2 ELSE 0
OvertimeMinutes(s, now) ==
    LET end == At(DayOf(now), s.end) IN IF now > end THEN (now - end) \div 2 ELSE 0

\* clockIn of a school's staff: any lateness is at least a minute.
SchoolLateMinutes(threshold, now) ==
    LET late == At(DayOf(now), threshold) IN
    IF now <= late THEN 0 ELSE IF now - late < 2 THEN 1 ELSE (now - late) \div 2

-----------------------------------------------------------------------------
\* One member of staff, and schedules of two days, two shifts and three scopes.

Member    == [id |-> "ann", department |-> "sales", branch |-> "lagos"]
Drifter   == [Member EXCEPT !.department = ""]
Shift(s, e) == [start |-> s, end |-> e]
Sched(scope, target, days, shift) ==
    [scope |-> scope, target |-> target, days |-> days, start |-> shift.start, end |-> shift.end, grace |-> 15]
Targets   == {<<"STAFF", "ann">>, <<"DEPARTMENT", "sales">>, <<"DEPARTMENT", "works">>, <<"BRANCH", "lagos">>}
Schedules == {Sched(t[1], t[2], days, shift) : t \in Targets, days \in (SUBSET {1, 2} \ {{}}),
                                               shift \in {Shift(480, 720), Shift(600, 1020), Shift(720, 1020)}}
Plans     == {{}} \cup {{s} : s \in Schedules} \cup {ScheduleSaved({s}, {}, o) : s, o \in Schedules}
Clock     == {At(d, 480) + h : d \in {1, 2}, h \in {-61, -60, 0, 30, 31, 32, 33, 479, 480, 481, 1081}}

Covers(s, now) ==
    Weekday(DayOf(now)) \in s.days /\ now > At(DayOf(now), s.start) /\ now < At(DayOf(now), s.end)

\* However schedules are created and replaced, no two of one target cover the same
\* moment.
ASSUME OneScheduleAtATime ==
    \A plan \in Plans, s \in Schedules : \A old \in {{}} \cup {{o} : o \in plan} :
        LET after == ScheduleSaved(plan, old, s) IN
        \A a, b \in after : \A now \in Clock :
            a # b /\ a.scope = b.scope /\ a.target = b.target => ~(Covers(a, now) /\ Covers(b, now))

\* "Resolves the most specific schedule applicable": a schedule of one's own goes
\* before one's department's, and that before the branch's.
ASSUME OwnScheduleComesFirst ==
    \A plan \in Plans : \A s \in Applicable(plan, Member), o \in plan :
        /\ s.target \in {Member.id, Member.department, Member.branch}
        /\ s.scope # "STAFF" => o.scope # "STAFF"
        /\ s.scope = "BRANCH" => <<o.scope, o.target>> # <<"DEPARTMENT", "sales">>

\* A target may have several schedules, on days of their own, but only one is
\* asked: on the other's day its member is refused during working hours.
ASSUME SplitWeekIsRefused ==
    \E plan \in Plans, now \in Clock :
        /\ \A s \in plan : s.target = Member.id
        /\ \E s \in Applicable(plan, Member) : Covers(s, now)
        /\ \E s \in Applicable(plan, Member) : ~MayClockIn(s, FALSE, now)

\* Whoever has no department is under the schedule of any department there is,
\* and not under the branch's.
ASSUME AnyDepartmentApplies ==
    \E plan \in Plans, s \in Schedules :
        /\ s \in plan /\ s.scope = "BRANCH"
        /\ \A o \in Applicable(plan, Drifter) : o.scope = "DEPARTMENT"

\* Who is let in on a working day is late by the whole minutes that begin after
\* the grace period and are over, and out by closing time or not.
ASSUME MinutesAreWhole ==
    \A s \in Schedules, now \in Clock :
        MayClockIn(s, FALSE, now) =>
            LET due == At(DayOf(now), s.start + s.grace) IN
            /\ LateMinutes(s, now) = Cardinality({m \in 1 .. 1440 : due + 2 * m <= now})
            /\ (ClockInStatus(s, now) = "LATE" <=> now >= due + 2)
            /\ EarlyMinutes(s, now) = Cardinality({m \in 0 .. 1440 : now + 2 * m < At(DayOf(now), s.end)})
            /\ ClockOutStatus(s, "LATE", now) = "LATE" <=> now = At(DayOf(now), s.end)

\* The school's clock never calls somebody late by no minute, nor the company's;
\* half a minute makes a teacher late and nobody else.
ASSUME HalfAMinute ==
    \A s \in Schedules, now \in Clock :
        LET due == s.start + s.grace IN
        /\ SchoolLateMinutes(due, now) >= LateMinutes(s, now)
        /\ SchoolLateMinutes(due, now) # LateMinutes(s, now) <=> now = At(DayOf(now), due) + 1

\* Who forgot to clock out and does so the next morning has left early, by the
\* minutes to that day's closing time, although the day worked is over.
ASSUME NextMorningIsEarly ==
    \A s \in Schedules : LET next == At(2, 0) + 2 * 60 IN
        /\ MayClockIn(s, TRUE, At(1, s.start))
        /\ ClockOutStatus(s, "ON_TIME", next) = "EARLY_LEAVE"
        /\ EarlyMinutes(s, next) = s.end - 60
=============================================================================
