---------------------------- MODULE MCSchoolFees ----------------------------
(* Small instances of SchoolFees: two students, two or three invoices; and    *)
(* the facts about the rest of a school's office: the timetable, the results, *)
(* the calendar, the gate and the staff's clock.                              *)
EXTENDS SchoolFees, Timetable, SchoolResults, StaffAttendance, SchoolCalendar,
        GateAttendance, TLC

FeesSymmetry == Permutations(Req) \cup Permutations(Invoice)
=============================================================================
