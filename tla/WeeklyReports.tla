---------------------------- MODULE WeeklyReports ---------------------------
(***************************************************************************)
(* The weekly reports of the staff                                         *)
(* (modules/weekly-reports/weekly-reports.service.ts), as functions from   *)
(* the reports there are to those after a call.  A report is of a user, in *)
(* a tenant, from the day a week starts; days are numbers.                 *)
(***************************************************************************)
EXTENDS Integers, FiniteSets

\* The index [submittedByUserId, weekStart] knows no tenant, and neither does the
\* look of submit; that of update does.
OfWeek(reports, user, start) == {r \in reports : r.user = user /\ r.start = start}

WeekOf(start) == start .. start + 6
ReportSubmitted(reports, id, tenant, user, start) ==
    IF OfWeek(reports, user, start) # {} THEN reports
    ELSE reports \cup {[id |-> id, tenant |-> tenant, user |-> user, start |-> start,
                        status |-> "SUBMITTED", edits |-> 0, seen |-> 0]}

\* update: by its owner, whatever its status, which it keeps.  0 is no new start;
\* a start that is taken is refused by the look or by the index.
UpdateAnswer(reports, r, start) ==
    LET taken == {other \in OfWeek(reports, r.user, start) : other.id # r.id} IN
    CASE start = 0 \/ taken = {}                 -> "done"
      [] \E other \in taken : other.tenant = r.tenant -> "conflict"
      [] OTHER                                   -> "error"
ReportUpdated(reports, r, start) ==
    IF UpdateAnswer(reports, r, start) # "done" THEN reports
    ELSE (reports \ {r}) \cup {[r EXCEPT !.start = IF start = 0 THEN @ ELSE start, !.edits = @ + 1]}

\* review: either way; seen is the edit the reviewer had before them.
ReportReviewed(reports, r, status) ==
    (reports \ {r}) \cup {[r EXCEPT !.status = status, !.seen = IF status = "REVIEWED" THEN r.edits ELSE 0]}

-----------------------------------------------------------------------------
\* Two users, one of them in both tenants; what up to four calls leave.

Staff == {<<"t1", "ann">>, <<"t2", "ann">>, <<"t1", "bob">>}
WeekStarts  == {1, 4, 8}
ReportCalls(reports, id) ==
    {ReportSubmitted(reports, id, s[1], s[2], d) : s \in Staff, d \in WeekStarts}
    \cup {ReportUpdated(reports, r, d) : r \in reports, d \in {0} \cup WeekStarts}
    \cup {ReportReviewed(reports, r, status) : r \in reports, status \in {"SUBMITTED", "REVIEWED"}}
ReportsAfter(n) ==
    LET after[i \in 0 .. n] == IF i = 0 THEN {{}} ELSE UNION {ReportCalls(reports, i) : reports \in after[i - 1]}
    IN  after[n]

\* Nobody has two reports that start on a day; but two that share days, since a
\* week may start on any.
ASSUME OneReportOfAStart ==
    \A reports \in ReportsAfter(4) : \A r, s \in reports : r.user = s.user /\ r.start = s.start => r = s
ASSUME WeeksMayShareDays ==
    \E reports \in ReportsAfter(2) : \E r, s \in reports :
        r # s /\ r.user = s.user /\ r.tenant = s.tenant /\ WeekOf(r.start) \cap WeekOf(s.start) # {}

\* A member of two tenants reports a week to one of them: submit says that there is
\* a report, which the tenant does not have, and update passes its own look and
\* fails at the index.
ASSUME OneWeekInOneTenant ==
    \A reports \in ReportsAfter(2) :
        (\E r \in reports : r.tenant = "t1" /\ r.user = "ann" /\ r.start = 1) =>
            ReportSubmitted(reports, 9, "t2", "ann", 1) = reports
ASSUME LookKnowsTheTenant ==
    /\ \E reports \in ReportsAfter(2) : \E r \in reports : UpdateAnswer(reports, r, 1) = "error"
    /\ \A reports \in ReportsAfter(2) : (\A r, s \in reports : r.tenant = s.tenant) =>
          \A r \in reports, d \in WeekStarts : UpdateAnswer(reports, r, d) # "error"

\* "REVIEWED" says nothing of what was read: the owner may change the notes and the
\* week of a report after its review.
ASSUME ReviewedAndChanged ==
    \E reports \in ReportsAfter(3) : \E r \in reports : r.status = "REVIEWED" /\ r.seen < r.edits
=============================================================================
