--------------------------- MODULE SchoolCalendar ---------------------------
(***************************************************************************)
(* The sessions and terms of a school and which of them is the current one *)
(* (modules/school/classes.service.ts).  The code clears the mark in one   *)
(* statement and sets it in another, under no transaction; here a request  *)
(* is the sequence of its statements, and two requests are in flight.      *)
(*                                                                         *)
(* rows maps a name to its kind, the session it belongs to and the mark; a *)
(* request names a row, and asks for the mark, for none, or says nothing   *)
(* of it.                                                                  *)
(***************************************************************************)
EXTENDS Integers, Sequences, FiniteSets, TLC

\* The schemas of the requests: a field with a default is never missing.  The
\* library fills it in also where `partial` makes it optional.
MarkAsked(request) == request.mark = "yes"

Statements(request) == IF MarkAsked(request) THEN <<"clear", "write">> ELSE <<"write">>

\* updateMany over the kind, in all of the tenant's sessions; then update of a row
\* that is there, or create.  (Two creations of one name at a time are left out.)
Performed(rows, request, statement) ==
    IF statement = "clear"
    THEN [n \in DOMAIN rows |-> IF rows[n].kind = request.kind
                                THEN [rows[n] EXCEPT !.current = FALSE] ELSE rows[n]]
    ELSE (request.name :> [kind |-> request.kind, of |-> request.of, current |-> MarkAsked(request)]) @@ rows

\* What is left when requests take their next statements in an order.
Left(rows, requests, order) ==
    LET taken[i \in DOMAIN order] == Cardinality({j \in 1 .. i : order[j] = order[i]})
        after[i \in 0 .. Len(order)] ==
            IF i = 0 THEN rows
            ELSE Performed(after[i - 1], requests[order[i]], Statements(requests[order[i]])[taken[i]])
    IN  after[Len(order)]

\* The orders of the statements of two requests.
Orders(requests) ==
    LET n(i) == Len(Statements(requests[i])) IN
    {o \in [1 .. n(1) + n(2) -> {1, 2}] : \A i \in {1, 2} : Cardinality({j \in DOMAIN o : o[j] = i}) = n(i)}
InTurn(order) == \A i, j \in DOMAIN order : i < j => order[i] = order[j] \/ \A k \in j .. Len(order) : order[k] = order[j]

\* createSubject looks for the code as it was typed and stores it in capitals; the
\* unique index is the last to refuse.
SubjectCreated(codes, code, upper) ==
    IF code \in codes \/ upper \in codes THEN codes ELSE codes \cup {upper}
AlreadyKnown(codes, code) == code \in codes

-----------------------------------------------------------------------------
\* Two sessions with a term each, one of them current, and requests for both kinds.

Period(kind, of, current) == [kind |-> kind, of |-> of, current |-> current]
School == "s1" :> Period("session", "", TRUE)  @@ "s2" :> Period("session", "", FALSE)
       @@ "t1" :> Period("term", "s1", TRUE)   @@ "t2" :> Period("term", "s2", FALSE)
Names    == {<<"s1", "session", "">>, <<"s2", "session", "">>, <<"t2", "term", "s2">>, <<"t3", "term", "s2">>}
Requests == {[name |-> n[1], kind |-> n[2], of |-> n[3], mark |-> m] : n \in Names, m \in {"yes", "no", "unsaid"}}
Marked(rows, kind) == {n \in DOMAIN rows : rows[n].kind = kind /\ rows[n].current}

\* One after the other, requests leave at most one current row of a kind; and just
\* the last that asked to be, unless it was then told otherwise.
ASSUME InTurnOneIsCurrent ==
    \A r, s \in Requests : \A order \in Orders(<<r, s>>) :
        LET after == Left(School, <<r, s>>, order)
            last  == <<r, s>>[order[Len(order)]]
        IN  InTurn(order) => /\ \A kind \in {"session", "term"} : Cardinality(Marked(after, kind)) <= 1
                             /\ MarkAsked(last) => Marked(after, last.kind) = {last.name}

\* Overlapping, both may end up current; and a failure between the statements of
\* one leaves the school without.
ASSUME OverlapLeavesTwo ==
    \E r, s \in Requests : \E order \in Orders(<<r, s>>) :
        Cardinality(Marked(Left(School, <<r, s>>, order), r.kind)) = 2
ASSUME FailureLeavesNone ==
    \E r \in Requests : Marked(Left(School, <<r>>, <<1>>), r.kind) = {}

\* Whatever was left, the next request for the mark sets it right.
ASSUME NextRequestHeals ==
    \A r, s, t \in Requests : \A order \in Orders(<<r, s>>) : MarkAsked(t) =>
        \A cut \in 0 .. Len(order) :
            Marked(Left(Left(School, <<r, s>>, SubSeq(order, 1, cut)), <<t>>, <<1, 1>>), t.kind) = {t.name}

\* A change of the current row that says nothing of the mark takes it away.
ASSUME UnsaidIsNo ==
    \A r \in Requests : r.mark = "unsaid" /\ r.name \in Marked(School, r.kind) =>
        Marked(Left(School, <<r>>, <<1>>), r.kind) = {}

\* The current term does not follow the current session: the pages that look for
\* the current term among those of the current session find none there.
ASSUME TermOfAnotherSession ==
    \E r \in Requests : LET after == Left(School, <<r>>, <<1, 1>>) IN
        /\ MarkAsked(r) /\ r.kind = "session"
        /\ \A t \in Marked(after, "term") : after[t].of \notin Marked(after, "session")

\* A code in small letters passes the check although the subject exists; the index
\* keeps it out.
ASSUME SmallLettersPassTheCheck ==
    LET Capitals(code) == IF code = "mth" THEN "MTH" ELSE code IN
    /\ \A codes \in SUBSET {"MTH", "ENG"}, code \in {"mth", "MTH", "ENG"} :
          \A c \in SubjectCreated(codes, code, Capitals(code)) : c = Capitals(c)
    /\ ~AlreadyKnown({"MTH"}, "mth") /\ SubjectCreated({"MTH"}, "mth", Capitals("mth")) = {"MTH"}
=============================================================================
