------------------------------- MODULE Forms --------------------------------
(***************************************************************************)
(* Forms that are bundled under a customer ticket, and the numbers (REFF)  *)
(* of their submissions (modules/forms/forms.service.ts), as functions.    *)
(* A form has a parent ("" is none), is a ticket or not and is published   *)
(* or not; a submission is its form, its number and its sender.            *)
(***************************************************************************)
EXTENDS Integers, FiniteSets, Sequences, TLC

\* create and update by assertParentForm: a parent is a ticket, and no form is its
\* own parent.  A form that stops being a ticket keeps the forms linked to it.
ParentAccepted(forms, f, parent) == parent = "" \/ (forms[parent].ticket /\ parent # f)
FormUpdated(forms, f, parent, ticket) ==
    IF ParentAccepted(forms, f, parent)
    THEN [forms EXCEPT ![f].parent = parent, ![f].ticket = ticket] ELSE forms

\* submit: the submission that findFirst gives for a number is any one that has
\* it, since the query asks for no order.
Bearers(sent, ref) == {i \in DOMAIN sent : sent[i].ref = ref}

BundleAccepted(forms, f, sent, parent) ==
    IF forms[f].parent # "" THEN sent[parent].form = forms[f].parent
    ELSE forms[sent[parent].form].ticket

\* The numbers given so far: the counter is raised in the submission's transaction,
\* and only for a form that is not bound to a ticket.  (No form is removed here,
\* which would take its submissions away and leave the counter.)
NumbersGiven(forms, sent) == Cardinality({sent[i].ref : i \in DOMAIN sent})

\* What submit may leave: a refusal leaves `sent` as it is.  0 is a submission
\* that names no ticket.
Submitted(forms, f, sent, ref, by) ==
    LET bound == forms[f].parent # ""
        number == IF bound THEN ref ELSE NumbersGiven(forms, sent) + 1
        next   == Append(sent, [form |-> f, ref |-> number, by |-> by])
    IN  CASE ~forms[f].published \/ (bound /\ ref = 0) -> {sent}
          [] forms[f].published /\ ~bound /\ ref = 0   -> {next}
          [] forms[f].published /\ ref # 0 ->
                {IF BundleAccepted(forms, f, sent, parent) THEN next ELSE sent : parent \in Bearers(sent, ref)}
                    \cup (IF Bearers(sent, ref) = {} THEN {sent} ELSE {})

\* listSubmissions shows those of a ticket form to everybody; getSubmission does not.
SubmissionListed(forms, s, u) == u.manager \/ forms[s.form].ticket \/ s.by = u.id
SubmissionOpens(s, u)         == u.manager \/ s.by = u.id

-----------------------------------------------------------------------------
\* A ticket, two forms linked to it, a form linked to nothing, and what can have
\* been sent after up to three submissions by two people.

Form(parent, ticket) == [parent |-> parent, ticket |-> ticket, published |-> TRUE]
Desk  == "ticket" :> Form("", TRUE) @@ "visit" :> Form("ticket", FALSE)
            @@ "part" :> Form("ticket", FALSE) @@ "note" :> Form("", FALSE)
Senders == {"ann", "bob"}

SentAfter(forms, n) ==
    LET after[i \in 0 .. n] ==
            IF i = 0 THEN {<< >>}
            ELSE UNION {Submitted(forms, f, sent, ref, by) :
                            f \in DOMAIN forms, sent \in after[i - 1], ref \in 0 .. i, by \in Senders}
    IN  after[n]

\* What is sent of an unbound form has a number nobody else has had before it, and
\* what is sent of a bound form has that of a ticket sent before.
ASSUME NumbersAreTickets ==
    \A sent \in SentAfter(Desk, 3) : \A i \in DOMAIN sent :
        IF Desk[sent[i].form].parent = "" THEN \A j \in 1 .. i - 1 : sent[j].ref # sent[i].ref
        ELSE \E j \in 1 .. i - 1 : sent[j].form = "ticket" /\ sent[j].ref = sent[i].ref

\* "Single ticket number for the whole bundle": once one linked form is sent, the
\* next under the same number is accepted or refused by whichever row is found.
ASSUME SecondFormMayBeRefused ==
    \E sent \in SentAfter(Desk, 2) :
        /\ \E i \in DOMAIN sent : sent[i].form = "ticket" /\ sent[i].ref = 1
        /\ Cardinality(Submitted(Desk, "part", sent, 1, "ann")) = 2

\* The first is always accepted.
ASSUME FirstFormIsBundled ==
    \A sent \in SentAfter(Desk, 2) : \A i \in DOMAIN sent :
        sent[i].form = "ticket" /\ Bearers(sent, sent[i].ref) = {i} =>
            sent \notin Submitted(Desk, "visit", sent, sent[i].ref, "bob")

\* Two tickets may be made each other's parent; nobody can then send the first of
\* either, nor of what is linked to them.
ASSUME RoundOfParentsIsStuck ==
    LET one == FormUpdated(FormUpdated(Desk, "note", "", TRUE), "note", "ticket", TRUE)
        two == FormUpdated(one, "ticket", "note", TRUE)
    IN  two["ticket"].parent = "note" /\ two["note"].parent = "ticket" /\ SentAfter(two, 3) = {<< >>}

\* A form that is a ticket no more keeps its bundle, and takes no other.
ASSUME LinkedFormsStayLinked ==
    LET plain == FormUpdated(Desk, "ticket", "", FALSE) IN
    \A sent \in SentAfter(Desk, 1) : \A i \in DOMAIN sent :
        sent[i].form = "ticket" =>
            /\ sent \notin Submitted(plain, "visit", sent, sent[i].ref, "ann")
            /\ Submitted(plain, "note", sent, sent[i].ref, "ann") = {sent}

\* Who may bundle under another's ticket finds it in the list and cannot open it.
ASSUME ListedTicketDoesNotOpen ==
    \A sent \in SentAfter(Desk, 1) : \A i \in DOMAIN sent :
        sent[i].form = "ticket" /\ sent[i].by = "ann" =>
            LET bob == [id |-> "bob", manager |-> FALSE] IN
            SubmissionListed(Desk, sent[i], bob) /\ ~SubmissionOpens(sent[i], bob)
=============================================================================
