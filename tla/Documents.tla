----------------------------- MODULE Documents ------------------------------
(***************************************************************************)
(* Which documents a member sees in the list and which may be opened or    *)
(* changed (modules/documents/documents.service.ts), and how the list is   *)
(* cut into pages (common/pagination/pagination.util.ts).                  *)
(*                                                                         *)
(* A member has admin and update (the permission document.update), and     *)
(* branches, AllBranches for one without a limit; an administrator has no  *)
(* limit.  grants maps the members a document was granted to.              *)
(***************************************************************************)
EXTENDS Integers, FiniteSets, Sequences

AllBranches == {"*"}
Limited(u)  == u.branches # AllBranches

\* assertBranchScope: a record of no branch is everybody's.
InScope(branch, u) == branch = "" \/ ~Limited(u) \/ branch \in u.branches

\* list: a limited member's branches take the place of the branch asked for, and
\* leave out what has no branch.
DocumentListed(doc, u, asked) ==
    /\ IF Limited(u) THEN doc.branch \in u.branches ELSE asked \in {"", doc.branch}
    /\ \/ u.admin \/ u.update
       \/ doc.creator = u.id \/ u.id \in DOMAIN doc.grants
       \/ Limited(u) /\ doc.branch \in u.branches

\* assertDocumentAccess and assertDocumentWriteAccess, which differ in the grant.
DocumentOpens(doc, u, permissions) ==
    IF u.admin \/ u.update THEN u.admin \/ InScope(doc.branch, u)
    ELSE doc.creator = u.id \/ (u.id \in DOMAIN doc.grants /\ doc.grants[u.id] \in permissions)
MayOpen(doc, u)  == DocumentOpens(doc, u, {"READ", "WRITE"})
MayWrite(doc, u) == DocumentOpens(doc, u, {"WRITE"})

\* The routes that write ask for document.update first.
WriteAccepted(doc, u) == (u.admin \/ u.update) /\ MayWrite(doc, u)

\* grantAccess: by the owner, to somebody else, once.
Granted(doc, by, to, permission) ==
    IF doc.creator = by /\ to # by /\ to \notin DOMAIN doc.grants
    THEN [doc EXCEPT !.grants = [m \in DOMAIN doc.grants \cup {to} |->
                                    IF m = to THEN permission ELSE doc.grants[m]]]
    ELSE doc

-----------------------------------------------------------------------------
\* paginate over what findMany gives with take limit + 1, after the cursor.

Clamped(limit) == IF limit < 1 THEN 1 ELSE IF limit > 200 THEN 200 ELSE limit
PageAfter(rows, from, limit) ==
    LET fetched == SubSeq(rows, from + 1, Len(rows))
        n       == IF Len(fetched) > limit THEN limit ELSE Len(fetched)
    IN  [items |-> SubSeq(fetched, 1, n), next |-> IF Len(fetched) > limit THEN from + n ELSE 0]

\* What one reads who follows the cursors from the first page to the last.
PagesRead(rows, limit) ==
    LET readFrom[from \in 0 .. Len(rows)] ==
            LET page == PageAfter(rows, from, limit)
            IN  page.items \o IF page.next = 0 THEN << >> ELSE readFrom[page.next]
    IN  readFrom[0]

-----------------------------------------------------------------------------
\* Two branches, three members of every kind, documents with at most a grant.

Viewers == {v \in [id : {"ann", "bob"}, admin : BOOLEAN, update : BOOLEAN,
                   branches : {AllBranches, {}, {"b1"}, {"b1", "b2"}}] : v.admin => ~Limited(v)}
Papers  == [branch : {"", "b1", "b2"}, creator : {"ann", "cid"},
            grants : {<< >>} \cup [{"bob"} -> {"READ", "WRITE"}]]

\* Every page but the last is full, the last is never empty, and together they are
\* the list: "nextCursor is only emitted when another page actually exists".
ASSUME PagesAreTheList ==
    \A n \in 0 .. 7, asked \in 0 .. 8 :
        LET rows == [i \in 1 .. n |-> i]
            limit == Clamped(asked)
        IN  /\ PagesRead(rows, limit) = rows
            /\ \A from \in 0 .. n : LET page == PageAfter(rows, from, limit) IN
                  /\ page.next # 0 => Len(page.items) = limit /\ PageAfter(rows, page.next, limit).items # << >>
                  /\ page.next = 0 => from + Len(page.items) = n

\* A member of no branch limit and without document.update finds exactly what may
\* be opened; one with document.update finds nothing that may not be opened.
ASSUME ListIsWhatOpens ==
    \A doc \in Papers, v \in Viewers :
        /\ ~Limited(v) => (DocumentListed(doc, v, "") <=> MayOpen(doc, v))
        /\ v.update /\ DocumentListed(doc, v, "") => MayOpen(doc, v)

\* A member limited to a branch is shown its documents and refused each one that
\* is neither one's own nor granted; and does not find one's own of no branch.
ASSUME ListedIsRefused ==
    \E doc \in Papers, v \in Viewers : DocumentListed(doc, v, "") /\ ~MayOpen(doc, v)
ASSUME OwnIsNotListed ==
    \E doc \in Papers, v \in Viewers : doc.creator = v.id /\ ~DocumentListed(doc, v, "") /\ MayOpen(doc, v)

\* "Grants READ or WRITE access": a grant to write changes nothing about who may
\* write, since whoever has document.update is not asked for one.
ASSUME WriteGrantsAreNotUsed ==
    \A doc \in Papers, v \in Viewers, permission \in {"READ", "WRITE"} :
        WriteAccepted(Granted(doc, doc.creator, "bob", permission), v) = WriteAccepted(doc, v)

\* A grant opens its document to the member and to nobody else, and is not changed
\* by being given again.
ASSUME GrantOpensToOne ==
    \A doc \in Papers, v \in Viewers, p, q \in {"READ", "WRITE"} :
        LET once == Granted(doc, doc.creator, "bob", p) IN
        /\ Granted(once, doc.creator, "bob", q) = once
        /\ v.id # "bob" => MayOpen(once, v) = MayOpen(doc, v)
        /\ v.id = "bob" /\ ~v.admin /\ ~v.update => MayOpen(once, v)
=============================================================================
