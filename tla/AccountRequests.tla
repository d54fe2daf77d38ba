--------------------------- MODULE AccountRequests --------------------------
(***************************************************************************)
(* Requests for a change of e-mail address: a user asks, the platform      *)
(* administrator approves or rejects                                       *)
(* (modules/account-requests/account-requests.service.ts).  A call reads   *)
(* and decides, and writes later; several are in flight.                   *)
(***************************************************************************)
EXTENDS Integers, Sequences, FiniteSets

Pending(db)    == {n \in DOMAIN db.requests : db.requests[n].status = "PENDING"}
Owns(db, u, e) == \E v \in DOMAIN db.email : v # u /\ db.email[v] = e

\* What a call finds before it writes anything.
MayCreate(db, u, to) ==
    /\ to # db.email[u] /\ ~Owns(db, u, to)
    /\ \A n \in Pending(db) : db.requests[n].by # u /\ db.requests[n].to # to
MayReview(db, n) == n \in Pending(db)

\* The row a call creates, and the two ways a request is closed.
Created(db, u, from, to) == [db EXCEPT !.requests = Append(@, [by |-> u, from |-> from, to |-> to, status |-> "PENDING"])]
Approvable(db, n) == ~Owns(db, db.requests[n].by, db.requests[n].to)
Approved(db, n)   == [db EXCEPT !.email[db.requests[n].by] = db.requests[n].to, !.requests[n].status = "COMPLETED"]
Rejected(db, n)   == [db EXCEPT !.requests[n].status = "REJECTED"]

\* The steps of call k: the checks, which also read the address in use, and the write.
Look(s, k, c) ==
    IF \/ c.op = "create" /\ MayCreate(s.db, c.by, c.to)
       \/ c.op \in {"approve", "reject"} /\ MayReview(s.db, c.n)
    THEN [s EXCEPT !.at[k] = "going", !.from[k] = IF c.op = "create" THEN s.db.email[c.by] ELSE @]
    ELSE [s EXCEPT !.at[k] = "refused"]
Write(s, k, c) ==
    IF c.op = "approve" /\ ~Approvable(s.db, c.n) THEN [s EXCEPT !.at[k] = "refused"]
    ELSE [s EXCEPT !.at[k] = "done",
                   !.db = CASE c.op = "create"  -> Created(@, c.by, s.from[k], c.to)
                            [] c.op = "approve" -> Approved(@, c.n)
                            [] c.op = "reject"  -> Rejected(@, c.n)]

\* What calls leave whose steps come in an order: it mentions each of them twice.
Handled(start, calls, order) ==
    LET after[i \in 0 .. Len(order)] ==
            IF i = 0 THEN [db |-> start, at |-> [k \in DOMAIN calls |-> "sent"], from |-> [k \in DOMAIN calls |-> 0]]
            ELSE LET s == after[i - 1]
                     k == order[i]
                 IN  CASE s.at[k] = "sent"  -> Look(s, k, calls[k])
                       [] s.at[k] = "going" -> Write(s, k, calls[k])
                       [] OTHER -> s
    IN  after[Len(order)]

-----------------------------------------------------------------------------
\* Two accounts and a third address.  Four calls in turn from nothing, and two that
\* overlap, with none, one or two requests pending.

Mailbox == 1 .. 3
OwnBox  == [u \in 1 .. 2 |-> u]
ReqCall == [op : {"create"}, by : 1 .. 2, to : Mailbox] \cup [op : {"approve", "reject"}, n : 1 .. 2]
AskFor(u, to) == [by |-> u, from |-> u, to |-> to, status |-> "PENDING"]
NoAsk   == [email |-> OwnBox, requests |-> << >>]
AskOnly == [NoAsk EXCEPT !.requests = << AskFor(1, 3) >>]
AskBoth == {[NoAsk EXCEPT !.requests = << AskFor(1, 3), AskFor(2, to) >>] : to \in {1, 3}}
TwoInTurn == << 1, 1, 2, 2, 3, 3, 4, 4 >>
Mixed     == {<< 1, 2, 1, 2 >>, << 1, 2, 2, 1 >>, << 1, 1, 2, 2 >>}

\* The completed requests of a user, in the order in which they were made, lead from
\* the address the account had to the one it has.
Explained(db) ==
    \A u \in 1 .. 2 :
        LET chain == SelectSeq(db.requests, LAMBDA r : r.by = u /\ r.status = "COMPLETED")
            end   == IF chain = << >> THEN OwnBox[u] ELSE chain[Len(chain)].to
        IN  /\ db.email[u] = end
            /\ \A i \in DOMAIN chain : chain[i].from = (IF i = 1 THEN OwnBox[u] ELSE chain[i - 1].to)
OneClaim(db) == \A n, m \in Pending(db) :
                   n # m => db.requests[n].by # db.requests[m].by /\ db.requests[n].to # db.requests[m].to

\* In turn, a user has one pending request and an address one claim, and the
\* requests explain the addresses.
ASSUME RequestsInTurn ==
    \A calls \in [1 .. 4 -> ReqCall] :
        LET db == Handled(NoAsk, calls, TwoInTurn).db IN OneClaim(db) /\ Explained(db)

\* However two calls overlap, no address has two accounts, and an account has no
\* address that its user did not ask for.
ASSUME AddressesAreDistinct ==
    \A start \in {NoAsk, AskOnly} \cup AskBoth, calls \in [1 .. 2 -> ReqCall], order \in Mixed :
        LET db == Handled(start, calls, order).db IN
        /\ db.email[1] # db.email[2]
        /\ \A u \in 1 .. 2 : \/ db.email[u] = u
                             \/ \E n \in DOMAIN db.requests :
                                   db.requests[n].by = u /\ db.requests[n].to = db.email[u]

\* Overlapping, a user or an address gets two pending requests, and a request that is
\* rejected while it is being approved reads REJECTED with the address changed.
ASSUME ClaimedTwice ==
    \E calls \in [1 .. 2 -> ReqCall], order \in Mixed : ~OneClaim(Handled(NoAsk, calls, order).db)
ASSUME RejectedAndApplied ==
    \E calls \in [1 .. 2 -> ReqCall], order \in Mixed :
        LET s == Handled(AskOnly, calls, order) IN
        s.at = << "done", "done" >> /\ s.db.requests[1].status = "REJECTED" /\ s.db.email[1] = 3

\* A request whose address another account took since stays pending, and its user can
\* ask for nothing else, until it is rejected.
ASSUME TakenSince ==
    LET taken == [AskOnly EXCEPT !.email[2] = 3] IN
    \A c \in ReqCall \ [op : {"reject"}, n : {1}] :
        LET s == Handled(taken, << c >>, << 1, 1 >>) IN
        /\ s.db.requests[1].status = "PENDING"
        /\ c.op = "create" /\ c.by = 1 => s.at[1] = "refused"
=============================================================================
