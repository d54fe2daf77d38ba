----------------------------- MODULE SchoolFees -----------------------------
(***************************************************************************)
(* The fee ledger of one school (modules/school/invoices.service.ts) and   *)
(* the removal of students, which deletes or archives what the ledger      *)
(* hangs on (delete in modules/school/students.service.ts).                *)
(*                                                                         *)
(* Numbers are issued by counting rows: the handler counts, and creates    *)
(* the row in a later statement, where a unique index refuses a number     *)
(* that is taken.  A payment is checked against an invoice that was read   *)
(* before, and the invoice is then written from that reading.              *)
(***************************************************************************)
EXTENDS Integers, FiniteSets

CONSTANTS
    Student, Removable,   \* Removable: the students an administrator may delete
    Invoice,              \* bound: the invoice rows there will be (cuid)
    Total,                \* what an invoice may amount to; 0 after a full discount
    Req,                  \* requests in flight at a time
    MaxReceipt,           \* bound on the receipt numbers
    NoStudent

ASSUME FeesAssumption ==
    /\ IsFiniteSet(Invoice)
    /\ Total \subseteq Nat
    /\ Removable \subseteq Student /\ NoStudent \notin Student
    /\ MaxReceipt \in Nat

VARIABLES
    student,    \* "ACTIVE", "WITHDRAWN" or "GONE"
    inv,        \* inv[k]: the invoice row k
    receipts,   \* <<n, k>>: the payment of receipt number n, for invoice k
    received,   \* history: received[k] is the sum of the payments of k
    call,       \* the handlers in flight
    mixed       \* history: two handlers have overlapped

vars == <<student, inv, receipts, received, call, mixed>>

Row  == [status : {"NONE", "UNPAID", "PARTIAL", "PAID", "GONE"}, of : Student \cup {NoStudent},
         number : Nat, total : Nat, paid : Nat, balance : Nat]
Idle == [kind |-> "idle"]

Calls ==
    [kind : {"number"}, rest : SUBSET Student, total : Total]
    \cup [kind : {"create"}, rest : SUBSET Student, of : Student, total : Total, n : Nat]
    \cup [kind : {"receipt"}, k : Invoice, amount : Nat, paid : Nat]
    \cup [kind : {"pay"}, k : Invoice, amount : Nat, paid : Nat, n : 1 .. MaxReceipt]
    \cup [kind : {"remove", "archive"}, of : Student]

TypeOK ==
    /\ student \in [Student -> {"ACTIVE", "WITHDRAWN", "GONE"}]
    /\ inv \in [Invoice -> Row]
    /\ receipts \subseteq (1 .. MaxReceipt) \X Invoice
    /\ received \in [Invoice -> Nat]
    /\ call \in [Req -> Calls \cup {Idle}]
    /\ mixed \in BOOLEAN

NoRow == [status |-> "NONE", of |-> NoStudent, number |-> 0, total |-> 0, paid |-> 0, balance |-> 0]

Init ==
    /\ student = [s \in Student |-> "ACTIVE"]
    /\ inv = [k \in Invoice |-> NoRow]
    /\ receipts = {}
    /\ received = [k \in Invoice |-> 0]
    /\ call = [p \in Req |-> Idle]
    /\ mixed = FALSE

InFlight    == {p \in Req : call[p] # Idle}
Mix         == mixed' = (mixed \/ InFlight # {})
MayBegin(p) == call[p] = Idle /\ Mix
Go(p, c)    == call' = [call EXCEPT ![p] = c]
End(p)      == Go(p, Idle)

Rows        == {k \in Invoice : inv[k].status \notin {"NONE", "GONE"}}
RowsOf(s)   == {k \in Rows : inv[k].of = s}
InvoiceNumbers == {inv[k].number : k \in Rows}
ReceiptNumbers == {r[1] : r \in receipts}

-----------------------------------------------------------------------------
\* Invoices: a class in a loop without a transaction, or one student.

GenerateRead(p, total) ==
    /\ MayBegin(p)
    /\ LET class == {s \in Student : student[s] = "ACTIVE"} IN
       class # {} /\ Go(p, [kind |-> "number", rest |-> class, total |-> total])
    /\ UNCHANGED <<student, inv, receipts, received>>

InvoiceRead(p, s, total) ==
    /\ MayBegin(p)
    /\ student[s] # "GONE"
    /\ Go(p, [kind |-> "number", rest |-> {s}, total |-> total])
    /\ UNCHANGED <<student, inv, receipts, received>>

\* count + 1
NextNumber(rows) == Cardinality(rows) + 1

InvoiceCount(p) ==
    /\ call[p].kind = "number"
    /\ \E s \in call[p].rest :
         Go(p, [kind |-> "create", rest |-> call[p].rest \ {s}, of |-> s,
                total |-> call[p].total, n |-> NextNumber(Rows)])
    /\ UNCHANGED <<student, inv, receipts, received, mixed>>

\* A number that is taken, or a student who is gone, throws: the students of the
\* class that are left get no invoice.
InvoiceCreate(p) ==
    /\ call[p].kind = "create"
    /\ LET c == call[p] IN
       \/ /\ c.n \notin InvoiceNumbers /\ student[c.of] # "GONE"
          /\ \E k \in Invoice :
               /\ inv[k].status = "NONE"
               /\ inv' = [inv EXCEPT ![k] = [status |-> "UNPAID", of |-> c.of, number |-> c.n,
                                             total |-> c.total, paid |-> 0, balance |-> c.total]]
          /\ IF c.rest = {} THEN End(p)
             ELSE Go(p, [kind |-> "number", rest |-> c.rest, total |-> c.total])
       \/ /\ c.n \in InvoiceNumbers \/ student[c.of] = "GONE"
          /\ End(p)
          /\ UNCHANGED inv
    /\ UNCHANGED <<student, receipts, received, mixed>>

-----------------------------------------------------------------------------
\* recordPayment.

\* 0 < amount <= invoice.balance
Payable(k) == 1 .. inv[k].balance

PayRead(p, k) ==
    /\ MayBegin(p)
    /\ k \in Rows
    /\ \E amount \in Payable(k) :
         Go(p, [kind |-> "receipt", k |-> k, amount |-> amount, paid |-> inv[k].paid])
    /\ UNCHANGED <<student, inv, receipts, received>>

\* (Mutant of ReceiptFor: the invoices are counted instead of the payments.)
ReceiptByInvoices(k) == NextNumber(Rows)

ReceiptFor(k) == NextNumber(receipts)

PayCount(p) ==
    /\ call[p].kind = "receipt"
    /\ LET c == call[p] IN
       /\ ReceiptFor(c.k) <= MaxReceipt
       /\ Go(p, [kind |-> "pay", k |-> c.k, amount |-> c.amount, paid |-> c.paid,
                 n |-> ReceiptFor(c.k)])
    /\ UNCHANGED <<student, inv, receipts, received, mixed>>

\* (Mutant of Settled: one payment pays everything.)
SettledByLast(row, paid) ==
    [row EXCEPT !.paid = row.total, !.balance = 0, !.status = "PAID"]

\* The invoice as the payment writes it: from the reading, not from the row.
Settled(row, paid) ==
    LET balance == IF row.total > paid THEN row.total - paid ELSE 0 IN
    [row EXCEPT !.paid = paid, !.balance = balance,
                !.status = IF balance = 0 THEN "PAID" ELSE "PARTIAL"]

\* One transaction; a receipt number that is taken, or an invoice that is gone,
\* rolls it back.
PayCommit(p) ==
    /\ call[p].kind = "pay"
    /\ LET c == call[p] IN
       \/ /\ c.n \notin ReceiptNumbers /\ c.k \in Rows
          /\ receipts' = receipts \cup {<<c.n, c.k>>}
          /\ received' = [received EXCEPT ![c.k] = @ + c.amount]
          /\ inv' = [inv EXCEPT ![c.k] = Settled(@, c.paid + c.amount)]
       \/ /\ c.n \in ReceiptNumbers \/ c.k \notin Rows
          /\ UNCHANGED <<receipts, received, inv>>
    /\ End(p)
    /\ UNCHANGED <<student, mixed>>

-----------------------------------------------------------------------------
\* students.delete.

\* (Mutant of HasRecords: the invoices are not counted.)
HasResults(s) == FALSE

\* student._count.invoices > 0
HasRecords(s) == RowsOf(s) # {}

RemoveRead(p, s) ==
    /\ MayBegin(p)
    /\ s \in Removable /\ student[s] # "GONE"
    /\ Go(p, [kind |-> IF HasRecords(s) THEN "archive" ELSE "remove", of |-> s])
    /\ UNCHANGED <<student, inv, receipts, received>>

\* The foreign keys cascade from the student to the invoices and their payments.
RemoveCommit(p) ==
    /\ call[p].kind = "remove"
    /\ LET s == call[p].of IN
       /\ student' = [student EXCEPT ![s] = "GONE"]
       /\ inv' = [k \in Invoice |-> IF k \in RowsOf(s) THEN [NoRow EXCEPT !.status = "GONE"]
                                    ELSE inv[k]]
       /\ receipts' = {r \in receipts : r[2] \notin RowsOf(s)}
    /\ End(p)
    /\ UNCHANGED <<received, mixed>>

ArchiveCommit(p) ==
    /\ call[p].kind = "archive"
    /\ LET s == call[p].of IN
       student' = IF student[s] = "GONE" THEN student ELSE [student EXCEPT ![s] = "WITHDRAWN"]
    /\ End(p)
    /\ UNCHANGED <<inv, receipts, received, mixed>>

-----------------------------------------------------------------------------

Begin(p) ==
    \/ \E total \in Total \ {0} : GenerateRead(p, total)
    \/ \E s \in Student, total \in Total : InvoiceRead(p, s, total)
    \/ \E k \in Invoice : PayRead(p, k)
    \/ \E s \in Student : RemoveRead(p, s)

Proceed(p) ==
    \/ InvoiceCount(p) \/ InvoiceCreate(p) \/ PayCount(p) \/ PayCommit(p)
    \/ RemoveCommit(p) \/ ArchiveCommit(p)

Next == \E p \in Req : Begin(p) \/ Proceed(p)

Spec == Init /\ [][Next]_vars

-----------------------------------------------------------------------------

\* An invoice says that exactly its payments were paid.
PaidIsReceived == \A k \in Rows : inv[k].paid = received[k]

\* ... and it does as long as no two handlers have overlapped: every payment is
\* added to what was paid before (recordPayment).
PaidWasReceived == ~mixed => PaidIsReceived

\* However handlers overlap, no invoice claims money it has no payments for ...
PaidHasReceipts == \A k \in Rows : inv[k].paid <= received[k]

\* ... and each row adds up by itself: balance and status follow from what the
\* row says was paid, which never exceeds the total.
RowsAddUp ==
    \A k \in Rows :
      /\ inv[k].paid + inv[k].balance = inv[k].total
      /\ inv[k].status = "PAID" => inv[k].balance = 0
      /\ inv[k].status = "PARTIAL" => inv[k].paid > 0 /\ inv[k].balance > 0
      /\ inv[k].status = "UNPAID" => inv[k].paid = 0

\* Numbers stay without gaps as long as nobody was deleted, or no two handlers
\* have overlapped.
Gapless == ~mixed \/ \A s \in Student : student[s] # "GONE"

\* Then the next invoice and the next payment can be recorded: the number that
\* the count yields is free.  One gap in the numbers blocks every later row for good.
NextNumbersAreFree ==
    Gapless /\ InFlight = {}
      => NextNumber(Rows) \notin InvoiceNumbers /\ NextNumber(receipts) \notin ReceiptNumbers

\* "Soft-archive if records exist": without overlap, a receipt that was issued
\* stays on record.
ReceiptsAreKept == [][~mixed' => receipts \subseteq receipts']_vars
=============================================================================
