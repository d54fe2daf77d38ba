-------------------------- MODULE SchoolFeesProofs --------------------------
(***************************************************************************)
(* What SchoolFees promises for every set of students, invoices, amounts   *)
(* and requests: its type; however handlers overlap, rows that add up and  *)
(* claim no money without payments; without overlap, exact sums and        *)
(* receipts that stay; and numbers without gaps until somebody is removed   *)
(* while another handler is in flight.                                     *)
(***************************************************************************)
EXTENDS SchoolFees, FiniteSetTheorems, TLAPS

LEMMA CountsAreNatural ==
    ASSUME TypeOK
    PROVE  /\ IsFiniteSet(Rows) /\ Cardinality(Rows) \in Nat /\ NextNumber(Rows) \in Nat \ {0}
           /\ IsFiniteSet(receipts) /\ Cardinality(receipts) \in Nat
           /\ NextNumber(receipts) \in Nat \ {0}
<1>1. IsFiniteSet(Rows)
  BY FS_Subset, FeesAssumption DEF Rows
<1>2. IsFiniteSet((1 .. MaxReceipt) \X Invoice)
  <2>1. IsFiniteSet(1 .. MaxReceipt)
    BY FS_Interval, FeesAssumption
  <2>2. IsFiniteSet(Invoice)
    BY FeesAssumption
  <2> QED BY <2>1, <2>2, FS_Product
<1>3. IsFiniteSet(receipts)
  BY <1>2, FS_Subset DEF TypeOK
<1> QED BY <1>1, <1>3, FS_CardinalityType DEF NextNumber

LEMMA SettledType ==
    ASSUME NEW row \in Row, NEW paid \in Nat
    PROVE  Settled(row, paid) \in Row
<1> DEFINE balance == IF row.total > paid THEN row.total - paid ELSE 0
<1>1. balance \in Nat
  BY DEF Row
<1>2. Settled(row, paid) = [row EXCEPT !.paid = paid, !.balance = balance,
                              !.status = IF balance = 0 THEN "PAID" ELSE "PARTIAL"]
  BY DEF Settled
<1> HIDE DEF balance
<1> QED BY <1>1, <1>2 DEF Row

LEMMA CallTypes ==
    ASSUME TypeOK, NEW p \in Req
    PROVE  /\ call[p].kind = "number" =>
                call[p] \in [kind : {"number"}, rest : SUBSET Student, total : Total]
           /\ call[p].kind = "create" =>
                call[p] \in [kind : {"create"}, rest : SUBSET Student, of : Student,
                             total : Total, n : Nat]
           /\ call[p].kind = "receipt" =>
                call[p] \in [kind : {"receipt"}, k : Invoice, amount : Nat, paid : Nat]
           /\ call[p].kind = "pay" =>
                call[p] \in [kind : {"pay"}, k : Invoice, amount : Nat, paid : Nat,
                             n : 1 .. MaxReceipt]
           /\ call[p].kind \in {"remove", "archive"} => call[p].of \in Student
<1>1. call[p] \in Calls \cup {Idle}
  BY DEF TypeOK
<1> QED BY <1>1 DEF Calls, Idle

\* The state has its type; in particular every receipt number is positive.
THEOREM FeesTypeCorrect == Spec => []TypeOK
<1> USE FeesAssumption
<1>1. Init => TypeOK
  <2>1. Init => mixed \in BOOLEAN
    BY Zenon DEF Init
  <2> QED BY <2>1 DEF Init, TypeOK, Row, NoRow
<1>2. TypeOK /\ [Next]_vars => TypeOK'
  <2> SUFFICES ASSUME TypeOK, [Next]_vars PROVE TypeOK'
    OBVIOUS
  <2>0. \A p \in Req, c \in Calls \cup {Idle} : Go(p, c) => call' \in [Req -> Calls \cup {Idle}]
    BY DEF Go, TypeOK
  <2>e. \A p \in Req : End(p) => call' \in [Req -> Calls \cup {Idle}]
    BY <2>0 DEF End
  <2>m. \A p \in Req : MayBegin(p) => mixed' \in BOOLEAN
    BY Zenon DEF MayBegin, Mix
  <2>1. ASSUME NEW p \in Req, NEW total \in Total, GenerateRead(p, total) PROVE TypeOK'
    <3>1. \A S \in SUBSET Student : [kind |-> "number", rest |-> S, total |-> total] \in Calls
      BY DEF Calls
    <3>2. call' \in [Req -> Calls \cup {Idle}]
      BY <2>0, <2>1, <3>1 DEF GenerateRead
    <3> QED BY <2>m, <2>1, <3>2 DEF GenerateRead, TypeOK
  <2>2. ASSUME NEW p \in Req, NEW s \in Student, NEW total \in Total, InvoiceRead(p, s, total)
        PROVE  TypeOK'
    <3>1. [kind |-> "number", rest |-> {s}, total |-> total] \in Calls
      BY DEF Calls
    <3>2. call' \in [Req -> Calls \cup {Idle}]
      BY <2>0, <2>2, <3>1 DEF InvoiceRead
    <3> QED BY <2>m, <2>2, <3>2 DEF InvoiceRead, TypeOK
  <2>3. ASSUME NEW p \in Req, InvoiceCount(p) PROVE TypeOK'
    <3>1. call[p].rest \in SUBSET Student /\ call[p].total \in Total
      BY <2>3, CallTypes DEF InvoiceCount
    <3>2. \A s \in Student : [kind |-> "create", rest |-> call[p].rest \ {s}, of |-> s,
                              total |-> call[p].total, n |-> NextNumber(Rows)] \in Calls
      BY <3>1, CountsAreNatural DEF Calls
    <3>3. call' \in [Req -> Calls \cup {Idle}]
      BY <2>0, <2>3, <3>1, <3>2 DEF InvoiceCount
    <3> QED BY <2>3, <3>3 DEF InvoiceCount, TypeOK
  <2>4. ASSUME NEW p \in Req, InvoiceCreate(p) PROVE TypeOK'
    <3>1. /\ call[p].rest \in SUBSET Student /\ call[p].total \in Total
          /\ call[p].of \in Student /\ call[p].n \in Nat
      BY <2>4, CallTypes DEF InvoiceCreate
    <3>2. [status |-> "UNPAID", of |-> call[p].of, number |-> call[p].n,
           total |-> call[p].total, paid |-> 0, balance |-> call[p].total] \in Row
      BY <3>1 DEF Row
    <3>3. [kind |-> "number", rest |-> call[p].rest, total |-> call[p].total] \in Calls
      BY <3>1 DEF Calls
    <3>4. inv' \in [Invoice -> Row]
      BY <2>4, <3>2 DEF InvoiceCreate, TypeOK
    <3>5. call' \in [Req -> Calls \cup {Idle}]
      BY <2>0, <2>e, <2>4, <3>3 DEF InvoiceCreate
    <3> QED BY <2>4, <3>4, <3>5 DEF InvoiceCreate, TypeOK
  <2>5. ASSUME NEW p \in Req, NEW k \in Invoice, PayRead(p, k) PROVE TypeOK'
    <3>1. inv[k].paid \in Nat /\ Payable(k) \subseteq Nat
      BY DEF TypeOK, Row, Payable
    <3>2. \A amount \in Payable(k) :
            [kind |-> "receipt", k |-> k, amount |-> amount, paid |-> inv[k].paid] \in Calls
      BY <3>1 DEF Calls
    <3>3. call' \in [Req -> Calls \cup {Idle}]
      BY <2>0, <2>5, <3>2 DEF PayRead
    <3> QED BY <2>m, <2>5, <3>3 DEF PayRead, TypeOK
  <2>6. ASSUME NEW p \in Req, PayCount(p) PROVE TypeOK'
    <3>1. call[p].k \in Invoice /\ call[p].amount \in Nat /\ call[p].paid \in Nat
      BY <2>6, CallTypes DEF PayCount
    <3>2. ReceiptFor(call[p].k) \in 1 .. MaxReceipt
      BY <2>6, CountsAreNatural DEF PayCount, ReceiptFor
    <3>3. [kind |-> "pay", k |-> call[p].k, amount |-> call[p].amount, paid |-> call[p].paid,
           n |-> ReceiptFor(call[p].k)] \in Calls
      BY <3>1, <3>2 DEF Calls
    <3>4. call' \in [Req -> Calls \cup {Idle}]
      BY <2>0, <2>6, <3>3 DEF PayCount
    <3> QED BY <2>6, <3>4 DEF PayCount, TypeOK
  <2>7. ASSUME NEW p \in Req, PayCommit(p) PROVE TypeOK'
    <3>1. /\ call[p].k \in Invoice /\ call[p].amount \in Nat /\ call[p].paid \in Nat
          /\ call[p].n \in 1 .. MaxReceipt
      BY <2>7, CallTypes DEF PayCommit
    <3>2. Settled(inv[call[p].k], call[p].paid + call[p].amount) \in Row
      BY <3>1, SettledType DEF TypeOK
    <3>3. inv' \in [Invoice -> Row]
      BY <2>7, <3>2 DEF PayCommit, TypeOK
    <3>4. receipts' \subseteq (1 .. MaxReceipt) \X Invoice /\ received' \in [Invoice -> Nat]
      BY <2>7, <3>1 DEF PayCommit, TypeOK
    <3>5. call' \in [Req -> Calls \cup {Idle}]
      BY <2>e, <2>7 DEF PayCommit
    <3> QED BY <2>7, <3>3, <3>4, <3>5 DEF PayCommit, TypeOK
  <2>8. ASSUME NEW p \in Req, NEW s \in Student, RemoveRead(p, s) PROVE TypeOK'
    <3>1. \A kind \in {"remove", "archive"} : [kind |-> kind, of |-> s] \in Calls
      BY DEF Calls
    <3>2. call' \in [Req -> Calls \cup {Idle}]
      BY <2>0, <2>8, <3>1 DEF RemoveRead
    <3> QED BY <2>m, <2>8, <3>2 DEF RemoveRead, TypeOK
  <2>9. ASSUME NEW p \in Req, RemoveCommit(p) PROVE TypeOK'
    <3>1. call' \in [Req -> Calls \cup {Idle}]
      BY <2>e, <2>9 DEF RemoveCommit
    <3>2. [NoRow EXCEPT !.status = "GONE"] \in Row
      BY DEF NoRow, Row
    <3>3. inv' \in [Invoice -> Row]
      BY <2>9, <3>2 DEF RemoveCommit, TypeOK
    <3> QED BY <2>9, <3>1, <3>3 DEF RemoveCommit, TypeOK
  <2>10. ASSUME NEW p \in Req, ArchiveCommit(p) PROVE TypeOK'
    <3>1. call' \in [Req -> Calls \cup {Idle}]
      BY <2>e, <2>10 DEF ArchiveCommit
    <3> QED BY <2>10, <3>1 DEF ArchiveCommit, TypeOK
  <2>11. CASE UNCHANGED vars
    BY <2>11 DEF vars, TypeOK
  <2> QED BY <2>1, <2>2, <2>3, <2>4, <2>5, <2>6, <2>7, <2>8, <2>9, <2>10, <2>11
          DEF Next, Begin, Proceed
<1> QED BY <1>1, <1>2, PTL DEF Spec

-----------------------------------------------------------------------------
\* However handlers overlap.  A payment in flight has read an invoice that may
\* have changed since: what it read as paid is still covered by payments, and
\* with its own amount it still stays within the total, which never changes.

Paying == {"receipt", "pay"}

PaymentFits(c) ==
    /\ c.k \in Invoice /\ c.amount \in Nat /\ c.paid \in Nat
    /\ inv[c.k].status # "NONE" /\ c.amount > 0
    /\ c.k \in Rows => c.paid <= received[c.k] /\ c.paid + c.amount <= inv[c.k].total

LedgerInv ==
    /\ RowsAddUp /\ PaidHasReceipts
    /\ \A p \in Req : call[p].kind \in Paying => PaymentFits(call[p])

\* A step that leaves the ledger alone and starts or carries no new reading.
LEMMA LedgerUntouched ==
    ASSUME LedgerInv, UNCHANGED <<inv, received>>,
           \A p \in Req : call'[p].kind \in Paying =>
              \/ call'[p] = call[p]
              \/ PaymentFits(call'[p])
    PROVE  LedgerInv'
<1>1. Rows' = Rows
  BY DEF Rows
<1>2. \A c : PaymentFits(c) => PaymentFits(c)'
  BY <1>1 DEF PaymentFits
<1>3. RowsAddUp' /\ PaidHasReceipts'
  BY <1>1 DEF LedgerInv, RowsAddUp, PaidHasReceipts
<1>4. \A p \in Req : call'[p].kind \in Paying => PaymentFits(call'[p])
  BY DEF LedgerInv
<1>5. \A p \in Req : call'[p].kind \in Paying => PaymentFits(call[p])'
  BY <1>1, <1>4 DEF PaymentFits
<1> QED BY <1>3, <1>5 DEF LedgerInv

THEOREM LedgerAddsUp == Spec => [](RowsAddUp /\ PaidHasReceipts)
<1> USE FeesAssumption
<1>1. Init => LedgerInv
  BY DEF Init, LedgerInv, RowsAddUp, PaidHasReceipts, Rows, NoRow, Paying, Idle
<1>2. TypeOK /\ LedgerInv /\ [Next]_vars => LedgerInv'
  <2> SUFFICES ASSUME TypeOK, LedgerInv, [Next]_vars PROVE LedgerInv'
    OBVIOUS
  <2>0. ASSUME NEW p \in Req, NEW c, Go(p, c), c.kind \notin Paying
        PROVE  \A q \in Req : call'[q].kind \in Paying => call'[q] = call[q]
    BY <2>0 DEF Go, TypeOK
  <2>e. ASSUME NEW p \in Req, End(p)
        PROVE  \A q \in Req : call'[q].kind \in Paying => call'[q] = call[q]
    BY <2>0, <2>e DEF End, Idle, Paying
  <2>1. ASSUME NEW p \in Req, NEW total \in Total, GenerateRead(p, total) PROVE LedgerInv'
    BY <2>0, <2>1, LedgerUntouched DEF GenerateRead, Paying
  <2>2. ASSUME NEW p \in Req, NEW s \in Student, NEW total \in Total, InvoiceRead(p, s, total)
        PROVE  LedgerInv'
    BY <2>0, <2>2, LedgerUntouched DEF InvoiceRead, Paying
  <2>3. ASSUME NEW p \in Req, InvoiceCount(p) PROVE LedgerInv'
    BY <2>0, <2>3, LedgerUntouched DEF InvoiceCount, Paying
  <2>4. ASSUME NEW p \in Req, InvoiceCreate(p) PROVE LedgerInv'
    <3>1. \A q \in Req : call'[q].kind \in Paying => call'[q] = call[q]
      BY <2>0, <2>e, <2>4 DEF InvoiceCreate, Paying
    <3>2. CASE inv' = inv
      BY <2>4, <3>1, <3>2, LedgerUntouched DEF InvoiceCreate
    <3>3. ASSUME NEW k \in Invoice, inv[k].status = "NONE",
                 inv' = [inv EXCEPT ![k] = [status |-> "UNPAID", of |-> call[p].of,
                           number |-> call[p].n, total |-> call[p].total, paid |-> 0,
                           balance |-> call[p].total]]
          PROVE  LedgerInv'
      <4>1. call[p].total \in Nat /\ received' = received
        BY <2>4, CallTypes DEF InvoiceCreate
      <4>2. /\ inv'[k].status = "UNPAID" /\ inv'[k].paid = 0
            /\ inv'[k].total = call[p].total /\ inv'[k].balance = call[p].total
        BY <3>3 DEF TypeOK
      <4>3. \A j \in Invoice \ {k} : inv'[j] = inv[j]
        BY <3>3 DEF TypeOK
      <4>4. Rows' = Rows \cup {k}
        BY <3>3, <4>2, <4>3 DEF Rows
      <4>5. RowsAddUp' /\ PaidHasReceipts'
        <5>1. PICK total \in Nat : total = call[p].total
          BY <4>1
        <5>2. received[k] \in Nat /\ received'[k] = received[k]
          BY <4>1 DEF TypeOK
        <5>3. \A j \in Rows \ {k} : inv'[j] = inv[j] /\ received'[j] = received[j]
          BY <4>1, <4>3 DEF Rows
        <5>4. inv'[k].paid <= received'[k]
          BY <4>2, <5>2
        <5>5. PaidHasReceipts'
          BY <4>4, <5>3, <5>4 DEF LedgerInv, PaidHasReceipts
        <5> QED BY <4>2, <4>4, <5>1, <5>3, <5>5 DEF LedgerInv, RowsAddUp
      <4>6. \A q \in Req : call'[q].kind \in Paying => PaymentFits(call[q])'
        BY <3>1, <3>3, <4>1, <4>3, <4>4 DEF LedgerInv, PaymentFits
      <4> QED BY <4>5, <4>6 DEF LedgerInv
    <3> QED BY <2>4, <3>2, <3>3 DEF InvoiceCreate
  <2>5. ASSUME NEW p \in Req, NEW k \in Invoice, PayRead(p, k) PROVE LedgerInv'
    <3>1. PICK amount \in Payable(k) :
            Go(p, [kind |-> "receipt", k |-> k, amount |-> amount, paid |-> inv[k].paid])
      BY <2>5 DEF PayRead
    <3> DEFINE c == [kind |-> "receipt", k |-> k, amount |-> amount, paid |-> inv[k].paid]
    <3>2. /\ inv[k].paid \in Nat /\ inv[k].balance \in Nat /\ inv[k].total \in Nat
          /\ received[k] \in Nat
      BY DEF TypeOK, Row
    <3>3. /\ inv[k].paid <= received[k] /\ inv[k].paid + inv[k].balance = inv[k].total
          /\ inv[k].status # "NONE" /\ amount \in Nat /\ amount > 0 /\ amount <= inv[k].balance
      BY <2>5, <3>2 DEF PayRead, LedgerInv, RowsAddUp, PaidHasReceipts, Payable, Rows
    <3>4. PaymentFits(c)
      BY <3>2, <3>3 DEF PaymentFits
    <3>5. call'[p] = c /\ \A q \in Req \ {p} : call'[q] = call[q]
      BY <3>1 DEF Go, TypeOK
    <3> HIDE DEF c
    <3>6. \A q \in Req : call'[q].kind \in Paying => call'[q] = call[q] \/ PaymentFits(call'[q])
      BY <3>4, <3>5
    <3> QED BY <2>5, <3>6, LedgerUntouched DEF PayRead
  <2>6. ASSUME NEW p \in Req, PayCount(p) PROVE LedgerInv'
    <3> DEFINE c == [kind |-> "pay", k |-> call[p].k, amount |-> call[p].amount,
                     paid |-> call[p].paid, n |-> ReceiptFor(call[p].k)]
    <3>1. PaymentFits(call[p])
      BY <2>6 DEF PayCount, LedgerInv, Paying
    <3>2. PaymentFits(c)
      BY <3>1 DEF PaymentFits
    <3>3. call'[p] = c /\ \A q \in Req \ {p} : call'[q] = call[q]
      BY <2>6 DEF PayCount, Go, TypeOK
    <3> HIDE DEF c
    <3>4. \A q \in Req : call'[q].kind \in Paying => call'[q] = call[q] \/ PaymentFits(call'[q])
      BY <3>2, <3>3
    <3> QED BY <2>6, <3>4, LedgerUntouched DEF PayCount
  <2>7. ASSUME NEW p \in Req, PayCommit(p) PROVE LedgerInv'
    <3>1. \A q \in Req : call'[q].kind \in Paying => call'[q] = call[q]
      BY <2>e, <2>7 DEF PayCommit
    <3>2. CASE UNCHANGED <<inv, received>>
      BY <3>1, <3>2, LedgerUntouched
    <3>3. CASE /\ call[p].k \in Rows
               /\ received' = [received EXCEPT ![call[p].k] = @ + call[p].amount]
               /\ inv' = [inv EXCEPT ![call[p].k] = Settled(@, call[p].paid + call[p].amount)]
      <4>1. PICK k : k = call[p].k
        OBVIOUS
      <4>2. PICK paid : paid = call[p].paid + call[p].amount
        OBVIOUS
      <4>3. PaymentFits(call[p])
        BY <2>7 DEF PayCommit, LedgerInv, Paying
      <4>4. /\ k \in Invoice /\ k \in Rows /\ paid \in Nat /\ paid > 0
            /\ paid <= inv[k].total /\ paid <= received[k] + call[p].amount
            /\ inv[k] \in Row /\ inv[k].total \in Nat /\ received[k] \in Nat
            /\ call[p].amount \in Nat
        BY <3>3, <4>1, <4>2, <4>3 DEF PaymentFits, TypeOK, Row
      <4>5. /\ inv'[k] = Settled(inv[k], paid) /\ received'[k] = received[k] + call[p].amount
            /\ \A j \in Invoice \ {k} : inv'[j] = inv[j] /\ received'[j] = received[j]
        BY <3>3, <4>1, <4>2, <4>4 DEF TypeOK
      <4>6. /\ inv'[k].paid = paid /\ inv'[k].total = inv[k].total
            /\ inv'[k].balance = inv[k].total - paid
            /\ inv'[k].status = IF inv[k].total - paid = 0 THEN "PAID" ELSE "PARTIAL"
        BY <4>4, <4>5 DEF Settled, Row
      <4>7. Rows' = Rows
        BY <4>4, <4>5, <4>6 DEF Rows
      <4>8. RowsAddUp' /\ PaidHasReceipts'
        <5>1. ASSUME NEW j \in Rows, j # k
              PROVE  inv'[j] = inv[j] /\ received'[j] = received[j]
          BY <4>5, <5>1 DEF Rows
        <5>2. PaidHasReceipts'
          BY <4>4, <4>5, <4>6, <4>7, <5>1 DEF LedgerInv, PaidHasReceipts
        <5>3. /\ inv'[k].paid + inv'[k].balance = inv'[k].total
              /\ inv'[k].status = "PAID" => inv'[k].balance = 0
              /\ inv'[k].status = "PARTIAL" => inv'[k].paid > 0 /\ inv'[k].balance > 0
              /\ inv'[k].status # "UNPAID"
          BY <4>4, <4>6
        <5> QED BY <4>7, <5>1, <5>2, <5>3 DEF LedgerInv, RowsAddUp
      <4>9. ASSUME NEW q \in Req, call'[q].kind \in Paying PROVE PaymentFits(call[q])'
        <5>1. call'[q] = call[q] /\ PaymentFits(call[q])
          BY <3>1, <4>9 DEF LedgerInv
        <5>2. call[q].k = k => inv'[k].total = inv[k].total /\ received'[k] >= received[k]
          BY <4>4, <4>5, <4>6
        <5>3. inv'[call[q].k].status # "NONE"
          BY <4>5, <4>6, <5>1 DEF PaymentFits
        <5>4. received[call[q].k] \in Nat /\ received'[call[q].k] \in Nat
          BY <4>4, <4>5, <5>1 DEF PaymentFits, TypeOK
        <5>5. call[q].k \in Rows => call[q].paid <= received'[call[q].k]
                                    /\ call[q].paid + call[q].amount <= inv'[call[q].k].total
          BY <4>5, <5>1, <5>2, <5>4 DEF PaymentFits
        <5> QED BY <4>7, <5>1, <5>3, <5>5 DEF PaymentFits
      <4> QED BY <4>8, <4>9 DEF LedgerInv
    <3> QED BY <2>7, <3>2, <3>3 DEF PayCommit
  <2>8. ASSUME NEW p \in Req, NEW s \in Student, RemoveRead(p, s) PROVE LedgerInv'
    <3>1. \A q \in Req : call'[q].kind \in Paying => call'[q] = call[q]
      BY <2>0, <2>8 DEF RemoveRead, Paying
    <3> QED BY <2>8, <3>1, LedgerUntouched DEF RemoveRead
  <2>9. ASSUME NEW p \in Req, RemoveCommit(p) PROVE LedgerInv'
    <3>1. \A q \in Req : call'[q].kind \in Paying => call'[q] = call[q]
      BY <2>e, <2>9 DEF RemoveCommit
    <3>2. PICK s : s = call[p].of
      OBVIOUS
    <3>3. inv' = [k \in Invoice |-> IF k \in RowsOf(s) THEN [NoRow EXCEPT !.status = "GONE"]
                                     ELSE inv[k]]
      BY <2>9, <3>2 DEF RemoveCommit
    <3>4. [NoRow EXCEPT !.status = "GONE"].status = "GONE"
      BY DEF NoRow
    <3>5. Rows' = Rows \ RowsOf(s) /\ \A k \in Rows' : inv'[k] = inv[k]
      BY <3>3, <3>4 DEF Rows
    <3>6. \A k \in Invoice : inv'[k].status = "NONE" => inv[k].status = "NONE"
      BY <3>3, <3>4
    <3>7. received' = received
      BY <2>9 DEF RemoveCommit
    <3>8. RowsAddUp' /\ PaidHasReceipts'
      BY <3>5, <3>7 DEF LedgerInv, RowsAddUp, PaidHasReceipts
    <3>9. \A q \in Req : call'[q].kind \in Paying => PaymentFits(call[q])'
      BY <3>1, <3>5, <3>6, <3>7 DEF LedgerInv, PaymentFits
    <3> QED BY <3>8, <3>9 DEF LedgerInv
  <2>10. ASSUME NEW p \in Req, ArchiveCommit(p) PROVE LedgerInv'
    BY <2>e, <2>10, LedgerUntouched DEF ArchiveCommit
  <2>11. CASE UNCHANGED vars
    BY <2>11, LedgerUntouched DEF vars
  <2> QED BY <2>1, <2>2, <2>3, <2>4, <2>5, <2>6, <2>7, <2>8, <2>9, <2>10, <2>11
          DEF Next, Begin, Proceed
<1>3. LedgerInv => RowsAddUp /\ PaidHasReceipts
  BY DEF LedgerInv
<1> QED BY <1>1, <1>2, <1>3, FeesTypeCorrect, PTL DEF Spec

-----------------------------------------------------------------------------
\* Without overlap.  Then nothing that a handler has read changes before it
\* commits: a payment still holds the invoice's paid amount, and a student who
\* had no invoice when his deletion began has none when it is carried out.

OneHandler == \A p, q \in Req : call[p] # Idle /\ call[q] # Idle => p = q
NothingReceivedYet == \A k \in Invoice : inv[k].status = "NONE" => received[k] = 0

ReadingHolds(c) ==
    /\ c.kind \in Paying => c.k \in Rows /\ c.paid = inv[c.k].paid
    /\ c.kind = "remove" => RowsOf(c.of) = {}

FeesSerialInv ==
    /\ OneHandler /\ PaidIsReceived /\ NothingReceivedYet
    /\ \A p \in Req : ReadingHolds(call[p])

\* Only the handler that moved is in flight afterwards.
LEMMA OthersIdle ==
    ASSUME ~mixed', TypeOK, FeesSerialInv, NEW p \in Req, Begin(p) \/ Proceed(p)
    PROVE  \A q \in Req \ {p} : call'[q] = Idle
<1>1. ASSUME NEW c, Go(p, c) PROVE \A q \in Req \ {p} : call'[q] = call[q]
  BY <1>1 DEF Go, TypeOK
<1>2. CASE Begin(p)
  <2>1. (\A q \in Req : call[q] = Idle) /\ \E c : Go(p, c)
    BY <1>2 DEF Begin, GenerateRead, InvoiceRead, PayRead, RemoveRead, MayBegin, Mix, InFlight
  <2> QED BY <1>1, <2>1
<1>3. CASE Proceed(p)
  <2>1. call[p] # Idle
    BY <1>3 DEF Proceed, InvoiceCount, InvoiceCreate, PayCount, PayCommit, RemoveCommit,
                ArchiveCommit, Idle
  <2>2. \E c : Go(p, c)
    BY <1>3 DEF Proceed, InvoiceCount, InvoiceCreate, PayCount, PayCommit, RemoveCommit,
                ArchiveCommit, End
  <2> QED BY <1>1, <2>1, <2>2 DEF FeesSerialInv, OneHandler
<1> QED BY <1>2, <1>3

LEMMA IdleHolds == \A c : c = Idle => ReadingHolds(c)'
  BY DEF ReadingHolds, Idle, Paying

\* A step that leaves the ledger alone and keeps the reading of its handler.
LEMMA SerialUntouched ==
    ASSUME FeesSerialInv, NEW p \in Req, \A q \in Req \ {p} : call'[q] = Idle,
           UNCHANGED <<inv, received>>, ReadingHolds(call'[p])
    PROVE  FeesSerialInv'
<1>1. Rows' = Rows
  BY DEF Rows
<1>2. \A s : RowsOf(s)' = RowsOf(s)
  BY <1>1 DEF RowsOf
<1>3. PICK c : c = call'[p]
  OBVIOUS
<1>4. ReadingHolds(c) => ReadingHolds(c)'
  BY <1>1, <1>2 DEF ReadingHolds
<1>5. \A q \in Req : ReadingHolds(call[q])'
  BY <1>3, <1>4, IdleHolds
<1>6. PaidIsReceived' /\ NothingReceivedYet'
  BY <1>1 DEF FeesSerialInv, PaidIsReceived, NothingReceivedYet
<1> QED BY <1>5, <1>6 DEF FeesSerialInv, OneHandler

\* Once two handlers have overlapped, they have.
LEMMA MixedStays == ASSUME mixed, [Next]_vars PROVE mixed'
<1>1. ASSUME NEW p \in Req, Begin(p) PROVE mixed'
  BY <1>1 DEF Begin, GenerateRead, InvoiceRead, PayRead, RemoveRead, MayBegin, Mix
<1>2. ASSUME NEW p \in Req, Proceed(p) PROVE mixed'
  BY <1>2 DEF Proceed, InvoiceCount, InvoiceCreate, PayCount, PayCommit, RemoveCommit,
              ArchiveCommit
<1> QED BY <1>1, <1>2 DEF Next, vars

\* One step of handlers that have not overlapped; in particular a deletion that
\* is carried out deletes no invoice.
LEMMA SerialStep ==
    ASSUME TypeOK, FeesSerialInv, ~mixed', [Next]_vars
    PROVE  /\ FeesSerialInv' /\ receipts \subseteq receipts'
           /\ \A p \in Req : RemoveCommit(p) => UNCHANGED <<inv, receipts>>
<1> USE FeesAssumption
<1>0. ASSUME NEW p \in Req, NEW c, Go(p, c) PROVE call'[p] = c
  BY <1>0 DEF Go, TypeOK
<1>e. ASSUME NEW p \in Req, End(p) PROVE call'[p] = Idle
  BY <1>0, <1>e DEF End
<1>i. ReadingHolds(Idle)
  BY DEF ReadingHolds, Idle, Paying
<1>1. ASSUME NEW p \in Req, NEW total \in Total, GenerateRead(p, total)
      PROVE  ReadingHolds(call'[p]) /\ UNCHANGED <<inv, received, receipts>>
  BY <1>0, <1>1 DEF GenerateRead, ReadingHolds, Paying
<1>2. ASSUME NEW p \in Req, NEW s \in Student, NEW total \in Total, InvoiceRead(p, s, total)
      PROVE  ReadingHolds(call'[p]) /\ UNCHANGED <<inv, received, receipts>>
  BY <1>0, <1>2 DEF InvoiceRead, ReadingHolds, Paying
<1>3. ASSUME NEW p \in Req, InvoiceCount(p)
      PROVE  ReadingHolds(call'[p]) /\ UNCHANGED <<inv, received, receipts>>
  BY <1>0, <1>3 DEF InvoiceCount, ReadingHolds, Paying
<1>4. ASSUME NEW p \in Req, NEW k \in Invoice, PayRead(p, k)
      PROVE  ReadingHolds(call'[p]) /\ UNCHANGED <<inv, received, receipts>>
  <2>1. PICK amount \in Payable(k) : call'[p] =
          [kind |-> "receipt", k |-> k, amount |-> amount, paid |-> inv[k].paid]
    BY <1>0, <1>4 DEF PayRead
  <2>2. ReadingHolds(call'[p])
    BY <1>4, <2>1 DEF PayRead, ReadingHolds
  <2> QED BY <1>4, <2>2 DEF PayRead
<1>5. ASSUME NEW p \in Req, PayCount(p)
      PROVE  ReadingHolds(call'[p]) /\ UNCHANGED <<inv, received, receipts>>
  <2>1. call'[p] = [kind |-> "pay", k |-> call[p].k, amount |-> call[p].amount,
                    paid |-> call[p].paid, n |-> ReceiptFor(call[p].k)]
    BY <1>0, <1>5 DEF PayCount
  <2>2. ReadingHolds(call'[p])
    BY <1>5, <2>1 DEF PayCount, FeesSerialInv, ReadingHolds, Paying
  <2> QED BY <1>5, <2>2 DEF PayCount
<1>6. ASSUME NEW p \in Req, NEW s \in Student, RemoveRead(p, s)
      PROVE  ReadingHolds(call'[p]) /\ UNCHANGED <<inv, received, receipts>>
  <2>1. call'[p] = [kind |-> IF HasRecords(s) THEN "archive" ELSE "remove", of |-> s]
    BY <1>0, <1>6 DEF RemoveRead
  <2>2. ReadingHolds(call'[p])
    BY <2>1 DEF HasRecords, ReadingHolds, Paying
  <2> QED BY <1>6, <2>2 DEF RemoveRead
<1>7. ASSUME NEW p \in Req, ArchiveCommit(p)
      PROVE  ReadingHolds(call'[p]) /\ UNCHANGED <<inv, received, receipts>>
  BY <1>e, <1>i, <1>7 DEF ArchiveCommit
<1>8. ASSUME NEW p \in Req, RemoveCommit(p)
      PROVE  ReadingHolds(call'[p]) /\ UNCHANGED <<inv, received, receipts>>
  <2>1. RowsOf(call[p].of) = {}
    BY <1>8 DEF RemoveCommit, FeesSerialInv, ReadingHolds
  <2>2. inv' = inv
    BY <1>8, <2>1 DEF RemoveCommit, TypeOK
  <2>3. receipts' = receipts
    BY <1>8, <2>1 DEF RemoveCommit
  <2> QED BY <1>e, <1>i, <1>8, <2>2, <2>3 DEF RemoveCommit
<1>9. ASSUME NEW p \in Req, InvoiceCreate(p), \A q \in Req \ {p} : call'[q] = Idle
      PROVE  FeesSerialInv' /\ receipts \subseteq receipts'
  <2>1. \A c : c = call'[p] => ReadingHolds(c) /\ ReadingHolds(c)'
    BY <1>0, <1>e, <1>9 DEF InvoiceCreate, ReadingHolds, Paying, Idle
  <2>2. CASE inv' = inv
    BY <1>9, <2>1, <2>2, SerialUntouched DEF InvoiceCreate
  <2>3. ASSUME NEW k \in Invoice, inv[k].status = "NONE",
               inv' = [inv EXCEPT ![k] = [status |-> "UNPAID", of |-> call[p].of,
                         number |-> call[p].n, total |-> call[p].total, paid |-> 0,
                         balance |-> call[p].total]]
        PROVE  FeesSerialInv'
    <3>1. received' = received /\ received[k] = 0
      BY <1>9, <2>3 DEF InvoiceCreate, FeesSerialInv, NothingReceivedYet
    <3>2. /\ inv'[k].status = "UNPAID" /\ inv'[k].paid = 0
          /\ \A j \in Invoice \ {k} : inv'[j] = inv[j]
      BY <2>3 DEF TypeOK
    <3>3. Rows' = Rows \cup {k}
      BY <2>3, <3>2 DEF Rows
    <3>4. \A j \in Rows : j # k => inv'[j] = inv[j]
      BY <3>2 DEF Rows
    <3>5. PaidIsReceived'
      BY <3>1, <3>2, <3>3, <3>4 DEF FeesSerialInv, PaidIsReceived
    <3>6. NothingReceivedYet'
      BY <3>1, <3>2 DEF FeesSerialInv, NothingReceivedYet
    <3>7. \A q \in Req : ReadingHolds(call[q])'
      BY <1>9, <2>1, IdleHolds
    <3> QED BY <1>9, <3>5, <3>6, <3>7 DEF FeesSerialInv, OneHandler
  <2>4. FeesSerialInv'
    BY <1>9, <2>2, <2>3 DEF InvoiceCreate
  <2> QED BY <1>9, <2>4 DEF InvoiceCreate
<1>10. ASSUME NEW p \in Req, PayCommit(p), \A q \in Req \ {p} : call'[q] = Idle
       PROVE  FeesSerialInv' /\ receipts \subseteq receipts'
  <2>0. call'[p] = Idle
    BY <1>e, <1>10 DEF PayCommit
  <2>1. PICK k : k = call[p].k
    OBVIOUS
  <2>2. /\ k \in Rows /\ k \in Invoice /\ call[p].paid = inv[k].paid
        /\ call[p].amount \in Nat /\ call[p].paid \in Nat /\ inv[k] \in Row
    BY <1>10, <2>1, CallTypes DEF PayCommit, FeesSerialInv, ReadingHolds, Paying, Rows, TypeOK
  <2>3. CASE UNCHANGED <<inv, received, receipts>>
    BY <1>10, <1>i, <2>0, <2>3, SerialUntouched
  <2>4. CASE /\ receipts' = receipts \cup {<<call[p].n, k>>}
             /\ received' = [received EXCEPT ![k] = @ + call[p].amount]
             /\ inv' = [inv EXCEPT ![k] = Settled(@, call[p].paid + call[p].amount)]
    <3>1. PICK paid : paid = call[p].paid + call[p].amount
      OBVIOUS
    <3>2. /\ inv'[k] = Settled(inv[k], paid) /\ received'[k] = received[k] + call[p].amount
          /\ \A j \in Invoice \ {k} : inv'[j] = inv[j] /\ received'[j] = received[j]
      BY <2>2, <2>4, <3>1 DEF TypeOK
    <3>3. inv'[k].paid = paid /\ inv'[k].status \in {"PAID", "PARTIAL"}
      BY <2>2, <3>2 DEF Settled, Row
    <3>4. Rows' = Rows
      BY <2>2, <3>2, <3>3 DEF Rows
    <3>5. inv[k].paid = received[k]
      BY <2>2 DEF FeesSerialInv, PaidIsReceived
    <3>6. inv'[k].paid = received'[k]
      BY <2>2, <3>1, <3>2, <3>3, <3>5
    <3>7. PaidIsReceived'
      BY <3>2, <3>4, <3>6 DEF FeesSerialInv, PaidIsReceived, Rows
    <3>8. NothingReceivedYet'
      BY <3>2, <3>3 DEF FeesSerialInv, NothingReceivedYet
    <3>9. \A q \in Req : ReadingHolds(call[q])'
      BY <1>10, <2>0, IdleHolds
    <3> QED BY <1>10, <2>0, <2>4, <3>7, <3>8, <3>9 DEF FeesSerialInv, OneHandler
  <2> QED BY <1>10, <2>1, <2>3, <2>4 DEF PayCommit
<1>11. CASE UNCHANGED vars
  <2>1. Rows' = Rows
    BY <1>11 DEF vars, Rows
  <2>2. \A s : RowsOf(s)' = RowsOf(s)
    BY <1>11, <2>1 DEF RowsOf, vars
  <2> QED BY <1>11, <2>1, <2>2 DEF vars, FeesSerialInv, OneHandler, PaidIsReceived,
                                 NothingReceivedYet, ReadingHolds
<1>12. ASSUME NEW p \in Req, Begin(p) \/ Proceed(p)
       PROVE  FeesSerialInv' /\ receipts \subseteq receipts'
  <2>1. \A q \in Req \ {p} : call'[q] = Idle
    BY <1>12, OthersIdle
  <2>2. CASE InvoiceCreate(p) \/ PayCommit(p)
    BY <1>9, <1>10, <2>1, <2>2
  <2>3. CASE ~(InvoiceCreate(p) \/ PayCommit(p))
    <3>1. ReadingHolds(call'[p]) /\ UNCHANGED <<inv, received, receipts>>
      BY <1>1, <1>2, <1>3, <1>4, <1>5, <1>6, <1>7, <1>8, <1>12, <2>3 DEF Begin, Proceed
    <3> QED BY <2>1, <3>1, SerialUntouched
  <2> QED BY <2>2, <2>3
<1>13. ASSUME NEW p \in Req, RemoveCommit(p) PROVE UNCHANGED <<inv, receipts>>
  BY <1>8, <1>13
<1> QED BY <1>11, <1>12, <1>13 DEF Next

CalmLedger == ~mixed => FeesSerialInv

LEMMA LedgerStaysCalm == Spec => []CalmLedger
<1> USE FeesAssumption
<1>1. Init => FeesSerialInv
  BY DEF Init, FeesSerialInv, OneHandler, PaidIsReceived, NothingReceivedYet, ReadingHolds,
         Rows, NoRow, Paying, Idle
<1>2. Init => CalmLedger
  BY <1>1 DEF CalmLedger
<1>3. TypeOK /\ CalmLedger /\ [Next]_vars => CalmLedger'
  BY SerialStep, MixedStays DEF CalmLedger
<1> QED BY <1>2, <1>3, FeesTypeCorrect, PTL DEF Spec

\* As long as no two handlers have overlapped, an invoice says exactly what was
\* received for it (recordPayment).
THEOREM SerialLedgerIsExact == Spec => []PaidWasReceived
<1>1. CalmLedger => PaidWasReceived
  BY DEF CalmLedger, FeesSerialInv, PaidWasReceived
<1> QED BY <1>1, LedgerStaysCalm, PTL

\* And no receipt is lost to the removal of a student: one who has an invoice is
\* archived (students.service.ts, delete).
THEOREM ReceiptsStay == Spec => ReceiptsAreKept
<1>1. TypeOK /\ CalmLedger /\ [Next]_vars => [~mixed' => receipts \subseteq receipts']_vars
  BY SerialStep, MixedStays DEF CalmLedger
<1> QED BY <1>1, LedgerStaysCalm, FeesTypeCorrect, PTL DEF Spec, ReceiptsAreKept

-----------------------------------------------------------------------------
\* While nobody was deleted, however handlers overlap, and while no two handlers
\* have overlapped, whoever was deleted, the numbers in use are exactly 1 to the
\* count: what a handler counted can only have grown since, so a number that is
\* still free when it is written is the next one.

NumbersInv ==
    /\ InvoiceNumbers = 1 .. Cardinality(Rows)
    /\ ReceiptNumbers = 1 .. Cardinality(receipts)
    /\ \A p \in Req :
         /\ call[p].kind = "create" => call[p].n \in 1 .. Cardinality(Rows) + 1
         /\ call[p].kind = "pay" => call[p].n \in 1 .. Cardinality(receipts) + 1

LEMMA NumbersUntouched ==
    ASSUME NumbersInv, InvoiceNumbers' = InvoiceNumbers, Rows' = Rows, receipts' = receipts,
           NEW p \in Req, \A q \in Req \ {p} : call'[q] = call[q],
           call'[p].kind = "create" => call'[p].n \in 1 .. Cardinality(Rows) + 1,
           call'[p].kind = "pay" => call'[p].n \in 1 .. Cardinality(receipts) + 1
    PROVE  NumbersInv'
<1>1. ReceiptNumbers' = ReceiptNumbers
  BY DEF ReceiptNumbers
<1> QED BY <1>1 DEF NumbersInv

\* Numbers that once had a gap may have one ever after.
LEMMA GapsStay == ASSUME [Next]_vars, Gapless' PROVE Gapless
<1>1. ASSUME mixed, NEW s \in Student, student[s] = "GONE" PROVE student'[s] = "GONE"
  <2>1. ASSUME NEW p \in Req, Begin(p) PROVE student'[s] = "GONE"
    BY <1>1, <2>1 DEF Begin, GenerateRead, InvoiceRead, PayRead, RemoveRead
  <2>2. ASSUME NEW p \in Req, InvoiceCount(p) \/ InvoiceCreate(p) \/ PayCount(p) \/ PayCommit(p)
        PROVE  student'[s] = "GONE"
    BY <1>1, <2>2 DEF InvoiceCount, InvoiceCreate, PayCount, PayCommit
  <2>3. ASSUME NEW p \in Req, RemoveCommit(p) PROVE student'[s] = "GONE"
    BY <1>1, <2>3 DEF RemoveCommit
  <2>4. ASSUME NEW p \in Req, ArchiveCommit(p) PROVE student'[s] = "GONE"
    BY <1>1, <2>4 DEF ArchiveCommit
  <2>5. CASE UNCHANGED vars
    BY <1>1, <2>5 DEF vars
  <2> QED BY <2>1, <2>2, <2>3, <2>4, <2>5 DEF Next, Proceed
<1> QED BY <1>1, MixedStays DEF Gapless

\* The next invoice and the next payment find their number free.
THEOREM NumbersHaveNoGaps == Spec => []NextNumbersAreFree
<1> USE FeesAssumption
<1> DEFINE GapInv == Gapless => NumbersInv
<1>1. Init => NumbersInv
  <2> SUFFICES ASSUME Init PROVE NumbersInv
    OBVIOUS
  <2>1. Rows = {} /\ receipts = {}
    BY DEF Init, Rows, NoRow
  <2>2. Cardinality(Rows) = 0 /\ Cardinality(receipts) = 0
    BY <2>1, FS_EmptySet
  <2>3. InvoiceNumbers = {} /\ ReceiptNumbers = {}
    BY <2>1 DEF InvoiceNumbers, ReceiptNumbers
  <2> QED BY <2>2, <2>3 DEF Init, NumbersInv, Idle
<1>2. TypeOK /\ CalmLedger /\ NumbersInv /\ [Next]_vars /\ Gapless' => NumbersInv'
  <2> SUFFICES ASSUME TypeOK, CalmLedger, NumbersInv, [Next]_vars, Gapless' PROVE NumbersInv'
    OBVIOUS
  <2>0. ASSUME NEW p \in Req, NEW c, Go(p, c)
        PROVE  call'[p] = c /\ \A q \in Req \ {p} : call'[q] = call[q]
    BY <2>0 DEF Go, TypeOK
  <2>e. ASSUME NEW p \in Req, End(p)
        PROVE  call'[p] = Idle /\ \A q \in Req \ {p} : call'[q] = call[q]
    BY <2>0, <2>e DEF End
  <2>u. inv' = inv => Rows' = Rows /\ InvoiceNumbers' = InvoiceNumbers
    BY DEF Rows, InvoiceNumbers
  <2>1. ASSUME NEW p \in Req, NEW total \in Total, GenerateRead(p, total) PROVE NumbersInv'
    BY <2>0, <2>u, <2>1, NumbersUntouched DEF GenerateRead
  <2>2. ASSUME NEW p \in Req, NEW s \in Student, NEW total \in Total, InvoiceRead(p, s, total)
        PROVE  NumbersInv'
    BY <2>0, <2>u, <2>2, NumbersUntouched DEF InvoiceRead
  <2>3. ASSUME NEW p \in Req, InvoiceCount(p) PROVE NumbersInv'
    <3>1. PICK s \in call[p].rest :
            call'[p] = [kind |-> "create", rest |-> call[p].rest \ {s}, of |-> s,
                        total |-> call[p].total, n |-> NextNumber(Rows)]
      BY <2>0, <2>3 DEF InvoiceCount
    <3>2. call'[p].kind = "create" /\ call'[p].n \in 1 .. Cardinality(Rows) + 1
      BY <3>1, CountsAreNatural DEF NextNumber
    <3>3. \A q \in Req \ {p} : call'[q] = call[q]
      BY <2>0, <2>3 DEF InvoiceCount
    <3> QED BY <2>u, <2>3, <3>2, <3>3, NumbersUntouched DEF InvoiceCount
  <2>4. ASSUME NEW p \in Req, InvoiceCreate(p) PROVE NumbersInv'
    <3>1. /\ call'[p].kind \notin {"create", "pay"}
          /\ \A q \in Req \ {p} : call'[q] = call[q]
      BY <2>0, <2>e, <2>4 DEF InvoiceCreate, Idle
    <3>2. receipts' = receipts
      BY <2>4 DEF InvoiceCreate
    <3>3. CASE inv' = inv
      BY <2>u, <3>1, <3>2, <3>3, NumbersUntouched
    <3>4. ASSUME NEW k \in Invoice, inv[k].status = "NONE", call[p].n \notin InvoiceNumbers,
                 inv' = [inv EXCEPT ![k] = [status |-> "UNPAID", of |-> call[p].of,
                           number |-> call[p].n, total |-> call[p].total, paid |-> 0,
                           balance |-> call[p].total]]
          PROVE  NumbersInv'
      <4>1. PICK n : n = call[p].n
        OBVIOUS
      <4>2. n = Cardinality(Rows) + 1
        BY <2>4, <3>4, <4>1, CountsAreNatural DEF InvoiceCreate, NumbersInv
      <4>3. /\ inv'[k].status = "UNPAID" /\ inv'[k].number = n
            /\ \A j \in Invoice \ {k} : inv'[j] = inv[j]
        BY <3>4, <4>1 DEF TypeOK
      <4>4. Rows' = Rows \cup {k} /\ k \notin Rows
        BY <3>4, <4>3 DEF Rows
      <4>5. Cardinality(Rows') = Cardinality(Rows) + 1
        BY <4>4, CountsAreNatural, FS_AddElement
      <4>6. InvoiceNumbers' = InvoiceNumbers \cup {n}
        <5>1. \A j \in Rows : inv'[j].number = inv[j].number
          BY <4>3, <4>4 DEF Rows
        <5> QED BY <4>3, <4>4, <5>1 DEF InvoiceNumbers
      <4>7. InvoiceNumbers' = 1 .. Cardinality(Rows')
        BY <4>2, <4>5, <4>6, CountsAreNatural DEF NumbersInv
      <4>8. ReceiptNumbers' = 1 .. Cardinality(receipts')
        BY <3>2 DEF ReceiptNumbers, NumbersInv
      <4>9. \A q \in Req : call'[q].kind = "create" => call'[q].n \in 1 .. Cardinality(Rows') + 1
        BY <3>1, <4>5, CountsAreNatural DEF NumbersInv
      <4> QED BY <3>1, <3>2, <4>7, <4>8, <4>9 DEF NumbersInv
    <3> QED BY <2>4, <3>3, <3>4 DEF InvoiceCreate
  <2>5. ASSUME NEW p \in Req, NEW k \in Invoice, PayRead(p, k) PROVE NumbersInv'
    BY <2>0, <2>u, <2>5, NumbersUntouched DEF PayRead
  <2>6. ASSUME NEW p \in Req, PayCount(p) PROVE NumbersInv'
    <3>1. call'[p] = [kind |-> "pay", k |-> call[p].k, amount |-> call[p].amount,
                      paid |-> call[p].paid, n |-> ReceiptFor(call[p].k)]
      BY <2>0, <2>6 DEF PayCount
    <3>2. call'[p].kind = "pay" /\ call'[p].n \in 1 .. Cardinality(receipts) + 1
      BY <3>1, CountsAreNatural DEF ReceiptFor, NextNumber
    <3>3. \A q \in Req \ {p} : call'[q] = call[q]
      BY <2>0, <2>6 DEF PayCount
    <3> QED BY <2>u, <2>6, <3>2, <3>3, NumbersUntouched DEF PayCount
  <2>7. ASSUME NEW p \in Req, PayCommit(p) PROVE NumbersInv'
    <3>1. call'[p] = Idle /\ \A q \in Req \ {p} : call'[q] = call[q]
      BY <2>e, <2>7 DEF PayCommit
    <3>2. CASE UNCHANGED <<inv, receipts>>
      BY <2>u, <3>1, <3>2, NumbersUntouched DEF Idle
    <3>3. ASSUME call[p].n \notin ReceiptNumbers, call[p].k \in Rows,
                 receipts' = receipts \cup {<<call[p].n, call[p].k>>},
                 inv' = [inv EXCEPT ![call[p].k] = Settled(@, call[p].paid + call[p].amount)]
          PROVE  NumbersInv'
      <4>1. PICK k : k = call[p].k
        OBVIOUS
      <4>2. PICK n : n = call[p].n
        OBVIOUS
      <4>3. n = Cardinality(receipts) + 1
        BY <2>7, <3>3, <4>2, CountsAreNatural DEF PayCommit, NumbersInv
      <4>4. <<n, k>> \notin receipts
        BY <3>3, <4>2 DEF ReceiptNumbers
      <4>5. Cardinality(receipts') = Cardinality(receipts) + 1
        BY <3>3, <4>1, <4>2, <4>4, CountsAreNatural, FS_AddElement
      <4>6. ReceiptNumbers' = ReceiptNumbers \cup {n}
        <5>1. PICK r : r = <<n, k>>
          OBVIOUS
        <5>2. r[1] = n /\ receipts' = receipts \cup {r}
          BY <3>3, <4>1, <4>2, <5>1
        <5> QED BY <5>2 DEF ReceiptNumbers
      <4>7. ReceiptNumbers' = 1 .. Cardinality(receipts')
        BY <4>3, <4>5, <4>6, CountsAreNatural DEF NumbersInv
      <4>8. k \in Invoice /\ inv[k] \in Row
        BY <3>3, <4>1 DEF Rows, TypeOK
      <4>9. /\ inv'[k].number = inv[k].number /\ inv'[k].status \in {"PAID", "PARTIAL"}
            /\ \A j \in Invoice \ {k} : inv'[j] = inv[j]
        <5>1. inv'[k] = Settled(inv[k], call[p].paid + call[p].amount)
          BY <3>3, <4>1, <4>8 DEF TypeOK
        <5>2. \A j \in Invoice \ {k} : inv'[j] = inv[j]
          BY <3>3, <4>1 DEF TypeOK
        <5> QED BY <4>8, <5>1, <5>2 DEF Settled, Row
      <4>10. Rows' = Rows
        BY <3>3, <4>1, <4>9 DEF Rows
      <4>11. InvoiceNumbers' = InvoiceNumbers
        <5>1. \A j \in Rows : inv'[j].number = inv[j].number
          BY <4>9 DEF Rows
        <5> QED BY <4>10, <5>1 DEF InvoiceNumbers
      <4>12. \A q \in Req : call'[q].kind = "pay" => call'[q].n \in 1 .. Cardinality(receipts') + 1
        <5>1. \A q \in Req : call'[q].kind = "pay" =>
                call'[q].n \in 1 .. Cardinality(receipts) + 1
          BY <3>1 DEF NumbersInv, Idle
        <5> QED BY <4>5, <5>1, CountsAreNatural
      <4> QED BY <3>1, <4>7, <4>10, <4>11, <4>12 DEF NumbersInv, Idle
    <3> QED BY <2>7, <3>2, <3>3 DEF PayCommit
  <2>8. ASSUME NEW p \in Req, NEW s \in Student, RemoveRead(p, s) PROVE NumbersInv'
    <3>1. /\ call'[p].kind \notin {"create", "pay"}
          /\ \A q \in Req \ {p} : call'[q] = call[q]
      BY <2>0, <2>8 DEF RemoveRead
    <3> QED BY <2>u, <2>8, <3>1, NumbersUntouched DEF RemoveRead
  <2>9. ASSUME NEW p \in Req, RemoveCommit(p) PROVE NumbersInv'
    <3>1. /\ call'[p].kind \notin {"create", "pay"}
          /\ \A q \in Req \ {p} : call'[q] = call[q]
      BY <2>e, <2>9 DEF RemoveCommit, Idle
    <3>2. call[p].of \in Student /\ student'[call[p].of] = "GONE"
      BY <2>9, CallTypes DEF RemoveCommit, TypeOK
    <3>3. ~mixed'
      BY <3>2 DEF Gapless
    <3>4. UNCHANGED <<inv, receipts>>
      BY <2>9, <3>3, SerialStep, MixedStays DEF CalmLedger
    <3> QED BY <2>u, <3>1, <3>4, NumbersUntouched
  <2>10. ASSUME NEW p \in Req, ArchiveCommit(p) PROVE NumbersInv'
    <3>1. /\ call'[p].kind \notin {"create", "pay"}
          /\ \A q \in Req \ {p} : call'[q] = call[q]
      BY <2>e, <2>10 DEF ArchiveCommit, Idle
    <3> QED BY <2>u, <2>10, <3>1, NumbersUntouched DEF ArchiveCommit
  <2>11. CASE UNCHANGED vars
    BY <2>u, <2>11 DEF vars, NumbersInv, ReceiptNumbers
  <2> QED BY <2>1, <2>2, <2>3, <2>4, <2>5, <2>6, <2>7, <2>8, <2>9, <2>10, <2>11
          DEF Next, Begin, Proceed
<1>3. TypeOK /\ GapInv => NextNumbersAreFree
  BY CountsAreNatural DEF NumbersInv, NextNumbersAreFree, NextNumber
<1>4. TypeOK /\ CalmLedger /\ GapInv /\ [Next]_vars => GapInv'
  BY <1>2, GapsStay
<1>5. Init => GapInv
  BY <1>1
<1> HIDE DEF GapInv
<1> QED BY <1>3, <1>4, <1>5, FeesTypeCorrect, LedgerStaysCalm, PTL DEF Spec
=============================================================================
