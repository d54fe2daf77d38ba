SPECIFICATION Spec
CONSTANTS
    Student = {ada, obi}
    Removable = {obi}
    Invoice = {k1, k2}
    Total = {0, 2}
    Req = {p, q}
    MaxReceipt = 3
    NoStudent = NoStudent
SYMMETRY FeesSymmetry
INVARIANTS PaidWasReceived PaidHasReceipts NextNumbersAreFree
PROPERTY ReceiptsAreKept
\* The invoices, the receipts and the debts of the instance are used up.
CHECK_DEADLOCK FALSE
