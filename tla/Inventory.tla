------------------------------ MODULE Inventory -----------------------------
(***************************************************************************)
(* The quantity of an item of the inventory and what its adjustments leave *)
(* in the audit log and tell the managers (adjust of                       *)
(* modules/inventory/inventory.service.ts).  An adjustment reads the       *)
(* quantity and later writes the one it computed, with the entry of the    *)
(* log and the notice after it; several are in flight.                     *)
(***************************************************************************)
EXTENDS Integers, Sequences, FiniteSets

\* What an adjustment that read a quantity writes, or NoWrite where it is refused.
NoWrite == -1
NextQuantity(read, delta) == IF read + delta < 0 THEN NoWrite ELSE read + delta
LogEntry(read, delta)     == [delta |-> delta, before |-> read, after |-> read + delta]
IsLowStock(quantity, min) == quantity <= min
TellsManagers(read, delta, min) == IsLowStock(read + delta, min) /\ ~IsLowStock(read, min)

\* The item after adjustments whose reads and writes come in an order: the first
\* mention of one is its read, the second its write.
StockLeft(start, min, deltas, order) ==
    LET readAt(i)   == {j \in 1 .. i - 1 : order[j] = order[i]}
        after[i \in 0 .. Len(order)] ==
            IF i = 0 THEN [quantity |-> start, log |-> << >>, told |-> << >>]
            ELSE IF readAt(i) = {} THEN after[i - 1]
            ELSE LET read  == after[(CHOOSE j \in readAt(i) : TRUE) - 1].quantity
                     delta == deltas[order[i]]
                 IN  IF NextQuantity(read, delta) = NoWrite THEN after[i - 1]
                     ELSE [quantity |-> NextQuantity(read, delta),
                           log      |-> Append(after[i - 1].log, LogEntry(read, delta)),
                           told     |-> IF TellsManagers(read, delta, min)
                                        THEN Append(after[i - 1].told, read + delta) ELSE after[i - 1].told]
    IN  after[Len(order)]

-----------------------------------------------------------------------------
\* Up to three adjustments of an item that is low at two.

Low    == 2
Starts == 0 .. 4
Deltas == [1 .. 3 -> {-3, -1, 2, 4}]
Flights == {o \in [1 .. 6 -> 1 .. 3] : \A k \in 1 .. 3 : Cardinality({i \in 1 .. 6 : o[i] = k}) = 2}
Sequential == {o \in Flights : \A i \in {1, 3, 5} : o[i] = o[i + 1]}
SumOf(log) == LET sum[i \in 0 .. Len(log)] == IF i = 0 THEN 0 ELSE sum[i - 1] + log[i].delta IN sum[Len(log)]
Runs(start, log) == \A i \in DOMAIN log : log[i].before = IF i = 1 THEN start ELSE log[i - 1].after

\* However adjustments overlap, no quantity is below zero, the last entry of the log
\* says what is there, and an item that was not low and now is has been told of.
ASSUME OverlapKeepsTheLastEntry ==
    \A start \in Starts, deltas \in Deltas, order \in Flights :
        LET item == StockLeft(start, Low, deltas, order) IN
        /\ item.quantity >= 0
        /\ item.log # << >> => item.quantity = item.log[Len(item.log)].after
        /\ IsLowStock(item.quantity, Low) /\ ~IsLowStock(start, Low) => item.told # << >>

\* One after the other, the log also explains the quantity and there is a notice
\* for every time it fell to the mark.
ASSUME LogExplainsQuantity ==
    \A start \in Starts, deltas \in Deltas, order \in Sequential :
        LET item == StockLeft(start, Low, deltas, order) IN
        /\ item.quantity = start + SumOf(item.log) /\ Runs(start, item.log)
        /\ Len(item.told) = Cardinality({i \in DOMAIN item.log :
                                IsLowStock(item.log[i].after, Low) /\ ~IsLowStock(item.log[i].before, Low)})

\* Overlapping, an adjustment that is in the log is lost from the quantity, and an
\* item that rose and fell again is not told of.
ASSUME AdjustmentIsLost ==
    \E start \in Starts, deltas \in Deltas, order \in Flights :
        LET item == StockLeft(start, Low, deltas, order) IN item.quantity # start + SumOf(item.log)
ASSUME FallIsNotTold ==
    \E start \in Starts, deltas \in Deltas, order \in Flights :
        LET item == StockLeft(start, Low, deltas, order)
            n == Len(item.log)
        IN  n = 3 /\ item.told = << >> /\ ~IsLowStock(item.log[2].after, Low) /\ IsLowStock(item.quantity, Low)
=============================================================================
