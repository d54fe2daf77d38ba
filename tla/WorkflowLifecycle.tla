------------------------- MODULE WorkflowLifecycle -------------------------
(***************************************************************************)
(* What a workflow instance promises its users: it waits for its steps one *)
(* decision at a time, is approved by the last one, rejected by the first  *)
(* refusal or cancelled while it waits, and is then final.                 *)
(***************************************************************************)
CONSTANT Step

VARIABLES status, decided

lvars == <<status, decided>>

Init == status = "NONE" /\ decided = {}

\* Starting decides the submission steps; an instance of nothing else is done.
Submit ==
    /\ status = "NONE"
    /\ \E S \in SUBSET Step :
         /\ decided' = S
         /\ status' = IF S = Step THEN "APPROVED" ELSE "PENDING"

Complete ==
    /\ status = "PENDING"
    /\ \E s \in Step \ decided :
         /\ decided' = decided \cup {s}
         /\ status' = IF decided \cup {s} = Step THEN "APPROVED" ELSE "PENDING"

Reject ==
    /\ status = "PENDING"
    /\ \E s \in Step \ decided : decided' = decided \cup {s}
    /\ status' = "REJECTED"

Cancel ==
    /\ status = "PENDING"
    /\ status' = "CANCELLED"
    /\ UNCHANGED decided

Next == Submit \/ Complete \/ Reject \/ Cancel

Spec == Init /\ [][Next]_lvars
=============================================================================
