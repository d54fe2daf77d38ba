----------------------------- MODULE MCWorkflow -----------------------------
(* Small instances of Workflow: a submission step and two or three others.  *)
EXTENDS Workflow, TLC

CONSTANTS ann, bob, cy

Rule(type, trigger, action, target) ==
    [type |-> type, trigger |-> trigger, action |-> action, target |-> target]

MCUser == {ann, bob, cy}
MCResolve == [s \in Step |-> CASE s = 1 -> ann [] s = 2 -> bob [] OTHER -> cy]
\* Two users, of whom ann is also the company admin.
TwoUsers == {ann, bob}
TwoResolve == [s \in Step |-> IF s = 2 THEN bob ELSE ann]
\* Step 2 is reassigned while its holder is absent, step 3 may be skipped while
\* step 2 still waits.
TwoRules == [s \in Step |->
    CASE s = 2 -> << Rule("REASSIGN", "ABSENT", "SKIP", ann) >>
      [] s = 3 -> << Rule("AUTO_ACTION", "ELAPSED", "SKIP", NoUser) >>
      [] OTHER -> <<>>]
ReqSymmetry == Permutations(Req)
NoHolder == [s \in Step |-> {}]
\* bob holds step 2 through a company role, as COMPANY_ROLE steps are resolved.
RoleHolder == [s \in Step |-> IF s = 2 THEN {bob} ELSE {}]

\* Every step has a rule that decides it, though not the first one: it is skipped at
\* once if its holder is absent, else step 2 is approved after a while and step 3 is
\* refused, with a reminder on the way.
AutoRules == [s \in Step |->
    CASE s = 2 -> << Rule("AUTO_ACTION", "ABSENT", "SKIP", NoUser),
                     Rule("AUTO_ACTION", "ELAPSED", "APPROVE", NoUser) >>
      [] s = 3 -> << Rule("AUTO_ACTION", "ABSENT", "SKIP", NoUser),
                     Rule("AUTO_ACTION", "ELAPSED", "REJECT", NoUser),
                     Rule("NOTIFY", "ELAPSED", "NOTIFY_ADMIN", NoUser) >>
      [] OTHER -> <<>>]
=============================================================================
