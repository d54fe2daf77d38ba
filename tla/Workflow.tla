------------------------------ MODULE Workflow ------------------------------
(***************************************************************************)
(* One workflow instance, the requests that act on it and the escalation   *)
(* job (modules/workflows/workflows.service.ts, escalation.service.ts, and *)
(* the external step data of modules/integrations/integrations.service.ts).*)
(*                                                                         *)
(* Every handler reads the instance with its steps, checks, and writes in  *)
(* a later transaction that checks nothing again: a handler is a read      *)
(* action that keeps what the code keeps in local variables, and a commit  *)
(* action that writes from them.                                           *)
(***************************************************************************)
EXTENDS Integers, Sequences

CONSTANTS
    NSteps,     \* steps of the template, in the order of WorkflowStep.order
    User, Admin,
    Starter,    \* holders of a Secretary or Account Assist role
    Submission, \* steps whose action is SUBMISSION
    Required,   \* steps with isRequired, which no handler reads
    Resolve,    \* Resolve[s]: whom resolveAssignee finds for step s, or NoUser
    Holder,     \* Holder[s]: who holds the company role of step s
    Rules,      \* Rules[s]: the escalation rules of step s by priority
    Req, Cron,  \* user requests in flight at a time, and the escalation job
    NoUser,
    Serial,     \* TRUE: no two handlers overlap between read and commit
    MaxEdits    \* bound: template edits while the instance exists

Step   == 1 .. NSteps
NoStep == 0
Proc   == Req \cup {Cron}

RuleType == [type : {"AUTO_ACTION", "NOTIFY", "REASSIGN"},
             trigger : {"ELAPSED", "ABSENT"},
             action : {"APPROVE", "REJECT", "SKIP", "NOTIFY_ADMIN"},
             target : User \cup {NoUser}]

ASSUME WorkflowAssumption ==
    /\ NSteps \in Nat
    /\ Admin \subseteq User /\ Starter \subseteq User
    /\ NoUser \notin User
    /\ Submission \subseteq Step /\ Required \subseteq Step
    /\ Resolve \in [Step -> User \cup {NoUser}]
    /\ Holder \in [Step -> SUBSET User]
    /\ Rules \in [Step -> Seq(RuleType)]
    /\ Cron \notin Req
    /\ Serial \in BOOLEAN
    /\ MaxEdits \in Nat

VARIABLES
    status,     \* WorkflowInstance.status, or "NONE" before it is started
    cur,        \* currentStepId
    initiator,
    live,       \* the step instances that exist
    st,         \* WorkflowStepInstance.status
    assigned,   \* assignedToUserId (delegatedToUserId is only ever written with it)
    original,   \* originalAssignedToUserId
    call,       \* what each handler in flight has read
    todo,       \* the pending steps the escalation job still has to visit
    due,        \* <<step, rule>>: rules whose timeout has elapsed
    edits

inst == <<status, cur, initiator, live, st, assigned, original>>
vars == <<inst, call, todo, due, edits>>

Idle    == [kind |-> "idle"]
Decided == {"COMPLETED", "REJECTED"}

Calls ==
    [kind : {"act"}, step : Step, rest : SUBSET Step, becomes : Decided]
    \cup [kind : {"cancel"}]
    \cup [kind : {"delegate"}, step : Step, first : User \cup {NoUser}, to : User]
    \cup [kind : {"data"}, step : Step, rest : SUBSET Step]
    \cup [kind : {"auto"}, step : Step, rest : SUBSET Step, becomes : Decided]

TypeOK ==
    /\ status \in {"NONE", "PENDING", "APPROVED", "REJECTED", "CANCELLED"}
    /\ cur \in Step \cup {NoStep}
    /\ initiator \in User \cup {NoUser}
    /\ live \subseteq Step
    /\ st \in [Step -> {"PENDING", "COMPLETED", "REJECTED"}]
    /\ assigned \in [Step -> User \cup {NoUser}]
    /\ original \in [Step -> User \cup {NoUser}]
    /\ call \in [Proc -> Calls \cup {Idle}]
    /\ todo \subseteq Step
    /\ due \subseteq Step \X Nat
    /\ edits \in 0 .. MaxEdits

Init ==
    /\ status = "NONE" /\ cur = NoStep /\ initiator = NoUser
    /\ live = {}
    /\ st = [s \in Step |-> "PENDING"]
    /\ assigned = [s \in Step |-> NoUser]
    /\ original = [s \in Step |-> NoUser]
    /\ call = [p \in Proc |-> Idle]
    /\ todo = {} /\ due = {} /\ edits = 0

-----------------------------------------------------------------------------

Open == {s \in live : st[s] = "PENDING"}

\* (Mutant of FirstOf: the last element, as if the steps came in reverse order.)
LastOf(S) == IF S = {} THEN NoStep ELSE CHOOSE s \in S : \A t \in S : t <= s

\* remaining[0]?.id ?? null, and find(s => s.status === 'PENDING').
FirstOf(S) == IF S = {} THEN NoStep ELSE CHOOSE s \in S : \A t \in S : s <= t

MayBegin(p) == call[p] = Idle /\ (Serial => \A q \in Proc : call[q] = Idle)

Begin(p, c) == call' = [call EXCEPT ![p] = c]
End(p)      == call' = [call EXCEPT ![p] = Idle]

\* (Mutant of Found: the handlers take any instance, whatever its status.)
FoundAny == status # "NONE"

\* where: { id, tenantId, status: 'PENDING' }
Found == status = "PENDING"

\* startInstance: resolve every step, create them in one transaction, complete
\* the submission steps and point at the first other one.
StartInstance(u) ==
    /\ status = "NONE"
    /\ u \in Starter
    /\ \A s \in Step : Resolve[s] # NoUser
    /\ LET first == FirstOf(Step \ Submission) IN
       /\ cur' = first
       /\ status' = IF first = NoStep THEN "APPROVED" ELSE "PENDING"
    /\ initiator' = u
    /\ live' = Step
    /\ st' = [s \in Step |-> IF s \in Submission THEN "COMPLETED" ELSE "PENDING"]
    /\ assigned' = Resolve
    /\ UNCHANGED <<original, call, todo, due, edits>>

-----------------------------------------------------------------------------
\* act: approve, reject, execute and complete.

\* find(s.id === currentStepId) ?? find(s.status === 'PENDING')
CurrentStep == IF cur \in live THEN cur ELSE FirstOf(Open)

MayAct(u, s) == u = assigned[s] \/ u \in Holder[s] \/ u \in Admin

ActRead(p, u, becomes) ==
    /\ MayBegin(p)
    /\ Found
    /\ CurrentStep # NoStep
    /\ MayAct(u, CurrentStep)
    /\ Begin(p, [kind |-> "act", step |-> CurrentStep, rest |-> Open \ {CurrentStep},
                 becomes |-> becomes])
    /\ UNCHANGED <<inst, todo, due, edits>>

\* (Mutant of Verdict: approved one step early.)
VerdictEarly(becomes, rest) ==
    IF becomes = "REJECTED" THEN "REJECTED" ELSE IF \A s, t \in rest : s = t THEN "APPROVED" ELSE "PENDING"

\* The instance's status after a step, from the steps that were open at the read.
Verdict(becomes, rest) ==
    IF becomes = "REJECTED" THEN "REJECTED" ELSE IF rest = {} THEN "APPROVED" ELSE "PENDING"

\* (Mutant of Decide: the handler writes every step back as it read it.)
DecideFromSnapshot(s, becomes, rest) ==
    /\ s \in live
    /\ st' = [t \in Step |-> IF t \in rest THEN "PENDING"
                            ELSE IF t = s THEN becomes ELSE st[t]]
    /\ status' = Verdict(becomes, rest)
    /\ cur' = FirstOf(rest)

\* The step update and the instance update of the three handlers that decide a
\* step, in one transaction.  A step instance that is gone fails and rolls back.
Decide(s, becomes, rest) ==
    /\ s \in live
    /\ st' = [st EXCEPT ![s] = becomes]
    /\ status' = Verdict(becomes, rest)
    /\ cur' = FirstOf(rest)

ActCommit(p) ==
    /\ call[p].kind = "act"
    /\ LET c == call[p] IN
       \/ Decide(c.step, c.becomes, c.rest) /\ UNCHANGED <<initiator, live, assigned, original>>
       \/ c.step \notin live /\ UNCHANGED inst
    /\ End(p)
    /\ UNCHANGED <<todo, due, edits>>

-----------------------------------------------------------------------------
\* submitStepDataFromIntegration: an API key completes the first open step.

DataRead(p) ==
    /\ MayBegin(p)
    /\ Found
    /\ Open # {}
    /\ Begin(p, [kind |-> "data", step |-> FirstOf(Open), rest |-> Open \ {FirstOf(Open)}])
    /\ UNCHANGED <<inst, todo, due, edits>>

DataCommit(p) ==
    /\ call[p].kind = "data"
    /\ LET c == call[p] IN
       \/ Decide(c.step, "COMPLETED", c.rest) /\ UNCHANGED <<initiator, live, assigned, original>>
       \/ c.step \notin live /\ UNCHANGED inst
    /\ End(p)
    /\ UNCHANGED <<todo, due, edits>>

-----------------------------------------------------------------------------

CancelRead(p, u) ==
    /\ MayBegin(p)
    /\ u = initiator \/ u \in Admin
    /\ Found
    /\ Begin(p, [kind |-> "cancel"])
    /\ UNCHANGED <<inst, todo, due, edits>>

CancelCommit(p) ==
    /\ call[p].kind = "cancel"
    /\ status' = "CANCELLED"
    /\ cur' = NoStep
    /\ End(p)
    /\ UNCHANGED <<initiator, live, st, assigned, original, todo, due, edits>>

\* originalAssignedToUserId ?? assignedToUserId
OriginalOf(s) == IF original[s] # NoUser THEN original[s] ELSE assigned[s]

\* delegate: the first open step goes to another member of the tenant.
DelegateRead(p, u, to) ==
    /\ MayBegin(p)
    /\ Found
    /\ Open # {}
    /\ u = assigned[FirstOf(Open)] \/ u \in Admin
    /\ to # u
    /\ LET s == FirstOf(Open) IN
       Begin(p, [kind |-> "delegate", step |-> s, first |-> OriginalOf(s), to |-> to])
    /\ UNCHANGED <<inst, todo, due, edits>>

DelegateCommit(p) ==
    /\ call[p].kind = "delegate"
    /\ LET c == call[p] IN
       \/ /\ c.step \in live
          /\ assigned' = [assigned EXCEPT ![c.step] = c.to]
          /\ original' = [original EXCEPT ![c.step] = c.first]
       \/ c.step \notin live /\ UNCHANGED <<assigned, original>>
    /\ End(p)
    /\ UNCHANGED <<status, cur, initiator, live, st, todo, due, edits>>

-----------------------------------------------------------------------------
\* The escalation job: a scan, then rule by rule over the steps it found.

\* Time passes until one more rule's timeout, counted from the instance's start.
Elapse ==
    /\ status # "NONE"
    /\ \E s \in Step : \E i \in DOMAIN Rules[s] :
         /\ Rules[s][i].trigger = "ELAPSED"
         /\ due' = due \cup {<<s, i>>}
    /\ UNCHANGED <<inst, call, todo, edits>>

Scan ==
    /\ todo = {} /\ call[Cron] = Idle
    /\ status = "PENDING"
    /\ todo' = {s \in Open : Rules[s] # <<>>}
    /\ UNCHANGED <<inst, call, due, edits>>

\* checkTrigger; whether the assignee is inactive is left open.
Fires(s, i, absent) ==
    IF Rules[s][i].trigger = "ABSENT" THEN absent ELSE <<s, i>> \in due

\* (Mutant of Chosen: the job looks at the rule of highest priority only.)
ChosenFirstOnly(s, i, absent) == i = 1 /\ Fires(s, i, absent)

\* The rule the job stops at: the first, by priority, whose trigger holds.
Chosen(s, i, absent) ==
    Fires(s, i, absent) /\ \A j \in 1 .. i - 1 : ~Fires(s, j, absent)

\* actionValue: APPROVE and SKIP both complete the step.
AutoOutcome(rule) == IF rule.action = "REJECT" THEN "REJECTED" ELSE "COMPLETED"

\* escalateStep AUTO_ACTION, up to its transaction: the read and its returns.
AutoRead(s, rule) ==
    /\ IF status = "PENDING" /\ s \in Open
       THEN Begin(Cron, [kind |-> "auto", step |-> s, rest |-> Open \ {s},
                         becomes |-> AutoOutcome(rule)])
       ELSE UNCHANGED call
    /\ todo' = todo \ {s}
    /\ UNCHANGED inst

\* escalateStep REASSIGN: one update by id, with no condition on any status.  A
\* step instance that is gone throws, which ends the whole evaluation.
Reassign(s, rule) ==
    /\ \/ /\ rule.target # NoUser /\ s \in live
          /\ assigned' = [assigned EXCEPT ![s] = rule.target]
          /\ todo' = todo \ {s}
       \/ /\ rule.target # NoUser /\ s \notin live
          /\ todo' = {}
          /\ UNCHANGED assigned
       \/ /\ rule.target = NoUser
          /\ todo' = todo \ {s}
          /\ UNCHANGED assigned
    /\ UNCHANGED <<status, cur, initiator, live, st, original, call>>

\* One iteration of runEvaluation's loop, over the steps in no particular order.
Evaluate(s) ==
    /\ s \in todo
    /\ MayBegin(Cron)
    /\ \E absent \in BOOLEAN :
       \/ /\ \A i \in DOMAIN Rules[s] : ~Chosen(s, i, absent)
          /\ todo' = todo \ {s}
          /\ UNCHANGED <<inst, call>>
       \/ \E i \in DOMAIN Rules[s] :
          /\ Chosen(s, i, absent)
          /\ LET rule == Rules[s][i] IN
             \/ rule.type = "AUTO_ACTION" /\ AutoRead(s, rule)
             \/ rule.type = "REASSIGN" /\ Reassign(s, rule)
             \/ /\ rule.type = "NOTIFY"
                /\ todo' = todo \ {s}
                /\ UNCHANGED <<inst, call>>
    /\ UNCHANGED <<due, edits>>

AutoCommit ==
    /\ call[Cron].kind = "auto"
    /\ LET c == call[Cron] IN
       \/ /\ Decide(c.step, c.becomes, c.rest)
          /\ UNCHANGED <<initiator, live, assigned, original, todo>>
       \/ c.step \notin live /\ todo' = {} /\ UNCHANGED inst
    /\ End(Cron)
    /\ UNCHANGED <<due, edits>>

\* updateTemplate with new steps deletes the old ones, and the foreign key's
\* cascade deletes the step instances of every instance of the template.
UpdateTemplate ==
    /\ edits < MaxEdits /\ live # {}
    /\ Serial => \A p \in Proc : call[p] = Idle
    /\ live' = {}
    /\ edits' = edits + 1
    /\ UNCHANGED <<status, cur, initiator, st, assigned, original, call, todo, due>>

-----------------------------------------------------------------------------

Request(p) ==
    \/ \E u \in User, becomes \in Decided : ActRead(p, u, becomes)
    \/ \E u \in User : CancelRead(p, u)
    \/ \E u, to \in User : DelegateRead(p, u, to)
    \/ DataRead(p)

Commit(p) == ActCommit(p) \/ CancelCommit(p) \/ DelegateCommit(p) \/ DataCommit(p)

Next ==
    \/ \E u \in User : StartInstance(u)
    \/ \E p \in Req : Request(p) \/ Commit(p)
    \/ Elapse \/ Scan \/ AutoCommit
    \/ \E s \in Step : Evaluate(s)
    \/ UpdateTemplate

Spec == Init /\ [][Next]_vars

\* The job and the handlers run to their end and timeouts elapse; requests that
\* keep coming do not keep the job from its turn (strong fairness, which only
\* matters where Serial makes them take turns).
EscalationSpec ==
    /\ Spec
    /\ WF_vars(Elapse) /\ SF_vars(Scan) /\ WF_vars(AutoCommit)
    /\ \A s \in Step : SF_vars(Evaluate(s))
    /\ \A p \in Req : WF_vars(Commit(p))

-----------------------------------------------------------------------------

Terminal == {"APPROVED", "REJECTED", "CANCELLED"}

\* "state machine PENDING -> APPROVED / REJECTED / CANCELLED": an instance that
\* has an outcome keeps it.
TerminalIsFinal == [][(status \in Terminal) => status' = status]_vars

\* However handlers overlap, a decided step is never reopened ...
DecidedStaysDecided == [][\A s \in Step : st[s] # "PENDING" => st'[s] # "PENDING" \/ status = "NONE"]_vars

\* ... no user decides a step while an earlier one is still open ...
NoStepOvertaken ==
    [][\A p \in Req : call[p].kind = "act" /\ call'[p] = Idle
         => \A t \in live : t < call[p].step => st[t] # "PENDING"]_vars

\* ... an instance is never approved while a step of it is open ...
ApprovedHasNoOpenStep == status = "APPROVED" => Open = {}

\* ... and one that waits never loses its pointer.
PendingHasPointer == status = "PENDING" => cur # NoStep

\* With a rule on every step that decides it, no instance waits for ever.
EscalationFinishes == status = "PENDING" ~> status \in Terminal

-----------------------------------------------------------------------------
\* Without overlap the instance implements its promise.
Lifecycle == INSTANCE WorkflowLifecycle WITH decided <- {s \in Step : st[s] # "PENDING"}
ImplementsLifecycle == Lifecycle!Spec
=============================================================================
