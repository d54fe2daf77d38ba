--------------------------- MODULE WorkflowProofs ---------------------------
(***************************************************************************)
(* What holds of Workflow for any template, any users and any number of    *)
(* overlapping handlers, and what holds once handlers do not overlap.      *)
(***************************************************************************)
EXTENDS Workflow, WellFoundedInduction, TLAPS

\* The constants are what WorkflowAssumption says.
USE WorkflowAssumption

-----------------------------------------------------------------------------
\* The first element of a set of steps.

LEMMA SmallestStep ==
    ASSUME NEW S \in SUBSET Step, S # {}
    PROVE  \E s \in S : \A t \in S : s <= t
<1> DEFINE R == {p \in Nat \X Nat : p[1] < p[2]}
<1>1. IsWellFoundedOn(R, Nat)
  BY NatLessThanWellFounded DEF OpToRel
<1>2. S \subseteq Nat
  BY DEF Step
<1> HIDE DEF R
<1>3. PICK s \in S : \A t \in S : <<t, s>> \notin R
  BY <1>1, <1>2, WFMin
<1>4. \A x, y \in Nat : <<x, y>> \notin R => y <= x
  BY DEF R
<1>5. \A t \in S : s <= t
  BY <1>2, <1>3, <1>4
<1> QED BY <1>5

\* FirstOf returns the smallest step of a set, and NoStep for the empty set only.
LEMMA FirstOfProperty ==
    ASSUME NEW S \in SUBSET Step
    PROVE  /\ FirstOf(S) \in Step \cup {NoStep}
           /\ S = {} => FirstOf(S) = NoStep
           /\ S # {} => FirstOf(S) \in S /\ FirstOf(S) # NoStep
           /\ \A t \in S : FirstOf(S) <= t
<1>1. CASE S = {}
  BY <1>1 DEF FirstOf
<1>2. CASE S # {}
  <2>1. FirstOf(S) \in S /\ \A t \in S : FirstOf(S) <= t
    BY <1>2, SmallestStep DEF FirstOf
  <2>2. NoStep \notin Step
    BY DEF Step, NoStep
  <2> QED BY <1>2, <2>1, <2>2
<1> QED BY <1>1, <1>2

LEMMA NoStepIsNoStep == NoStep \notin Step
BY DEF Step, NoStep

-----------------------------------------------------------------------------
\* What a handler keeps between its read and its commit, by the kind of call.

LEMMA CallFields ==
    ASSUME NEW c \in Calls \cup {Idle}
    PROVE  /\ c.kind \in {"idle", "act", "cancel", "delegate", "data", "auto"}
           /\ c.kind \in {"act", "data", "auto"} => c.step \in Step /\ c.rest \in SUBSET Step
           /\ c.kind \in {"act", "auto"} => c.becomes \in Decided
           /\ c.kind = "delegate" => /\ c.step \in Step
                                     /\ c.first \in User \cup {NoUser}
                                     /\ c.to \in User
BY DEF Calls, Idle

LEMMA OpenIsSteps == TypeOK => Open \in SUBSET Step
BY DEF TypeOK, Open

LEMMA CurrentStepIsStep == TypeOK => CurrentStep \in Step \cup {NoStep}
BY OpenIsSteps, FirstOfProperty DEF TypeOK, CurrentStep

LEMMA VerdictType ==
    ASSUME NEW becomes, NEW rest
    PROVE  Verdict(becomes, rest) \in {"PENDING", "APPROVED", "REJECTED"}
BY DEF Verdict

\* Deciding a step keeps the types of what it writes.
LEMMA DecideType ==
    ASSUME TypeOK, NEW s \in Step, NEW becomes \in Decided, NEW rest \in SUBSET Step,
           Decide(s, becomes, rest)
    PROVE  /\ st' \in [Step -> {"PENDING", "COMPLETED", "REJECTED"}]
           /\ status' \in {"NONE", "PENDING", "APPROVED", "REJECTED", "CANCELLED"}
           /\ cur' \in Step \cup {NoStep}
<1>1. cur' \in Step \cup {NoStep}
  BY FirstOfProperty DEF Decide
<1>2. status' \in {"PENDING", "APPROVED", "REJECTED"}
  BY VerdictType DEF Decide
<1> QED BY <1>1, <1>2 DEF Decide, TypeOK, Decided

\* Every variable keeps its type.
THEOREM WorkflowTypeCorrect == Spec => []TypeOK
<1>1. Init => TypeOK
  BY DEF Init, TypeOK, WorkflowAssumption
<1>2. TypeOK /\ [Next]_vars => TypeOK'
  <2> SUFFICES ASSUME TypeOK, [Next]_vars PROVE TypeOK'
    OBVIOUS
  <2>1. ASSUME NEW u \in User, StartInstance(u) PROVE TypeOK'
    <3>1. FirstOf(Step \ Submission) \in Step \cup {NoStep}
      BY FirstOfProperty
    <3>2. live' \subseteq Step /\ st' \in [Step -> {"PENDING", "COMPLETED", "REJECTED"}]
      BY <2>1 DEF StartInstance
    <3>3. cur' \in Step \cup {NoStep}
      BY <2>1, <3>1 DEF StartInstance
    <3> QED BY <2>1, <3>2, <3>3 DEF StartInstance, TypeOK, WorkflowAssumption
  <2>2. ASSUME NEW p \in Req, NEW u \in User, NEW becomes \in Decided, ActRead(p, u, becomes)
        PROVE  TypeOK'
    <3>1. Open \ {CurrentStep} \in SUBSET Step /\ CurrentStep \in Step
      BY <2>2, OpenIsSteps, CurrentStepIsStep DEF ActRead
    <3>2. [kind |-> "act", step |-> CurrentStep, rest |-> Open \ {CurrentStep},
           becomes |-> becomes] \in Calls
      BY <3>1 DEF Calls
    <3> QED BY <2>2, <3>2 DEF ActRead, Begin, TypeOK, inst
  <2>3. ASSUME NEW p \in Req, ActCommit(p) PROVE TypeOK'
    <3>1. /\ call[p].step \in Step /\ call[p].rest \in SUBSET Step
          /\ call[p].becomes \in Decided
          /\ call' \in [Proc -> Calls \cup {Idle}]
      BY <2>3, CallFields DEF ActCommit, TypeOK, End, Proc
    <3> QED BY <2>3, <3>1, DecideType DEF ActCommit, TypeOK, inst
  <2>4. ASSUME NEW p \in Req, DataRead(p) PROVE TypeOK'
    <3>1. Open \ {FirstOf(Open)} \in SUBSET Step /\ FirstOf(Open) \in Step
      BY <2>4, OpenIsSteps, FirstOfProperty DEF DataRead
    <3>2. [kind |-> "data", step |-> FirstOf(Open), rest |-> Open \ {FirstOf(Open)}] \in Calls
      BY <3>1 DEF Calls
    <3> QED BY <2>4, <3>2 DEF DataRead, Begin, TypeOK, inst
  <2>5. ASSUME NEW p \in Req, DataCommit(p) PROVE TypeOK'
    <3>1. /\ call[p].step \in Step /\ call[p].rest \in SUBSET Step
          /\ call' \in [Proc -> Calls \cup {Idle}]
      BY <2>5, CallFields DEF DataCommit, TypeOK, End, Proc
    <3> QED BY <2>5, <3>1, DecideType DEF DataCommit, TypeOK, inst, Decided
  <2>6. ASSUME NEW p \in Req, NEW u \in User, CancelRead(p, u) PROVE TypeOK'
    <3>1. [kind |-> "cancel"] \in Calls
      BY DEF Calls
    <3> QED BY <2>6, <3>1 DEF CancelRead, Begin, TypeOK, inst
  <2>7. ASSUME NEW p \in Req, CancelCommit(p) PROVE TypeOK'
    BY <2>7 DEF CancelCommit, End, TypeOK
  <2>8. ASSUME NEW p \in Req, NEW u \in User, NEW to \in User, DelegateRead(p, u, to)
        PROVE  TypeOK'
    <3> DEFINE s == FirstOf(Open)
    <3>1. s \in Step /\ OriginalOf(s) \in User \cup {NoUser}
      BY <2>8, OpenIsSteps, FirstOfProperty DEF DelegateRead, TypeOK, OriginalOf
    <3> HIDE DEF s
    <3>2. [kind |-> "delegate", step |-> s, first |-> OriginalOf(s), to |-> to] \in Calls
      BY <3>1 DEF Calls
    <3> QED BY <2>8, <3>2 DEF DelegateRead, Begin, TypeOK, inst, s
  <2>9. ASSUME NEW p \in Req, DelegateCommit(p) PROVE TypeOK'
    <3>1. /\ call[p].step \in Step /\ call[p].first \in User \cup {NoUser}
          /\ call[p].to \in User
      BY <2>9, CallFields DEF DelegateCommit, TypeOK, Proc
    <3> QED BY <2>9, <3>1 DEF DelegateCommit, End, TypeOK
  <2>10. ASSUME Elapse PROVE TypeOK'
    BY <2>10 DEF Elapse, TypeOK, inst, WorkflowAssumption
  <2>11. ASSUME Scan PROVE TypeOK'
    BY <2>11, OpenIsSteps DEF Scan, TypeOK, inst
  <2>12. ASSUME NEW s \in Step, Evaluate(s) PROVE TypeOK'
    <3>0. UNCHANGED <<due, edits>>
      BY <2>12 DEF Evaluate
    <3>1. ASSUME NEW i \in DOMAIN Rules[s], AutoRead(s, Rules[s][i]) PROVE TypeOK'
      <4>1. AutoOutcome(Rules[s][i]) \in Decided
        BY DEF AutoOutcome, Decided
      <4>2. [kind |-> "auto", step |-> s, rest |-> Open \ {s},
             becomes |-> AutoOutcome(Rules[s][i])] \in Calls
        BY <4>1, OpenIsSteps DEF Calls
      <4>3. call' \in [Proc -> Calls \cup {Idle}]
        BY <3>1, <4>2 DEF AutoRead, Begin, TypeOK
      <4> QED BY <3>0, <3>1, <4>3 DEF AutoRead, TypeOK, inst
    <3>2. ASSUME NEW i \in DOMAIN Rules[s], Reassign(s, Rules[s][i]) PROVE TypeOK'
      <4>1. Rules[s][i].target \in User \cup {NoUser}
        <5>1. Rules[s] \in Seq(RuleType)
          BY DEF WorkflowAssumption
        <5>2. Rules[s][i] \in RuleType
          BY <5>1
        <5> QED BY <5>2 DEF RuleType
      <4> QED BY <3>0, <3>2, <4>1 DEF Reassign, TypeOK
    <3>3. CASE todo' = todo \ {s} /\ UNCHANGED <<inst, call>>
      BY <3>0, <3>3 DEF TypeOK, inst
    <3> QED BY <2>12, <3>1, <3>2, <3>3 DEF Evaluate
  <2>13. ASSUME AutoCommit PROVE TypeOK'
    <3>1. /\ call[Cron].step \in Step /\ call[Cron].rest \in SUBSET Step
          /\ call[Cron].becomes \in Decided
          /\ call' \in [Proc -> Calls \cup {Idle}]
      BY <2>13, CallFields DEF AutoCommit, TypeOK, End, Proc
    <3> QED BY <2>13, <3>1, DecideType DEF AutoCommit, TypeOK, inst
  <2>14. ASSUME UpdateTemplate PROVE TypeOK'
    BY <2>14 DEF UpdateTemplate, TypeOK, WorkflowAssumption
  <2>15. CASE UNCHANGED vars
    BY <2>15 DEF vars, inst, TypeOK
  <2> QED BY <2>1, <2>2, <2>3, <2>4, <2>5, <2>6, <2>7, <2>8, <2>9, <2>10, <2>11, <2>12,
             <2>13, <2>14, <2>15 DEF Next, Request, Commit
<1> QED BY <1>1, <1>2, PTL DEF Spec

-----------------------------------------------------------------------------
\* Handlers overlapping freely.  Steps only ever leave "PENDING", so what a
\* handler remembers as open contains everything that is still open, and what
\* it remembers as decided still is.

CallsSound ==
    \A p \in Proc :
        /\ call[p].kind \in {"act", "data", "auto"}
              => \A t \in Open : t # call[p].step => t \in call[p].rest
        /\ call[p].kind \in {"act", "data"}
              => \A t \in Open : call[p].step <= t

PointerSound == \A t \in Open : cur <= t

NotStarted == status = "NONE" => live = {} /\ \A p \in Proc : call[p] = Idle

Sound ==
    /\ CallsSound
    /\ PointerSound
    /\ NotStarted
    /\ ApprovedHasNoOpenStep
    /\ PendingHasPointer

\* A step that opens nothing and keeps or ends calls keeps what they remember.
LEMMA ShrinkKeepsCalls ==
    ASSUME CallsSound, Open' \subseteq Open,
           \A p \in Proc : call'[p] = call[p] \/ call'[p] = Idle
    PROVE  CallsSound'
BY DEF CallsSound, Idle

\* Beginning a call whose memory is sound keeps the calls sound.
LEMMA BeginKeepsCalls ==
    ASSUME TypeOK, CallsSound, UNCHANGED inst, NEW p \in Proc, NEW c,
           Begin(p, c),
           c.kind \in {"act", "data", "auto"} => \A t \in Open : t # c.step => t \in c.rest,
           c.kind \in {"act", "data"} => \A t \in Open : c.step <= t
    PROVE  CallsSound'
<1>1. Open' = Open
  BY DEF Open, inst
<1>2. \A q \in Proc : call'[q] = IF q = p THEN c ELSE call[q]
  BY DEF Begin, TypeOK
<1> QED BY <1>1, <1>2 DEF CallsSound

\* What reads and bookkeeping leave alone.
LEMMA StaticKeepsRest ==
    ASSUME Sound, UNCHANGED inst, status # "NONE"
    PROVE  PointerSound' /\ NotStarted' /\ ApprovedHasNoOpenStep' /\ PendingHasPointer'
BY DEF Sound, PointerSound, NotStarted, ApprovedHasNoOpenStep, PendingHasPointer, Open, inst

\* The heart of the argument: a commit writes the status and the pointer its
\* snapshot yields, and they are right for the steps as they are now.
LEMMA DecideSound ==
    ASSUME TypeOK, Sound, NEW s \in Step, NEW becomes \in Decided, NEW rest \in SUBSET Step,
           \A t \in Open : t # s => t \in rest,
           Decide(s, becomes, rest), live' = live
    PROVE  /\ Open' \subseteq Open \ {s}
           /\ PointerSound' /\ NotStarted' /\ ApprovedHasNoOpenStep' /\ PendingHasPointer'
<1>1. Open' \subseteq Open \ {s}
  BY DEF Decide, Open, TypeOK, Decided
<1>2. PointerSound'
  <2>1. \A t \in rest : FirstOf(rest) <= t
    BY FirstOfProperty
  <2> QED BY <1>1, <2>1 DEF PointerSound, Decide
<1>3. status' # "NONE"
  BY VerdictType DEF Decide
<1>4. status' = "APPROVED" => rest = {}
  BY DEF Decide, Verdict, Decided
<1>5. status' = "PENDING" => rest # {}
  BY DEF Decide, Verdict, Decided
<1>6. ApprovedHasNoOpenStep'
  BY <1>1, <1>4 DEF ApprovedHasNoOpenStep
<1>7. PendingHasPointer'
  <2>1. rest # {} => FirstOf(rest) # NoStep
    BY FirstOfProperty
  <2> QED BY <1>5, <2>1 DEF PendingHasPointer, Decide
<1> QED BY <1>1, <1>2, <1>3, <1>6, <1>7 DEF NotStarted

LEMMA SoundStep ==
    ASSUME TypeOK, Sound, [Next]_vars
    PROVE  Sound'
<1>1. ASSUME NEW u \in User, StartInstance(u) PROVE Sound'
  <2> DEFINE S == Step \ Submission
  <2>1. Open' = S
    BY <1>1 DEF StartInstance, Open
  <2>2. call' = call /\ \A p \in Proc : call[p] = Idle
    BY <1>1 DEF StartInstance, Sound, NotStarted
  <2>3. CallsSound'
    BY <2>2 DEF CallsSound, Idle
  <2>4. /\ cur' = FirstOf(S)
        /\ status' = IF FirstOf(S) = NoStep THEN "APPROVED" ELSE "PENDING"
    BY <1>1 DEF StartInstance
  <2>5. /\ S # {} => FirstOf(S) # NoStep
        /\ \A t \in S : FirstOf(S) <= t
    BY FirstOfProperty
  <2> QED BY <2>1, <2>3, <2>4, <2>5
          DEF Sound, PointerSound, NotStarted, ApprovedHasNoOpenStep, PendingHasPointer
<1>2. ASSUME NEW p \in Req, NEW u \in User, NEW becomes \in Decided, ActRead(p, u, becomes)
      PROVE  Sound'
  <2>1. \A t \in Open : CurrentStep <= t
    BY OpenIsSteps, FirstOfProperty DEF CurrentStep, Sound, PointerSound
  <2> DEFINE c == [kind |-> "act", step |-> CurrentStep, rest |-> Open \ {CurrentStep},
                   becomes |-> becomes]
  <2>2. Begin(p, c) /\ UNCHANGED inst /\ status # "NONE"
    BY <1>2 DEF ActRead, Found
  <2>3. c.kind = "act" /\ c.step = CurrentStep /\ c.rest = Open \ {CurrentStep}
    OBVIOUS
  <2> HIDE DEF c
  <2>4. CallsSound'
    BY <2>1, <2>2, <2>3, BeginKeepsCalls DEF Sound, Proc
  <2> QED BY <2>2, <2>4, StaticKeepsRest DEF Sound
<1>3. ASSUME NEW p \in Req, ActCommit(p) PROVE Sound'
  <2> DEFINE c == call[p]
  <2>1. p \in Proc /\ c.step \in Step /\ c.rest \in SUBSET Step /\ c.becomes \in Decided
    BY <1>3, CallFields DEF ActCommit, TypeOK, Proc
  <2>2. \A q \in Proc : call'[q] = call[q] \/ call'[q] = Idle
    BY <1>3 DEF ActCommit, End, TypeOK
  <2>3. CASE Decide(c.step, c.becomes, c.rest) /\ live' = live
    <3>1. \A t \in Open : t # c.step => t \in c.rest
      BY <1>3, <2>1 DEF ActCommit, Sound, CallsSound
    <3> QED BY <2>1, <2>2, <2>3, <3>1, DecideSound, ShrinkKeepsCalls DEF Sound
  <2>4. CASE UNCHANGED inst
    <3>1. status # "NONE"
      BY <1>3, <2>1 DEF ActCommit, Sound, NotStarted, Idle
    <3>2. Open' = Open
      BY <2>4 DEF Open, inst
    <3> QED BY <2>2, <2>4, <3>1, <3>2, StaticKeepsRest, ShrinkKeepsCalls DEF Sound
  <2> QED BY <1>3, <2>3, <2>4 DEF ActCommit
<1>4. ASSUME NEW p \in Req, DataRead(p) PROVE Sound'
  <2>1. \A t \in Open : FirstOf(Open) <= t
    BY OpenIsSteps, FirstOfProperty
  <2> DEFINE c == [kind |-> "data", step |-> FirstOf(Open), rest |-> Open \ {FirstOf(Open)}]
  <2>2. Begin(p, c) /\ UNCHANGED inst /\ status # "NONE"
    BY <1>4 DEF DataRead, Found
  <2>3. c.kind = "data" /\ c.step = FirstOf(Open) /\ c.rest = Open \ {FirstOf(Open)}
    OBVIOUS
  <2> HIDE DEF c
  <2>4. CallsSound'
    BY <2>1, <2>2, <2>3, BeginKeepsCalls DEF Sound, Proc
  <2> QED BY <2>2, <2>4, StaticKeepsRest DEF Sound
<1>5. ASSUME NEW p \in Req, DataCommit(p) PROVE Sound'
  <2> DEFINE c == call[p]
  <2>1. p \in Proc /\ c.step \in Step /\ c.rest \in SUBSET Step /\ "COMPLETED" \in Decided
    BY <1>5, CallFields DEF DataCommit, TypeOK, Proc, Decided
  <2>2. \A q \in Proc : call'[q] = call[q] \/ call'[q] = Idle
    BY <1>5 DEF DataCommit, End, TypeOK
  <2>3. CASE Decide(c.step, "COMPLETED", c.rest) /\ live' = live
    <3>1. \A t \in Open : t # c.step => t \in c.rest
      BY <1>5, <2>1 DEF DataCommit, Sound, CallsSound
    <3> QED BY <2>1, <2>2, <2>3, <3>1, DecideSound, ShrinkKeepsCalls DEF Sound
  <2>4. CASE UNCHANGED inst
    <3>1. status # "NONE"
      BY <1>5, <2>1 DEF DataCommit, Sound, NotStarted, Idle
    <3>2. Open' = Open
      BY <2>4 DEF Open, inst
    <3> QED BY <2>2, <2>4, <3>1, <3>2, StaticKeepsRest, ShrinkKeepsCalls DEF Sound
  <2> QED BY <1>5, <2>3, <2>4 DEF DataCommit
<1>6. ASSUME NEW p \in Req, NEW u \in User, CancelRead(p, u) PROVE Sound'
  <2> DEFINE c == [kind |-> "cancel"]
  <2>1. Begin(p, c) /\ UNCHANGED inst /\ status # "NONE" /\ c.kind = "cancel"
    BY <1>6 DEF CancelRead, Found
  <2> HIDE DEF c
  <2>2. CallsSound'
    BY <2>1, BeginKeepsCalls DEF Sound, Proc
  <2> QED BY <2>1, <2>2, StaticKeepsRest DEF Sound
<1>7. ASSUME NEW p \in Req, CancelCommit(p) PROVE Sound'
  <2>1. Open' = Open /\ \A q \in Proc : call'[q] = call[q] \/ call'[q] = Idle
    BY <1>7 DEF CancelCommit, End, TypeOK, Open
  <2>2. CallsSound'
    BY <2>1, ShrinkKeepsCalls DEF Sound
  <2>3. \A t \in Open : NoStep <= t
    BY OpenIsSteps DEF Step, NoStep
  <2> QED BY <1>7, <2>1, <2>2, <2>3
          DEF CancelCommit, Sound, PointerSound, NotStarted, ApprovedHasNoOpenStep, PendingHasPointer
<1>8. ASSUME NEW p \in Req, NEW u \in User, NEW to \in User, DelegateRead(p, u, to)
      PROVE  Sound'
  <2> DEFINE c == [kind |-> "delegate", step |-> FirstOf(Open),
                   first |-> OriginalOf(FirstOf(Open)), to |-> to]
  <2>1. Begin(p, c) /\ UNCHANGED inst /\ status # "NONE" /\ c.kind = "delegate"
    BY <1>8 DEF DelegateRead, Found
  <2> HIDE DEF c
  <2>2. CallsSound'
    BY <2>1, BeginKeepsCalls DEF Sound, Proc
  <2> QED BY <2>1, <2>2, StaticKeepsRest DEF Sound
<1>9. ASSUME NEW p \in Req, DelegateCommit(p) PROVE Sound'
  <2>1. /\ Open' = Open /\ UNCHANGED <<status, cur, live>>
        /\ \A q \in Proc : call'[q] = call[q] \/ call'[q] = Idle
    BY <1>9 DEF DelegateCommit, End, TypeOK, Open
  <2>2. CallsSound'
    BY <2>1, ShrinkKeepsCalls DEF Sound
  <2>3. status # "NONE"
    BY <1>9 DEF DelegateCommit, Sound, NotStarted, Idle, Proc
  <2> QED BY <2>1, <2>2, <2>3
          DEF Sound, PointerSound, NotStarted, ApprovedHasNoOpenStep, PendingHasPointer
<1>10. CASE Elapse \/ Scan \/ UNCHANGED vars
  <2>1. UNCHANGED <<inst, call>>
    BY <1>10 DEF Elapse, Scan, vars
  <2>2. Open' = Open
    BY <2>1 DEF Open, inst
  <2> QED BY <2>1, <2>2 DEF Sound, CallsSound, PointerSound, NotStarted,
                            ApprovedHasNoOpenStep, PendingHasPointer, inst
<1>11. ASSUME NEW s \in Step, Evaluate(s) PROVE Sound'
  <2>1. CASE UNCHANGED <<inst, call>>
    <3>1. Open' = Open
      BY <2>1 DEF Open, inst
    <3> QED BY <2>1, <3>1 DEF Sound, CallsSound, PointerSound, NotStarted,
                              ApprovedHasNoOpenStep, PendingHasPointer, inst
  <2>2. ASSUME NEW i \in DOMAIN Rules[s], AutoRead(s, Rules[s][i]) PROVE Sound'
    <3>1. CASE status = "PENDING" /\ s \in Open
      <4> DEFINE c == [kind |-> "auto", step |-> s, rest |-> Open \ {s},
                       becomes |-> AutoOutcome(Rules[s][i])]
      <4>1. Begin(Cron, c) /\ UNCHANGED inst /\ status # "NONE"
        BY <2>2, <3>1 DEF AutoRead
      <4>2. c.kind = "auto" /\ c.step = s /\ c.rest = Open \ {s}
        OBVIOUS
      <4> HIDE DEF c
      <4>3. CallsSound'
        BY <4>1, <4>2, BeginKeepsCalls DEF Sound, Proc
      <4> QED BY <4>1, <4>3, StaticKeepsRest DEF Sound
    <3> QED BY <2>1, <2>2, <3>1 DEF AutoRead
  <2>3. ASSUME NEW i \in DOMAIN Rules[s], Reassign(s, Rules[s][i]) PROVE Sound'
    <3>1. Open' = Open /\ UNCHANGED <<status, cur, live, call>>
      BY <2>3 DEF Reassign, Open
    <3> QED BY <3>1 DEF Sound, CallsSound, PointerSound, NotStarted,
                        ApprovedHasNoOpenStep, PendingHasPointer
  <2> QED BY <1>11, <2>1, <2>2, <2>3 DEF Evaluate
<1>12. ASSUME AutoCommit PROVE Sound'
  <2> DEFINE c == call[Cron]
  <2>1. Cron \in Proc /\ c.step \in Step /\ c.rest \in SUBSET Step /\ c.becomes \in Decided
    BY <1>12, CallFields DEF AutoCommit, TypeOK, Proc
  <2>2. \A q \in Proc : call'[q] = call[q] \/ call'[q] = Idle
    BY <1>12 DEF AutoCommit, End, TypeOK
  <2>3. CASE Decide(c.step, c.becomes, c.rest) /\ live' = live
    <3>1. \A t \in Open : t # c.step => t \in c.rest
      BY <1>12, <2>1 DEF AutoCommit, Sound, CallsSound
    <3> QED BY <2>1, <2>2, <2>3, <3>1, DecideSound, ShrinkKeepsCalls DEF Sound
  <2>4. CASE UNCHANGED inst
    <3>1. status # "NONE"
      BY <1>12, <2>1 DEF AutoCommit, Sound, NotStarted, Idle
    <3>2. Open' = Open
      BY <2>4 DEF Open, inst
    <3> QED BY <2>2, <2>4, <3>1, <3>2, StaticKeepsRest, ShrinkKeepsCalls DEF Sound
  <2> QED BY <1>12, <2>3, <2>4 DEF AutoCommit
<1>13. ASSUME UpdateTemplate PROVE Sound'
  <2>1. Open' = {} /\ UNCHANGED <<status, cur, call>> /\ live' = {}
    BY <1>13 DEF UpdateTemplate, Open
  <2> QED BY <2>1 DEF Sound, CallsSound, PointerSound, NotStarted,
                      ApprovedHasNoOpenStep, PendingHasPointer
<1> QED BY <1>1, <1>2, <1>3, <1>4, <1>5, <1>6, <1>7, <1>8, <1>9, <1>10, <1>11, <1>12, <1>13
        DEF Next, Request, Commit

\* However handlers overlap: no instance is approved while a step of it is open,
\* and one that waits has a pointer.
THEOREM OverlapSafe == Spec => [](ApprovedHasNoOpenStep /\ PendingHasPointer)
<1>1. Init => Sound
  BY DEF Init, Sound, CallsSound, PointerSound, NotStarted, ApprovedHasNoOpenStep,
         PendingHasPointer, Open, Idle
<1>2. TypeOK /\ Sound /\ [Next]_vars => Sound'
  BY SoundStep
<1>3. Sound => ApprovedHasNoOpenStep /\ PendingHasPointer
  BY DEF Sound
<1> QED BY <1>1, <1>2, <1>3, WorkflowTypeCorrect, PTL DEF Spec

\* However handlers overlap, no user decides a step while an earlier one is open.
THEOREM NeverOvertaken == Spec => NoStepOvertaken
<1>1. Init => Sound
  BY DEF Init, Sound, CallsSound, PointerSound, NotStarted, ApprovedHasNoOpenStep,
         PendingHasPointer, Open, Idle
<1>2. TypeOK /\ Sound /\ [Next]_vars => Sound'
  BY SoundStep
<1>3. TypeOK /\ Sound =>
        (\A p \in Req : call[p].kind = "act" /\ call'[p] = Idle
           => \A t \in live : t < call[p].step => st[t] # "PENDING")
  <2> SUFFICES ASSUME TypeOK, Sound, NEW p \in Req, call[p].kind = "act",
                      NEW t \in live, t < call[p].step, st[t] = "PENDING"
               PROVE  FALSE
    OBVIOUS
  <2>1. t \in Open /\ p \in Proc
    BY DEF Open, Proc
  <2>2. call[p].step <= t
    BY <2>1 DEF Sound, CallsSound
  <2>3. call[p].step \in Step /\ t \in Step
    BY <2>1, CallFields DEF TypeOK
  <2> QED BY <2>2, <2>3 DEF Step
<1> QED BY <1>1, <1>2, <1>3, WorkflowTypeCorrect, PTL DEF Spec, NoStepOvertaken

\* Once an instance is started, a decided step is never open again.
THEOREM NeverReopened == Spec => DecidedStaysDecided
<1>1. TypeOK /\ [Next]_vars =>
        (\A s \in Step : st[s] # "PENDING" => st'[s] # "PENDING" \/ status = "NONE")
  <2> SUFFICES ASSUME TypeOK, [Next]_vars, status # "NONE", NEW s \in Step, st[s] # "PENDING"
               PROVE  st'[s] # "PENDING"
    OBVIOUS
  <2>1. ASSUME NEW t \in Step, NEW becomes \in Decided, NEW rest, Decide(t, becomes, rest)
        PROVE  st'[s] # "PENDING"
    BY <2>1 DEF Decide, Decided, TypeOK
  <2>2. ASSUME st' = st PROVE st'[s] # "PENDING"
    BY <2>2
  <2>3. ASSUME NEW p \in Proc, ActCommit(p) \/ DataCommit(p) PROVE st'[s] # "PENDING"
    <3>1. call[p].step \in Step /\ (call[p].kind = "act" => call[p].becomes \in Decided)
      BY <2>3, CallFields DEF ActCommit, DataCommit, TypeOK
    <3>2. "COMPLETED" \in Decided
      BY DEF Decided
    <3> QED BY <2>1, <2>2, <2>3, <3>1, <3>2 DEF ActCommit, DataCommit, inst
  <2>4. ASSUME AutoCommit PROVE st'[s] # "PENDING"
    <3>1. call[Cron].step \in Step /\ call[Cron].becomes \in Decided
      BY <2>4, CallFields DEF AutoCommit, TypeOK, Proc
    <3> QED BY <2>1, <2>2, <2>4, <3>1 DEF AutoCommit, inst
  <2>5. ASSUME NEW t \in Step, Evaluate(t) PROVE st'[s] # "PENDING"
    BY <2>2, <2>5 DEF Evaluate, AutoRead, Reassign, inst
  <2> QED BY <2>2, <2>3, <2>4, <2>5
          DEF Next, Request, Commit, StartInstance, ActRead, CancelRead, CancelCommit,
              DelegateRead, DelegateCommit, DataRead, Elapse, Scan, UpdateTemplate,
              vars, inst, Proc
<1> QED BY <1>1, WorkflowTypeCorrect, PTL DEF Spec, DecidedStaysDecided

-----------------------------------------------------------------------------
\* Handlers that do not overlap: then a call's memory is the present.

Exclusive == \A p, q \in Proc : call[p] # Idle /\ call[q] # Idle => p = q

CallsCurrent ==
    \A p \in Proc :
        /\ call[p] # Idle => status = "PENDING"
        /\ call[p].kind \in {"act", "data", "auto"}
              => call[p].step \in Open /\ call[p].rest = Open \ {call[p].step}

InstanceSound ==
    /\ live = {} \/ live = Step
    /\ status = "NONE" => live = {} /\ \A s \in Step : st[s] = "PENDING"
    /\ status = "PENDING" /\ live # {} => cur \in Open

SerialSound == Exclusive /\ CallsCurrent /\ InstanceSound

\* Beginning a call whose memory is the present, when nothing else is in flight.
LEMMA SerialBegin ==
    ASSUME Serial, TypeOK, SerialSound, UNCHANGED inst, status = "PENDING",
           NEW p \in Proc, NEW c, MayBegin(p), Begin(p, c),
           c.kind \in {"act", "data", "auto"} => c.step \in Open /\ c.rest = Open \ {c.step}
    PROVE  SerialSound'
<1>1. Open' = Open
  BY DEF Open, inst
<1>2. \A q \in Proc : call'[q] = IF q = p THEN c ELSE Idle
  BY DEF Begin, MayBegin, TypeOK
<1>3. Exclusive' /\ CallsCurrent'
  BY <1>1, <1>2 DEF Exclusive, CallsCurrent, inst, Idle
<1> QED BY <1>1, <1>3 DEF SerialSound, InstanceSound, inst

\* Ending the only call leaves none.
LEMMA SerialEnd ==
    ASSUME TypeOK, SerialSound, NEW p \in Proc, call[p] # Idle, End(p)
    PROVE  Exclusive' /\ CallsCurrent' /\ \A q \in Proc : call'[q] = Idle
<1>1. \A q \in Proc : call'[q] = Idle
  BY DEF End, TypeOK, SerialSound, Exclusive
<1> QED BY <1>1 DEF Exclusive, CallsCurrent, Idle

\* With a current memory, deciding a step is a step of the abstract lifecycle.
LEMMA SerialDecide ==
    ASSUME TypeOK, SerialSound, status = "PENDING",
           NEW s \in Open, NEW becomes \in Decided, Decide(s, becomes, Open \ {s}), live' = live
    PROVE  InstanceSound' /\ Lifecycle!Next
<1> DEFINE decided == {t \in Step : st[t] # "PENDING"}
           rest == Open \ {s}
<1>1. live = Step /\ s \in Step /\ rest \in SUBSET Step /\ rest = Step \ (decided \cup {s})
  BY DEF SerialSound, InstanceSound, Open, TypeOK
<1>2. s \notin decided /\ {t \in Step : st'[t] # "PENDING"} = decided \cup {s}
  BY <1>1 DEF Decide, Decided, Open, TypeOK
<1>3. Open' = rest
  BY <1>1 DEF Decide, Open, Decided, TypeOK
<1>4. status' = IF becomes = "REJECTED" THEN "REJECTED"
                ELSE IF decided \cup {s} = Step THEN "APPROVED" ELSE "PENDING"
  <2>1. rest = {} <=> decided \cup {s} = Step
    BY <1>1
  <2> QED BY <2>1 DEF Decide, Verdict
<1>5. rest # {} => FirstOf(rest) \in rest
  BY <1>1, FirstOfProperty
<1>6. InstanceSound'
  <2>1. status' = "PENDING" => rest # {}
    BY DEF Decide, Verdict
  <2>2. status' # "NONE"
    BY VerdictType DEF Decide
  <2>3. cur' = FirstOf(rest)
    BY DEF Decide
  <2> QED BY <1>1, <1>3, <1>5, <2>1, <2>2, <2>3 DEF InstanceSound
<1>7. Lifecycle!Next
  <2> HIDE DEF decided
  <2>1. CASE becomes = "REJECTED"
    <3>1. Lifecycle!Reject
      BY <1>1, <1>2, <1>4, <2>1 DEF Lifecycle!Reject, decided
    <3> QED BY <3>1 DEF Lifecycle!Next
  <2>2. CASE becomes # "REJECTED"
    <3>1. Lifecycle!Complete
      BY <1>1, <1>2, <1>4, <2>2 DEF Lifecycle!Complete, decided
    <3> QED BY <3>1 DEF Lifecycle!Next
  <2> QED BY <2>1, <2>2
<1> QED BY <1>6, <1>7

\* One step of the program: the invariant is kept, and the abstract lifecycle
\* takes a step or stands still.
LEMMA SerialStep ==
    ASSUME Serial, TypeOK, SerialSound, [Next]_vars
    PROVE  SerialSound' /\ [Lifecycle!Next]_(Lifecycle!lvars)
<1> USE DEF Lifecycle!lvars
<1>1. ASSUME NEW u \in User, StartInstance(u)
      PROVE  SerialSound' /\ [Lifecycle!Next]_(Lifecycle!lvars)
  <2> DEFINE S == Step \ Submission
  <2>1. Open' = S /\ live' = Step
    BY <1>1 DEF StartInstance, Open
  <2>2. call' = call /\ \A p \in Proc : call[p] = Idle
    BY <1>1 DEF StartInstance, SerialSound, CallsCurrent
  <2>3. Exclusive' /\ CallsCurrent'
    BY <2>2 DEF Exclusive, CallsCurrent, Idle
  <2>4. /\ cur' = FirstOf(S)
        /\ status' = IF FirstOf(S) = NoStep THEN "APPROVED" ELSE "PENDING"
    BY <1>1 DEF StartInstance
  <2>5. /\ S = {} => FirstOf(S) = NoStep
        /\ S # {} => FirstOf(S) \in S /\ FirstOf(S) # NoStep
    BY FirstOfProperty
  <2>6. InstanceSound'
    BY <2>1, <2>4, <2>5 DEF InstanceSound
  <2>7. /\ {s \in Step : st[s] # "PENDING"} = {}
        /\ {s \in Step : st'[s] # "PENDING"} = Submission
    BY <1>1 DEF StartInstance, SerialSound, InstanceSound, WorkflowAssumption
  <2>8. status' = IF Submission = Step THEN "APPROVED" ELSE "PENDING"
    BY <2>4, <2>5 DEF WorkflowAssumption
  <2>9. Lifecycle!Submit
    <3>1. Submission \in SUBSET Step /\ status = "NONE"
      BY <1>1 DEF WorkflowAssumption, StartInstance
    <3> QED BY <2>7, <2>8, <3>1 DEF Lifecycle!Submit
  <2> QED BY <2>3, <2>6, <2>9 DEF SerialSound, Lifecycle!Next
<1>2. ASSUME NEW p \in Req, NEW u \in User, NEW becomes \in Decided, ActRead(p, u, becomes)
      PROVE  SerialSound' /\ UNCHANGED inst
  <2> DEFINE c == [kind |-> "act", step |-> CurrentStep, rest |-> Open \ {CurrentStep},
                   becomes |-> becomes]
  <2>1. CurrentStep \in Open
    <3>1. Open # {} => FirstOf(Open) \in Open
      BY OpenIsSteps, FirstOfProperty
    <3>2. Open = {} => FirstOf(Open) = NoStep
      BY OpenIsSteps, FirstOfProperty
    <3> QED BY <1>2, <3>1, <3>2 DEF ActRead, Found, CurrentStep, SerialSound, InstanceSound
  <2>2. Begin(p, c) /\ MayBegin(p) /\ UNCHANGED inst /\ status = "PENDING"
    BY <1>2 DEF ActRead, Found
  <2>3. c.step = CurrentStep /\ c.rest = Open \ {CurrentStep}
    OBVIOUS
  <2> HIDE DEF c
  <2> QED BY <2>1, <2>2, <2>3, SerialBegin DEF Proc
<1>3. ASSUME NEW p \in Req, DataRead(p) PROVE SerialSound' /\ UNCHANGED inst
  <2> DEFINE c == [kind |-> "data", step |-> FirstOf(Open), rest |-> Open \ {FirstOf(Open)}]
  <2>1. FirstOf(Open) \in Open
    BY <1>3, OpenIsSteps, FirstOfProperty DEF DataRead
  <2>2. Begin(p, c) /\ MayBegin(p) /\ UNCHANGED inst /\ status = "PENDING"
    BY <1>3 DEF DataRead, Found
  <2>3. c.step = FirstOf(Open) /\ c.rest = Open \ {FirstOf(Open)}
    OBVIOUS
  <2> HIDE DEF c
  <2> QED BY <2>1, <2>2, <2>3, SerialBegin DEF Proc
<1>4. ASSUME NEW p \in Req, NEW u \in User, CancelRead(p, u)
      PROVE  SerialSound' /\ UNCHANGED inst
  <2> DEFINE c == [kind |-> "cancel"]
  <2>1. Begin(p, c) /\ MayBegin(p) /\ UNCHANGED inst /\ status = "PENDING" /\ c.kind = "cancel"
    BY <1>4 DEF CancelRead, Found
  <2> HIDE DEF c
  <2> QED BY <2>1, SerialBegin DEF Proc
<1>5. ASSUME NEW p \in Req, NEW u \in User, NEW to \in User, DelegateRead(p, u, to)
      PROVE  SerialSound' /\ UNCHANGED inst
  <2> DEFINE c == [kind |-> "delegate", step |-> FirstOf(Open),
                   first |-> OriginalOf(FirstOf(Open)), to |-> to]
  <2>1. Begin(p, c) /\ MayBegin(p) /\ UNCHANGED inst /\ status = "PENDING" /\ c.kind = "delegate"
    BY <1>5 DEF DelegateRead, Found
  <2> HIDE DEF c
  <2> QED BY <2>1, SerialBegin DEF Proc
<1>6. ASSUME NEW p \in Req, ActCommit(p)
      PROVE  SerialSound' /\ [Lifecycle!Next]_(Lifecycle!lvars)
  <2> DEFINE c == call[p]
  <2>1. /\ p \in Proc /\ c.becomes \in Decided /\ c # Idle /\ status = "PENDING"
        /\ c.step \in Open /\ c.rest = Open \ {c.step}
    BY <1>6, CallFields DEF ActCommit, TypeOK, Proc, SerialSound, CallsCurrent, Idle
  <2>2. Decide(c.step, c.becomes, c.rest) /\ live' = live /\ End(p)
    BY <1>6, <2>1 DEF ActCommit, Open
  <2> QED BY <2>1, <2>2, SerialEnd, SerialDecide DEF SerialSound
<1>7. ASSUME NEW p \in Req, DataCommit(p)
      PROVE  SerialSound' /\ [Lifecycle!Next]_(Lifecycle!lvars)
  <2> DEFINE c == call[p]
  <2>1. /\ p \in Proc /\ "COMPLETED" \in Decided /\ c # Idle /\ status = "PENDING"
        /\ c.step \in Open /\ c.rest = Open \ {c.step}
    BY <1>7 DEF DataCommit, Proc, SerialSound, CallsCurrent, Idle, Decided
  <2>2. Decide(c.step, "COMPLETED", c.rest) /\ live' = live /\ End(p)
    BY <1>7, <2>1 DEF DataCommit, Open
  <2> QED BY <2>1, <2>2, SerialEnd, SerialDecide DEF SerialSound
<1>8. ASSUME AutoCommit
      PROVE  SerialSound' /\ [Lifecycle!Next]_(Lifecycle!lvars)
  <2> DEFINE c == call[Cron]
  <2>1. /\ Cron \in Proc /\ c.becomes \in Decided /\ c # Idle /\ status = "PENDING"
        /\ c.step \in Open /\ c.rest = Open \ {c.step}
    BY <1>8, CallFields DEF AutoCommit, TypeOK, Proc, SerialSound, CallsCurrent, Idle
  <2>2. Decide(c.step, c.becomes, c.rest) /\ live' = live /\ End(Cron)
    BY <1>8, <2>1 DEF AutoCommit, Open
  <2> QED BY <2>1, <2>2, SerialEnd, SerialDecide DEF SerialSound
<1>9. ASSUME NEW p \in Req, CancelCommit(p)
      PROVE  SerialSound' /\ [Lifecycle!Next]_(Lifecycle!lvars)
  <2>1. p \in Proc /\ call[p] # Idle /\ End(p) /\ status = "PENDING"
    BY <1>9 DEF CancelCommit, Idle, Proc, SerialSound, CallsCurrent
  <2>2. InstanceSound'
    BY <1>9 DEF CancelCommit, InstanceSound, SerialSound
  <2>3. Lifecycle!Cancel
    BY <1>9, <2>1 DEF CancelCommit, Lifecycle!Cancel
  <2> QED BY <2>1, <2>2, <2>3, SerialEnd DEF SerialSound, Lifecycle!Next
<1>10. ASSUME NEW p \in Req, DelegateCommit(p)
       PROVE  SerialSound' /\ UNCHANGED <<status, st>>
  <2>1. p \in Proc /\ call[p] # Idle /\ End(p) /\ UNCHANGED <<status, cur, live, st>>
    BY <1>10 DEF DelegateCommit, Idle, Proc
  <2>2. Open' = Open
    BY <2>1 DEF Open
  <2> QED BY <2>1, <2>2, SerialEnd DEF SerialSound, InstanceSound
<1>11. ASSUME UNCHANGED <<inst, call>> PROVE SerialSound'
  <2>1. Open' = Open
    BY <1>11 DEF Open, inst
  <2> QED BY <1>11, <2>1 DEF SerialSound, Exclusive, CallsCurrent, InstanceSound, inst
<1>12. CASE Elapse \/ Scan \/ UNCHANGED vars
  BY <1>11, <1>12 DEF Elapse, Scan, vars, inst
<1>13. ASSUME NEW s \in Step, Evaluate(s) PROVE SerialSound' /\ UNCHANGED <<status, st>>
  <2>1. ASSUME NEW i \in DOMAIN Rules[s], AutoRead(s, Rules[s][i]), MayBegin(Cron)
        PROVE  SerialSound' /\ UNCHANGED <<status, st>>
    <3>1. CASE status = "PENDING" /\ s \in Open
      <4> DEFINE c == [kind |-> "auto", step |-> s, rest |-> Open \ {s},
                       becomes |-> AutoOutcome(Rules[s][i])]
      <4>1. Begin(Cron, c) /\ UNCHANGED inst
        BY <2>1, <3>1 DEF AutoRead
      <4>2. c.step = s /\ c.rest = Open \ {s}
        OBVIOUS
      <4> HIDE DEF c
      <4>3. SerialSound'
        BY <2>1, <3>1, <4>1, <4>2, SerialBegin DEF Proc
      <4> QED BY <4>1, <4>3 DEF inst
    <3> QED BY <1>11, <2>1, <3>1 DEF AutoRead, inst
  <2>2. ASSUME NEW i \in DOMAIN Rules[s], Reassign(s, Rules[s][i])
        PROVE  SerialSound' /\ UNCHANGED <<status, st>>
    <3>1. UNCHANGED <<status, cur, live, st, call>>
      BY <2>2 DEF Reassign
    <3>2. Open' = Open
      BY <3>1 DEF Open
    <3> QED BY <3>1, <3>2 DEF SerialSound, Exclusive, CallsCurrent, InstanceSound
  <2> QED BY <1>11, <1>13, <2>1, <2>2 DEF Evaluate, inst
<1>14. ASSUME UpdateTemplate PROVE SerialSound' /\ UNCHANGED <<status, st>>
  <2>1. live' = {} /\ UNCHANGED <<status, st, call>> /\ \A p \in Proc : call[p] = Idle
    BY <1>14 DEF UpdateTemplate
  <2> QED BY <2>1 DEF SerialSound, Exclusive, CallsCurrent, InstanceSound, Idle
<1> QED BY <1>1, <1>2, <1>3, <1>4, <1>5, <1>6, <1>7, <1>8, <1>9, <1>10, <1>12, <1>13, <1>14
        DEF Next, Request, Commit, inst, Elapse, Scan, vars

\* Requests that do not overlap implement the lifecycle the users are promised.
THEOREM SerialImplements ==
    ASSUME Serial
    PROVE  Spec => ImplementsLifecycle
<1>1. Init => SerialSound
  BY DEF Init, SerialSound, Exclusive, CallsCurrent, InstanceSound, Idle
<1>2. Init => Lifecycle!Init
  BY DEF Init, Lifecycle!Init
<1>3. TypeOK /\ SerialSound /\ [Next]_vars => SerialSound' /\ [Lifecycle!Next]_(Lifecycle!lvars)
  BY SerialStep
<1> QED BY <1>1, <1>2, <1>3, WorkflowTypeCorrect, PTL DEF Spec, ImplementsLifecycle, Lifecycle!Spec

\* In particular an outcome is final.
THEOREM SerialOutcomeIsFinal ==
    ASSUME Serial
    PROVE  Spec => TerminalIsFinal
<1>1. [Lifecycle!Next]_(Lifecycle!lvars) => ((status \in Terminal) => status' = status)
  BY DEF Lifecycle!Next, Lifecycle!Submit, Lifecycle!Complete, Lifecycle!Reject,
         Lifecycle!Cancel, Lifecycle!lvars, Terminal
<1> QED BY <1>1, SerialImplements, PTL DEF ImplementsLifecycle, Lifecycle!Spec, TerminalIsFinal
=============================================================================
