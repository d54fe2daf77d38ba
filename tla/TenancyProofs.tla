--------------------------- MODULE TenancyProofs ---------------------------
(***************************************************************************)
(* What TenantAccess promises for every set of tenants, grants and         *)
(* administrators' requests: its type, whatever overlaps; and, when the    *)
(* handlers and the sweep do not overlap, that a grant and a suspension    *)
(* hold, the sweep ends active tenants only, and no running window is lost.*)
(*                                                                         *)
(* What Billing promises for every set of subscriptions, plans and         *)
(* handlers, and any number of events, faults and uses: its type; that the *)
(* ledger explains the balance while no two changes of credits overlap;    *)
(* and that events answered in their order bring the tenant the plan it    *)
(* paid for last, whatever was retried.                                    *)
(***************************************************************************)
EXTENDS TenantAccess, Billing, TLAPS

LEMMA CallTypes ==
    ASSUME TypeOK, NEW p \in Req
    PROVE  /\ call[p] = Idle \/ call[p].kind \in {"window", "status", "look", "clear"}
           /\ call[p].kind # "idle" => call[p].t \in Tenant
           /\ call[p].kind = "window" =>
                call[p] \in [kind : {"window"}, t : Tenant, ends : Window, was : Status]
           /\ Idle.kind = "idle"
<1>1. call[p] \in Calls \cup {Idle}
  BY DEF TypeOK
<1> QED BY <1>1 DEF Calls, Idle

LEMMA PassedType ==
    ASSUME NEW w \in Window
    PROVE  Passed(w) \in Window /\ (Elapsed(w) => Passed(w) = w)
BY AccessAssumption DEF Passed, Window, Elapsed

LEMMA InitType == Init => TypeOK
<1>1. Init => mixed \in BOOLEAN
  BY Zenon DEF Init
<1> QED BY <1>1, AccessAssumption DEF Init, TypeOK, Status, Window

\* The state has its type: windows never run below zero, and every handler in
\* flight carries the data of its kind.
THEOREM AccessTypeCorrect == Spec => []TypeOK
<1> USE AccessAssumption
<1>1. Init => TypeOK
  BY InitType
<1>2. TypeOK /\ [Next]_vars => TypeOK'
  <2> SUFFICES ASSUME TypeOK, [Next]_vars PROVE TypeOK'
    OBVIOUS
  <2>g. \A p \in Req, c \in Calls \cup {Idle} : Go(p, c) => call' \in [Req -> Calls \cup {Idle}]
    BY DEF Go, TypeOK
  <2>e. \A p \in Req : End(p) => call' \in [Req -> Calls \cup {Idle}]
    BY <2>g DEF End
  <2>s. \A t \in Tenant, s \in Status : Set(t, s) => status' \in [Tenant -> Status \cup {"DELETED"}]
    BY DEF Set, TypeOK
  <2>d. \A t \in Tenant, d \in {"nothing", "open", "shut"} :
          Decide(t, d) => asked' \in [Tenant -> {"nothing", "open", "shut"}]
    BY DEF Decide, TypeOK
  <2>w. \A t \in Tenant, w \in Window : SetWindow(t, w) => left' \in [Tenant -> Window]
    BY DEF SetWindow, TypeOK
  <2>k. \A t \in Tenant, k \in {"status", "look", "clear"} : [kind |-> k, t |-> t] \in Calls
    BY DEF Calls
  <2>x. Mix => mixed' \in BOOLEAN
    BY Zenon DEF Mix
  <2>m. \A p \in Req, t \in Tenant :
          MayAsk(p, t) => changes' \in 0 .. MaxChanges /\ mixed' \in BOOLEAN
    BY <2>x DEF MayAsk, TypeOK
  <2>1. ASSUME NEW p \in Req, NEW t \in Tenant, Suspend(p, t) PROVE TypeOK'
    BY <2>1, <2>s, <2>d, <2>m DEF Suspend, TypeOK, Status
  <2>2. ASSUME NEW p \in Req, NEW t \in Tenant, NEW s \in Status, UpdateStatus(p, t, s)
        PROVE  TypeOK'
    BY <2>2, <2>s, <2>d, <2>m DEF UpdateStatus, TypeOK
  <2>3. ASSUME NEW p \in Req, NEW t \in Tenant, Activate(p, t) PROVE TypeOK'
    BY <2>3, <2>s, <2>g, <2>k, <2>m DEF Activate, TypeOK, Status
  <2>4. ASSUME NEW p \in Req, ActivateLook(p) PROVE TypeOK'
    <3>1. call[p].t \in Tenant
      BY <2>4, CallTypes DEF ActivateLook
    <3>2. /\ call' \in [Req -> Calls \cup {Idle}]
          /\ asked' \in [Tenant -> {"nothing", "open", "shut"}]
      BY <2>4, <2>g, <2>e, <2>d, <2>k, <3>1 DEF ActivateLook, TypeOK
    <3> QED BY <2>4, <3>2 DEF ActivateLook, TypeOK
  <2>5. ASSUME NEW p \in Req, ActivateClear(p) PROVE TypeOK'
    <3>1. call[p].t \in Tenant
      BY <2>5, CallTypes DEF ActivateClear
    <3>2. NoEnd \in Window
      BY DEF Window
    <3> QED BY <2>5, <2>e, <2>d, <2>w, <3>1, <3>2 DEF ActivateClear, TypeOK
  <2>6. ASSUME NEW p \in Req, NEW t \in Tenant, NEW ends \in Grants, GrantRead(p, t, ends)
        PROVE  TypeOK'
    <3>1. ends \in Window /\ status[t] \in Status
      BY <2>6 DEF Grants, Window, GrantRead, MayAsk, TypeOK
    <3>2. [kind |-> "window", t |-> t, ends |-> ends, was |-> status[t]] \in Calls
      BY <3>1 DEF Calls
    <3> QED BY <2>6, <2>g, <2>m, <3>2 DEF GrantRead, TypeOK
  <2>7. ASSUME NEW p \in Req, GrantWindow(p) PROVE TypeOK'
    <3>1. call[p].t \in Tenant /\ call[p].ends \in Window
      BY <2>7, CallTypes DEF GrantWindow
    <3>2. /\ call' \in [Req -> Calls \cup {Idle}] /\ left' \in [Tenant -> Window]
          /\ asked' \in [Tenant -> {"nothing", "open", "shut"}]
      BY <2>7, <2>g, <2>e, <2>d, <2>w, <2>k, <3>1 DEF GrantWindow, TypeOK
    <3> QED BY <2>7, <3>2 DEF GrantWindow, TypeOK
  <2>8. ASSUME NEW p \in Req, GrantStatus(p) PROVE TypeOK'
    <3>1. call[p].t \in Tenant
      BY <2>8, CallTypes DEF GrantStatus
    <3> QED BY <2>8, <2>e, <2>d, <2>s, <3>1 DEF GrantStatus, TypeOK, Status
  <2>9. ASSUME NEW p \in Req, NEW t \in Tenant, Delete(p, t) PROVE TypeOK'
    BY <2>9, <2>x DEF Delete, TypeOK
  <2>10. ASSUME NEW t \in Tenant, SweepMark(t) PROVE TypeOK'
    BY <2>10, <2>s DEF SweepMark, AfterMark, TypeOK, Status
  <2>11. CASE Sweep
    BY <2>11, <2>x DEF Sweep, TypeOK
  <2>12. CASE Tick
    <3>1. left' \in [Tenant -> Window]
      BY <2>12, PassedType DEF Tick, TypeOK
    <3>2. ASSUME NEW p \in Req, call[p].kind = "window"
          PROVE  [call[p] EXCEPT !.ends = Passed(@)] \in Calls
      <4>1. call[p] \in [kind : {"window"}, t : Tenant, ends : Window, was : Status]
        BY <3>2, CallTypes
      <4>2. Passed(call[p].ends) \in Window
        BY <4>1, PassedType
      <4> QED BY <4>1, <4>2 DEF Calls
    <3>3. call' \in [Req -> Calls \cup {Idle}]
      BY <2>12, <3>2 DEF Tick, TypeOK
    <3> QED BY <2>12, <2>x, <3>1, <3>3 DEF Tick, TypeOK
  <2>13. CASE UNCHANGED vars
    BY <2>13 DEF vars, TypeOK
  <2> QED BY <2>1, <2>2, <2>3, <2>4, <2>5, <2>6, <2>7, <2>8, <2>9, <2>10, <2>11, <2>12, <2>13
          DEF Next, Ask, Proceed
<1> QED BY <1>1, <1>2, PTL DEF Spec

-----------------------------------------------------------------------------
\* What holds between the statements of a handler that is alone.

\* One thing at a time.
OneAtATime ==
    /\ todo # {} => Quiet
    /\ \A p, q \in Req : call[p] # Idle /\ call[q] # Idle => p = q

\* What was read is still so.
ReadsAreCurrent ==
    /\ \A t \in todo : Expired(t)
    /\ \A p \in Req :
         /\ call[p].kind = "window" => call[p].was = status[call[p].t]
         /\ call[p].kind \in {"look", "clear"} => status[call[p].t] = "ACTIVE"
         /\ call[p].kind = "clear" => Elapsed(left[call[p].t])

\* A decision holds unless the handler that changes it is under way.
OpenHolds ==
    \A t \in Tenant :
      asked[t] = "open" /\ status[t] # "DELETED"
      /\ (\A p \in Req : ~(call[p].kind = "status" /\ call[p].t = t))
        => status[t] = "ACTIVE" \/ Elapsed(left[t])

ShutHolds ==
    \A t \in Tenant :
      asked[t] = "shut"
      /\ (\A p \in Req : ~(call[p].kind \in {"status", "look", "clear"} /\ call[p].t = t))
        => status[t] \in {"SUSPENDED", "DELETED"}

AccessInv == TypeOK /\ OneAtATime /\ ReadsAreCurrent /\ OpenHolds /\ ShutHolds

LEMMA InvImpliesSafety ==
    ASSUME AccessInv
    PROVE  GrantIsKept /\ SuspensionHolds
<1>1. Quiet => \A p \in Req : call[p].kind = "idle"
  BY CallTypes DEF Quiet, AccessInv, Idle
<1> QED BY <1>1 DEF AccessInv, OpenHolds, ShutHolds, GrantIsKept, SuspensionHolds, Admitted

LEMMA AccessInvStep ==
    ASSUME ~mixed', AccessInv, TypeOK', [Next]_vars
    PROVE  AccessInv'
<1> USE AccessAssumption
<1>0. /\ \A p \in Req : call[p] = Idle <=> call[p].kind = "idle"
      /\ \A p \in Req : call[p].kind # "idle" => call[p].t \in Tenant
  BY CallTypes DEF AccessInv
<1>t. /\ DOMAIN call = Req /\ DOMAIN status = Tenant /\ DOMAIN asked = Tenant /\ DOMAIN left = Tenant
      /\ status \in [Tenant -> Status \cup {"DELETED"}] /\ asked \in [Tenant -> {"nothing", "open", "shut"}]
      /\ left \in [Tenant -> Window] /\ call \in [Req -> Calls \cup {Idle}]
      /\ todo \subseteq Tenant
  BY DEF AccessInv, TypeOK
<1>i. Idle.kind = "idle"
  BY DEF Idle
<1>a. Alone => \A q \in Req : call[q] = Idle /\ call[q].kind = "idle"
  BY <1>0 DEF Alone
\* A handler in flight is the only one, and the sweep is idle.
<1>o. ASSUME NEW p \in Req, call[p].kind # "idle"
      PROVE  todo = {} /\ \A q \in Req : q # p => call[q] = Idle /\ call[q].kind = "idle"
  BY <1>o, <1>0 DEF AccessInv, OneAtATime, Quiet
<1>1. ASSUME NEW p \in Req, NEW t \in Tenant, Suspend(p, t) PROVE AccessInv'
  <2>1. /\ Alone /\ UNCHANGED <<left, call, todo>> /\ todo = {}
        /\ status' = [status EXCEPT ![t] = "SUSPENDED"] /\ asked' = [asked EXCEPT ![t] = "shut"]
    BY <1>1 DEF Suspend, MayAsk, Mix, Set, Decide, Alone
  <2> QED BY <2>1, <1>a, <1>t DEF AccessInv, OneAtATime, Quiet, ReadsAreCurrent, OpenHolds, ShutHolds
<1>2. ASSUME NEW p \in Req, NEW t \in Tenant, NEW s \in Status, UpdateStatus(p, t, s)
      PROVE  AccessInv'
  <2>1. /\ Alone /\ UNCHANGED <<left, call, todo>> /\ todo = {}
        /\ status' = [status EXCEPT ![t] = s]
        /\ asked' = [asked EXCEPT ![t] = IF s = "SUSPENDED" THEN "shut" ELSE "nothing"]
    BY <1>2 DEF UpdateStatus, MayAsk, Mix, Set, Decide, Alone
  <2> QED BY <2>1, <1>a, <1>t DEF AccessInv, OneAtATime, Quiet, ReadsAreCurrent, OpenHolds, ShutHolds
<1>3. ASSUME NEW p \in Req, NEW t \in Tenant, Activate(p, t) PROVE AccessInv'
  <2>1. /\ Alone /\ UNCHANGED <<left, asked, todo>> /\ todo = {}
        /\ status' = [status EXCEPT ![t] = "ACTIVE"]
        /\ call' = [call EXCEPT ![p] = [kind |-> "look", t |-> t]]
    BY <1>3 DEF Activate, MayAsk, Mix, Set, Go, Alone
  <2>2. \A q \in Req : q # p => call'[q] = Idle /\ call'[q].kind = "idle"
    BY <2>1, <1>a, <1>t
  <2>3. call'[p].kind = "look" /\ call'[p].t = t
    BY <2>1, <1>t
  <2>4. OneAtATime'
    BY <2>1, <2>2 DEF OneAtATime
  <2>5. ReadsAreCurrent'
    BY <2>1, <2>2, <2>3, <1>t DEF ReadsAreCurrent
  <2>6. OpenHolds'
    BY <2>1, <1>a, <1>t DEF AccessInv, OpenHolds
  <2>7. ShutHolds'
    BY <2>1, <2>3, <1>a, <1>t DEF AccessInv, ShutHolds
  <2> QED BY <2>4, <2>5, <2>6, <2>7 DEF AccessInv
<1>4. ASSUME NEW p \in Req, ActivateLook(p) PROVE AccessInv'
  <2> DEFINE t == call[p].t
  <2>1. call[p].kind = "look" /\ UNCHANGED <<status, left, todo>> /\ t \in Tenant
    BY <1>4, <1>0 DEF ActivateLook
  <2>2. status[t] = "ACTIVE" /\ todo = {}
    BY <2>1, <1>o DEF AccessInv, ReadsAreCurrent
  <2>3. CASE Elapsed(left[t])
    <3>1. call' = [call EXCEPT ![p] = [kind |-> "clear", t |-> t]] /\ asked' = asked
      BY <1>4, <2>2, <2>3 DEF ActivateLook, Lapses, Go
    <3>2. \A q \in Req : q # p => call'[q] = Idle /\ call'[q].kind = "idle"
      BY <2>1, <3>1, <1>o, <1>t
    <3>3. call'[p].kind = "clear" /\ call'[p].t = t
      BY <3>1, <1>t
    <3>4. OneAtATime'
      BY <2>1, <2>2, <3>2 DEF OneAtATime
    <3>5. ReadsAreCurrent'
      BY <2>1, <2>2, <2>3, <3>2, <3>3 DEF ReadsAreCurrent
    <3>6. OpenHolds'
      BY <2>1, <3>1, <1>o, <1>t DEF AccessInv, OpenHolds
    <3>7. ShutHolds'
      BY <2>1, <3>1, <3>3, <1>o, <1>t DEF AccessInv, ShutHolds
    <3> QED BY <3>4, <3>5, <3>6, <3>7 DEF AccessInv
  <2>4. CASE ~Elapsed(left[t])
    <3>1. call' = [call EXCEPT ![p] = Idle] /\ asked' = [asked EXCEPT ![t] = "open"]
      BY <1>4, <2>4 DEF ActivateLook, Lapses, End, Go, Decide
    <3>2. \A q \in Req : call'[q] = Idle /\ call'[q].kind = "idle"
      BY <2>1, <3>1, <1>o, <1>t, <1>i
    <3> HIDE DEF t
    <3>3. OneAtATime' /\ ReadsAreCurrent'
      BY <2>1, <2>2, <3>2 DEF OneAtATime, ReadsAreCurrent, Quiet
    <3>4. OpenHolds'
      BY <2>1, <2>2, <3>1, <1>o, <1>t DEF AccessInv, OpenHolds
    <3>5. ASSUME NEW u \in Tenant, asked'[u] = "shut" PROVE status'[u] \in {"SUSPENDED", "DELETED"}
      <4>1. u # t /\ asked[u] = "shut"
        BY <3>1, <3>5, <2>1, <1>t
      <4>2. \A q \in Req : ~(call[q].kind \in {"status", "look", "clear"} /\ call[q].t = u)
        BY <4>1, <2>1, <1>o DEF t
      <4> QED BY <4>1, <4>2, <2>1 DEF AccessInv, ShutHolds
    <3> QED BY <3>3, <3>4, <3>5 DEF AccessInv, ShutHolds
  <2> QED BY <2>3, <2>4
<1>5. ASSUME NEW p \in Req, ActivateClear(p) PROVE AccessInv'
  <2> DEFINE t == call[p].t
  <2>1. call[p].kind = "clear" /\ UNCHANGED <<status, todo>> /\ t \in Tenant
    BY <1>5, <1>0 DEF ActivateClear
  <2>2. status[t] = "ACTIVE" /\ todo = {}
    BY <2>1, <1>o DEF AccessInv, ReadsAreCurrent
  <2>3. /\ left' = [left EXCEPT ![t] = NoEnd] /\ asked' = [asked EXCEPT ![t] = "open"]
        /\ call' = [call EXCEPT ![p] = Idle]
    BY <1>5, <2>2 DEF ActivateClear, SetWindow, Decide, End, Go
  <2>4. \A q \in Req : call'[q] = Idle /\ call'[q].kind = "idle"
    BY <2>1, <2>3, <1>o, <1>t, <1>i
  <2>5. \A q \in Req : call[q].kind # "status"
    BY <2>1, <1>o
  <2>6. \A u \in Tenant : u # t =>
          \A q \in Req : ~(call[q].kind \in {"status", "look", "clear"} /\ call[q].t = u)
    BY <2>1, <1>o
  <2> HIDE DEF t
  <2>7. OneAtATime' /\ ReadsAreCurrent'
    BY <2>1, <2>2, <2>4 DEF OneAtATime, ReadsAreCurrent, Quiet
  <2>8. OpenHolds'
    BY <2>1, <2>2, <2>3, <2>5, <1>t DEF AccessInv, OpenHolds
  <2>9. ShutHolds'
    BY <2>1, <2>3, <2>6, <1>t DEF AccessInv, ShutHolds
  <2> QED BY <2>7, <2>8, <2>9 DEF AccessInv
<1>6. ASSUME NEW p \in Req, NEW t \in Tenant, NEW ends \in Grants, GrantRead(p, t, ends)
      PROVE  AccessInv'
  <2>1. /\ Alone /\ UNCHANGED <<status, left, asked, todo>> /\ todo = {}
        /\ call' = [call EXCEPT ![p] =
                      [kind |-> "window", t |-> t, ends |-> ends, was |-> status[t]]]
    BY <1>6 DEF GrantRead, MayAsk, Mix, Go, Alone
  <2>2. \A q \in Req : q # p => call'[q] = Idle /\ call'[q].kind = "idle"
    BY <2>1, <1>a, <1>t
  <2>3. call'[p].kind = "window" /\ call'[p].t = t /\ call'[p].was = status[t]
    BY <2>1, <1>t
  <2>4. OneAtATime'
    BY <2>1, <2>2 DEF OneAtATime
  <2>5. ReadsAreCurrent'
    BY <2>1, <2>2, <2>3, <1>t DEF ReadsAreCurrent
  <2>6. OpenHolds' /\ ShutHolds'
    BY <2>1, <1>a DEF AccessInv, OpenHolds, ShutHolds
  <2> QED BY <2>4, <2>5, <2>6 DEF AccessInv
<1>7. ASSUME NEW p \in Req, GrantWindow(p) PROVE AccessInv'
  <2> DEFINE t == call[p].t
  <2>1. /\ call[p].kind = "window" /\ UNCHANGED <<status, todo>> /\ t \in Tenant
        /\ call[p].was = status[t] /\ todo = {}
    BY <1>7, <1>0, <1>o DEF GrantWindow, AccessInv, ReadsAreCurrent
  <2>2. \A u \in Tenant : u # t => left'[u] = left[u]
    BY <1>7, <1>t DEF GrantWindow, SetWindow
  <2>3. \A u \in Tenant :
          \A q \in Req : ~(call[q].kind \in {"status", "look", "clear"} /\ call[q].t = u)
    BY <2>1, <1>o
  <2>4. CASE status[t] \notin {"ACTIVE", "DELETED"}
    <3>1. call' = [call EXCEPT ![p] = [kind |-> "status", t |-> t]] /\ asked' = asked
      BY <1>7, <2>1, <2>4 DEF GrantWindow, Reactivates, Go
    <3>2. \A q \in Req : q # p => call'[q] = Idle /\ call'[q].kind = "idle"
      BY <2>1, <3>1, <1>o, <1>t
    <3>3. call'[p].kind = "status" /\ call'[p].t = t
      BY <3>1, <1>t
    <3> HIDE DEF t
    <3>4. OneAtATime' /\ ReadsAreCurrent'
      BY <2>1, <3>2, <3>3 DEF OneAtATime, ReadsAreCurrent
    <3>5. OpenHolds'
      BY <2>1, <2>2, <2>3, <3>1, <3>3 DEF AccessInv, OpenHolds
    <3>6. ShutHolds'
      BY <2>1, <2>3, <3>1 DEF AccessInv, ShutHolds
    <3> QED BY <3>4, <3>5, <3>6 DEF AccessInv
  <2>5. CASE status[t] \in {"ACTIVE", "DELETED"}
    <3>1. call' = [call EXCEPT ![p] = Idle] /\ asked' = [asked EXCEPT ![t] = "open"]
      BY <1>7, <2>1, <2>5 DEF GrantWindow, Reactivates, End, Go, Decide
    <3>2. \A q \in Req : call'[q] = Idle /\ call'[q].kind = "idle"
      BY <2>1, <3>1, <1>o, <1>t, <1>i
    <3> HIDE DEF t
    <3>4. OneAtATime' /\ ReadsAreCurrent'
      BY <2>1, <3>2 DEF OneAtATime, ReadsAreCurrent, Quiet
    <3>5. OpenHolds'
      BY <2>1, <2>2, <2>3, <2>5, <3>1, <1>t DEF AccessInv, OpenHolds
    <3>6. ShutHolds'
      BY <2>1, <2>3, <3>1, <1>t DEF AccessInv, ShutHolds
    <3> QED BY <3>4, <3>5, <3>6 DEF AccessInv
  <2> QED BY <2>4, <2>5
<1>8. ASSUME NEW p \in Req, GrantStatus(p) PROVE AccessInv'
  <2> DEFINE t == call[p].t
  <2>1. /\ call[p].kind = "status" /\ UNCHANGED <<left, todo>> /\ t \in Tenant /\ todo = {}
    BY <1>8, <1>0, <1>o DEF GrantStatus
  <2>2. /\ status' = [status EXCEPT ![t] = IF @ = "DELETED" THEN @ ELSE "ACTIVE"]
        /\ asked' = [asked EXCEPT ![t] = "open"] /\ call' = [call EXCEPT ![p] = Idle]
    BY <1>8 DEF GrantStatus, Set, Decide, End, Go
  <2>3. \A q \in Req : call'[q] = Idle /\ call'[q].kind = "idle"
    BY <2>1, <2>2, <1>o, <1>t, <1>i
  <2>4. \A u \in Tenant : u # t =>
          \A q \in Req : ~(call[q].kind \in {"status", "look", "clear"} /\ call[q].t = u)
    BY <2>1, <1>o
  <2> HIDE DEF t
  <2>5. OneAtATime' /\ ReadsAreCurrent'
    BY <2>1, <2>3 DEF OneAtATime, ReadsAreCurrent, Quiet
  <2>6. OpenHolds'
    BY <2>1, <2>2, <2>4, <1>t DEF AccessInv, OpenHolds
  <2>7. ShutHolds'
    BY <2>1, <2>2, <2>4, <1>t DEF AccessInv, ShutHolds
  <2> QED BY <2>5, <2>6, <2>7 DEF AccessInv
<1>9. ASSUME NEW p \in Req, NEW t \in Tenant, Delete(p, t) PROVE AccessInv'
  <2>1. /\ Alone /\ UNCHANGED <<left, asked, call, todo>> /\ todo = {}
        /\ status' = [status EXCEPT ![t] = "DELETED"]
    BY <1>9 DEF Delete, Mix, Alone
  <2> QED BY <2>1, <1>a, <1>t DEF AccessInv, OneAtATime, Quiet, ReadsAreCurrent, OpenHolds, ShutHolds
<1>10. ASSUME NEW t \in Tenant, SweepMark(t) PROVE AccessInv'
  <2>1. t \in todo /\ UNCHANGED <<left, asked, call>> /\ Quiet /\ Expired(t)
    BY <1>10 DEF SweepMark, AccessInv, OneAtATime, ReadsAreCurrent
  <2>2. status' = [status EXCEPT ![t] = "TRIAL_ENDED"] /\ todo' = todo \ {t}
    BY <1>10, <2>1 DEF SweepMark, Set, AfterMark, Expired
  <2>3. \A q \in Req : call[q].kind = "idle"
    BY <2>1, <1>0 DEF Quiet
  <2>4. OneAtATime' /\ ReadsAreCurrent'
    BY <2>1, <2>2, <2>3, <1>t
       DEF AccessInv, OneAtATime, Quiet, ReadsAreCurrent, Expired
  <2>5. OpenHolds'
    BY <2>1, <2>2, <2>3, <1>t DEF AccessInv, OpenHolds, Expired
  <2>6. ShutHolds'
    BY <2>1, <2>2, <2>3, <1>t DEF AccessInv, ShutHolds, Expired
  <2> QED BY <2>4, <2>5, <2>6 DEF AccessInv
<1>11. CASE Sweep
  <2>1. Alone /\ UNCHANGED <<status, left, asked, call>> /\ todo' = {t \in Tenant : Expired(t)}
    BY <1>11 DEF Sweep, Mix
  <2> QED BY <2>1, <1>a
          DEF AccessInv, OneAtATime, Quiet, ReadsAreCurrent, OpenHolds, ShutHolds, Expired
<1>12. CASE Tick
  <2>1. /\ Alone /\ UNCHANGED <<status, asked, todo>> /\ todo = {}
        /\ left' = [t \in Tenant |-> Passed(left[t])]
    BY <1>12 DEF Tick, Mix, Alone
  <2>2. \A q \in Req : call'[q] = Idle /\ call'[q].kind = "idle"
    BY <1>12, <1>a, <1>i, <2>1 DEF Tick
  <2>3. \A t \in Tenant : Elapsed(left[t]) => Elapsed(left'[t])
    BY <2>1, <1>t, PassedType
  <2> QED BY <2>1, <2>2, <2>3, <1>a
          DEF AccessInv, OneAtATime, Quiet, ReadsAreCurrent, OpenHolds, ShutHolds
<1>13. CASE UNCHANGED vars
  BY <1>13 DEF vars, AccessInv, OneAtATime, Quiet, ReadsAreCurrent, OpenHolds, ShutHolds, Expired
<1> QED BY <1>1, <1>2, <1>3, <1>4, <1>5, <1>6, <1>7, <1>8, <1>9, <1>10, <1>11, <1>12, <1>13
        DEF Next, Ask, Proceed

\* Once handlers or the sweep have overlapped, they have.
LEMMA MixedStays == ASSUME mixed, [Next]_vars PROVE mixed'
<1>1. ASSUME NEW p \in Req, Ask(p) PROVE mixed'
  BY <1>1 DEF Ask, Suspend, Activate, Delete, UpdateStatus, GrantRead, MayAsk, Mix
<1>2. ASSUME NEW p \in Req, Proceed(p) PROVE mixed'
  BY <1>2 DEF Proceed, ActivateLook, ActivateClear, GrantWindow, GrantStatus
<1>3. ASSUME NEW t \in Tenant, SweepMark(t) PROVE mixed'
  BY <1>3 DEF SweepMark
<1>4. CASE Sweep \/ Tick
  BY <1>4 DEF Sweep, Tick, Mix
<1> QED BY <1>1, <1>2, <1>3, <1>4 DEF Next, vars

CalmAccess == ~mixed => AccessInv

LEMMA AccessStaysCalm == Spec => []CalmAccess
<1>1. Init => CalmAccess
  <2>1. Init => OneAtATime /\ ReadsAreCurrent /\ OpenHolds /\ ShutHolds
    BY DEF Init, OneAtATime, Quiet, ReadsAreCurrent, OpenHolds, ShutHolds, Idle
  <2> QED BY <2>1, InitType DEF CalmAccess, AccessInv
<1>2. CalmAccess /\ TypeOK' /\ [Next]_vars => CalmAccess'
  BY AccessInvStep, MixedStays DEF CalmAccess
<1> QED BY <1>1, <1>2, AccessTypeCorrect, PTL DEF Spec

\* As long as nothing has overlapped, a tenant that was let in stays in until its
\* window ends or somebody decides otherwise, and a suspended one stays suspended.
THEOREM DecisionsHold == Spec => []DecisionsAreKept
<1>1. CalmAccess => DecisionsAreKept
  BY InvImpliesSafety DEF CalmAccess, DecisionsAreKept, GrantIsKept, SuspensionHolds
<1> QED BY <1>1, AccessStaysCalm, PTL

\* As long as nothing has overlapped, the sweep ends no suspended tenant, and a
\* reactivation makes no window endless that is still running.
THEOREM NothingIsOverwritten == Spec => OnlyActiveIsEnded /\ RunningWindowIsKept
<1>1. AccessInv => /\ \A t \in todo : status[t] = "ACTIVE"
                   /\ \A p \in Req : call[p].kind = "clear" => left[call[p].t] \in {0, NoEnd}
  BY DEF AccessInv, ReadsAreCurrent, Expired, Elapsed
<1>2. CalmAccess /\ [Next]_vars
        => [~mixed' => \A t \in Tenant : t \in todo /\ t \notin todo'
                                         => status[t] # "SUSPENDED"]_vars
  BY <1>1, MixedStays DEF CalmAccess
<1>3. CalmAccess /\ [Next]_vars
        => [~mixed' => \A p \in Req : call[p].kind = "clear" /\ call'[p] = Idle
                                         => left[call[p].t] \in {0, NoEnd}]_vars
  BY <1>1, MixedStays DEF CalmAccess
<1> QED BY <1>2, <1>3, AccessStaysCalm, PTL DEF Spec, OnlyActiveIsEnded, RunningWindowIsKept

-----------------------------------------------------------------------------
\* Billing.

\* While no two requests for credits have overlapped, one is in flight at most, and
\* what it read is the balance still.
OneReader ==
    ~clashed =>
        /\ \A v, w \in Busy : v = w
        /\ \A w \in Worker : work[w].at \in {"write", "spend", "grant"} => work[w].seen = row.credits
        /\ ledger = row.credits

\* The session of event i named its plan.
Named(i) == PlanOf[event[i].sub] # NoPlan

\* A handler is on the way of its event's type; a checkout without a plan has no
\* handler, and an update without a tag has no plan to write.
PlansKnown ==
    /\ \A w \in Worker : work[w].at = "row" => event[work[w].ev].type = "checkout"
    /\ \A w \in Worker : work[w].ev # 0 /\ event[work[w].ev].type = "checkout" => Named(work[w].ev)
    /\ \A w \in Worker : work[w].at = "status" => event[work[w].ev].type # "checkout"
    /\ \A w \in Worker : work[w].at \in {"plan", "read", "write"} /\ event[work[w].ev].type = "updated"
                         => event[work[w].ev].tag # NoPlan

Number == 1 .. Len(event)

\* Stripe's events: of each subscription first its checkout, nothing after its end,
\* the subscriptions in the order they were paid in, and the last event of each
\* is how it stands.
StripeHistory ==
    /\ \A i \in Number :
          /\ event[i].type = "checkout" => event[i].status = "active"
          /\ event[i].type = "deleted" <=> event[i].status = "canceled"
          /\ event[i].tag \in {NoPlan, PlanOf[event[i].sub]}
          /\ event[i].type # "checkout" => \E j \in 1 .. i - 1 : event[j].sub = event[i].sub
    /\ \A i, j \in Number : i < j =>
          /\ event[i].sub = event[j].sub => event[j].type # "checkout" /\ event[i].status # "canceled"
          /\ event[j].type = "checkout" => event[i].sub < event[j].sub
    /\ \A s \in Sub : stripe[s].status = "none" <=> \A i \in Number : event[i].sub # s
    /\ \A i \in Number : (\A j \in i + 1 .. Len(event) : event[j].sub # event[i].sub)
          => stripe[event[i].sub] = [status |-> event[i].status, tag |-> event[i].tag]
    /\ \A s \in Sub : stripe[s].tag \in {NoPlan, PlanOf[s]}

\* Event j is the latest of the newest subscription, of those whose session named its
\* plan, among the first k.
Newest(j, k) ==
    /\ j \in 1 .. k /\ Named(j)
    /\ \A i \in 1 .. k : Named(i) => event[i].sub <= event[j].sub
    /\ \A i \in j + 1 .. k : event[i].sub # event[j].sub

\* The row, and the tenant's plan, are what the first k events make of them.
RowAfter(k) ==
    \/ row.stripe = NoSub /\ \A i \in 1 .. k : ~Named(i)
    \/ \E j \in 1 .. k : /\ Newest(j, k)
                         /\ row.stripe = event[j].sub /\ row.plan = PlanOf[event[j].sub]
                         /\ row.status = StatusFor(event[j])

PlanAfter(k) ==
    \/ tenantPlan = Free /\ \A i \in 1 .. k : ~Named(i)
    \/ \E j \in 1 .. k : /\ Newest(j, k)
                         /\ tenantPlan = IF event[j].status = "canceled" THEN Free ELSE PlanOf[event[j].sub]

\* Where a handler of event n stands.
Handles(w, n) ==
    /\ work[w].ev = n
    /\ work[w].at # "row" => row.stripe = event[n].sub
    /\ work[w].at \in {"plan", "read", "write"} => RowAfter(n)
    /\ work[w].at \in {"read", "write"} => PlanAfter(n)

\* As long as events are handled in their order, the first k of them are, or refused:
\* the next one may be handled in part, its row first and then its plan.
HandledTo(k) ==
    /\ pending \ Refused = (k + 1 .. Len(event)) \ Refused
    /\ \/ RowAfter(k) /\ PlanAfter(k)
       \/ k < Len(event) /\ RowAfter(k + 1) /\ (PlanAfter(k) \/ PlanAfter(k + 1))
    /\ \A w \in Handling : k < Len(event) /\ Handles(w, k + 1)
    /\ \A v, w \in Handling : v = w

InOrder == ~shuffled => \E k \in 0 .. Len(event) : HandledTo(k)

-----------------------------------------------------------------------------

\* What a handler in flight is like, by where it is.
LEMMA HandlerTypes ==
    ASSUME BillingTypeOK, NEW w \in Worker
    PROVE  /\ work[w] \in Handler /\ work[w].ev \in 0 .. Len(event) /\ work[w].seen \in Nat
           /\ work[w].ev # 0 <=> work[w].at \in {"row", "status", "plan", "read", "write"}
           /\ work[w].ev # 0 => event[work[w].ev] \in StripeEvent
           /\ work[w].at = "spend" => work[w].seen >= 1
           /\ NoWork \in Handler /\ NoWork.ev = 0 /\ NoWork.at = "idle"
<1>1. work[w] \in Handler /\ work[w].ev <= Len(event) /\ event \in Seq(StripeEvent)
  BY DEF BillingTypeOK
<1>2. NoWork \in Handler /\ NoWork.ev = 0 /\ NoWork.at = "idle"
  BY DEF NoWork, Handler
<1>3. /\ work[w].ev \in Nat /\ work[w].seen \in Nat
      /\ work[w].ev # 0 <=> work[w].at \in {"row", "status", "plan", "read", "write"}
      /\ work[w].at = "spend" => work[w].seen >= 1
  BY <1>1 DEF Handler
<1>4. Len(event) \in Nat /\ (work[w].ev # 0 => event[work[w].ev] \in StripeEvent)
  BY <1>1, <1>3
<1> QED BY <1>1, <1>2, <1>3, <1>4

\* A handler that moves on, ends or begins keeps the handlers typed.
LEMMA ReachTypes ==
    ASSUME BillingTypeOK, NEW w \in Worker, work[w].ev # 0,
           NEW at \in {"row", "status", "plan", "read", "write"}, NEW n \in Nat,
           work' = [work EXCEPT ![w].at = at] \/ work' = [work EXCEPT ![w].at = at, ![w].seen = n]
    PROVE  work' \in [Worker -> Handler] /\ \A v \in Worker : work'[v].ev = work[v].ev
<1>1. work \in [Worker -> Handler] /\ work[w] \in Handler /\ work[w].ev # 0
  BY DEF BillingTypeOK
<1>2. work[w] \in [at : {"row", "status", "plan", "read", "write"}, ev : Nat \ {0}, seen : Nat]
  BY <1>1 DEF Handler
<1>3. /\ \A v \in Worker \ {w} : work'[v] = work[v]
      /\ work'[w] \in {[work[w] EXCEPT !.at = at], [work[w] EXCEPT !.at = at, !.seen = n]}
  BY <1>1, <1>2
<1>4. work'[w] \in Handler /\ work'[w].ev = work[w].ev
  <2> HIDE <1>1
  <2>1. work'[w] \in [at : {"row", "status", "plan", "read", "write"}, ev : Nat \ {0}, seen : Nat]
    BY <1>2, <1>3
  <2> QED BY <1>2, <1>3, <2>1 DEF Handler
<1>5. work' \in [Worker -> Handler]
  BY <1>1, <1>3, <1>4
<1> QED BY <1>3, <1>4, <1>5

LEMMA EnterTypes ==
    ASSUME BillingTypeOK, NEW w \in Worker, NEW h \in Handler, work' = [work EXCEPT ![w] = h]
    PROVE  work' \in [Worker -> Handler] /\ work'[w] = h /\ \A v \in Worker \ {w} : work'[v] = work[v]
BY DEF BillingTypeOK

\* The events that are refused.
LEMMA RefusedIs ==
    ASSUME BillingTypeOK
    PROVE  /\ Refused \subseteq Number
           /\ \A i \in Number : i \in Refused <=> event[i].type = "checkout" /\ ~Named(i)
<1>1. event \in Seq(StripeEvent) /\ Len(event) \in Nat
  BY DEF BillingTypeOK
<1>2. DOMAIN event = Number
  BY <1>1 DEF Number
<1> QED BY <1>2 DEF Refused, Named

\* The statuses and plans that events stand for are those of the row.
LEMMA EventValues ==
    ASSUME NEW e \in StripeEvent
    PROVE  /\ StatusFor(e) \in RowStatus
           /\ PlanFor(e) \in Plan \cup {NoPlan}
           /\ (e.type = "updated" => e.tag # NoPlan) /\ (e.type = "checkout" => PlanOf[e.sub] # NoPlan)
                => PlanFor(e) \in Plan
<1> USE BillingAssumption DEF StripeEvent
<1>1. \A st \in StripeStatus : mapStripeStatus(st) \in RowStatus
  BY DEF mapStripeStatus, StripeStatus, RowStatus
<1>2. StatusFor(e) \in RowStatus
  BY <1>1 DEF StatusFor, RowStatus
<1>3. PlanOf[e.sub] \in Plan \cup {NoPlan}
  OBVIOUS
<1> QED BY <1>2, <1>3 DEF PlanFor

\* What Stripe emits becomes the last event and has the type of one.
LEMMA EmitTypes ==
    ASSUME BillingTypeOK, NEW type \in {"checkout", "updated", "deleted"}, NEW s \in Sub,
           NEW now \in AtStripe, now.status # "none", Emit(type, s, now)
    PROVE  /\ event' \in Seq(StripeEvent) /\ Len(event') = Len(event) + 1
           /\ \A i \in 1 .. Len(event) : event'[i] = event[i]
           /\ event'[Len(event) + 1] = [type |-> type, sub |-> s, status |-> now.status, tag |-> now.tag]
           /\ pending' = pending \cup {Len(event) + 1}
           /\ stripe' = [stripe EXCEPT ![s] = now]
           /\ UNCHANGED <<row, tenantPlan, ledger, work, faults, uses, shuffled, clashed>>
<1>1. [type |-> type, sub |-> s, status |-> now.status, tag |-> now.tag] \in StripeEvent
  BY DEF AtStripe, StripeEvent
<1>2. event \in Seq(StripeEvent)
  BY DEF BillingTypeOK
<1> QED BY <1>1, <1>2 DEF Emit, billing

\* The plan of an event whose handler has come to the plan.
LEMMA PlanAt ==
    ASSUME BillingTypeOK, PlansKnown, NEW w \in Worker, work[w].at \in {"plan", "read", "write"}
    PROVE  /\ PlanFor(event[work[w].ev]) \in Plan /\ Included[PlanFor(event[work[w].ev])] \in Nat
           /\ work[w].ev # 0
BY HandlerTypes, EventValues, BillingAssumption DEF PlansKnown, Named

\* Booking a balance keeps the row and the ledger typed.
LEMMA BookTypes ==
    ASSUME BillingTypeOK, NEW target \in Nat, NEW seen \in Nat, Book(target, seen)
    PROVE  /\ row' \in Row /\ ledger' \in Int /\ ledger' = ledger + (target - seen)
           /\ row'.credits = target
           /\ row'.stripe = row.stripe /\ row'.plan = row.plan /\ row'.status = row.status
<1>1. row \in Row /\ ledger \in Int
  BY DEF BillingTypeOK
<1>2. row' = [row EXCEPT !.credits = target] /\ ledger' = ledger + (target - seen)
  BY DEF Book, Delta
<1> QED BY <1>1, <1>2 DEF Row

\* Every step keeps every variable's type, and the plans known.
LEMMA BillingTypeStep ==
    ASSUME BillingTypeOK, PlansKnown, [BillingNext]_billingVars
    PROVE  BillingTypeOK' /\ PlansKnown'
<1> USE DEF billing, outside
<1>a. Len(event) \in Nat
  BY DEF BillingTypeOK
<1>e. ASSUME NEW type \in {"checkout", "updated", "deleted"}, NEW s \in Sub, NEW now \in AtStripe,
             now.status # "none", Emit(type, s, now)
      PROVE  BillingTypeOK' /\ PlansKnown'
  <2>1. event' \in Seq(StripeEvent) /\ Len(event') = Len(event) + 1
    BY <1>e, EmitTypes
  <2>2. \A i \in 1 .. Len(event) : event'[i] = event[i]
    BY <1>e, EmitTypes
  <2>3. pending' \subseteq 1 .. Len(event')
    <3>1. pending \subseteq 1 .. Len(event) /\ pending' = pending \cup {Len(event) + 1}
      BY <1>e, EmitTypes DEF BillingTypeOK
    <3>2. ASSUME NEW i \in pending' PROVE i \in 1 .. Len(event) + 1
      BY <1>a, <3>1
    <3> QED BY <2>1, <3>2
  <2>4. stripe' \in [Sub -> AtStripe]
    <3>1. stripe' = [stripe EXCEPT ![s] = now]
      BY <1>e DEF Emit
    <3> QED BY <3>1 DEF BillingTypeOK
  <2>5. UNCHANGED <<row, tenantPlan, ledger, work, faults, uses, shuffled, clashed>>
    BY <1>e, EmitTypes
  <2>6. \A w \in Worker : work[w].ev <= Len(event')
    BY <1>a, <2>1, HandlerTypes
  <2>7. BillingTypeOK'
    BY <2>1, <2>3, <2>4, <2>5, <2>6 DEF BillingTypeOK
  <2>8. PlansKnown'
    BY <2>2, <2>5, HandlerTypes DEF PlansKnown, Named
  <2> QED BY <2>7, <2>8
<1>1. ASSUME NEW s \in Sub, NEW tag \in {NoPlan, PlanOf[s]}, Checkout(s, tag) PROVE BillingTypeOK' /\ PlansKnown'
  <2>1. [status |-> "active", tag |-> tag] \in AtStripe
    BY BillingAssumption DEF AtStripe, StripeStatus
  <2> QED BY <1>1, <1>e, <2>1 DEF Checkout
<1>2. ASSUME NEW s \in Sub, NEW st \in StripeStatus, ChangeAtStripe(s, st) PROVE BillingTypeOK' /\ PlansKnown'
  <2>1. [stripe[s] EXCEPT !.status = st] \in AtStripe /\ [stripe[s] EXCEPT !.status = st].status = st
    BY DEF BillingTypeOK, AtStripe
  <2>2. st # "none"
    BY DEF StripeStatus
  <2> QED BY <1>2, <1>e, <2>1, <2>2 DEF ChangeAtStripe
<1>3. ASSUME NEW w \in Worker, NEW i \in pending, Deliver(w, i) PROVE BillingTypeOK' /\ PlansKnown'
  <2>1. /\ i \in Nat \ {0} /\ i <= Len(event) /\ shuffled' \in BOOLEAN
        /\ i \in Refused \/ event[i].type # "checkout" \/ Named(i)
    <3>1. i \in Number /\ i \in Nat \ {0} /\ i <= Len(event)
      BY DEF BillingTypeOK, Number
    <3>2. shuffled' \in BOOLEAN
      BY <1>3 DEF BillingTypeOK, Deliver
    <3>3. i \in Refused \/ event[i].type # "checkout" \/ Named(i)
      BY <3>1, RefusedIs
    <3> QED BY <3>1, <3>2, <3>3
  <2>2. ASSUME NEW at \in {"row", "status"}, Enter(w, at, i), UNCHANGED pending,
               at = "row" <=> event[i].type = "checkout", i \notin Refused
        PROVE  BillingTypeOK' /\ PlansKnown'
    <3>1. [at |-> at, ev |-> i, seen |-> 0] \in Handler
      BY <2>1 DEF Handler
    <3>2. /\ work' \in [Worker -> Handler] /\ work'[w] = [at |-> at, ev |-> i, seen |-> 0]
          /\ \A v \in Worker \ {w} : work'[v] = work[v]
      BY <2>2, <3>1, EnterTypes DEF Enter
    <3>3. \A v \in Worker : work'[v].ev <= Len(event)
      BY <2>1, <3>2 DEF BillingTypeOK
    <3>4. clashed' \in BOOLEAN
      BY <2>2 DEF Enter
    <3>5. BillingTypeOK'
      BY <1>3, <2>1, <2>2, <3>2, <3>3, <3>4 DEF Deliver, BillingTypeOK
    <3>6. PlansKnown'
      BY <1>3, <2>1, <2>2, <3>2 DEF Deliver, PlansKnown, Named
    <3> QED BY <3>5, <3>6
  <2>3. CASE pending' \in {pending, pending \ {i}} /\ UNCHANGED <<work, clashed>>
    BY <1>3, <2>1, <2>3 DEF Deliver, BillingTypeOK, PlansKnown, Named
  <2> QED BY <1>3, <2>2, <2>3 DEF Deliver
<1>r. ASSUME NEW w \in Worker, work[w].ev # 0, NEW at \in {"plan", "read"}, Reach(w, at),
             event[work[w].ev].type = "updated" => event[work[w].ev].tag # NoPlan, UNCHANGED event
      PROVE  /\ work' \in [Worker -> Handler] /\ \A v \in Worker : work'[v].ev <= Len(event')
             /\ PlansKnown'
  <2>1. work' = [work EXCEPT ![w].at = at] /\ at \in {"row", "status", "plan", "read", "write"} /\ 0 \in Nat
    BY <1>r DEF Reach
  <2>2. work' \in [Worker -> Handler] /\ \A v \in Worker : work'[v].ev = work[v].ev
    BY <1>r, <2>1, ReachTypes
  <2>3. \A v \in Worker \ {w} : work'[v] = work[v]
    BY <2>1 DEF BillingTypeOK
  <2>4. \A v \in Worker : work'[v].ev <= Len(event')
    BY <1>r, <2>2, HandlerTypes DEF BillingTypeOK
  <2>5. work'[w].at = at /\ work'[w].ev = work[w].ev
    <3>1. work[w] \in Handler /\ work'[w] = [work[w] EXCEPT !.at = at]
      BY <2>1 DEF BillingTypeOK
    <3>2. work'[w].at = at
      BY <3>1 DEF Handler
    <3> QED BY <2>2, <3>2
  <2>6. PlansKnown'
    BY <1>r, <2>2, <2>3, <2>5 DEF PlansKnown, Named
  <2> QED BY <2>2, <2>4, <2>6
<1>n. ASSUME NEW w \in Worker, work' = [work EXCEPT ![w] = NoWork], UNCHANGED event
      PROVE  /\ work' \in [Worker -> Handler] /\ \A v \in Worker : work'[v].ev <= Len(event')
             /\ PlansKnown'
  <2>1. /\ work' \in [Worker -> Handler] /\ work'[w] = NoWork
        /\ \A v \in Worker \ {w} : work'[v] = work[v]
    BY <1>n, EnterTypes, HandlerTypes
  <2> QED BY <1>a, <1>n, <2>1, HandlerTypes DEF BillingTypeOK, PlansKnown, Named
<1>4. ASSUME NEW w \in Worker, WriteRow(w) PROVE BillingTypeOK' /\ PlansKnown'
  <2>1. work[w].ev # 0 /\ event[work[w].ev] \in StripeEvent
    BY <1>4, HandlerTypes DEF WriteRow
  <2>2. row' \in Row
    <3>1. event[work[w].ev].sub \in Sub /\ PlanOf[event[work[w].ev].sub] \in Plan /\ StatusFor(event[work[w].ev]) \in RowStatus
      BY <1>4, <2>1, EventValues, BillingAssumption DEF StripeEvent, WriteRow, PlansKnown, Named
    <3> QED BY <1>4, <3>1 DEF WriteRow, BillingTypeOK, Row
  <2>3. event[work[w].ev].type = "checkout"
    BY <1>4 DEF WriteRow, PlansKnown
  <2>4. /\ work' \in [Worker -> Handler] /\ \A v \in Worker : work'[v].ev <= Len(event')
        /\ PlansKnown'
    BY <1>4, <2>1, <2>3, <1>r DEF WriteRow
  <2> QED BY <1>4, <2>2, <2>4 DEF WriteRow, BillingTypeOK
<1>5. ASSUME NEW w \in Worker, WriteStatus(w) PROVE BillingTypeOK' /\ PlansKnown'
  <2>1. /\ work[w].ev # 0 /\ event[work[w].ev] \in StripeEvent /\ event[work[w].ev].type # "checkout"
    BY <1>5, HandlerTypes DEF WriteStatus, PlansKnown
  <2>2. row' \in Row
    <3>1. StatusFor(event[work[w].ev]) \in RowStatus
      BY <2>1, EventValues
    <3> QED BY <1>5, <3>1 DEF WriteStatus, BillingTypeOK, Row
  <2>3. CASE Answer(w)
    <3>1. /\ work' \in [Worker -> Handler] /\ \A v \in Worker : work'[v].ev <= Len(event')
          /\ PlansKnown'
      BY <1>5, <2>3, <1>n DEF WriteStatus, Answer
    <3> QED BY <1>5, <2>2, <2>3, <3>1 DEF WriteStatus, Answer, BillingTypeOK
  <2>4. CASE Reach(w, "plan") /\ UNCHANGED pending /\ ~(event[work[w].ev].type = "updated" /\ event[work[w].ev].tag = NoPlan)
    <3>1. /\ work' \in [Worker -> Handler] /\ \A v \in Worker : work'[v].ev <= Len(event')
          /\ PlansKnown'
      BY <1>5, <2>1, <2>4, <1>r DEF WriteStatus
    <3> QED BY <1>5, <2>2, <2>4, <3>1 DEF WriteStatus, BillingTypeOK
  <2> QED BY <1>5, <2>3, <2>4 DEF WriteStatus
<1>6. ASSUME NEW w \in Worker, WritePlan(w) PROVE BillingTypeOK' /\ PlansKnown'
  <2>1. PlanFor(event[work[w].ev]) \in Plan /\ work[w].ev # 0
    BY <1>6, PlanAt DEF WritePlan
  <2>2. event[work[w].ev].type = "updated" => event[work[w].ev].tag # NoPlan
    BY <1>6 DEF WritePlan, PlansKnown
  <2>3. /\ work' \in [Worker -> Handler] /\ \A v \in Worker : work'[v].ev <= Len(event')
        /\ PlansKnown'
    BY <1>6, <2>1, <2>2, <1>r DEF WritePlan
  <2> QED BY <1>6, <2>1, <2>3 DEF WritePlan, BillingTypeOK
<1>7. ASSUME NEW w \in Worker, ReadCredits(w) PROVE BillingTypeOK' /\ PlansKnown'
  <2>1. work[w].ev # 0 /\ row.credits \in Nat
    BY <1>7, PlanAt DEF ReadCredits, BillingTypeOK, Row
  <2>2. CASE Answer(w)
    <3>1. /\ work' \in [Worker -> Handler] /\ \A v \in Worker : work'[v].ev <= Len(event')
          /\ PlansKnown'
      BY <1>7, <2>2, <1>n DEF ReadCredits, Answer
    <3> QED BY <1>7, <2>2, <3>1 DEF ReadCredits, Answer, BillingTypeOK
  <2>3. CASE work' = [work EXCEPT ![w].at = "write", ![w].seen = row.credits] /\ UNCHANGED pending
    <3>1. work' \in [Worker -> Handler] /\ \A v \in Worker : work'[v].ev = work[v].ev
      BY <2>1, <2>3, ReachTypes
    <3>2. \A v \in Worker \ {w} : work'[v] = work[v]
      BY <2>3 DEF BillingTypeOK
    <3>3. PlansKnown'
      <4>1. work'[w].at = "write"
        <5>1. work[w] \in Handler /\ work'[w] = [work[w] EXCEPT !.at = "write", !.seen = row.credits]
          BY <2>3 DEF BillingTypeOK
        <5> QED BY <5>1 DEF Handler
      <4> QED BY <1>7, <3>1, <3>2, <4>1 DEF ReadCredits, PlansKnown, Named
    <3>4. \A v \in Worker : work'[v].ev <= Len(event')
      BY <1>7, <3>1 DEF ReadCredits, BillingTypeOK
    <3>5. BillingTypeOK'
      BY <1>7, <2>3, <3>1, <3>4 DEF ReadCredits, BillingTypeOK
    <3> QED BY <3>3, <3>5
  <2> QED BY <1>7, <2>2, <2>3 DEF ReadCredits
<1>8. ASSUME NEW w \in Worker, WriteCredits(w) \/ LoseAnswer(w) PROVE BillingTypeOK' /\ PlansKnown'
  <2>1. Included[PlanFor(event[work[w].ev])] \in Nat /\ work[w].seen \in Nat
    BY <1>8, PlanAt, HandlerTypes DEF WriteCredits, LoseAnswer
  <2>2. row' \in Row /\ ledger' \in Int
    BY <1>8, <2>1, BookTypes DEF WriteCredits, LoseAnswer
  <2>3. work' = [work EXCEPT ![w] = NoWork] /\ UNCHANGED <<event, stripe, tenantPlan, uses, shuffled, clashed>>
    BY <1>8 DEF WriteCredits, LoseAnswer, Answer
  <2>4. /\ work' \in [Worker -> Handler] /\ \A v \in Worker : work'[v].ev <= Len(event')
        /\ PlansKnown'
    BY <2>3, <1>n
  <2>5. pending' \subseteq 1 .. Len(event)
    BY <1>8 DEF WriteCredits, LoseAnswer, Answer, BillingTypeOK
  <2>6. faults' \in 0 .. MaxFaults
    BY <1>8, BillingAssumption DEF WriteCredits, LoseAnswer, Fault, BillingTypeOK
  <2> QED BY <2>2, <2>3, <2>4, <2>5, <2>6 DEF BillingTypeOK
<1>9. ASSUME NEW w \in Worker, WriteUse(w) PROVE BillingTypeOK' /\ PlansKnown'
  <2>1. work[w].seen \in Nat /\ (work[w].at = "spend" => work[w].seen >= 1)
    BY HandlerTypes
  <2>2. work[w].seen + (IF work[w].at = "grant" THEN 1 ELSE -1) \in Nat
    BY <1>9, <2>1 DEF WriteUse
  <2>3. row' \in Row /\ ledger' \in Int
    BY <1>9, <2>1, <2>2, BookTypes DEF WriteUse
  <2>4. /\ work' \in [Worker -> Handler] /\ \A v \in Worker : work'[v].ev <= Len(event')
        /\ PlansKnown'
    BY <1>9, <1>n DEF WriteUse
  <2> QED BY <1>9, <2>3, <2>4 DEF WriteUse, BillingTypeOK
<1>10. ASSUME NEW w \in Worker, NEW at \in {"spend", "grant"}, BeginUse(w, at) PROVE BillingTypeOK' /\ PlansKnown'
  <2>1. row.credits \in Nat /\ (at = "spend" => row.credits >= 1)
    BY <1>10 DEF BeginUse, BillingTypeOK, Row
  <2>2. [at |-> at, ev |-> 0, seen |-> row.credits] \in Handler
    BY <2>1 DEF Handler
  <2>3. /\ work' \in [Worker -> Handler] /\ work'[w] = [at |-> at, ev |-> 0, seen |-> row.credits]
        /\ \A v \in Worker \ {w} : work'[v] = work[v]
    BY <1>10, <2>2, EnterTypes DEF BeginUse
  <2>4. \A v \in Worker : work'[v].ev <= Len(event)
    BY <1>a, <2>3, HandlerTypes
  <2>5. uses' \in 0 .. MaxUses
    BY <1>10, BillingAssumption DEF BeginUse, BillingTypeOK
  <2>6. clashed' \in BOOLEAN
    BY <1>10 DEF BeginUse
  <2>7. BillingTypeOK'
    BY <1>10, <2>3, <2>4, <2>5, <2>6 DEF BeginUse, BillingTypeOK
  <2> QED BY <1>10, <2>3, <2>7 DEF BeginUse, PlansKnown, Named
<1>11. ASSUME NEW w \in Worker, Die(w) PROVE BillingTypeOK' /\ PlansKnown'
  <2>1. /\ work' \in [Worker -> Handler] /\ \A v \in Worker : work'[v].ev <= Len(event')
        /\ PlansKnown'
    BY <1>11, <1>n DEF Die
  <2>2. faults' \in 0 .. MaxFaults
    BY <1>11, BillingAssumption DEF Die, Fault, BillingTypeOK
  <2> QED BY <1>11, <2>1, <2>2 DEF Die, BillingTypeOK
<1>12. CASE UNCHANGED billingVars
  <2>1. BillingTypeOK'
    BY <1>12 DEF billingVars, BillingTypeOK
  <2>2. PlansKnown'
    BY <1>12 DEF billingVars, PlansKnown, Named
  <2> QED BY <2>1, <2>2
<1> QED
  BY <1>1, <1>2, <1>3, <1>4, <1>5, <1>6, <1>7, <1>8, <1>9, <1>10, <1>11, <1>12 DEF BillingNext, Step

-----------------------------------------------------------------------------

\* Every step keeps the only reader right about the balance, and the ledger with it.
LEMMA OneReaderStep ==
    ASSUME BillingTypeOK, PlansKnown, OneReader, [BillingNext]_billingVars
    PROVE  OneReader'
<1> USE DEF billing, outside
<1> SUFFICES ASSUME ~clashed' PROVE OneReader'
  BY DEF OneReader
<1>a. row \in Row /\ row.credits \in Nat /\ ledger \in Int
  BY DEF BillingTypeOK, Row
<1>b. /\ \A v \in Worker : work[v] \in Handler
      /\ \A v \in Worker : v \in Busy <=> work[v] # NoWork
      /\ NoWork \in Handler /\ NoWork.at = "idle"
  BY DEF Busy, NoWork, Handler, BillingTypeOK
\* One request is in flight and stays the one.
<1>s. ASSUME ~clashed, NEW w \in Worker, work[w] # NoWork,
             \A v \in Worker \ {w} : work'[v] = work[v],
             ledger' = row'.credits,
             work'[w].at \in {"write", "spend", "grant"} => work'[w].seen = row'.credits
      PROVE  OneReader'
  <2>1. \A v \in Worker \ {w} : work[v] = NoWork
    BY <1>s, <1>b DEF OneReader
  <2> QED BY <1>b, <1>s, <2>1 DEF OneReader, Busy
\* One begins when there is none.
<1>t. ASSUME ~clashed, Busy = {}, NEW w \in Worker, NEW h \in Handler, work' = [work EXCEPT ![w] = h],
             UNCHANGED <<row, ledger>>,
             h.at \in {"write", "spend", "grant"} => h.seen = row.credits
      PROVE  OneReader'
  <2>1. \A v \in Worker : work[v] = NoWork
    BY <1>t, <1>b
  <2>2. work'[w] = h /\ \A v \in Worker \ {w} : work'[v] = work[v]
    BY <1>t, EnterTypes
  <2> QED BY <1>b, <1>t, <2>1, <2>2 DEF OneReader, Busy
\* Nothing that credits depend on changes.
<1>u. ASSUME UNCHANGED <<work, ledger, clashed>>, row'.credits = row.credits PROVE OneReader'
  BY <1>u DEF OneReader, Busy
<1>1. ASSUME NEW s \in Sub, NEW type, NEW now, Emit(type, s, now) PROVE OneReader'
  BY <1>1, <1>u DEF Emit
<1>2. ASSUME NEW w \in Worker, NEW i \in pending, Deliver(w, i) PROVE OneReader'
  <2>1. CASE UNCHANGED <<work, clashed>>
    BY <1>2, <1>u, <2>1 DEF Deliver
  <2>2. ASSUME NEW at \in {"row", "status"}, Enter(w, at, i) PROVE OneReader'
    <3>1. [at |-> at, ev |-> i, seen |-> 0] \in Handler
      BY DEF BillingTypeOK, Handler
    <3> QED BY <1>2, <2>2, <3>1, <1>t DEF Deliver, Enter
  <2> QED BY <1>2, <2>1, <2>2 DEF Deliver
<1>3. ASSUME NEW w \in Worker, WriteRow(w) \/ WriteStatus(w) \/ WritePlan(w) PROVE OneReader'
  <2>1. work[w] # NoWork /\ ~clashed /\ \A v \in Worker \ {w} : work'[v] = work[v]
    BY <1>3, <1>b DEF WriteRow, WriteStatus, WritePlan, Reach, Answer, BillingTypeOK
  <2>2. row'.credits = row.credits /\ ledger' = ledger
    BY <1>3, <1>a DEF WriteRow, WriteStatus, WritePlan, Row
  <2>3. work'[w].at \in {"plan", "read", "idle"}
    <3>1. work \in [Worker -> Handler] /\ NoWork.at = "idle"
      BY <1>b DEF BillingTypeOK
    <3>2. CASE work' = [work EXCEPT ![w] = NoWork]
      BY <3>1, <3>2
    <3>3. CASE work' = [work EXCEPT ![w].at = "plan"] \/ work' = [work EXCEPT ![w].at = "read"]
      BY <3>1, <3>3 DEF Handler
    <3> QED BY <1>3, <3>2, <3>3 DEF WriteRow, WriteStatus, WritePlan, Reach, Answer
  <2> QED BY <2>1, <2>2, <2>3, <1>s DEF OneReader
<1>4. ASSUME NEW w \in Worker, ReadCredits(w) PROVE OneReader'
  <2>1. work[w] # NoWork /\ ~clashed /\ \A v \in Worker \ {w} : work'[v] = work[v]
    BY <1>4, <1>b DEF ReadCredits, Answer, BillingTypeOK
  <2>2. UNCHANGED <<row, ledger>>
    BY <1>4 DEF ReadCredits
  <2>3. work'[w].at \in {"write", "spend", "grant"} => work'[w].seen = row.credits
    <3>1. work \in [Worker -> Handler] /\ NoWork.at = "idle"
      BY <1>b DEF BillingTypeOK
    <3>2. CASE work' = [work EXCEPT ![w] = NoWork]
      BY <3>1, <3>2
    <3>3. CASE work' = [work EXCEPT ![w].at = "write", ![w].seen = row.credits]
      <4>1. work[w] \in Handler /\ work'[w] = [work[w] EXCEPT !.at = "write", !.seen = row.credits]
        BY <3>1, <3>3
      <4> QED BY <4>1 DEF Handler
    <3> QED BY <1>4, <3>2, <3>3 DEF ReadCredits, Answer
  <2> QED BY <2>1, <2>2, <2>3, <1>s DEF OneReader
<1>5. ASSUME NEW w \in Worker, WriteCredits(w) \/ LoseAnswer(w) \/ WriteUse(w) PROVE OneReader'
  <2>1. /\ work[w].at \in {"write", "spend", "grant"} /\ work[w] # NoWork /\ ~clashed
        /\ work[w].seen \in Nat /\ work[w].seen = row.credits /\ ledger = row.credits
    BY <1>5, <1>b, HandlerTypes DEF WriteCredits, LoseAnswer, WriteUse, OneReader
  <2>2. PICK target \in Nat : Book(target, work[w].seen)
    <3>1. work[w].at = "write" => Included[PlanFor(event[work[w].ev])] \in Nat
      BY PlanAt
    <3>2. work[w].at = "spend" \/ work[w].at = "grant" => work[w].seen + (IF work[w].at = "grant" THEN 1 ELSE -1) \in Nat
      BY <2>1, HandlerTypes
    <3> QED BY <1>5, <3>1, <3>2 DEF WriteCredits, LoseAnswer, WriteUse
  <2>3. ledger' = row'.credits
    BY <2>1, <2>2, BookTypes, <1>a
  <2>4. work' = [work EXCEPT ![w] = NoWork]
    BY <1>5 DEF WriteCredits, LoseAnswer, WriteUse, Answer
  <2>5. work'[w] = NoWork /\ \A v \in Worker \ {w} : work'[v] = work[v]
    BY <2>4, <1>b, EnterTypes
  <2> QED BY <2>1, <2>3, <2>5, <1>b, <1>s
<1>6. ASSUME NEW w \in Worker, NEW at \in {"spend", "grant"}, BeginUse(w, at) PROVE OneReader'
  <2>1. [at |-> at, ev |-> 0, seen |-> row.credits] \in Handler
    BY <1>6, <1>a DEF BeginUse, Handler
  <2> QED BY <1>6, <2>1, <1>t DEF BeginUse
<1>7. ASSUME NEW w \in Worker, Die(w) PROVE OneReader'
  <2>1. work' = [work EXCEPT ![w] = NoWork] /\ work[w] # NoWork /\ ~clashed /\ UNCHANGED <<row, ledger>>
    BY <1>7 DEF Die
  <2>2. work'[w] = NoWork /\ \A v \in Worker \ {w} : work'[v] = work[v]
    BY <2>1, <1>b, EnterTypes
  <2> QED BY <2>1, <2>2, <1>b, <1>s DEF OneReader
<1>8. CASE UNCHANGED billingVars
  BY <1>8, <1>u DEF billingVars
<1> QED
  BY <1>1, <1>2, <1>3, <1>4, <1>5, <1>6, <1>7, <1>8 DEF BillingNext, Step, Checkout, ChangeAtStripe

-----------------------------------------------------------------------------

\* What Stripe emits, and only that, goes on with its history.
LEMMA StripeHistoryStep ==
    ASSUME BillingTypeOK, StripeHistory, [BillingNext]_billingVars
    PROVE  StripeHistory'
<1> DEFINE n == Len(event)
<1>a. /\ n \in Nat /\ Number = 1 .. n /\ Sub \subseteq Nat /\ stripe \in [Sub -> AtStripe]
      /\ \A i \in Number : event[i].sub \in Sub
  <2>1. n \in Nat /\ Number = 1 .. n /\ Sub \subseteq Nat /\ stripe \in [Sub -> AtStripe]
    BY BillingAssumption DEF BillingTypeOK, Number
  <2>2. ASSUME NEW i \in Number PROVE event[i].sub \in Sub
    <3>1. event \in Seq(StripeEvent) /\ i \in 1 .. Len(event)
      BY DEF BillingTypeOK, Number
    <3>2. event[i] \in StripeEvent
      BY <3>1
    <3> QED BY <3>2 DEF StripeEvent
  <2> QED BY <2>1, <2>2
<1>e. ASSUME NEW type \in {"checkout", "updated", "deleted"}, NEW s \in Sub, NEW now \in AtStripe,
             now.status # "none", Emit(type, s, now), now.tag \in {NoPlan, PlanOf[s]},
             type = "checkout" => now.status = "active" /\ \A i \in Number : event[i].sub < s,
             type = "deleted" <=> now.status = "canceled",
             type # "checkout" => /\ \E i \in Number : event[i].sub = s
                                  /\ \A i \in Number : event[i].sub = s => event[i].status # "canceled"
      PROVE  StripeHistory'
  <2>1. /\ Len(event') = n + 1 /\ \A i \in 1 .. n : event'[i] = event[i]
        /\ event'[n + 1] = [type |-> type, sub |-> s, status |-> now.status, tag |-> now.tag]
        /\ stripe' = [stripe EXCEPT ![s] = now]
    BY <1>e, EmitTypes
  <2>2. Number' = Number \cup {n + 1}
    <3>1. Number' = 1 .. (n + 1) /\ Number = 1 .. n
      BY <2>1 DEF Number
    <3> HIDE DEF n
    <3> QED BY <1>a, <3>1
  <2>3. \A i \in Number' : (i \in Number /\ event'[i] = event[i]) \/ i = n + 1
    BY <2>1, <2>2 DEF Number
  <2> HIDE DEF n
  <2>4. \A i \in Number' :
          /\ event'[i].type = "checkout" => event'[i].status = "active"
          /\ event'[i].type = "deleted" <=> event'[i].status = "canceled"
          /\ event'[i].tag \in {NoPlan, PlanOf[event'[i].sub]}
    BY <1>e, <2>1, <2>3 DEF StripeHistory
  <2>5. ASSUME NEW i \in Number', event'[i].type # "checkout" PROVE \E j \in 1 .. i - 1 : event'[j].sub = event'[i].sub
    <3>1. CASE i \in Number
      <4>1. i \in 1 .. n /\ event'[i] = event[i]
        BY <1>a, <2>1, <3>1
      <4>2. event[i].type # "checkout"
        BY <2>5, <4>1
      <4>3. PICK j \in 1 .. i - 1 : event[j].sub = event[i].sub
        BY <3>1, <4>2 DEF StripeHistory
      <4>4. j \in 1 .. n
        BY <1>a, <4>1
      <4> QED BY <2>1, <4>1, <4>3, <4>4
    <3>2. CASE i = n + 1
      <4>1. PICK j \in 1 .. n : event[j].sub = s
        BY <1>a, <1>e, <2>1, <2>5, <3>2
      <4>2. j \in 1 .. i - 1
        BY <1>a, <3>2
      <4> QED BY <2>1, <3>2, <4>1, <4>2
    <3> QED BY <2>3, <3>1, <3>2
  <2>6. ASSUME NEW i \in Number', NEW j \in Number', i < j
        PROVE  /\ event'[i].sub = event'[j].sub => event'[j].type # "checkout" /\ event'[i].status # "canceled"
               /\ event'[j].type = "checkout" => event'[i].sub < event'[j].sub
    <3>1. i \in 1 .. n /\ event'[i] = event[i] /\ event[i].sub \in Sub
      BY <1>a, <2>1, <2>2, <2>6
    <3>2. CASE j \in Number
      <4>1. j \in 1 .. n /\ event'[j] = event[j]
        BY <1>a, <2>1, <3>2
      <4> QED BY <1>a, <2>6, <3>1, <3>2, <4>1 DEF StripeHistory
    <3>3. CASE j = n + 1
      <4>1. /\ event'[j].sub = s /\ event'[j].type = type
        BY <2>1, <3>3
      <4> QED BY <1>a, <1>e, <3>1, <4>1
    <3> QED BY <2>3, <3>2, <3>3
  <2>7. ASSUME NEW r \in Sub PROVE stripe'[r].status = "none" <=> \A i \in Number' : event'[i].sub # r
    <3>1. CASE r = s
      BY <1>a, <1>e, <2>1, <2>2, <3>1, SMTT(20)
    <3>2. CASE r # s
      <4>1. stripe'[r] = stripe[r]
        BY <1>a, <2>1, <3>2
      <4>2. (\A i \in Number' : event'[i].sub # r) <=> \A i \in Number : event[i].sub # r
        <5>1. event'[n + 1].sub # r
          BY <2>1, <3>2
        <5>2. \A i \in Number : event'[i] = event[i]
          BY <1>a, <2>1
        <5> QED BY <2>2, <5>1, <5>2
      <4> QED BY <4>1, <4>2 DEF StripeHistory
    <3> QED BY <3>1, <3>2
  <2>8. ASSUME NEW i \in Number', \A j \in i + 1 .. Len(event') : event'[j].sub # event'[i].sub
        PROVE  stripe'[event'[i].sub] = [status |-> event'[i].status, tag |-> event'[i].tag]
    <3>1. CASE i = n + 1
      <4>1. now = [status |-> now.status, tag |-> now.tag]
        BY DEF AtStripe
      <4> QED BY <1>a, <2>1, <3>1, <4>1
    <3>2. CASE i \in Number
      <4>1. n + 1 \in i + 1 .. Len(event') /\ i \in 1 .. n
        BY <1>a, <2>1, <3>2
      <4>2. event[i].sub # s
        BY <2>1, <2>8, <4>1
      <4>3. \A j \in i + 1 .. n : event[j].sub # event[i].sub
        <5> SUFFICES ASSUME NEW j \in i + 1 .. n PROVE event[j].sub # event[i].sub
          OBVIOUS
        <5>1. j \in 1 .. n /\ j \in i + 1 .. Len(event')
          BY <1>a, <2>1, <4>1
        <5> QED BY <2>1, <2>8, <4>1, <5>1
      <4>4. stripe[event[i].sub] = [status |-> event[i].status, tag |-> event[i].tag]
        BY <3>2, <4>3 DEF StripeHistory, n
      <4> QED BY <1>a, <2>1, <4>1, <4>2, <4>4
    <3> QED BY <2>3, <3>1, <3>2
  <2>9. \A r \in Sub : stripe'[r].tag \in {NoPlan, PlanOf[r]}
    BY <1>a, <1>e, <2>1 DEF StripeHistory
  <2> QED BY <2>4, <2>5, <2>6, <2>7, <2>8, <2>9 DEF StripeHistory
<1>1. ASSUME NEW s \in Sub, NEW tag \in {NoPlan, PlanOf[s]}, Checkout(s, tag) PROVE StripeHistory'
  <2>1. [status |-> "active", tag |-> tag] \in AtStripe
    BY BillingAssumption DEF AtStripe, StripeStatus
  <2>2. \A i \in Number : event[i].sub < s
    <3> SUFFICES ASSUME NEW i \in Number PROVE event[i].sub < s
      OBVIOUS
    <3>1. event[i].sub \in Sub /\ stripe[event[i].sub].status # "none"
      <4>1. event[i].sub \in Sub
        BY <1>a
      <4>2. ~(\A k \in Number : event[k].sub # event[i].sub)
        OBVIOUS
      <4> QED BY <4>1, <4>2 DEF StripeHistory
    <3> QED BY <1>1, <3>1 DEF Checkout
  <2> QED BY <1>1, <1>e, <2>1, <2>2 DEF Checkout
<1>2. ASSUME NEW s \in Sub, NEW st \in StripeStatus, ChangeAtStripe(s, st) PROVE StripeHistory'
  <2>1. /\ [stripe[s] EXCEPT !.status = st] \in AtStripe /\ [stripe[s] EXCEPT !.status = st].status = st
        /\ [stripe[s] EXCEPT !.status = st].tag = stripe[s].tag /\ st # "none"
    BY <1>a DEF AtStripe, StripeStatus
  <2>2. stripe[s].status # "none" /\ stripe[s].status # "canceled"
    BY <1>2 DEF ChangeAtStripe
  <2>3. PICK i \in Number : event[i].sub = s
    BY <2>2 DEF StripeHistory
  <2>4. ASSUME NEW k \in Number, event[k].sub = s PROVE event[k].status # "canceled"
    <3>1. CASE \E j \in k + 1 .. n : event[j].sub = s
      <4>1. PICK j \in k + 1 .. n : event[j].sub = s
        BY <3>1
      <4>2. j \in Number /\ k < j
        BY <1>a DEF Number
      <4> QED BY <2>4, <4>1, <4>2 DEF StripeHistory
    <3>2. CASE \A j \in k + 1 .. n : event[j].sub # s
      <4>1. stripe[s] = [status |-> event[k].status, tag |-> event[k].tag]
        BY <2>4, <3>2 DEF StripeHistory
      <4> QED BY <2>2, <4>1
    <3> QED BY <3>1, <3>2
  <2>5. stripe[s].tag \in {NoPlan, PlanOf[s]}
    BY DEF StripeHistory
  <2> QED BY <1>2, <1>e, <2>1, <2>3, <2>4, <2>5 DEF ChangeAtStripe
<1>3. ASSUME UNCHANGED <<event, stripe>> PROVE StripeHistory'
  BY <1>3 DEF StripeHistory, Number
<1>4. ASSUME UNCHANGED outside PROVE StripeHistory'
  BY <1>3, <1>4 DEF outside
<1> QED
  BY <1>1, <1>2, <1>3, <1>4
     DEF BillingNext, Step, billingVars, Deliver, WriteRow, WriteStatus, WritePlan, ReadCredits, WriteCredits,
         WriteUse, BeginUse, Die, LoseAnswer

-----------------------------------------------------------------------------

\* The events as facts that the arithmetic of their numbers needs.
LEMMA Events ==
    ASSUME BillingTypeOK
    PROVE  /\ Len(event) \in Nat /\ Number = 1 .. Len(event) /\ Sub \subseteq Nat /\ NoSub \notin Sub
           /\ \A i \in Number : event[i] \in StripeEvent /\ event[i].sub \in Sub /\ event[i].sub \in Nat
<1>1. Len(event) \in Nat /\ Number = 1 .. Len(event) /\ Sub \subseteq Nat /\ NoSub \notin Sub
  BY BillingAssumption DEF BillingTypeOK, Number
<1>2. ASSUME NEW i \in Number PROVE event[i] \in StripeEvent /\ event[i].sub \in Sub
  <2>1. event \in Seq(StripeEvent) /\ i \in 1 .. Len(event)
    BY <1>1 DEF BillingTypeOK
  <2>2. event[i] \in StripeEvent
    BY <2>1
  <2> QED BY <2>2 DEF StripeEvent
<1> QED BY <1>1, <1>2

\* There is one newest event.
LEMMA NewestIsOne ==
    ASSUME BillingTypeOK, NEW k \in 0 .. Len(event), NEW i, NEW j, Newest(i, k), Newest(j, k)
    PROVE  i = j
<1>1. i \in 1 .. k /\ j \in 1 .. k /\ i \in Number /\ j \in Number
  BY Events DEF Newest
<1>2. event[i].sub = event[j].sub
  <2>1. event[i].sub <= event[j].sub /\ event[j].sub <= event[i].sub
    BY <1>1 DEF Newest
  <2> QED BY <1>1, <2>1, Events
<1>3. ~(i < j) /\ ~(j < i)
  <2>1. i < j => j \in i + 1 .. k
    BY <1>1
  <2>2. j < i => i \in j + 1 .. k
    BY <1>1
  <2> QED BY <1>2, <2>1, <2>2 DEF Newest
<1> QED BY <1>1, <1>3

\* An event is the newest so far when its session named its plan and no earlier such
\* event is of a later subscription; otherwise the newest one stays.
LEMMA NewestNext ==
    ASSUME BillingTypeOK, NEW k \in Nat, k < Len(event)
    PROVE  /\ Named(k + 1) /\ (\A i \in 1 .. k : Named(i) => event[i].sub <= event[k + 1].sub)
                => Newest(k + 1, k + 1)
           /\ \A j \in 1 .. k :
                /\ Newest(j, k) /\ event[k + 1].sub # event[j].sub
                   /\ (Named(k + 1) => event[k + 1].sub < event[j].sub) => Newest(j, k + 1)
                /\ Newest(j, k + 1) => Newest(j, k) /\ event[k + 1].sub # event[j].sub
<1>1. /\ k + 1 \in Number /\ event[k + 1].sub \in Nat
      /\ \A i \in 1 .. k : i \in Number /\ event[i].sub \in Nat
      /\ \A i \in 1 .. (k + 1) : i \in 1 .. k \/ i = k + 1
      /\ \A i \in 1 .. k : i \in 1 .. (k + 1)
  <2>1. /\ k + 1 \in Number /\ (\A i \in 1 .. k : i \in Number)
        /\ \A i \in 1 .. (k + 1) : i \in 1 .. k \/ i = k + 1
        /\ \A i \in 1 .. k : i \in 1 .. (k + 1)
    BY Events
  <2> QED BY <2>1, Events
<1>2. ASSUME Named(k + 1), \A i \in 1 .. k : Named(i) => event[i].sub <= event[k + 1].sub
      PROVE  Newest(k + 1, k + 1)
  <2>1. \A i \in 1 .. (k + 1) : Named(i) => event[i].sub <= event[k + 1].sub
    BY <1>1, <1>2
  <2>2. k + 1 \in 1 .. (k + 1) /\ \A i \in k + 1 + 1 .. k + 1 : FALSE
    OBVIOUS
  <2> QED BY <1>2, <2>1, <2>2 DEF Newest
<1>3. ASSUME NEW j \in 1 .. k, Newest(j, k), event[k + 1].sub # event[j].sub,
             Named(k + 1) => event[k + 1].sub < event[j].sub
      PROVE  Newest(j, k + 1)
  <2>1. \A i \in 1 .. (k + 1) : Named(i) => event[i].sub <= event[j].sub
    BY <1>1, <1>3 DEF Newest
  <2>2. \A i \in j + 1 .. k + 1 : i \in j + 1 .. k \/ i = k + 1
    OBVIOUS
  <2>3. \A i \in j + 1 .. k + 1 : event[i].sub # event[j].sub
    BY <1>1, <1>3, <2>2 DEF Newest
  <2> QED BY <1>1, <1>3, <2>1, <2>3 DEF Newest
<1>4. ASSUME NEW j \in 1 .. k, Newest(j, k + 1) PROVE Newest(j, k) /\ event[k + 1].sub # event[j].sub
  <2>1. k + 1 \in j + 1 .. k + 1 /\ (\A i \in 1 .. k : i \in 1 .. (k + 1)) /\ \A i \in j + 1 .. k : i \in j + 1 .. k + 1
    OBVIOUS
  <2> QED BY <1>4, <2>1 DEF Newest
<1> QED BY <1>2, <1>3, <1>4

\* An event of a session that named no plan leaves what is expected of the row and of
\* the plan as it was.
LEMMA RefusedAreSkipped ==
    ASSUME BillingTypeOK, NEW k \in Nat, NEW m \in Nat, k <= m, m <= Len(event),
           \A i \in k + 1 .. m : ~Named(i)
    PROVE  /\ RowAfter(k) => RowAfter(m)
           /\ PlanAfter(k) => PlanAfter(m)
<1>1. \A i \in 1 .. m : i \in 1 .. k \/ ~Named(i)
  <2>1. \A i \in 1 .. m : i \in 1 .. k \/ i \in k + 1 .. m
    OBVIOUS
  <2> QED BY <2>1
<1>2. \A j \in 1 .. k : j \in 1 .. m
  OBVIOUS
<1>3. ASSUME NEW j \in 1 .. k, Newest(j, k) PROVE Newest(j, m)
  <2>1. \A i \in j + 1 .. m : i \in j + 1 .. k \/ i \in k + 1 .. m
    OBVIOUS
  <2>2. \A i \in j + 1 .. m : event[i].sub # event[j].sub
    BY <1>3, <2>1 DEF Newest, Named
  <2> QED BY <1>1, <1>2, <1>3, <2>2 DEF Newest
<1>4. RowAfter(k) => RowAfter(m)
  BY <1>1, <1>2, <1>3 DEF RowAfter
<1>5. PlanAfter(k) => PlanAfter(m)
  BY <1>1, <1>2, <1>3 DEF PlanAfter
<1> QED BY <1>4, <1>5

\* What the row and the plan are after m events, they stay while no event so far, and
\* nothing of the row but its credits, changes.
LEMMA AfterStays ==
    ASSUME NEW m \in Nat, \A i \in 1 .. m : event'[i] = event[i]
    PROVE  /\ \A j \in 1 .. m : Newest(j, m) => Newest(j, m)'
           /\ RowAfter(m) /\ row'.stripe = row.stripe /\ row'.plan = row.plan /\ row'.status = row.status
                => RowAfter(m)'
           /\ PlanAfter(m) /\ UNCHANGED tenantPlan => PlanAfter(m)'
<1>1. ASSUME NEW j \in 1 .. m, Newest(j, m) PROVE Newest(j, m)'
  <2>1. \A i \in j + 1 .. m : i \in 1 .. m
    OBVIOUS
  <2> QED BY <1>1, <2>1 DEF Newest, Named
<1>2. ASSUME RowAfter(m), row'.stripe = row.stripe, row'.plan = row.plan, row'.status = row.status PROVE RowAfter(m)'
  BY <1>1, <1>2 DEF RowAfter, StatusFor, Named
<1>3. ASSUME PlanAfter(m), UNCHANGED tenantPlan PROVE PlanAfter(m)'
  BY <1>1, <1>3 DEF PlanAfter, Named
<1> QED BY <1>1, <1>2, <1>3

\* A handler of an event is one whose request carries an event.
LEMMA HandlingIs ==
    ASSUME BillingTypeOK
    PROVE  \A w \in Worker : w \in Handling <=> work[w].ev # 0
BY HandlerTypes DEF Handling, Busy

\* Of an event that is no checkout there was an earlier one of its subscription.
LEMMA NotTheFirst ==
    ASSUME BillingTypeOK, StripeHistory, NEW k \in Nat, k < Len(event), event[k + 1].type # "checkout"
    PROVE  \E i \in 1 .. k : event[i].sub = event[k + 1].sub
<1>1. k + 1 \in Number
  BY Events
<1>2. PICK i \in 1 .. k + 1 - 1 : event[i].sub = event[k + 1].sub
  BY <1>1 DEF StripeHistory
<1> QED BY <1>2

\* A checkout that names its plan is of the newest subscription there is.
LEMMA CheckoutIsNewest ==
    ASSUME BillingTypeOK, StripeHistory, NEW k \in Nat, k < Len(event), event[k + 1].type = "checkout", Named(k + 1)
    PROVE  Newest(k + 1, k + 1)
<1>1. k + 1 \in Number
  BY Events
<1>2. ASSUME NEW i \in 1 .. k PROVE event[i].sub <= event[k + 1].sub
  <2>1. i \in Number /\ i < k + 1
    BY Events
  <2>2. event[i].sub < event[k + 1].sub
    BY <1>1, <2>1 DEF StripeHistory
  <2> QED BY <1>1, <2>1, <2>2, Events
<1> QED BY <1>2, NewestNext

\* An event whose subscription the row is not for changes nothing: the row and the plan
\* are already what it leaves.
LEMMA NotConcerned ==
    ASSUME BillingTypeOK, StripeHistory, NEW k \in Nat, k < Len(event),
           event[k + 1].type # "checkout", row.stripe # event[k + 1].sub,
           (RowAfter(k) /\ PlanAfter(k)) \/ (RowAfter(k + 1) /\ (PlanAfter(k) \/ PlanAfter(k + 1)))
    PROVE  RowAfter(k + 1) /\ PlanAfter(k + 1)
<1>0. CASE ~Named(k + 1)
  <2>1. k + 1 \in Nat /\ k <= k + 1 /\ k + 1 <= Len(event) /\ \A i \in k + 1 .. k + 1 : i = k + 1
    BY Events
  <2> QED BY <1>0, <2>1, RefusedAreSkipped
<1> SUFFICES ASSUME Named(k + 1) PROVE RowAfter(k + 1) /\ PlanAfter(k + 1)
  BY <1>0
<1>1. PICK i \in 1 .. k : event[i].sub = event[k + 1].sub /\ Named(i)
  BY NotTheFirst DEF Named
<1>2. /\ k + 1 \in Number /\ \A j \in 1 .. k : j \in Number
      /\ \A j \in 1 .. (k + 1) : j \in 1 .. k \/ j = k + 1
      /\ \A j \in 1 .. k : j \in 1 .. (k + 1)
      /\ k \in 0 .. Len(event) /\ k # 0 /\ k + 1 # 0
  BY Events
<1>3. PICK j \in 1 .. k : /\ Newest(j, k) /\ Newest(j, k + 1)
                          /\ row.stripe = event[j].sub /\ row.plan = PlanOf[event[j].sub]
                          /\ row.status = StatusFor(event[j])
  <2>1. CASE RowAfter(k)
    <3>1. PICK j \in 1 .. k : /\ Newest(j, k)
                              /\ row.stripe = event[j].sub /\ row.plan = PlanOf[event[j].sub]
                              /\ row.status = StatusFor(event[j])
      BY <1>1, <2>1 DEF RowAfter
    <3>2. event[k + 1].sub <= event[j].sub /\ event[k + 1].sub # event[j].sub
      BY <1>1, <3>1 DEF Newest
    <3>3. event[k + 1].sub < event[j].sub
      <4>1. event[k + 1].sub \in Nat /\ event[j].sub \in Nat
        BY <1>2, Events
      <4> QED BY <3>2, <4>1
    <3> QED BY <3>1, <3>3, NewestNext
  <2>2. CASE RowAfter(k + 1)
    <3>1. PICK j \in 1 .. (k + 1) : /\ Newest(j, k + 1)
                              /\ row.stripe = event[j].sub /\ row.plan = PlanOf[event[j].sub]
                              /\ row.status = StatusFor(event[j])
      BY <1>1, <1>2, <2>2 DEF RowAfter
    <3>2. j \in 1 .. k
      BY <1>2, <3>1
    <3> QED BY <3>1, <3>2, NewestNext
  <2> QED BY <2>1, <2>2
<1>4. RowAfter(k + 1)
  BY <1>2, <1>3 DEF RowAfter
<1>5. PlanAfter(k + 1)
  <2>1. CASE PlanAfter(k)
    <3>1. PICK h \in 1 .. k : /\ Newest(h, k)
                              /\ tenantPlan = IF event[h].status = "canceled" THEN Free ELSE PlanOf[event[h].sub]
      BY <1>1, <2>1 DEF PlanAfter
    <3>2. h = j
      BY <1>2, <1>3, <3>1, NewestIsOne
    <3> QED BY <1>2, <1>3, <3>1, <3>2 DEF PlanAfter
  <2> QED BY <2>1
<1> QED BY <1>4, <1>5

\* An event whose subscription the row is for is the newest of all so far.
LEMMA ConcernedIsNewest ==
    ASSUME BillingTypeOK, StripeHistory, NEW k \in Nat, k < Len(event),
           event[k + 1].type # "checkout", row.stripe = event[k + 1].sub, RowAfter(k) \/ RowAfter(k + 1)
    PROVE  Newest(k + 1, k + 1) /\ row.plan = PlanOf[event[k + 1].sub]
<1>1. /\ k + 1 \in Number /\ \A i \in 1 .. k : i \in 1 .. (k + 1)
      /\ \A j \in 1 .. (k + 1) : j \in 1 .. k \/ j = k + 1
      /\ k + 1 # 0
  BY Events
<1>2. k # 0 /\ NoSub # event[k + 1].sub
  <2>1. 1 .. k # {}
    BY NotTheFirst
  <2> QED BY <1>1, <2>1, Events
<1>3. \E j \in 1 .. (k + 1) : /\ Newest(j, k) \/ Newest(j, k + 1)
                              /\ row.stripe = event[j].sub /\ row.plan = PlanOf[event[j].sub]
  BY <1>1, <1>2 DEF RowAfter
<1>4. PICK j \in 1 .. (k + 1) : /\ Newest(j, k) \/ Newest(j, k + 1)
                                /\ row.stripe = event[j].sub /\ row.plan = PlanOf[event[j].sub]
  BY <1>3
<1>5. Named(k + 1) /\ \A i \in 1 .. k : Named(i) => event[i].sub <= event[k + 1].sub
  BY <1>1, <1>4 DEF Newest, Named
<1> QED BY <1>4, <1>5, NewestNext

\* The plan after an update of the newest subscription is the plan before it.
LEMMA UpdateKeepsPlan ==
    ASSUME BillingTypeOK, StripeHistory, NEW k \in Nat, k < Len(event),
           event[k + 1].type = "updated", Newest(k + 1, k + 1), PlanAfter(k)
    PROVE  PlanAfter(k + 1)
<1>1. PICK i \in 1 .. k : event[i].sub = event[k + 1].sub /\ Named(i)
  BY NotTheFirst DEF Newest, Named
<1>2. /\ k + 1 \in Number /\ \A j \in 1 .. k : j \in Number /\ j < k + 1 /\ j \in 1 .. (k + 1)
      /\ k + 1 \in 1 .. (k + 1) /\ k # 0
  BY Events
<1>3. PICK h \in 1 .. k : /\ Newest(h, k)
                          /\ tenantPlan = IF event[h].status = "canceled" THEN Free ELSE PlanOf[event[h].sub]
  BY <1>1 DEF PlanAfter
<1>4. event[h].sub = event[k + 1].sub
  <2>1. event[h].sub <= event[k + 1].sub /\ event[k + 1].sub <= event[h].sub
    BY <1>1, <1>2, <1>3 DEF Newest
  <2>2. event[h].sub \in Nat /\ event[k + 1].sub \in Nat
    BY <1>2, Events
  <2> QED BY <2>1, <2>2
<1>5. event[h].status # "canceled" /\ event[k + 1].status # "canceled"
  BY <1>2, <1>4 DEF StripeHistory
<1> QED BY <1>2, <1>3, <1>4, <1>5 DEF PlanAfter

\* Events are numbered without a gap: nothing else than the next one is pending first.
LEMMA Rest ==
    ASSUME NEW n \in Nat, NEW k \in 0 .. n, k < n
    PROVE  /\ k + 1 \in 0 .. n /\ k + 1 \in k + 1 .. n
           /\ (k + 1 .. n) \ {k + 1} = k + 1 + 1 .. n
           /\ \A i \in k + 1 .. n : i # k + 1 => k + 1 < i
OBVIOUS

\* When no event is half handled, those before the first that can be handled were
\* handled or are refused.
LEMMA NextInOrder ==
    ASSUME BillingTypeOK, NEW k \in 0 .. Len(event), HandledTo(k), Handling = {},
           NEW i \in pending \ Refused, \A j \in pending \ Refused : ~(j < i)
    PROVE  i - 1 \in 0 .. Len(event) /\ HandledTo(i - 1)
<1> DEFINE m == i - 1
<1>1. pending \ Refused = (k + 1 .. Len(event)) \ Refused
  BY DEF HandledTo
<1>2. /\ Len(event) \in Nat /\ k \in Nat /\ i \in k + 1 .. Len(event)
      /\ m \in Nat /\ k <= m /\ m < Len(event) /\ m + 1 = i
      /\ k < m => k + 1 <= m /\ k + 1 \in Nat
  BY <1>1, Events
<1>3. \A j \in k + 1 .. m : j \in Refused /\ ~Named(j)
  <2> SUFFICES ASSUME NEW j \in k + 1 .. m PROVE j \in Refused /\ ~Named(j)
    OBVIOUS
  <2>1. j \in k + 1 .. Len(event) /\ j < i /\ j \in Number
    BY <1>2, Events
  <2>2. j \in Refused
    BY <1>1, <2>1
  <2> QED BY <2>1, <2>2, RefusedIs
<1>4. pending \ Refused = (m + 1 .. Len(event)) \ Refused
  <2>1. \A j \in k + 1 .. Len(event) : j \in k + 1 .. m \/ j \in m + 1 .. Len(event)
    BY <1>2
  <2>2. \A j \in m + 1 .. Len(event) : j \in k + 1 .. Len(event)
    BY <1>2
  <2> HIDE DEF m
  <2> QED BY <1>1, <1>3, <2>1, <2>2
<1>5. (RowAfter(m) /\ PlanAfter(m)) \/ (RowAfter(m + 1) /\ (PlanAfter(m) \/ PlanAfter(m + 1)))
  <2> HIDE DEF m
  <2>1. CASE k = m
    BY <2>1 DEF HandledTo
  <2>2. CASE k < m
    <3>1. /\ RowAfter(k) => RowAfter(m)
          /\ PlanAfter(k) => PlanAfter(m)
      BY <1>2, <1>3, RefusedAreSkipped
    <3>2. \A j \in k + 1 + 1 .. m : j \in k + 1 .. m
      BY <1>2
    <3>3. /\ RowAfter(k + 1) => RowAfter(m)
          /\ PlanAfter(k + 1) => PlanAfter(m)
      BY <1>2, <1>3, <2>2, <3>2, RefusedAreSkipped
    <3> QED BY <3>1, <3>3 DEF HandledTo
  <2> QED BY <1>2, <2>1, <2>2
<1> HIDE DEF m
<1>6. HandledTo(m) /\ m \in 0 .. Len(event)
  BY <1>2, <1>4, <1>5 DEF HandledTo
<1> QED BY <1>6 DEF m

\* Every step handles what is in order in its order, or records that it does not.
LEMMA InOrderStep ==
    ASSUME BillingTypeOK, PlansKnown, StripeHistory, InOrder, BillingTypeOK', [BillingNext]_billingVars
    PROVE  InOrder'
<1> USE DEF billing, outside
<1> SUFFICES ASSUME ~shuffled' PROVE \E k \in 0 .. Len(event') : HandledTo(k)'
  BY DEF InOrder
<1>0. ~shuffled
  BY DEF BillingNext, Step, billingVars, Emit, Checkout, ChangeAtStripe, Deliver, WriteRow, WriteStatus, WritePlan,
         ReadCredits, WriteCredits, WriteUse, BeginUse, Die, LoseAnswer, BillingTypeOK
<1>k. PICK k \in 0 .. Len(event) :
          HandledTo(k) /\ \A w \in Worker, i \in pending \ Refused : Deliver(w, i) => i = k + 1
  <2>1. PICK h \in 0 .. Len(event) : HandledTo(h)
    BY <1>0 DEF InOrder
  <2>2. CASE \E w \in Worker, i \in pending \ Refused : Deliver(w, i)
    <3>1. PICK i \in pending \ Refused : \E w \in Worker : Deliver(w, i)
      BY <2>2
    <3>2. \A w \in Worker, j \in pending \ Refused : Deliver(w, j) =>
            Handling = {} /\ \A n \in pending \ Refused : ~(n < j)
      BY DEF Deliver
    <3>3. \A j \in pending : j \in Nat
      BY DEF BillingTypeOK
    <3>4. \A w \in Worker, j \in pending \ Refused : Deliver(w, j) => j = i
      BY <3>1, <3>2, <3>3
    <3>5. i - 1 \in 0 .. Len(event) /\ HandledTo(i - 1)
      BY <2>1, <3>1, <3>2, NextInOrder
    <3>6. i - 1 + 1 = i
      BY <3>3
    <3> QED BY <3>4, <3>5, <3>6
  <2> QED BY <2>1, <2>2
<1>f. event' = event => Refused' = Refused
  BY DEF Refused
<1>n. /\ Len(event) \in Nat /\ k \in Nat /\ work \in [Worker -> Handler]
      /\ \A i \in 1 .. Len(event) : i \in Number
      /\ \A i \in 1 .. k : i \in Number
      /\ k < Len(event) => k + 1 \in Number /\ k + 1 \in 0 .. Len(event) /\ k + 1 \in Nat
                           /\ \A i \in 1 .. (k + 1) : i \in Number
  BY Events DEF BillingTypeOK
<1>h. /\ \A w \in Worker : w \in Handling <=> work[w].ev # 0
      /\ \A w \in Worker : (w \in Handling)' <=> work'[w].ev # 0
      /\ Handling \subseteq Worker /\ Handling' \subseteq Worker
      /\ NoWork.ev = 0 /\ NoWork.at = "idle" /\ NoWork \in Handler
  <2>1. \A w \in Worker : (w \in Handling)' <=> work'[w].ev # 0
    <3>1. \A w \in Worker : work'[w] = NoWork => work'[w].ev = 0
      BY DEF NoWork
    <3> QED BY <3>1 DEF Handling, Busy
  <2>2. Handling \subseteq Worker /\ Handling' \subseteq Worker
    BY DEF Handling, Busy
  <2>3. NoWork.ev = 0 /\ NoWork.at = "idle" /\ NoWork \in Handler
    BY DEF NoWork, Handler
  <2> QED BY <2>1, <2>2, <2>3, HandlingIs
\* What the handler at work knows: its event is the next one, and an event like that.
<1>w. ASSUME NEW w \in Worker, work[w].ev # 0
      PROVE  /\ k < Len(event) /\ Handles(w, k + 1) /\ work[w].ev = k + 1
             /\ \A v \in Worker \ {w} : work[v].ev = 0
             /\ event[k + 1] \in StripeEvent /\ event[k + 1].sub \in Sub
             /\ RowAfter(k) \/ RowAfter(k + 1)
             /\ PlanAfter(k) \/ PlanAfter(k + 1)
             /\ pending \ Refused = (k + 1 .. Len(event)) \ Refused
  BY <1>w, <1>k, <1>h, <1>n, Events DEF HandledTo, Handles
\* Nothing that the order is about changes.
<1>s. ASSUME event' = event \/ (Len(event') = Len(event) + 1 /\ \A i \in 1 .. Len(event) : event'[i] = event[i]),
             row'.stripe = row.stripe, row'.plan = row.plan, row'.status = row.status, tenantPlan' = tenantPlan,
             pending' \ Refused' = (k + 1 .. Len(event')) \ Refused',
             \A w \in Worker : work'[w].ev # 0 => work'[w] = work[w]
      PROVE  \E m \in 0 .. Len(event') : HandledTo(m)'
  <2>1. \A i \in 1 .. Len(event) : event'[i] = event[i]
    BY <1>s
  <2>2. k \in 0 .. Len(event') /\ Len(event') \in Nat /\ (k < Len(event) => k < Len(event'))
    BY <1>n, <1>s
  <2>3. /\ RowAfter(k) => RowAfter(k)'
        /\ PlanAfter(k) => PlanAfter(k)'
    <3>1. \A i \in 1 .. k : event'[i] = event[i]
      BY <1>n, <2>1
    <3> QED BY <1>n, <1>s, <3>1, AfterStays
  <2>4. k < Len(event) => /\ RowAfter(k + 1) => RowAfter(k + 1)'
                          /\ PlanAfter(k + 1) => PlanAfter(k + 1)'
    <3> SUFFICES ASSUME k < Len(event) PROVE /\ RowAfter(k + 1) => RowAfter(k + 1)'
                                             /\ PlanAfter(k + 1) => PlanAfter(k + 1)'
      OBVIOUS
    <3>1. \A i \in 1 .. (k + 1) : event'[i] = event[i]
      BY <1>n, <2>1 DEF Number
    <3> QED BY <1>n, <1>s, <3>1, AfterStays
  <2>5. \A w \in Handling' : k < Len(event') /\ Handles(w, k + 1)'
    <3> SUFFICES ASSUME NEW w \in Handling' PROVE k < Len(event') /\ Handles(w, k + 1)'
      OBVIOUS
    <3>1. w \in Worker /\ work'[w] = work[w] /\ work[w].ev # 0
      BY <1>h, <1>s
    <3>2. k < Len(event) /\ Handles(w, k + 1) /\ k + 1 \in Number
      BY <3>1, <1>w, <1>n
    <3>3. event'[k + 1] = event[k + 1]
      BY <2>1, <3>2 DEF Number
    <3> QED BY <1>s, <2>2, <2>4, <3>1, <3>2, <3>3 DEF Handles
  <2>6. \A v, w \in Handling' : v = w
    BY <1>h, <1>s, <1>w
  <2>7. HandledTo(k)'
    BY <1>k, <1>s, <2>2, <2>3, <2>4, <2>5, <2>6 DEF HandledTo
  <2> QED BY <2>2, <2>7
\* The handler moves on, having written the row, or the plan too.
<1>m. ASSUME NEW w \in Worker, work[w].ev # 0, UNCHANGED <<event, pending>>,
             \A v \in Worker \ {w} : work'[v] = work[v],
             RowAfter(k + 1)', PlanAfter(k)' \/ PlanAfter(k + 1)', Handles(w, k + 1)'
      PROVE  \E m \in 0 .. Len(event') : HandledTo(m)'
  <2>1. /\ k < Len(event) /\ \A v \in Worker \ {w} : work'[v].ev = 0
        /\ pending' \ Refused' = (k + 1 .. Len(event')) \ Refused' /\ k \in 0 .. Len(event')
    BY <1>m, <1>w, <1>f
  <2>2. \A v \in Handling' : v = w
    BY <1>h, <2>1
  <2>3. HandledTo(k)'
    BY <1>m, <2>1, <2>2 DEF HandledTo
  <2> QED BY <2>1, <2>3
\* The handler is done, and answers.
<1>d. ASSUME k < Len(event), UNCHANGED event, pending' = pending \ {k + 1}, RowAfter(k + 1)', PlanAfter(k + 1)',
             \A v \in Worker : work'[v].ev = 0
      PROVE  \E m \in 0 .. Len(event') : HandledTo(m)'
  <2>1. pending' \ Refused' = (k + 1 + 1 .. Len(event')) \ Refused' /\ k + 1 \in 0 .. Len(event')
    <3>1. pending \ Refused = (k + 1 .. Len(event)) \ Refused
      BY <1>k DEF HandledTo
    <3>2. (k + 1 .. Len(event)) \ {k + 1} = k + 1 + 1 .. Len(event) /\ k + 1 \in 0 .. Len(event)
      BY <1>d, <1>n, Rest
    <3> QED BY <1>d, <1>f, <3>1, <3>2
  <2>2. Handling' = {}
    BY <1>h, <1>d
  <2>3. HandledTo(k + 1)'
    BY <1>d, <2>1, <2>2 DEF HandledTo
  <2> QED BY <2>1, <2>3
<1>1. ASSUME NEW type, NEW s \in Sub, NEW now \in AtStripe, now.status # "none",
             type \in {"checkout", "updated", "deleted"}, Emit(type, s, now)
      PROVE  \E m \in 0 .. Len(event') : HandledTo(m)'
  <2>1. /\ Len(event') = Len(event) + 1 /\ \A i \in 1 .. Len(event) : event'[i] = event[i]
        /\ pending' = pending \cup {Len(event) + 1}
        /\ UNCHANGED <<row, tenantPlan, work>>
    BY <1>1, EmitTypes
  <2>2. pending' \ Refused' = (k + 1 .. Len(event')) \ Refused'
    <3>1. pending \ Refused = (k + 1 .. Len(event)) \ Refused /\ pending \subseteq 1 .. Len(event)
      BY <1>k DEF HandledTo, BillingTypeOK
    <3>2. \A i \in 1 .. Len(event) : i \in Refused <=> i \in Refused'
      <4>1. DOMAIN event = 1 .. Len(event) /\ DOMAIN event' = 1 .. Len(event')
        BY DEF BillingTypeOK
      <4>2. \A i \in 1 .. Len(event) : i \in 1 .. Len(event')
        BY <1>n, <2>1
      <4> QED BY <2>1, <4>1, <4>2 DEF Refused
    <3> HIDE <1>1
    <3>3. ASSUME NEW n \in Nat, k <= n PROVE (k + 1 .. n) \cup {n + 1} = k + 1 .. n + 1
      BY <1>n, <3>3
    <3>4. (k + 1 .. Len(event)) \cup {Len(event) + 1} = k + 1 .. Len(event')
      BY <1>n, <2>1, <3>3
    <3>5. k + 1 .. Len(event) \subseteq 1 .. Len(event)
      BY <1>n
    <3> QED BY <2>1, <3>1, <3>2, <3>4, <3>5
  <2> QED BY <2>1, <2>2, <1>s
<1>2. ASSUME NEW s \in Sub, NEW tag \in {NoPlan, PlanOf[s]}, Checkout(s, tag)
      PROVE  \E m \in 0 .. Len(event') : HandledTo(m)'
  <2>1. [status |-> "active", tag |-> tag] \in AtStripe
    BY BillingAssumption DEF AtStripe, StripeStatus
  <2> QED BY <1>1, <1>2, <2>1 DEF Checkout
<1>3. ASSUME NEW s \in Sub, NEW st \in StripeStatus, ChangeAtStripe(s, st)
      PROVE  \E m \in 0 .. Len(event') : HandledTo(m)'
  <2>1. [stripe[s] EXCEPT !.status = st] \in AtStripe /\ [stripe[s] EXCEPT !.status = st].status = st /\ st # "none"
    BY DEF BillingTypeOK, AtStripe, StripeStatus
  <2> QED BY <1>1, <1>3, <2>1 DEF ChangeAtStripe
<1>4. ASSUME NEW w \in Worker, NEW i \in pending, Deliver(w, i)
      PROVE  \E m \in 0 .. Len(event') : HandledTo(m)'
  <2>0. CASE i \in Refused
    <3>1. UNCHANGED <<row, tenantPlan, event, pending, work>>
      BY <1>4, <2>0 DEF Deliver
    <3> QED BY <1>f, <1>k, <1>s, <3>1 DEF HandledTo
  <2> SUFFICES ASSUME i \notin Refused PROVE \E m \in 0 .. Len(event') : HandledTo(m)'
    BY <2>0
  <2>1. Handling = {}
    BY <1>4 DEF Deliver
  <2>2. k < Len(event) /\ i = k + 1 /\ pending \ Refused = (k + 1 .. Len(event)) \ Refused
    <3>1. pending \ Refused = (k + 1 .. Len(event)) \ Refused
      BY <1>k DEF HandledTo
    <3>2. i = k + 1
      BY <1>4, <1>k
    <3> QED BY <1>n, <3>1, <3>2
  <2>3. /\ UNCHANGED <<row, tenantPlan, event>> /\ work[w] = NoWork
        /\ (RowAfter(k) /\ PlanAfter(k)) \/ (RowAfter(k + 1) /\ (PlanAfter(k) \/ PlanAfter(k + 1)))
        /\ \A v \in Worker : work[v].ev = 0
    BY <1>4, <1>k, <1>h, <2>1 DEF Deliver, FirstIdle, HandledTo
  <2>4. ASSUME NEW at \in {"row", "status"}, Enter(w, at, i), UNCHANGED pending,
               at = "status" => row.stripe = event[i].sub
        PROVE  \E m \in 0 .. Len(event') : HandledTo(m)'
    <3>1. work'[w] = [at |-> at, ev |-> k + 1, seen |-> 0] /\ \A v \in Worker \ {w} : work'[v] = work[v]
      BY <1>n, <2>2, <2>4 DEF Enter
    <3>2. Handles(w, k + 1)'
      BY <2>2, <2>3, <2>4, <3>1 DEF Handles
    <3>3. /\ RowAfter(k) => RowAfter(k)'
          /\ RowAfter(k + 1) => RowAfter(k + 1)'
          /\ PlanAfter(k) => PlanAfter(k)'
          /\ PlanAfter(k + 1) => PlanAfter(k + 1)'
      BY <1>n, <2>2, <2>3, AfterStays
    <3>4. \A v \in Handling' : v = w
      BY <1>h, <2>3, <3>1
    <3>5. HandledTo(k)'
      BY <1>f, <2>2, <2>3, <2>4, <3>2, <3>3, <3>4 DEF HandledTo
    <3> QED BY <1>n, <2>3, <3>5
  <2>5. CASE pending' = pending \ {i} /\ UNCHANGED work /\ event[i].type # "checkout" /\ row.stripe # event[i].sub
    <3>1. RowAfter(k + 1) /\ PlanAfter(k + 1)
      BY <1>n, <2>2, <2>3, <2>5, NotConcerned
    <3>2. RowAfter(k + 1)' /\ PlanAfter(k + 1)'
      BY <1>n, <2>2, <2>3, <3>1, AfterStays
    <3> QED BY <1>d, <2>2, <2>3, <2>5, <3>2
  <2> QED BY <1>4, <2>4, <2>5 DEF Deliver, Concerns
\* Where Reach leaves the handler.
<1>r. ASSUME NEW w \in Worker, NEW at \in {"plan", "read"}, Reach(w, at)
      PROVE  work'[w].at = at /\ work'[w].ev = work[w].ev /\ \A v \in Worker \ {w} : work'[v] = work[v]
  <2>1. work[w] \in Handler /\ work'[w] = [work[w] EXCEPT !.at = at]
    BY <1>n, <1>r DEF Reach
  <2> QED BY <1>n, <1>r, <2>1 DEF Reach, Handler
<1>z. ASSUME NEW w \in Worker, work' = [work EXCEPT ![w] = NoWork]
      PROVE  /\ \A v \in Worker : work'[v].ev # 0 => work'[v] = work[v]
             /\ work[w].ev # 0 => \A v \in Worker : work'[v].ev = 0
  BY <1>z, <1>n, <1>h, <1>w
<1>5. ASSUME NEW w \in Worker, WriteRow(w) PROVE \E m \in 0 .. Len(event') : HandledTo(m)'
  <2>1. work[w].ev # 0 /\ work[w].at = "row"
    BY <1>5, HandlerTypes DEF WriteRow
  <2> DEFINE e == event[k + 1]
  <2>2. /\ k < Len(event) /\ work[w].ev = k + 1 /\ e.type = "checkout" /\ e \in StripeEvent
        /\ row' = [row EXCEPT !.plan = PlanOf[e.sub], !.status = StatusFor(e), !.stripe = e.sub]
        /\ UNCHANGED <<event, tenantPlan, pending>> /\ Reach(w, "plan") /\ Named(k + 1)
    BY <1>5, <1>w, <2>1 DEF WriteRow, PlansKnown
  <2>3. row'.stripe = e.sub /\ row'.plan = PlanOf[e.sub] /\ row'.status = StatusFor(e)
    BY <2>2 DEF BillingTypeOK, Row
  <2>4. Newest(k + 1, k + 1)
    BY <1>n, <2>2, CheckoutIsNewest
  <2>5. RowAfter(k + 1)'
    <3>1. k + 1 \in 1 .. (k + 1) /\ Newest(k + 1, k + 1)'
      BY <1>n, <2>2, <2>4, AfterStays
    <3>2. \E j \in 1 .. (k + 1) : /\ Newest(j, k + 1)'
                                  /\ row'.stripe = event'[j].sub /\ row'.plan = PlanOf[event'[j].sub]
                                  /\ row'.status = StatusFor(event'[j])
      BY <2>2, <2>3, <3>1
    <3> QED BY <3>2 DEF RowAfter, StatusFor
  <2>6. PlanAfter(k)' \/ PlanAfter(k + 1)'
    BY <1>n, <1>w, <2>1, <2>2, AfterStays
  <2>7. Handles(w, k + 1)'
    BY <1>r, <2>2, <2>3, <2>5 DEF Handles
  <2> QED BY <1>m, <1>r, <2>1, <2>2, <2>5, <2>6, <2>7
<1>6. ASSUME NEW w \in Worker, WriteStatus(w) PROVE \E m \in 0 .. Len(event') : HandledTo(m)'
  <2>1. work[w].ev # 0 /\ work[w].at = "status"
    BY <1>6, HandlerTypes DEF WriteStatus
  <2> DEFINE e == event[k + 1]
  <2>2. /\ k < Len(event) /\ work[w].ev = k + 1 /\ e.type # "checkout" /\ e \in StripeEvent
        /\ row.stripe = e.sub /\ row' = [row EXCEPT !.status = StatusFor(e)]
        /\ UNCHANGED <<event, tenantPlan>>
        /\ IF e.type = "updated" /\ e.tag = NoPlan THEN Answer(w) ELSE Reach(w, "plan") /\ UNCHANGED pending
    BY <1>6, <1>w, <2>1 DEF WriteStatus, PlansKnown, Handles
  <2>3. row'.stripe = e.sub /\ row'.plan = row.plan /\ row'.status = StatusFor(e)
    BY <2>2 DEF BillingTypeOK, Row
  <2>4. Newest(k + 1, k + 1) /\ row.plan = PlanOf[e.sub]
    BY <1>n, <1>w, <2>1, <2>2, ConcernedIsNewest
  <2>5. RowAfter(k + 1)'
    <3>1. k + 1 \in 1 .. (k + 1) /\ Newest(k + 1, k + 1)'
      BY <1>n, <2>2, <2>4, AfterStays
    <3>2. \E j \in 1 .. (k + 1) : /\ Newest(j, k + 1)'
                                  /\ row'.stripe = event'[j].sub /\ row'.plan = PlanOf[event'[j].sub]
                                  /\ row'.status = StatusFor(event'[j])
      BY <2>2, <2>3, <2>4, <3>1
    <3> QED BY <3>2 DEF RowAfter, StatusFor
  <2>6. CASE e.type = "updated" /\ Answer(w)
    <3>1. PlanAfter(k + 1)
      BY <1>n, <1>w, <2>1, <2>2, <2>4, <2>6, UpdateKeepsPlan
    <3>2. PlanAfter(k + 1)'
      BY <1>n, <2>2, <3>1, AfterStays
    <3>3. pending' = pending \ {k + 1} /\ \A v \in Worker : work'[v].ev = 0
      BY <1>z, <2>1, <2>2, <2>6 DEF Answer
    <3> QED BY <1>d, <2>2, <2>5, <3>2, <3>3
  <2>7. CASE Reach(w, "plan") /\ UNCHANGED pending
    <3>1. PlanAfter(k)' \/ PlanAfter(k + 1)'
      BY <1>n, <1>w, <2>1, <2>2, AfterStays
    <3>2. Handles(w, k + 1)'
      BY <1>r, <2>2, <2>3, <2>5, <2>7 DEF Handles
    <3> QED BY <1>m, <1>r, <2>1, <2>2, <2>5, <2>7, <3>1, <3>2
  <2> QED BY <2>2, <2>6, <2>7
<1>7. ASSUME NEW w \in Worker, WritePlan(w) PROVE \E m \in 0 .. Len(event') : HandledTo(m)'
  <2>1. work[w].ev # 0 /\ work[w].at = "plan"
    BY <1>7, HandlerTypes DEF WritePlan
  <2> DEFINE e == event[k + 1]
  <2>2. /\ k < Len(event) /\ work[w].ev = k + 1 /\ e \in StripeEvent /\ k + 1 \in Number
        /\ row.stripe = e.sub /\ RowAfter(k + 1)
        /\ tenantPlan' = PlanFor(e) /\ (e.type = "updated" => e.tag # NoPlan)
        /\ UNCHANGED <<event, row, pending>> /\ Reach(w, "read")
    BY <1>7, <1>w, <1>n, <2>1 DEF WritePlan, PlansKnown, Handles
  <2>3. Newest(k + 1, k + 1)
    <3>1. e.sub # NoSub /\ k + 1 # 0 /\ \A j \in 1 .. (k + 1) : j \in 1 .. k \/ j = k + 1
      BY <1>n, <2>2, Events
    <3>2. PICK j \in 1 .. (k + 1) : Newest(j, k + 1) /\ row.stripe = event[j].sub
      BY <2>2, <3>1 DEF RowAfter
    <3>3. j = k + 1
      BY <1>n, <2>2, <3>1, <3>2, NewestNext
    <3> QED BY <3>2, <3>3
  <2>4. PlanFor(e) = IF e.status = "canceled" THEN Free ELSE PlanOf[e.sub]
    <3>1. /\ e.type = "checkout" => e.status = "active"
          /\ e.type = "deleted" <=> e.status = "canceled"
          /\ e.tag \in {NoPlan, PlanOf[e.sub]}
      BY <2>2 DEF StripeHistory
    <3>2. e.type \in {"checkout", "updated", "deleted"}
      BY <2>2 DEF StripeEvent
    <3> QED BY <2>2, <3>1, <3>2 DEF PlanFor
  <2>5. PlanAfter(k + 1)'
    <3>1. k + 1 \in 1 .. (k + 1) /\ Newest(k + 1, k + 1)'
      BY <1>n, <2>2, <2>3, AfterStays
    <3> QED BY <2>2, <2>4, <3>1 DEF PlanAfter
  <2>6. RowAfter(k + 1)'
    BY <1>n, <2>2, AfterStays
  <2>7. Handles(w, k + 1)'
    BY <1>r, <2>2, <2>5, <2>6 DEF Handles
  <2> QED BY <1>m, <1>r, <2>1, <2>2, <2>5, <2>6, <2>7
\* At the credits everything else is written.
<1>c. ASSUME NEW w \in Worker, work[w].at \in {"read", "write"}, UNCHANGED <<event, tenantPlan>>,
             row'.stripe = row.stripe, row'.plan = row.plan, row'.status = row.status
      PROVE  /\ work[w].ev # 0 /\ k < Len(event) /\ work[w].ev = k + 1
             /\ RowAfter(k + 1)' /\ PlanAfter(k + 1)' /\ row'.stripe = event'[k + 1].sub
  <2>1. work[w].ev # 0
    BY <1>c, HandlerTypes
  <2>2. /\ k < Len(event) /\ work[w].ev = k + 1 /\ RowAfter(k + 1) /\ PlanAfter(k + 1)
        /\ row.stripe = event[k + 1].sub
    BY <1>c, <1>w, <2>1 DEF Handles
  <2>3. RowAfter(k + 1)' /\ PlanAfter(k + 1)'
    BY <1>c, <1>n, <2>2, AfterStays
  <2> QED BY <1>c, <2>1, <2>2, <2>3
<1>8. ASSUME NEW w \in Worker, ReadCredits(w) PROVE \E m \in 0 .. Len(event') : HandledTo(m)'
  <2>1. /\ work[w].ev # 0 /\ k < Len(event) /\ work[w].ev = k + 1 /\ UNCHANGED event
        /\ RowAfter(k + 1)' /\ PlanAfter(k + 1)' /\ row'.stripe = event'[k + 1].sub
    BY <1>8, <1>c DEF ReadCredits
  <2>2. CASE Answer(w)
    BY <1>d, <1>z, <2>1, <2>2 DEF Answer
  <2>3. CASE work' = [work EXCEPT ![w].at = "write", ![w].seen = row.credits] /\ UNCHANGED pending
    <3>1. work[w] \in Handler /\ work'[w] = [work[w] EXCEPT !.at = "write", !.seen = row.credits]
      BY <1>n, <2>3
    <3>2. work'[w].at = "write" /\ work'[w].ev = k + 1
      BY <2>1, <3>1 DEF Handler
    <3>3. \A v \in Worker \ {w} : work'[v] = work[v]
      BY <1>n, <2>3
    <3>4. Handles(w, k + 1)'
      BY <2>1, <3>2 DEF Handles
    <3> QED BY <1>m, <2>1, <2>3, <3>3, <3>4
  <2> QED BY <1>8, <2>2, <2>3 DEF ReadCredits
\* Booking leaves the rest of the row.
<1>b. ASSUME NEW target, NEW seen, Book(target, seen)
      PROVE  row'.stripe = row.stripe /\ row'.plan = row.plan /\ row'.status = row.status
  BY <1>b DEF Book, BillingTypeOK, Row
<1>9. ASSUME NEW w \in Worker, WriteCredits(w) PROVE \E m \in 0 .. Len(event') : HandledTo(m)'
  <2>1. row'.stripe = row.stripe /\ row'.plan = row.plan /\ row'.status = row.status
    BY <1>9, <1>b DEF WriteCredits
  <2>2. /\ work[w].ev # 0 /\ k < Len(event) /\ work[w].ev = k + 1 /\ UNCHANGED event
        /\ RowAfter(k + 1)' /\ PlanAfter(k + 1)'
    BY <1>9, <1>c, <2>1 DEF WriteCredits
  <2> QED BY <1>9, <1>d, <1>z, <2>2 DEF WriteCredits, Answer
<1>p. /\ pending \ Refused = (k + 1 .. Len(event)) \ Refused
      /\ UNCHANGED <<event, pending>> => pending' \ Refused' = (k + 1 .. Len(event')) \ Refused'
  BY <1>f, <1>k DEF HandledTo
<1>10. ASSUME NEW w \in Worker, WriteUse(w) \/ LoseAnswer(w) \/ Die(w) PROVE \E m \in 0 .. Len(event') : HandledTo(m)'
  <2>1. /\ work' = [work EXCEPT ![w] = NoWork] /\ UNCHANGED <<event, tenantPlan, pending>>
        /\ row'.stripe = row.stripe /\ row'.plan = row.plan /\ row'.status = row.status
    BY <1>10, <1>b DEF WriteUse, LoseAnswer, Die
  <2> QED BY <1>p, <1>s, <1>z, <2>1
<1>11. ASSUME NEW w \in Worker, NEW at \in {"spend", "grant"}, BeginUse(w, at)
       PROVE  \E m \in 0 .. Len(event') : HandledTo(m)'
  <2>1. \A v \in Worker : work'[v].ev # 0 => work'[v] = work[v]
    BY <1>11, <1>n DEF BeginUse
  <2> QED BY <1>11, <1>p, <1>s, <2>1 DEF BeginUse
<1>12. CASE UNCHANGED billingVars
  BY <1>12, <1>p, <1>s DEF billingVars
<1> QED
  BY <1>2, <1>3, <1>4, <1>5, <1>6, <1>7, <1>8, <1>9, <1>10, <1>11, <1>12 DEF BillingNext, Step

-----------------------------------------------------------------------------

\* With every event answered in order, or refused, the row and the plan are those of the
\* newest one.
LEMMA SettledInOrder ==
    ASSUME BillingTypeOK, StripeHistory, InOrder, ~shuffled, pending \subseteq Refused
    PROVE  Mirrored
<1> DEFINE n == Len(event)
<1>1. PICK k \in 0 .. n : HandledTo(k)
  BY DEF InOrder
<1>2. RowAfter(n) /\ PlanAfter(n)
  <2>1. /\ n \in Nat /\ k \in Nat /\ (\A i \in k + 1 .. n : i \in Number /\ i \in Refused)
        /\ k <= n /\ (k < n => k + 1 <= n /\ k + 1 \in Nat)
    BY <1>1, Events DEF HandledTo
  <2>2. (\A i \in k + 1 .. n : ~Named(i)) /\ (\A i \in k + 1 + 1 .. n : ~Named(i))
    <3>1. \A i \in k + 1 + 1 .. n : i \in k + 1 .. n
      BY <2>1
    <3> QED BY <2>1, <3>1, RefusedIs
  <2> HIDE DEF n
  <2>3. /\ RowAfter(k) => RowAfter(n)
        /\ PlanAfter(k) => PlanAfter(n)
    BY <2>1, <2>2, RefusedAreSkipped DEF n
  <2>4. k < n => /\ RowAfter(k + 1) => RowAfter(n)
                 /\ PlanAfter(k + 1) => PlanAfter(n)
    BY <2>1, <2>2, RefusedAreSkipped DEF n
  <2> QED BY <1>1, <2>3, <2>4 DEF HandledTo, n
<1>3. n \in Nat /\ Number = 1 .. n /\ Sub \subseteq Nat
  BY Events
<1> HIDE DEF n
<1>4. CASE \A i \in Number : ~Named(i)
  <2>1. Paid = {}
    BY <1>4 DEF Paid, StripeHistory, Named
  <2>2. row.stripe = NoSub /\ tenantPlan = Free
    BY <1>2, <1>3, <1>4 DEF RowAfter, PlanAfter, Newest
  <2> QED BY <2>1, <2>2 DEF Mirrored
<1>5. CASE \E i \in Number : Named(i)
  <2>1. PICK j \in Number : /\ Newest(j, n)
                            /\ row.stripe = event[j].sub /\ row.plan = PlanOf[event[j].sub]
                            /\ row.status = StatusFor(event[j])
    BY <1>2, <1>3, <1>5 DEF RowAfter
  <2>2. tenantPlan = IF event[j].status = "canceled" THEN Free ELSE PlanOf[event[j].sub]
    <3>1. PICK h \in 1 .. n : /\ Newest(h, n)
                              /\ tenantPlan = IF event[h].status = "canceled" THEN Free ELSE PlanOf[event[h].sub]
      BY <1>2, <1>3, <1>5 DEF PlanAfter
    <3>2. n \in 0 .. Len(event)
      BY <1>3 DEF n
    <3> QED BY <2>1, <3>1, <3>2, NewestIsOne
  <2> DEFINE s == event[j].sub
  <2>3. /\ s \in Sub /\ event[j] \in StripeEvent /\ PlanOf[s] # NoPlan
        /\ \A i \in Number : Named(i) => event[i].sub <= s
    BY <1>3, <2>1, Events DEF Newest, Named
  <2>4. stripe[s].status = event[j].status
    <3>1. \A i \in j + 1 .. n : event[i].sub # event[j].sub
      BY <2>1 DEF Newest
    <3>2. stripe[event[j].sub] = [status |-> event[j].status, tag |-> event[j].tag]
      BY <2>1, <3>1 DEF StripeHistory, n
    <3> QED BY <3>2
  <2>5. s \in Paid /\ \A r \in Paid : r <= s
    <3>1. s \in Paid
      BY <2>1, <2>3 DEF StripeHistory, Paid
    <3>2. ASSUME NEW r \in Paid PROVE r <= s
      <4>1. PICK i \in Number : event[i].sub = r /\ Named(i)
        BY DEF StripeHistory, Paid, Named
      <4> QED BY <2>3, <4>1
    <3> QED BY <3>1, <3>2
  <2>6. Current = s
    <3>1. Current \in Paid /\ \A r \in Paid : r <= Current
      BY <2>5 DEF Current
    <3>2. s <= Current /\ Current <= s
      BY <2>5, <3>1
    <3>3. s \in Nat /\ Current \in Nat
      BY <1>3, <2>3, <3>1 DEF Paid
    <3> QED BY <3>2, <3>3
  <2>7. StatusFor(event[j]) = mapStripeStatus(event[j].status)
    <3>1. /\ event[j].type = "checkout" => event[j].status = "active"
          /\ event[j].type = "deleted" <=> event[j].status = "canceled"
          /\ event[j].type \in {"checkout", "updated", "deleted"}
      BY <2>1, <2>3 DEF StripeHistory, StripeEvent
    <3>2. mapStripeStatus("active") = "ACTIVE" /\ mapStripeStatus("canceled") = "CANCELLED"
      BY DEF mapStripeStatus
    <3> QED BY <3>1, <3>2 DEF StatusFor
  <2> QED BY <2>1, <2>2, <2>4, <2>5, <2>6, <2>7 DEF Mirrored
<1> QED BY <1>4, <1>5

\* The inductive invariant of billing.
BillingInv == BillingTypeOK /\ PlansKnown /\ OneReader /\ StripeHistory /\ InOrder

LEMMA BillingInvInit == BillingInit => BillingInv
<1> SUFFICES ASSUME BillingInit PROVE BillingInv
  OBVIOUS
<1>1. /\ event = <<>> /\ Len(event) = 0 /\ Number = {} /\ pending = {}
      /\ \A w \in Worker : work[w] = NoWork
      /\ stripe = [s \in Sub |-> [status |-> "none", tag |-> NoPlan]]
  BY DEF BillingInit, Number
<1>2. BillingTypeOK
  <2>1. row \in Row /\ tenantPlan \in Plan /\ ledger \in Int
    BY BillingAssumption DEF BillingInit, Row, RowStatus
  <2>2. stripe \in [Sub -> AtStripe]
    BY <1>1 DEF AtStripe
  <2>3. NoWork \in Handler /\ NoWork.ev = 0
    BY DEF NoWork, Handler
  <2>4. work \in [Worker -> Handler] /\ \A w \in Worker : work[w].ev <= Len(event)
    BY <1>1, <2>3 DEF BillingInit
  <2>5. event \in Seq(StripeEvent)
    BY <1>1
  <2>6. pending \subseteq 1 .. Len(event)
    BY <1>1
  <2>7. faults \in 0 .. MaxFaults /\ uses \in 0 .. MaxUses
    BY BillingAssumption DEF BillingInit
  <2>8. shuffled \in BOOLEAN /\ clashed \in BOOLEAN
    BY DEF BillingInit
  <2> QED BY <2>1, <2>2, <2>4, <2>5, <2>6, <2>7, <2>8 DEF BillingTypeOK
<1>3. PlansKnown
  BY <1>1 DEF PlansKnown, NoWork
<1>4. OneReader
  BY <1>1 DEF BillingInit, OneReader, Busy, NoWork
<1>5. StripeHistory
  BY <1>1 DEF StripeHistory
<1>6. InOrder
  <2>1. 0 \in 0 .. Len(event) /\ 0 + 1 .. Len(event) = {}
    BY <1>1
  <2>2. RowAfter(0) /\ PlanAfter(0)
    BY DEF BillingInit, RowAfter, PlanAfter
  <2>3. Handling = {}
    BY <1>1 DEF Handling, Busy
  <2>4. HandledTo(0)
    BY <1>1, <2>1, <2>2, <2>3 DEF HandledTo
  <2> QED BY <2>1, <2>4 DEF InOrder
<1> QED BY <1>2, <1>3, <1>4, <1>5, <1>6 DEF BillingInv

LEMMA BillingInvHolds == BillingSpec => []BillingInv
<1>1. BillingInv /\ [BillingNext]_billingVars => BillingInv'
  BY BillingTypeStep, OneReaderStep, StripeHistoryStep, InOrderStep DEF BillingInv
<1> QED BY <1>1, BillingInvInit, PTL DEF BillingSpec

\* Every variable has its type, whatever dies and whatever Stripe sends again.
THEOREM BillingTypeCorrect == BillingSpec => []BillingTypeOK
<1>1. BillingInv => BillingTypeOK
  BY DEF BillingInv
<1> QED BY <1>1, BillingInvHolds, PTL

\* While no two requests that change credits have overlapped, the sum of the ledger
\* is the balance, over refills, retries, faults and what was spent.
THEOREM LedgerIsTheBalance == BillingSpec => []LedgerExplainsBalance
<1>1. BillingInv => LedgerExplainsBalance
  BY DEF BillingInv, OneReader, LedgerExplainsBalance
<1> QED BY <1>1, BillingInvHolds, PTL

\* When every event was answered but the checkouts that are refused, in the order they
\* were sent in and over any number of retries, the tenant's row and plan are those of
\* the subscription it paid for last in a session that names its plan.
THEOREM EventsBringThePlan == BillingSpec => []SettledMirrorsStripe
<1>1. BillingInv => SettledMirrorsStripe
  BY SettledInOrder DEF BillingInv, SettledMirrorsStripe
<1> QED BY <1>1, BillingInvHolds, PTL

=============================================================================
