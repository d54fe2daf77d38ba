----------------------------- MODULE ChatProofs -----------------------------
(***************************************************************************)
(* What the chat promises for every number of users, sockets and calls.    *)
(***************************************************************************)
EXTENDS ChatCalls, ChatMessages, FiniteSetTheorems, TLAPS

LEMMA InitType == Init => TypeOK
<1>1. Fresh \in Call
  BY GatewayAssumption DEF Fresh, Call, Phase
<1>2. Init => mixed \in BOOLEAN
  BY Zenon DEF Init
<1> QED BY <1>1, <1>2, GatewayAssumption DEF Init, TypeOK, Entry

\* Every step of the gateway keeps the types.
LEMMA GatewayTypeStep ==
    ASSUME TypeOK, [Next]_vars PROVE TypeOK'
<1> USE GatewayAssumption
<1>00. Fresh \in Call /\ Gone \in Call
  BY DEF Fresh, Gone, Call, Phase
<1> USE DEF TypeOK
<1>0. \A ids : Over(ids) \in [CallId -> Call]
  BY <1>00 DEF Over
<1>1. ASSUME NEW s \in Socket, Connect(s) PROVE TypeOK'
  BY <1>1 DEF Connect
<1>2. ASSUME NEW s \in Socket, Admit(s) PROVE TypeOK'
  <2>1. UserOf[s] \in User /\ TenantOf[s] \in Tenant
    OBVIOUS
  <2>2. entry' \in [User -> Entry]
    BY <1>2, <2>1 DEF Admit, MarkOnline, Entry
  <2>3. shown' \in [Tenant -> SUBSET User]
    BY <1>2, <2>1 DEF Admit
  <2> QED BY <1>2, <2>2, <2>3 DEF Admit
<1>3. ASSUME NEW s \in Socket, Refuse(s) PROVE TypeOK'
  BY <1>3 DEF Refuse
<1>4. ASSUME NEW s \in Socket, Drop(s) PROVE TypeOK'
  <2>1. UserOf[s] \in User /\ TenantOf[s] \in Tenant
    OBVIOUS
  <2>2. entry' \in [User -> Entry]
    BY <1>4, <2>1 DEF Drop, MarkOffline, Entry
  <2>3. shown' \in [Tenant -> SUBSET User]
    BY <1>4, <2>1 DEF Drop
  <2>4. call' \in [CallId -> Call]
    BY <1>4, <1>0 DEF Drop
  <2> QED BY <1>4, <2>2, <2>3, <2>4 DEF Drop
<1>5. ASSUME NEW s \in Socket, NEW v \in User, NEW i \in CallId, RingAsk(s, v, i) PROVE TypeOK'
  <2>1. [phase |-> "reading", caller |-> UserOf[s], callee |-> v,
         tenant |-> TenantOf[s], age |-> 0] \in Call
    BY DEF Call, Phase
  <2>2. mixed' \in BOOLEAN
    BY <1>5, Zenon DEF RingAsk
  <2> QED BY <1>5, <2>1, <2>2 DEF RingAsk
<1>6. ASSUME NEW i \in CallId, RingCheck(i) PROVE TypeOK'
  <2> DEFINE o == Over(Stale)
  <2>1. o \in [CallId -> Call] /\ Over(Stale \cup {i}) \in [CallId -> Call]
    BY <1>0
  <2>2. call' = Over(Stale \cup {i}) \/ call' = [o EXCEPT ![i].phase = "checked"]
    BY <1>6 DEF RingCheck
  <2> HIDE DEF o
  <2>3. [o EXCEPT ![i].phase = "checked"] \in [CallId -> Call]
    <3>0. \A c \in Call : [c EXCEPT !.phase = "checked"] \in Call
      BY DEF Call, Phase
    <3>1. [o[i] EXCEPT !.phase = "checked"] \in Call
      BY <2>1, <3>0
    <3> QED BY <2>1, <3>1
  <2> QED BY <1>6, <2>1, <2>2, <2>3 DEF RingCheck
<1>7. ASSUME NEW i \in CallId, RingPut(i) PROVE TypeOK'
  <2>0. \A c \in Call : [c EXCEPT !.phase = "up"] \in Call
    BY DEF Call, Phase
  <2>1. [call[i] EXCEPT !.phase = "up"] \in Call
    BY <2>0
  <2> QED BY <1>7, <1>0, <2>1 DEF RingPut
<1>8. ASSUME NEW u \in User, NEW i \in CallId,
             Accept(u, i) \/ Decline(u, i) \/ Cancel(u, i) \/ EndCall(u, i)
      PROVE TypeOK'
  BY <1>8, <1>0 DEF Accept, Decline, Cancel, EndCall
<1>9. ASSUME Tick PROVE TypeOK'
  <2>1. ASSUME NEW i \in CallId, call[i].age <= RingTimeout
        PROVE  [call[i] EXCEPT !.age = @ + 1] \in Call
    <3>1. call[i] \in Call
      OBVIOUS
    <3>2. call[i].age \in 0 .. RingTimeout + 1 /\ call[i].age + 1 \in 0 .. RingTimeout + 1
      BY <2>1, <3>1 DEF Call
    <3> QED BY <3>1, <3>2 DEF Call
  <2>2. call' \in [CallId -> Call]
    BY <1>9, <2>1 DEF Tick
  <2> QED BY <1>9, <2>2 DEF Tick
<1>10. ASSUME UNCHANGED vars PROVE TypeOK'
  BY <1>10 DEF vars
<1> QED
  BY <1>1, <1>2, <1>3, <1>4, <1>5, <1>6, <1>7, <1>8, <1>9, <1>10 DEF Next

\* The state has its type: in particular an entry's sockets are sockets and an
\* age never leaves its bound.
THEOREM GatewayTypeCorrect == Spec => []TypeOK
<1> QED BY InitType, GatewayTypeStep, PTL DEF Spec

-----------------------------------------------------------------------------

\* One ring handler at a time.
OneRing == \A i, j \in InFlight : i = j

\* A ring that passed its checks: neither party is in a call.
CheckedIsFree ==
    \A i \in CallId : call[i].phase = "checked" =>
        CallsOf(call[i].caller) = {} /\ CallsOf(call[i].callee) = {}

IInv == TypeOK /\ OneRing /\ CheckedIsFree /\ NobodyInTwoCalls

CalmCalls == ~mixed => IInv

\* Ending calls can only free their parties.
LEMMA OverKeeps ==
    ASSUME IInv, NEW ids, call' = Over(ids)
    PROVE  OneRing' /\ CheckedIsFree' /\ NobodyInTwoCalls'
<1>1. \A i \in CallId : call'[i] = call[i] \/ (i \in ids /\ call'[i] = Gone)
  BY DEF Over
<1>2. Gone.phase = "over"
  BY DEF Gone, Fresh
<1>3. Up' \subseteq Up /\ InFlight' \subseteq InFlight
  BY <1>1, <1>2 DEF Up, InFlight
<1>4. \A i \in Up' \cup InFlight' : call'[i] = call[i]
  BY <1>1, <1>2 DEF Up, InFlight
<1>5. \A u : CallsOf(u)' \subseteq CallsOf(u)
  BY <1>3, <1>4 DEF CallsOf, IsParticipant
<1>6. OneRing'
  BY <1>3 DEF IInv, OneRing
<1>7. CheckedIsFree'
  BY <1>1, <1>2, <1>4, <1>5 DEF IInv, CheckedIsFree
<1>8. NobodyInTwoCalls'
  BY <1>5 DEF IInv, NobodyInTwoCalls
<1> QED BY <1>6, <1>7, <1>8

LEMMA SameCallsKeep ==
    ASSUME IInv, UNCHANGED call PROVE OneRing' /\ CheckedIsFree' /\ NobodyInTwoCalls'
BY DEF IInv, OneRing, CheckedIsFree, NobodyInTwoCalls, CallsOf, IsParticipant, Up, InFlight

\* The inductive step: with one ring handler at a time, nothing comes between a
\* ring's checks and its entry in the registry that adds another call.
LEMMA OneCallStep ==
    ASSUME ~mixed', IInv, TypeOK', [Next]_vars PROVE IInv'
<1> SUFFICES OneRing' /\ CheckedIsFree' /\ NobodyInTwoCalls'
  BY DEF IInv
<1> USE GatewayAssumption
<1>1. ASSUME NEW s \in Socket, Connect(s) \/ Admit(s) \/ Refuse(s)
      PROVE  OneRing' /\ CheckedIsFree' /\ NobodyInTwoCalls'
  BY <1>1, SameCallsKeep DEF Connect, Admit, Refuse
<1>2. ASSUME NEW s \in Socket, Drop(s)
      PROVE  OneRing' /\ CheckedIsFree' /\ NobodyInTwoCalls'
  BY <1>2, SameCallsKeep, OverKeeps DEF Drop
<1>3. ASSUME NEW s \in Socket, NEW v \in User, NEW i \in CallId, RingAsk(s, v, i)
      PROVE  OneRing' /\ CheckedIsFree' /\ NobodyInTwoCalls'
  <2>1. call'[i].phase = "reading" /\ \A j \in CallId \ {i} : call'[j] = call[j]
    BY <1>3 DEF RingAsk, IInv, TypeOK
  <2>2. InFlight = {} /\ i \notin Up
    BY <1>3 DEF RingAsk, Up
  <2>3. Up' = Up /\ InFlight' = {i} /\ \A j \in Up : call'[j] = call[j]
    BY <2>1, <2>2 DEF Up, InFlight
  <2>4. \A u : CallsOf(u)' = CallsOf(u)
    BY <2>3 DEF CallsOf, IsParticipant
  <2>5. OneRing' /\ NobodyInTwoCalls'
    BY <2>3, <2>4 DEF OneRing, NobodyInTwoCalls, IInv
  <2>6. CheckedIsFree'
    BY <2>1, <2>2 DEF CheckedIsFree, InFlight
  <2> QED BY <2>5, <2>6
<1>4. ASSUME NEW i \in CallId, RingCheck(i)
      PROVE  OneRing' /\ CheckedIsFree' /\ NobodyInTwoCalls'
  <2>1. CASE call' = Over(Stale \cup {i})
    BY <2>1, OverKeeps
  <2>2. CASE /\ call' = [Over(Stale) EXCEPT ![i].phase = "checked"]
             /\ ~Busy(i, Up \ Stale)
    <3>1. Gone.phase = "over"
      BY DEF Gone, Fresh
    <3>2. i \notin Stale
      BY <1>4 DEF RingCheck, Stale, Up
    <3>3. /\ call'[i].phase = "checked"
          /\ call'[i].caller = call[i].caller /\ call'[i].callee = call[i].callee
      BY <2>2, <3>2 DEF Over, IInv, TypeOK, Call
    <3>4. \A j \in CallId \ {i} : call'[j] = IF j \in Stale THEN Gone ELSE call[j]
      BY <2>2 DEF Over
    <3>5. Up' = Up \ Stale
      <4>1. call[i].phase = "reading"
        BY <1>4 DEF RingCheck
      <4> QED BY <3>1, <3>3, <3>4, <4>1 DEF Up
    <3>6. \A j \in Up' : call'[j] = call[j]
      BY <3>3, <3>4, <3>5 DEF Up
    <3>7. \A u : CallsOf(u)' = CallsOf(u) \ Stale
      BY <3>5, <3>6 DEF CallsOf, IsParticipant
    <3>8. NobodyInTwoCalls'
      BY <3>7 DEF NobodyInTwoCalls, IInv
    <3>9. i \in InFlight /\ InFlight' \subseteq InFlight
      BY <1>4, <3>1, <3>3, <3>4 DEF RingCheck, InFlight
    <3>10. OneRing'
      BY <3>9 DEF OneRing, IInv
    <3>11. \A j \in CallId : call'[j].phase = "checked" => j = i
      BY <3>9, <3>10, <3>3 DEF OneRing, InFlight
    <3>12. CallsOf(call[i].caller) \ Stale = {} /\ CallsOf(call[i].callee) \ Stale = {}
      BY <2>2 DEF Busy, CallsOf, IsParticipant
    <3>13. CheckedIsFree'
      BY <3>3, <3>7, <3>11, <3>12 DEF CheckedIsFree
    <3> QED BY <3>8, <3>10, <3>13
  <2>3. \/ call' = Over(Stale \cup {i})
        \/ call' = [Over(Stale) EXCEPT ![i].phase = "checked"] /\ ~Busy(i, Up \ Stale)
    BY <1>4 DEF RingCheck
  <2> QED BY <2>1, <2>2, <2>3
<1>5. ASSUME NEW i \in CallId, RingPut(i)
      PROVE  OneRing' /\ CheckedIsFree' /\ NobodyInTwoCalls'
  <2>1. CASE call' = Over({i})
    BY <2>1, OverKeeps
  <2>2. CASE call' = [call EXCEPT ![i].phase = "up"]
    <3>1. /\ call'[i].phase = "up"
          /\ call'[i].caller = call[i].caller /\ call'[i].callee = call[i].callee
          /\ \A j \in CallId \ {i} : call'[j] = call[j]
      BY <2>2 DEF IInv, TypeOK, Call
    <3>2. i \in InFlight /\ call[i].phase = "checked"
      BY <1>5 DEF RingPut, InFlight
    <3>3. InFlight' = {} /\ Up' = Up \cup {i}
      BY <3>1, <3>2 DEF InFlight, Up, IInv, OneRing
    <3>4. \A u : CallsOf(u)' = CallsOf(u) \cup (IF u \in {call[i].caller, call[i].callee} THEN {i} ELSE {})
      BY <3>1, <3>3, <3>2 DEF CallsOf, IsParticipant, Up
    <3>5. CallsOf(call[i].caller) = {} /\ CallsOf(call[i].callee) = {}
      BY <3>2 DEF IInv, CheckedIsFree
    <3>6. NobodyInTwoCalls'
      BY <3>4, <3>5 DEF NobodyInTwoCalls, IInv
    <3> QED BY <3>3, <3>6 DEF OneRing, CheckedIsFree, InFlight
  <2> QED BY <1>5, <2>1, <2>2 DEF RingPut
<1>6. ASSUME NEW u \in User, NEW i \in CallId, Accept(u, i)
      PROVE  OneRing' /\ CheckedIsFree' /\ NobodyInTwoCalls'
  BY <1>6, SameCallsKeep DEF Accept
<1>7. ASSUME NEW u \in User, NEW i \in CallId, Decline(u, i) \/ Cancel(u, i) \/ EndCall(u, i)
      PROVE  OneRing' /\ CheckedIsFree' /\ NobodyInTwoCalls'
  BY <1>7, OverKeeps DEF Decline, Cancel, EndCall
<1>8. ASSUME Tick PROVE OneRing' /\ CheckedIsFree' /\ NobodyInTwoCalls'
  <2>1. \A i \in CallId : /\ call'[i].phase = call[i].phase
                          /\ call'[i].caller = call[i].caller
                          /\ call'[i].callee = call[i].callee
    BY <1>8 DEF Tick, IInv, TypeOK, Call
  <2>2. Up' = Up /\ InFlight' = InFlight
    BY <2>1 DEF Up, InFlight
  <2>3. \A u : CallsOf(u)' = CallsOf(u)
    BY <2>1, <2>2 DEF CallsOf, IsParticipant, Up
  <2> QED BY <2>1, <2>2, <2>3 DEF OneRing, CheckedIsFree, NobodyInTwoCalls, IInv
<1>9. ASSUME UNCHANGED vars PROVE OneRing' /\ CheckedIsFree' /\ NobodyInTwoCalls'
  BY <1>9, SameCallsKeep DEF vars
<1> QED
  BY <1>1, <1>2, <1>3, <1>4, <1>5, <1>6, <1>7, <1>8, <1>9 DEF Next

LEMMA OneCallInit == Init => IInv
<1> SUFFICES ASSUME Init PROVE IInv
  OBVIOUS
<1> USE GatewayAssumption
<1>1. \A i \in CallId : call[i].phase = "unused"
  BY DEF Init, Fresh
<1>2. Up = {} /\ InFlight = {}
  BY <1>1 DEF Up, InFlight
<1>3. TypeOK
  BY InitType
<1> QED BY <1>1, <1>2, <1>3 DEF IInv, OneRing, CheckedIsFree, NobodyInTwoCalls, CallsOf

\* Once two ring handlers have overlapped, they have.
LEMMA MixedStays == ASSUME mixed, [Next]_vars PROVE mixed'
BY DEF Next, vars, Connect, Admit, Refuse, Drop, RingAsk, RingCheck, RingPut, Accept, Decline,
       Cancel, EndCall, Tick

LEMMA OneCallInductive == Spec => []CalmCalls
<1>1. Init => CalmCalls
  BY OneCallInit DEF CalmCalls
<1>2. CalmCalls /\ TypeOK' /\ [Next]_vars => CalmCalls'
  BY OneCallStep, MixedStays DEF CalmCalls
<1> QED BY <1>1, <1>2, GatewayTypeCorrect, PTL DEF Spec

\* As long as ring handlers do not overlap nobody is ever in two calls.
THEOREM OneCallEver == Spec => []OneCallEach
<1>1. CalmCalls => OneCallEach
  BY DEF CalmCalls, IInv, OneCallEach
<1> QED BY <1>1, OneCallInductive, PTL

\* Then the one call that a disconnect ends is every call of its user.
THEOREM DropIsComplete == Spec => DropEndsEveryCall
<1>1. ASSUME IInv, [Next]_vars, NEW s \in Socket, sock[s] = "on", sock'[s] = "closed"
      PROVE  CallsOf(UserOf[s])' = {}
  <2>1. Drop(s)
    <3>1. ASSUME NEW r \in Socket, Connect(r) \/ Admit(r) \/ Refuse(r) PROVE FALSE
      BY <1>1, <3>1 DEF Connect, Admit, Refuse, IInv, TypeOK
    <3>2. ASSUME NEW r \in Socket, Drop(r) PROVE r = s
      BY <1>1, <3>2 DEF Drop, IInv, TypeOK
    <3>3. sock' # sock
      BY <1>1
    <3> QED
      BY <1>1, <3>1, <3>2, <3>3 DEF Next, vars, RingAsk, RingCheck, RingPut, Accept, Decline,
                                    Cancel, EndCall, Tick
  <2> DEFINE mine == CallsOf(UserOf[s])
  <2>2. PICK ended \in EndedBy(mine) : call' = Over(ended)
    BY <1>1, <2>1 DEF Drop
  <2>3. UserOf[s] \in User
    BY GatewayAssumption
  <2>4. mine \subseteq ended
    <3>1. CASE mine = {}
      BY <3>1
    <3>2. CASE mine # {}
      <4>1. PICK i \in Oldest(mine) : ended = {i}
        BY <2>2, <3>2 DEF EndedBy
      <4>2. i \in mine
        BY <4>1 DEF Oldest
      <4> QED BY <4>1, <4>2, <1>1, <2>3 DEF IInv, NobodyInTwoCalls
    <3> QED BY <3>1, <3>2
  <2>5. \A i \in ended \cap CallId : call'[i].phase = "over"
    BY <2>2 DEF Over, Gone, Fresh
  <2>6. \A i \in CallId \ ended : call'[i] = call[i]
    BY <2>2 DEF Over
  <2> QED BY <2>4, <2>5, <2>6 DEF CallsOf, Up, IsParticipant
<1>2. IInv /\ [Next]_vars => DropsClean
  BY <1>1 DEF DropsClean
<1>3. CalmCalls /\ [Next]_vars => [~mixed' => DropsClean]_vars
  BY <1>2, MixedStays DEF CalmCalls
<1> QED BY <1>3, OneCallInductive, PTL DEF Spec, DropEndsEveryCall

-----------------------------------------------------------------------------

\* The sockets of an entry are those that were admitted and not seen to close.
Present(u) ==
    /\ entry[u].sockets = {s \in Socket : UserOf[s] = u /\ sock[s] \in {"on", "ghost"}}
    /\ KeepsTenant(u) => /\ \A s \in entry[u].sockets : entry[u].tenant = TenantOf[s]
                         /\ \A t \in Tenant : u \in shown[t] <=> IsOnline(u, t)

PresenceInv == \A u \in User : Present(u)

LEMMA PresenceStep ==
    ASSUME TypeOK, PresenceInv, [Next]_vars PROVE PresenceInv'
<1> SUFFICES ASSUME NEW u \in User PROVE Present(u)'
  BY DEF PresenceInv
<1> USE GatewayAssumption
<1>o. Present(u)
  BY DEF PresenceInv
<1>1. CASE UNCHANGED <<sock, entry, shown>>
  BY <1>o, <1>1 DEF Present, IsOnline
<1>2. ASSUME NEW s \in Socket, Connect(s) \/ Refuse(s) PROVE Present(u)'
  <2>1. sock[s] \notin {"on", "ghost"} /\ sock'[s] \notin {"on", "ghost"} /\ \A r \in Socket \ {s} : sock'[r] = sock[r]
    BY <1>2 DEF Connect, Refuse, TypeOK
  <2> QED BY <1>o, <1>2, <2>1 DEF Connect, Refuse, Present, IsOnline
<1>3. ASSUME NEW s \in Socket, Admit(s) PROVE Present(u)'
  <2>1. /\ sock[s] \notin {"on", "ghost"} /\ sock'[s] \in {"on", "ghost"}
        /\ \A r \in Socket \ {s} : sock'[r] = sock[r]
    BY <1>3 DEF Admit, TypeOK
  <2>2. CASE UserOf[s] # u
    <3>1. entry'[u] = entry[u]
      BY <1>3, <2>2 DEF Admit, MarkOnline, TypeOK
    <3>2. \A t \in Tenant : u \in shown'[t] <=> u \in shown[t]
      BY <1>3, <2>2 DEF Admit, TypeOK
    <3> QED BY <1>o, <2>1, <2>2, <3>1, <3>2 DEF Present, IsOnline
  <2>3. CASE UserOf[s] = u
    <3>1. entry'[u] = [tenant |-> TenantOf[s], sockets |-> entry[u].sockets \cup {s}]
      BY <1>3, <2>3 DEF Admit, MarkOnline, TypeOK
    <3>2. \A t \in Tenant : shown'[t] = IF entry[u].sockets = {} /\ t = TenantOf[s] THEN shown[t] \cup {u} ELSE shown[t]
      BY <1>3, <2>3 DEF Admit, TypeOK
    <3>3. entry'[u].sockets = {r \in Socket : UserOf[r] = u /\ sock'[r] \in {"on", "ghost"}}
      BY <1>o, <2>1, <2>3, <3>1 DEF Present
    <3>4. ASSUME KeepsTenant(u) PROVE \A r \in entry'[u].sockets : entry'[u].tenant = TenantOf[r]
      BY <2>3, <3>1, <3>3, <3>4 DEF KeepsTenant
    <3>5. ASSUME KeepsTenant(u), NEW t \in Tenant PROVE u \in shown'[t] <=> IsOnline(u, t)'
      <4>1. IsOnline(u, t)' <=> t = TenantOf[s]
        BY <3>1 DEF IsOnline
      <4>2. u \in shown[t] <=> entry[u].sockets # {} /\ entry[u].tenant = t
        BY <1>o, <3>5 DEF Present, IsOnline
      <4>3. entry[u].sockets # {} => entry[u].tenant = TenantOf[s]
        BY <1>o, <2>3, <3>5 DEF Present, KeepsTenant
      <4> QED BY <3>2, <4>1, <4>2, <4>3
    <3> QED BY <3>3, <3>4, <3>5 DEF Present, KeepsTenant
  <2> QED BY <2>2, <2>3
<1>4. ASSUME NEW s \in Socket, Drop(s) PROVE Present(u)'
  <2>1. CASE sock[s] = "checking"
    <3>1. /\ sock'[s] = "dropped" /\ \A r \in Socket \ {s} : sock'[r] = sock[r]
          /\ UNCHANGED <<entry, shown>>
      BY <1>4, <2>1 DEF Drop, TypeOK
    <3> QED BY <1>o, <2>1, <3>1 DEF Present, IsOnline
  <2>2. CASE sock[s] = "on"
    <3>1. sock'[s] = "closed" /\ \A r \in Socket \ {s} : sock'[r] = sock[r]
      BY <1>4, <2>2 DEF Drop, TypeOK
    <3>2. CASE UserOf[s] # u
      <4>1. entry'[u] = entry[u]
        BY <1>4, <2>2, <3>2 DEF Drop, MarkOffline, TypeOK
      <4>2. \A t \in Tenant : u \in shown'[t] <=> u \in shown[t]
        BY <1>4, <2>2, <3>2 DEF Drop, TypeOK
      <4> QED BY <1>o, <3>1, <3>2, <4>1, <4>2 DEF Present, IsOnline
    <3>3. CASE UserOf[s] = u
      <4> DEFINE rest == entry[u].sockets \ {s}
      <4>0. entry[u] \in Entry
        BY DEF TypeOK
      <4>1. entry'[u].sockets = rest /\ entry'[u].tenant = IF rest = {} THEN None ELSE entry[u].tenant
        BY <1>4, <2>2, <3>3, <4>0 DEF Drop, MarkOffline, TypeOK, Entry
      <4>2. \A t \in Tenant : shown'[t] = IF rest = {} /\ t = TenantOf[s] THEN shown[t] \ {u} ELSE shown[t]
        BY <1>4, <2>2, <3>3 DEF Drop, StillShown, TypeOK
      <4>3. rest = {r \in Socket : UserOf[r] = u /\ sock'[r] \in {"on", "ghost"}}
        BY <1>o, <3>1 DEF Present
      <4>4. s \in entry[u].sockets
        BY <1>o, <2>2, <3>3 DEF Present
      <4>5. ASSUME KeepsTenant(u), NEW t \in Tenant PROVE u \in shown'[t] <=> IsOnline(u, t)'
        <5>1. IsOnline(u, t)' <=> rest # {} /\ entry[u].tenant = t
          BY <4>1 DEF IsOnline
        <5>2. u \in shown[t] <=> entry[u].tenant = t
          BY <1>o, <4>4, <4>5 DEF Present, IsOnline
        <5>3. entry[u].tenant = TenantOf[s]
          BY <1>o, <4>4, <4>5 DEF Present
        <5> QED BY <4>2, <5>1, <5>2, <5>3
      <4>6. ASSUME KeepsTenant(u) PROVE \A r \in rest : entry'[u].tenant = TenantOf[r]
        BY <1>o, <4>1, <4>6 DEF Present
      <4> QED BY <4>1, <4>3, <4>5, <4>6 DEF Present, KeepsTenant
    <3> QED BY <3>2, <3>3
  <2> QED BY <1>4, <2>1, <2>2 DEF Drop
<1> QED
  BY <1>1, <1>2, <1>3, <1>4 DEF Next, vars, RingAsk, RingCheck, RingPut, Accept, Decline, Cancel, EndCall, Tick

\* Who is shown online has a socket that was admitted, and everybody who has one is
\* shown, whatever connections come, close early, are refused or cross.
THEOREM PresenceHolds == Spec => []PresenceIsTrue
<1>1. Init => PresenceInv
  <2> SUFFICES ASSUME Init, NEW u \in User PROVE Present(u)
    BY DEF PresenceInv
  <2>1. entry[u].sockets = {} /\ (\A t \in Tenant : u \notin shown[t]) /\ \A s \in Socket : sock[s] = "new"
    BY DEF Init
  <2> QED BY <2>1 DEF Present, IsOnline
<1>2. TypeOK /\ PresenceInv /\ [Next]_vars => PresenceInv'
  BY PresenceStep
<1>3. PresenceInv => PresenceIsTrue
  BY DEF PresenceInv, Present, PresenceIsTrue, IsOnline, KeepsTenant
<1> QED BY <1>1, <1>2, <1>3, GatewayTypeCorrect, PTL DEF Spec

-----------------------------------------------------------------------------
\* The calls end to end: every step is one of the gateway, or leaves it alone.

LEMMA HeadIs ==
    ASSUME NEW S, NEW q \in Seq(S), q # <<>>
    PROVE  Head(q) \in S /\ Tail(q) \in Seq(S)
OBVIOUS

LEMMA CallsStepIsStep ==
    ASSUME CallsTypeOK, [CallsNext]_all PROVE [Next]_vars
<1>1. ASSUME NEW u \in User, Receive(u) PROVE [Next]_vars
  <2> DEFINE m == Head(toServer[u])
  <2>1. m \in Signal /\ link[u] \in Socket
    BY <1>1, HeadIs DEF Receive, Reachable, CallsTypeOK
  <2>2. m.id \in CallId /\ (m.type = "ring" => m.to \in User)
    BY <2>1 DEF Signal
  <2> HIDE DEF m
  <2>3. \/ RingAsk(link[u], m.to, m.id) /\ m.type = "ring"
        \/ Accept(u, m.id) \/ Decline(u, m.id) \/ Cancel(u, m.id) \/ EndCall(u, m.id) \/ UNCHANGED vars
    BY <1>1 DEF Receive, m
  <2> QED BY <2>1, <2>2, <2>3 DEF Next
<1>2. ASSUME NEW u \in User, Move(u) PROVE [Next]_vars
  <2>1. CASE Checked(u)
    BY <2>1 DEF Checked, Next, CallsTypeOK
  <2> QED BY <1>1, <1>2, <2>1 DEF Move, Deliver, EndedOver, TimerFires
<1>3. ASSUME NEW i \in CallId, Handle(i) PROVE [Next]_vars
  BY <1>3 DEF Handle, CheckRing, PutRing, Next
<1>4. ASSUME NEW u \in User, Reconnect(u) PROVE [Next]_vars
  BY <1>4 DEF Reconnect, Next
<1>5. ASSUME NEW s \in Socket, DropNoticed(s) PROVE [Next]_vars
  BY <1>5 DEF DropNoticed, Next
<1>6. CASE Wait
  BY <1>6 DEF Wait, Next
<1> QED BY <1>2, <1>3, <1>4, <1>5, <1>6
        DEF CallsNext, Place, Press, MicFails, MediaLost, MediaUp, Cut, TooEarly, all

LEMMA CallsInitType == CallsInit => CallsTypeOK
<1> SUFFICES ASSUME CallsInit PROVE CallsTypeOK
  OBVIOUS
<1> USE GatewayAssumption, CallsAssumption
<1>1. \A u \in User : link[u] \in Socket /\ UserOf[link[u]] = u
  BY DEF CallsInit
<1>2. TypeOK
  <2>1. sock \in [Socket -> {"new", "checking", "dropped", "on", "ghost", "closed"}]
    BY DEF CallsInit
  <2>2. entry \in [User -> Entry] /\ shown \in [Tenant -> SUBSET User]
    <3>1. \A u \in User : [tenant |-> TenantOf[link[u]], sockets |-> {link[u]}] \in Entry
      BY <1>1 DEF Entry
    <3> QED BY <3>1 DEF CallsInit
  <2>3. call \in [CallId -> Call] /\ accepted \subseteq CallId
    <3>1. Fresh \in Call
      BY DEF Fresh, Call, Phase
    <3> QED BY <3>1 DEF CallsInit
  <2>4. mixed \in BOOLEAN
    BY Zenon DEF CallsInit
  <2> QED BY <2>1, <2>2, <2>3, <2>4 DEF TypeOK
<1>3. screen \in [User -> Screen] /\ timers \in [User -> SUBSET Timer]
  BY DEF CallsInit, Screen
<1>4. toServer \in [User -> Seq(Signal)] /\ toClient \in [User -> Seq(Notice)]
  <2>1. <<>> \in Seq(Signal) /\ <<>> \in Seq(Notice)
    OBVIOUS
  <2> QED BY <2>1 DEF CallsInit
<1>5. link \in [User -> Socket \cup {None}] /\ placed \subseteq CallId /\ untimed \subseteq CallId /\ failed \subseteq Mishap
      /\ resets \in [User -> Nat]
  BY <1>1 DEF CallsInit
<1> QED BY <1>2, <1>3, <1>4, <1>5 DEF CallsTypeOK

\* The channels, the timers and the screens that the overlay's functions leave.
LEMMA SendType ==
    ASSUME CallsTypeOK, NEW u \in User, NEW i \in CallId,
           NEW type \in {"accept", "decline", "cancel", "end"}, Send(u, type, i)
    PROVE  toServer' \in [User -> Seq(Signal)]
<1>1. [type |-> type, id |-> i] \in Signal
  BY DEF Signal
<1> QED BY <1>1 DEF Send, CallsTypeOK

LEMMA ToldType ==
    ASSUME CallsTypeOK, NEW u \in User, NEW i \in CallId,
           NEW type \in {"ring", "ack", "nack", "accepted", "declined", "cancelled", "ended"}
    PROVE  Told(u, type, i) \in Seq(Notice) /\ Append(toClient[u], [type |-> type, id |-> i]) \in Seq(Notice)
<1>1. [type |-> type, id |-> i] \in Notice
  BY DEF Notice
<1> QED BY <1>1 DEF Told, CallsTypeOK

LEMMA SessionIs ==
    ASSUME CallsTypeOK, NEW u \in User
    PROVE  /\ screen[u] \in Screen
           /\ screen[u] # NoSession => screen[u].id \in CallId /\ screen[u].mode \in {"out", "in"}
           /\ NoSession.status = "idle" /\ NoSession.mode = "none" /\ ~NoSession.acked /\ NoSession.id = None
<1>1. screen[u] \in Screen
  BY DEF CallsTypeOK
<1> QED BY <1>1 DEF Screen, NoSession

\* A session keeps its call and its side whatever else is shown of it.
LEMMA ShowType ==
    ASSUME CallsTypeOK, NEW u \in User, NEW new \in Screen, Show(u, new)
    PROVE  screen' \in [User -> Screen]
BY DEF Show, CallsTypeOK

LEMMA ScreenExcept ==
    ASSUME NEW x \in Screen, x # NoSession,
           NEW st \in {"idle", "ringing", "connecting", "active", "ended"},
           NEW r \in {"none", "failed", "declined", "cancelled", "ended", "no_answer"}
    PROVE  /\ [x EXCEPT !.status = st] \in Screen /\ [x EXCEPT !.acked = TRUE] \in Screen
           /\ [x EXCEPT !.status = st, !.reason = r] \in Screen
BY DEF Screen

LEMMA HeldType ==
    ASSUME CallsTypeOK, NEW u \in User, ClearHeld(u)
    PROVE  timers' \in [User -> SUBSET Timer]
BY DEF ClearHeld, Unheld, CallsTypeOK

LEMMA OverlayTypeStep ==
    ASSUME CallsTypeOK, NEW u \in User,
           \/ \E v \in User, i \in CallId : Place(u, v, i)
           \/ Press(u) \/ MicFails(u) \/ EndedOver(u) \/ MediaLost(u)
           \/ \E t \in timers[u] : TimerFires(u, t)
           \/ \E v \in User : MediaUp(u, v)
    PROVE  /\ screen' \in [User -> Screen] /\ timers' \in [User -> SUBSET Timer]
           /\ toServer' \in [User -> Seq(Signal)] /\ toClient' = toClient
           /\ link' = link /\ placed' \subseteq CallId /\ untimed' = untimed /\ failed' \subseteq Mishap
<1> DEFINE Good == /\ screen' \in [User -> Screen] /\ timers' \in [User -> SUBSET Timer]
                   /\ toServer' \in [User -> Seq(Signal)] /\ toClient' = toClient
                   /\ link' = link /\ placed' \subseteq CallId /\ untimed' = untimed /\ failed' \subseteq Mishap
<1>t. /\ screen \in [User -> Screen] /\ timers \in [User -> SUBSET Timer]
      /\ toServer \in [User -> Seq(Signal)] /\ placed \subseteq CallId /\ failed \subseteq Mishap
  BY DEF CallsTypeOK
<1>x. screen[u] \in Screen /\ NoSession.status = "idle"
  BY <1>t, SessionIs
<1>f. \A what : Fails(what) => failed' \subseteq Mishap
  BY <1>t DEF Fails, Mishap
<1>s. screen[u].acked => screen[u] # NoSession
  BY SessionIs
<1>k. ASSUME NEW type \in {"accept", "decline", "cancel", "end"}, SendIfKnown(u, type)
      PROVE  toServer' \in [User -> Seq(Signal)]
  BY <1>k, <1>t, <1>s, SendType, SessionIs DEF SendIfKnown
<1>w. ASSUME NEW st \in {"idle", "ringing", "connecting", "active", "ended"},
             NEW r \in {"none", "failed", "declined", "cancelled", "ended", "no_answer"}, screen[u] # NoSession,
             \/ Show(u, [screen[u] EXCEPT !.status = st]) \/ Show(u, [screen[u] EXCEPT !.status = st, !.reason = r])
      PROVE  screen' \in [User -> Screen]
  BY <1>w, <1>x, ScreenExcept, ShowType
<1>n. NoSession \in Screen
  BY DEF Screen
<1>1. ASSUME NEW v \in User, NEW i \in CallId, Place(u, v, i) PROVE Good
  <2>1. /\ [status |-> "ringing", id |-> i, mode |-> "out", acked |-> FALSE, reason |-> "none"] \in Screen
        /\ [type |-> "ring", id |-> i, to |-> v] \in Signal
    BY DEF Screen, Signal
  <2>2. screen' \in [User -> Screen]
    BY <1>1, <2>1, ShowType DEF Place
  <2>3. toServer' \in [User -> Seq(Signal)]
    BY <1>1, <1>t, <2>1 DEF Place
  <2> QED BY <1>1, <1>t, <2>2, <2>3 DEF Place
<1>2. CASE Press(u)
  <2>0. screen[u] # NoSession /\ screen[u].id \in CallId
    BY <1>2, <1>x, SessionIs DEF Press
  <2>1. failed' \subseteq Mishap /\ toClient' = toClient /\ link' = link /\ placed' = placed /\ untimed' = untimed
    BY <1>2, <1>f, <1>t DEF Press
  <2>2. toServer' \in [User -> Seq(Signal)]
    BY <1>2, <1>k, <2>0, SendType DEF Press
  <2>3. timers' \in [User -> SUBSET Timer]
    BY <1>2, <1>t, HeldType DEF Press, Forget, Teardown
  <2>4. screen' \in [User -> Screen]
    <3>1. CASE Forget(u)
      BY <1>n, <3>1, ShowType DEF Forget
    <3>2. CASE Show(u, [screen[u] EXCEPT !.status = "connecting"])
      BY <1>w, <2>0, <3>2
    <3>3. CASE Teardown(u, "ended")
      BY <1>w, <2>0, <3>3 DEF Teardown, LastFrame
    <3> QED BY <1>2, <3>1, <3>2, <3>3 DEF Press
  <2> QED BY <1>t, <2>1, <2>2, <2>3, <2>4
<1>3. CASE MicFails(u) \/ MediaLost(u)
  <2>0. screen[u] # NoSession /\ screen[u].id \in CallId
    BY <1>3, <1>x, SessionIs DEF MicFails, MediaLost
  <2>1. failed' \subseteq Mishap /\ toClient' = toClient /\ link' = link /\ placed' = placed /\ untimed' = untimed
    BY <1>3, <1>f, <1>t DEF MicFails, MediaLost
  <2>2. toServer' \in [User -> Seq(Signal)]
    BY <1>3, <1>t, <2>0, SendType DEF MicFails, MediaLost
  <2>3. timers' \in [User -> SUBSET Timer]
    BY <1>3, HeldType DEF MicFails, MediaLost, Reset, Teardown
  <2>4. screen' \in [User -> Screen]
    <3>1. CASE Reset(u)
      BY <1>w, <2>0, <3>1 DEF Reset, Idle
    <3>2. CASE Teardown(u, "failed")
      BY <1>w, <2>0, <3>2 DEF Teardown, LastFrame
    <3> QED BY <1>3, <3>1, <3>2 DEF MicFails, MediaLost
  <2> QED BY <1>t, <2>1, <2>2, <2>3, <2>4
<1>6. CASE EndedOver(u)
  <2>1. Idle(u) \in Screen
    <3>1. CASE screen[u] = NoSession
      <4>1. [screen[u] EXCEPT !.status = "idle", !.reason = "none"] = screen[u]
        <5>1. screen[u].status = "idle" /\ screen[u].reason = "none"
          BY <3>1 DEF NoSession
        <5> QED BY <3>1, <5>1 DEF NoSession
      <4> QED BY <1>n, <3>1, <4>1 DEF Idle
    <3>2. CASE screen[u] # NoSession
      BY <1>x, <3>2, ScreenExcept DEF Idle
    <3> QED BY <3>1, <3>2
  <2>2. screen' \in [User -> Screen] /\ timers' \in [User -> SUBSET Timer]
    BY <1>6, <2>1, ShowType, HeldType DEF EndedOver
  <2>3. failed' \subseteq Mishap
    BY <1>6, <1>t DEF EndedOver, Wipes, Mishap
  <2> QED BY <1>6, <1>t, <2>2, <2>3 DEF EndedOver
<1>4. ASSUME NEW t \in timers[u], TimerFires(u, t) PROVE Good
  <2>1. t \in Timer
    BY <1>t
  <2>2. timers' \in [User -> SUBSET Timer] /\ failed' = failed /\ toClient' = toClient /\ link' = link
        /\ placed' = placed /\ untimed' = untimed
    BY <1>4, <1>t DEF TimerFires, Unheld
  <2>3. CASE screen[u].mode = t.mode
    <3>1. screen[u] # NoSession /\ screen[u].id \in CallId
      BY <2>1, <2>3, SessionIs DEF Timer
    <3>2. toServer' \in [User -> Seq(Signal)]
      BY <1>4, <1>k, <2>3, <3>1, SendType DEF TimerFires
    <3>3. screen' \in [User -> Screen]
      BY <1>4, <1>w, <2>3, <3>1 DEF TimerFires, LastFrame
    <3> QED BY <1>t, <2>2, <3>2, <3>3
  <2>4. CASE screen[u].mode # t.mode
    BY <1>4, <1>t, <2>2, <2>4 DEF TimerFires
  <2> QED BY <2>3, <2>4
<1>5. ASSUME NEW v \in User, MediaUp(u, v) PROVE Good
  <2>1. screen[u] # NoSession /\ screen[v] # NoSession /\ screen[u] \in Screen /\ screen[v] \in Screen /\ u # v
    BY <1>5, <1>t, SessionIs DEF MediaUp
  <2>2. [screen[u] EXCEPT !.status = "active"] \in Screen /\ [screen[v] EXCEPT !.status = "active"] \in Screen
    BY <2>1, ScreenExcept
  <2>3. screen' \in [User -> Screen]
    BY <1>5, <1>t, <2>1, <2>2 DEF MediaUp
  <2> QED BY <1>5, <1>t, <2>3 DEF MediaUp
<1> QED BY <1>1, <1>2, <1>3, <1>4, <1>5, <1>6

\* A teardown's reset is one more to come, and one that has come is one less.
LEMMA ResetsType ==
    ASSUME CallsTypeOK, [CallsNext]_all PROVE resets' \in [User -> Nat]
<1>t. resets \in [User -> Nat]
  BY DEF CallsTypeOK
<1>1. ASSUME NEW u \in User, LaterReset(u) PROVE resets' \in [User -> Nat]
  BY <1>t, <1>1 DEF LaterReset
<1>2. ASSUME NEW u \in User,
             Forget(u) \/ Reset(u) \/ (\E r : Teardown(u, r)) \/ (\E t \in timers[u] : TimerFires(u, t))
      PROVE  resets' \in [User -> Nat]
  BY <1>t, <1>1, <1>2 DEF Forget, Reset, Teardown, TimerFires
<1>3. ASSUME NEW u \in User, Press(u) \/ MicFails(u) \/ MediaLost(u) PROVE resets' \in [User -> Nat]
  BY <1>t, <1>2, <1>3 DEF Press, MicFails, MediaLost
<1>4. ASSUME NEW u \in User, EndedOver(u) PROVE resets' \in [User -> Nat]
  BY <1>t, <1>4 DEF EndedOver
<1>5. ASSUME NEW u \in User, Deliver(u) PROVE resets' \in [User -> Nat]
  <2>1. resets' = resets \/ \E r : Teardown(u, r)
    BY <1>5 DEF Deliver, OnOver, IgnoreEvent
  <2> QED BY <1>t, <1>2, <2>1
<1>6. CASE \/ UNCHANGED all \/ Wait
           \/ \E u, v \in User : MediaUp(u, v) \/ \E i \in CallId : Place(u, v, i)
           \/ \E u \in User : Receive(u) \/ Checked(u) \/ Cut(u) \/ Reconnect(u) \/ TooEarly(u)
           \/ \E i \in CallId : Handle(i)
           \/ \E s \in Socket : DropNoticed(s)
  BY <1>t, <1>6 DEF all, client, Wait, MediaUp, Place, Receive, Checked, Cut, Reconnect, TooEarly, Handle,
                    CheckRing, PutRing, DropNoticed
<1> QED BY <1>2, <1>3, <1>4, <1>5, <1>6 DEF CallsNext, Move

LEMMA DeliverType ==
    ASSUME CallsTypeOK, NEW u \in User, Deliver(u)
    PROVE  /\ screen' \in [User -> Screen] /\ timers' \in [User -> SUBSET Timer]
           /\ toServer' \in [User -> Seq(Signal)] /\ toClient' \in [User -> Seq(Notice)]
           /\ link' = link /\ placed' = placed /\ untimed' \subseteq CallId /\ failed' = failed
<1> DEFINE m == Head(toClient[u])
<1>t. /\ screen \in [User -> Screen] /\ timers \in [User -> SUBSET Timer]
      /\ toServer \in [User -> Seq(Signal)] /\ toClient \in [User -> Seq(Notice)] /\ untimed \subseteq CallId
  BY DEF CallsTypeOK
<1>m. m \in Notice /\ m.id \in CallId /\ toClient' \in [User -> Seq(Notice)]
  <2>1. toClient[u] \in Seq(Notice) /\ toClient[u] # <<>>
    BY <1>t DEF Deliver
  <2>2. m \in Notice /\ Tail(toClient[u]) \in Seq(Notice)
    BY <2>1, HeadIs
  <2>3. m.id \in CallId
    BY <2>2 DEF Notice
  <2>4. toClient' = [toClient EXCEPT ![u] = Tail(@)]
    BY DEF Deliver
  <2> QED BY <1>t, <2>2, <2>3, <2>4
<1> HIDE DEF m
<1>o. link' = link /\ placed' = placed /\ failed' = failed
  BY DEF Deliver
<1>x. screen[u] \in Screen /\ \A i \in CallId : screen[u].id = i => screen[u] # NoSession
  BY <1>t, SessionIs, CallsAssumption
<1>w. ASSUME screen[u] # NoSession, NEW r \in {"failed", "declined", "cancelled", "ended"}, Teardown(u, r)
      PROVE  screen' \in [User -> Screen] /\ timers' \in [User -> SUBSET Timer]
  BY <1>w, <1>x, ScreenExcept, ShowType, HeldType DEF Teardown, LastFrame
<1>1. CASE OnRing(u, m.id)
  <2>1. timers' \in [User -> SUBSET Timer]
    <3>1. Start("in") \in Timer
      BY GatewayAssumption DEF Start, Timer
    <3>2. \A t \in Timer : [t EXCEPT !.held = FALSE] \in Timer
      BY DEF Timer
    <3>3. {t \in timers[u] : t.mode = "out"} \subseteq Timer
      BY <1>t
    <3>4. {[t EXCEPT !.held = FALSE] : t \in {t \in timers[u] : t.mode = "out"}} \subseteq Timer
      BY <3>2, <3>3
    <3>5. \E new \in SUBSET Timer : timers' = [timers EXCEPT ![u] = new]
      BY <1>1, <3>1, <3>3, <3>4 DEF OnRing
    <3> QED BY <1>t, <3>5
  <2>2. untimed' \subseteq CallId
    <3>1. RungOver(u) \subseteq CallId
      <4>1. screen[u].status = "ringing" => screen[u].id \in CallId
        BY SessionIs
      <4> QED BY <1>t, <4>1 DEF RungOver
    <3> QED BY <1>t, <1>1, <3>1 DEF OnRing
  <2>3. toServer' \in [User -> Seq(Signal)]
    BY <1>t, <1>m, <1>1, SendType DEF OnRing, WhenBusy
  <2>4. screen' \in [User -> Screen]
    <3>1. [status |-> "ringing", id |-> m.id, mode |-> "in", acked |-> TRUE, reason |-> "none"] \in Screen
      BY <1>m DEF Screen
    <3> QED BY <1>t, <1>1, <3>1, ShowType DEF OnRing
  <2> QED BY <1>m, <1>o, <2>1, <2>2, <2>3, <2>4
<1>2. CASE OnAck(u, m.id) /\ UNCHANGED untimed
  <2>1. timers' \in [User -> SUBSET Timer]
    <3>1. Start("out") \in Timer
      BY GatewayAssumption DEF Start, Timer
    <3> QED BY <1>t, <1>2, <3>1 DEF OnAck, Unheld
  <2>2. screen' \in [User -> Screen]
    BY <1>t, <1>m, <1>x, <1>2, ScreenExcept DEF OnAck
  <2> QED BY <1>t, <1>m, <1>o, <1>2, <2>1, <2>2 DEF OnAck
<1>3. CASE UNCHANGED untimed /\ (\/ IgnoreEvent
                                 \/ screen[u].id = m.id /\ Teardown(u, "failed") /\ UNCHANGED toServer)
  BY <1>t, <1>m, <1>o, <1>x, <1>w, <1>3 DEF IgnoreEvent
<1>4. CASE /\ UNCHANGED <<untimed, timers, toServer>> /\ screen[u].id = m.id
           /\ Show(u, [screen[u] EXCEPT !.status = "connecting"])
  BY <1>t, <1>m, <1>o, <1>x, <1>4, ScreenExcept, ShowType
<1>5. CASE OnOver(u, m) /\ m.type \in {"declined", "cancelled", "ended"} /\ UNCHANGED untimed
  <2>1. CASE Concerns(u, m) /\ Teardown(u, m.type) /\ UNCHANGED toServer
    BY <1>t, <1>m, <1>o, <1>x, <1>w, <1>5, <2>1 DEF Concerns
  <2> QED BY <1>3, <1>5, <2>1 DEF OnOver
<1> QED BY <1>1, <1>2, <1>3, <1>4, <1>5 DEF Deliver, Concerns, m

\* The gateway's side: what it receives, what it emits, and connections.
LEMMA GatewaySideType ==
    ASSUME CallsTypeOK,
           \/ \E u \in User : Receive(u) \/ Checked(u) \/ Cut(u) \/ Reconnect(u) \/ TooEarly(u)
           \/ \E i \in CallId : Handle(i)
           \/ \E s \in Socket : DropNoticed(s)
           \/ Wait
    PROVE  /\ screen' = screen /\ timers' \in [User -> SUBSET Timer]
           /\ toServer' \in [User -> Seq(Signal)] /\ toClient' \in [User -> Seq(Notice)]
           /\ link' \in [User -> Socket \cup {None}] /\ placed' = placed
           /\ untimed' \subseteq CallId /\ failed' \subseteq Mishap
<1> DEFINE Good == /\ screen' = screen /\ timers' \in [User -> SUBSET Timer]
                   /\ toServer' \in [User -> Seq(Signal)] /\ toClient' \in [User -> Seq(Notice)]
                   /\ link' \in [User -> Socket \cup {None}] /\ placed' = placed
                   /\ untimed' \subseteq CallId /\ failed' \subseteq Mishap
<1>t. /\ screen \in [User -> Screen] /\ timers \in [User -> SUBSET Timer]
      /\ toServer \in [User -> Seq(Signal)] /\ toClient \in [User -> Seq(Notice)]
      /\ link \in [User -> Socket \cup {None}] /\ untimed \subseteq CallId /\ failed \subseteq Mishap
  BY DEF CallsTypeOK
<1>e. ASSUME NEW x, NEW type \in {"accepted", "declined", "cancelled", "ended", "nack", "ring", "ack"}, NEW i \in CallId,
             Emit(x, type, i) \/ (x = call[i].caller /\ toClient' = [toClient EXCEPT ![x] = Heard(i, type)])
      PROVE  toClient' \in [User -> Seq(Notice)]
  <2>1. CASE x \in User
    <3>1. Told(x, type, i) \in Seq(Notice) /\ Append(toClient[x], [type |-> type, id |-> i]) \in Seq(Notice)
      BY <2>1, ToldType
    <3>2. x = call[i].caller => Heard(i, type) \in Seq(Notice)
      BY <1>t, <2>1, <3>1 DEF Heard
    <3>3. PICK new \in Seq(Notice) : toClient' = [toClient EXCEPT ![x] = new]
      BY <1>e, <3>1, <3>2 DEF Emit
    <3> QED BY <1>t, <3>3
  <2>2. CASE x \notin User
    <3>1. toClient' = toClient
      BY <1>t, <1>e, <2>2 DEF Emit, Heard
    <3> QED BY <1>t, <3>1
  <2> QED BY <2>1, <2>2
<1>q. ASSUME NEW u \in User, toServer[u] # <<>>, toServer' = [toServer EXCEPT ![u] = Tail(@)]
      PROVE  toServer' \in [User -> Seq(Signal)] /\ Head(toServer[u]) \in Signal /\ Head(toServer[u]).id \in CallId
  <2>1. Head(toServer[u]) \in Signal /\ Tail(toServer[u]) \in Seq(Signal)
    BY <1>t, <1>q, HeadIs
  <2>2. Head(toServer[u]).id \in CallId
    BY <2>1 DEF Signal
  <2> QED BY <1>t, <1>q, <2>1, <2>2
<1>1. ASSUME NEW u \in User, Receive(u) PROVE Good
  <2> DEFINE m == Head(toServer[u])
  <2>1. /\ toServer' \in [User -> Seq(Signal)] /\ m.id \in CallId
        /\ UNCHANGED <<screen, timers, resets, link, placed, untimed, failed>>
    BY <1>1, <1>q DEF Receive
  <2>2. \/ UNCHANGED toClient
        \/ \E type \in {"accepted", "declined", "cancelled", "ended"} : Emit(PeerFor(m.id, u), type, m.id)
    BY <1>1 DEF Receive
  <2> HIDE DEF m
  <2>3. toClient' \in [User -> Seq(Notice)]
    <3>1. ASSUME NEW type \in {"accepted", "declined", "cancelled", "ended"}, Emit(PeerFor(m.id, u), type, m.id)
          PROVE  toClient' \in [User -> Seq(Notice)]
      <4> DEFINE x == PeerFor(m.id, u)
      <4>1. Emit(x, type, m.id)
        BY <3>1
      <4>2. m.id \in CallId /\ type \in {"accepted", "declined", "cancelled", "ended", "nack", "ring", "ack"}
        BY <2>1
      <4> HIDE DEF x
      <4>3. ASSUME NEW i \in CallId, i = m.id PROVE toClient' \in [User -> Seq(Notice)]
        BY <1>e, <4>1, <4>2, <4>3
      <4> QED BY <4>2, <4>3
    <3>2. CASE UNCHANGED toClient
      BY <1>t, <3>2
    <3> QED BY <2>2, <3>1, <3>2
  <2> QED BY <1>t, <2>1, <2>3
<1>2. ASSUME NEW u \in User, TooEarly(u) PROVE Good
  <2> DEFINE m == Head(toServer[u])
  <2>1. /\ toServer' \in [User -> Seq(Signal)] /\ m.id \in CallId
        /\ UNCHANGED <<screen, timers, resets, link, placed, untimed, failed>>
    BY <1>2, <1>q DEF TooEarly
  <2>2. Append(toClient[u], [type |-> "nack", id |-> m.id]) \in Seq(Notice)
    BY <2>1, ToldType
  <2>3. toClient' \in [User -> Seq(Notice)]
    BY <1>t, <1>2, <2>2 DEF TooEarly
  <2> QED BY <1>t, <2>1, <2>3
<1>3. ASSUME NEW u \in User, Checked(u) PROVE Good
  BY <1>t, <1>3 DEF Checked, client
<1>4. ASSUME NEW u \in User, Cut(u) PROVE Good
  <2>1. <<>> \in Seq(Signal) /\ <<>> \in Seq(Notice)
    OBVIOUS
  <2>2. screen[u].status = "ringing" => screen[u].id \in CallId
    BY SessionIs
  <2> QED BY <1>t, <1>4, <2>1, <2>2 DEF Cut, Fails, Mishap
<1>5. ASSUME NEW u \in User, Reconnect(u) PROVE Good
  BY <1>t, <1>5 DEF Reconnect
<1>6. ASSUME NEW i \in CallId, CheckRing(i) PROVE Good
  BY <1>t, <1>e, <1>6 DEF CheckRing
<1>7. ASSUME NEW i \in CallId, PutRing(i) PROVE Good
  <2>1. UNCHANGED <<screen, timers, resets, toServer, link, placed, untimed, failed>>
    BY <1>7 DEF PutRing
  <2>2. CASE toClient' = [toClient EXCEPT ![call[i].caller] = Heard(i, "nack")]
    BY <1>t, <1>e, <2>1, <2>2
  <2>3. CASE toClient' = [toClient EXCEPT ![call[i].callee] = Told(call[i].callee, "ring", i),
                                          ![call[i].caller] = Heard(i, "ack")]
    <3>1. call[i].callee \in User => Told(call[i].callee, "ring", i) \in Seq(Notice)
      BY ToldType
    <3>2. call[i].caller \in User => Heard(i, "ack") \in Seq(Notice)
      <4> SUFFICES ASSUME call[i].caller \in User PROVE Heard(i, "ack") \in Seq(Notice)
        OBVIOUS
      <4>1. Append(toClient[call[i].caller], [type |-> "ack", id |-> i]) \in Seq(Notice)
        BY ToldType
      <4> QED BY <1>t, <4>1 DEF Heard
    <3> DEFINE to == call[i].callee
               from == call[i].caller
               a == Told(to, "ring", i)
               b == Heard(i, "ack")
    <3>3. toClient' = [toClient EXCEPT ![to] = a, ![from] = b] /\ (to \in User => a \in Seq(Notice)) /\ (from \in User => b \in Seq(Notice))
      BY <2>3, <3>1, <3>2
    <3> HIDE DEF to, from, a, b
    <3>4. toClient' \in [User -> Seq(Notice)]
      BY <1>t, <3>3
    <3> QED BY <1>t, <2>1, <3>4
  <2> QED BY <1>7, <2>2, <2>3 DEF PutRing
<1>8. ASSUME NEW s \in Socket, DropNoticed(s) PROVE Good
  <2> DEFINE u == UserOf[s]
             gone == {i \in Up : call'[i].phase = "over"}
             peers == {PeerFor(i, u) : i \in CallsOf(u)}
  <2>1. /\ toClient' = [v \in User |-> IF v \in peers THEN Told(v, "ended", CHOOSE i \in gone : TRUE) ELSE toClient[v]]
        /\ UNCHANGED <<screen, timers, resets, toServer, link, placed, untimed, failed>>
    BY <1>8 DEF DropNoticed
  <2>2. peers # {} => gone # {}
    <3> SUFFICES ASSUME CallsOf(u) # {} PROVE gone # {}
      OBVIOUS
    <3>1. PICK ended \in EndedBy(CallsOf(u)) : call' = Over(ended) \/ sock[s] = "checking"
      BY <1>8 DEF DropNoticed, Drop, EndedBy
    <3>2. call' = Over(ended)
      BY <1>8, <3>1 DEF DropNoticed
    <3>3. PICK i \in CallsOf(u) : ended = {i}
      BY <3>1 DEF EndedBy, Oldest
    <3>4. i \in Up /\ i \in CallId /\ call'[i].phase = "over"
      BY <3>2, <3>3 DEF CallsOf, Up, Over, Gone, Fresh
    <3> QED BY <3>4
  <2>3. ASSUME NEW v \in User PROVE (IF v \in peers THEN Told(v, "ended", CHOOSE i \in gone : TRUE) ELSE toClient[v]) \in Seq(Notice)
    <3>1. CASE v \in peers
      <4>1. (CHOOSE i \in gone : TRUE) \in CallId
        BY <2>2, <3>1 DEF Up
      <4> QED BY <3>1, <4>1, ToldType
    <3> QED BY <1>t, <3>1
  <2>4. toClient' \in [User -> Seq(Notice)]
    <3> HIDE DEF peers, gone
    <3> QED BY <2>1, <2>3
  <2> QED BY <1>t, <2>1, <2>4
<1>9. ASSUME Wait PROVE Good
  <2>1. \A t \in Timer : [t EXCEPT !.left = IF @ = 0 THEN 0 ELSE @ - 1] \in Timer
    BY GatewayAssumption DEF Timer
  <2>2. \A u \in User : {[t EXCEPT !.left = IF @ = 0 THEN 0 ELSE @ - 1] : t \in timers[u]} \subseteq Timer
    BY <1>t, <2>1
  <2>3. timers' \in [User -> SUBSET Timer]
    BY <1>9, <2>2 DEF Wait, Countdown
  <2> QED BY <1>t, <1>9, <2>3 DEF Wait
<1> QED BY <1>1, <1>2, <1>3, <1>4, <1>5, <1>6, <1>7, <1>8, <1>9 DEF Handle

LEMMA CallsTypeStep ==
    ASSUME CallsTypeOK, [CallsNext]_all PROVE CallsTypeOK'
<1>1. TypeOK'
  BY CallsStepIsStep, GatewayTypeStep DEF CallsTypeOK
<1>t. /\ link \in [User -> Socket \cup {None}] /\ placed \subseteq CallId /\ untimed \subseteq CallId /\ failed \subseteq Mishap
      /\ toClient \in [User -> Seq(Notice)]
  BY DEF CallsTypeOK
<1>r. resets' \in [User -> Nat]
  BY ResetsType
<1>2. ASSUME NEW u \in User,
             \/ \E v \in User, i \in CallId : Place(u, v, i)
             \/ Press(u) \/ MicFails(u) \/ EndedOver(u) \/ MediaLost(u)
             \/ \E t \in timers[u] : TimerFires(u, t)
             \/ \E v \in User : MediaUp(u, v)
      PROVE  CallsTypeOK'
  BY <1>1, <1>t, <1>r, <1>2, OverlayTypeStep DEF CallsTypeOK
<1>3. ASSUME NEW u \in User, Deliver(u) PROVE CallsTypeOK'
  BY <1>1, <1>t, <1>r, <1>3, DeliverType DEF CallsTypeOK
<1>4. ASSUME \/ \E u \in User : Receive(u) \/ Checked(u) \/ Cut(u) \/ Reconnect(u) \/ TooEarly(u)
             \/ \E i \in CallId : Handle(i)
             \/ \E s \in Socket : DropNoticed(s)
             \/ Wait
      PROVE  CallsTypeOK'
  BY <1>1, <1>t, <1>r, <1>4, GatewaySideType DEF CallsTypeOK
<1>5. CASE UNCHANGED all
  BY <1>1, <1>5 DEF CallsTypeOK, all, client
<1> QED BY <1>2, <1>3, <1>4, <1>5 DEF CallsNext, Move

\* Screens, timers, channels and the gateway behind them keep their type.
THEOREM CallsTypeCorrect == CallsSpec => []CallsTypeOK
<1> QED BY CallsInitType, CallsTypeStep, PTL DEF CallsSpec

-----------------------------------------------------------------------------
\* No microphone goes to a call that was not accepted.  What holds it up: the
\* "accepted" events under way are about accepted calls.

AcceptedOnly(q, ids) == \A k \in DOMAIN q : q[k].type = "accepted" => q[k].id \in ids
AcceptedTold == \A u \in User : AcceptedOnly(toClient[u], accepted)

LEMMA AcceptedOnlyKeeps ==
    ASSUME NEW q \in Seq(Notice), NEW ids, NEW more, ids \subseteq more, AcceptedOnly(q, ids)
    PROVE  /\ AcceptedOnly(q, more) /\ AcceptedOnly(<<>>, more)
           /\ q # <<>> => /\ AcceptedOnly(Tail(q), more)
                          /\ Head(q).type = "accepted" => Head(q).id \in ids
           /\ \A m : (m.type = "accepted" => m.id \in more) => AcceptedOnly(Append(q, m), more)
BY DEF AcceptedOnly

LEMMA AcceptedGrows == ASSUME [Next]_vars PROVE accepted \subseteq accepted'
BY DEF Next, vars, Connect, Admit, Refuse, Drop, RingAsk, RingCheck, RingPut, Accept, Decline, Cancel,
       EndCall, Tick

\* What the gateway emits is appended, and is "accepted" only for an accepted call.
LEMMA AcceptedToldStep ==
    ASSUME CallsTypeOK, AcceptedTold, [CallsNext]_all PROVE AcceptedTold'
<1>g. accepted \subseteq accepted'
  BY CallsStepIsStep, AcceptedGrows
<1>t. toClient \in [User -> Seq(Notice)]
  BY DEF CallsTypeOK
<1>k. ASSUME NEW x \in User
      PROVE  /\ AcceptedOnly(toClient[x], accepted') /\ AcceptedOnly(<<>>, accepted')
             /\ toClient[x] # <<>> => AcceptedOnly(Tail(toClient[x]), accepted')
             /\ \A m : (m.type = "accepted" => m.id \in accepted') => AcceptedOnly(Append(toClient[x], m), accepted')
  <2>1. toClient[x] \in Seq(Notice) /\ AcceptedOnly(toClient[x], accepted)
    BY <1>t DEF AcceptedTold
  <2> QED BY <1>g, <2>1, AcceptedOnlyKeeps
<1>s. ASSUME toClient' = toClient PROVE AcceptedTold'
  BY <1>k, <1>s DEF AcceptedTold
<1>a. ASSUME NEW x, NEW new, toClient' = [toClient EXCEPT ![x] = new], x \in User => AcceptedOnly(new, accepted')
      PROVE  AcceptedTold'
  BY <1>t, <1>k, <1>a DEF AcceptedTold
<1>n. ASSUME NEW x \in User, NEW i, NEW type, type = "accepted" => i \in accepted'
      PROVE  /\ AcceptedOnly(Told(x, type, i), accepted')
             /\ AcceptedOnly(Append(toClient[x], [type |-> type, id |-> i]), accepted')
  BY <1>k, <1>n DEF Told
<1>1. ASSUME NEW u \in User, Receive(u) PROVE AcceptedTold'
  <2> DEFINE i == Head(toServer[u]).id
             x == PeerFor(i, u)
  <2>1. \/ UNCHANGED toClient
        \/ Emit(x, "accepted", i) /\ i \in accepted'
        \/ \E type \in {"declined", "cancelled", "ended"} : Emit(x, type, i)
    BY <1>1 DEF Receive, Accept
  <2> HIDE DEF i, x
  <2>2. CASE Emit(x, "accepted", i) /\ i \in accepted'
    <3>1. x \in User => AcceptedOnly(Told(x, "accepted", i), accepted')
      BY <1>n, <2>2
    <3> QED BY <1>a, <2>2, <3>1 DEF Emit
  <2>3. ASSUME NEW type \in {"declined", "cancelled", "ended"}, Emit(x, type, i) PROVE AcceptedTold'
    <3>1. x \in User => AcceptedOnly(Told(x, type, i), accepted')
      BY <1>n
    <3> QED BY <1>a, <2>3, <3>1 DEF Emit
  <2> QED BY <1>s, <2>1, <2>2, <2>3
<1>2. ASSUME NEW u \in User, Deliver(u) PROVE AcceptedTold'
  BY <1>a, <1>k, <1>2 DEF Deliver
<1>3. ASSUME NEW u \in User, TooEarly(u) PROVE AcceptedTold'
  <2> DEFINE i == Head(toServer[u]).id
  <2>1. toClient' = toClient \/ toClient' = [toClient EXCEPT ![u] = Append(toClient[u], [type |-> "nack", id |-> i])]
    BY <1>3 DEF TooEarly
  <2> HIDE DEF i
  <2>2. AcceptedOnly(Append(toClient[u], [type |-> "nack", id |-> i]), accepted')
    BY <1>n
  <2> QED BY <1>s, <1>a, <2>1, <2>2
<1>4. ASSUME NEW u \in User, Cut(u) PROVE AcceptedTold'
  BY <1>a, <1>k, <1>4 DEF Cut
<1>h. ASSUME NEW i \in CallId, NEW type \in {"ack", "nack"}, call[i].caller \in User
      PROVE  AcceptedOnly(Heard(i, type), accepted')
  BY <1>k, <1>n, <1>h DEF Heard
<1>5. ASSUME NEW i \in CallId, CheckRing(i) PROVE AcceptedTold'
  BY <1>s, <1>a, <1>h, <1>5 DEF CheckRing
<1>6. ASSUME NEW i \in CallId, PutRing(i) PROVE AcceptedTold'
  <2> DEFINE to == call[i].callee
             from == call[i].caller
             a == Told(to, "ring", i)
             b == Heard(i, "ack")
  <2>1. toClient' = [toClient EXCEPT ![from] = Heard(i, "nack")] \/ toClient' = [toClient EXCEPT ![to] = a, ![from] = b]
    BY <1>6 DEF PutRing
  <2>2. (to \in User => AcceptedOnly(a, accepted')) /\ (from \in User => AcceptedOnly(b, accepted'))
    BY <1>n, <1>h
  <2>3. CASE toClient' = [toClient EXCEPT ![from] = Heard(i, "nack")]
    BY <1>a, <1>h, <2>3
  <2>4. CASE toClient' = [toClient EXCEPT ![to] = a, ![from] = b]
    <3> HIDE DEF to, from, a, b
    <3> QED BY <1>t, <1>k, <2>2, <2>4 DEF AcceptedTold
  <2> QED BY <2>1, <2>3, <2>4
<1>7. ASSUME NEW s \in Socket, DropNoticed(s) PROVE AcceptedTold'
  <2> DEFINE gone == {i \in Up : call'[i].phase = "over"}
             peers == {PeerFor(i, UserOf[s]) : i \in CallsOf(UserOf[s])}
             i == CHOOSE i \in gone : TRUE
  <2>2. toClient' = [v \in User |-> IF v \in peers THEN Told(v, "ended", i) ELSE toClient[v]]
    BY <1>7 DEF DropNoticed
  <2> HIDE DEF peers, i
  <2>3. \A v \in User : AcceptedOnly(Told(v, "ended", i), accepted')
    BY <1>n
  <2> QED BY <1>t, <1>k, <2>2, <2>3 DEF AcceptedTold
<1>8. CASE toClient' = toClient
  BY <1>s, <1>8
<1> QED BY <1>1, <1>2, <1>3, <1>4, <1>5, <1>6, <1>7, <1>8
        DEF CallsNext, Move, Handle, Place, Press, MicFails, MediaLost, EndedOver, TimerFires, MediaUp,
            Checked, Reconnect, Wait, all, client

\* A caller's overlay starts to connect on an "accepted" event only.
LEMMA TalkingStep ==
    ASSUME CallsTypeOK, AcceptedTold, TalkingWasAccepted, [CallsNext]_all PROVE TalkingWasAccepted'
<1> DEFINE Talks(x) == x.mode = "out" /\ x.status \in {"connecting", "active"}
<1>g. accepted \subseteq accepted'
  BY CallsStepIsStep, AcceptedGrows
<1>t. screen \in [User -> Screen] /\ toClient \in [User -> Seq(Notice)]
  BY DEF CallsTypeOK
<1>w. ASSUME NEW u \in User, NEW new, Show(u, new), Talks(new) => new.id \in accepted'
      PROVE  TalkingWasAccepted'
  BY <1>g, <1>t, <1>w DEF Show, TalkingWasAccepted
<1>s. ASSUME screen' = screen PROVE TalkingWasAccepted'
  BY <1>g, <1>s DEF TalkingWasAccepted
<1>x. ASSUME NEW u \in User, NEW st, NEW r
      PROVE  LET x == screen[u] IN
             /\ [x EXCEPT !.status = st].mode = x.mode /\ [x EXCEPT !.status = st].status = st
             /\ [x EXCEPT !.status = st].id = x.id
             /\ [x EXCEPT !.status = st, !.reason = r].status = st
             /\ [x EXCEPT !.acked = TRUE].mode = x.mode /\ [x EXCEPT !.acked = TRUE].status = x.status
             /\ [x EXCEPT !.acked = TRUE].id = x.id
  <2>1. screen[u] \in Screen
    BY <1>t
  <2> QED BY <2>1 DEF Screen, NoSession
<1>c. ASSUME NEW u \in User, Forget(u) \/ Show(u, Idle(u)) \/ Reset(u) \/ (\E r : Show(u, LastFrame(u, r)) \/ Teardown(u, r))
      PROVE  TalkingWasAccepted'
  <2>1. ~Talks(NoSession)
    BY DEF NoSession
  <2>2. CASE Forget(u)
    BY <1>w, <2>1, <2>2 DEF Forget
  <2>3. ASSUME NEW st \in {"idle", "ended"}, NEW r, Show(u, [screen[u] EXCEPT !.status = st, !.reason = r])
        PROVE  TalkingWasAccepted'
    <3>1. ~Talks([screen[u] EXCEPT !.status = st, !.reason = r])
      BY <1>x
    <3> QED BY <1>w, <2>3, <3>1
  <2> QED BY <1>c, <2>2, <2>3 DEF Reset, Teardown, Idle, LastFrame
<1>1. ASSUME NEW u \in User, NEW v \in User, NEW i \in CallId, Place(u, v, i) PROVE TalkingWasAccepted'
  BY <1>w, <1>1 DEF Place
<1>2. ASSUME NEW u \in User, Press(u) PROVE TalkingWasAccepted'
  <2>1. CASE screen[u].mode = "in" /\ Show(u, [screen[u] EXCEPT !.status = "connecting"])
    BY <1>w, <1>x, <2>1
  <2> QED BY <1>c, <1>2, <2>1 DEF Press
<1>3. ASSUME NEW u \in User, MicFails(u) \/ EndedOver(u) \/ MediaLost(u) PROVE TalkingWasAccepted'
  BY <1>c, <1>3 DEF MicFails, EndedOver, MediaLost
<1>4. ASSUME NEW u \in User, NEW t \in timers[u], TimerFires(u, t) PROVE TalkingWasAccepted'
  BY <1>c, <1>s, <1>4 DEF TimerFires
<1>5. ASSUME NEW u \in User, NEW v \in User, MediaUp(u, v) PROVE TalkingWasAccepted'
  <2>1. screen[u].id \in accepted /\ screen[v].mode = "in" /\ u # v
    BY <1>5 DEF MediaUp, TalkingWasAccepted
  <2>2. /\ screen'[u].id = screen[u].id /\ screen'[v].mode = "in"
        /\ \A w \in User \ {u, v} : screen'[w] = screen[w]
    <3> DEFINE a == [screen[u] EXCEPT !.status = "active"]
               b == [screen[v] EXCEPT !.status = "active"]
    <3>1. screen' = [screen EXCEPT ![u] = a, ![v] = b] /\ a.id = screen[u].id /\ b.mode = "in"
      BY <1>5, <1>t, <1>x, <2>1 DEF MediaUp
    <3> HIDE DEF a, b
    <3> QED BY <1>t, <2>1, <3>1
  <2> QED BY <1>g, <2>1, <2>2 DEF TalkingWasAccepted
<1>6. ASSUME NEW u \in User, Deliver(u) PROVE TalkingWasAccepted'
  <2> DEFINE m == Head(toClient[u])
  <2>0. m.type = "accepted" => m.id \in accepted
    <3>1. toClient[u] \in Seq(Notice) /\ AcceptedOnly(toClient[u], accepted) /\ toClient[u] # <<>>
      BY <1>t, <1>6 DEF AcceptedTold, Deliver
    <3> QED BY <3>1, AcceptedOnlyKeeps
  <2> HIDE DEF m
  <2>1. CASE OnRing(u, m.id)
    BY <1>w, <1>s, <2>1 DEF OnRing
  <2>2. CASE OnAck(u, m.id)
    <3>1. CASE screen' = [screen EXCEPT ![u].acked = TRUE]
      <4>1. Show(u, [screen[u] EXCEPT !.acked = TRUE])
        BY <3>1 DEF Show
      <4>2. Talks(screen[u]) => screen[u].id \in accepted'
        BY <1>g DEF TalkingWasAccepted
      <4> QED BY <1>w, <1>x, <4>1, <4>2
    <3> QED BY <1>s, <2>2, <3>1 DEF OnAck
  <2>3. CASE Teardown(u, "failed") \/ OnOver(u, m) \/ IgnoreEvent
    BY <1>c, <1>s, <2>3 DEF OnOver, IgnoreEvent
  <2>4. CASE m.type = "accepted" /\ m.id = screen[u].id /\ Show(u, [screen[u] EXCEPT !.status = "connecting"])
    <3>1. [screen[u] EXCEPT !.status = "connecting"].id \in accepted'
      BY <1>g, <1>x, <2>0, <2>4
    <3> QED BY <1>w, <2>4, <3>1
  <2> QED BY <1>6, <2>1, <2>2, <2>3, <2>4 DEF Deliver, Concerns, m
<1>7. CASE screen' = screen
  BY <1>s, <1>7
<1> QED BY <1>1, <1>2, <1>3, <1>4, <1>5, <1>6, <1>7
        DEF CallsNext, Move, Handle, Receive, CheckRing, PutRing, DropNoticed, Cut, TooEarly,
            Checked, Reconnect, Wait, all, client

\* Whatever was given up, placed again and answered late, and whichever connection
\* was cut: no caller's microphone goes to a call its callee did not accept.
THEOREM TalkingAccepted == CallsSpec => []TalkingWasAccepted
<1> DEFINE TalkingInv == AcceptedTold /\ TalkingWasAccepted
<1>1. ASSUME CallsInit PROVE TalkingInv
  <2>1. \A u \in User : screen[u] = NoSession /\ toClient[u] = <<>>
    BY <1>1 DEF CallsInit
  <2>2. AcceptedOnly(<<>>, accepted) /\ NoSession.mode = "none"
    BY DEF AcceptedOnly, NoSession
  <2>3. AcceptedTold
    BY <2>1, <2>2, Zenon DEF AcceptedTold
  <2> QED BY <2>1, <2>2, <2>3 DEF TalkingWasAccepted
<1>2. CallsTypeOK /\ TalkingInv /\ [CallsNext]_all => TalkingInv'
  BY AcceptedToldStep, TalkingStep
<1> QED BY <1>1, <1>2, CallsTypeCorrect, PTL DEF CallsSpec

-----------------------------------------------------------------------------
\* The messages of a conversation.

LEMMA PayloadType ==
    ASSUME NEW rows \in [Msg -> Row], NEW m \in Msg, NEW u
    PROVE  Payload(rows, m, u) \in View
<1>1. rows[m].by \in SUBSET Member /\ rows[m].deleted \in BOOLEAN /\ rows[m].body \in Body
  BY DEF Row
<1>2. (IF rows[m].deleted THEN "none" ELSE rows[m].body) \in Body
  BY <1>1 DEF Body
<1>3. (u \in rows[m].by) \in BOOLEAN
  OBVIOUS
<1> QED BY <1>1, <1>2, <1>3 DEF Payload, View

LEMMA HistoryType ==
    ASSUME row \in [Msg -> Row], NEW u
    PROVE  History(u) \in [Msg -> View]
BY PayloadType DEF History, View

LEMMA AppliedType ==
    ASSUME NEW old \in View, NEW op \in Op, NEW view \in View
    PROVE  Applied(old, op, view) \in View
<1>1. ASSUME NEW x \in View PROVE x.by \in SUBSET Member /\ x.mine \in BOOLEAN
  <2>1. CASE x = NoView
    BY <2>1 DEF NoView
  <2>2. CASE x # NoView
    BY <1>1, <2>2 DEF View
  <2> QED BY <2>1, <2>2
<1>2. ASSUME old # NoView PROVE [old EXCEPT !.deleted = TRUE, !.body = "none"] \in View
  BY <1>2 DEF View, Body
<1>3. ASSUME old # NoView PROVE [old EXCEPT !.by = view.by, !.mine = view.mine] \in View
  <2>1. view.by \in SUBSET Member /\ view.mine \in BOOLEAN
    BY <1>1
  <2> QED BY <1>3, <2>1 DEF View
<1>4. op \in {"toggle", "unreact"} => Applied(old, op, view) \in View
  <2>1. op \in {"toggle", "unreact"} /\ old # NoView
           => Applied(old, op, view) = [old EXCEPT !.by = view.by, !.mine = view.mine]
    BY DEF Applied
  <2>2. op \in {"toggle", "unreact"} /\ old = NoView => Applied(old, op, view) = NoView
    BY DEF Applied
  <2> QED BY <1>3, <2>1, <2>2 DEF View
<1>5. op \in {"send", "edit", "delete_me"} => Applied(old, op, view) \in View
  BY DEF Applied, View
<1>6. op = "delete_all" => Applied(old, op, view) \in View
  <2>1. op = "delete_all" /\ old # NoView => Applied(old, op, view) = [old EXCEPT !.deleted = TRUE, !.body = "none"]
    BY DEF Applied
  <2>2. op = "delete_all" /\ old = NoView => Applied(old, op, view) = NoView
    BY DEF Applied
  <2> QED BY <1>2, <2>1, <2>2 DEF View
<1> QED BY <1>4, <1>5, <1>6 DEF Op

LEMMA UpdatedType ==
    ASSUME NEW old \in Row, NEW op \in {"edit", "delete_all", "delete_me"}
    PROVE  Updated(old, op) \in Row
BY DEF Updated, Row, Body

LEMMA RequestIs ==
    ASSUME MessagesTypeOK, NEW r \in Req
    PROVE  /\ req[r] \in Request
           /\ req[r].at # "free" => req[r].user \in Member /\ req[r].op \in Op /\ req[r].view \in View
           /\ req[r].at \in {"add", "drop", "emit", "reply"} => req[r].m \in Msg
           /\ req[r].at = "write" /\ req[r].op # "send" => req[r].m \in Msg
           /\ req[r].at = "reply" => req[r].user \in Viewer /\ req[r].op # "send"
           /\ req[r].at \in {"add", "drop"} => req[r].op # "send"
<1>1. req[r] \in Request
  BY DEF MessagesTypeOK
<1>2. NoView \in View /\ "send" \in Op
  BY DEF View, Op
<1> QED BY <1>1, <1>2, MessagesAssumption DEF Request, Free

LEMMA RequestFields ==
    ASSUME NEW c \in Request
    PROVE  c \in [at : {c.at}, op : {c.op}, user : {c.user}, m : {c.m}, view : {c.view}]
<1>1. CASE c = Free
  BY <1>1 DEF Free
<1>2. ASSUME NEW A, NEW O, NEW U, NEW M, NEW V, c \in [at : A, op : O, user : U, m : M, view : V]
      PROVE  c \in [at : {c.at}, op : {c.op}, user : {c.user}, m : {c.m}, view : {c.view}]
  BY <1>2
<1> QED BY <1>1, <1>2 DEF Request

LEMMA RequestWith ==
    ASSUME NEW c \in Request, NEW m, NEW view
    PROVE  /\ [c EXCEPT !.at = "emit", !.m = m, !.view = view]
                \in [at : {"emit"}, op : {c.op}, user : {c.user}, m : {m}, view : {view}]
           /\ [c EXCEPT !.at = "emit", !.view = view]
                \in [at : {"emit"}, op : {c.op}, user : {c.user}, m : {c.m}, view : {view}]
<1> DEFINE A == {c.at}
           O == {c.op}
           U == {c.user}
           M == {c.m}
           V == {c.view}
<1>1. c \in [at : A, op : O, user : U, m : M, view : V]
  BY RequestFields
<1> HIDE DEF A, O, U, M, V
<1>2. /\ [c EXCEPT !.at = "emit", !.m = m, !.view = view] \in [at : {"emit"}, op : O, user : U, m : {m}, view : {view}]
      /\ [c EXCEPT !.at = "emit", !.view = view] \in [at : {"emit"}, op : O, user : U, m : M, view : {view}]
  BY <1>1
<1> QED BY <1>2 DEF O, U, M

\* A request keeps its user, its kind and its message while it goes on.
LEMMA RequestGoesOn ==
    ASSUME MessagesTypeOK, NEW r \in Req, NEW view \in View, NEW m \in Msg
    PROVE  /\ req[r].at # "free" => [req[r] EXCEPT !.at = "emit", !.m = m, !.view = view] \in Request
           /\ req[r].at \in {"add", "drop"} \/ (req[r].at = "write" /\ req[r].op # "send")
                => [req[r] EXCEPT !.at = "emit", !.view = view] \in Request
           /\ req[r].at = "emit" /\ req[r].user \in Viewer /\ req[r].op # "send"
                => [req[r] EXCEPT !.at = "reply"] \in Request
<1>1. req[r] \in Request
  BY DEF MessagesTypeOK
<1>2. req[r].at # "free" => [req[r] EXCEPT !.at = "emit", !.m = m, !.view = view] \in Request
  <2> SUFFICES ASSUME req[r].at # "free" PROVE [req[r] EXCEPT !.at = "emit", !.m = m, !.view = view] \in Request
    OBVIOUS
  <2>1. [req[r] EXCEPT !.at = "emit", !.m = m, !.view = view]
           \in [at : {"emit"}, op : {req[r].op}, user : {req[r].user}, m : {m}, view : {view}]
    BY <1>1, RequestWith
  <2>2. req[r].op \in Op /\ req[r].user \in Member
    BY RequestIs
  <2> QED BY <2>1, <2>2 DEF Request
<1>3. req[r].at \in {"add", "drop"} \/ (req[r].at = "write" /\ req[r].op # "send")
                => [req[r] EXCEPT !.at = "emit", !.view = view] \in Request
  <2> SUFFICES ASSUME req[r].at \in {"add", "drop"} \/ (req[r].at = "write" /\ req[r].op # "send")
               PROVE  [req[r] EXCEPT !.at = "emit", !.view = view] \in Request
    OBVIOUS
  <2>1. [req[r] EXCEPT !.at = "emit", !.view = view]
           \in [at : {"emit"}, op : {req[r].op}, user : {req[r].user}, m : {req[r].m}, view : {view}]
    BY <1>1, RequestWith
  <2>2. req[r].op \in Op /\ req[r].user \in Member /\ req[r].m \in Msg
    BY RequestIs
  <2> QED BY <2>1, <2>2 DEF Request
<1>4. req[r].at = "emit" /\ req[r].user \in Viewer /\ req[r].op # "send"
                => [req[r] EXCEPT !.at = "reply"] \in Request
  BY <1>1 DEF Request, Free
<1> QED BY <1>2, <1>3, <1>4

LEMMA MessagesInitType == MessagesInit => MessagesTypeOK
<1> SUFFICES ASSUME MessagesInit PROVE MessagesTypeOK
  OBVIOUS
<1> USE MessagesAssumption
<1>1. row \in [Msg -> Row]
  <2>1. NoRow \in Row /\ [NoRow EXCEPT !.sender = First, !.body = "text", !.reads = Member \ {First}] \in Row
    BY DEF NoRow, Row, Body
  <2> QED BY <2>1 DEF MessagesInit
<1>2. \A u \in Viewer : History(u) \in [Msg -> View]
  BY <1>1, HistoryType
<1>3. Free \in Request /\ <<>> \in Seq(Posted)
  BY DEF Request
<1>4. /\ overlapped \in BOOLEAN /\ room \in [Viewer -> Stage] /\ marking \in [Viewer -> BOOLEAN]
      /\ missed \in [Viewer -> SUBSET Msg] /\ ops \in [{"send", "other"} -> Nat]
  <2>1. missed = [u \in Viewer |-> {}] /\ marking = [u \in Viewer |-> FALSE] /\ overlapped = FALSE
        /\ room \in [Viewer -> Stage] /\ ops = [send |-> 0, other |-> 0]
    BY DEF MessagesInit
  <2>2. ops \in [{"send", "other"} -> Nat]
    BY <2>1
  <2>3. missed \in [Viewer -> SUBSET Msg]
    BY <2>1
  <2> QED BY <2>1, <2>2, <2>3
<1> QED BY <1>1, <1>2, <1>3, <1>4 DEF MessagesInit, MessagesTypeOK

\* Requests that arrive.
LEMMA ActType ==
    ASSUME MessagesTypeOK, NEW r \in Req, Act(r)
    PROVE  MessagesTypeOK'
<1> USE MessagesAssumption
<1>1. ops' \in [{"send", "other"} -> Nat] /\ overlapped' \in BOOLEAN
  <2>1. PICK kind \in {"send", "other"} : Arrives(r, kind)
    BY DEF Act, SendMessage, Edit, React, Delete
  <2>2. overlapped' \in BOOLEAN
    BY <2>1 DEF Arrives
  <2>3. ops' = [ops EXCEPT ![kind] = ops[kind] + 1]
    BY <2>1 DEF Arrives
  <2> QED BY <2>2, <2>3 DEF MessagesTypeOK
<1>2. UNCHANGED <<server, browser>>
  BY DEF Act, SendMessage, Edit, React, Delete
<1>e. ASSUME NEW c \in Request, req' = [req EXCEPT ![r] = c] PROVE req' \in [Req -> Request]
  BY <1>e DEF MessagesTypeOK
<1>3. req' \in [Req -> Request]
  <2>1. ASSUME NEW u \in Member, SendMessage(r, u) PROVE req' \in [Req -> Request]
    <3>1. CASE recent[u] # NoMsg /\ Enter(r, "emit", "send", u, recent[u],
                 [body |-> "text", deleted |-> FALSE, by |-> {}, mine |-> FALSE])
      <4>1. [body |-> "text", deleted |-> FALSE, by |-> {}, mine |-> FALSE] \in View /\ recent[u] \in Msg /\ "send" \in Op
        BY <3>1 DEF View, Body, MessagesTypeOK, Op
      <4> QED BY <1>e, <3>1, <4>1 DEF Enter, Request
    <3>2. CASE Enter(r, "write", "send", u, NoMsg, NoView)
      BY <1>e, <3>2 DEF Enter, Request
    <3> QED BY <2>1, <3>1, <3>2 DEF SendMessage
  <2>2. ASSUME NEW u \in Member, NEW m \in Msg, NEW at \in {"write", "add", "drop"},
               NEW op \in Op \ {"send"}, Enter(r, at, op, u, m, NoView)
        PROVE  req' \in [Req -> Request]
    BY <1>e, <2>2 DEF Enter, Request
  <2>3. ASSUME NEW u \in Member, NEW m \in Msg,
               \/ Edit(r, u, m) \/ React(r, u, m)
               \/ \E scope \in {"delete_all", "delete_me"} : Delete(r, u, m, scope)
        PROVE  req' \in [Req -> Request]
    <3>1. \E at \in {"write", "add", "drop"}, op \in Op \ {"send"} : Enter(r, at, op, u, m, NoView)
      BY <2>3 DEF Edit, React, Delete, Op
    <3> QED BY <2>2, <3>1
  <2> QED BY <2>1, <2>3 DEF Act
<1> QED BY <1>1, <1>2, <1>3 DEF MessagesTypeOK, server, browser

\* Requests that go on.
LEMMA ProgressType ==
    ASSUME MessagesTypeOK, NEW r \in Req, Progress(r)
    PROVE  MessagesTypeOK'
<1>t. /\ row \in [Msg -> Row] /\ req \in [Req -> Request] /\ recent \in [Member -> Msg \cup {NoMsg}]
      /\ inbox \in [Viewer -> Seq(Posted)] /\ cache \in [Viewer -> [Msg -> View]]
  BY DEF MessagesTypeOK
<1>r. ASSUME NEW c \in Request, req' = [req EXCEPT ![r] = c] PROVE req' \in [Req -> Request]
  BY <1>t, <1>r
<1>f. Free \in Request
  BY DEF Request
<1>1. CASE Write(r)
  <2> DEFINE m == req[r].m
             p == Payload(row', m, req[r].user)
  <2>1. m \in Msg /\ req[r].op \in {"edit", "delete_all", "delete_me"} /\ req[r].at = "write" /\ req[r].op # "send"
    BY <1>1, RequestIs DEF Write
  <2>2. Updated(row[m], req[r].op) \in Row
    BY <1>t, <2>1, UpdatedType
  <2>3. row' = [row EXCEPT ![m] = Updated(row[m], req[r].op)]
    BY <1>1 DEF Write
  <2>4. row' \in [Msg -> Row]
    BY <1>t, <2>2, <2>3
  <2>5. p \in View
    BY <2>1, <2>4, PayloadType
  <2>6. req' = [req EXCEPT ![r] = [req[r] EXCEPT !.at = "emit", !.view = p]]
    BY <1>1 DEF Write
  <2>7. req' \in [Req -> Request]
    <3> HIDE DEF m, p
    <3> QED BY <1>r, <2>1, <2>5, <2>6, RequestGoesOn
  <2> QED BY <1>1, <2>4, <2>7 DEF Write, MessagesTypeOK, browser
<1>2. CASE Create(r)
  <2> DEFINE u == req[r].user
  <2>1. PICK m \in Msg : /\ row' = [row EXCEPT ![m] = [NoRow EXCEPT !.sender = u, !.body = "text"]]
                         /\ recent' = [recent EXCEPT ![u] = m]
                         /\ req' = [req EXCEPT ![r].at = "emit", ![r].m = m, ![r].view = Payload(row', m, u)]
    BY <1>2 DEF Create
  <2>2. u \in Member /\ req[r].at # "free"
    BY <1>2, RequestIs DEF Create
  <2>3. [NoRow EXCEPT !.sender = u, !.body = "text"] \in Row
    BY <2>2 DEF NoRow, Row, Body
  <2>4. row' \in [Msg -> Row] /\ recent' \in [Member -> Msg \cup {NoMsg}]
    BY <1>t, <2>1, <2>2, <2>3
  <2> DEFINE p == Payload(row', m, u)
  <2>5. p \in View
    BY <2>4, PayloadType
  <2>6. req' = [req EXCEPT ![r] = [req[r] EXCEPT !.at = "emit", !.m = m, !.view = p]]
    BY <1>t, <2>1
  <2>7. req' \in [Req -> Request]
    <3> HIDE DEF p
    <3> QED BY <1>r, <2>2, <2>5, <2>6, RequestGoesOn
  <2> QED BY <1>2, <2>4, <2>7 DEF Create, MessagesTypeOK, browser
<1>3. CASE WriteReaction(r)
  <2> DEFINE m == req[r].m
             u == req[r].user
             by == IF req[r].at = "add" THEN row[m].by \cup {u} ELSE row[m].by \ {u}
             p == Payload(row', m, u)
  <2>1. /\ m \in Msg /\ u \in Member
        /\ req[r].at \in {"add", "drop"} \/ (req[r].at = "write" /\ req[r].op # "send")
    BY <1>3, RequestIs DEF WriteReaction
  <2>2. CASE req' = [req EXCEPT ![r] = Free] /\ UNCHANGED row
    <3>1. req' \in [Req -> Request]
      BY <1>r, <1>f, <2>2
    <3> QED BY <1>3, <2>2, <3>1 DEF WriteReaction, MessagesTypeOK, browser
  <2>3. CASE /\ row' = [row EXCEPT ![m].by = by]
             /\ req' = [req EXCEPT ![r].at = "emit", ![r].view = p]
    <3>1. by \in SUBSET Member /\ row[m] \in Row
      BY <1>t, <2>1 DEF Row
    <3>2. [row[m] EXCEPT !.by = by] \in Row
      BY <3>1 DEF Row
    <3>3. row' \in [Msg -> Row]
      BY <1>t, <2>3, <3>2
    <3>4. p \in View
      BY <2>1, <3>3, PayloadType
    <3>5. req' \in [Req -> Request]
      <4>1. req' = [req EXCEPT ![r] = [req[r] EXCEPT !.at = "emit", !.view = p]]
        BY <2>3
      <4> HIDE DEF m, p, u
      <4> QED BY <1>r, <2>1, <3>4, <4>1, RequestGoesOn
    <3> QED BY <1>3, <3>3, <3>5 DEF WriteReaction, MessagesTypeOK, browser
  <2> QED BY <1>3, <2>2, <2>3 DEF WriteReaction
<1>4. CASE EmitEvent(r)
  <2>0. req[r].at = "emit" /\ req[r].op \in Op /\ req[r].m \in Msg /\ req[r].view \in View /\ req[r].user \in Member
    BY <1>4, RequestIs DEF EmitEvent
  <2>1. req' \in [Req -> Request]
    <3>1. CASE req[r].user \in Viewer /\ req[r].op # "send"
      <4>1. [req[r] EXCEPT !.at = "reply"] \in Request
        BY <2>0, <3>1, RequestGoesOn
      <4> QED BY <1>4, <1>r, <3>1, <4>1 DEF EmitEvent
    <3> QED BY <1>4, <1>r, <1>f, <3>1 DEF EmitEvent
  <2>2. inbox' \in [Viewer -> Seq(Posted)]
    <3>1. Event(req[r]) \in Posted
      BY <2>0 DEF Event, Posted
    <3>2. \A u \in Viewer : Append(inbox[u], Event(req[r])) \in Seq(Posted)
      BY <1>t, <3>1
    <3> QED BY <1>4, <1>t, <3>2 DEF EmitEvent
  <2>3. missed' \in [Viewer -> SUBSET Msg]
    <3>1. \A u \in Viewer : News({Event(req[r])}, u) \subseteq Msg
      BY <2>0 DEF News, Event
    <3> QED BY <1>4, <3>1 DEF EmitEvent, MessagesTypeOK
  <2> QED BY <1>4, <2>1, <2>2, <2>3 DEF EmitEvent, MessagesTypeOK, server
<1>5. CASE Reply(r)
  <2> DEFINE q == req[r]
             old == cache[q.user][q.m]
             new == IF old # NoView /\ q.op \in {"edit", "delete_all", "delete_me"}
                    THEN q.view ELSE Applied(old, q.op, q.view)
  <2>1. q.user \in Viewer /\ q.m \in Msg /\ q.op \in Op /\ q.view \in View
    BY <1>5, RequestIs DEF Reply
  <2>2. old \in View
    BY <1>t, <2>1
  <2>3. Applied(old, q.op, q.view) \in View
    BY <2>1, <2>2, AppliedType
  <2>4. new \in View
    BY <2>1, <2>2, <2>3
  <2>5. cache' = [cache EXCEPT ![q.user][q.m] = new]
    BY <1>5 DEF Reply
  <2>6. cache' \in [Viewer -> [Msg -> View]]
    <3> HIDE DEF new, q
    <3> QED BY <1>t, <2>1, <2>4, <2>5
  <2>7. req' \in [Req -> Request]
    BY <1>5, <1>r, <1>f DEF Reply
  <2> QED BY <1>5, <2>6, <2>7 DEF Reply, MessagesTypeOK, server
<1> QED BY <1>1, <1>2, <1>3, <1>4, <1>5 DEF Progress

\* The browsers, the window of a repeated send and a step that does nothing.
LEMMA BrowserType ==
    ASSUME MessagesTypeOK,
           \/ \E u \in Member : WindowEnds(u)
           \/ \E u \in Viewer : \/ OnEvent(u) \/ MarkRead(u) \/ Poll(u) \/ PollDone(u)
                              \/ Connects(u) \/ Select(u) \/ JoinConversation(u) \/ SocketDrops(u)
           \/ UNCHANGED messageVars
    PROVE  MessagesTypeOK'
<1> USE DEF server
<1>t. /\ row \in [Msg -> Row] /\ recent \in [Member -> Msg \cup {NoMsg}]
      /\ inbox \in [Viewer -> Seq(Posted)] /\ cache \in [Viewer -> [Msg -> View]]
      /\ poll \in [Viewer -> {NoPoll} \cup [Msg -> View]]
      /\ room \in [Viewer -> Stage] /\ marking \in [Viewer -> BOOLEAN]
      /\ missed \in [Viewer -> SUBSET Msg]
  BY DEF MessagesTypeOK
<1>1. ASSUME NEW u \in Member, WindowEnds(u) PROVE MessagesTypeOK'
  BY <1>t, <1>1 DEF WindowEnds, MessagesTypeOK, browser
<1>2. ASSUME NEW u \in Viewer, OnEvent(u) PROVE MessagesTypeOK'
  <2> DEFINE e == Head(inbox[u])
  <2>1. e \in Posted /\ Tail(inbox[u]) \in Seq(Posted)
    BY <1>t, <1>2, HeadIs DEF OnEvent
  <2>2. e.m \in Msg /\ e.op \in Op /\ e.view \in View
    BY <2>1 DEF Posted
  <2>3. Applied(cache[u][e.m], e.op, e.view) \in View
    BY <1>t, <2>2, AppliedType
  <2>4. cache' = [cache EXCEPT ![u][e.m] = Applied(cache[u][e.m], e.op, e.view)]
    BY <1>2 DEF OnEvent
  <2>5. marking' \in [Viewer -> BOOLEAN]
    BY <1>t, <1>2 DEF OnEvent
  <2>6. inbox' \in [Viewer -> Seq(Posted)]
    BY <1>t, <1>2, <2>1 DEF OnEvent
  <2>7. cache' \in [Viewer -> [Msg -> View]]
    <3> HIDE DEF e
    <3> QED BY <1>t, <2>2, <2>3, <2>4
  <2> QED BY <1>2, <2>5, <2>6, <2>7 DEF OnEvent, MessagesTypeOK
<1>3. ASSUME NEW u \in Viewer, MarkRead(u) PROVE MessagesTypeOK'
  <2>1. \A x \in Row : [x EXCEPT !.reads = @ \cup {u}] \in Row
    BY MessagesAssumption DEF Row
  <2>2. row' \in [Msg -> Row]
    BY <1>t, <1>3, <2>1 DEF MarkRead
  <2> QED BY <1>t, <1>3, <2>2 DEF MarkRead, MessagesTypeOK
<1>4. ASSUME NEW u \in Viewer, Poll(u) PROVE MessagesTypeOK'
  <2>1. History(u) \in [Msg -> View]
    BY <1>t, HistoryType
  <2> QED BY <1>t, <1>4, <2>1 DEF Poll, MessagesTypeOK
<1>5. ASSUME NEW u \in Viewer, PollDone(u) PROVE MessagesTypeOK'
  BY <1>t, <1>5 DEF PollDone, Fetched, MessagesTypeOK
<1>6. ASSUME NEW u \in Viewer, SocketDrops(u) PROVE MessagesTypeOK'
  <2>1. <<>> \in Seq(Posted)
    OBVIOUS
  <2>2. News({inbox[u][i] : i \in DOMAIN inbox[u]}, u) \subseteq Msg
    <3>1. \A i \in DOMAIN inbox[u] : inbox[u][i] \in Posted
      BY <1>t, <1>6
    <3> QED BY <3>1 DEF News, Posted
  <2>3. missed' \in [Viewer -> SUBSET Msg] /\ room' \in [Viewer -> Stage]
    BY <1>t, <1>6, <2>2 DEF SocketDrops, Stage
  <2> QED BY <1>t, <1>6, <2>1, <2>3 DEF SocketDrops, MessagesTypeOK
<1>7. ASSUME NEW u \in Viewer, Connects(u) \/ Select(u) \/ JoinConversation(u) PROVE MessagesTypeOK'
  <2>1. room' \in [Viewer -> Stage] /\ marking' \in [Viewer -> BOOLEAN]
    BY <1>t, <1>7 DEF Connects, Select, JoinConversation, Stage
  <2> QED BY <1>t, <1>7, <2>1 DEF Connects, Select, JoinConversation, MessagesTypeOK
<1>8. CASE UNCHANGED messageVars
  BY <1>8 DEF messageVars, MessagesTypeOK
<1> QED BY <1>1, <1>2, <1>3, <1>4, <1>5, <1>6, <1>7, <1>8

\* Rows, requests, events, caches and polls keep their type.
THEOREM MessagesTypeCorrect == MessagesSpec => []MessagesTypeOK
<1>1. MessagesTypeOK /\ [MessagesNext]_messageVars => MessagesTypeOK'
  BY ActType, ProgressType, BrowserType DEF MessagesNext
<1> QED BY <1>1, MessagesInitType, PTL DEF MessagesSpec

(***************************************************************************)
(* Until requests overlap.  A deleted message keeps no body: what upholds  *)
(* it is that a request is alone from its check to its statement, so that  *)
(* an edit still finds the message undeleted.                              *)
(***************************************************************************)
OneRequest   == \A r, o \in Req : req[r].at # "free" /\ req[o].at # "free" => r = o
EditsCurrent == \A r \in Req : req[r].at = "write" /\ req[r].op = "edit" => ~row[req[r].m].deleted
Bodiless     == \A m \in Msg : row[m].deleted => row[m].body = "none"
DeletedInv   == ~overlapped => OneRequest /\ EditsCurrent /\ Bodiless

LEMMA OverlapStays == ASSUME overlapped, [MessagesNext]_messageVars PROVE overlapped'
<1>1. ASSUME NEW r \in Req, Act(r) PROVE overlapped'
  BY <1>1 DEF Act, SendMessage, Edit, Delete, React, Arrives
<1> QED BY <1>1 DEF MessagesNext, Progress, Write, Create, WriteReaction, EmitEvent, Reply, WindowEnds, OnEvent,
                    MarkRead, Poll, PollDone, Connects, Select, JoinConversation, SocketDrops, browser, server, messageVars

\* Nobody else is under way when a request arrives or goes on.
LEMMA Lonely ==
    ASSUME MessagesTypeOK, NEW r \in Req, NEW c, req' = [req EXCEPT ![r] = c],
           \A o \in Req \ {r} : req[o].at = "free"
    PROVE  /\ OneRequest' /\ req'[r] = c
           /\ \A o \in Req \ {r} : req'[o].at = "free"
BY DEF MessagesTypeOK, OneRequest

LEMMA DeletedStep ==
    ASSUME MessagesTypeOK, OneRequest, EditsCurrent, Bodiless, ~overlapped', [MessagesNext]_messageVars
    PROVE  OneRequest' /\ EditsCurrent' /\ Bodiless'
<1>t. row \in [Msg -> Row] /\ req \in [Req -> Request]
  BY DEF MessagesTypeOK
<1>a. ASSUME NEW r \in Req, NEW c, req' = [req EXCEPT ![r] = c], \A o \in Req \ {r} : req[o].at = "free",
             Bodiless', c.at = "write" /\ c.op = "edit" => ~row'[c.m].deleted
      PROVE  OneRequest' /\ EditsCurrent' /\ Bodiless'
  <2>1. OneRequest' /\ req'[r] = c /\ \A o \in Req \ {r} : req'[o].at = "free"
    BY <1>a, Lonely
  <2> QED BY <1>a, <2>1 DEF EditsCurrent
<1>o. ASSUME NEW r \in Req, req[r].at # "free" PROVE \A o \in Req \ {r} : req[o].at = "free"
  BY <1>o DEF OneRequest
<1>1. ASSUME NEW r \in Req, Act(r) PROVE OneRequest' /\ EditsCurrent' /\ Bodiless'
  <2>1. (\A o \in Req \ {r} : req[o].at = "free") /\ row' = row
    BY <1>1 DEF Act, SendMessage, Edit, Delete, React, Arrives, server
  <2>2. Bodiless'
    BY <2>1 DEF Bodiless
  <2>3. \E c : req' = [req EXCEPT ![r] = c] /\ (c.at = "write" /\ c.op = "edit" => ~row[c.m].deleted)
    <3>1. ASSUME NEW u, NEW m, Edit(r, u, m)
          PROVE  \E c : req' = [req EXCEPT ![r] = c] /\ (c.at = "write" /\ c.op = "edit" => ~row[c.m].deleted)
      <4>1. ~row[m].deleted /\ req' = [req EXCEPT ![r] = [at |-> "write", op |-> "edit", user |-> u, m |-> m, view |-> NoView]]
        BY <3>1 DEF Edit, Enter
      <4> DEFINE c == [at |-> "write", op |-> "edit", user |-> u, m |-> m, view |-> NoView]
      <4>2. c.m = m /\ req' = [req EXCEPT ![r] = c]
        BY <4>1
      <4> HIDE DEF c
      <4> QED BY <4>1, <4>2
    <3>2. ASSUME NEW at, NEW op, NEW u, NEW m, NEW view, Enter(r, at, op, u, m, view), op # "edit"
          PROVE  \E c : req' = [req EXCEPT ![r] = c] /\ (c.at = "write" /\ c.op = "edit" => ~row[c.m].deleted)
      <4> DEFINE c == [at |-> at, op |-> op, user |-> u, m |-> m, view |-> view]
      <4>1. req' = [req EXCEPT ![r] = c] /\ c.op # "edit"
        BY <3>2 DEF Enter
      <4> HIDE DEF c
      <4> QED BY <4>1
    <3>3. \/ \E u, m : Edit(r, u, m)
          \/ \E at, op, u, m, view : Enter(r, at, op, u, m, view) /\ op # "edit"
      BY <1>1 DEF Act, SendMessage, Delete, React
    <3> QED BY <3>1, <3>2, <3>3
  <2> QED BY <1>a, <2>1, <2>2, <2>3
<1>2. ASSUME NEW r \in Req, Write(r) PROVE OneRequest' /\ EditsCurrent' /\ Bodiless'
  <2> DEFINE m == req[r].m
             p == Payload(row', m, req[r].user)
  <2>1. m \in Msg /\ req[r].op \in {"edit", "delete_all", "delete_me"} /\ req[r].at = "write"
    BY <1>2, RequestIs DEF Write
  <2>2. row' = [row EXCEPT ![m] = Updated(row[m], req[r].op)] /\ row[m] \in Row
    BY <1>2, <1>t, <2>1 DEF Write
  <2>3. req[r].op = "edit" => ~row[m].deleted
    BY <2>1 DEF EditsCurrent
  <2>4. Updated(row[m], req[r].op).deleted => Updated(row[m], req[r].op).body = "none"
    <3>1. row[m].deleted => row[m].body = "none"
      BY <2>1 DEF Bodiless
    <3>2. ASSUME NEW old \in Row, old.deleted => old.body = "none",
                 NEW op \in {"edit", "delete_all", "delete_me"}, op = "edit" => ~old.deleted
          PROVE  Updated(old, op).deleted => Updated(old, op).body = "none"
      BY <3>2 DEF Updated, Row
    <3> HIDE DEF m
    <3> QED BY <2>1, <2>2, <2>3, <3>1, <3>2
  <2>5. Bodiless'
    <3> HIDE DEF m
    <3> QED BY <1>t, <2>1, <2>2, <2>4 DEF Bodiless
  <2> DEFINE c == [req[r] EXCEPT !.at = "emit", !.view = p]
  <2>6. req' = [req EXCEPT ![r] = c]
    BY <1>2 DEF Write
  <2>7. c.at = "emit"
    BY <1>t, RequestWith
  <2> HIDE DEF c
  <2> QED BY <1>a, <1>o, <2>1, <2>5, <2>6, <2>7
<1>3. ASSUME NEW r \in Req, Create(r) PROVE OneRequest' /\ EditsCurrent' /\ Bodiless'
  <2>1. PICK m \in Msg : /\ row' = [row EXCEPT ![m] = [NoRow EXCEPT !.sender = req[r].user, !.body = "text"]]
                         /\ req' = [req EXCEPT ![r].at = "emit", ![r].m = m, ![r].view = Payload(row', m, req[r].user)]
    BY <1>3 DEF Create
  <2>2. ~[NoRow EXCEPT !.sender = req[r].user, !.body = "text"].deleted
    BY DEF NoRow
  <2>3. Bodiless'
    BY <1>t, <2>1, <2>2 DEF Bodiless
  <2> DEFINE p == Payload(row', m, req[r].user)
             c == [req[r] EXCEPT !.at = "emit", !.m = m, !.view = p]
  <2>4. req' = [req EXCEPT ![r] = c] /\ req[r].at = "write"
    BY <1>3, <1>t, <2>1 DEF Create
  <2>5. c.at = "emit"
    BY <1>t, RequestWith
  <2> HIDE DEF c
  <2> QED BY <1>a, <1>o, <2>3, <2>4, <2>5
<1>4. ASSUME NEW r \in Req, WriteReaction(r) PROVE OneRequest' /\ EditsCurrent' /\ Bodiless'
  <2> DEFINE m == req[r].m
             p == Payload(row', m, req[r].user)
             c == [req[r] EXCEPT !.at = "emit", !.view = p]
  <2>1. m \in Msg /\ req[r].at # "free"
    BY <1>4, RequestIs DEF WriteReaction
  <2>2. row' = row \/ \E by : row' = [row EXCEPT ![m].by = by]
    BY <1>4 DEF WriteReaction
  <2>3. Bodiless'
    BY <1>t, <2>1, <2>2 DEF Bodiless, Row
  <2>4. req' = [req EXCEPT ![r] = Free] \/ req' = [req EXCEPT ![r] = c]
    BY <1>4 DEF WriteReaction
  <2>5. c.at = "emit" /\ Free.at = "free"
    BY <1>t, RequestWith DEF Free
  <2> HIDE DEF c
  <2> QED BY <1>a, <1>o, <2>1, <2>3, <2>4, <2>5
<1>5. ASSUME NEW r \in Req, EmitEvent(r) \/ Reply(r) PROVE OneRequest' /\ EditsCurrent' /\ Bodiless'
  <2> DEFINE c == [req[r] EXCEPT !.at = "reply"]
  <2>1. row' = row /\ req[r].at # "free" /\ (req' = [req EXCEPT ![r] = Free] \/ req' = [req EXCEPT ![r] = c])
    BY <1>5 DEF EmitEvent, Reply, server
  <2>2. c.at = "reply" /\ Free.at = "free"
    <3>1. req[r] \in [at : {req[r].at}, op : {req[r].op}, user : {req[r].user}, m : {req[r].m}, view : {req[r].view}]
      BY <1>t, RequestFields
    <3> QED BY <3>1 DEF Free
  <2>3. Bodiless'
    BY <2>1 DEF Bodiless
  <2> HIDE DEF c
  <2> QED BY <1>a, <1>o, <2>1, <2>2, <2>3
<1>6. ASSUME NEW u \in Viewer, MarkRead(u) PROVE OneRequest' /\ EditsCurrent' /\ Bodiless'
  <2>1. \A m \in Msg : row'[m].deleted = row[m].deleted /\ row'[m].body = row[m].body
    BY <1>6, <1>t DEF MarkRead, Row
  <2>2. \A r \in Req : req[r].at = "write" /\ req[r].op = "edit" => req[r].m \in Msg
    BY RequestIs
  <2> QED BY <1>6, <2>1, <2>2 DEF MarkRead, OneRequest, EditsCurrent, Bodiless
<1>7. CASE UNCHANGED <<row, req>>
  BY <1>7 DEF OneRequest, EditsCurrent, Bodiless
<1> QED BY <1>1, <1>2, <1>3, <1>4, <1>5, <1>6, <1>7
        DEF MessagesNext, Progress, WindowEnds, OnEvent, Poll, PollDone, Connects, Select, JoinConversation,
            SocketDrops, server, messageVars

\* A message deleted for everyone keeps no body that a reply's preview could show,
\* until an edit and a deletion overlap.
THEOREM DeletedIsGone == MessagesSpec => []DeletedHasNoBody
<1>1. MessagesInit => DeletedInv
  <2> SUFFICES ASSUME MessagesInit PROVE DeletedInv
    OBVIOUS
  <2>1. \A r \in Req : req[r].at = "free"
    BY DEF MessagesInit, Free
  <2>2. \A m \in Msg : ~row[m].deleted
    BY DEF MessagesInit, NoRow
  <2> QED BY <2>1, <2>2 DEF DeletedInv, OneRequest, EditsCurrent, Bodiless
<1>2. MessagesTypeOK /\ DeletedInv /\ [MessagesNext]_messageVars => DeletedInv'
  BY DeletedStep, OverlapStays DEF DeletedInv
<1>3. DeletedInv => DeletedHasNoBody
  BY DEF DeletedInv, Bodiless, DeletedHasNoBody, Created
<1> QED BY <1>1, <1>2, <1>3, MessagesTypeCorrect, PTL DEF MessagesSpec

-----------------------------------------------------------------------------
\* The overshoot of the plan's limit.  What can still be created is counted with
\* what is: the sends that passed the limit and have not written yet.  A row is
\* never taken away, because whatever writes to a row writes to one that exists,
\* and leaves its sender.
Pending  == {r \in Req : req[r].at = "write" /\ req[r].op = "send"}
Authored == \A m \in Created : row[m].sender \in Member
Aimed    == \A r \in Req \ Pending : req[r].at # "free" => req[r].m \in Created
Repeats  == \A u \in Member : recent[u] # NoMsg => recent[u] \in Created
Counted  == /\ IsFiniteSet(Created)
            /\ Cardinality(Created) + Cardinality(Pending)
                 <= PlanLimit + (IF overlapped THEN Cardinality(Req) - 1 ELSE 0)
CountInv == Authored /\ Aimed /\ Repeats /\ Counted

\* A statement that keeps each row, or the sender of a row there is, creates none.
LEMMA RowsKept ==
    ASSUME Authored,
           \A m \in Msg : row'[m] = row[m] \/ (m \in Created /\ row'[m].sender = row[m].sender)
    PROVE  Created' = Created /\ Authored'
<1>1. NoRow.sender \notin Member
  BY MessagesAssumption DEF NoRow
<1>2. ASSUME NEW m \in Msg PROVE (row'[m] # NoRow <=> row[m] # NoRow)
  <2>1. CASE row'[m] = row[m]
    BY <2>1
  <2>2. CASE m \in Created /\ row'[m].sender = row[m].sender
    BY <1>1, <2>2 DEF Authored, Created
  <2> QED BY <2>1, <2>2
<1>3. Created' = Created
  BY <1>2 DEF Created
<1>4. \A m \in Created : m \in Msg
  BY DEF Created
<1> QED BY <1>3, <1>4 DEF Authored

LEMMA PendingIsFinite ==
    /\ IsFiniteSet(Req) /\ Cardinality(Req) \in Nat
    /\ IsFiniteSet(Pending) /\ Cardinality(Pending) \in Nat /\ Cardinality(Pending) <= Cardinality(Req)
<1>1. IsFiniteSet(Req) /\ Pending \subseteq Req
  BY MessagesAssumption DEF Pending
<1> QED BY <1>1, FS_Subset, FS_CardinalityType

\* No message more, no pending send more.
LEMMA CountedStays ==
    ASSUME MessagesTypeOK, MessagesTypeOK', Counted, Created' = Created, Pending' \subseteq Pending,
           overlapped => overlapped', Req # {}
    PROVE  Counted'
<1>1. IsFiniteSet(Pending) /\ Cardinality(Pending) \in Nat /\ Cardinality(Req) \in Nat /\ Cardinality(Req) # 0
  BY PendingIsFinite, FS_EmptySet
<1>2. Cardinality(Pending') \in Nat /\ Cardinality(Pending') <= Cardinality(Pending)
  BY <1>1, FS_Subset, FS_CardinalityType
<1>3. Cardinality(Created) \in Nat
  BY FS_CardinalityType DEF Counted
<1>4. overlapped \in BOOLEAN /\ overlapped' \in BOOLEAN /\ PlanLimit \in Nat
  BY MessagesAssumption DEF MessagesTypeOK
<1> DEFINE C == Cardinality(Created)
           P == Cardinality(Pending)
           Q == Cardinality(Pending')
           R == Cardinality(Req)
<1>5. C + P <= PlanLimit + (IF overlapped THEN R - 1 ELSE 0)
  BY DEF Counted
<1>6. C + Q <= PlanLimit + (IF overlapped' THEN R - 1 ELSE 0)
  <2> C \in Nat /\ P \in Nat /\ Q \in Nat /\ R \in Nat /\ R # 0 /\ Q <= P
    BY <1>1, <1>2, <1>3
  <2> HIDE DEF C, P, Q, R
  <2> QED BY <1>4, <1>5
<1> QED BY <1>6 DEF Counted

\* A request that becomes free, or goes on with a message there is.
LEMMA RequestMoves ==
    ASSUME MessagesTypeOK, MessagesTypeOK', CountInv, Created' = Created, Authored',
           recent' = recent, overlapped => overlapped',
           NEW r \in Req, NEW c, req' = [req EXCEPT ![r] = c],
           c.at = "free" \/ (c.m \in Created /\ ~(c.at = "write" /\ c.op = "send"))
    PROVE  CountInv'
<1>1. req'[r] = c /\ \A o \in Req \ {r} : req'[o] = req[o]
  BY DEF MessagesTypeOK
<1>2. Pending' = Pending \ {r}
  BY <1>1 DEF Pending
<1>3. Aimed' /\ Repeats'
  BY <1>1, <1>2 DEF Aimed, Repeats, CountInv
<1>4. Counted'
  BY <1>2, CountedStays DEF CountInv
<1> QED BY <1>3, <1>4 DEF CountInv

\* The sends that came before the limit was reached and have not written: at most
\* one for each slot, and none but this one when no request was in flight.
LEMMA SendCounted ==
    ASSUME MessagesTypeOK, MessagesTypeOK', CountInv, NEW r \in Req, NEW u \in Member, SendMessage(r, u)
    PROVE  CountInv'
<1>1. /\ req[r].at = "free" /\ row' = row /\ recent' = recent
      /\ overlapped' = (overlapped \/ \E o \in Req : req[o].at # "free")
  BY DEF SendMessage, Arrives, server
<1>2. Created' = Created /\ Authored'
  BY <1>1 DEF Created, Authored, CountInv
<1>3. overlapped \in BOOLEAN /\ overlapped' \in BOOLEAN /\ PlanLimit \in Nat
  BY MessagesAssumption DEF MessagesTypeOK
<1>4. ASSUME recent[u] # NoMsg,
             Enter(r, "emit", "send", u, recent[u], [body |-> "text", deleted |-> FALSE, by |-> {}, mine |-> FALSE])
      PROVE  CountInv'
  <2> DEFINE c == [at |-> "emit", op |-> "send", user |-> u, m |-> recent[u],
                   view |-> [body |-> "text", deleted |-> FALSE, by |-> {}, mine |-> FALSE]]
  <2>1. req' = [req EXCEPT ![r] = c] /\ c.at = "emit" /\ c.m = recent[u]
    BY <1>4 DEF Enter
  <2>2. c.m \in Created
    BY <1>4, <2>1 DEF CountInv, Repeats
  <2> HIDE DEF c
  <2> QED BY <1>1, <1>2, <2>1, <2>2, RequestMoves
<1>5. ASSUME WithinPlan, Enter(r, "write", "send", u, NoMsg, NoView)
      PROVE  CountInv'
  <2>1. /\ req'[r].at = "write" /\ req'[r].op = "send"
        /\ \A o \in Req \ {r} : req'[o] = req[o]
    BY <1>5 DEF Enter, MessagesTypeOK
  <2>2. Aimed' /\ Repeats'
    BY <1>1, <1>2, <2>1 DEF Aimed, Repeats, Pending, CountInv
  <2>3. Pending' \subseteq Req /\ (~overlapped' => Pending' = {r})
    BY <1>1, <1>3, <2>1 DEF Pending
  <2>4. /\ Cardinality(Pending') \in Nat /\ Cardinality(Pending') <= Cardinality(Req) /\ Cardinality(Req) \in Nat
        /\ ~overlapped' => Cardinality(Pending') = 1
    BY <2>3, PendingIsFinite, FS_Subset, FS_CardinalityType, FS_Singleton
  <2>5. Cardinality(Created) \in Nat /\ Cardinality(Created) < PlanLimit
    BY <1>5, FS_CardinalityType DEF WithinPlan, CountInv, Counted
  <2>6. Cardinality(Created) + Cardinality(Pending')
           <= PlanLimit + (IF overlapped' THEN Cardinality(Req) - 1 ELSE 0)
    BY <1>3, <2>4, <2>5
  <2>7. Counted'
    BY <1>2, <2>6 DEF CountInv, Counted
  <2> QED BY <1>2, <2>2, <2>7 DEF CountInv
<1> QED BY <1>4, <1>5 DEF SendMessage

\* A send that creates its message was counted already.
LEMMA CreateCounted ==
    ASSUME MessagesTypeOK, MessagesTypeOK', CountInv, NEW r \in Req, Create(r)
    PROVE  CountInv'
<1>1. PICK m \in Msg \ Created :
        /\ row' = [row EXCEPT ![m] = [NoRow EXCEPT !.sender = req[r].user, !.body = "text"]]
        /\ recent' = [recent EXCEPT ![req[r].user] = m]
        /\ req' = [req EXCEPT ![r].at = "emit", ![r].m = m, ![r].view = Payload(row', m, req[r].user)]
  BY DEF Create
<1>2. r \in Pending /\ overlapped' = overlapped
  BY DEF Create, Pending
<1>3. req[r].user \in Member /\ NoMsg \notin Member
  BY <1>2, RequestIs, MessagesAssumption DEF Pending
<1>4. row'[m].sender = req[r].user /\ \A n \in Msg \ {m} : row'[n] = row[n]
  BY <1>1 DEF MessagesTypeOK, NoRow
<1>5. row'[m] # NoRow
  BY <1>3, <1>4 DEF NoRow
<1>6. Created' = Created \cup {m}
  BY <1>4, <1>5 DEF Created
<1>7. Authored'
  BY <1>3, <1>4, <1>6 DEF CountInv, Authored, Created
<1>8. Repeats'
  BY <1>1, <1>6 DEF CountInv, Repeats, MessagesTypeOK
<1>9. req'[r].at = "emit" /\ req'[r].m = m /\ \A o \in Req \ {r} : req'[o] = req[o]
  <2> DEFINE c == [req[r] EXCEPT !.at = "emit", !.m = m, !.view = Payload(row', m, req[r].user)]
  <2>1. req' = [req EXCEPT ![r] = c]
    BY <1>1
  <2>2. c.at = "emit" /\ c.m = m
    BY RequestWith DEF MessagesTypeOK
  <2> HIDE DEF c
  <2> QED BY <2>1, <2>2 DEF MessagesTypeOK
<1>10. Pending' = Pending \ {r}
  BY <1>9 DEF Pending
<1>11. Aimed'
  BY <1>6, <1>9, <1>10 DEF CountInv, Aimed
<1>12. /\ IsFiniteSet(Created') /\ Cardinality(Created') = Cardinality(Created) + 1
       /\ Cardinality(Pending') = Cardinality(Pending) - 1
       /\ Cardinality(Created) \in Nat /\ Cardinality(Pending) \in Nat
  BY <1>1, <1>2, <1>6, <1>10, PendingIsFinite, FS_AddElement, FS_RemoveElement, FS_CardinalityType
     DEF CountInv, Counted
<1>13. Counted'
  BY <1>2, <1>12 DEF CountInv, Counted
<1> QED BY <1>7, <1>8, <1>11, <1>13 DEF CountInv

LEMMA CountStep ==
    ASSUME MessagesTypeOK, MessagesTypeOK', CountInv, [MessagesNext]_messageVars
    PROVE  CountInv'
<1>o. overlapped => overlapped'
  BY OverlapStays
<1>t. row \in [Msg -> Row] /\ row' \in [Msg -> Row] /\ req \in [Req -> Request]
  BY DEF MessagesTypeOK
<1>r. ASSUME NEW r \in Req, req[r].at # "free", r \notin Pending PROVE req[r].m \in Created
  BY <1>r DEF CountInv, Aimed
<1>w. ASSUME NEW r \in Req, NEW m \in Created, NEW new, new.sender = row[m].sender,
             row' = [row EXCEPT ![m] = new]
      PROVE  Created' = Created /\ Authored'
  <2>1. \A n \in Msg : row'[n] = row[n] \/ (n \in Created /\ row'[n].sender = row[n].sender)
    BY <1>t, <1>w DEF Created
  <2> QED BY <2>1, RowsKept DEF CountInv
<1>k. ASSUME row' = row PROVE Created' = Created /\ Authored'
  BY <1>k DEF Created, Authored, CountInv
<1>1. ASSUME NEW r \in Req, Act(r) PROVE CountInv'
  <2>1. ASSUME NEW u \in Member, NEW m \in Msg, NEW at, NEW op,
               Enter(r, at, op, u, m, NoView), op # "send", Offered(u, m), UNCHANGED server
        PROVE  CountInv'
    <3> DEFINE c == [at |-> at, op |-> op, user |-> u, m |-> m, view |-> NoView]
    <3>1. req' = [req EXCEPT ![r] = c] /\ c.op # "send" /\ c.m = m /\ m \in Created
      BY <2>1 DEF Enter, Offered
    <3>2. row' = row /\ recent' = recent
      BY <2>1 DEF server
    <3> HIDE DEF c
    <3> QED BY <1>o, <1>k, <3>1, <3>2, RequestMoves
  <2>2. \/ \E u \in Member : SendMessage(r, u)
        \/ \E u \in Member, m \in Msg : \E at, op : Enter(r, at, op, u, m, NoView) /\ op # "send" /\ Offered(u, m) /\ UNCHANGED server
    BY <1>1 DEF Act, Edit, React, Delete
  <2> QED BY <2>1, <2>2, SendCounted
<1>2. ASSUME NEW r \in Req, Write(r) PROVE CountInv'
  <2> DEFINE m == req[r].m
             new == Updated(row[m], req[r].op)
             c == [req[r] EXCEPT !.at = "emit", !.view = Payload(row', m, req[r].user)]
  <2>1. m \in Created /\ req[r].op \in {"edit", "delete_all", "delete_me"}
    BY <1>2, <1>r DEF Write, Pending
  <2>2. row[m] \in Row
    BY <1>t, <2>1 DEF Created
  <2>3. new.sender = row[m].sender
    BY <2>1, <2>2 DEF Updated, Row
  <2>4. row' = [row EXCEPT ![m] = new] /\ req' = [req EXCEPT ![r] = c] /\ recent' = recent
    BY <1>2 DEF Write
  <2>5. c.at = "emit" /\ c.m = m
    BY <1>t, RequestWith
  <2> HIDE DEF m, new, c
  <2>6. Created' = Created /\ Authored'
    BY <1>w, <2>1, <2>3, <2>4
  <2> QED BY <1>o, <2>1, <2>4, <2>5, <2>6, RequestMoves
<1>3. ASSUME NEW r \in Req, Create(r) PROVE CountInv'
  BY <1>3, CreateCounted
<1>4. ASSUME NEW r \in Req, WriteReaction(r) PROVE CountInv'
  <2> DEFINE m == req[r].m
             new == [row[m] EXCEPT !.by = IF req[r].at = "add" THEN @ \cup {req[r].user} ELSE @ \ {req[r].user}]
             c == [req[r] EXCEPT !.at = "emit", !.view = Payload(row', m, req[r].user)]
  <2>1. m \in Created /\ row[m] \in Row
    <3>1. m \in Created
      BY <1>4, <1>r DEF WriteReaction, Pending
    <3> QED BY <1>t, <3>1 DEF Created
  <2>2. \/ req' = [req EXCEPT ![r] = Free] /\ row' = row
        \/ row' = [row EXCEPT ![m] = new] /\ req' = [req EXCEPT ![r] = c]
    BY <1>4 DEF WriteReaction
  <2>3. new.sender = row[m].sender
    BY <2>1 DEF Row
  <2>4. c.at = "emit" /\ c.m = m /\ recent' = recent
    BY <1>t, <1>4, RequestWith DEF WriteReaction
  <2> HIDE DEF m, new, c
  <2>5. Free.at = "free"
    BY DEF Free
  <2>6. Created' = Created /\ Authored'
    BY <1>w, <1>k, <2>1, <2>2, <2>3
  <2> QED BY <1>o, <2>1, <2>2, <2>4, <2>5, <2>6, RequestMoves
<1>5. ASSUME NEW r \in Req, EmitEvent(r) \/ Reply(r) PROVE CountInv'
  <2>1. row' = row /\ recent' = recent /\ req[r].at \in {"emit", "reply"}
    BY <1>5 DEF EmitEvent, Reply, server
  <2>2. req[r].m \in Created
    BY <1>r, <2>1 DEF Pending
  <2> DEFINE c == [req[r] EXCEPT !.at = "reply"]
  <2>3. req' = [req EXCEPT ![r] = Free] \/ req' = [req EXCEPT ![r] = c]
    BY <1>5 DEF EmitEvent, Reply
  <2>4. c.m = req[r].m /\ c.at = "reply"
    BY <1>t DEF Request, Free
  <2>5. Free.at = "free"
    BY DEF Free
  <2> HIDE DEF c
  <2> QED BY <1>o, <1>k, <2>1, <2>2, <2>3, <2>4, <2>5, RequestMoves
<1>6. ASSUME req' = req, recent' = recent, overlapped' = overlapped,
             \A m \in Msg : row'[m] = row[m] \/ (m \in Created /\ row'[m].sender = row[m].sender)
      PROVE  CountInv'
  <2>1. Created' = Created /\ Authored'
    BY <1>6, RowsKept DEF CountInv
  <2>2. Pending' = Pending
    BY <1>6 DEF Pending
  <2>3. Aimed' /\ Repeats'
    BY <1>6, <2>1, <2>2 DEF CountInv, Aimed, Repeats
  <2>4. Counted'
    BY <1>6, <2>1, <2>2 DEF CountInv, Counted
  <2> QED BY <2>1, <2>3, <2>4 DEF CountInv
<1>7. ASSUME NEW u \in Member, WindowEnds(u) PROVE CountInv'
  <2>1. row' = row /\ req' = req /\ overlapped' = overlapped /\ recent' = [recent EXCEPT ![u] = NoMsg]
    BY <1>7 DEF WindowEnds
  <2>2. Created' = Created /\ Authored' /\ Pending' = Pending
    BY <1>k, <2>1 DEF Pending
  <2>3. Repeats'
    BY <2>1, <2>2 DEF CountInv, Repeats, MessagesTypeOK
  <2> QED BY <2>1, <2>2, <2>3 DEF CountInv, Aimed, Counted
<1>8. ASSUME NEW u \in Viewer, MarkRead(u) PROVE CountInv'
  <2>1. req' = req /\ recent' = recent /\ overlapped' = overlapped
    BY <1>8 DEF MarkRead
  <2>2. ASSUME NEW m \in Msg PROVE row'[m] = row[m] \/ (m \in Created /\ row'[m].sender = row[m].sender)
    <3>1. row[m] \in Row
      BY <1>t
    <3>2. row'[m] = row[m] \/ (row[m] # NoRow /\ row'[m] = [row[m] EXCEPT !.reads = @ \cup {u}])
      BY <1>8 DEF MarkRead
    <3> QED BY <3>1, <3>2 DEF Created, Row
  <2> QED BY <1>6, <2>1, <2>2
<1>9. CASE UNCHANGED <<row, recent, req, overlapped>>
  BY <1>6, <1>9
<1> QED BY <1>1, <1>2, <1>3, <1>4, <1>5, <1>7, <1>8, <1>9
        DEF MessagesNext, Progress, OnEvent, Poll, PollDone, Connects, Select, JoinConversation,
            SocketDrops, server, messageVars

\* Under the plan's limit while requests come one at a time, and over it by fewer
\* messages than there are requests in flight together (sendMessage,
\* enforceChatMessagesLimit): the sends that were counted before the last was created.
THEOREM OvershootHolds == MessagesSpec => []OvershootIsBounded
<1>1. MessagesInit => CountInv
  <2> SUFFICES ASSUME MessagesInit PROVE CountInv
    OBVIOUS
  <2>1. Created = {1}
    <3>1. \A m \in Msg : row[m] = IF m # 1 THEN NoRow ELSE
                [NoRow EXCEPT !.sender = First, !.body = "text", !.reads = Member \ {First}]
      BY DEF MessagesInit
    <3>2. [NoRow EXCEPT !.sender = First, !.body = "text", !.reads = Member \ {First}] # NoRow
      BY MessagesAssumption DEF NoRow
    <3> QED BY <3>1, <3>2, MessagesAssumption DEF Created
  <2>2. row[1].sender = First
    BY MessagesAssumption DEF MessagesInit, NoRow
  <2>3. Pending = {}
    BY DEF MessagesInit, Pending, Free
  <2>4. Counted
    <3>1. /\ IsFiniteSet(Created) /\ Cardinality(Created) = 1 /\ Cardinality(Pending) = 0
      BY <2>1, <2>3, FS_Singleton, FS_EmptySet
    <3>2. ~overlapped /\ PlanLimit \in Nat \ {0}
      BY MessagesAssumption DEF MessagesInit
    <3> QED BY <3>1, <3>2 DEF Counted
  <2>5. Aimed /\ Repeats
    BY DEF MessagesInit, Aimed, Repeats, Free
  <2> QED BY <2>1, <2>2, <2>4, <2>5, MessagesAssumption DEF CountInv, Authored
<1>2. MessagesTypeOK /\ MessagesTypeOK' /\ CountInv /\ [MessagesNext]_messageVars => CountInv'
  BY CountStep
<1>3. MessagesTypeOK /\ CountInv => OvershootIsBounded
  <2> SUFFICES ASSUME MessagesTypeOK, CountInv PROVE OvershootIsBounded
    OBVIOUS
  <2>1. Cardinality(Pending) \in Nat /\ Cardinality(Created) \in Nat /\ Cardinality(Req) \in Nat
    BY PendingIsFinite, FS_CardinalityType DEF CountInv, Counted
  <2>2. overlapped \in BOOLEAN /\ PlanLimit \in Nat
    BY MessagesAssumption DEF MessagesTypeOK
  <2> QED BY <2>1, <2>2 DEF OvershootIsBounded, CountInv, Counted
<1> QED BY <1>1, <1>2, <1>3, MessagesTypeCorrect, PTL DEF MessagesSpec

-----------------------------------------------------------------------------
(***************************************************************************)
(* Screens and registry agree.  As long as nothing has failed, every       *)
(* message finds its connection, and what one side has done is known to    *)
(* the other or on its way there.                                          *)
(***************************************************************************)
Opening == {"ring", "ack", "nack"}
Enders  == {"decline", "cancel", "end"}
Ends    == {"declined", "cancelled", "ended"}

\* What is under way about a call: from a user, and to a user.
Has(q, types, i) == \E k \in DOMAIN q : q[k].type \in types /\ q[k].id = i

RingSent(u, i)    == Has(toServer[u], {"ring"}, i)
AcceptSent(u, i)  == Has(toServer[u], {"accept"}, i)
EnderSent(u, i)   == Has(toServer[u], Enders, i)
RingDue(u, i)     == Has(toClient[u], {"ring"}, i)
AckDue(u, i)      == Has(toClient[u], {"ack"}, i)
NackDue(u, i)     == Has(toClient[u], {"nack"}, i)
AcceptedDue(u, i) == Has(toClient[u], {"accepted"}, i)
EndDue(u, i)      == Has(toClient[u], Ends, i)

\* Nothing about a call comes before what opens it for its receiver.
OpensFirst(q) == \A j, k \in DOMAIN q : j < k /\ q[k].type \in Opening => q[j].id # q[k].id

\* The user's ring was not answered yet; the user is in a call that both sides know,
\* which rings, or whose media flows.
Waits(u, i)  == screen[u].id = i /\ screen[u].mode = "out" /\ screen[u].status = "ringing" /\ ~screen[u].acked
Talks(u, i)  == screen[u].id = i /\ screen[u].acked /\ OnScreen(u)
Rings(u, i)  == Talks(u, i) /\ screen[u].status = "ringing"
Active(u, i) == Talks(u, i) /\ screen[u].status = "active"

\* The user's ring timeout is as old as the call.
Timed(u, i) == \E t \in timers[u] : t.mode = "out" /\ t.left + call[i].age = RingTimeout

\* No connection was cut, so everybody has the one it began with.
Linked ==
    /\ untimed = {}
    /\ \A u \in User : link[u] \in Socket /\ UserOf[link[u]] = u /\ sock[link[u]] = "on"
    /\ \A s \in Socket : sock[s] # "new" => sock[s] = "on" /\ link[UserOf[s]] = s

InOrder == \A u \in User : OpensFirst(toServer[u]) /\ OpensFirst(toClient[u])

\* A session has a call id unless it waits for one; a timeout that runs is that of
\* the session on the screen.
Orderly(u) ==
    /\ OnScreen(u) => Talks(u, screen[u].id) \/ Waits(u, screen[u].id)
    /\ \A t \in timers[u] : t.held /\ Talks(u, screen[u].id) /\ t.mode = screen[u].mode

\* Each ring has one caller, and one that was not placed has left no trace.
RingsAreOwn ==
    /\ \A u, v \in User : screen[u].mode = "out" /\ screen[v].mode = "out" /\ screen[u].id = screen[v].id => u = v
    /\ \A i \in CallId \ placed : call[i].phase = "unused" /\ \A u \in User : screen[u].id # i /\ ~RingSent(u, i)

\* A call that is not registered yet is known to its caller only.
Early(i) ==
    call[i].phase \in {"unused", "reading", "checked"} =>
        /\ i \notin accepted
        /\ \A u \in User : /\ ~Talks(u, i) /\ ~AcceptSent(u, i) /\ ~EnderSent(u, i)
                           /\ ~RingDue(u, i) /\ ~AckDue(u, i) /\ ~NackDue(u, i)
                           /\ ~AcceptedDue(u, i) /\ ~EndDue(u, i)

Parties(i) == call[i].caller \in User /\ call[i].callee \in User /\ call[i].caller # call[i].callee

Asked(i) ==
    call[i].phase \in {"reading", "checked"} => Parties(i) /\ call[i].age = 0 /\ Waits(call[i].caller, i)

\* A ring waits for what is under way, and what is under way is waited for.
Awaited(u, i) ==
    /\ Waits(u, i) => \/ RingSent(u, i) \/ AckDue(u, i) \/ NackDue(u, i)
                      \/ call[i].phase \in {"reading", "checked"} /\ call[i].caller = u
    /\ RingSent(u, i) => Waits(u, i) /\ call[i].phase = "unused"
    /\ AckDue(u, i) \/ NackDue(u, i) => Waits(u, i)

\* Who answers a call, or leaves it, has got what opens it; who leaves shows it no more.
Past(u, i) ==
    /\ Talks(u, i) \/ AcceptSent(u, i) \/ EnderSent(u, i) => ~RingDue(u, i) /\ ~AckDue(u, i) /\ ~NackDue(u, i)
    /\ EnderSent(u, i) => ~Talks(u, i)
    /\ NackDue(u, i) \/ EndDue(u, i) => call[i].phase = "over"

\* Whatever is under way about a registered call goes to the side it is meant for,
\* and whoever shows it is on the side it shows.
InPlace(u, i) ==
    /\ AckDue(u, i) => u = call[i].caller /\ call[i].age = 0
    /\ AcceptedDue(u, i) => u = call[i].caller
    /\ RingDue(u, i) => u = call[i].callee
    /\ Talks(u, i) => u = IF screen[u].mode = "out" THEN call[i].caller ELSE call[i].callee

\* One side of a registered call is about to end it.
Leaving(i) == EnderSent(call[i].caller, i) \/ EnderSent(call[i].callee, i)

\* A registered call is on the screens of its two parties, about to be, or about to end.
Registered(i) ==
    call[i].phase = "up" =>
        /\ Parties(i) /\ call[i].age <= RingTimeout
        /\ \A u \in User : InPlace(u, i)
        /\ AckDue(call[i].caller, i) \/ Talks(call[i].caller, i) \/ Leaving(i)
        /\ RingDue(call[i].callee, i) \/ Talks(call[i].callee, i) \/ Leaving(i)
        /\ Talks(call[i].caller, i) => Timed(call[i].caller, i)

\* Whoever shows a call that is over, or is about to, is about to learn it.
Ended(i) ==
    call[i].phase = "over" =>
        \A u \in User : Talks(u, i) \/ RingDue(u, i) \/ AckDue(u, i) => EndDue(u, i)

\* The stages of a registered call.
Staged(i) ==
    call[i].phase = "up" =>
        LET a == call[i].caller
            b == call[i].callee
        IN  /\ i \in accepted \/ AcceptSent(b, i) => ~RingDue(b, i) /\ ~Rings(b, i)
            /\ Talks(b, i) /\ ~Rings(b, i) /\ (Rings(a, i) \/ Waits(a, i)) => AcceptSent(b, i) \/ AcceptedDue(a, i)
            /\ \A u, v \in User : Active(u, i) /\ (Talks(v, i) \/ Waits(v, i)) => Active(v, i)

\* What holds of each call.
Fits(i) == /\ Early(i) /\ Asked(i) /\ Registered(i) /\ Ended(i) /\ Staged(i)
           /\ \A u \in User : Awaited(u, i) /\ Past(u, i)

AgreeInv ==
    /\ Linked /\ RingsAreOwn /\ InOrder
    /\ \A u \in User : Orderly(u)
    /\ \A i \in CallId : Fits(i)

CalmScreens == failed = {} => AgreeInv

\* What a queue has about a call after a message came in, and after its first went out.
LEMMA HasAfterAppend ==
    ASSUME NEW S, NEW q \in Seq(S), NEW m, NEW types, NEW i
    PROVE  Has(Append(q, m), types, i) <=> Has(q, types, i) \/ (m.type \in types /\ m.id = i)
<1>1. /\ DOMAIN Append(q, m) = 1 .. Len(q) + 1 /\ DOMAIN q = 1 .. Len(q) /\ Len(q) \in Nat
      /\ \A k \in 1 .. Len(q) : Append(q, m)[k] = q[k]
      /\ Append(q, m)[Len(q) + 1] = m
  OBVIOUS
<1>2. \A k \in 1 .. Len(q) + 1 : k \in 1 .. Len(q) \/ k = Len(q) + 1
  BY <1>1
<1>3. \A k \in 1 .. Len(q) : k \in 1 .. Len(q) + 1
  BY <1>1
<1>4. Len(q) + 1 \in 1 .. Len(q) + 1
  BY <1>1
<1> QED BY <1>1, <1>2, <1>3, <1>4 DEF Has

LEMMA HasAfterTail ==
    ASSUME NEW S, NEW q \in Seq(S), q # <<>>, NEW types, NEW i
    PROVE  Has(q, types, i) <=> Has(Tail(q), types, i) \/ (Head(q).type \in types /\ Head(q).id = i)
<1>1. /\ DOMAIN Tail(q) = 1 .. Len(q) - 1 /\ DOMAIN q = 1 .. Len(q) /\ Len(q) \in Nat \ {0}
      /\ \A k \in 1 .. Len(q) - 1 : Tail(q)[k] = q[k + 1]
      /\ Head(q) = q[1]
  OBVIOUS
<1>2. ASSUME Has(q, types, i) PROVE Has(Tail(q), types, i) \/ (Head(q).type \in types /\ Head(q).id = i)
  <2>1. PICK k \in 1 .. Len(q) : q[k].type \in types /\ q[k].id = i
    BY <1>1, <1>2 DEF Has
  <2>2. CASE k = 1
    BY <1>1, <2>1, <2>2
  <2>3. CASE k # 1
    <3>1. k - 1 \in 1 .. Len(q) - 1 /\ (k - 1) + 1 = k
      BY <1>1, <2>3
    <3> QED BY <1>1, <2>1, <3>1 DEF Has
  <2> QED BY <2>2, <2>3
<1>3. ASSUME Has(Tail(q), types, i) PROVE Has(q, types, i)
  <2>1. PICK k \in 1 .. Len(q) - 1 : Tail(q)[k].type \in types /\ Tail(q)[k].id = i
    BY <1>1, <1>3 DEF Has
  <2>2. k + 1 \in 1 .. Len(q)
    BY <1>1
  <2> QED BY <1>1, <2>1, <2>2 DEF Has
<1>4. 1 \in DOMAIN q
  BY <1>1
<1> QED BY <1>1, <1>2, <1>3, <1>4 DEF Has

LEMMA HasNothing == \A types, i : ~Has(<<>>, types, i)
BY DEF Has

\* A queue stays in order unless what comes in opens a call that something in it is about.
LEMMA OpensFirstAfterAppend ==
    ASSUME NEW S, NEW q \in Seq(S), NEW m, OpensFirst(q),
           m.type \in Opening => \A k \in DOMAIN q : q[k].id # m.id
    PROVE  OpensFirst(Append(q, m))
<1>1. /\ DOMAIN Append(q, m) = 1 .. Len(q) + 1 /\ DOMAIN q = 1 .. Len(q) /\ Len(q) \in Nat
      /\ \A k \in 1 .. Len(q) : Append(q, m)[k] = q[k]
      /\ Append(q, m)[Len(q) + 1] = m
  OBVIOUS
<1>2. SUFFICES ASSUME NEW j \in 1 .. Len(q) + 1, NEW k \in 1 .. Len(q) + 1, j < k,
                      Append(q, m)[k].type \in Opening
               PROVE  Append(q, m)[j].id # Append(q, m)[k].id
  BY <1>1 DEF OpensFirst
<1>3. j \in 1 .. Len(q) /\ (k \in 1 .. Len(q) \/ k = Len(q) + 1)
  BY <1>1, <1>2
<1> QED BY <1>1, <1>2, <1>3 DEF OpensFirst

LEMMA OpensFirstAfterTail ==
    ASSUME NEW S, NEW q \in Seq(S), q # <<>>, OpensFirst(q)
    PROVE  OpensFirst(Tail(q)) /\ ~Has(Tail(q), Opening, Head(q).id)
<1>1. /\ DOMAIN Tail(q) = 1 .. Len(q) - 1 /\ DOMAIN q = 1 .. Len(q) /\ Len(q) \in Nat \ {0}
      /\ \A k \in 1 .. Len(q) - 1 : Tail(q)[k] = q[k + 1]
      /\ Head(q) = q[1]
  OBVIOUS
<1>2. ASSUME NEW k \in 1 .. Len(q) - 1, Tail(q)[k].type \in Opening, NEW j \in 1 .. Len(q), j < k + 1
      PROVE  q[j].id # Tail(q)[k].id
  <2>1. k + 1 \in 1 .. Len(q)
    BY <1>1
  <2> QED BY <1>1, <1>2, <2>1 DEF OpensFirst
<1>3. ~Has(Tail(q), Opening, Head(q).id)
  <2>1. 1 \in 1 .. Len(q) /\ \A k \in 1 .. Len(q) - 1 : 1 < k + 1
    BY <1>1
  <2> QED BY <1>1, <1>2, <2>1 DEF Has
<1>4. OpensFirst(Tail(q))
  <2>1. \A j \in 1 .. Len(q) - 1 : j + 1 \in 1 .. Len(q)
    BY <1>1
  <2>2. \A j, k \in 1 .. Len(q) - 1 : j < k => j + 1 < k + 1
    BY <1>1
  <2> QED BY <1>1, <1>2, <2>1, <2>2 DEF OpensFirst
<1> QED BY <1>3, <1>4

\* A queue holds nothing about a call when it holds none of the kinds there are.
LEMMA NothingSent ==
    ASSUME NEW q \in Seq(Signal), NEW i, ~Has(q, {"ring"}, i), ~Has(q, {"accept"}, i), ~Has(q, Enders, i)
    PROVE  \A k \in DOMAIN q : q[k].id # i
<1>1. \A m \in Signal : m.type \in {"ring"} \/ m.type \in {"accept"} \/ m.type \in Enders
  BY DEF Signal, Enders
<1>2. \A k \in DOMAIN q : q[k] \in Signal
  OBVIOUS
<1> QED BY <1>1, <1>2 DEF Has

\* A queue with nothing of any kind about a call has nothing about it.
LEMMA NothingDue ==
    ASSUME NEW q \in Seq(Notice), NEW i, ~Has(q, {"ring"}, i), ~Has(q, {"ack"}, i), ~Has(q, {"nack"}, i),
           ~Has(q, {"accepted"}, i), ~Has(q, Ends, i)
    PROVE  \A k \in DOMAIN q : q[k].id # i
<1>1. \A m \in Notice : \/ m.type \in {"ring"} \/ m.type \in {"ack"} \/ m.type \in {"nack"}
                        \/ m.type \in {"accepted"} \/ m.type \in Ends
  BY DEF Notice, Ends
<1>2. \A k \in DOMAIN q : q[k] \in Notice
  OBVIOUS
<1> QED BY <1>1, <1>2 DEF Has

-----------------------------------------------------------------------------
\* What a step does to one queue, or to one screen, in these terms.

\* What is under way from a user when nothing is sent, one message is, or one arrives.
LEMMA ServerKept ==
    ASSUME NEW u, toServer'[u] = toServer[u]
    PROVE  \A j : /\ (RingSent(u, j)' <=> RingSent(u, j)) /\ (AcceptSent(u, j)' <=> AcceptSent(u, j))
                  /\ (EnderSent(u, j)' <=> EnderSent(u, j))
BY DEF RingSent, AcceptSent, EnderSent

LEMMA ServerGets ==
    ASSUME NEW u, NEW m, toServer[u] \in Seq(Signal), toServer'[u] = Append(toServer[u], m)
    PROVE  \A j : /\ RingSent(u, j)' <=> RingSent(u, j) \/ (m.type = "ring" /\ m.id = j)
                  /\ AcceptSent(u, j)' <=> AcceptSent(u, j) \/ (m.type = "accept" /\ m.id = j)
                  /\ EnderSent(u, j)' <=> EnderSent(u, j) \/ (m.type \in Enders /\ m.id = j)
BY HasAfterAppend DEF RingSent, AcceptSent, EnderSent

LEMMA ServerLoses ==
    ASSUME NEW u, NEW m, toServer[u] \in Seq(Signal), toServer[u] # <<>>, m = Head(toServer[u]),
           toServer'[u] = Tail(toServer[u])
    PROVE  \A j : /\ RingSent(u, j) <=> RingSent(u, j)' \/ (m.type = "ring" /\ m.id = j)
                  /\ AcceptSent(u, j) <=> AcceptSent(u, j)' \/ (m.type = "accept" /\ m.id = j)
                  /\ EnderSent(u, j) <=> EnderSent(u, j)' \/ (m.type \in Enders /\ m.id = j)
BY HasAfterTail DEF RingSent, AcceptSent, EnderSent

\* The same for what is under way to a user.
LEMMA ClientKept ==
    ASSUME NEW u, toClient'[u] = toClient[u]
    PROVE  \A j : /\ (RingDue(u, j)' <=> RingDue(u, j)) /\ (AckDue(u, j)' <=> AckDue(u, j))
                  /\ (NackDue(u, j)' <=> NackDue(u, j)) /\ (AcceptedDue(u, j)' <=> AcceptedDue(u, j))
                  /\ (EndDue(u, j)' <=> EndDue(u, j))
BY DEF RingDue, AckDue, NackDue, AcceptedDue, EndDue

LEMMA ClientGets ==
    ASSUME NEW u, NEW m, toClient[u] \in Seq(Notice), toClient'[u] = Append(toClient[u], m)
    PROVE  \A j : /\ RingDue(u, j)' <=> RingDue(u, j) \/ (m.type = "ring" /\ m.id = j)
                  /\ AckDue(u, j)' <=> AckDue(u, j) \/ (m.type = "ack" /\ m.id = j)
                  /\ NackDue(u, j)' <=> NackDue(u, j) \/ (m.type = "nack" /\ m.id = j)
                  /\ AcceptedDue(u, j)' <=> AcceptedDue(u, j) \/ (m.type = "accepted" /\ m.id = j)
                  /\ EndDue(u, j)' <=> EndDue(u, j) \/ (m.type \in Ends /\ m.id = j)
BY HasAfterAppend DEF RingDue, AckDue, NackDue, AcceptedDue, EndDue

LEMMA ClientLoses ==
    ASSUME NEW u, NEW m, toClient[u] \in Seq(Notice), toClient[u] # <<>>, m = Head(toClient[u]),
           toClient'[u] = Tail(toClient[u])
    PROVE  \A j : /\ RingDue(u, j) <=> RingDue(u, j)' \/ (m.type = "ring" /\ m.id = j)
                  /\ AckDue(u, j) <=> AckDue(u, j)' \/ (m.type = "ack" /\ m.id = j)
                  /\ NackDue(u, j) <=> NackDue(u, j)' \/ (m.type = "nack" /\ m.id = j)
                  /\ AcceptedDue(u, j) <=> AcceptedDue(u, j)' \/ (m.type = "accepted" /\ m.id = j)
                  /\ EndDue(u, j) <=> EndDue(u, j)' \/ (m.type \in Ends /\ m.id = j)
BY HasAfterTail DEF RingDue, AckDue, NackDue, AcceptedDue, EndDue

\* A screen that stays as it was stands for the same calls.
LEMMA ScreenKept ==
    ASSUME NEW u, screen'[u] = screen[u]
    PROVE  \A j : /\ (Waits(u, j)' <=> Waits(u, j)) /\ (Talks(u, j)' <=> Talks(u, j))
                  /\ (Rings(u, j)' <=> Rings(u, j)) /\ (Active(u, j)' <=> Active(u, j))
BY DEF Waits, Talks, Rings, Active, OnScreen

\* Nothing happens to a call.
SameScreen(u, j) ==
    /\ (Waits(u, j)' <=> Waits(u, j)) /\ (Talks(u, j)' <=> Talks(u, j))
    /\ (Rings(u, j)' <=> Rings(u, j)) /\ (Active(u, j)' <=> Active(u, j))
    /\ Talks(u, j) => /\ screen'[u].mode = screen[u].mode
                      /\ \A t \in timers[u] : t.mode = "out" => t \in timers'[u]
SameSent(u, j) ==
    (RingSent(u, j)' <=> RingSent(u, j)) /\ (AcceptSent(u, j)' <=> AcceptSent(u, j)) /\ (EnderSent(u, j)' <=> EnderSent(u, j))
SameDue(u, j) ==
    /\ (RingDue(u, j)' <=> RingDue(u, j)) /\ (AckDue(u, j)' <=> AckDue(u, j)) /\ (NackDue(u, j)' <=> NackDue(u, j))
    /\ (AcceptedDue(u, j)' <=> AcceptedDue(u, j)) /\ (EndDue(u, j)' <=> EndDue(u, j))
SameCall(j) == call'[j] = call[j] /\ (j \in accepted' <=> j \in accepted)

\* A call is as it should be if nothing that concerns it happens.
LEMMA FitsElsewhere ==
    ASSUME NEW j, Fits(j), SameCall(j),
           \A u \in User : SameScreen(u, j) /\ SameSent(u, j) /\ SameDue(u, j)
    PROVE  Fits(j)'
<1>1. /\ call'[j].phase = call[j].phase /\ call'[j].caller = call[j].caller
      /\ call'[j].callee = call[j].callee /\ call'[j].age = call[j].age
  BY DEF SameCall
<1>2. \A u \in User : Talks(u, j) /\ Timed(u, j) => Timed(u, j)'
  BY <1>1 DEF Timed, SameScreen
<1>3. Early(j)'
  BY <1>1 DEF Fits, Early, SameCall, SameScreen, SameSent, SameDue
<1>4. Asked(j)' /\ (Parties(j)' <=> Parties(j))
  BY <1>1 DEF Fits, Asked, Parties, SameScreen
<1>5. Registered(j)'
  <2>1. \A u \in User : InPlace(u, j) => InPlace(u, j)'
    BY <1>1 DEF InPlace, SameScreen, SameDue
  <2>2. Parties(j) /\ Leaving(j) => Leaving(j)'
    BY <1>1 DEF Leaving, Parties, SameSent
  <2> QED BY <1>1, <1>2, <1>4, <2>1, <2>2 DEF Fits, Registered, Parties, SameScreen, SameSent, SameDue
<1>6. Ended(j)'
  BY <1>1 DEF Fits, Ended, SameScreen, SameDue
<1>7. Staged(j)'
  <2>1. call[j].phase = "up" => Parties(j)
    BY DEF Fits, Registered
  <2> QED BY <1>1, <2>1 DEF Fits, Staged, Parties, SameCall, SameScreen, SameSent, SameDue
<1>8. \A u \in User : Awaited(u, j)' /\ Past(u, j)'
  BY <1>1 DEF Fits, Awaited, Past, SameScreen, SameSent, SameDue
<1> QED BY <1>3, <1>4, <1>5, <1>6, <1>7, <1>8 DEF Fits

\* Connections are kept by whatever leaves them alone.
LEMMA LinkedKept == ASSUME Linked, UNCHANGED <<untimed, link, sock>> PROVE Linked'
BY DEF Linked

\* Nothing is timed for, and nothing is shown of, an overlay that shows no call.
LEMMA OffScreen ==
    ASSUME NEW u \in User, Orderly(u), ~OnScreen(u)
    PROVE  timers[u] = {} /\ \A j : ~Waits(u, j) /\ ~Talks(u, j) /\ ~Rings(u, j) /\ ~Active(u, j)
BY DEF Orderly, OnScreen, Waits, Talks, Rings, Active

\* What one user's overlay does leaves everybody else's and the registry alone.
Alone(u) ==
    /\ UNCHANGED <<vars, toClient, link, untimed>>
    /\ \A w \in User \ {u} : /\ screen'[w] = screen[w] /\ timers'[w] = timers[w]
                             /\ toServer'[w] = toServer[w]

\* When one user acts alone, nothing changes for the others.
LEMMA AloneKeeps ==
    ASSUME NEW u, Alone(u)
    PROVE  /\ \A w \in User \ {u} : \A j : SameScreen(w, j) /\ SameSent(w, j)
           /\ \A w \in User : \A j : SameDue(w, j)
           /\ \A j : SameCall(j)
           /\ \A w \in User \ {u} : Orderly(w) => Orderly(w)'
           /\ Linked => Linked'
           /\ call' = call /\ accepted' = accepted
<1>1. \A w \in User \ {u} : \A j : SameScreen(w, j) /\ SameSent(w, j)
  BY ScreenKept, ServerKept DEF Alone, SameScreen, SameSent
<1>2. \A w \in User : \A j : SameDue(w, j)
  BY ClientKept DEF Alone, SameDue
<1>3. \A j : SameCall(j)
  BY DEF Alone, SameCall, vars
<1>4. \A w \in User \ {u} : Orderly(w) => Orderly(w)'
  BY DEF Alone, Orderly, OnScreen, Talks, Waits
<1>5. Linked => Linked'
  BY LinkedKept DEF Alone, vars
<1> QED BY <1>1, <1>2, <1>3, <1>4, <1>5 DEF Alone, vars

\* A user places a call: the ring is under way and its caller waits for it.
LEMMA PlaceAgrees ==
    ASSUME CallsTypeOK, AgreeInv, NEW u \in User, NEW v \in User, NEW i \in CallId, Place(u, v, i)
    PROVE  AgreeInv'
<1> DEFINE x == [status |-> "ringing", id |-> i, mode |-> "out", acked |-> FALSE, reason |-> "none"]
           m == [type |-> "ring", id |-> i, to |-> v]
<1>t. /\ screen \in [User -> Screen] /\ toServer \in [User -> Seq(Signal)] /\ toClient \in [User -> Seq(Notice)]
  BY DEF CallsTypeOK
<1>1. /\ screen'[u] = x /\ toServer'[u] = Append(toServer[u], m) /\ timers' = timers /\ placed' = placed \cup {i}
      /\ i \notin placed /\ screen[u].status = "idle"
  BY <1>t DEF Place, Show
<1>2. Alone(u)
  BY <1>t DEF Place, Show, Alone
<1>3. x.status = "ringing" /\ x.id = i /\ x.mode = "out" /\ ~x.acked /\ m.type = "ring" /\ m.id = i
  OBVIOUS
<1> HIDE DEF x, m
<1>4. /\ Linked /\ RingsAreOwn /\ InOrder /\ (\A w \in User : Orderly(w)) /\ (\A j \in CallId : Fits(j))
  BY DEF AgreeInv
<1>5. call[i].phase = "unused" /\ \A w \in User : screen[w].id # i /\ ~RingSent(w, i)
  BY <1>1, <1>4 DEF RingsAreOwn
<1>6. /\ timers[u] = {} /\ \A j : ~Waits(u, j) /\ ~Talks(u, j) /\ ~Rings(u, j) /\ ~Active(u, j)
  BY <1>1, <1>4, OffScreen DEF OnScreen
<1>7. \A j : (Waits(u, j)' <=> j = i) /\ ~Talks(u, j)' /\ ~Rings(u, j)' /\ ~Active(u, j)'
  BY <1>1, <1>3 DEF Waits, Talks, Rings, Active
<1>8. \A j : /\ RingSent(u, j)' <=> RingSent(u, j) \/ j = i
             /\ AcceptSent(u, j)' <=> AcceptSent(u, j)
             /\ EnderSent(u, j)' <=> EnderSent(u, j)
  <2>1. \A j : /\ RingSent(u, j)' <=> RingSent(u, j) \/ (m.type = "ring" /\ m.id = j)
               /\ AcceptSent(u, j)' <=> AcceptSent(u, j) \/ (m.type = "accept" /\ m.id = j)
               /\ EnderSent(u, j)' <=> EnderSent(u, j) \/ (m.type \in Enders /\ m.id = j)
    BY <1>t, <1>1, ServerGets
  <2>2. m.type # "accept" /\ m.type \notin Enders
    BY <1>3 DEF Enders
  <2> QED BY <1>3, <2>1, <2>2
<1>9. \A w \in User : /\ ~Talks(w, i) /\ ~AcceptSent(w, i) /\ ~EnderSent(w, i)
                      /\ ~RingDue(w, i) /\ ~AckDue(w, i) /\ ~NackDue(w, i)
                      /\ ~AcceptedDue(w, i) /\ ~EndDue(w, i)
  BY <1>4, <1>5 DEF Fits, Early
<1>10. ASSUME NEW j \in CallId, j # i PROVE Fits(j)'
  <2>1. SameScreen(u, j) /\ SameSent(u, j)
    BY <1>1, <1>6, <1>7, <1>8, <1>10 DEF SameScreen, SameSent
  <2> QED BY <1>2, <1>4, <2>1, AloneKeeps, FitsElsewhere
<1>11. Fits(i)'
  <2>1. call'[i] = call[i] /\ accepted' = accepted
    BY <1>2, AloneKeeps
  <2>2. \A w \in User : /\ ~Talks(w, i)' /\ ~AcceptSent(w, i)' /\ ~EnderSent(w, i)'
                        /\ ~RingDue(w, i)' /\ ~AckDue(w, i)' /\ ~NackDue(w, i)'
                        /\ ~AcceptedDue(w, i)' /\ ~EndDue(w, i)'
                        /\ Waits(w, i)' <=> w = u
                        /\ RingSent(w, i)' <=> w = u
    BY <1>2, <1>5, <1>7, <1>8, <1>9, AloneKeeps DEF SameScreen, SameSent, SameDue, Waits
  <2>3. Early(i) /\ i \notin accepted
    BY <1>4, <1>5 DEF Fits, Early
  <2> QED BY <1>5, <2>1, <2>2, <2>3 DEF Fits, Early, Asked, Registered, Ended, Staged, Awaited, Past
<1>12. RingsAreOwn'
  <2>1. \A w \in User \ {u} : screen'[w] = screen[w] /\ \A j : RingSent(w, j)' <=> RingSent(w, j)
    BY <1>2, AloneKeeps DEF Alone, SameSent
  <2>2. call' = call
    BY <1>2, AloneKeeps
  <2> QED BY <1>1, <1>3, <1>4, <1>5, <1>8, <2>1, <2>2 DEF RingsAreOwn
<1>13. InOrder'
  <2>1. \A k \in DOMAIN toServer[u] : toServer[u][k].id # i
    BY <1>t, <1>5, <1>9, NothingSent DEF RingSent, AcceptSent, EnderSent
  <2>2. OpensFirst(toServer'[u])
    BY <1>t, <1>1, <1>3, <1>4, <2>1, OpensFirstAfterAppend DEF InOrder
  <2> QED BY <1>2, <1>4, <2>2 DEF InOrder, Alone
<1>14. Orderly(u)'
  BY <1>1, <1>3, <1>6, <1>7 DEF Orderly
<1> QED BY <1>2, <1>4, <1>10, <1>11, <1>12, <1>13, <1>14, AloneKeeps DEF AgreeInv

\* Each ring keeps its one caller when nobody starts to ring.
LEMMA RingsStayOwn ==
    ASSUME RingsAreOwn, placed' = placed,
           \A w \in User : /\ screen'[w].mode = "out" => screen[w].mode = "out" /\ screen'[w].id = screen[w].id
                           /\ screen'[w].id = screen[w].id \/ screen'[w].id \notin CallId \ placed
                           /\ \A j : RingSent(w, j)' => RingSent(w, j),
           \A j \in CallId \ placed : call'[j].phase = call[j].phase
    PROVE  RingsAreOwn'
BY DEF RingsAreOwn

\* A user in a call ends it: the other side is told.
LEMMA HangUpAgrees ==
    ASSUME CallsTypeOK, AgreeInv, NEW u \in User, NEW i \in CallId, NEW type \in Enders,
           Talks(u, i), Alone(u), placed' = placed, Send(u, type, i), timers'[u] = {}, ~OnScreen(u)',
           screen'[u] = NoSession \/ (screen'[u].id = screen[u].id /\ screen'[u].mode = screen[u].mode)
    PROVE  AgreeInv'
<1> DEFINE m == [type |-> type, id |-> i]
<1>t. /\ screen \in [User -> Screen] /\ toServer \in [User -> Seq(Signal)] /\ toClient \in [User -> Seq(Notice)]
  BY DEF CallsTypeOK
<1>1. toServer'[u] = Append(toServer[u], m)
  BY <1>t DEF Send
<1>2. /\ m.type \in Enders /\ m.type # "ring" /\ m.type # "accept" /\ m.id = i /\ m.type \notin Opening
  BY DEF Enders, Opening
<1> HIDE DEF m
<1>3. /\ Linked /\ RingsAreOwn /\ InOrder /\ (\A w \in User : Orderly(w)) /\ (\A j \in CallId : Fits(j))
  BY DEF AgreeInv
<1>4. \A j : ~Waits(u, j)' /\ ~Talks(u, j)' /\ ~Rings(u, j)' /\ ~Active(u, j)'
  BY DEF Waits, Talks, Rings, Active, OnScreen
<1>5. screen[u].id = i /\ \A j : ~Waits(u, j) /\ (j # i => ~Talks(u, j) /\ ~Rings(u, j) /\ ~Active(u, j))
  BY DEF Waits, Talks, Rings, Active
<1>6. \A j : /\ RingSent(u, j)' <=> RingSent(u, j)
             /\ AcceptSent(u, j)' <=> AcceptSent(u, j)
             /\ EnderSent(u, j)' <=> EnderSent(u, j) \/ j = i
  <2>1. toServer[u] \in Seq(Signal)
    BY <1>t
  <2> QED BY <1>1, <1>2, <2>1, ServerGets
<1>7. ASSUME NEW j \in CallId, j # i PROVE Fits(j)'
  <2>1. SameScreen(u, j) /\ SameSent(u, j)
    BY <1>4, <1>5, <1>6, <1>7 DEF SameScreen, SameSent
  <2> QED BY <1>3, <2>1, AloneKeeps, FitsElsewhere
<1>8. Fits(i)'
  <2>1. call' = call /\ accepted' = accepted
    BY AloneKeeps
  <2>2. call[i].phase \notin {"unused", "reading", "checked"}
    BY <1>3 DEF Fits, Early
  <2>3. /\ \A w \in User : SameDue(w, i)
        /\ \A w \in User \ {u} : SameScreen(w, i) /\ SameSent(w, i)
    BY AloneKeeps
  <2>4. Registered(i)'
    <3>1. SUFFICES ASSUME call[i].phase = "up" PROVE Registered(i)'
      BY <2>1 DEF Registered
    <3>2. Registered(i)
      BY <1>3 DEF Fits
    <3>3. u \in {call[i].caller, call[i].callee}
      BY <3>1, <3>2 DEF Registered, InPlace
    <3>4. Leaving(i)'
      BY <1>6, <2>1, <3>3 DEF Leaving
    <3>5. ASSUME NEW w \in User PROVE InPlace(w, i)'
      BY <1>4, <2>1, <2>3, <3>1, <3>2 DEF Registered, InPlace, SameScreen, SameDue
    <3>6. Talks(call[i].caller, i)' => Timed(call[i].caller, i)'
      BY <1>4, <2>1, <2>3, <3>1, <3>2 DEF Registered, Parties, SameScreen, Timed
    <3> QED BY <2>1, <3>1, <3>2, <3>4, <3>5, <3>6 DEF Registered, Parties
  <2>5. Ended(i)'
    BY <1>3, <1>4, <2>1, <2>3 DEF Fits, Ended, SameScreen, SameDue
  <2>6. Staged(i)'
    <3>1. call[i].phase = "up" => Parties(i)
      BY <1>3 DEF Fits, Registered
    <3> QED BY <1>3, <1>4, <1>6, <2>1, <2>3, <3>1 DEF Fits, Staged, Parties, SameScreen, SameDue, SameSent
  <2>7. \A w \in User : Awaited(w, i)' /\ Past(w, i)'
    BY <1>3, <1>4, <1>5, <1>6, <2>1, <2>3 DEF Fits, Awaited, Past, SameScreen, SameDue, SameSent
  <2> QED BY <2>1, <2>2, <2>4, <2>5, <2>6, <2>7 DEF Fits, Early, Asked
<1>9. RingsAreOwn'
  <2>1. NoSession.mode = "none" /\ NoSession.id \notin CallId
    BY CallsAssumption DEF NoSession
  <2>2. ASSUME NEW w \in User
        PROVE  /\ screen'[w].mode = "out" => screen[w].mode = "out" /\ screen'[w].id = screen[w].id
               /\ screen'[w].id = screen[w].id \/ screen'[w].id \notin CallId \ placed
               /\ \A j : RingSent(w, j)' => RingSent(w, j)
    <3>1. CASE w = u
      BY <1>6, <2>1, <3>1
    <3>2. CASE w # u
      BY <3>2, ServerKept DEF Alone
    <3> QED BY <3>1, <3>2
  <2> QED BY <1>3, <2>2, AloneKeeps, RingsStayOwn
<1>10. InOrder'
  <2>1. OpensFirst(toServer'[u])
    BY <1>t, <1>1, <1>2, <1>3, OpensFirstAfterAppend DEF InOrder
  <2> QED BY <1>3, <2>1 DEF InOrder, Alone
<1>11. Orderly(u)'
  BY <1>4 DEF Orderly
<1> QED BY <1>3, <1>7, <1>8, <1>9, <1>10, <1>11, AloneKeeps DEF AgreeInv

\* The session of a screen goes on, whatever its status.
Goes(u) == /\ screen'[u].id = screen[u].id /\ screen'[u].mode = screen[u].mode
           /\ screen'[u].acked = screen[u].acked

\* A callee accepts: it leaves the ringing stage, and its caller is about to hear of it.
LEMMA AcceptAgrees ==
    ASSUME CallsTypeOK, AgreeInv, NEW u \in User, NEW i \in CallId,
           screen[u].mode = "in", Rings(u, i), Alone(u), placed' = placed, Send(u, "accept", i),
           timers' = timers, Goes(u), screen'[u].status = "connecting"
    PROVE  AgreeInv'
<1> DEFINE m == [type |-> "accept", id |-> i]
<1>t. /\ toServer \in [User -> Seq(Signal)] /\ toServer[u] \in Seq(Signal)
  BY DEF CallsTypeOK
<1>1. toServer'[u] = Append(toServer[u], m)
  BY <1>t DEF Send
<1>2. m.type = "accept" /\ m.type \notin Enders /\ m.id = i /\ m.type \notin Opening
  BY DEF Enders, Opening
<1> HIDE DEF m
<1>3. /\ Linked /\ RingsAreOwn /\ InOrder /\ (\A w \in User : Orderly(w)) /\ (\A j \in CallId : Fits(j))
  BY DEF AgreeInv
<1>4. \A j : /\ ~Waits(u, j)' /\ ~Waits(u, j) /\ ~Active(u, j)' /\ ~Active(u, j) /\ ~Rings(u, j)'
             /\ (Talks(u, j)' <=> j = i) /\ (Talks(u, j) <=> j = i) /\ (Rings(u, j) <=> j = i)
  BY DEF Waits, Talks, Rings, Active, OnScreen, Goes
<1>6. \A j : /\ RingSent(u, j)' <=> RingSent(u, j)
             /\ AcceptSent(u, j)' <=> AcceptSent(u, j) \/ j = i
             /\ EnderSent(u, j)' <=> EnderSent(u, j)
  BY <1>t, <1>1, <1>2, ServerGets
<1>7. ASSUME NEW j \in CallId, j # i PROVE Fits(j)'
  <2>1. SameScreen(u, j) /\ SameSent(u, j)
    BY <1>4, <1>6, <1>7 DEF SameScreen, SameSent
  <2> QED BY <1>3, <2>1, AloneKeeps, FitsElsewhere
<1>8. Fits(i)'
  <2>1. call' = call /\ accepted' = accepted
    BY AloneKeeps
  <2>2. call[i].phase \notin {"unused", "reading", "checked"}
    BY <1>3, <1>4 DEF Fits, Early
  <2>3. /\ \A w \in User : SameDue(w, i)
        /\ \A w \in User \ {u} : SameScreen(w, i) /\ SameSent(w, i)
    BY AloneKeeps
  <2>4. Registered(i)'
    <3>1. SUFFICES ASSUME call[i].phase = "up" PROVE Registered(i)'
      BY <2>1 DEF Registered
    <3>2. Registered(i)
      BY <1>3 DEF Fits
    <3>4. Leaving(i) => Leaving(i)'
      BY <1>6, <2>1, <2>3, <3>1, <3>2 DEF Leaving, Registered, Parties, SameSent
    <3>5. ASSUME NEW w \in User PROVE InPlace(w, i)'
      BY <1>4, <2>1, <2>3, <3>1, <3>2 DEF Registered, InPlace, SameScreen, SameDue, Goes
    <3>6. \A w \in User : Talks(w, i)' <=> Talks(w, i)
      BY <1>4, <2>3 DEF SameScreen
    <3>7. Timed(call[i].caller, i)' <=> Timed(call[i].caller, i)
      BY <2>1 DEF Timed
    <3> QED BY <2>1, <2>3, <3>1, <3>2, <3>4, <3>5, <3>6, <3>7 DEF Registered, Parties, SameDue
  <2>5. Ended(i)'
    BY <1>3, <1>4, <2>1, <2>3 DEF Fits, Ended, SameScreen, SameDue
  <2>6. Staged(i)'
    <3>1. SUFFICES ASSUME call[i].phase = "up" PROVE Staged(i)'
      BY <2>1 DEF Staged
    <3>2. u = call[i].callee /\ Parties(i)
      BY <1>3, <1>4, <3>1 DEF Fits, Registered, InPlace
    <3>3. ~RingDue(u, i)
      BY <1>3, <1>4 DEF Fits, Past
    <3>4. \A w \in User : ~Active(w, i)
      BY <1>3, <1>4, <3>1 DEF Fits, Staged
    <3> QED BY <1>3, <1>4, <1>6, <2>1, <2>3, <3>2, <3>3, <3>4
            DEF Fits, Staged, Parties, SameScreen, SameDue, SameSent
  <2>7. \A w \in User : Awaited(w, i)' /\ Past(w, i)'
    BY <1>3, <1>4, <1>6, <2>1, <2>3 DEF Fits, Awaited, Past, SameScreen, SameDue, SameSent
  <2> QED BY <2>1, <2>2, <2>4, <2>5, <2>6, <2>7 DEF Fits, Early, Asked
<1>9. RingsAreOwn'
  <2>1. ASSUME NEW w \in User
        PROVE  /\ screen'[w].mode = screen[w].mode /\ screen'[w].id = screen[w].id
               /\ \A j : RingSent(w, j)' => RingSent(w, j)
    BY <1>6, ServerKept DEF Alone, Goes
  <2> QED BY <1>3, <2>1, AloneKeeps, RingsStayOwn
<1>10. InOrder'
  <2>1. OpensFirst(toServer'[u])
    BY <1>t, <1>1, <1>2, <1>3, OpensFirstAfterAppend DEF InOrder
  <2> QED BY <1>3, <2>1 DEF InOrder, Alone
<1>11. Orderly(u)'
  BY <1>3 DEF Orderly, Goes, Rings, Talks, Waits, OnScreen
<1> QED BY <1>3, <1>7, <1>8, <1>9, <1>10, <1>11, AloneKeeps DEF AgreeInv

\* A screen stops showing its call without a word.
LEMMA SilentAgrees ==
    ASSUME CallsTypeOK, AgreeInv, NEW u \in User, Alone(u), placed' = placed, toServer' = toServer,
           timers'[u] = {}, Goes(u), ~OnScreen(u)', ~Waits(u, screen[u].id),
           LET i == screen[u].id IN
           Talks(u, i) => /\ i \in CallId
                          /\ call[i].phase = "up" => \E w \in {call[i].caller, call[i].callee} : EnderSent(w, i)
    PROVE  AgreeInv'
<1>1. PICK i : i = screen[u].id
  OBVIOUS
<1>3. /\ Linked /\ RingsAreOwn /\ InOrder /\ (\A w \in User : Orderly(w)) /\ (\A j \in CallId : Fits(j))
  BY DEF AgreeInv
<1>4. \A j : /\ ~Waits(u, j)' /\ ~Talks(u, j)' /\ ~Rings(u, j)' /\ ~Active(u, j)' /\ ~Waits(u, j)
             /\ j # i => ~Talks(u, j) /\ ~Rings(u, j) /\ ~Active(u, j)
  BY <1>1 DEF Waits, Talks, Rings, Active, OnScreen
<1>5. Talks(u, i) /\ call[i].phase = "up" => Leaving(i)
  BY <1>1 DEF Leaving
<1>6. i \notin CallId => ~Talks(u, i)
  BY <1>1
<1>7. \A w \in User : \A j : SameSent(w, j) /\ SameDue(w, j) /\ SameCall(j)
  BY AloneKeeps, ServerKept DEF SameSent
<1>8. ASSUME NEW j \in CallId, j # i \/ ~Talks(u, i) PROVE Fits(j)'
  <2>1. SameScreen(u, j)
    BY <1>4, <1>8 DEF SameScreen, Rings, Active
  <2> QED BY <1>3, <1>7, <2>1, AloneKeeps, FitsElsewhere
<1>9. ASSUME Talks(u, i), i \in CallId PROVE Fits(i)'
  <2>1. call' = call /\ accepted' = accepted
    BY AloneKeeps
  <2>2. call[i].phase \notin {"unused", "reading", "checked"}
    BY <1>3, <1>9 DEF Fits, Early
  <2>3. /\ \A w \in User : SameDue(w, i) /\ SameSent(w, i)
        /\ \A w \in User \ {u} : SameScreen(w, i)
    BY <1>7, AloneKeeps
  <2>4. Registered(i)'
    <3>1. SUFFICES ASSUME call[i].phase = "up" PROVE Registered(i)'
      BY <2>1 DEF Registered
    <3>2. Registered(i) /\ Leaving(i)
      BY <1>3, <1>5, <1>9, <3>1 DEF Fits
    <3>4. Leaving(i)'
      BY <2>1, <2>3, <3>1, <3>2 DEF Leaving, Registered, Parties, SameSent
    <3>5. ASSUME NEW w \in User PROVE InPlace(w, i)'
      BY <1>4, <2>1, <2>3, <3>1, <3>2 DEF Registered, InPlace, SameScreen, SameDue
    <3>6. Talks(call[i].caller, i)' => Timed(call[i].caller, i)'
      BY <1>4, <2>1, <2>3, <3>1, <3>2 DEF Registered, Parties, SameScreen, Timed
    <3> QED BY <2>1, <3>1, <3>2, <3>4, <3>5, <3>6 DEF Registered, Parties
  <2>5. Ended(i)'
    BY <1>3, <1>4, <1>9, <2>1, <2>3 DEF Fits, Ended, SameScreen, SameDue
  <2>6. Staged(i)'
    <3>1. call[i].phase = "up" => Parties(i)
      BY <1>3, <1>9 DEF Fits, Registered
    <3> QED BY <1>3, <1>4, <1>9, <2>1, <2>3, <3>1 DEF Fits, Staged, Parties, SameScreen, SameDue, SameSent
  <2>7. \A w \in User : Awaited(w, i)' /\ Past(w, i)'
    BY <1>3, <1>4, <1>9, <2>1, <2>3 DEF Fits, Awaited, Past, SameScreen, SameDue, SameSent
  <2> QED BY <1>9, <2>1, <2>2, <2>4, <2>5, <2>6, <2>7 DEF Fits, Early, Asked
<1>10. RingsAreOwn'
  <2>1. ASSUME NEW w \in User
        PROVE  /\ screen'[w].mode = screen[w].mode /\ screen'[w].id = screen[w].id
               /\ \A j : RingSent(w, j)' => RingSent(w, j)
    BY <1>7 DEF Alone, Goes, SameSent
  <2> QED BY <1>3, <2>1, AloneKeeps, RingsStayOwn
<1>11. InOrder'
  BY <1>3 DEF InOrder, Alone
<1>12. Orderly(u)'
  BY <1>4 DEF Orderly
<1> QED BY <1>3, <1>6, <1>8, <1>9, <1>10, <1>11, <1>12, AloneKeeps DEF AgreeInv

\* Media flows between two sides of a call: both become active in one step.
LEMMA MediaUpAgrees ==
    ASSUME CallsTypeOK, AgreeInv, NEW u \in User, NEW v \in User, MediaUp(u, v)
    PROVE  AgreeInv'
<1>1. PICK i \in CallId : i = screen[u].id /\ i = screen[v].id
  BY DEF MediaUp, Up
<1>t. screen \in [User -> Screen] /\ screen[u] \in Screen /\ screen[v] \in Screen /\ u # v
  BY DEF CallsTypeOK, MediaUp
<1>2. \A w \in User : /\ screen'[w].id = screen[w].id /\ screen'[w].mode = screen[w].mode
                      /\ screen'[w].acked = screen[w].acked
                      /\ screen'[w].status = IF w \in {u, v} THEN "active" ELSE screen[w].status
  <2> DEFINE a == [screen[u] EXCEPT !.status = "active"]
             b == [screen[v] EXCEPT !.status = "active"]
  <2>1. screen' = [screen EXCEPT ![u] = a, ![v] = b]
    BY <1>t DEF MediaUp
  <2>2. /\ a.id = screen[u].id /\ a.mode = screen[u].mode /\ a.acked = screen[u].acked /\ a.status = "active"
        /\ b.id = screen[v].id /\ b.mode = screen[v].mode /\ b.acked = screen[v].acked /\ b.status = "active"
    BY <1>t DEF Screen, NoSession
  <2> HIDE DEF a, b
  <2> QED BY <1>t, <2>1, <2>2
<1>3. /\ Linked /\ RingsAreOwn /\ InOrder /\ (\A w \in User : Orderly(w)) /\ (\A j \in CallId : Fits(j))
  BY DEF AgreeInv
<1>4. ASSUME NEW w \in {u, v}
      PROVE  \A j : /\ ~Waits(w, j) /\ ~Waits(w, j)' /\ ~Rings(w, j) /\ ~Rings(w, j)' /\ ~Active(w, j)
                    /\ (Talks(w, j) <=> j = i) /\ (Talks(w, j)' <=> j = i) /\ (Active(w, j)' <=> j = i)
  <2>1. w \in User /\ screen[w].status = "connecting" /\ screen[w].id = i /\ screen'[w].status = "active"
    BY <1>1, <1>2 DEF MediaUp
  <2>2. Talks(w, i)
    BY <1>3, <2>1 DEF Orderly, OnScreen, Waits, Talks
  <2> QED BY <1>2, <2>1, <2>2 DEF Waits, Talks, Rings, Active, OnScreen
<1>5. \A w \in User \ {u, v} : \A j : SameScreen(w, j)
  <2>1. \A w \in User \ {u, v} : screen'[w] = screen[w] /\ timers'[w] = timers[w]
    BY <1>t DEF MediaUp
  <2> QED BY <2>1, ScreenKept DEF SameScreen
<1>6. \A w \in User : \A j : SameSent(w, j) /\ SameDue(w, j) /\ SameCall(j)
  BY ServerKept, ClientKept DEF MediaUp, SameSent, SameDue, SameCall, vars
<1>7. call' = call /\ accepted' = accepted /\ timers' = timers
  BY DEF MediaUp, vars
<1>8. ASSUME NEW j \in CallId, j # i PROVE Fits(j)'
  <2>1. \A w \in User : SameScreen(w, j)
    BY <1>2, <1>4, <1>5, <1>7, <1>8 DEF SameScreen
  <2> QED BY <1>3, <1>6, <2>1, FitsElsewhere
<1>9. Fits(i)'
  <2>1. call[i].phase = "up"
    BY <1>1 DEF MediaUp, Up
  <2>2. \A w \in User : /\ (Waits(w, i)' <=> Waits(w, i)) /\ (Talks(w, i)' <=> Talks(w, i))
                        /\ (Rings(w, i)' <=> Rings(w, i))
    BY <1>4, <1>5 DEF SameScreen
  <2>3. \A w \in User : SameSent(w, i) /\ SameDue(w, i)
    BY <1>6
  <2>4. Registered(i)'
    <3>1. Registered(i) /\ Parties(i)
      BY <1>3, <2>1 DEF Fits, Registered
    <3>2. Leaving(i) => Leaving(i)'
      BY <1>7, <2>3, <3>1 DEF Leaving, Parties, SameSent
    <3>3. \A w \in User : InPlace(w, i)'
      BY <1>2, <1>7, <2>1, <2>2, <2>3, <3>1 DEF Registered, InPlace, SameDue
    <3>4. Timed(call[i].caller, i)' <=> Timed(call[i].caller, i)
      BY <1>7 DEF Timed
    <3> QED BY <1>7, <2>1, <2>2, <2>3, <3>1, <3>2, <3>3, <3>4 DEF Registered, Parties, SameDue
  <2>5. Staged(i)'
    <3>1. Staged(i) /\ Parties(i)
      BY <1>3, <2>1 DEF Fits, Registered
    <3>2. ASSUME NEW w \in User, Talks(w, i) \/ Waits(w, i) PROVE w \in {u, v}
      <4>1. Talks(u, i) /\ Talks(v, i)
        BY <1>4
      <4>2. u = call[i].caller /\ v = call[i].callee
        BY <1>3, <2>1, <4>1 DEF Fits, Registered, InPlace, MediaUp
      <4>3. CASE Talks(w, i)
        BY <1>3, <2>1, <4>2, <4>3 DEF Fits, Registered, InPlace
      <4>4. CASE Waits(w, i)
        BY <1>1, <1>3, <4>4 DEF RingsAreOwn, Waits, MediaUp
      <4> QED BY <3>2, <4>3, <4>4
    <3>3. \A w \in User : Talks(w, i)' \/ Waits(w, i)' => Active(w, i)'
      BY <1>4, <2>2, <3>2
    <3> QED BY <1>7, <2>1, <2>2, <2>3, <3>1, <3>3 DEF Staged, Parties, SameSent, SameDue
  <2>6. \A w \in User : Awaited(w, i)' /\ Past(w, i)'
    BY <1>3, <1>7, <2>2, <2>3 DEF Fits, Awaited, Past, SameSent, SameDue
  <2> QED BY <1>7, <2>1, <2>4, <2>5, <2>6 DEF Fits, Early, Asked, Ended
<1>10. RingsAreOwn'
  <2>1. placed' = placed
    BY DEF MediaUp
  <2> QED BY <1>2, <1>3, <1>6, <1>7, <2>1, RingsStayOwn DEF SameSent
<1>11. InOrder' /\ Linked'
  BY <1>3, LinkedKept DEF InOrder, MediaUp, vars
<1>12. ASSUME NEW w \in User PROVE Orderly(w)'
  <2>1. OnScreen(w)' <=> OnScreen(w)
    BY <1>2 DEF OnScreen, MediaUp
  <2>2. screen'[w].id = screen[w].id
    BY <1>2
  <2>3. \A j : (Talks(w, j)' <=> Talks(w, j)) /\ (Waits(w, j)' <=> Waits(w, j))
    BY <1>4, <1>5 DEF SameScreen
  <2>4. PICK k : k = screen[w].id
    OBVIOUS
  <2>5. (Talks(w, screen[w].id)' <=> Talks(w, k)) /\ (Waits(w, screen[w].id)' <=> Waits(w, k))
    BY <2>1, <2>2, <2>3, <2>4 DEF Talks, Waits
  <2> QED BY <1>2, <1>3, <1>7, <2>1, <2>4, <2>5 DEF Orderly
<1> QED BY <1>8, <1>9, <1>10, <1>11, <1>12 DEF AgreeInv

\* What a user, a timeout or a lost peer connection does to an overlay.
LEMMA OverlayAgrees ==
    ASSUME CallsTypeOK, TalkingWasAccepted, AgreeInv, failed' = {}, NEW u \in User,
           Press(u) \/ EndedOver(u) \/ MediaLost(u) \/ \E t \in timers[u] : TimerFires(u, t)
    PROVE  AgreeInv'
<1>t. /\ screen \in [User -> Screen] /\ toServer \in [User -> Seq(Signal)] /\ screen[u] \in Screen
      /\ timers \in [User -> SUBSET Timer]
  BY DEF CallsTypeOK
<1>1. /\ Linked /\ RingsAreOwn /\ InOrder /\ (\A w \in User : Orderly(w)) /\ (\A j \in CallId : Fits(j))
  BY DEF AgreeInv
<1>2. PICK i : i = screen[u].id
  OBVIOUS
<1>3. screen[u] # NoSession => i \in CallId /\ screen[u].mode \in {"out", "in"}
  BY <1>2, SessionIs
<1>4. \A what : ~Fails(what)
  BY DEF Fails
<1>5. Unheld(u) = {} /\ untimed = {}
  BY <1>1 DEF Orderly, Unheld, Linked
<1>6. OnScreen(u) => Talks(u, i) \/ Waits(u, i)
  BY <1>1, <1>2 DEF Orderly
<1>7. Alone(u) /\ placed' = placed
  <2>1. UNCHANGED <<vars, toClient, link, placed, untimed>>
    BY DEF Press, EndedOver, MediaLost, TimerFires
  <2>2. \A w \in User \ {u} : screen'[w] = screen[w] /\ timers'[w] = timers[w] /\ toServer'[w] = toServer[w]
    BY <1>t DEF Press, EndedOver, MediaLost, TimerFires, SendIfKnown, Send, Forget, Teardown, Reset, Show, ClearHeld
  <2> QED BY <2>1, <2>2 DEF Alone
<1>8. ASSUME NEW type \in Enders, Talks(u, i), Send(u, type, i), timers'[u] = {},
             \/ Show(u, NoSession)
             \/ \E r : Show(u, [screen[u] EXCEPT !.status = "ended", !.reason = r])
      PROVE  AgreeInv'
  <2>0. Talks(u, i)
    BY <1>8
  <2>1. i \in CallId
    BY <1>2, <1>3, <2>0 DEF Talks, OnScreen, NoSession
  <2>2. /\ screen'[u].status \in {"idle", "ended"}
        /\ screen'[u] = NoSession \/ (screen'[u].id = screen[u].id /\ screen'[u].mode = screen[u].mode)
    <3>1. CASE Show(u, NoSession)
      BY <1>t, <3>1 DEF Show, NoSession
    <3>2. ASSUME NEW r, Show(u, [screen[u] EXCEPT !.status = "ended", !.reason = r])
          PROVE  screen'[u].status = "ended" /\ screen'[u].id = screen[u].id /\ screen'[u].mode = screen[u].mode
      BY <1>t, <3>2 DEF Show, Screen, NoSession
    <3> QED BY <1>8, <3>1, <3>2
  <2>3. ~OnScreen(u)'
    BY <2>2 DEF OnScreen
  <2> QED BY <1>7, <1>8, <2>1, <2>2, <2>3, HangUpAgrees
<1>9. CASE Press(u)
  <2>1. CASE screen[u].status = "ringing" /\ screen[u].mode = "out" /\ screen[u].acked
             /\ SendIfKnown(u, "cancel") /\ Forget(u)
    <3>1. Talks(u, i) /\ Send(u, "cancel", i) /\ timers'[u] = {}
      BY <1>t, <1>2, <1>5, <2>1 DEF Talks, OnScreen, SendIfKnown, Forget, ClearHeld
    <3> QED BY <1>8, <2>1, <3>1 DEF Forget, Enders
  <2>2. CASE screen[u].status = "ringing" /\ screen[u].mode = "in" /\ Send(u, "decline", screen[u].id) /\ Forget(u)
    <3>1. Talks(u, i) /\ Send(u, "decline", i) /\ timers'[u] = {}
      BY <1>t, <1>2, <1>5, <1>6, <2>2 DEF Waits, OnScreen, Forget, ClearHeld
    <3> QED BY <1>8, <2>2, <3>1 DEF Forget, Enders
  <2>3. CASE /\ screen[u].status = "ringing" /\ screen[u].mode = "in" /\ Send(u, "accept", screen[u].id)
             /\ Show(u, [screen[u] EXCEPT !.status = "connecting"]) /\ timers' = timers
    <3>1. Rings(u, i) /\ Send(u, "accept", i)
      BY <1>2, <1>6, <2>3 DEF Waits, Rings, OnScreen
    <3>2. Goes(u) /\ screen'[u].status = "connecting"
      BY <1>t, <2>3 DEF Show, Goes, Screen, NoSession
    <3>3. i \in CallId
      BY <1>3, <2>3 DEF NoSession
    <3> QED BY <1>7, <2>3, <3>1, <3>2, <3>3, AcceptAgrees
  <2>4. CASE screen[u].status = "active" /\ Send(u, "end", screen[u].id) /\ Teardown(u, "ended")
    <3>1. Talks(u, i) /\ Send(u, "end", i) /\ timers'[u] = {}
      BY <1>t, <1>2, <1>5, <1>6, <2>4 DEF Waits, OnScreen, Teardown, ClearHeld
    <3> QED BY <1>8, <2>4, <3>1 DEF Teardown, LastFrame, Enders
  <2> QED BY <1>4, <1>5, <1>9, <2>1, <2>2, <2>3, <2>4 DEF Press
<1>10. ASSUME NEW t \in timers[u], TimerFires(u, t) PROVE AgreeInv'
  <2>1. t.held /\ Talks(u, i) /\ t.mode = screen[u].mode /\ screen[u].acked
    BY <1>1, <1>2 DEF Orderly, Talks
  <2>2. \E type \in {"cancel", "decline"} : Send(u, type, i)
    BY <1>2, <1>10, <2>1 DEF TimerFires, SendIfKnown
  <2>3. timers'[u] = {} /\ Show(u, [screen[u] EXCEPT !.status = "ended", !.reason = "no_answer"])
    BY <1>t, <1>5, <1>10, <2>1 DEF TimerFires, LastFrame
  <2> QED BY <1>8, <2>1, <2>2, <2>3 DEF Enders
<1>11. ASSUME Show(u, Idle(u)), ClearHeld(u), toServer' = toServer, screen[u].status # "ringing",
              Talks(u, i) => i \in CallId /\ (call[i].phase = "up" => Leaving(i))
       PROVE  AgreeInv'
  <2>1. timers'[u] = {} /\ Goes(u) /\ screen'[u].status = "idle"
    BY <1>t, <1>5, <1>11 DEF Idle, ClearHeld, Show, Goes, Screen, NoSession
  <2>2. ~OnScreen(u)' /\ ~Waits(u, i)
    BY <1>11, <2>1 DEF OnScreen, Waits
  <2> QED BY <1>2, <1>7, <1>11, <2>1, <2>2, SilentAgrees DEF Leaving
<1>12. CASE EndedOver(u)
  <2>1. ~OnScreen(u)
    BY <1>12 DEF EndedOver, Wipes
  <2>2. ~Talks(u, i) /\ screen[u].status # "ringing"
    BY <2>1 DEF Talks, OnScreen
  <2> QED BY <1>11, <1>12, <2>2 DEF EndedOver
<1>13. CASE MediaLost(u)
  <2>1. Active(u, i) /\ Talks(u, i) /\ i \in CallId
    BY <1>2, <1>3, <1>6, <1>13 DEF MediaLost, OnScreen, Waits, Active, NoSession
  <2>2. \A w \in User \ {u} : ~Active(w, i)
    BY <1>2, <1>4, <1>13 DEF MediaLost, OnCall, Active, Talks
  <2>3. ASSUME call[i].phase = "up" PROVE Leaving(i)
    <3>1. Registered(i) /\ Staged(i) /\ Parties(i) /\ u = IF screen[u].mode = "out" THEN call[i].caller ELSE call[i].callee
      BY <1>1, <2>1, <2>3 DEF Fits, Registered, InPlace
    <3>2. \A w \in User \ {u} : ~Talks(w, i) /\ ~Waits(w, i)
      BY <2>1, <2>2, <2>3, <3>1 DEF Staged
    <3>3. CASE u = call[i].callee
      <4>1. ~AckDue(call[i].caller, i)
        BY <1>1, <2>1, <3>1, <3>2, <3>3 DEF Fits, Awaited, Parties
      <4> QED BY <2>3, <3>1, <3>2, <3>3, <4>1 DEF Registered, Parties
    <3>4. CASE u = call[i].caller
      <4>1. screen[u].mode = "out" /\ i \in accepted
        BY <1>2, <1>13, <2>1, <3>1, <3>4 DEF TalkingWasAccepted, MediaLost, Parties
      <4>2. ~RingDue(call[i].callee, i)
        BY <2>3, <3>1, <4>1 DEF Staged
      <4> QED BY <2>3, <3>1, <3>2, <3>4, <4>2 DEF Registered, Parties
    <3> QED BY <3>1, <3>3, <3>4
  <2> QED BY <1>11, <1>13, <2>1, <2>3 DEF MediaLost, Reset
<1> QED BY <1>9, <1>10, <1>12, <1>13

\* A message reaches an overlay: it was the first, and nothing that opens its call is
\* left behind it.
LEMMA DeliverKeeps ==
    ASSUME CallsTypeOK, AgreeInv, failed' = {}, NEW u \in User, Deliver(u),
           NEW i, NEW type, i = Head(toClient[u]).id, type = Head(toClient[u]).type
    PROVE  /\ i \in CallId
           /\ \A w \in User \ {u} : \A j : SameScreen(w, j) /\ SameSent(w, j) /\ SameDue(w, j)
           /\ \A w \in User \ {u} : Orderly(w)'
           /\ (\A j : SameCall(j)) /\ call' = call /\ accepted' = accepted /\ placed' = placed /\ Linked'
           /\ \A j : j # i => SameDue(u, j)
           /\ ~RingDue(u, i)' /\ ~AckDue(u, i)' /\ ~NackDue(u, i)'
           /\ (RingDue(u, i) <=> type = "ring") /\ (AckDue(u, i) <=> type = "ack") /\ (NackDue(u, i) <=> type = "nack")
           /\ AcceptedDue(u, i) <=> AcceptedDue(u, i)' \/ type = "accepted"
           /\ EndDue(u, i) <=> EndDue(u, i)' \/ type \in Ends
           /\ \A w \in User : OpensFirst(toClient'[w])
           /\ type \in {"ring", "ack", "nack", "accepted"} \cup Ends
           /\ \A w \in User \ {u} : screen'[w] = screen[w]
<1> DEFINE m == Head(toClient[u])
<1>t. /\ screen \in [User -> Screen] /\ toServer \in [User -> Seq(Signal)] /\ toClient \in [User -> Seq(Notice)]
      /\ timers \in [User -> SUBSET Timer]
  BY DEF CallsTypeOK
<1>1. toClient[u] \in Seq(Notice) /\ toClient[u] # <<>> /\ toClient'[u] = Tail(toClient[u])
      /\ \A w \in User \ {u} : toClient'[w] = toClient[w]
  BY <1>t DEF Deliver
<1>2. m \in Notice
  BY <1>1, HeadIs
<1>3. i \in CallId /\ type \in {"ring", "ack", "nack", "accepted"} \cup Ends
  BY <1>2 DEF Notice, Ends
<1>4. \A w \in User \ {u} : screen'[w] = screen[w] /\ timers'[w] = timers[w] /\ toServer'[w] = toServer[w]
  BY <1>t DEF Deliver, OnRing, OnAck, OnOver, IgnoreEvent, WhenBusy, Send, Teardown, Show, ClearHeld
<1>5. UNCHANGED <<vars, link, placed, failed>>
  BY DEF Deliver
<1>6. untimed' = untimed
  <2>1. RungOver(u) = untimed
    BY <1>5 DEF RungOver
  <2> QED BY <2>1 DEF Deliver, OnRing
<1>7. Linked' /\ (\A j : SameCall(j)) /\ call' = call /\ accepted' = accepted /\ placed' = placed
  BY <1>5, <1>6, LinkedKept DEF AgreeInv, vars, SameCall
<1>8. \A w \in User \ {u} : \A j : SameScreen(w, j) /\ SameSent(w, j) /\ SameDue(w, j)
  BY <1>1, <1>4, ScreenKept, ServerKept, ClientKept DEF SameScreen, SameSent, SameDue
<1>9. \A w \in User \ {u} : Orderly(w)'
  BY <1>4 DEF AgreeInv, Orderly, OnScreen, Talks, Waits
<1>10. \A j : /\ RingDue(u, j) <=> RingDue(u, j)' \/ (type = "ring" /\ i = j)
              /\ AckDue(u, j) <=> AckDue(u, j)' \/ (type = "ack" /\ i = j)
              /\ NackDue(u, j) <=> NackDue(u, j)' \/ (type = "nack" /\ i = j)
              /\ AcceptedDue(u, j) <=> AcceptedDue(u, j)' \/ (type = "accepted" /\ i = j)
              /\ EndDue(u, j) <=> EndDue(u, j)' \/ (type \in Ends /\ i = j)
  BY <1>1, ClientLoses
<1>11. OpensFirst(toClient[u])
  BY DEF AgreeInv, InOrder
<1>12. OpensFirst(Tail(toClient[u])) /\ ~Has(Tail(toClient[u]), Opening, i)
  BY <1>1, <1>11, OpensFirstAfterTail
<1>13. ~RingDue(u, i)' /\ ~AckDue(u, i)' /\ ~NackDue(u, i)'
  BY <1>1, <1>12 DEF RingDue, AckDue, NackDue, Has, Opening
<1>14. \A j : j # i => SameDue(u, j)
  BY <1>10 DEF SameDue
<1>15. \A w \in User : OpensFirst(toClient'[w])
  BY <1>1, <1>12 DEF AgreeInv, InOrder
<1> HIDE DEF m
<1>16. /\ (RingDue(u, i) <=> type = "ring") /\ (AckDue(u, i) <=> type = "ack") /\ (NackDue(u, i) <=> type = "nack")
       /\ AcceptedDue(u, i) <=> AcceptedDue(u, i)' \/ type = "accepted"
       /\ EndDue(u, i) <=> EndDue(u, i)' \/ type \in Ends
  BY <1>10, <1>13
<1> QED BY <1>3, <1>4, <1>7, <1>8, <1>9, <1>13, <1>14, <1>15, <1>16

\* Only the user's own screen and queues move: what is left to show.
LEMMA DeliverAgrees ==
    ASSUME CallsTypeOK, AgreeInv, failed' = {}, NEW u \in User, Deliver(u),
           NEW i, i = Head(toClient[u]).id,
           \A j \in CallId : j # i => SameScreen(u, j) /\ SameSent(u, j),
           Fits(i)', Orderly(u)', OpensFirst(toServer'[u]), \A j : RingSent(u, j)' => RingSent(u, j),
           screen'[u].mode = "out" => screen[u].mode = "out" /\ screen'[u].id = screen[u].id,
           screen'[u].id = screen[u].id \/ screen'[u].id \notin CallId \ placed
    PROVE  AgreeInv'
<1>1. PICK type : type = Head(toClient[u]).type
  OBVIOUS
<1>2. /\ \A w \in User \ {u} : \A j : SameScreen(w, j) /\ SameSent(w, j) /\ SameDue(w, j)
      /\ \A w \in User \ {u} : Orderly(w)'
      /\ (\A j : SameCall(j)) /\ call' = call /\ placed' = placed /\ Linked'
      /\ \A j : j # i => SameDue(u, j)
      /\ \A w \in User : OpensFirst(toClient'[w])
      /\ \A w \in User \ {u} : screen'[w] = screen[w]
  BY <1>1, DeliverKeeps
<1>3. \A j \in CallId : j # i => Fits(j)'
  <2> SUFFICES ASSUME NEW j \in CallId, j # i PROVE Fits(j)'
    OBVIOUS
  <2>1. \A w \in User : SameScreen(w, j) /\ SameSent(w, j) /\ SameDue(w, j)
    BY <1>2
  <2> QED BY <1>2, <2>1, FitsElsewhere DEF AgreeInv
<1>4. InOrder'
  <2>1. \A w \in User \ {u} : toServer'[w] = toServer[w]
    BY DEF Deliver, OnRing, OnAck, OnOver, IgnoreEvent, WhenBusy, Send, CallsTypeOK
  <2> QED BY <1>2, <2>1 DEF InOrder, AgreeInv
<1>5. RingsAreOwn'
  <2>1. ASSUME NEW w \in User
        PROVE  /\ screen'[w].mode = "out" => screen[w].mode = "out" /\ screen'[w].id = screen[w].id
               /\ screen'[w].id = screen[w].id \/ screen'[w].id \notin CallId \ placed
               /\ \A j : RingSent(w, j)' => RingSent(w, j)
    BY <1>2 DEF SameSent
  <2> QED BY <1>2, <2>1, RingsStayOwn DEF AgreeInv
<1> QED BY <1>2, <1>3, <1>4, <1>5 DEF AgreeInv

\* A ring that the overlay shows.
LEMMA RingShownAgrees ==
    ASSUME CallsTypeOK, TalkingWasAccepted, AgreeInv, failed' = {}, NEW u \in User, Deliver(u),
           NEW i, i = Head(toClient[u]).id, Head(toClient[u]).type = "ring", OnRing(u, i),
           screen[u].status = "idle"
    PROVE  AgreeInv'
<1> DEFINE x == [status |-> "ringing", id |-> i, mode |-> "in", acked |-> TRUE, reason |-> "none"]
<1>t. screen \in [User -> Screen] /\ timers \in [User -> SUBSET Timer]
  BY DEF CallsTypeOK
<1>1. /\ i \in CallId
      /\ \A w \in User \ {u} : \A j : SameScreen(w, j) /\ SameSent(w, j) /\ SameDue(w, j)
      /\ call' = call /\ accepted' = accepted
      /\ ~RingDue(u, i)' /\ ~AckDue(u, i)' /\ ~NackDue(u, i)' /\ RingDue(u, i) /\ ~AckDue(u, i) /\ ~NackDue(u, i)
      /\ (AcceptedDue(u, i)' <=> AcceptedDue(u, i)) /\ (EndDue(u, i)' <=> EndDue(u, i))
  BY DeliverKeeps DEF Ends
<1>2. (\A j \in CallId : Fits(j)) /\ Orderly(u) /\ RingsAreOwn /\ InOrder
  BY DEF AgreeInv
<1>3. timers[u] = {} /\ \A j : ~Waits(u, j) /\ ~Talks(u, j) /\ ~Rings(u, j) /\ ~Active(u, j)
  BY <1>2, OffScreen DEF OnScreen
<1>4. screen'[u] = x /\ toServer' = toServer /\ timers'[u] = {Start("in")}
  BY <1>t, <1>3 DEF OnRing, Show
<1>5. x.status = "ringing" /\ x.id = i /\ x.mode = "in" /\ x.acked /\ Start("in").held /\ Start("in").mode = "in"
  BY DEF Start
<1> HIDE DEF x
<1>6. \A j : ~Waits(u, j)' /\ (Talks(u, j)' <=> j = i) /\ (Rings(u, j)' <=> j = i) /\ ~Active(u, j)'
  BY <1>4, <1>5 DEF Waits, Talks, Rings, Active, OnScreen
<1>7. \A j : SameSent(u, j)
  BY <1>4, ServerKept DEF SameSent
<1>8. \A j \in CallId : j # i => SameScreen(u, j) /\ SameSent(u, j)
  BY <1>3, <1>6, <1>7 DEF SameScreen
<1>9. call[i].phase \notin {"unused", "reading", "checked"}
  BY <1>1, <1>2 DEF Fits, Early
<1>10. Fits(i)'
  <2>1. ~AcceptSent(u, i) /\ ~EnderSent(u, i) /\ ~RingSent(u, i)
    BY <1>1, <1>2, <1>3 DEF Fits, Past, Awaited
  <2>2. Registered(i)' /\ Staged(i)'
    <3>1. SUFFICES ASSUME call[i].phase = "up" PROVE Registered(i)' /\ Staged(i)'
      BY <1>1 DEF Registered, Staged
    <3>2. Registered(i) /\ Staged(i) /\ Parties(i) /\ u = call[i].callee
      BY <1>1, <1>2, <3>1 DEF Fits, Registered, InPlace
    <3>3. i \notin accepted
      BY <1>1, <3>1, <3>2 DEF Staged
    <3>4. \A w \in User : ~Active(w, i)
      BY <1>3, <3>1, <3>2, <3>3 DEF Registered, InPlace, TalkingWasAccepted, Active, Talks
    <3>5. ASSUME NEW w \in User PROVE InPlace(w, i)'
      <4>1. InPlace(w, i) /\ call'[i] = call[i]
        BY <1>1, <3>1, <3>2 DEF Registered
      <4>2. CASE w = u
        BY <1>1, <1>4, <1>5, <1>6, <3>1, <3>2, <4>1, <4>2 DEF InPlace, Parties
      <4>3. CASE w # u
        BY <1>1, <4>1, <4>3 DEF InPlace, SameScreen, SameDue
      <4> QED BY <4>2, <4>3
    <3>6. Leaving(i) => Leaving(i)'
      BY <1>1, <1>7, <3>2 DEF Leaving, SameSent, Parties
    <3>7. LET a == call[i].caller IN a \in User \ {u} /\ (Talks(a, i) /\ Timed(a, i) => Timed(a, i)')
      BY <1>1, <3>2 DEF Timed, SameScreen, Parties
    <3>8. Registered(i)'
      BY <1>1, <1>6, <3>1, <3>2, <3>5, <3>6, <3>7 DEF Registered, Parties, SameScreen, SameDue
    <3>9. \A w \in User : ~Active(w, i)'
      BY <1>1, <1>6, <3>4 DEF SameScreen
    <3>10. Staged(i)'
      BY <1>1, <1>6, <1>7, <2>1, <3>2, <3>3, <3>9 DEF Staged, SameSent
    <3> QED BY <3>8, <3>10
  <2>3. Ended(i)'
    BY <1>1, <1>2, <1>6 DEF Fits, Ended, SameScreen, SameDue
  <2>4. \A w \in User : Awaited(w, i)' /\ Past(w, i)'
    BY <1>1, <1>2, <1>6, <1>7, <2>1 DEF Fits, Awaited, Past, SameScreen, SameDue, SameSent
  <2> QED BY <1>1, <1>9, <2>2, <2>3, <2>4 DEF Fits, Early, Asked
<1>11. Orderly(u)'
  BY <1>4, <1>5 DEF Orderly, Talks, Waits, OnScreen
<1>12. i \in placed
  BY <1>1, <1>2, <1>9 DEF RingsAreOwn
<1>13. OpensFirst(toServer'[u]) /\ \A j : RingSent(u, j)' => RingSent(u, j)
  BY <1>2, <1>4, <1>7 DEF InOrder, SameSent
<1> QED BY <1>4, <1>5, <1>8, <1>10, <1>11, <1>12, <1>13, DeliverAgrees

\* A ring that the overlay is too busy for.
LEMMA RingDeclinedAgrees ==
    ASSUME CallsTypeOK, AgreeInv, failed' = {}, NEW u \in User, Deliver(u),
           NEW i, i = Head(toClient[u]).id, Head(toClient[u]).type = "ring", OnRing(u, i),
           screen[u].status # "idle"
    PROVE  AgreeInv'
<1> DEFINE m == [type |-> "decline", id |-> i]
<1>t. timers \in [User -> SUBSET Timer] /\ toServer \in [User -> Seq(Signal)] /\ toServer[u] \in Seq(Signal)
  BY DEF CallsTypeOK
<1>1. /\ i \in CallId
      /\ \A w \in User \ {u} : \A j : SameScreen(w, j) /\ SameSent(w, j) /\ SameDue(w, j)
      /\ call' = call /\ accepted' = accepted
      /\ ~RingDue(u, i)' /\ ~AckDue(u, i)' /\ ~NackDue(u, i)' /\ RingDue(u, i) /\ ~AckDue(u, i) /\ ~NackDue(u, i)
      /\ (AcceptedDue(u, i)' <=> AcceptedDue(u, i)) /\ (EndDue(u, i)' <=> EndDue(u, i))
  BY DeliverKeeps DEF Ends
<1>2. (\A j \in CallId : Fits(j)) /\ Orderly(u) /\ InOrder
  BY DEF AgreeInv
<1>3. screen' = screen /\ toServer'[u] = Append(toServer[u], m) /\ timers'[u] = {t \in timers[u] : t.mode = "out"}
  BY <1>t DEF OnRing, WhenBusy, Send
<1>4. m.type = "decline" /\ m.type \in Enders /\ m.id = i /\ m.type \notin Opening
  BY DEF Enders, Opening
<1> HIDE DEF m
<1>5. \A j : /\ RingSent(u, j)' <=> RingSent(u, j)
             /\ AcceptSent(u, j)' <=> AcceptSent(u, j)
             /\ EnderSent(u, j)' <=> EnderSent(u, j) \/ j = i
  BY <1>t, <1>3, <1>4, ServerGets
<1>6. \A j : SameScreen(u, j)
  BY <1>3, ScreenKept DEF SameScreen
<1>7. \A j \in CallId : j # i => SameScreen(u, j) /\ SameSent(u, j)
  BY <1>5, <1>6 DEF SameSent
<1>8. call[i].phase \notin {"unused", "reading", "checked"}
  BY <1>1, <1>2 DEF Fits, Early
<1>9. Fits(i)'
  <2>1. ~AcceptSent(u, i) /\ ~EnderSent(u, i) /\ ~Talks(u, i)
    BY <1>1, <1>2 DEF Fits, Past
  <2>2. Registered(i)' /\ Staged(i)'
    <3>1. SUFFICES ASSUME call[i].phase = "up" PROVE Registered(i)' /\ Staged(i)'
      BY <1>1 DEF Registered, Staged
    <3>2. Registered(i) /\ Staged(i) /\ Parties(i) /\ u = call[i].callee
      BY <1>1, <1>2, <3>1 DEF Fits, Registered, InPlace
    <3>3. \A w \in User : InPlace(w, i)'
      BY <1>1, <1>6, <3>1, <3>2 DEF Registered, InPlace, SameScreen, SameDue
    <3>4. Leaving(i)'
      BY <1>1, <1>5, <3>2 DEF Leaving
    <3>5. LET a == call[i].caller IN a \in User \ {u} /\ (Talks(a, i) /\ Timed(a, i) => Timed(a, i)')
      BY <1>1, <3>2 DEF Timed, SameScreen, Parties
    <3>6. Registered(i)'
      BY <1>1, <3>1, <3>2, <3>3, <3>4, <3>5 DEF Registered, Parties, SameScreen
    <3>7. Staged(i)'
      BY <1>1, <1>5, <1>6, <3>1, <3>2 DEF Staged, Parties, SameScreen, SameDue, SameSent
    <3> QED BY <3>6, <3>7
  <2>3. Ended(i)'
    BY <1>1, <1>2, <1>6 DEF Fits, Ended, SameScreen, SameDue
  <2>4. \A w \in User : Awaited(w, i)' /\ Past(w, i)'
    BY <1>1, <1>2, <1>5, <1>6, <2>1 DEF Fits, Awaited, Past, SameScreen, SameDue, SameSent
  <2> QED BY <1>1, <1>8, <2>2, <2>3, <2>4 DEF Fits, Early, Asked
<1>10. Orderly(u)'
  BY <1>2, <1>3 DEF Orderly, Talks, Waits, OnScreen
<1>11. OpensFirst(toServer'[u])
  BY <1>t, <1>2, <1>3, <1>4, OpensFirstAfterAppend DEF InOrder
<1> QED BY <1>3, <1>5, <1>7, <1>9, <1>10, <1>11, DeliverAgrees

\* The acknowledgement of a ring.
LEMMA AckAgrees ==
    ASSUME CallsTypeOK, AgreeInv, failed' = {}, NEW u \in User, Deliver(u),
           NEW i, i = Head(toClient[u]).id, Head(toClient[u]).type = "ack", OnAck(u, i)
    PROVE  AgreeInv'
<1>t. screen \in [User -> Screen] /\ timers \in [User -> SUBSET Timer] /\ screen[u] \in Screen
  BY DEF CallsTypeOK
<1>1. /\ i \in CallId
      /\ \A w \in User \ {u} : \A j : SameScreen(w, j) /\ SameSent(w, j) /\ SameDue(w, j)
      /\ call' = call /\ accepted' = accepted
      /\ ~RingDue(u, i)' /\ ~AckDue(u, i)' /\ ~NackDue(u, i)' /\ ~RingDue(u, i) /\ AckDue(u, i) /\ ~NackDue(u, i)
      /\ (AcceptedDue(u, i)' <=> AcceptedDue(u, i)) /\ (EndDue(u, i)' <=> EndDue(u, i))
  BY DeliverKeeps DEF Ends
<1>2. (\A j \in CallId : Fits(j)) /\ Orderly(u) /\ InOrder
  BY DEF AgreeInv
<1>3. Waits(u, i)
  BY <1>1, <1>2 DEF Fits, Awaited
<1>4. screen[u].id = i /\ screen[u].mode = "out" /\ screen[u].status = "ringing" /\ ~screen[u].acked /\ timers[u] = {}
  BY <1>2, <1>3 DEF Waits, Orderly, Talks
<1>5. /\ screen'[u].id = i /\ screen'[u].mode = "out" /\ screen'[u].status = "ringing" /\ screen'[u].acked
      /\ timers'[u] = {Start("out")} /\ toServer' = toServer
  <2>1. screen[u] # NoSession
    BY <1>4 DEF NoSession
  <2>2. screen' = [screen EXCEPT ![u] = [screen[u] EXCEPT !.acked = TRUE]]
    BY <1>t, <1>4 DEF OnAck
  <2>3. LET x == [screen[u] EXCEPT !.acked = TRUE] IN
        x.id = i /\ x.mode = "out" /\ x.status = "ringing" /\ x.acked
    BY <1>t, <1>4, <2>1 DEF Screen
  <2>4. timers'[u] = {Start("out")} /\ toServer' = toServer
    BY <1>t, <1>4 DEF OnAck, Unheld
  <2> QED BY <1>t, <2>2, <2>3, <2>4
<1>6. \A j : /\ (Waits(u, j) <=> j = i) /\ ~Talks(u, j) /\ ~Rings(u, j) /\ ~Active(u, j)
             /\ ~Waits(u, j)' /\ (Talks(u, j)' <=> j = i) /\ (Rings(u, j)' <=> j = i) /\ ~Active(u, j)'
  BY <1>4, <1>5 DEF Waits, Talks, Rings, Active, OnScreen
<1>7. \A j : SameSent(u, j)
  BY <1>5, ServerKept DEF SameSent
<1>8. \A j \in CallId : j # i => SameScreen(u, j) /\ SameSent(u, j)
  BY <1>6, <1>7 DEF SameScreen
<1>9. call[i].phase \notin {"unused", "reading", "checked"}
  BY <1>1, <1>2 DEF Fits, Early
<1>10. Fits(i)'
  <2>1. ~AcceptSent(u, i) /\ ~EnderSent(u, i) /\ ~RingSent(u, i)
    BY <1>1, <1>2, <1>9 DEF Fits, Past, Awaited
  <2>2. Registered(i)' /\ Staged(i)'
    <3>1. SUFFICES ASSUME call[i].phase = "up" PROVE Registered(i)' /\ Staged(i)'
      BY <1>1 DEF Registered, Staged
    <3>2. Registered(i) /\ Staged(i) /\ Parties(i) /\ u = call[i].caller /\ call[i].age = 0
      BY <1>1, <1>2, <3>1 DEF Fits, Registered, InPlace
    <3>3. \A w \in User : ~Active(w, i)
      BY <1>6, <3>1, <3>2 DEF Staged
    <3>4. ASSUME NEW w \in User PROVE InPlace(w, i)'
      <4>1. InPlace(w, i) /\ call'[i] = call[i]
        BY <1>1, <3>1, <3>2 DEF Registered
      <4>2. CASE w = u
        BY <1>1, <1>5, <1>6, <3>1, <3>2, <4>1, <4>2 DEF InPlace, Parties
      <4>3. CASE w # u
        BY <1>1, <4>1, <4>3 DEF InPlace, SameScreen, SameDue
      <4> QED BY <4>2, <4>3
    <3>5. Leaving(i) => Leaving(i)'
      BY <1>1, <1>7, <3>2 DEF Leaving, SameSent, Parties
    <3>6. Timed(u, i)'
      <4>1. Start("out").mode = "out" /\ Start("out").left = RingTimeout
        BY DEF Start
      <4>2. RingTimeout + 0 = RingTimeout
        BY GatewayAssumption
      <4> QED BY <1>1, <1>5, <3>2, <4>1, <4>2 DEF Timed
    <3>7. Registered(i)'
      BY <1>1, <1>6, <3>1, <3>2, <3>4, <3>5, <3>6 DEF Registered, Parties, SameScreen, SameDue
    <3>8. \A w \in User : ~Active(w, i)'
      BY <1>1, <1>6, <3>3 DEF SameScreen
    <3>9. Staged(i)'
      <4>1. PICK b \in User : b = call[i].callee /\ b # u
        BY <3>2 DEF Parties
      <4>2. SameScreen(b, i) /\ SameSent(b, i) /\ SameDue(b, i) /\ call' = call /\ accepted' = accepted
        BY <1>1, <4>1
      <4>3. /\ i \in accepted \/ AcceptSent(b, i) => ~RingDue(b, i) /\ ~Rings(b, i)
            /\ Talks(b, i) /\ ~Rings(b, i) => AcceptSent(b, i) \/ AcceptedDue(u, i)
        BY <1>6, <3>1, <3>2, <4>1 DEF Staged
      <4> QED BY <1>1, <3>1, <3>2, <3>8, <4>1, <4>2, <4>3 DEF Staged, SameScreen, SameDue, SameSent
    <3> QED BY <3>7, <3>9
  <2>3. Ended(i)'
    BY <1>1, <1>2, <1>6 DEF Fits, Ended, SameScreen, SameDue
  <2>4. \A w \in User : Awaited(w, i)' /\ Past(w, i)'
    BY <1>1, <1>2, <1>6, <1>7, <2>1 DEF Fits, Awaited, Past, SameScreen, SameDue, SameSent
  <2> QED BY <1>1, <1>9, <2>2, <2>3, <2>4 DEF Fits, Early, Asked
<1>11. Orderly(u)'
  <2>1. Start("out").held /\ Start("out").mode = "out"
    BY DEF Start
  <2> QED BY <1>5, <2>1 DEF Orderly, Talks, Waits, OnScreen
<1>12. OpensFirst(toServer'[u]) /\ \A j : RingSent(u, j)' => RingSent(u, j)
  BY <1>2, <1>5, <1>7 DEF InOrder, SameSent
<1> QED BY <1>4, <1>5, <1>8, <1>10, <1>11, <1>12, DeliverAgrees

\* A call that is over, refused or left by the other side, leaves the screen, or was
\* not on it.
LEMMA OverAgrees ==
    ASSUME CallsTypeOK, AgreeInv, failed' = {}, NEW u \in User, Deliver(u),
           NEW i, i = Head(toClient[u]).id, Head(toClient[u]).type \in {"nack"} \cup Ends, toServer' = toServer,
           \/ /\ screen[u].id = i /\ timers'[u] = {} /\ ~OnScreen(u)'
              /\ screen'[u].id = i /\ screen'[u].mode = screen[u].mode
              /\ Head(toClient[u]).type = "nack" \/ ~Waits(u, i)
           \/ /\ screen' = screen /\ timers' = timers
              /\ Head(toClient[u]).type \in Ends /\ ~Talks(u, i)
    PROVE  AgreeInv'
<1>1. PICK type \in {"nack"} \cup Ends : type = Head(toClient[u]).type
  OBVIOUS
<1>2. /\ i \in CallId
      /\ \A w \in User \ {u} : \A j : SameScreen(w, j) /\ SameSent(w, j) /\ SameDue(w, j)
      /\ call' = call /\ accepted' = accepted
      /\ ~RingDue(u, i)' /\ ~AckDue(u, i)' /\ ~NackDue(u, i)' /\ ~RingDue(u, i) /\ ~AckDue(u, i)
      /\ (NackDue(u, i) <=> type = "nack") /\ (AcceptedDue(u, i)' <=> AcceptedDue(u, i))
      /\ NackDue(u, i) \/ EndDue(u, i)
      /\ EndDue(u, i)' => EndDue(u, i)
  BY <1>1, DeliverKeeps DEF Ends
<1>3. (\A j \in CallId : Fits(j)) /\ Orderly(u) /\ InOrder
  BY DEF AgreeInv
<1>4. call[i].phase = "over"
  BY <1>2, <1>3 DEF Fits, Past
<1>5. \A j : SameSent(u, j)
  BY ServerKept DEF SameSent
<1>6. /\ \A j \in CallId : j # i => SameScreen(u, j)
      /\ ~Talks(u, i)' /\ (Waits(u, i)' => Waits(u, i) /\ ~NackDue(u, i)) /\ (Waits(u, i) /\ ~NackDue(u, i) => Waits(u, i)')
      /\ Orderly(u)' /\ screen'[u].mode = screen[u].mode /\ screen'[u].id = screen[u].id
  <2>1. CASE /\ screen[u].id = i /\ timers'[u] = {} /\ ~OnScreen(u)'
             /\ screen'[u].id = i /\ screen'[u].mode = screen[u].mode
             /\ type = "nack" \/ ~Waits(u, i)
    <3>1. \A j : ~Waits(u, j)' /\ ~Talks(u, j)' /\ ~Rings(u, j)' /\ ~Active(u, j)'
      BY <2>1 DEF Waits, Talks, Rings, Active, OnScreen
    <3>2. \A j : j # i => ~Waits(u, j) /\ ~Talks(u, j) /\ ~Rings(u, j) /\ ~Active(u, j)
      BY <2>1 DEF Waits, Talks, Rings, Active
    <3>3. Orderly(u)'
      BY <2>1 DEF Orderly
    <3> QED BY <1>2, <2>1, <3>1, <3>2, <3>3 DEF SameScreen
  <2>2. CASE screen' = screen /\ timers' = timers /\ type \in Ends /\ ~Talks(u, i)
    <3>1. \A j : SameScreen(u, j)
      BY <2>2, ScreenKept DEF SameScreen
    <3>2. Orderly(u)'
      BY <1>3, <2>2 DEF Orderly, Talks, Waits, OnScreen
    <3>3. ~NackDue(u, i)
      BY <1>2, <2>2 DEF Ends
    <3> QED BY <2>2, <3>1, <3>2, <3>3 DEF SameScreen
  <2> QED BY <1>1, <2>1, <2>2
<1>7. Fits(i)'
  <2>1. Ended(i)'
    BY <1>2, <1>3, <1>6 DEF Fits, Ended, SameScreen, SameDue
  <2>2. \A w \in User : Awaited(w, i)' /\ Past(w, i)'
    BY <1>2, <1>3, <1>4, <1>5, <1>6 DEF Fits, Awaited, Past, SameScreen, SameDue, SameSent
  <2> QED BY <1>2, <1>4, <2>1, <2>2 DEF Fits, Early, Asked, Registered, Staged
<1>8. OpensFirst(toServer'[u]) /\ \A j : RingSent(u, j)' => RingSent(u, j)
  BY <1>3, <1>5 DEF InOrder, SameSent
<1> QED BY <1>5, <1>6, <1>7, <1>8, DeliverAgrees

\* The news that a call was accepted reaches its caller, while it rings there or not.
LEMMA AcceptedAgrees ==
    ASSUME CallsTypeOK, AgreeInv, failed' = {}, NEW u \in User, Deliver(u),
           NEW i, i = Head(toClient[u]).id, Head(toClient[u]).type = "accepted", toServer' = toServer, timers' = timers,
           \/ Rings(u, i) /\ Goes(u) /\ screen'[u].status = "connecting"
           \/ ~Rings(u, i) /\ screen' = screen
    PROVE  AgreeInv'
<1>1. /\ i \in CallId
      /\ \A w \in User \ {u} : \A j : SameScreen(w, j) /\ SameSent(w, j) /\ SameDue(w, j)
      /\ call' = call /\ accepted' = accepted
      /\ ~RingDue(u, i)' /\ ~AckDue(u, i)' /\ ~NackDue(u, i)' /\ ~RingDue(u, i) /\ ~AckDue(u, i) /\ ~NackDue(u, i)
      /\ AcceptedDue(u, i) /\ (EndDue(u, i)' <=> EndDue(u, i))
  BY DeliverKeeps DEF Ends
<1>2. (\A j \in CallId : Fits(j)) /\ Orderly(u) /\ InOrder
  BY DEF AgreeInv
<1>3. call[i].phase \notin {"unused", "reading", "checked"}
  BY <1>1, <1>2 DEF Fits, Early
<1>4. \A j : SameSent(u, j)
  BY ServerKept DEF SameSent
<1>5. ~Waits(u, i)
  BY <1>1, <1>2, <1>3 DEF Fits, Awaited
<1>6. /\ \A j : j # i => SameScreen(u, j)
      /\ (Talks(u, i)' <=> Talks(u, i)) /\ ~Waits(u, i)' /\ ~Rings(u, i)' /\ (Active(u, i)' <=> Active(u, i))
      /\ Orderly(u)' /\ screen'[u].mode = screen[u].mode /\ screen'[u].id = screen[u].id
  <2>1. CASE Rings(u, i) /\ Goes(u) /\ screen'[u].status = "connecting"
    <3>1. \A j : /\ ~Waits(u, j) /\ (Talks(u, j) <=> j = i) /\ (Rings(u, j) <=> j = i) /\ ~Active(u, j)
                 /\ ~Waits(u, j)' /\ (Talks(u, j)' <=> j = i) /\ ~Rings(u, j)' /\ ~Active(u, j)'
      BY <2>1 DEF Waits, Talks, Rings, Active, OnScreen, Goes
    <3>2. Orderly(u)'
      BY <1>2, <2>1 DEF Orderly, Goes, Rings, Talks, Waits, OnScreen
    <3> QED BY <2>1, <3>1, <3>2 DEF SameScreen, Goes
  <2>2. CASE ~Rings(u, i) /\ screen' = screen
    <3>1. \A j : SameScreen(u, j)
      BY <2>2, ScreenKept DEF SameScreen
    <3>2. Orderly(u)'
      BY <1>2, <2>2 DEF Orderly, Talks, Waits, OnScreen
    <3> QED BY <1>5, <2>2, <3>1, <3>2 DEF SameScreen
  <2> QED BY <2>1, <2>2
<1>7. Fits(i)'
  <2>1. Registered(i)' /\ Staged(i)'
    <3>1. SUFFICES ASSUME call[i].phase = "up" PROVE Registered(i)' /\ Staged(i)'
      BY <1>1 DEF Registered, Staged
    <3>2. Registered(i) /\ Staged(i) /\ Parties(i) /\ u = call[i].caller
      BY <1>1, <1>2, <3>1 DEF Fits, Registered, InPlace
    <3>3. \A w \in User : InPlace(w, i)'
      BY <1>1, <1>6, <3>1, <3>2 DEF Registered, InPlace, SameScreen, SameDue
    <3>4. Leaving(i) => Leaving(i)'
      BY <1>1, <1>4, <3>2 DEF Leaving, SameSent, Parties
    <3>5. Timed(u, i) => Timed(u, i)'
      BY <1>1 DEF Timed
    <3>6. Registered(i)'
      BY <1>1, <1>6, <3>1, <3>2, <3>3, <3>4, <3>5 DEF Registered, Parties, SameScreen, SameDue
    <3>7. \A v, w \in User : Active(v, i)' /\ (Talks(w, i)' \/ Waits(w, i)') => Active(w, i)'
      <4>1. \A w \in User : (Active(w, i)' <=> Active(w, i)) /\ (Talks(w, i)' <=> Talks(w, i)) /\ (Waits(w, i)' => Waits(w, i))
        BY <1>1, <1>6 DEF SameScreen
      <4> QED BY <3>1, <3>2, <4>1 DEF Staged
    <3>8. Staged(i)'
      BY <1>1, <1>4, <1>6, <3>1, <3>2, <3>7 DEF Staged, SameScreen, SameDue, SameSent, Parties
    <3> QED BY <3>6, <3>8
  <2>2. Ended(i)'
    BY <1>1, <1>2, <1>6 DEF Fits, Ended, SameScreen, SameDue
  <2>3. \A w \in User : Awaited(w, i)' /\ Past(w, i)'
    BY <1>1, <1>2, <1>3, <1>4, <1>5, <1>6 DEF Fits, Awaited, Past, SameScreen, SameDue, SameSent
  <2> QED BY <1>1, <1>3, <2>1, <2>2, <2>3 DEF Fits, Early, Asked
<1>8. OpensFirst(toServer'[u]) /\ \A j : RingSent(u, j)' => RingSent(u, j)
  BY <1>2, <1>4 DEF InOrder, SameSent
<1> QED BY <1>4, <1>6, <1>7, <1>8, DeliverAgrees

\* A browser handles a message, whatever its kind.
LEMMA DeliverStepAgrees ==
    ASSUME CallsTypeOK, TalkingWasAccepted, AgreeInv, failed' = {}, NEW u \in User, Deliver(u)
    PROVE  AgreeInv'
<1>1. PICK i, type : i = Head(toClient[u]).id /\ type = Head(toClient[u]).type
  OBVIOUS
<1>t. screen \in [User -> Screen] /\ timers \in [User -> SUBSET Timer] /\ screen[u] \in Screen
  BY DEF CallsTypeOK
<1>2. /\ i \in CallId /\ (NackDue(u, i) <=> type = "nack")
      /\ type \in {"ring", "ack", "nack", "accepted"} \cup Ends
  BY <1>1, DeliverKeeps
<1>3. Orderly(u) /\ Fits(i) /\ Unheld(u) = {}
  BY <1>2 DEF AgreeInv, Orderly, Unheld
<1>4. ASSUME NEW r, Teardown(u, r)
      PROVE  timers'[u] = {} /\ ~OnScreen(u)' /\ screen'[u].id = screen[u].id /\ screen'[u].mode = screen[u].mode
  <2>1. screen[u] = NoSession \/ screen[u] # NoSession
    OBVIOUS
  <2>2. screen'[u] = [screen[u] EXCEPT !.status = "ended", !.reason = r]
    BY <1>t, <1>4 DEF Teardown, LastFrame, Show
  <2>3. screen'[u].status = "ended" /\ screen'[u].id = screen[u].id /\ screen'[u].mode = screen[u].mode
    BY <1>t, <2>2 DEF Screen, NoSession
  <2> QED BY <1>t, <1>3, <1>4, <2>3 DEF Teardown, ClearHeld, OnScreen
<1>5. CASE type = "ring" /\ OnRing(u, i)
  BY <1>1, <1>5, RingShownAgrees, RingDeclinedAgrees
<1>6. CASE type = "ack" /\ OnAck(u, i)
  BY <1>1, <1>6, AckAgrees
<1>7. CASE type = "nack" /\ IF screen[u].id = i /\ screen[u].status = "ringing"
                            THEN Teardown(u, "failed") /\ UNCHANGED toServer ELSE IgnoreEvent
  <2>1. Waits(u, i)
    BY <1>2, <1>3, <1>7 DEF Fits, Awaited
  <2>2. screen[u].id = i /\ Teardown(u, "failed") /\ toServer' = toServer
    BY <1>7, <2>1 DEF Waits
  <2> QED BY <1>1, <1>4, <1>7, <2>2, OverAgrees
<1>8. CASE type = "accepted" /\ IF screen[u].acked /\ screen[u].id = i /\ screen[u].status = "ringing"
                                THEN Show(u, [screen[u] EXCEPT !.status = "connecting"]) /\ UNCHANGED <<timers, resets, toServer>>
                                ELSE IgnoreEvent
  <2>1. CASE Rings(u, i)
    <3>1. Show(u, [screen[u] EXCEPT !.status = "connecting"]) /\ timers' = timers /\ toServer' = toServer
      BY <1>8, <2>1 DEF Rings, Talks
    <3>2. Goes(u) /\ screen'[u].status = "connecting"
      BY <1>t, <2>1, <3>1 DEF Show, Goes, Screen, NoSession, Rings, Talks
    <3> QED BY <1>1, <1>8, <2>1, <3>1, <3>2, AcceptedAgrees
  <2>2. CASE ~Rings(u, i)
    BY <1>1, <1>8, <2>2, AcceptedAgrees DEF Rings, Talks, OnScreen, IgnoreEvent
  <2> QED BY <2>1, <2>2
<1>9. CASE type \in Ends /\ IF screen[u].acked /\ screen[u].id = i /\ screen[u].status # "idle"
                            THEN Teardown(u, type) /\ UNCHANGED toServer ELSE IgnoreEvent
  <2>1. CASE screen[u].acked /\ screen[u].id = i /\ screen[u].status # "idle"
    BY <1>1, <1>4, <1>9, <2>1, OverAgrees DEF Waits
  <2>2. CASE ~(screen[u].acked /\ screen[u].id = i /\ screen[u].status # "idle")
    BY <1>1, <1>9, <2>2, OverAgrees DEF Talks, OnScreen, IgnoreEvent
  <2> QED BY <2>1, <2>2
<1> QED BY <1>1, <1>5, <1>6, <1>7, <1>8, <1>9 DEF Deliver, OnOver, Concerns, Ends

\* What the gateway does leaves the overlays alone.
LEMMA GatewayKeeps ==
    ASSUME AgreeInv, UNCHANGED <<screen, timers, link, placed, untimed, sock>>
    PROVE  /\ \A w \in User : \A j : SameScreen(w, j)
           /\ \A w \in User : Orderly(w)'
           /\ Linked'
<1>1. \A w \in User : \A j : SameScreen(w, j)
  BY ScreenKept DEF SameScreen
<1>2. \A w \in User : Orderly(w)'
  BY DEF AgreeInv, Orderly, OnScreen, Talks, Waits
<1> QED BY <1>1, <1>2, LinkedKept DEF AgreeInv

\* A message reaches the gateway: it was the first, and no ring of its call is left.
LEMMA ReceiveKeeps ==
    ASSUME CallsTypeOK, AgreeInv, NEW u \in User, Receive(u),
           NEW i, NEW type, i = Head(toServer[u]).id, type = Head(toServer[u]).type
    PROVE  /\ i \in CallId /\ UNCHANGED <<screen, timers, link, placed, untimed, sock>>
           /\ \A w \in User \ {u} : \A j : SameSent(w, j)
           /\ \A j : j # i => SameSent(u, j)
           /\ ~RingSent(u, i)' /\ (RingSent(u, i) <=> type = "ring")
           /\ AcceptSent(u, i) <=> AcceptSent(u, i)' \/ type = "accept"
           /\ EnderSent(u, i) <=> EnderSent(u, i)' \/ type \in Enders
           /\ \A w \in User : OpensFirst(toServer'[w])
           /\ \A w \in User : \A j : RingSent(w, j)' => RingSent(w, j)
           /\ type \in {"ring", "accept"} \cup Enders /\ (type = "ring" => Head(toServer[u]).to \in User)
<1> DEFINE m == Head(toServer[u])
<1>t. toServer \in [User -> Seq(Signal)]
  BY DEF CallsTypeOK
<1>1. /\ toServer[u] \in Seq(Signal) /\ toServer[u] # <<>> /\ toServer'[u] = Tail(toServer[u])
      /\ \A w \in User \ {u} : toServer'[w] = toServer[w]
  BY <1>t DEF Receive
<1>2. m \in Signal
  BY <1>1, HeadIs
<1>3. i \in CallId /\ type \in {"ring", "accept"} \cup Enders /\ (type = "ring" => m.to \in User)
  BY <1>2 DEF Signal, Enders
<1>4. UNCHANGED <<screen, timers, link, placed, untimed, sock>>
  BY DEF Receive, RingAsk, Accept, Decline, Cancel, EndCall, vars
<1>5. \A w \in User \ {u} : \A j : SameSent(w, j)
  BY <1>1, ServerKept DEF SameSent
<1>6. \A j : /\ RingSent(u, j) <=> RingSent(u, j)' \/ (type = "ring" /\ i = j)
             /\ AcceptSent(u, j) <=> AcceptSent(u, j)' \/ (type = "accept" /\ i = j)
             /\ EnderSent(u, j) <=> EnderSent(u, j)' \/ (type \in Enders /\ i = j)
  BY <1>1, ServerLoses
<1>7. OpensFirst(toServer[u])
  BY DEF AgreeInv, InOrder
<1>8. OpensFirst(Tail(toServer[u])) /\ ~Has(Tail(toServer[u]), Opening, i)
  BY <1>1, <1>7, OpensFirstAfterTail
<1>9. ~RingSent(u, i)'
  BY <1>1, <1>8 DEF RingSent, Has, Opening
<1>10. \A j : j # i => SameSent(u, j)
  BY <1>6 DEF SameSent
<1>11. \A w \in User : OpensFirst(toServer'[w])
  BY <1>1, <1>8 DEF AgreeInv, InOrder
<1>12. \A w \in User : \A j : RingSent(w, j)' => RingSent(w, j)
  BY <1>5, <1>6 DEF SameSent
<1> QED BY <1>3, <1>4, <1>5, <1>6, <1>9, <1>10, <1>11, <1>12

\* Only one call, and what is under way about it, moves: what is left to show.
LEMMA GatewayAgrees ==
    ASSUME AgreeInv, UNCHANGED <<screen, timers, link, placed, untimed, sock>>, NEW i, i \in placed,
           \A j \in CallId : j # i =>
               SameCall(j) /\ \A w \in User : SameSent(w, j) /\ SameDue(w, j),
           i \in CallId => Fits(i)',
           \A w \in User : OpensFirst(toServer'[w]) /\ OpensFirst(toClient'[w]),
           \A w \in User : \A j : RingSent(w, j)' => RingSent(w, j)
    PROVE  AgreeInv'
<1>1. (\A w \in User : \A j : SameScreen(w, j)) /\ (\A w \in User : Orderly(w)') /\ Linked'
  BY GatewayKeeps
<1>2. \A j \in CallId : j # i => Fits(j)'
  BY <1>1, FitsElsewhere DEF AgreeInv
<1>3. RingsAreOwn'
  <2>1. \A j \in CallId \ placed : call'[j].phase = call[j].phase
    BY DEF SameCall
  <2> QED BY <2>1, RingsStayOwn DEF AgreeInv
<1> QED BY <1>1, <1>2, <1>3 DEF AgreeInv, InOrder

\* The gateway receives a ring and begins to read.
LEMMA RingReceivedAgrees ==
    ASSUME CallsTypeOK, AgreeInv, NEW u \in User, Receive(u), Head(toServer[u]).type = "ring",
           NEW i, i = Head(toServer[u]).id, RingAsk(link[u], Head(toServer[u]).to, i), toClient' = toClient
    PROVE  AgreeInv'
<1>1. PICK v : v = Head(toServer[u]).to
  OBVIOUS
<1>2. /\ i \in CallId /\ UNCHANGED <<screen, timers, link, placed, untimed, sock>> /\ v \in User
      /\ \A w \in User \ {u} : \A j : SameSent(w, j)
      /\ \A j : j # i => SameSent(u, j)
      /\ ~RingSent(u, i)' /\ RingSent(u, i)
      /\ (AcceptSent(u, i) <=> AcceptSent(u, i)') /\ (EnderSent(u, i) <=> EnderSent(u, i)')
      /\ \A w \in User : OpensFirst(toServer'[w])
      /\ \A w \in User : \A j : RingSent(w, j)' => RingSent(w, j)
  BY <1>1, ReceiveKeeps DEF Enders
<1>3. (\A j \in CallId : Fits(j)) /\ RingsAreOwn /\ InOrder /\ Linked
  BY DEF AgreeInv
<1>4. \A w \in User : \A j : SameScreen(w, j) /\ SameDue(w, j)
  BY <1>2, GatewayKeeps, ClientKept DEF SameDue
<1>5. UserOf[link[u]] = u
  BY <1>3 DEF Linked
<1>6. /\ call'[i].phase = "reading" /\ call'[i].caller = u /\ call'[i].callee = v /\ call'[i].age = 0 /\ v # u
      /\ call[i].phase = "unused" /\ accepted' = accepted
      /\ \A j \in CallId : j # i => SameCall(j)
  BY <1>1, <1>2, <1>5 DEF RingAsk, SameCall, CallsTypeOK, TypeOK
<1>7. i \in placed /\ Waits(u, i)
  BY <1>2, <1>3 DEF RingsAreOwn, Fits, Awaited
<1>8. \A w \in User : Waits(w, i) => w = u
  BY <1>3, <1>7 DEF RingsAreOwn, Waits
<1>9. \A w \in User \ {u} : ~RingSent(w, i)
  BY <1>2, <1>3, <1>8 DEF Fits, Awaited
<1>10. Fits(i)'
  <2>1. Early(i)
    BY <1>2, <1>3 DEF Fits
  <2>2. \A w \in User : /\ ~Talks(w, i)' /\ ~AcceptSent(w, i)' /\ ~EnderSent(w, i)' /\ ~RingSent(w, i)'
                        /\ ~RingDue(w, i)' /\ ~AckDue(w, i)' /\ ~NackDue(w, i)'
                        /\ ~AcceptedDue(w, i)' /\ ~EndDue(w, i)'
                        /\ (Waits(w, i)' <=> w = u)
    BY <1>2, <1>4, <1>6, <1>7, <1>8, <1>9, <2>1 DEF Early, SameScreen, SameSent, SameDue
  <2>3. i \notin accepted
    BY <1>6, <2>1 DEF Early
  <2> QED BY <1>2, <1>6, <2>2, <2>3 DEF Fits, Early, Asked, Parties, Registered, Ended, Staged, Awaited, Past
<1>11. \A w \in User : OpensFirst(toClient'[w])
  BY <1>3 DEF InOrder
<1> QED BY <1>2, <1>4, <1>6, <1>7, <1>10, <1>11, GatewayAgrees

\* With everybody connected, what the gateway says reaches the browser.
LEMMA LinkedTells ==
    ASSUME CallsTypeOK, Linked, NEW a \in User, NEW type, NEW i
    PROVE  /\ Told(a, type, i) = Append(toClient[a], [type |-> type, id |-> i])
           /\ Emit(a, type, i) => /\ toClient'[a] = Append(toClient[a], [type |-> type, id |-> i])
                                  /\ \A w \in User \ {a} : toClient'[w] = toClient[w]
<1>1. Reachable(a)
  BY CallsAssumption DEF Linked, Reachable
<1> QED BY <1>1 DEF Told, Emit, CallsTypeOK

\* The gateway is told that the callee accepts, and tells the caller.
LEMMA AcceptReceivedAgrees ==
    ASSUME CallsTypeOK, AgreeInv, NEW u \in User, Receive(u), Head(toServer[u]).type = "accept",
           NEW i, i = Head(toServer[u]).id, Accept(u, i), Emit(PeerFor(i, u), "accepted", i)
    PROVE  AgreeInv'
<1> DEFINE m == [type |-> "accepted", id |-> i]
<1>t. toClient \in [User -> Seq(Notice)]
  BY DEF CallsTypeOK
<1>1. /\ i \in CallId /\ UNCHANGED <<screen, timers, link, placed, untimed, sock>>
      /\ \A w \in User \ {u} : \A j : SameSent(w, j)
      /\ \A j : j # i => SameSent(u, j)
      /\ ~RingSent(u, i)' /\ ~RingSent(u, i) /\ AcceptSent(u, i) /\ (EnderSent(u, i) <=> EnderSent(u, i)')
      /\ \A w \in User : OpensFirst(toServer'[w])
      /\ \A w \in User : \A j : RingSent(w, j)' => RingSent(w, j)
  BY ReceiveKeeps DEF Enders
<1>2. (\A j \in CallId : Fits(j)) /\ RingsAreOwn /\ InOrder /\ Linked
  BY DEF AgreeInv
<1>3. \A w \in User : \A j : SameScreen(w, j)
  BY <1>1, GatewayKeeps
<1>4. call[i].phase = "up" /\ call[i].callee = u /\ call' = call /\ accepted' = accepted \cup {i}
  BY DEF Accept, Up
<1>5. Registered(i) /\ Staged(i) /\ Parties(i) /\ PeerFor(i, u) = call[i].caller
  BY <1>1, <1>2, <1>4 DEF Fits, Registered, Parties, PeerFor
<1>6. PICK a \in User : a = call[i].caller
  BY <1>5 DEF Parties
<1>7. toClient'[a] = Append(toClient[a], m) /\ \A w \in User \ {a} : toClient'[w] = toClient[w]
  <2>1. Emit(a, "accepted", i)
    BY <1>5, <1>6
  <2> QED BY <1>2, <2>1, LinkedTells
<1>8. m.type = "accepted" /\ m.id = i /\ m.type \notin Ends /\ m.type \notin Opening
  BY DEF Ends, Opening
<1> HIDE DEF m
<1>9. \A j : /\ RingDue(a, j)' <=> RingDue(a, j)
             /\ AckDue(a, j)' <=> AckDue(a, j)
             /\ NackDue(a, j)' <=> NackDue(a, j)
             /\ AcceptedDue(a, j)' <=> AcceptedDue(a, j) \/ j = i
             /\ EndDue(a, j)' <=> EndDue(a, j)
  <2>1. toClient[a] \in Seq(Notice)
    BY <1>t
  <2> QED BY <1>7, <1>8, <2>1, ClientGets
<1>10. \A w \in User \ {a} : \A j : SameDue(w, j)
  BY <1>7, ClientKept DEF SameDue
<1>11. \A j \in CallId : j # i => SameCall(j) /\ \A w \in User : SameSent(w, j) /\ SameDue(w, j)
  BY <1>1, <1>4, <1>9, <1>10 DEF SameCall, SameDue
<1>12. Fits(i)'
  <2>1. Registered(i)'
    <3>1. ASSUME NEW w \in User PROVE InPlace(w, i)'
      <4>1. InPlace(w, i) /\ call'[i] = call[i] /\ screen' = screen
        BY <1>1, <1>4, <1>5 DEF Registered
      <4>2. CASE w = a
        BY <1>3, <1>6, <1>9, <4>1, <4>2 DEF InPlace, SameScreen
      <4>3. CASE w # a
        BY <1>3, <1>10, <4>1, <4>3 DEF InPlace, SameScreen, SameDue
      <4> QED BY <4>2, <4>3
    <3>2. Leaving(i) => Leaving(i)'
      BY <1>1, <1>4, <1>5 DEF Leaving, SameSent, Parties
    <3>3. \A w : Timed(w, i)' <=> Timed(w, i)
      BY <1>1, <1>4 DEF Timed
    <3> QED BY <1>3, <1>4, <1>5, <1>6, <1>9, <1>10, <3>1, <3>2, <3>3 DEF Registered, Parties, SameScreen, SameDue
  <2>2. Staged(i)'
    <3>1. ~RingDue(u, i) /\ ~Rings(u, i)
      BY <1>1, <1>4, <1>5 DEF Staged
    <3>2. AcceptedDue(a, i)' /\ ~RingDue(u, i)' /\ ~Rings(u, i)'
      BY <1>3, <1>5, <1>6, <1>9, <1>10, <3>1 DEF Parties, SameScreen, SameDue
    <3>3. \A v, w \in User : Active(v, i)' /\ (Talks(w, i)' \/ Waits(w, i)') => Active(w, i)'
      BY <1>1, <1>3, <1>4, <1>5 DEF Staged, SameScreen
    <3> QED BY <1>4, <1>5, <1>6, <1>9, <3>2, <3>3 DEF Staged
  <2>3. \A w \in User : Awaited(w, i)' /\ Past(w, i)'
    BY <1>1, <1>2, <1>3, <1>4, <1>9, <1>10 DEF Fits, Awaited, Past, SameScreen, SameSent, SameDue
  <2> QED BY <1>4, <2>1, <2>2, <2>3 DEF Fits, Early, Asked, Ended
<1>13. i \in placed
  BY <1>1, <1>2, <1>4 DEF RingsAreOwn
<1>14. \A w \in User : OpensFirst(toClient'[w])
  <2>1. OpensFirst(toClient'[a])
    BY <1>t, <1>2, <1>7, <1>8, OpensFirstAfterAppend DEF InOrder
  <2> QED BY <1>2, <1>7, <2>1 DEF InOrder
<1> QED BY <1>1, <1>11, <1>12, <1>13, <1>14, GatewayAgrees

\* The gateway is told that one side declines, cancels or ends, and tells the other.
LEMMA EnderReceivedAgrees ==
    ASSUME CallsTypeOK, AgreeInv, NEW u \in User, Receive(u), Head(toServer[u]).type \in Enders,
           NEW i, i = Head(toServer[u]).id, NEW type \in Ends, i \in Up, IsParticipant(i, u), call' = Over({i}),
           accepted' = accepted, Emit(PeerFor(i, u), type, i)
    PROVE  AgreeInv'
<1> DEFINE m == [type |-> type, id |-> i]
<1>t. toClient \in [User -> Seq(Notice)] /\ call \in [CallId -> Call]
  BY DEF CallsTypeOK, TypeOK
<1>1. /\ i \in CallId /\ UNCHANGED <<screen, timers, link, placed, untimed, sock>>
      /\ \A w \in User \ {u} : \A j : SameSent(w, j)
      /\ \A j : j # i => SameSent(u, j)
      /\ ~RingSent(u, i)' /\ ~RingSent(u, i) /\ EnderSent(u, i) /\ (AcceptSent(u, i) <=> AcceptSent(u, i)')
      /\ \A w \in User : OpensFirst(toServer'[w])
      /\ \A w \in User : \A j : RingSent(w, j)' => RingSent(w, j)
  BY ReceiveKeeps DEF Enders
<1>2. (\A j \in CallId : Fits(j)) /\ RingsAreOwn /\ InOrder /\ Linked
  BY DEF AgreeInv
<1>3. \A w \in User : \A j : SameScreen(w, j)
  BY <1>1, GatewayKeeps
<1>4. call[i].phase = "up" /\ call'[i].phase = "over" /\ \A j \in CallId : j # i => SameCall(j)
  BY <1>t, <1>1 DEF Up, Over, Gone, Fresh, SameCall
<1>5. Registered(i) /\ Parties(i)
  BY <1>1, <1>2, <1>4 DEF Fits, Registered
<1>6. PICK a \in User : /\ a = PeerFor(i, u) /\ a # u
                        /\ {a, u} = {call[i].caller, call[i].callee}
  BY <1>5 DEF Parties, PeerFor, IsParticipant
<1>7. toClient'[a] = Append(toClient[a], m) /\ \A w \in User \ {a} : toClient'[w] = toClient[w]
  <2>1. Emit(a, type, i)
    BY <1>6
  <2> QED BY <1>2, <2>1, LinkedTells
<1>8. m.type \in Ends /\ m.id = i /\ m.type \notin {"ring", "ack", "nack", "accepted"} /\ m.type \notin Opening
  BY DEF Ends, Opening
<1> HIDE DEF m
<1>9. \A j : /\ RingDue(a, j)' <=> RingDue(a, j)
             /\ AckDue(a, j)' <=> AckDue(a, j)
             /\ NackDue(a, j)' <=> NackDue(a, j)
             /\ AcceptedDue(a, j)' <=> AcceptedDue(a, j)
             /\ EndDue(a, j)' <=> EndDue(a, j) \/ j = i
  <2>1. toClient[a] \in Seq(Notice)
    BY <1>t
  <2> QED BY <1>7, <1>8, <2>1, ClientGets
<1>10. \A w \in User \ {a} : \A j : SameDue(w, j)
  BY <1>7, ClientKept DEF SameDue
<1>11. \A j \in CallId : j # i => SameCall(j) /\ \A w \in User : SameSent(w, j) /\ SameDue(w, j)
  BY <1>1, <1>4, <1>9, <1>10 DEF SameDue
<1>12. Fits(i)'
  <2>1. Ended(i)'
    <3>1. ~Talks(u, i) /\ ~RingDue(u, i) /\ ~AckDue(u, i)
      BY <1>1, <1>2 DEF Fits, Past
    <3>2. \A w \in User : Talks(w, i) \/ RingDue(w, i) \/ AckDue(w, i) => w = a
      BY <1>4, <1>5, <1>6, <3>1 DEF Registered, InPlace
    <3> QED BY <1>3, <1>9, <1>10, <3>2 DEF Ended, SameScreen, SameDue
  <2>2. \A w \in User : Awaited(w, i)'
    BY <1>1, <1>2, <1>3, <1>4, <1>9, <1>10 DEF Fits, Awaited, SameScreen, SameDue
  <2>3. \A w \in User : Past(w, i)'
    BY <1>1, <1>2, <1>3, <1>4, <1>9, <1>10 DEF Fits, Past, SameScreen, SameSent, SameDue
  <2> QED BY <1>4, <2>1, <2>2, <2>3 DEF Fits, Early, Asked, Registered, Staged
<1>13. i \in placed
  BY <1>1, <1>2, <1>4 DEF RingsAreOwn
<1>14. \A w \in User : OpensFirst(toClient'[w])
  <2>1. OpensFirst(toClient'[a])
    BY <1>t, <1>2, <1>7, <1>8, OpensFirstAfterAppend DEF InOrder
  <2> QED BY <1>2, <1>7, <2>1 DEF InOrder
<1> QED BY <1>1, <1>11, <1>12, <1>13, <1>14, GatewayAgrees

\* What comes too late changes nothing but the queue.
LEMMA IgnoredAgrees ==
    ASSUME CallsTypeOK, AgreeInv, NEW u \in User, Receive(u), Head(toServer[u]).type # "ring",
           NEW i, i = Head(toServer[u]).id, i \notin Up, UNCHANGED <<vars, toClient>>
    PROVE  AgreeInv'
<1>1. PICK type : type = Head(toServer[u]).type
  OBVIOUS
<1>2. /\ i \in CallId /\ UNCHANGED <<screen, timers, link, placed, untimed, sock>>
      /\ \A w \in User \ {u} : \A j : SameSent(w, j)
      /\ \A j : j # i => SameSent(u, j)
      /\ ~RingSent(u, i)' /\ ~RingSent(u, i) /\ (AcceptSent(u, i)' => AcceptSent(u, i))
      /\ (EnderSent(u, i)' => EnderSent(u, i)) /\ (AcceptSent(u, i) \/ EnderSent(u, i))
      /\ \A w \in User : OpensFirst(toServer'[w])
      /\ \A w \in User : \A j : RingSent(w, j)' => RingSent(w, j)
  BY <1>1, ReceiveKeeps
<1>3. (\A j \in CallId : Fits(j)) /\ RingsAreOwn /\ InOrder
  BY DEF AgreeInv
<1>4. \A w \in User : \A j : SameScreen(w, j) /\ SameDue(w, j) /\ SameCall(j)
  BY <1>2, GatewayKeeps, ClientKept DEF SameDue, SameCall, vars
<1>5. call[i].phase \notin {"unused", "reading", "checked", "up"} /\ call' = call
  BY <1>2, <1>3 DEF Fits, Early, Up, vars
<1>6. Fits(i)'
  <2>1. Ended(i)'
    BY <1>2, <1>3, <1>4, <1>5 DEF Fits, Ended, SameScreen, SameDue
  <2>2. \A w \in User : Awaited(w, i)' /\ Past(w, i)'
    BY <1>2, <1>3, <1>4, <1>5 DEF Fits, Awaited, Past, SameScreen, SameSent, SameDue
  <2> QED BY <1>5, <2>1, <2>2 DEF Fits, Early, Asked, Registered, Staged
<1>7. i \in placed /\ \A w \in User : OpensFirst(toClient'[w])
  BY <1>2, <1>3, <1>5 DEF RingsAreOwn, InOrder
<1> QED BY <1>2, <1>4, <1>6, <1>7, GatewayAgrees

\* The gateway receives a message, whatever its kind.
LEMMA ReceiveAgrees ==
    ASSUME CallsTypeOK, AgreeInv, NEW u \in User, Receive(u)
    PROVE  AgreeInv'
<1>1. PICK i, type : i = Head(toServer[u]).id /\ type = Head(toServer[u]).type
  OBVIOUS
<1>2. type \in {"ring", "accept"} \cup Enders
  BY <1>1, ReceiveKeeps
<1>3. \/ type = "ring" /\ RingAsk(link[u], Head(toServer[u]).to, i) /\ UNCHANGED toClient
      \/ type = "accept" /\ Accept(u, i) /\ Emit(PeerFor(i, u), "accepted", i)
      \/ type = "decline" /\ Decline(u, i) /\ Emit(PeerFor(i, u), "declined", i)
      \/ type = "cancel" /\ Cancel(u, i) /\ Emit(PeerFor(i, u), "cancelled", i)
      \/ type = "end" /\ EndCall(u, i) /\ Emit(PeerFor(i, u), "ended", i)
      \/ type # "ring" /\ i \notin Up /\ UNCHANGED <<vars, toClient>>
  BY <1>1 DEF Receive
<1>4. ASSUME NEW event \in Ends, type \in Enders, Decline(u, i) \/ Cancel(u, i) \/ EndCall(u, i),
             Emit(PeerFor(i, u), event, i)
      PROVE  AgreeInv'
  <2>1. i \in Up /\ IsParticipant(i, u) /\ call' = Over({i}) /\ accepted' = accepted
    BY <1>4 DEF Decline, Cancel, EndCall, IsParticipant
  <2> QED BY <1>1, <1>4, <2>1, EnderReceivedAgrees
<1> QED BY <1>1, <1>3, <1>4, RingReceivedAgrees, AcceptReceivedAgrees, IgnoredAgrees DEF Ends, Enders

\* A message that opens a call keeps the order if nothing about the call is there yet.
LEMMA OpensFirstAfterOpening ==
    ASSUME NEW q \in Seq(Notice), NEW m, OpensFirst(q), \A k \in DOMAIN q : q[k].id # m.id, NEW r, r = Append(q, m)
    PROVE  OpensFirst(r)
BY OpensFirstAfterAppend

\* A ring on its way through its handler: only its caller has a part in it.
LEMMA AskedOnly ==
    ASSUME AgreeInv, NEW i \in CallId, call[i].phase \in {"reading", "checked"}
    PROVE  /\ Parties(i) /\ call[i].age = 0 /\ i \in placed /\ i \notin accepted
           /\ \A w \in User : /\ (Waits(w, i) <=> w = call[i].caller) /\ ~RingSent(w, i)
                              /\ ~Talks(w, i) /\ ~Rings(w, i) /\ ~Active(w, i) /\ ~AcceptSent(w, i) /\ ~EnderSent(w, i)
                              /\ ~RingDue(w, i) /\ ~AckDue(w, i) /\ ~NackDue(w, i)
                              /\ ~AcceptedDue(w, i) /\ ~EndDue(w, i)
<1>1. Fits(i) /\ RingsAreOwn
  BY DEF AgreeInv
<1>2. Parties(i) /\ call[i].age = 0 /\ Waits(call[i].caller, i)
  BY <1>1 DEF Fits, Asked
<1>3. /\ i \notin accepted
      /\ \A w \in User : /\ ~Talks(w, i) /\ ~AcceptSent(w, i) /\ ~EnderSent(w, i)
                         /\ ~RingDue(w, i) /\ ~AckDue(w, i) /\ ~NackDue(w, i)
                         /\ ~AcceptedDue(w, i) /\ ~EndDue(w, i)
  BY <1>1 DEF Fits, Early
<1>4. \A w \in User : ~RingSent(w, i)
  BY <1>1 DEF Fits, Awaited
<1>5. \A w \in User : Waits(w, i) <=> w = call[i].caller
  BY <1>1, <1>2, <1>3, <1>4 DEF Fits, Awaited
<1>6. i \in placed
  BY <1>1 DEF RingsAreOwn
<1>7. \A w \in User : ~Talks(w, i) => ~Rings(w, i) /\ ~Active(w, i)
  BY DEF Rings, Active
<1> QED BY <1>2, <1>3, <1>4, <1>5, <1>6, <1>7

\* With everybody connected, the caller hears what a handler answers.
LEMMA LinkedHears ==
    ASSUME Linked, NEW i, NEW type
    PROVE  Heard(i, type) = Append(toClient[call[i].caller], [type |-> type, id |-> i])
BY DEF Linked, Heard

\* No call outlives its ring timeout while nothing fails, so the sweep finds none.
LEMMA NothingStale == ASSUME CallsTypeOK, AgreeInv PROVE Stale = {}
<1> SUFFICES ASSUME NEW i \in CallId, call[i].phase = "up", call[i].age > RingTimeout PROVE FALSE
  BY DEF Stale, Up
<1>1. call[i].age \in Nat /\ call[i].age <= RingTimeout
  BY DEF AgreeInv, Fits, Registered, CallsTypeOK, TypeOK, Call
<1> QED BY <1>1, GatewayAssumption

\* A ring is refused, and its caller told.
LEMMA RefusedAgrees ==
    ASSUME CallsTypeOK, AgreeInv, NEW i \in CallId, call[i].phase \in {"reading", "checked"},
           call' = Over({i}), accepted' = accepted, sock' = sock,
           toClient' = [toClient EXCEPT ![call[i].caller] = Heard(i, "nack")],
           UNCHANGED <<screen, timers, toServer, link, placed, untimed>>
    PROVE  AgreeInv'
<1> DEFINE m == [type |-> "nack", id |-> i]
<1>t. toClient \in [User -> Seq(Notice)] /\ call \in [CallId -> Call]
  BY DEF CallsTypeOK, TypeOK
<1>1. /\ Parties(i) /\ i \in placed
      /\ \A w \in User : /\ (Waits(w, i) <=> w = call[i].caller) /\ ~RingSent(w, i)
                         /\ ~Talks(w, i) /\ ~AcceptSent(w, i) /\ ~EnderSent(w, i)
                         /\ ~RingDue(w, i) /\ ~AckDue(w, i) /\ ~NackDue(w, i)
                         /\ ~AcceptedDue(w, i) /\ ~EndDue(w, i)
  BY AskedOnly
<1>2. (\A j \in CallId : Fits(j)) /\ InOrder /\ Linked
  BY DEF AgreeInv
<1>3. \A w \in User : \A j : SameScreen(w, j) /\ SameSent(w, j)
  BY GatewayKeeps, ServerKept DEF SameSent
<1>4. call'[i].phase = "over" /\ \A j \in CallId : j # i => SameCall(j)
  BY <1>t DEF Over, Gone, Fresh, SameCall
<1>5. PICK a \in User : a = call[i].caller
  BY <1>1 DEF Parties
<1>6. toClient'[a] = Append(toClient[a], m) /\ \A w \in User \ {a} : toClient'[w] = toClient[w]
  BY <1>t, <1>2, <1>5, LinkedHears
<1>7. m.type = "nack" /\ m.id = i /\ m.type \notin Ends
  BY DEF Ends
<1> HIDE DEF m
<1>8. \A j : /\ RingDue(a, j)' <=> RingDue(a, j)
             /\ AckDue(a, j)' <=> AckDue(a, j)
             /\ NackDue(a, j)' <=> NackDue(a, j) \/ j = i
             /\ AcceptedDue(a, j)' <=> AcceptedDue(a, j)
             /\ EndDue(a, j)' <=> EndDue(a, j)
  <2>1. toClient[a] \in Seq(Notice)
    BY <1>t
  <2> QED BY <1>6, <1>7, <2>1, ClientGets
<1>9. \A w \in User \ {a} : \A j : SameDue(w, j)
  BY <1>6, ClientKept DEF SameDue
<1>10. \A j \in CallId : j # i => SameCall(j) /\ \A w \in User : SameSent(w, j) /\ SameDue(w, j)
  BY <1>3, <1>4, <1>8, <1>9 DEF SameDue
<1>11. Fits(i)'
  <2>1. \A w \in User : /\ ~RingSent(w, i)' /\ ~Talks(w, i)' /\ ~AcceptSent(w, i)' /\ ~EnderSent(w, i)'
                        /\ ~RingDue(w, i)' /\ ~AckDue(w, i)' /\ (Waits(w, i)' <=> NackDue(w, i)')
    BY <1>1, <1>3, <1>5, <1>8, <1>9 DEF SameScreen, SameSent, SameDue
  <2> QED BY <1>4, <2>1 DEF Fits, Early, Asked, Registered, Ended, Staged, Awaited, Past
<1>12. \A w \in User : OpensFirst(toClient'[w])
  <2>1. \A k \in DOMAIN toClient[a] : toClient[a][k].id # i
    BY <1>t, <1>1, NothingDue DEF RingDue, AckDue, NackDue, AcceptedDue, EndDue
  <2>2. OpensFirst(toClient'[a])
    <3>1. /\ toClient[a] \in Seq(Notice) /\ OpensFirst(toClient[a])
          /\ \A k \in DOMAIN toClient[a] : toClient[a][k].id # m.id
      BY <1>t, <1>2, <1>7, <2>1 DEF InOrder
    <3> QED BY <1>6, <3>1, OpensFirstAfterOpening
  <2> QED BY <1>2, <1>6, <2>2 DEF InOrder
<1>13. (\A w \in User : OpensFirst(toServer'[w])) /\ \A w \in User : \A j : RingSent(w, j)' => RingSent(w, j)
  BY <1>2, <1>3 DEF InOrder, SameSent
<1> QED BY <1>1, <1>10, <1>11, <1>12, <1>13, GatewayAgrees

\* A ring is registered: its callee is rung, its caller told.
LEMMA PutAgrees ==
    ASSUME CallsTypeOK, AgreeInv, NEW i \in CallId, call[i].phase = "checked",
           call' = [call EXCEPT ![i].phase = "up"], accepted' = accepted, sock' = sock,
           toClient' = [toClient EXCEPT ![call[i].callee] = Told(call[i].callee, "ring", i),
                                        ![call[i].caller] = Heard(i, "ack")],
           UNCHANGED <<screen, timers, toServer, link, placed, untimed>>
    PROVE  AgreeInv'
<1> DEFINE ring == [type |-> "ring", id |-> i]
           ack  == [type |-> "ack", id |-> i]
<1>t. toClient \in [User -> Seq(Notice)] /\ call \in [CallId -> Call]
  BY DEF CallsTypeOK, TypeOK
<1>1. /\ Parties(i) /\ call[i].age = 0 /\ i \in placed /\ i \notin accepted
      /\ \A w \in User : /\ (Waits(w, i) <=> w = call[i].caller) /\ ~RingSent(w, i)
                         /\ ~Talks(w, i) /\ ~Rings(w, i) /\ ~Active(w, i) /\ ~AcceptSent(w, i) /\ ~EnderSent(w, i)
                         /\ ~RingDue(w, i) /\ ~AckDue(w, i) /\ ~NackDue(w, i)
                         /\ ~AcceptedDue(w, i) /\ ~EndDue(w, i)
  BY AskedOnly
<1>2. (\A j \in CallId : Fits(j)) /\ InOrder /\ Linked
  BY DEF AgreeInv
<1>3. \A w \in User : \A j : SameScreen(w, j) /\ SameSent(w, j)
  BY GatewayKeeps, ServerKept DEF SameSent
<1>4. PICK a \in User, b \in User : a = call[i].caller /\ b = call[i].callee /\ a # b
  BY <1>1 DEF Parties
<1>5. /\ call'[i].phase = "up" /\ call'[i].caller = a /\ call'[i].callee = b /\ call'[i].age = 0
      /\ \A j \in CallId : j # i => SameCall(j)
  <2>1. call[i] \in Call
    BY <1>t
  <2> QED BY <1>t, <1>1, <1>4, <2>1 DEF Call, SameCall
<1>6. /\ toClient'[a] = Append(toClient[a], ack) /\ toClient'[b] = Append(toClient[b], ring)
      /\ \A w \in User \ {a, b} : toClient'[w] = toClient[w]
  <2>1. Told(b, "ring", i) = Append(toClient[b], ring)
    BY <1>2, LinkedTells
  <2>2. Heard(i, "ack") = Append(toClient[a], ack)
    BY <1>2, <1>4, LinkedHears
  <2> HIDE DEF ring, ack
  <2>3. toClient' = [toClient EXCEPT ![b] = Append(toClient[b], ring), ![a] = Append(toClient[a], ack)]
    BY <1>4, <2>1, <2>2
  <2> QED BY <1>t, <1>4, <2>3
<1>7. /\ ring.type = "ring" /\ ring.id = i /\ ring.type \notin Ends
      /\ ack.type = "ack" /\ ack.id = i /\ ack.type \notin Ends
  BY DEF Ends
<1> HIDE DEF ring, ack
<1>8. toClient[a] \in Seq(Notice) /\ toClient[b] \in Seq(Notice)
  BY <1>t
<1>9. \A j : /\ RingDue(a, j)' <=> RingDue(a, j)
             /\ AckDue(a, j)' <=> AckDue(a, j) \/ j = i
             /\ NackDue(a, j)' <=> NackDue(a, j)
             /\ AcceptedDue(a, j)' <=> AcceptedDue(a, j)
             /\ EndDue(a, j)' <=> EndDue(a, j)
  <2>1. \A j : /\ RingDue(a, j)' <=> RingDue(a, j) \/ (ack.type = "ring" /\ ack.id = j)
               /\ AckDue(a, j)' <=> AckDue(a, j) \/ (ack.type = "ack" /\ ack.id = j)
               /\ NackDue(a, j)' <=> NackDue(a, j) \/ (ack.type = "nack" /\ ack.id = j)
               /\ AcceptedDue(a, j)' <=> AcceptedDue(a, j) \/ (ack.type = "accepted" /\ ack.id = j)
               /\ EndDue(a, j)' <=> EndDue(a, j) \/ (ack.type \in Ends /\ ack.id = j)
    BY <1>6, <1>8, ClientGets
  <2> QED BY <1>7, <2>1
<1>10. \A j : /\ RingDue(b, j)' <=> RingDue(b, j) \/ j = i
              /\ AckDue(b, j)' <=> AckDue(b, j)
              /\ NackDue(b, j)' <=> NackDue(b, j)
              /\ AcceptedDue(b, j)' <=> AcceptedDue(b, j)
              /\ EndDue(b, j)' <=> EndDue(b, j)
  <2>1. \A j : /\ RingDue(b, j)' <=> RingDue(b, j) \/ (ring.type = "ring" /\ ring.id = j)
               /\ AckDue(b, j)' <=> AckDue(b, j) \/ (ring.type = "ack" /\ ring.id = j)
               /\ NackDue(b, j)' <=> NackDue(b, j) \/ (ring.type = "nack" /\ ring.id = j)
               /\ AcceptedDue(b, j)' <=> AcceptedDue(b, j) \/ (ring.type = "accepted" /\ ring.id = j)
               /\ EndDue(b, j)' <=> EndDue(b, j) \/ (ring.type \in Ends /\ ring.id = j)
    BY <1>6, <1>8, ClientGets
  <2> QED BY <1>7, <2>1
<1>11. \A w \in User \ {a, b} : \A j : SameDue(w, j)
  BY <1>6, ClientKept DEF SameDue
<1>12. \A j \in CallId : j # i => SameCall(j) /\ \A w \in User : SameSent(w, j) /\ SameDue(w, j)
  BY <1>3, <1>5, <1>9, <1>10, <1>11 DEF SameDue
<1>13. Fits(i)'
  <2>1. \A w \in User : /\ ~RingSent(w, i)' /\ ~Talks(w, i)' /\ ~Rings(w, i)' /\ ~Active(w, i)'
                        /\ ~AcceptSent(w, i)' /\ ~EnderSent(w, i)'
                        /\ ~NackDue(w, i)' /\ ~AcceptedDue(w, i)' /\ ~EndDue(w, i)'
                        /\ (Waits(w, i)' <=> w = a) /\ (AckDue(w, i)' <=> w = a) /\ (RingDue(w, i)' <=> w = b)
    BY <1>1, <1>3, <1>4, <1>9, <1>10, <1>11 DEF SameScreen, SameSent, SameDue
  <2>2. Registered(i)'
    BY <1>4, <1>5, <2>1, GatewayAssumption DEF Registered, Parties, InPlace
  <2>3. Staged(i)'
    BY <1>1, <1>5, <1>4, <2>1 DEF Staged
  <2> QED BY <1>5, <2>1, <2>2, <2>3 DEF Fits, Early, Asked, Ended, Awaited, Past
<1>14. \A w \in User : OpensFirst(toClient'[w])
  <2>1. ASSUME NEW w \in {a, b} PROVE \A k \in DOMAIN toClient[w] : toClient[w][k].id # i
    BY <1>1, <1>8, NothingDue DEF RingDue, AckDue, NackDue, AcceptedDue, EndDue
  <2>2. OpensFirst(toClient[a]) /\ OpensFirst(toClient[b])
    BY <1>2 DEF InOrder
  <2>3. OpensFirst(toClient'[a])
    <3>1. \A k \in DOMAIN toClient[a] : toClient[a][k].id # ack.id
      BY <1>7, <2>1
    <3> QED BY <1>6, <1>8, <2>2, <3>1, OpensFirstAfterOpening
  <2>4. OpensFirst(toClient'[b])
    <3>1. \A k \in DOMAIN toClient[b] : toClient[b][k].id # ring.id
      BY <1>7, <2>1
    <3> QED BY <1>6, <1>8, <2>2, <3>1, OpensFirstAfterOpening
  <2> QED BY <1>2, <1>6, <2>3, <2>4 DEF InOrder
<1>15. (\A w \in User : OpensFirst(toServer'[w])) /\ \A w \in User : \A j : RingSent(w, j)' => RingSent(w, j)
  BY <1>2, <1>3 DEF InOrder, SameSent
<1> QED BY <1>1, <1>12, <1>13, <1>14, <1>15, GatewayAgrees

\* A step of a handler in the gateway, whatever it finds.
LEMMA HandleAgrees ==
    ASSUME CallsTypeOK, AgreeInv, NEW i \in CallId, Handle(i)
    PROVE  AgreeInv'
<1>t. call \in [CallId -> Call]
  BY DEF CallsTypeOK, TypeOK
<1>1. UNCHANGED <<screen, timers, toServer, link, placed, untimed>> /\ accepted' = accepted /\ sock' = sock
  BY DEF Handle, CheckRing, PutRing, RingCheck, RingPut
<1>2. Stale = {}
  BY NothingStale
<1>3. Over({}) = call /\ Over({i})[i].phase = "over" /\ \A j \in CallId : Over({j})[j].phase = "over"
  BY <1>t DEF Over, Gone, Fresh
<1>4. CASE CheckRing(i)
  <2>1. call[i].phase = "reading" /\ (call' = Over({i}) \/ call' = [call EXCEPT ![i].phase = "checked"])
    BY <1>2, <1>3, <1>4 DEF CheckRing, RingCheck
  <2>2. CASE call' = Over({i})
    BY <1>1, <1>3, <1>4, <2>1, <2>2, RefusedAgrees DEF CheckRing
  <2>3. CASE call' = [call EXCEPT ![i].phase = "checked"]
    <3>1. /\ call'[i].phase = "checked" /\ call'[i].caller = call[i].caller /\ call'[i].callee = call[i].callee
          /\ call'[i].age = call[i].age
          /\ \A j \in CallId : j # i => SameCall(j)
      <4>1. call[i] \in Call
        BY <1>t
      <4> QED BY <1>t, <1>1, <2>3, <4>1 DEF Call, SameCall
    <3>2. toClient' = toClient
      BY <1>4, <3>1 DEF CheckRing
    <3>3. \A w \in User : \A j : SameScreen(w, j) /\ SameSent(w, j) /\ SameDue(w, j)
      BY <1>1, <3>2, GatewayKeeps, ServerKept, ClientKept DEF SameSent, SameDue
    <3>4. /\ Parties(i) /\ call[i].age = 0 /\ i \in placed /\ i \notin accepted
          /\ \A w \in User : /\ (Waits(w, i) <=> w = call[i].caller) /\ ~RingSent(w, i)
                             /\ ~Talks(w, i) /\ ~AcceptSent(w, i) /\ ~EnderSent(w, i)
                             /\ ~RingDue(w, i) /\ ~AckDue(w, i) /\ ~NackDue(w, i)
                             /\ ~AcceptedDue(w, i) /\ ~EndDue(w, i)
      BY <2>1, AskedOnly
    <3>5. Fits(i)'
      <4>1. \A w \in User : /\ (Waits(w, i)' <=> w = call[i].caller) /\ ~RingSent(w, i)'
                            /\ ~Talks(w, i)' /\ ~AcceptSent(w, i)' /\ ~EnderSent(w, i)'
                            /\ ~RingDue(w, i)' /\ ~AckDue(w, i)' /\ ~NackDue(w, i)'
                            /\ ~AcceptedDue(w, i)' /\ ~EndDue(w, i)'
        BY <3>3, <3>4 DEF SameScreen, SameSent, SameDue
      <4> QED BY <1>1, <3>1, <3>4, <4>1
              DEF Fits, Early, Asked, Parties, Registered, Ended, Staged, Awaited, Past
    <3>6. /\ \A w \in User : OpensFirst(toServer'[w]) /\ OpensFirst(toClient'[w])
          /\ \A w \in User : \A j : RingSent(w, j)' => RingSent(w, j)
      BY <1>1, <3>2, <3>3 DEF AgreeInv, InOrder, SameSent
    <3> QED BY <1>1, <3>1, <3>3, <3>4, <3>5, <3>6, GatewayAgrees
  <2> QED BY <2>1, <2>2, <2>3
<1>5. CASE PutRing(i)
  <2>1. call[i].phase = "checked" /\ (call' = [call EXCEPT ![i].phase = "up"] \/ call' = Over({i}))
    BY <1>5 DEF PutRing, RingPut
  <2>2. CASE call' = Over({i})
    <3>1. toClient' = [toClient EXCEPT ![call[i].caller] = Heard(i, "nack")]
      BY <1>3, <1>5, <2>2 DEF PutRing
    <3> QED BY <1>1, <2>1, <2>2, <3>1, RefusedAgrees
  <2>3. CASE call' = [call EXCEPT ![i].phase = "up"]
    <3>1. call'[i].phase = "up"
      BY <1>t, <2>3 DEF Call
    <3>2. toClient' = [toClient EXCEPT ![call[i].callee] = Told(call[i].callee, "ring", i),
                                       ![call[i].caller] = Heard(i, "ack")]
      BY <1>5, <3>1 DEF PutRing
    <3> QED BY <1>1, <2>1, <2>3, <3>2, PutAgrees
  <2> QED BY <2>1, <2>2, <2>3
<1> QED BY <1>4, <1>5 DEF Handle

\* Once the messages are through, everybody in a registered call shows it.
LEMMA QuietCalls ==
    ASSUME CallsTypeOK, AgreeInv, Quiet
    PROVE  /\ \A u \in User : \A i : /\ ~RingSent(u, i) /\ ~AcceptSent(u, i) /\ ~EnderSent(u, i)
                                 /\ ~RingDue(u, i) /\ ~AckDue(u, i) /\ ~NackDue(u, i)
                                 /\ ~AcceptedDue(u, i) /\ ~EndDue(u, i)
           /\ \A i \in CallId : call[i].phase \notin {"reading", "checked"}
           /\ \A i \in Up : Parties(i) /\ Talks(call[i].caller, i) /\ Talks(call[i].callee, i)
           /\ \A u \in User, i \in CallId : ~Waits(u, i) /\ (Talks(u, i) => i \in Up)
<1>1. /\ Linked /\ (\A i \in CallId : Fits(i))
  BY DEF AgreeInv
<1>2. \A u \in User : toClient[u] = <<>> /\ toServer[u] = <<>>
  <2>0. None \notin Socket
    BY CallsAssumption
  <2>1. \A u \in User : link[u] # None
    BY <1>1, <2>0 DEF Linked
  <2> QED BY <2>1 DEF Quiet
<1>3. \A u \in User : \A i : /\ ~RingSent(u, i) /\ ~AcceptSent(u, i) /\ ~EnderSent(u, i)
                         /\ ~RingDue(u, i) /\ ~AckDue(u, i) /\ ~NackDue(u, i)
                         /\ ~AcceptedDue(u, i) /\ ~EndDue(u, i)
  BY <1>2, HasNothing DEF RingSent, AcceptSent, EnderSent, RingDue, AckDue, NackDue, AcceptedDue, EndDue
<1>4. \A i \in CallId : call[i].phase \notin {"reading", "checked"}
  BY DEF Quiet, InFlight
<1>5. \A i \in Up : Parties(i) /\ Talks(call[i].caller, i) /\ Talks(call[i].callee, i)
  BY <1>1, <1>3 DEF Up, Fits, Registered, Leaving, Parties
<1>6. \A u \in User, i \in CallId : ~Waits(u, i)
  BY <1>1, <1>3, <1>4 DEF Fits, Awaited
<1>7. \A u \in User, i \in CallId : Talks(u, i) => call[i].phase \notin {"unused", "over"}
  BY <1>1, <1>3 DEF Fits, Early, Ended
<1>8. \A u \in User, i \in CallId : Talks(u, i) => i \in Up
  <2>1. \A i \in CallId : call[i].phase \in Phase
    BY DEF CallsTypeOK, TypeOK, Call
  <2> QED BY <1>4, <1>7, <2>1 DEF Phase, Up
<1> QED BY <1>3, <1>4, <1>5, <1>6, <1>8

\* Time passes when nothing is under way: a registered call and its caller's timeout
\* grow older together.
LEMMA WaitAgrees ==
    ASSUME CallsTypeOK, AgreeInv, Wait
    PROVE  AgreeInv'
<1>t. /\ call \in [CallId -> Call] /\ timers \in [User -> SUBSET Timer] /\ RingTimeout \in Nat
  BY GatewayAssumption DEF CallsTypeOK, TypeOK
<1>1. /\ UNCHANGED <<screen, toServer, toClient, link, placed, untimed>> /\ Quiet
      /\ timers' = Countdown /\ \A u \in User : \A t \in timers[u] : t.left # 0
  BY DEF Wait, Expired
<1>2. UNCHANGED <<sock, accepted>>
  BY DEF Wait, Tick, vars
<1>3. /\ Linked /\ RingsAreOwn /\ InOrder /\ (\A w \in User : Orderly(w)) /\ (\A j \in CallId : Fits(j))
  BY DEF AgreeInv
<1>4. /\ \A u \in User : \A i : /\ ~RingSent(u, i) /\ ~AcceptSent(u, i) /\ ~EnderSent(u, i)
                            /\ ~RingDue(u, i) /\ ~AckDue(u, i) /\ ~NackDue(u, i)
                            /\ ~AcceptedDue(u, i) /\ ~EndDue(u, i)
      /\ \A i \in CallId : call[i].phase \notin {"reading", "checked"}
      /\ \A i \in Up : Parties(i) /\ Talks(call[i].caller, i) /\ Talks(call[i].callee, i)
      /\ \A u \in User, i \in CallId : ~Waits(u, i) /\ (Talks(u, i) => i \in Up)
  BY <1>1, QuietCalls
<1>5. \A u \in User : timers'[u] = {[t EXCEPT !.left = t.left - 1] : t \in timers[u]}
  <2>1. \A u \in User : \A t \in timers[u] :
            [t EXCEPT !.left = IF @ = 0 THEN 0 ELSE @ - 1] = [t EXCEPT !.left = t.left - 1]
    BY <1>1, <1>t DEF Timer
  <2> QED BY <1>1, <2>1 DEF Countdown
<1>6. \A t \in Timer : LET s == [t EXCEPT !.left = t.left - 1] IN
          s.held = t.held /\ s.mode = t.mode /\ s.left = t.left - 1
  BY DEF Timer
<1>7. \A i \in CallId : /\ call'[i].phase = call[i].phase /\ call'[i].caller = call[i].caller
                        /\ call'[i].callee = call[i].callee
                        /\ i \in Up => call'[i].age = call[i].age + 1
  <2>1. Stale = {}
    BY NothingStale
  <2>2. CASE Tick
    <3>1. \A i \in CallId : call'[i] = IF i \in Up /\ call[i].age <= RingTimeout
                                       THEN [call[i] EXCEPT !.age = @ + 1] ELSE call[i]
      BY <2>2 DEF Tick
    <3>2. ASSUME NEW i \in CallId
          PROVE  /\ call'[i].phase = call[i].phase /\ call'[i].caller = call[i].caller
                 /\ call'[i].callee = call[i].callee
                 /\ i \in Up => call'[i].age = call[i].age + 1
      <4>1. call[i] \in Call
        BY <1>t
      <4>2. i \in Up => call[i].age <= RingTimeout
        BY <2>1, <4>1, <1>t DEF Stale, Call
      <4> QED BY <3>1, <4>1, <4>2 DEF Call
    <3> QED BY <3>2
  <2>3. CASE Up = Stale /\ UNCHANGED vars
    BY <2>1, <2>3 DEF vars
  <2> QED BY <2>2, <2>3 DEF Wait
<1>8. ASSUME NEW i \in Up
      PROVE  call'[i].age <= RingTimeout /\ Timed(call[i].caller, i)'
  <2>1. PICK a \in User : a = call[i].caller
    BY <1>4 DEF Parties
  <2>2. i \in CallId /\ call[i].age \in Nat /\ Timed(a, i) /\ call'[i].age = call[i].age + 1
       /\ call'[i].caller = a
    BY <1>3, <1>4, <1>7, <1>t, <2>1 DEF Fits, Registered, Up, Call
  <2>3. PICK t \in timers[a] : t.mode = "out" /\ t.left + call[i].age = RingTimeout
    BY <2>2 DEF Timed
  <2>4. t \in Timer /\ t.left \in Nat /\ t.left # 0
    BY <1>1, <1>t, <2>3 DEF Timer
  <2>5. PICK s \in timers'[a] : s.mode = "out" /\ s.left = t.left - 1
    BY <1>5, <1>6, <2>3, <2>4
  <2>6. call'[i].age <= RingTimeout /\ s.left + call'[i].age = RingTimeout
    BY <1>t, <2>2, <2>3, <2>4, <2>5
  <2>7. Timed(call[i].caller, i)'
    BY <2>2, <2>5, <2>6 DEF Timed
  <2> QED BY <2>6, <2>7
<1>9. \A u \in User : Orderly(u)'
  <2> SUFFICES ASSUME NEW u \in User PROVE Orderly(u)'
    OBVIOUS
  <2>1. \A s \in timers'[u] : \E t \in timers[u] : s.held = t.held /\ s.mode = t.mode
    <3> SUFFICES ASSUME NEW s \in timers'[u] PROVE \E t \in timers[u] : s.held = t.held /\ s.mode = t.mode
      OBVIOUS
    <3>1. PICK t \in timers[u] : s = [t EXCEPT !.left = t.left - 1]
      BY <1>5
    <3>2. t \in Timer
      BY <1>t
    <3> QED BY <1>6, <3>1, <3>2
  <2> QED BY <1>1, <1>3, <2>1 DEF Orderly, OnScreen, Talks, Waits
<1>10. ASSUME NEW i \in CallId PROVE Fits(i)'
  <2>1. \A u \in User : /\ (Waits(u, i)' <=> Waits(u, i)) /\ (Talks(u, i)' <=> Talks(u, i))
                        /\ (Rings(u, i)' <=> Rings(u, i)) /\ (Active(u, i)' <=> Active(u, i))
    BY <1>1, ScreenKept
  <2>2. \A u \in User : /\ ~RingSent(u, i)' /\ ~AcceptSent(u, i)' /\ ~EnderSent(u, i)'
                        /\ ~RingDue(u, i)' /\ ~AckDue(u, i)' /\ ~NackDue(u, i)'
                        /\ ~AcceptedDue(u, i)' /\ ~EndDue(u, i)'
    BY <1>1, <1>4, ServerKept, ClientKept
  <2>3. /\ call'[i].phase = call[i].phase /\ call'[i].caller = call[i].caller
        /\ call'[i].callee = call[i].callee /\ call[i].phase \notin {"reading", "checked"}
    BY <1>4, <1>7
  <2>4. Early(i)' /\ Asked(i)'
    BY <1>2, <1>3, <2>1, <2>2, <2>3 DEF Fits, Early, Asked
  <2>5. Ended(i)'
    BY <1>3, <1>4, <2>1, <2>2, <2>3 DEF Fits, Ended
  <2>6. \A u \in User : Awaited(u, i)' /\ Past(u, i)'
    BY <1>4, <2>1, <2>2 DEF Awaited, Past
  <2>7. Registered(i)' /\ Staged(i)'
    <3>1. SUFFICES ASSUME call[i].phase = "up" PROVE Registered(i)' /\ Staged(i)'
      BY <2>3 DEF Registered, Staged
    <3>2. /\ Registered(i) /\ Staged(i) /\ Parties(i) /\ i \in Up
          /\ Talks(call[i].caller, i) /\ Talks(call[i].callee, i)
      BY <1>3, <1>4, <3>1 DEF Fits, Up
    <3>3. call'[i].age <= RingTimeout /\ Timed(call[i].caller, i)'
      BY <1>8, <3>2
    <3>4. \A u \in User : InPlace(u, i)'
      BY <1>1, <2>1, <2>2, <2>3, <3>1, <3>2 DEF Registered, InPlace
    <3>5. Registered(i)'
      BY <2>1, <2>3, <3>1, <3>2, <3>3, <3>4 DEF Registered, Parties
    <3>6. Staged(i)'
      BY <1>2, <1>4, <2>1, <2>2, <2>3, <3>1, <3>2 DEF Staged, Parties
    <3> QED BY <3>5, <3>6
  <2> QED BY <2>4, <2>5, <2>6, <2>7 DEF Fits
<1>11. RingsAreOwn'
  <2>1. \A w \in User : \A j : RingSent(w, j)' <=> RingSent(w, j)
    BY <1>1, ServerKept
  <2> QED BY <1>1, <1>3, <1>7, <2>1, RingsStayOwn
<1>12. InOrder' /\ Linked'
  BY <1>1, <1>2, <1>3, LinkedKept DEF InOrder
<1> QED BY <1>9, <1>10, <1>11, <1>12 DEF AgreeInv

\* At the start nobody is in a call and everybody is connected.
LEMMA AgreeInit == CallsInit => AgreeInv
<1> SUFFICES ASSUME CallsInit PROVE AgreeInv
  OBVIOUS
<1>1. /\ \A u \in User : screen[u] = NoSession /\ timers[u] = {} /\ toServer[u] = <<>> /\ toClient[u] = <<>>
      /\ \A i \in CallId : call[i].phase = "unused"
      /\ accepted = {} /\ untimed = {}
  BY DEF CallsInit, Fresh
<1>2. /\ \A u \in User : link[u] \in Socket /\ UserOf[link[u]] = u /\ sock[link[u]] = "on"
      /\ \A s \in Socket : sock[s] # "new" => sock[s] = "on" /\ link[UserOf[s]] = s
  <2>1. \A u \in User : link[u] \in Socket /\ UserOf[link[u]] = u
    BY CallsAssumption DEF CallsInit
  <2>2. \A s \in Socket : sock[s] = IF link[UserOf[s]] = s THEN "on" ELSE "new"
    BY DEF CallsInit
  <2> QED BY <2>1, <2>2
<1>3. NoSession.status = "idle" /\ NoSession.id = None /\ NoSession.mode = "none" /\ ~NoSession.acked /\ None \notin CallId
  BY CallsAssumption DEF NoSession
<1>4. \A u \in User : \A i : /\ ~RingSent(u, i) /\ ~AcceptSent(u, i) /\ ~EnderSent(u, i)
                         /\ ~RingDue(u, i) /\ ~AckDue(u, i) /\ ~NackDue(u, i)
                         /\ ~AcceptedDue(u, i) /\ ~EndDue(u, i)
                         /\ ~Waits(u, i) /\ ~Talks(u, i)
  BY <1>1, <1>3, HasNothing
     DEF RingSent, AcceptSent, EnderSent, RingDue, AckDue, NackDue, AcceptedDue, EndDue, Waits, Talks, OnScreen
<1>5. Linked /\ RingsAreOwn
  BY <1>1, <1>2, <1>3, <1>4 DEF Linked, RingsAreOwn
<1>6. InOrder /\ \A u \in User : Orderly(u)
  BY <1>1, <1>3 DEF InOrder, OpensFirst, Orderly, OnScreen
<1>7. \A i \in CallId : Fits(i)
  BY <1>1, <1>4 DEF Fits, Early, Asked, Registered, Ended, Staged, Awaited, Past
<1> QED BY <1>5, <1>6, <1>7 DEF AgreeInv

\* A fault is noted for good; without one, nobody loses or changes a connection.
LEMMA FaultsStay == ASSUME [CallsNext]_all PROVE failed \subseteq failed'
<1>1. \A what : Fails(what) => failed \subseteq failed'
  BY DEF Fails
<1>2. ASSUME NEW u \in User, EndedOver(u) PROVE failed \subseteq failed'
  BY <1>2 DEF EndedOver, Wipes
<1>3. ASSUME NEW u \in User, Press(u) \/ MicFails(u) \/ MediaLost(u) \/ Cut(u) PROVE failed \subseteq failed'
  <2>1. CASE Press(u) \/ MicFails(u)
    BY <1>1, <2>1 DEF Press, MicFails
  <2>2. CASE MediaLost(u) \/ Cut(u)
    BY <1>1, <2>2 DEF MediaLost, Cut
  <2> QED BY <1>3, <2>1, <2>2
<1>4. ASSUME NEW u \in User, Receive(u) \/ Deliver(u) \/ Checked(u) \/ Reconnect(u) \/ TooEarly(u)
               \/ (\E t \in timers[u] : TimerFires(u, t))
      PROVE  failed' = failed
  BY <1>4 DEF Receive, Deliver, Checked, Reconnect, TooEarly, TimerFires, client
<1>5. ASSUME \/ \E u, v \in User, i \in CallId : Place(u, v, i)
             \/ \E u, v \in User : MediaUp(u, v)
             \/ \E i \in CallId : Handle(i)
             \/ \E s \in Socket : DropNoticed(s)
             \/ Wait
             \/ UNCHANGED all
      PROVE  failed' = failed
  BY <1>5 DEF Place, MediaUp, Handle, CheckRing, PutRing, DropNoticed, Wait, all, client
<1> QED BY <1>2, <1>3, <1>4, <1>5 DEF CallsNext, Move

\* Every step keeps the agreement until something fails.
LEMMA CalmScreensStep ==
    ASSUME CallsTypeOK, TalkingWasAccepted, CalmScreens, [CallsNext]_all PROVE CalmScreens'
<1> SUFFICES ASSUME failed' = {} PROVE AgreeInv'
  BY DEF CalmScreens
<1>1. AgreeInv /\ Linked
  BY FaultsStay DEF CalmScreens, AgreeInv
<1>2. \A what : ~Fails(what)
  BY DEF Fails
<1>3. \A u \in User : link[u] # None /\ sock[link[u]] # "checking"
  <2>1. None \notin Socket
    BY CallsAssumption
  <2> QED BY <1>1, <2>1 DEF Linked
<1>4. ASSUME NEW u \in User PROVE ~MicFails(u) /\ ~Cut(u) /\ ~Reconnect(u) /\ ~TooEarly(u) /\ ~Checked(u)
  BY <1>2, <1>3 DEF MicFails, Cut, Reconnect, TooEarly, Checked
<1>5. ASSUME NEW s \in Socket PROVE ~DropNoticed(s)
  BY <1>1 DEF DropNoticed, Linked
<1>6. ASSUME UNCHANGED all PROVE AgreeInv'
  <2>1. UNCHANGED <<screen, timers, link, placed, untimed, sock>>
    BY <1>6 DEF all, client, vars
  <2>2. /\ \A w \in User : \A j : SameScreen(w, j) /\ SameSent(w, j) /\ SameDue(w, j)
        /\ \A j : SameCall(j)
    <3>1. toServer' = toServer /\ toClient' = toClient /\ call' = call /\ accepted' = accepted
      BY <1>6 DEF all, client, vars
    <3> QED BY <1>1, <2>1, <3>1, GatewayKeeps, ServerKept, ClientKept DEF SameSent, SameDue, SameCall
  <2>3. ASSUME NEW j \in CallId PROVE Fits(j)'
    <3>1. Fits(j)
      BY <1>1 DEF AgreeInv
    <3>2. SameCall(j) /\ \A w \in User : SameScreen(w, j) /\ SameSent(w, j) /\ SameDue(w, j)
      BY <2>2
    <3> HIDE <1>6
    <3> QED BY <3>1, <3>2, FitsElsewhere
  <2>4. RingsAreOwn' /\ InOrder'
    BY <1>1, <1>6 DEF AgreeInv, RingsAreOwn, InOrder, RingSent, all, client, vars
  <2> QED BY <1>1, <2>1, <2>3, <2>4, GatewayKeeps DEF AgreeInv
<1>7. ASSUME NEW u \in User, Press(u) \/ MediaLost(u) \/ Move(u) PROVE AgreeInv'
  BY <1>1, <1>4, <1>7, OverlayAgrees, DeliverStepAgrees, ReceiveAgrees DEF Move
<1> QED BY <1>1, <1>4, <1>5, <1>6, <1>7, PlaceAgrees, MediaUpAgrees, HandleAgrees, WaitAgrees DEF CallsNext

\* What holds of each call is enough once the messages are through.
LEMMA AgreeingScreens ==
    ASSUME CallsTypeOK, TalkingWasAccepted, CalmScreens PROVE QuietScreensAgree
<1> SUFFICES ASSUME failed = {}, Quiet
             PROVE  /\ Up = {screen[u].id : u \in {v \in User : OnScreen(v)}}
                    /\ \A i \in Up : {u \in User : OnScreen(u) /\ screen[u].id = i} = {call[i].caller, call[i].callee}
                    /\ \A u, v \in User : OnScreen(u) /\ OnScreen(v) /\ screen[u].id = screen[v].id
                         => screen[u].status = screen[v].status
  BY DEF QuietScreensAgree
<1>1. AgreeInv /\ (\A u \in User : Orderly(u)) /\ (\A i \in CallId : Fits(i))
  BY DEF CalmScreens, AgreeInv
<1>2. /\ \A u \in User : \A i : ~AcceptSent(u, i) /\ ~AcceptedDue(u, i)
      /\ \A i \in Up : Parties(i) /\ Talks(call[i].caller, i) /\ Talks(call[i].callee, i)
      /\ \A u \in User, i \in CallId : ~Waits(u, i) /\ (Talks(u, i) => i \in Up)
  BY <1>1, QuietCalls
<1>3. ASSUME NEW u \in User, OnScreen(u)
      PROVE  screen[u].id \in Up /\ Talks(u, screen[u].id)
  <2>1. PICK i : i = screen[u].id
    OBVIOUS
  <2>2. i \in CallId
    BY <1>3, <2>1, SessionIs DEF OnScreen
  <2> QED BY <1>1, <1>2, <1>3, <2>1, <2>2 DEF Orderly
<1>4. ASSUME NEW i \in Up, NEW u \in User, Talks(u, i)
      PROVE  /\ u = IF screen[u].mode = "out" THEN call[i].caller ELSE call[i].callee
             /\ OnScreen(u) /\ screen[u].id = i
  BY <1>1, <1>4 DEF Fits, Registered, InPlace, Up, Talks
<1>5. Up = {screen[u].id : u \in {v \in User : OnScreen(v)}}
  <2>1. ASSUME NEW i \in Up PROVE \E u \in {v \in User : OnScreen(v)} : screen[u].id = i
    BY <1>2, <1>4 DEF Parties
  <2> QED BY <1>3, <2>1
<1>6. ASSUME NEW i \in Up
      PROVE  {u \in User : OnScreen(u) /\ screen[u].id = i} = {call[i].caller, call[i].callee}
  BY <1>2, <1>3, <1>4 DEF Parties
<1>7. ASSUME NEW u \in User, NEW v \in User, OnScreen(u), OnScreen(v), screen[u].id = screen[v].id
      PROVE  screen[u].status = screen[v].status
  <2>1. PICK i : i = screen[u].id
    OBVIOUS
  <2>2. i \in Up /\ Talks(u, i) /\ Talks(v, i) /\ i \in CallId /\ call[i].phase = "up"
    BY <1>3, <1>7, <2>1 DEF Up
  <2>3. Staged(i) /\ Parties(i)
    BY <1>1, <1>2, <2>2 DEF Fits
  <2>4. Active(u, i) <=> Active(v, i)
    BY <2>2, <2>3 DEF Staged
  <2>5. PICK a \in User, b \in User : a = call[i].caller /\ b = call[i].callee /\ a # b
    BY <2>3 DEF Parties
  <2>6. Talks(a, i) /\ Talks(b, i) /\ u \in {a, b} /\ v \in {a, b}
    BY <1>2, <1>4, <2>2, <2>5
  <2>7. Rings(a, i) => Rings(b, i)
    BY <1>2, <2>2, <2>3, <2>5, <2>6 DEF Staged
  <2>8. Rings(b, i) => Rings(a, i)
    <3>1. ASSUME Rings(b, i), ~Rings(a, i) PROVE FALSE
      <4>1. screen[a].mode = "out"
        BY <1>4, <2>2, <2>5, <2>6
      <4>2. i \in accepted
        BY <2>6, <3>1, <4>1 DEF TalkingWasAccepted, Talks, Rings, OnScreen
      <4> QED BY <2>2, <2>3, <2>5, <3>1, <4>2 DEF Staged
    <3> QED BY <3>1
  <2>9. Rings(u, i) <=> Rings(v, i)
    BY <2>6, <2>7, <2>8
  <2> QED BY <2>2, <2>4, <2>9 DEF Active, Rings, Talks, OnScreen
<1> QED BY <1>5, <1>6, <1>7

\* Whatever was pressed and whichever rings crossed, as long as nothing has failed and
\* no teardown's reset, 2.6 s late, took the next ring or call off a screen: once the
\* messages are through, the registry's calls are those on exactly two screens, the
\* caller's and the callee's, and both show the same stage.
THEOREM ScreensAgree == CallsSpec => []QuietScreensAgree
<1>1. CallsInit => CalmScreens
  BY AgreeInit DEF CalmScreens
<1>2. CallsTypeOK /\ TalkingWasAccepted /\ CalmScreens /\ [CallsNext]_all => CalmScreens'
  BY CalmScreensStep
<1>3. CallsTypeOK /\ TalkingWasAccepted /\ CalmScreens => QuietScreensAgree
  BY AgreeingScreens
<1> QED BY <1>1, <1>2, <1>3, CallsTypeCorrect, TalkingAccepted, PTL DEF CallsSpec
=============================================================================
