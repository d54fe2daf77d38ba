----------------------------- MODULE ChatGateway -----------------------------
(***************************************************************************)
(* Presence and the call registry of the chat socket gateway               *)
(* (modules/chat/chat.gateway.ts).  One process keeps both in memory; its  *)
(* handlers interleave only where they await.  A connection awaits the     *)
(* membership check, and a ring awaits the conversation before its checks  *)
(* and the caller's profile after them.                                    *)
(***************************************************************************)
EXTENDS Naturals

CONSTANTS
    User, Tenant,
    Socket, UserOf, TenantOf,  \* each connection's verified user and claimed tenant
    Direct,                    \* <<t, {u, v}>>: the DIRECT conversations
    CallId,                    \* bound: one per ring request, as randomUUID
    RingTimeout,               \* CALL_RING_TIMEOUT_MS, in ticks
    None

ASSUME GatewayAssumption ==
    /\ UserOf \in [Socket -> User] /\ TenantOf \in [Socket -> Tenant]
    /\ Direct \subseteq Tenant \X SUBSET User
    /\ RingTimeout \in Nat
    /\ None \notin User /\ None \notin Tenant

VARIABLES
    sock,       \* each socket: where its handleConnection is
    entry,      \* presence: entry[u] is u's tenant and sockets, no sockets: no entry
    shown,      \* shown[t]: users the members of t were told are online
    call,       \* call[i]: the ring request i, and its entry of activeCalls when "up"
    accepted,   \* history: the calls whose callee accepted
    mixed       \* history: two ring handlers have overlapped

vars == <<sock, entry, shown, call, accepted, mixed>>

Phase == {"unused", "reading", "checked", "up", "over"}
Entry == [tenant : Tenant \cup {None}, sockets : SUBSET Socket]
Call  == [phase : Phase, caller : User \cup {None}, callee : User \cup {None},
          tenant : Tenant \cup {None}, age : 0 .. RingTimeout + 1]

Fresh == [phase |-> "unused", caller |-> None, callee |-> None, tenant |-> None, age |-> 0]
Gone  == [Fresh EXCEPT !.phase = "over"]

TypeOK ==
    /\ sock \in [Socket -> {"new", "checking", "dropped", "on", "ghost", "closed"}]
    /\ entry \in [User -> Entry]
    /\ shown \in [Tenant -> SUBSET User]
    /\ call \in [CallId -> Call]
    /\ accepted \subseteq CallId
    /\ mixed \in BOOLEAN

Init ==
    /\ sock = [s \in Socket |-> "new"]
    /\ entry = [u \in User |-> [tenant |-> None, sockets |-> {}]]
    /\ shown = [t \in Tenant |-> {}]
    /\ call = [i \in CallId |-> Fresh]
    /\ accepted = {}
    /\ mixed = FALSE

-----------------------------------------------------------------------------
\* Connections.

\* (Mutant of MarkOnline: an existing entry is replaced.)
MarkOnlineAlone(u, t, s) == [entry EXCEPT ![u] = [tenant |-> t, sockets |-> {s}]]

\* The last connection's tenant overwrites the entry's.
MarkOnline(u, t, s) ==
    [entry EXCEPT ![u] = [tenant |-> t, sockets |-> entry[u].sockets \cup {s}]]

\* A user without sockets has no entry.
MarkOffline(u, s) ==
    LET rest == entry[u].sockets \ {s} IN
    [entry EXCEPT ![u] = [tenant |-> IF rest = {} THEN None ELSE @.tenant, sockets |-> rest]]

IsOnline(u, t) == entry[u].sockets # {} /\ entry[u].tenant = t

Connect(s) ==
    /\ sock[s] = "new"
    /\ sock' = [sock EXCEPT ![s] = "checking"]
    /\ UNCHANGED <<entry, shown, call, accepted, mixed>>

\* The membership check passed.  Nobody looks whether the socket is still there.
Admit(s) ==
    /\ sock[s] \in {"checking", "dropped"}
    /\ LET u == UserOf[s]  t == TenantOf[s] IN
       /\ entry' = MarkOnline(u, t, s)
       /\ shown' = IF entry[u].sockets = {} THEN [shown EXCEPT ![t] = @ \cup {u}] ELSE shown
    /\ sock' = [sock EXCEPT ![s] = IF @ = "checking" THEN "on" ELSE "ghost"]
    /\ UNCHANGED <<call, accepted, mixed>>

Refuse(s) ==
    /\ sock[s] \in {"checking", "dropped"}
    /\ sock' = [sock EXCEPT ![s] = "closed"]
    /\ UNCHANGED <<entry, shown, call, accepted, mixed>>

-----------------------------------------------------------------------------
\* The registry of calls.

IsParticipant(i, u) == u \in {call[i].caller, call[i].callee}

Up      == {i \in CallId : call[i].phase = "up"}
CallsOf(u) == {i \in Up : IsParticipant(i, u)}
Stale   == {i \in Up : call[i].age > RingTimeout}

Over(ids) == [i \in CallId |-> IF i \in ids THEN Gone ELSE call[i]]

\* Calls in the registry's order of insertion, which is that of startedAt.
Oldest(ids) == {i \in ids : \A j \in ids : call[j].age <= call[i].age}

\* (Mutant of EndedBy: nothing is deleted while the calls are walked.)
EndedByNone(ids) == {{}}

\* endCallsForUser deletes the first call of the user that it meets, only.
EndedBy(ids) == IF ids = {} THEN {{}} ELSE {{i} : i \in Oldest(ids)}

StillShown(u, s) == entry[u].sockets \ {s} # {}

\* handleDisconnect.  A socket that closes before it was verified has no user
\* id yet: the handler returns at once, and handleConnection goes on.
Drop(s) ==
    \/ /\ sock[s] = "on"
       /\ LET u == UserOf[s]  t == TenantOf[s] IN
          /\ entry' = MarkOffline(u, s)
          /\ shown' = IF StillShown(u, s) THEN shown ELSE [shown EXCEPT ![t] = @ \ {u}]
          /\ \E ended \in EndedBy(CallsOf(u)) : call' = Over(ended)
       /\ sock' = [sock EXCEPT ![s] = "closed"]
       /\ UNCHANGED <<accepted, mixed>>
    \/ /\ sock[s] = "checking"
       /\ sock' = [sock EXCEPT ![s] = "dropped"]
       /\ UNCHANGED <<entry, shown, call, accepted, mixed>>

InFlight == {i \in CallId : call[i].phase \in {"reading", "checked"}}

\* A ring arrives and awaits its conversation.
RingAsk(s, v, i) ==
    /\ sock[s] = "on"
    /\ v # UserOf[s] /\ <<TenantOf[s], {UserOf[s], v}>> \in Direct
    /\ call[i].phase = "unused"
    /\ mixed' = (mixed \/ InFlight # {})
    /\ call' = [call EXCEPT ![i] = [phase |-> "reading", caller |-> UserOf[s], callee |-> v,
                                    tenant |-> TenantOf[s], age |-> 0]]
    /\ UNCHANGED <<sock, entry, shown, accepted>>

\* (Mutant of Busy: only the callee's calls are looked at.)
BusyCallee(i, live) == \E j \in live : IsParticipant(j, call[i].callee)

\* hasActiveCallFor the caller, then for the callee, after pruneStaleCalls.
Busy(i, live) ==
    \E j \in live : IsParticipant(j, call[i].caller) \/ IsParticipant(j, call[i].callee)

\* The checks of ring, in one go, up to the await of the caller's profile.
RingCheck(i) ==
    /\ call[i].phase = "reading"
    /\ LET refused == Busy(i, Up \ Stale) \/ ~IsOnline(call[i].callee, call[i].tenant) IN
       call' = IF refused THEN Over(Stale \cup {i})
               ELSE [Over(Stale) EXCEPT ![i].phase = "checked"]
    /\ UNCHANGED <<sock, entry, shown, accepted, mixed>>

\* Only now is the call registered; or the profile's query failed.
RingPut(i) ==
    /\ call[i].phase = "checked"
    /\ call' = [call EXCEPT ![i].phase = "up"] \/ call' = Over({i})
    /\ UNCHANGED <<sock, entry, shown, accepted, mixed>>

\* A sender's user id outlives its socket's presence only for messages that the
\* socket still delivers: the sender of a signal is a connected user.
Connected(u) == \E s \in Socket : sock[s] = "on" /\ UserOf[s] = u

Accept(u, i) ==
    /\ Connected(u) /\ i \in Up /\ call[i].callee = u
    /\ accepted' = accepted \cup {i}
    /\ UNCHANGED <<sock, entry, shown, call, mixed>>

Decline(u, i) ==
    /\ Connected(u) /\ i \in Up /\ call[i].callee = u
    /\ call' = Over({i})
    /\ UNCHANGED <<sock, entry, shown, accepted, mixed>>

Cancel(u, i) ==
    /\ Connected(u) /\ i \in Up /\ call[i].caller = u
    /\ call' = Over({i})
    /\ UNCHANGED <<sock, entry, shown, accepted, mixed>>

EndCall(u, i) ==
    /\ Connected(u) /\ i \in Up /\ IsParticipant(i, u)
    /\ call' = Over({i})
    /\ UNCHANGED <<sock, entry, shown, accepted, mixed>>

\* Time passes; one tick beyond the timeout is as good as many.
Tick ==
    /\ \E i \in Up : call[i].age <= RingTimeout
    /\ call' = [i \in CallId |-> IF i \in Up /\ call[i].age <= RingTimeout
                                 THEN [call[i] EXCEPT !.age = @ + 1] ELSE call[i]]
    /\ UNCHANGED <<sock, entry, shown, accepted, mixed>>

Next ==
    \/ \E s \in Socket : Connect(s) \/ Admit(s) \/ Refuse(s) \/ Drop(s)
    \/ \E s \in Socket, v \in User, i \in CallId : RingAsk(s, v, i)
    \/ \E i \in CallId : RingCheck(i) \/ RingPut(i)
    \/ \E u \in User, i \in CallId : Accept(u, i) \/ Decline(u, i) \/ Cancel(u, i) \/ EndCall(u, i)
    \/ Tick

Spec == Init /\ [][Next]_vars

-----------------------------------------------------------------------------

\* Nobody is in two calls ...
NobodyInTwoCalls == \A u \in User : \A i, j \in CallsOf(u) : i = j

\* ("You already have an active call", "The recipient is already on a call") as
\* long as no two ring handlers have overlapped.
OneCallEach == ~mixed => NobodyInTwoCalls

DropsClean ==
    \A s \in Socket : sock[s] = "on" /\ sock'[s] = "closed" => CallsOf(UserOf[s])' = {}

\* Although endCallsForUser deletes one call only, no call of the disconnected
\* user is left, as long as no two ring handlers have overlapped.
DropEndsEveryCall == [][~mixed' => DropsClean]_vars

\* All connections of the user claim one tenant: its entry has room for one.
KeepsTenant(u) == \A s, r \in Socket : UserOf[s] = u /\ UserOf[r] = u => TenantOf[s] = TenantOf[r]

\* "A user is considered online while at least one verified socket is connected", and
\* only then, and what the members of a tenant were told of it is what the gateway
\* would answer; but a socket that closed while its membership was checked counts as
\* connected for good ("ghost"), and a user needs to keep to one tenant.
PresenceIsTrue ==
    \A u \in User, t \in Tenant : KeepsTenant(u) =>
        /\ IsOnline(u, t) <=> \E s \in Socket : /\ UserOf[s] = u /\ TenantOf[s] = t
                                               /\ sock[s] \in {"on", "ghost"}
        /\ u \in shown[t] <=> IsOnline(u, t)

=============================================================================
