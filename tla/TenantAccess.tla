---------------------------- MODULE TenantAccess ----------------------------
(***************************************************************************)
(* Whether a tenant's requests are let in: its status and access window,   *)
(* which super admins change and the hourly expiry sweep reads             *)
(* (modules/platform/platform.service.ts), as the tenant guard evaluates   *)
(* them (common/guards/tenant.guard.ts).  A tenant has one subscription    *)
(* row from its creation on; the handlers reuse it, so the latest window   *)
(* is that row's.                                                          *)
(*                                                                         *)
(* Time is relative: left[t] is the time until the window ends.  Handlers  *)
(* are several statements without a transaction, and the sweep a list read *)
(* once and then worked through.                                           *)
(***************************************************************************)
EXTENDS Integers

CONSTANTS
    Tenant,
    Days,       \* the lengths of a timed grant, in ticks
    NoEnd,      \* endsAt: null
    Req,        \* administrators' requests in flight at a time
    MaxDeletes, MaxChanges    \* bounds on deletions and on other requests

ASSUME AccessAssumption ==
    /\ Days \subseteq Nat \ {0}
    /\ NoEnd \notin Nat
    /\ MaxDeletes \in Nat /\ MaxChanges \in Nat

VARIABLES
    status,     \* Tenant.status, or "DELETED"
    left,       \* time until TenantSubscription.endsAt, or NoEnd
    asked,      \* history: the last decision that was carried out
    call,       \* the handlers in flight
    todo,       \* the lapsed tenants the sweep has still to mark
    changes, deletes,
    mixed       \* history: handlers or the sweep have overlapped, or time passed in one

vars == <<status, left, asked, call, todo, changes, deletes, mixed>>

Status == {"ACTIVE", "SUSPENDED", "TRIAL_ENDED"}
Window == Nat \cup {NoEnd}
Idle   == [kind |-> "idle"]

Calls == [kind : {"window"}, t : Tenant, ends : Window, was : Status]
         \cup [kind : {"status", "look", "clear"}, t : Tenant]

TypeOK ==
    /\ status \in [Tenant -> Status \cup {"DELETED"}]
    /\ left \in [Tenant -> Window]
    /\ asked \in [Tenant -> {"nothing", "open", "shut"}]
    /\ call \in [Req -> Calls \cup {Idle}]
    /\ todo \subseteq Tenant
    /\ changes \in 0 .. MaxChanges /\ deletes \in 0 .. MaxDeletes
    /\ mixed \in BOOLEAN

Init ==
    /\ status = [t \in Tenant |-> "ACTIVE"]
    /\ left = [t \in Tenant |-> NoEnd]
    /\ asked = [t \in Tenant |-> "nothing"]
    /\ call = [p \in Req |-> Idle]
    /\ todo = {}
    /\ changes = 0 /\ deletes = 0
    /\ mixed = FALSE

Alone == todo = {} /\ \A q \in Req : call[q] = Idle
Mix   == mixed' = (mixed \/ ~Alone)

MayAsk(p, t) ==
    /\ call[p] = Idle /\ Mix
    /\ status[t] # "DELETED"
    /\ changes < MaxChanges /\ changes' = changes + 1
Go(p, c)  == call' = [call EXCEPT ![p] = c]
End(p)    == Go(p, Idle)

Elapsed(w)  == w # NoEnd /\ w = 0
\* The guard: status !== 'ACTIVE' || accessExpired.
Admitted(t) == status[t] = "ACTIVE" /\ ~Elapsed(left[t])

Set(t, s)   == status' = [status EXCEPT ![t] = IF @ = "DELETED" THEN @ ELSE s]
Decide(t, d) == asked' = [asked EXCEPT ![t] = d]

\* An update of a row that went with its tenant fails and changes nothing.
SetWindow(t, w) == left' = IF status[t] = "DELETED" THEN left ELSE [left EXCEPT ![t] = w]

-----------------------------------------------------------------------------
\* suspendTenant and updateTenant write the status at once.

Suspend(p, t) ==
    /\ MayAsk(p, t)
    /\ Set(t, "SUSPENDED") /\ Decide(t, "shut")
    /\ UNCHANGED <<left, call, todo, deletes>>

UpdateStatus(p, t, s) ==
    /\ MayAsk(p, t)
    /\ Set(t, s) /\ Decide(t, IF s = "SUSPENDED" THEN "shut" ELSE "nothing")
    /\ UNCHANGED <<left, call, todo, deletes>>

\* activateTenant: the status, then a look at the window, then its removal.
Activate(p, t) ==
    /\ MayAsk(p, t)
    /\ Set(t, "ACTIVE")
    /\ Go(p, [kind |-> "look", t |-> t])
    /\ UNCHANGED <<left, asked, todo, deletes>>

\* latest?.endsAt && latest.endsAt.getTime() <= Date.now()
Lapses(w) == Elapsed(w)

ActivateLook(p) ==
    /\ call[p].kind = "look"
    /\ LET t == call[p].t IN
       IF Lapses(left[t]) /\ status[t] # "DELETED"
       THEN Go(p, [kind |-> "clear", t |-> t]) /\ UNCHANGED asked
       ELSE End(p) /\ Decide(t, "open")
    /\ UNCHANGED <<status, left, todo, changes, deletes, mixed>>

ActivateClear(p) ==
    /\ call[p].kind = "clear"
    /\ SetWindow(call[p].t, NoEnd) /\ Decide(call[p].t, "open")
    /\ End(p)
    /\ UNCHANGED <<status, todo, changes, deletes, mixed>>

\* "endsAt must be in the future": a grant has an end ahead of it, or none.
Grants == Days \cup {NoEnd}

\* setTenantAccess: the tenant is read, the window written, and the status only
\* if it was not ACTIVE at the reading.
GrantRead(p, t, ends) ==
    /\ MayAsk(p, t)
    /\ Go(p, [kind |-> "window", t |-> t, ends |-> ends, was |-> status[t]])
    /\ UNCHANGED <<status, left, asked, todo, deletes>>

\* (Mutant of Reactivates: only tenants that the sweep has ended.)
ReactivatesEnded(was) == was = "TRIAL_ENDED"

Reactivates(was) == was # "ACTIVE"

GrantWindow(p) ==
    /\ call[p].kind = "window"
    /\ LET c == call[p] IN
       /\ SetWindow(c.t, c.ends)
       /\ IF status[c.t] # "DELETED" /\ Reactivates(c.was)
          THEN Go(p, [kind |-> "status", t |-> c.t]) /\ UNCHANGED asked
          ELSE End(p) /\ Decide(c.t, "open")
    /\ UNCHANGED <<status, todo, changes, deletes, mixed>>

GrantStatus(p) ==
    /\ call[p].kind = "status"
    /\ Set(call[p].t, "ACTIVE") /\ Decide(call[p].t, "open")
    /\ End(p)
    /\ UNCHANGED <<left, todo, changes, deletes, mixed>>

Delete(p, t) ==
    /\ call[p] = Idle /\ Mix
    /\ deletes < MaxDeletes /\ deletes' = deletes + 1
    /\ status[t] # "DELETED"
    /\ status' = [status EXCEPT ![t] = "DELETED"]
    /\ UNCHANGED <<left, asked, call, todo, changes>>

-----------------------------------------------------------------------------
\* expireLapsedTenants, under the lease.

Expired(t) == status[t] = "ACTIVE" /\ Elapsed(left[t])

Sweep ==
    /\ todo = {} /\ Mix
    /\ todo' = {t \in Tenant : Expired(t)}
    /\ UNCHANGED <<status, left, asked, call, changes, deletes>>

\* (Mutant of AfterMark: a tenant that cannot be marked is tried again for ever.)
RetryFailed(t) == IF status[t] = "DELETED" THEN todo ELSE todo \ {t}

\* An update that fails, because the tenant is gone, ends the whole sweep.
AfterMark(t) == IF status[t] = "DELETED" THEN {} ELSE todo \ {t}

SweepMark(t) ==
    /\ t \in todo
    /\ Set(t, "TRIAL_ENDED")
    /\ todo' = AfterMark(t)
    /\ UNCHANGED <<left, asked, call, changes, deletes, mixed>>

Passed(w) == IF w = NoEnd \/ w = 0 THEN w ELSE w - 1

Tick ==
    /\ Mix
    /\ \/ \E t \in Tenant : Passed(left[t]) # left[t]
       \/ \E p \in Req : call[p].kind = "window" /\ Passed(call[p].ends) # call[p].ends
    /\ left' = [t \in Tenant |-> Passed(left[t])]
    /\ call' = [p \in Req |-> IF call[p].kind = "window"
                              THEN [call[p] EXCEPT !.ends = Passed(@)] ELSE call[p]]
    /\ UNCHANGED <<status, asked, todo, changes, deletes>>

-----------------------------------------------------------------------------

Ask(p) ==
    \E t \in Tenant :
      \/ Suspend(p, t) \/ Activate(p, t) \/ Delete(p, t)
      \/ \E s \in Status : UpdateStatus(p, t, s)
      \/ \E ends \in Grants : GrantRead(p, t, ends)

Proceed(p) == ActivateLook(p) \/ ActivateClear(p) \/ GrantWindow(p) \/ GrantStatus(p)

Next ==
    \/ \E p \in Req : Ask(p) \/ Proceed(p)
    \/ \E t \in Tenant : SweepMark(t)
    \/ Sweep \/ Tick

Spec == Init /\ [][Next]_vars

\* The sweep is scheduled every hour and works its list off; time passes and the
\* handlers come to their end.
FairSpec ==
    /\ Spec
    /\ WF_vars(Sweep) /\ WF_vars(Tick)
    /\ \A t \in Tenant : WF_vars(SweepMark(t))
    /\ \A p \in Req : WF_vars(Proceed(p))

-----------------------------------------------------------------------------

Quiet == \A p \in Req : call[p] = Idle

\* "Granting access always reactivates a lapsed tenant", and "so the reactivation
\* actually grants access": without overlap, after either the tenant is let in until
\* its window ends or another decision is taken.
GrantIsKept ==
    ~mixed /\ Quiet => \A t \in Tenant : asked[t] = "open" /\ status[t] # "DELETED"
                                           => Admitted(t) \/ Elapsed(left[t])

\* Without overlap, a suspension holds until somebody lifts it, also over the end
\* of the window.
SuspensionHolds ==
    ~mixed /\ Quiet
      => \A t \in Tenant : asked[t] = "shut" => status[t] \in {"SUSPENDED", "DELETED"}

\* What an administrator decided holds until something else is decided.
DecisionsAreKept == GrantIsKept /\ SuspensionHolds

\* "Flips ACTIVE tenants": without overlap, the sweep ends no suspended tenant.
OnlyActiveIsEnded ==
    [][~mixed' => \A t \in Tenant : t \in todo /\ t \notin todo' => status[t] # "SUSPENDED"]_vars

\* "If the tenant's latest access window has already elapsed, clear it": without
\* overlap, a window that is still running is not made endless by a reactivation.
RunningWindowIsKept ==
    [][~mixed' => \A p \in Req : call[p].kind = "clear" /\ call'[p] = Idle
                                    => left[call[p].t] \in {0, NoEnd}]_vars

\* A lapsed tenant does not stay on the list of active ones: it is marked, or
\* somebody gives it a new window.  A failed sweep is made up for by a later one.
LapsedIsMarked == \A t \in Tenant : Expired(t) ~> ~Expired(t)
=============================================================================
