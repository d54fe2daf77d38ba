------------------------------ MODULE Billing ------------------------------
(***************************************************************************)
(* One tenant's subscription row, plan and credit ledger                   *)
(* (modules/billing/billing.service.ts), fed by Stripe's webhook.  Stripe  *)
(* sends an event until a 2xx answer reaches it, in no promised order; the *)
(* service remembers no event.  Each handler is a sequence of statements   *)
(* of their own; only a credit change and its ledger entry go together.    *)
(*                                                                         *)
(* One of the four kinds of credit stands for them all.                    *)
(***************************************************************************)
EXTENDS Integers, Sequences

CONSTANTS
    Plan, Free,         \* plan codes; Free is the plan "free"
    Included,           \* PLAN_CREDITS
    NoPlan, NoSub,      \* a column or a tag without a value
    Sub,                \* Stripe subscriptions, numbered in the order they are paid
    PlanOf,             \* the plan that the session of each of them names, or NoPlan: its
                        \* metadata is missing, or the plan is not known
    Worker,             \* handlers in flight, numbered: the first idle one is taken
    MaxEvents,          \* bound: events that Stripe emits
    MaxFaults,          \* bound: handlers that die, answers that are lost
    MaxUses             \* bound: calls that spend or grant a credit

ASSUME BillingAssumption ==
    /\ Free \in Plan /\ NoPlan \notin Plan
    /\ Included \in [Plan -> Nat]
    /\ Worker \subseteq Nat /\ Sub \subseteq Nat \ {0} /\ NoSub = 0 /\ PlanOf \in [Sub -> Plan \cup {NoPlan}]
    /\ MaxEvents \in Nat /\ MaxFaults \in Nat /\ MaxUses \in Nat

VARIABLES
    row,        \* the TenantSubscription row: plan, status, stripe, credits
    tenantPlan, \* Tenant.planId
    ledger,     \* the sum of the CreditTransaction deltas
    stripe,     \* Stripe's side: the status and metadata tag of each subscription
    event,      \* the events emitted so far, by number
    pending,    \* the numbers of those no 2xx answer came back for
    work,       \* the requests in flight
    faults, uses,
    shuffled,   \* history: events were not handled one by one, in their order
    clashed     \* history: two requests that change credits have overlapped

billing == <<row, tenantPlan, ledger>>
outside == <<stripe, event>>
billingVars    == <<billing, outside, pending, work, faults, uses, shuffled, clashed>>

StripeStatus == {"active", "past_due", "canceled"}
RowStatus == {"TRIAL", "ACTIVE", "PAST_DUE", "CANCELLED"}
NoWork   == [at |-> "idle", ev |-> 0, seen |-> 0]

Row      == [plan : Plan, status : RowStatus, stripe : Sub \cup {NoSub}, credits : Nat]
AtStripe == [status : StripeStatus \cup {"none"}, tag : Plan \cup {NoPlan}]
StripeEvent == [type : {"checkout", "updated", "deleted"}, sub : Sub,
                status : StripeStatus, tag : Plan \cup {NoPlan}]
Handler  == [at : {"row", "status", "plan", "read", "write"}, ev : Nat \ {0}, seen : Nat]
            \cup [at : {"spend"}, ev : {0}, seen : Nat \ {0}]
            \cup [at : {"grant", "idle"}, ev : {0}, seen : Nat]

BillingTypeOK ==
    /\ row \in Row /\ tenantPlan \in Plan /\ ledger \in Int
    /\ stripe \in [Sub -> AtStripe]
    /\ event \in Seq(StripeEvent) /\ pending \subseteq 1 .. Len(event)
    /\ work \in [Worker -> Handler] /\ \A w \in Worker : work[w].ev <= Len(event)
    /\ faults \in 0 .. MaxFaults /\ uses \in 0 .. MaxUses
    /\ shuffled \in BOOLEAN /\ clashed \in BOOLEAN

BillingInit ==
    /\ row = [plan |-> Free, status |-> "TRIAL", stripe |-> NoSub, credits |-> 0]
    /\ tenantPlan = Free /\ ledger = 0
    /\ stripe = [s \in Sub |-> [status |-> "none", tag |-> NoPlan]]
    /\ event = <<>> /\ pending = {}
    /\ work = [w \in Worker |-> NoWork]
    /\ faults = 0 /\ uses = 0
    /\ shuffled = FALSE /\ clashed = FALSE

-----------------------------------------------------------------------------
\* What Stripe does: an event carries the subscription as it is then.
Emit(type, s, now) ==
    /\ Len(event) < MaxEvents
    /\ event' = Append(event, [type |-> type, sub |-> s, status |-> now.status, tag |-> now.tag])
    /\ pending' = pending \cup {Len(event) + 1}
    /\ stripe' = [stripe EXCEPT ![s] = now]
    /\ UNCHANGED <<billing, work, faults, uses, shuffled, clashed>>

\* startCheckout opens a session with the tenant and the plan as its metadata,
\* and the tenant pays.  The metadata is the session's, not its subscription's:
\* the tag is there only if somebody set it in Stripe.  (Which customer the
\* session is for is left out; a session without metadata was not opened here.)
Checkout(s, tag) ==
    /\ \A r \in Sub : stripe[r].status # "none" => r < s
    /\ Emit("checkout", s, [status |-> "active", tag |-> tag])

ChangeAtStripe(s, st) ==
    /\ stripe[s].status \notin {"none", "canceled", st}
    /\ Emit(IF st = "canceled" THEN "deleted" ELSE "updated", s, [stripe[s] EXCEPT !.status = st])

-----------------------------------------------------------------------------
\* The webhook.  A handler begins with its first read and answers after its
\* last write; what it throws is answered with an error.

\* (Mutant of Concerns: any row with a subscription is taken for the one.)
ConcernsAny(s) == row.stripe # NoSub

\* findByStripeSubscription finds the row.
Concerns(s) == row.stripe = s

Busy      == {w \in Worker : work[w] # NoWork}
Handling  == {w \in Busy : work[w].ev # 0}
FirstIdle(w) == work[w] = NoWork /\ \A v \in Worker : v < w => work[v] # NoWork
Reach(w, at) == work' = [work EXCEPT ![w].at = at]

\* (Mutant of Answer: an event that was handled is not told from a failure.)
AnswerNever(w) == work' = [work EXCEPT ![w] = NoWork] /\ UNCHANGED pending

Answer(w) == work' = [work EXCEPT ![w] = NoWork] /\ pending' = pending \ {work[w].ev}
Enter(w, at, i) ==
    /\ work' = [work EXCEPT ![w] = [at |-> at, ev |-> i, seen |-> 0]]
    /\ clashed' = (clashed \/ Busy # {})

\* handleCheckoutCompleted throws before it writes, however often it is called.
Refused == {i \in DOMAIN event : event[i].type = "checkout" /\ PlanOf[event[i].sub] = NoPlan}

\* Stripe sends event i, perhaps again: the answer to it was an error or lost.
Deliver(w, i) ==
    /\ FirstIdle(w) /\ i \in pending /\ \A v \in Handling : work[v].ev # i
    /\ \/ i \in Refused /\ UNCHANGED <<pending, work, clashed, shuffled>>
       \/ /\ i \notin Refused
          /\ shuffled' = (shuffled \/ Handling # {} \/ \E j \in pending \ Refused : j < i)
          /\ IF event[i].type = "checkout" THEN Enter(w, "row", i) /\ UNCHANGED pending
             ELSE IF Concerns(event[i].sub) THEN Enter(w, "status", i) /\ UNCHANGED pending
             ELSE pending' = pending \ {i} /\ UNCHANGED <<work, clashed>>
    /\ UNCHANGED <<billing, outside, faults, uses>>

mapStripeStatus(st) ==
    CASE st = "active"   -> "ACTIVE"
      [] st = "past_due" -> "PAST_DUE"
      [] st = "canceled" -> "CANCELLED"

StatusFor(e) ==
    CASE e.type = "checkout" -> "ACTIVE"
      [] e.type = "deleted"  -> "CANCELLED"
      [] e.type = "updated"  -> mapStripeStatus(e.status)

\* handleCheckoutCompleted rewrites the row.
WriteRow(w) ==
    /\ work[w].at = "row"
    /\ LET e == event[work[w].ev] IN
       row' = [row EXCEPT !.plan = PlanOf[e.sub], !.status = StatusFor(e), !.stripe = e.sub]
    /\ Reach(w, "plan")
    /\ UNCHANGED <<tenantPlan, ledger, outside, pending, faults, uses, shuffled, clashed>>

\* An update or a deletion changes the status only; without a tag that is all
\* there is to an update.
WriteStatus(w) ==
    /\ work[w].at = "status"
    /\ LET e == event[work[w].ev] IN
       /\ row' = [row EXCEPT !.status = StatusFor(e)]
       /\ IF e.type = "updated" /\ e.tag = NoPlan THEN Answer(w) ELSE Reach(w, "plan") /\ UNCHANGED pending
    /\ UNCHANGED <<tenantPlan, ledger, outside, faults, uses, shuffled, clashed>>

PlanFor(e) ==
    CASE e.type = "checkout" -> PlanOf[e.sub]
      [] e.type = "updated"  -> e.tag
      [] e.type = "deleted"  -> Free

WritePlan(w) ==
    /\ work[w].at = "plan"
    /\ tenantPlan' = PlanFor(event[work[w].ev])
    /\ Reach(w, "read")
    /\ UNCHANGED <<row, ledger, outside, pending, faults, uses, shuffled, clashed>>

-----------------------------------------------------------------------------
\* Credits: read, then a transaction writes what was computed from the read.

\* (Mutant of Delta: the ledger takes the target, not the difference.)
DeltaIsTarget(target, seen) == target

Delta(target, seen) == target - seen

\* applyPlanCredits sets the balance to what the plan includes.
ReadCredits(w) ==
    /\ work[w].at = "read"
    /\ IF Included[PlanFor(event[work[w].ev])] = row.credits
       THEN Answer(w)
       ELSE work' = [work EXCEPT ![w].at = "write", ![w].seen = row.credits] /\ UNCHANGED pending
    /\ UNCHANGED <<billing, outside, faults, uses, shuffled, clashed>>

Book(target, seen) == row' = [row EXCEPT !.credits = target] /\ ledger' = ledger + Delta(target, seen)

WriteCredits(w) ==
    /\ work[w].at = "write"
    /\ Book(Included[PlanFor(event[work[w].ev])], work[w].seen)
    /\ Answer(w)
    /\ UNCHANGED <<tenantPlan, outside, faults, uses, shuffled, clashed>>

\* consumeCredit and grantCredits, by one credit.  A balance that is too small
\* is refused at the read.
BeginUse(w, at) ==
    /\ FirstIdle(w) /\ uses < MaxUses /\ uses' = uses + 1
    /\ at = "spend" => row.credits >= 1
    /\ work' = [work EXCEPT ![w] = [at |-> at, ev |-> 0, seen |-> row.credits]]
    /\ clashed' = (clashed \/ Busy # {})
    /\ UNCHANGED <<billing, outside, pending, faults, shuffled>>

WriteUse(w) ==
    /\ work[w].at \in {"spend", "grant"}
    /\ Book(work[w].seen + (IF work[w].at = "grant" THEN 1 ELSE -1), work[w].seen)
    /\ work' = [work EXCEPT ![w] = NoWork]
    /\ UNCHANGED <<tenantPlan, outside, pending, faults, uses, shuffled, clashed>>

-----------------------------------------------------------------------------
\* A handler that dies or throws at any statement leaves what it wrote, and
\* its event pending; so does an answer that is lost after the last write.

Fault == faults < MaxFaults /\ faults' = faults + 1

Die(w) ==
    /\ work[w] # NoWork /\ Fault
    /\ work' = [work EXCEPT ![w] = NoWork]
    /\ UNCHANGED <<billing, outside, pending, uses, shuffled, clashed>>

LoseAnswer(w) ==
    /\ work[w].at = "write" /\ Fault
    /\ Book(Included[PlanFor(event[work[w].ev])], work[w].seen)
    /\ work' = [work EXCEPT ![w] = NoWork]
    /\ UNCHANGED <<tenantPlan, outside, pending, uses, shuffled, clashed>>

Step(w) == WriteRow(w) \/ WriteStatus(w) \/ WritePlan(w) \/ ReadCredits(w) \/ WriteCredits(w) \/ WriteUse(w)

BillingNext ==
    \/ \E s \in Sub :
          \/ \E tag \in {NoPlan, PlanOf[s]} : Checkout(s, tag)
          \/ \E st \in StripeStatus : ChangeAtStripe(s, st)
    \/ \E w \in Worker :
          \/ \E i \in pending : Deliver(w, i)
          \/ Step(w)
          \/ \E at \in {"spend", "grant"} : BeginUse(w, at)
          \/ Die(w)
          \/ LoseAnswer(w)

BillingSpec == BillingInit /\ [][BillingNext]_billingVars

\* A request that runs goes on, and Stripe keeps sending each event that is pending.
Fairness ==
    /\ \A w \in Worker : WF_billingVars(Step(w))
    /\ \A i \in 1 .. MaxEvents : WF_billingVars(\E w \in Worker : Deliver(w, i))

FairBillingSpec == BillingSpec /\ Fairness

-----------------------------------------------------------------------------
\* What was paid for in a session that names its plan.
Paid    == {s \in Sub : stripe[s].status # "none" /\ PlanOf[s] # NoPlan}
Current == CHOOSE s \in Paid : \A r \in Paid : r <= s

\* The tenant is on the plan of the subscription it paid for last in such a session,
\* as Stripe has it now, and on the free plan when that one was cancelled.
Mirrored ==
    \/ Paid = {} /\ row.stripe = NoSub /\ tenantPlan = Free
    \/ /\ Paid # {} /\ row.stripe = Current /\ row.plan = PlanOf[Current]
       /\ row.status = mapStripeStatus(stripe[Current].status)
       /\ tenantPlan = IF stripe[Current].status = "canceled" THEN Free ELSE PlanOf[Current]

\* The sum of the ledger is the balance the tenant can spend, over refills,
\* retried handlers and whatever was spent, as long as no two requests that
\* change credits have overlapped.
LedgerExplainsBalance == clashed \/ ledger = row.credits

\* When every event was answered but the checkouts that are refused, and the others
\* were handled in their order, with any number of retries of one that failed half
\* way, the tenant has the plan it pays for: also when an earlier subscription is
\* changed or cancelled later, or one that was refused.
SettledMirrorsStripe == pending \subseteq Refused => shuffled \/ Mirrored

\* Whatever handlers die and answers get lost, in the end every event has been
\* answered but the checkouts without a plan, which are refused for ever: no other
\* is sent again and again because its handler cannot succeed or another is refused.
EventsSettle == <>[](pending \subseteq Refused)
=============================================================================
