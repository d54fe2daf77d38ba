----------------------- MODULE WebhookDeliveryProofs -----------------------
(***************************************************************************)
(* What the lease of DistributedLock guarantees, for any number of runs:   *)
(* a job is alone while it is in time, however others overrun or crash,    *)
(* and is always alone if every call ends within its lease.                *)
(*                                                                         *)
(* What the webhook deliveries under it guarantee, for any number of       *)
(* events, webhooks and runs: until two runs have overlapped, every post   *)
(* is accounted for and what was delivered stays so.                       *)
(***************************************************************************)
EXTENDS WebhookDelivery, FiniteSetTheorems, TLAPS

\* The inductive invariant: as long as the row is the one a run won, its time is
\* the lease less the age of the run, and a run loses its row only after that.
LeaseAccount ==
    /\ \A r \in Run : pc[r] = "running" => owner = r \/ Late(r)
    /\ \A r \in Run : pc[r] \in {"check", "running"} /\ owner = r
                        => left = Remaining(ExpiresIn(r))
    /\ \A r \in Run : pc[r] = "insert" => owner # r

\* Remaining keeps the row's time in its range, and is exact when not elapsed.
LEMMA RemainingRange ==
    ASSUME NEW t \in Int, NEW m \in Int, t <= m, -1 <= m
    PROVE  /\ Remaining(t) \in -1 .. m
           /\ t >= 0 => Remaining(t) = t
           /\ t < 0 => Remaining(t) = -1
BY DEF Remaining

\* Every variable keeps its type.
THEOREM TypeCorrect == Spec => []TypeOK
<1> USE LeaseAssumption DEF TypeOK, Phase, Offset
<1>1. Init => TypeOK
  BY DEF Init
<1>2. TypeOK /\ [Next]_vars => TypeOK'
  <2> SUFFICES ASSUME TypeOK, [Next]_vars PROVE TypeOK'
    OBVIOUS
  <2>1. ASSUME NEW r \in Run, Start(r) PROVE TypeOK'
    BY <2>1 DEF Start
  <2>2. ASSUME NEW r \in Run, Upsert(r) PROVE TypeOK'
    <3>1. Remaining(ExpiresIn(r)) \in -1 .. (Lease + MaxSkew)
      BY RemainingRange DEF ExpiresIn
    <3> QED BY <2>2, <3>1 DEF Upsert
  <2>3. ASSUME NEW r \in Run, Check(r) PROVE TypeOK'
    BY <2>3 DEF Check
  <2>4. ASSUME NEW r \in Run, Release(r) PROVE TypeOK'
    BY <2>4 DEF Release, AfterDelete
  <2>5. ASSUME NEW r \in Run, Crash(r) PROVE TypeOK'
    BY <2>5 DEF Crash
  <2>6. ASSUME Tick PROVE TypeOK'
    <3>1. Remaining(left - 1) \in -1 .. (Lease + MaxSkew)
      BY RemainingRange
    <3> QED BY <2>6, <3>1 DEF Tick
  <2>7. CASE UNCHANGED vars
    BY <2>7 DEF vars
  <2> QED BY <2>1, <2>2, <2>3, <2>4, <2>5, <2>6, <2>7 DEF Next
<1> QED BY <1>1, <1>2, PTL DEF Spec

\* Every step preserves the account of the lease.
LEMMA LeaseAccountStep ==
    ASSUME TypeOK, LeaseAccount, [Next]_vars
    PROVE  LeaseAccount'
<1> USE LeaseAssumption DEF TypeOK, Phase, Offset, LeaseAccount, ExpiresIn, Late
<1>1. ASSUME NEW r \in Run, Start(r) PROVE LeaseAccount'
  BY <1>1 DEF Start
<1>2. ASSUME NEW r \in Run, Upsert(r) PROVE LeaseAccount'
  <2>1. \A q \in Run : pc[q] = "running" => ~Claimable \/ Late(q)
    BY DEF Claimable, Remaining
  <2> QED BY <1>2, <2>1 DEF Upsert
<1>3. ASSUME NEW r \in Run, Check(r) PROVE LeaseAccount'
  BY <1>3 DEF Check
<1>4. ASSUME NEW r \in Run, Release(r) PROVE LeaseAccount'
  BY <1>4 DEF Release, AfterDelete
<1>5. ASSUME NEW r \in Run, Crash(r) PROVE LeaseAccount'
  BY <1>5 DEF Crash
<1>6. ASSUME Tick PROVE LeaseAccount'
  BY <1>6 DEF Tick, Remaining
<1>7. CASE UNCHANGED vars
  BY <1>7 DEF vars
<1> QED BY <1>1, <1>2, <1>3, <1>4, <1>5, <1>6, <1>7 DEF Next

LEMMA LeaseAccounted == Spec => [](TypeOK /\ LeaseAccount)
<1>1. Init => LeaseAccount
  BY LeaseAssumption DEF Init, LeaseAccount
<1>2. TypeOK /\ LeaseAccount /\ [Next]_vars => LeaseAccount'
  BY LeaseAccountStep
<1> QED BY <1>1, <1>2, TypeCorrect, PTL DEF Spec

\* A run that executes the job inside its lease is the only one that is inside
\* its lease, and the row is its own, for any lengths of calls and any crashes.
THEOREM TimelyExclusion == Spec => [](TimelyIsAlone /\ HeldWhileTimely)
<1>1. TypeOK /\ LeaseAccount => TimelyIsAlone /\ HeldWhileTimely
  BY LeaseAssumption
     DEF TypeOK, LeaseAccount, TimelyIsAlone, HeldWhileTimely, Running, Late, Offset, ExpiresIn, Remaining
<1> QED BY <1>1, LeaseAccounted, PTL

\* What the callers of runOnce would have to guarantee: leaseMs covers the whole
\* call, from the moment it reads its clock, on the replica most behind.
CallFitsLease == MaxRun + MaxSkew <= Lease

\* If every call ends within its lease, no two runs ever execute the job
\* together: "guarantees a scheduled job runs on a single instance".
THEOREM MutualExclusion == ASSUME CallFitsLease PROVE Spec => []SingleRunner
<1>1. TypeOK /\ TimelyIsAlone => SingleRunner
  BY LeaseAssumption
     DEF TypeOK, TimelyIsAlone, SingleRunner, Running, Late, Offset, ExpiresIn, CallFitsLease
<1> QED BY <1>1, TypeCorrect, TimelyExclusion, PTL

-----------------------------------------------------------------------------
\* The deliveries.

\* A job is on its way only in a run that executes it, and until two of them have
\* overlapped there is one at most.
JobsRun ==
    /\ \A r \in Run : job[r].at # "idle" => pc[r] = "running"
    /\ ~overlapped => SingleRunner
    /\ \A r \in Run : job[r].at \in {"send", "write"} => job[r].list # <<>>

Created(d) == \E k \in 1 .. Len(queue) : queue[k] = d

\* A delivery is created once, by the request that published its event, before any
\* run can read it, post it or count it.
CreatedOnce ==
    /\ \A e \in Event : e \notin published => todo[e] = {}
    /\ \A k \in 1 .. Len(queue) : queue[k][1] \in published /\ queue[k][2] \notin todo[queue[k][1]]
    /\ \A k, l \in 1 .. Len(queue) : queue[k] = queue[l] => k = l
    /\ \A d \in Delivery : ~Created(d) => row[d] = NoRow_ /\ posts[d] = 0

\* A run has each delivery once in its list.
ListedOnce ==
    \A r \in Run : \A i, j \in 1 .. Len(job[r].list) :
        /\ Created(job[r].list[i].d)
        /\ job[r].list[i].d = job[r].list[j].d => i = j

AsRead(item) == row[item.d] \in {NoRow_, [status |-> "PENDING", attempts |-> item.attempts]}
Writing(d) == \E r \in Run : job[r].at = "write" /\ Head(job[r].list).d = d

\* Until runs overlap, the rows a run has yet to write are as it read them, or gone.
SnapshotHolds ==
    ~overlapped => \A r \in Run : job[r].at \in {"send", "write"} =>
                       \A i \in 1 .. Len(job[r].list) : AsRead(job[r].list[i])

\* Until runs overlap, the posts of a delivery are its attempts, one that is being
\* written, and what crashes and failed statements lost.
Counted(d) ==
    row[d] # NoRow_ =>
        /\ row[d].attempts <= posts[d]
        /\ row[d].status = "FAILED" => posts[d] >= Limit
        /\ Writing(d) => row[d].attempts + 1 <= posts[d]
        /\ posts[d] <= row[d].attempts + crashes + faults + (IF Writing(d) THEN 1 ELSE 0)

PostsAccounted == ~overlapped => \A d \in Delivery : Counted(d)

DeliveryInv ==
    /\ TypeOK /\ JobsTypeOK /\ JobsRun /\ CreatedOnce /\ ListedOnce /\ SnapshotHolds /\ PostsAccounted

-----------------------------------------------------------------------------

\* Every step of the system is one of the lock, or leaves the lock alone.
LEMMA JobsLockStep == [JobsNext]_allVars => [Next]_vars
<1> SUFFICES ASSUME [JobsNext]_allVars PROVE [Next]_vars
  OBVIOUS
<1>1. ASSUME NEW r \in Run, CronFires(r) \/ LockStep(r) \/ CrashStep(r) PROVE [Next]_vars
  BY <1>1 DEF CronFires, LockStep, CrashStep, Begin, Next
<1>2. ASSUME NEW r \in Run, JobStep(r) \/ (WriteFails(r) /\ UNCHANGED <<vars, overlapped>>) PROVE [Next]_vars
  BY <1>2 DEF JobStep
<1>3. CASE Request \/ TimePasses
  BY <1>3 DEF Request, TimePasses, Next
<1>4. CASE UNCHANGED allVars
  BY <1>4 DEF allVars
<1> QED BY <1>1, <1>2, <1>3, <1>4 DEF JobsNext

\* The deliveries run under the lease: whatever jobs, requests and receivers do, the
\* lock does what DistributedLock says.
THEOREM JobsKeepTheLease == JobsSpec => Spec
<1>1. JobsInit => Init
  BY DEF JobsInit
<1> QED BY <1>1, JobsLockStep, PTL DEF JobsSpec, Spec

\* Two jobs within their lease never run together, in the system with its jobs.
THEOREM TimelyJobsAreAlone == JobsSpec => []TimelyIsAlone
<1>1. TimelyIsAlone /\ HeldWhileTimely => TimelyIsAlone
  OBVIOUS
<1> QED BY <1>1, JobsKeepTheLease, TimelyExclusion, PTL

\* What a job in flight is like.
LEMMA JobFacts ==
    ASSUME JobsTypeOK, NEW r \in Run
    PROVE  /\ job[r] \in Job /\ job[r].list \in Seq(Item) /\ Len(job[r].list) \in Nat
           /\ job[r].at \in {"idle", "read", "send", "write"} /\ job[r].answer \in {"none", "ok", "bad"}
           /\ \A i \in 1 .. Len(job[r].list) :
                 /\ job[r].list[i] \in Item /\ job[r].list[i].d \in Delivery
                 /\ job[r].list[i].attempts \in 0 .. Limit - 1
           /\ job[r].list # <<>> => /\ Head(job[r].list) = job[r].list[1] /\ 1 \in 1 .. Len(job[r].list)
                                    /\ Tail(job[r].list) \in Seq(Item)
                                    /\ Len(Tail(job[r].list)) = Len(job[r].list) - 1
                                    /\ \A i \in 1 .. Len(Tail(job[r].list)) :
                                          i + 1 \in 1 .. Len(job[r].list) /\ Tail(job[r].list)[i] = job[r].list[i + 1]
<1>1. job[r] \in Job
  BY DEF JobsTypeOK
<1>2. /\ job[r].list \in Seq(Item) /\ job[r].at \in {"idle", "read", "send", "write"}
      /\ job[r].answer \in {"none", "ok", "bad"}
  BY <1>1 DEF Job
<1>3. \A i \in 1 .. Len(job[r].list) : job[r].list[i] \in Item
  BY <1>2
<1>4. \A i \in 1 .. Len(job[r].list) : job[r].list[i].d \in Delivery /\ job[r].list[i].attempts \in 0 .. Limit - 1
  BY <1>3 DEF Item
<1>5. ASSUME NEW list \in Seq(Item), list # <<>>
      PROVE  /\ Head(list) = list[1] /\ 1 \in 1 .. Len(list) /\ Tail(list) \in Seq(Item) /\ Len(Tail(list)) = Len(list) - 1
             /\ \A i \in 1 .. Len(Tail(list)) : i + 1 \in 1 .. Len(list) /\ Tail(list)[i] = list[i + 1]
  BY <1>5
<1> QED BY <1>1, <1>2, <1>3, <1>4, <1>5

\* A job that goes on with a list has that list.
LEMMA NextJobIs ==
    ASSUME JobsTypeOK, NEW r \in Run, NEW list \in Seq(Item), job' = NextJob(r, list)
    PROVE  /\ job'[r] \in Job /\ job'[r].list = list
           /\ job'[r].at = IF list = <<>> THEN "idle" ELSE "send"
           /\ \A q \in Run \ {r} : job'[q] = job[q]
           /\ job' \in [Run -> Job]
<1>1. job \in [Run -> Job] /\ Idle \in Job
  BY DEF JobsTypeOK, Job, Idle
<1>2. [at |-> "send", list |-> list, answer |-> "none"] \in Job
  BY DEF Job
<1> QED BY <1>1, <1>2 DEF NextJob, Idle

\* The batch a run reads: each row once, as it is, and only what is due.
LEMMA BatchIs ==
    ASSUME JobsTypeOK, NEW n \in Nat, NEW at \in [1 .. n -> 1 .. Len(queue)], Oldest(n, at)
    PROVE  /\ Batch(n, at) \in Seq(Item) /\ Len(Batch(n, at)) = n
           /\ \A i \in 1 .. n : /\ at[i] \in 1 .. Len(queue) /\ Batch(n, at)[i].d = queue[at[i]]
                                /\ row[Batch(n, at)[i].d] = [status |-> "PENDING", attempts |-> Batch(n, at)[i].attempts]
           /\ \A i, j \in 1 .. n : at[i] = at[j] => i = j
<1> DEFINE batch == Batch(n, at)
<1>1. ASSUME NEW i \in 1 .. n
      PROVE  /\ at[i] \in 1 .. Len(queue) /\ queue[at[i]] \in Delivery
             /\ row[queue[at[i]]] \in Row /\ Due(queue[at[i]])
  <2>1. at[i] \in 1 .. Len(queue) /\ Due(queue[at[i]])
    BY DEF Oldest
  <2>2. queue[at[i]] \in Delivery
    BY <2>1 DEF JobsTypeOK
  <2> QED BY <2>1, <2>2 DEF JobsTypeOK
<1>2. ASSUME NEW i \in 1 .. n
      PROVE  /\ batch[i] = [d |-> queue[at[i]], attempts |-> row[queue[at[i]]].attempts]
             /\ batch[i] \in Item
             /\ row[batch[i].d] = [status |-> "PENDING", attempts |-> batch[i].attempts]
  <2>1. batch[i] = [d |-> queue[at[i]], attempts |-> row[queue[at[i]]].attempts]
    BY DEF Batch
  <2>2. row[queue[at[i]]].attempts \in 0 .. Limit - 1 /\ row[queue[at[i]]].status = "PENDING"
    BY <1>1, WebhookAssumption DEF Due, Row
  <2>3. row[queue[at[i]]] = [status |-> "PENDING", attempts |-> row[queue[at[i]]].attempts]
    BY <1>1, <2>2 DEF Row
  <2> QED BY <1>1, <2>1, <2>2, <2>3 DEF Item
<1>3. batch \in Seq(Item) /\ Len(batch) = n
  <2>1. batch \in [1 .. n -> Item]
    BY <1>2 DEF Batch
  <2>2. ASSUME NEW m \in Nat, NEW f \in [1 .. m -> Item] PROVE f \in Seq(Item) /\ Len(f) = m
    OBVIOUS
  <2> QED BY <2>1, <2>2
<1>4. ASSUME NEW i \in 1 .. n, NEW j \in 1 .. n, at[i] = at[j] PROVE i = j
  <2>1. ~(i < j) /\ ~(j < i)
    BY <1>1, <1>4 DEF Oldest
  <2> QED BY <2>1
<1> QED BY <1>1, <1>2, <1>3, <1>4

\* A field of a job that is overwritten leaves it a job with the same list.
LEMMA JobMoves ==
    ASSUME JobsTypeOK, NEW r \in Run, NEW at \in {"read", "write"}, NEW answer \in {"ok", "bad"},
           \/ job' = [job EXCEPT ![r].at = at]
           \/ job' = [job EXCEPT ![r].answer = answer]
           \/ job' = [job EXCEPT ![r].at = at, ![r].answer = answer]
    PROVE  /\ job' \in [Run -> Job] /\ job'[r].list = job[r].list /\ job'[r].at \in {job[r].at, at}
           /\ \A q \in Run \ {r} : job'[q] = job[q]
<1>1. job \in [Run -> Job] /\ job[r] \in Job
  BY DEF JobsTypeOK
<1>2. /\ job'[r] \in {[job[r] EXCEPT !.at = at], [job[r] EXCEPT !.answer = answer],
                       [job[r] EXCEPT !.at = at, !.answer = answer]}
      /\ \A q \in Run \ {r} : job'[q] = job[q]
      /\ DOMAIN job' = Run /\ job' = [q \in Run |-> job'[q]]
  BY <1>1
<1>3. job'[r] \in Job /\ job'[r].list = job[r].list /\ job'[r].at \in {job[r].at, at}
  BY <1>1, <1>2 DEF Job
<1>4. \A q \in Run : job'[q] \in Job
  BY <1>1, <1>2, <1>3
<1> QED BY <1>2, <1>3, <1>4

\* A job that ends has no list.
LEMMA JobEnds ==
    ASSUME JobsTypeOK, NEW r \in Run, job' = [job EXCEPT ![r] = Idle]
    PROVE  /\ job' \in [Run -> Job] /\ job'[r] = Idle /\ job'[r].at = "idle" /\ job'[r].list = <<>>
           /\ \A q \in Run \ {r} : job'[q] = job[q]
           /\ \A q \in Run : Len(job'[q].list) <= Take
<1>1. job \in [Run -> Job] /\ Idle \in Job /\ Idle.at = "idle" /\ Idle.list = <<>>
  BY DEF JobsTypeOK, Job, Idle
<1>2. /\ job' \in [Run -> Job] /\ job'[r] = Idle /\ job'[r].at = "idle" /\ job'[r].list = <<>>
      /\ \A q \in Run \ {r} : job'[q] = job[q]
  BY <1>1
<1>3. ASSUME NEW q \in Run PROVE Len(job'[q].list) <= Take
  <2>1. Len(<<>>) = 0 /\ 0 <= Take
    BY WebhookAssumption
  <2>2. q # r => Len(job[q].list) <= Take
    BY DEF JobsTypeOK
  <2> QED BY <1>2, <2>1, <2>2
<1> QED BY <1>2, <1>3

\* Every step of the jobs and the requests keeps every variable's type.
LEMMA JobsTypeStep ==
    ASSUME TypeOK, JobsTypeOK, JobsRun, [JobsNext]_allVars
    PROVE  JobsTypeOK'
<1> USE WebhookAssumption, LeaseAssumption
<1>j. ASSUME job' \in [Run -> Job], \A r \in Run : Len(job'[r].list) <= Take,
             UNCHANGED <<hook, todo, published, queue>>, row' \in [Delivery -> Row],
             posts' \in [Delivery -> 0 .. MaxPosts], faults' \in 0 .. MaxFault, overlapped' \in BOOLEAN
      PROVE  JobsTypeOK'
  BY <1>j DEF JobsTypeOK
<1>f. ASSUME Fault PROVE faults' \in 0 .. MaxFault
  BY <1>f DEF Fault, JobsTypeOK, TypeOK
<1>l. \A r \in Run : Len(job[r].list) <= Take
  BY DEF JobsTypeOK
<1>1. ASSUME UNCHANGED <<hookVars, overlapped>> PROVE JobsTypeOK'
  BY <1>1 DEF hookVars, JobsTypeOK
<1>2. ASSUME NEW r \in Run, Begin(r) PROVE JobsTypeOK'
  <2>1. job' \in [Run -> Job] /\ \A q \in Run : Len(job'[q].list) <= Take
    <3>1. CASE UNCHANGED job
      BY <3>1 DEF JobsTypeOK
    <3>2. CASE job' = [job EXCEPT ![r].at = "read"]
      BY <3>2, <1>l, JobMoves
    <3> QED BY <1>2, <3>1, <3>2 DEF Begin
  <2>2. posts' \in [Delivery -> 0 .. MaxPosts]
    BY <1>2 DEF Begin, JobsTypeOK, MaxPosts
  <2>3. overlapped' \in BOOLEAN
    BY <1>2 DEF Begin, JobsTypeOK
  <2> QED BY <1>2, <1>j, <2>1, <2>2, <2>3 DEF Begin, JobsTypeOK
<1>3. ASSUME NEW r \in Run, CrashStep(r) PROVE JobsTypeOK'
  <2>1. job' \in [Run -> Job] /\ \A q \in Run : Len(job'[q].list) <= Take
    BY <1>3, JobEnds DEF CrashStep
  <2> QED BY <1>3, <1>j, <2>1 DEF CrashStep, JobsTypeOK
<1>4. ASSUME NEW r \in Run, ReadPending(r), UNCHANGED overlapped PROVE JobsTypeOK'
  <2>1. PICK n \in 0 .. Take : \E at \in [1 .. n -> 1 .. Len(queue)] :
          Oldest(n, at) /\ job' = NextJob(r, Batch(n, at))
    BY <1>4 DEF ReadPending
  <2>2. PICK batch \in Seq(Item) : Len(batch) = n /\ job' = NextJob(r, batch)
    <3>1. PICK at \in [1 .. n -> 1 .. Len(queue)] : Oldest(n, at) /\ job' = NextJob(r, Batch(n, at))
      BY <2>1
    <3>2. n \in Nat
      OBVIOUS
    <3>3. Batch(n, at) \in Seq(Item) /\ Len(Batch(n, at)) = n
      BY <3>1, <3>2, BatchIs
    <3> QED BY <3>1, <3>3
  <2>3. job' \in [Run -> Job] /\ job'[r].list = batch /\ \A q \in Run \ {r} : job'[q] = job[q]
    BY <2>2, NextJobIs
  <2>4. \A q \in Run : Len(job'[q].list) <= Take
    BY <1>l, <2>2, <2>3
  <2> QED BY <1>4, <1>j, <2>3, <2>4 DEF ReadPending, JobsTypeOK
<1>5. ASSUME NEW r \in Run, Post(r), UNCHANGED overlapped PROVE JobsTypeOK'
  <2>1. job' \in [Run -> Job] /\ \A q \in Run : Len(job'[q].list) <= Take
    BY <1>5, <1>l, JobMoves DEF Post
  <2>2. Head(job[r].list).d \in Delivery /\ MaxPosts \in Nat
    <3>1. job[r].list # <<>>
      BY <1>5 DEF Post, JobsRun
    <3>2. Head(job[r].list) = job[r].list[1] /\ job[r].list[1].d \in Delivery
      BY <3>1, JobFacts
    <3> QED BY <3>2 DEF MaxPosts
  <2>3. posts' \in [Delivery -> 0 .. MaxPosts]
    <3>1. posts \in [Delivery -> 0 .. MaxPosts]
      BY DEF JobsTypeOK
    <3> QED BY <1>5, <2>2, <3>1 DEF Post
  <2> QED BY <1>5, <1>j, <2>1, <2>3 DEF Post, JobsTypeOK
<1>6. ASSUME NEW r \in Run, Write(r), UNCHANGED overlapped PROVE JobsTypeOK'
  <2>1. /\ job[r].list # <<>> /\ Head(job[r].list) \in Item /\ Head(job[r].list).attempts \in 0 .. Limit - 1
        /\ Tail(job[r].list) \in Seq(Item) /\ Len(Tail(job[r].list)) <= Take
    BY <1>6, <1>l, JobFacts DEF Write, JobsRun
  <2>2. job' \in [Run -> Job] /\ \A q \in Run : Len(job'[q].list) <= Take
    <3>1. CASE job' = [job EXCEPT ![r] = Idle]
      BY <3>1, JobEnds
    <3>2. CASE job' = NextJob(r, Tail(job[r].list))
      BY <3>2, <1>l, <2>1, NextJobIs
    <3> QED BY <1>6, <3>1, <3>2 DEF Write
  <2>3. ASSUME NEW answer PROVE Written(Head(job[r].list), answer) \in Row
    <3>1. Head(job[r].list).attempts + 1 \in 0 .. Limit
      BY <2>1
    <3> QED BY <3>1 DEF Written, Row
  <2>4. row' \in [Delivery -> Row]
    <3>1. row \in [Delivery -> Row]
      BY DEF JobsTypeOK
    <3>2. UNCHANGED row \/ row' = [row EXCEPT ![Head(job[r].list).d] = Written(Head(job[r].list), job[r].answer)]
      BY <1>6 DEF Write
    <3> QED BY <2>3, <3>1, <3>2
  <2> QED BY <1>6, <1>j, <2>2, <2>4 DEF Write, JobsTypeOK
<1>7. ASSUME NEW r \in Run, WriteFails(r), UNCHANGED overlapped PROVE JobsTypeOK'
  <2>1. job' \in [Run -> Job] /\ \A q \in Run : Len(job'[q].list) <= Take
    <3>1. CASE job' = [job EXCEPT ![r] = Idle]
      BY <3>1, JobEnds
    <3>2. CASE job' = [job EXCEPT ![r].answer = "bad"]
      BY <3>2, <1>l, JobMoves
    <3> QED BY <1>7, <3>1, <3>2 DEF WriteFails
  <2> QED BY <1>7, <1>j, <1>f, <2>1 DEF WriteFails, JobsTypeOK
<1>8. ASSUME Request PROVE JobsTypeOK'
  <2> USE <1>8 DEF Request, JobsTypeOK
  <2>1. ASSUME NEW h \in Hook, CreateWebhook(h) PROVE JobsTypeOK'
    BY <2>1 DEF CreateWebhook
  <2>2. ASSUME NEW h \in Hook, RemoveWebhook(h) PROVE JobsTypeOK'
    <3>1. NoRow_ \in Row
      BY DEF NoRow_, Row
    <3> QED BY <2>2, <3>1 DEF RemoveWebhook
  <2>3. ASSUME NEW e \in Event, Publish(e) PROVE JobsTypeOK'
    BY <2>3 DEF Publish
  <2>4. ASSUME NEW e \in Event, PublishFails(e) PROVE JobsTypeOK'
    BY <2>4, <1>f DEF PublishFails
  <2>5. ASSUME NEW e \in Event, NEW h \in Hook, CreateRow(e, h) PROVE JobsTypeOK'
    <3>1. [status |-> "PENDING", attempts |-> 0] \in Row /\ <<e, h>> \in Delivery
      BY DEF Row, Delivery
    <3>2. row' \in [Delivery -> Row] /\ queue' \in Seq(Delivery)
      <4>1. CASE hook[h] = "active"
        <5>1. row \in [Delivery -> Row] /\ queue \in Seq(Delivery)
          OBVIOUS
        <5>2. /\ row' = [row EXCEPT ![<<e, h>>] = [status |-> "PENDING", attempts |-> 0]]
              /\ queue' = Append(queue, <<e, h>>)
          BY <2>5, <4>1 DEF CreateRow
        <5> HIDE DEF JobsTypeOK
        <5>3. row' \in [Delivery -> Row]
          BY <3>1, <5>1, <5>2
        <5> QED BY <3>1, <5>1, <5>2, <5>3
      <4>2. CASE hook[h] # "active"
        BY <2>5, <4>2 DEF CreateRow
      <4> QED BY <4>1, <4>2
    <3>3. todo' \in [Event -> SUBSET Hook]
      <4>1. todo' = [todo EXCEPT ![e] = @ \ {h}] \/ todo' = [todo EXCEPT ![e] = {}]
        BY <2>5 DEF CreateRow
      <4> QED BY <4>1
    <3> QED BY <2>5, <3>2, <3>3 DEF CreateRow
  <2> QED BY <2>1, <2>2, <2>3, <2>4, <2>5
<1>9. CASE UNCHANGED allVars
  BY <1>9, <1>1 DEF allVars
<1> QED BY <1>1, <1>2, <1>3, <1>4, <1>5, <1>6, <1>7, <1>8, <1>9
        DEF JobsNext, CronFires, LockStep, JobStep, TimePasses

\* Every step of a job, by what it does to the list: the job ends, or moves on with the
\* list it has, goes on to the next of it, or reads a new one.
LEMMA ListSteps ==
    ASSUME JobsTypeOK, JobsRun, [JobsNext]_allVars
    PROVE  \/ UNCHANGED job
           \/ \E r \in Run :
                /\ \A q \in Run \ {r} : job'[q] = job[q]
                /\ \/ job'[r] = Idle /\ job'[r].at = "idle" /\ job'[r].list = <<>>
                   \/ /\ job'[r].list = job[r].list /\ job[r].at \in {"send", "write"} /\ pc'[r] = "running"
                      /\ job'[r].at \in {job[r].at, "write"} /\ job[r].list # <<>>
                   \/ Begin(r) /\ pc'[r] = "running" /\ job'[r].list = job[r].list /\ job'[r].at \in {job[r].at, "read"}
                   \/ /\ job[r].at = "write" /\ job[r].list # <<>> /\ job'[r].list = Tail(job[r].list)
                      /\ job'[r].at = IF job'[r].list = <<>> THEN "idle" ELSE "send"
                   \/ /\ job[r].at = "read"
                      /\ \E n \in Nat : \E at \in [1 .. n -> 1 .. Len(queue)] :
                            Oldest(n, at) /\ job'[r].list = Batch(n, at)
                      /\ job'[r].at = IF job'[r].list = <<>> THEN "idle" ELSE "send"
<1> SUFFICES ASSUME job' # job
             PROVE  \E r \in Run :
                /\ \A q \in Run \ {r} : job'[q] = job[q]
                /\ \/ job'[r] = Idle /\ job'[r].at = "idle" /\ job'[r].list = <<>>
                   \/ /\ job'[r].list = job[r].list /\ job[r].at \in {"send", "write"} /\ pc'[r] = "running"
                      /\ job'[r].at \in {job[r].at, "write"} /\ job[r].list # <<>>
                   \/ Begin(r) /\ pc'[r] = "running" /\ job'[r].list = job[r].list /\ job'[r].at \in {job[r].at, "read"}
                   \/ /\ job[r].at = "write" /\ job[r].list # <<>> /\ job'[r].list = Tail(job[r].list)
                      /\ job'[r].at = IF job'[r].list = <<>> THEN "idle" ELSE "send"
                   \/ /\ job[r].at = "read"
                      /\ \E n \in Nat : \E at \in [1 .. n -> 1 .. Len(queue)] :
                            Oldest(n, at) /\ job'[r].list = Batch(n, at)
                      /\ job'[r].at = IF job'[r].list = <<>> THEN "idle" ELSE "send"
  OBVIOUS
<1>1. PICK r \in Run : \/ Begin(r) \/ CrashStep(r)
                       \/ (ReadPending(r) \/ Post(r) \/ Write(r) \/ WriteFails(r)) /\ UNCHANGED vars
  BY DEF JobsNext, CronFires, LockStep, JobStep, Request, TimePasses, hookVars, allVars,
         CreateWebhook, RemoveWebhook, Publish, PublishFails, CreateRow
<1>2. CASE Begin(r)
  <2>1. job' = [job EXCEPT ![r].at = "read"] /\ pc'[r] = "running"
    BY <1>2 DEF Begin
  <2> QED BY <1>2, <2>1, JobMoves
<1>3. ASSUME job' = [job EXCEPT ![r] = Idle] PROVE job'[r] = Idle /\ job'[r].at = "idle" /\ job'[r].list = <<>>
                                                   /\ \A q \in Run \ {r} : job'[q] = job[q]
  BY <1>3, JobEnds
<1>4. CASE CrashStep(r)
  BY <1>3, <1>4 DEF CrashStep
<1>5. CASE ReadPending(r)
  <2>1. job[r].at = "read"
    BY <1>5 DEF ReadPending
  <2>2. PICK n \in 0 .. Take : \E at \in [1 .. n -> 1 .. Len(queue)] :
          Oldest(n, at) /\ job' = NextJob(r, Batch(n, at))
    BY <1>5 DEF ReadPending
  <2>3. PICK at \in [1 .. n -> 1 .. Len(queue)] : Oldest(n, at) /\ job' = NextJob(r, Batch(n, at))
    BY <2>2
  <2>4. n \in Nat
    OBVIOUS
  <2>5. Batch(n, at) \in Seq(Item)
    BY <2>3, <2>4, BatchIs
  <2>6. /\ job'[r].list = Batch(n, at) /\ \A q \in Run \ {r} : job'[q] = job[q]
        /\ job'[r].at = IF job'[r].list = <<>> THEN "idle" ELSE "send"
    BY <2>3, <2>5, NextJobIs
  <2>7. \E m \in Nat : \E pos \in [1 .. m -> 1 .. Len(queue)] : Oldest(m, pos) /\ job'[r].list = Batch(m, pos)
    BY <2>3, <2>4, <2>6
  <2> QED BY <2>1, <2>6, <2>7
<1>6. CASE Post(r) /\ UNCHANGED vars
  <2>1. job[r].at = "send" /\ job[r].list # <<>> /\ pc'[r] = "running"
    BY <1>6 DEF Post, JobsRun, vars
  <2>2. job'[r].list = job[r].list /\ job'[r].at \in {job[r].at, "write"} /\ \A q \in Run \ {r} : job'[q] = job[q]
    BY <1>6, JobMoves DEF Post
  <2> QED BY <2>1, <2>2
<1>7. CASE Write(r)
  <2>1. job[r].at = "write" /\ job[r].list # <<>> /\ Tail(job[r].list) \in Seq(Item)
    BY <1>7, JobFacts DEF Write, JobsRun
  <2>2. CASE job' = NextJob(r, Tail(job[r].list))
    BY <2>1, <2>2, NextJobIs
  <2> QED BY <1>3, <1>7, <2>2 DEF Write
<1>8. CASE WriteFails(r) /\ UNCHANGED vars
  <2>1. job[r].at = "write" /\ job[r].list # <<>> /\ pc'[r] = "running"
    BY <1>8 DEF WriteFails, JobsRun, vars
  <2>2. CASE job' = [job EXCEPT ![r].answer = "bad"]
    <3>1. job'[r].list = job[r].list /\ job'[r].at \in {job[r].at, "write"} /\ \A q \in Run \ {r} : job'[q] = job[q]
      BY <2>2, JobMoves
    <3> QED BY <2>1, <3>1
  <2> QED BY <1>3, <1>8, <2>2 DEF WriteFails
<1> QED BY <1>1, <1>2, <1>4, <1>5, <1>6, <1>7, <1>8

\* Every step keeps jobs with the runs that execute them, and records an overlap.
LEMMA JobsRunStep ==
    ASSUME TypeOK, JobsTypeOK, JobsRun, [JobsNext]_allVars
    PROVE  JobsRun'
<1>1. \A r \in Run : job'[r].at # "idle" => pc'[r] = "running"
  <2> SUFFICES ASSUME NEW r \in Run, job'[r].at # "idle" PROVE pc'[r] = "running"
    OBVIOUS
  <2>1. CASE job'[r] = job[r]
    <3>1. pc[r] = "running" /\ job[r] # Idle
      BY <2>1 DEF JobsRun, Idle
    <3>2. ASSUME CrashStep(r) PROVE FALSE
      BY <2>1, <3>1, <3>2, JobEnds DEF CrashStep
    <3>3. ~ LockStep(r)
      BY <3>1 DEF LockStep, Upsert, Release, Begin, Check
    <3>4. ASSUME NEW q \in Run, q # r, LockStep(q) \/ CrashStep(q) PROVE pc'[r] = pc[r]
      BY <3>4 DEF LockStep, CrashStep, Upsert, Release, Begin, Check, Crash, TypeOK
    <3>5. ASSUME NEW q \in Run, CronFires(q) PROVE pc'[r] = pc[r]
      BY <3>1, <3>5 DEF CronFires, Start, TypeOK
    <3>6. CASE UNCHANGED pc
      BY <3>1, <3>6
    <3> QED BY <3>1, <3>2, <3>3, <3>4, <3>5, <3>6
            DEF JobsNext, JobStep, Request, TimePasses, Tick, vars, allVars
  <2>2. CASE job'[r] # job[r]
    <3>1. \/ job'[r].at = "idle"
          \/ pc'[r] = "running"
          \/ job[r].at \in {"read", "write"} /\ ~ \E q \in Run : Begin(q) /\ job' = job
      BY <2>2, ListSteps
    <3>2. CASE job[r].at \in {"read", "write"} /\ job'[r].at # "idle"
      <4>1. pc[r] = "running"
        BY <3>2 DEF JobsRun
      <4>2. ~ CrashStep(r) /\ \A q \in Run \ {r} : ~ CrashStep(q)
        BY <2>2, <3>2, JobEnds DEF CrashStep
      <4>3. ~ LockStep(r)
        BY <3>2, <4>1 DEF LockStep, Upsert, Release, Begin, Check, Idle
      <4>4. ASSUME NEW q \in Run, q # r, LockStep(q) PROVE pc'[r] = pc[r]
        BY <4>4 DEF LockStep, Upsert, Release, Begin, Check, TypeOK
      <4>5. ASSUME NEW q \in Run, CronFires(q) PROVE pc'[r] = pc[r]
        BY <4>1, <4>5 DEF CronFires, Start, TypeOK
      <4>6. CASE UNCHANGED pc
        BY <4>1, <4>6
      <4> QED BY <4>1, <4>2, <4>3, <4>4, <4>5, <4>6
              DEF JobsNext, JobStep, Request, TimePasses, Tick, vars, allVars
    <3> QED BY <3>1, <3>2
  <2> QED BY <2>1, <2>2
<1>2. ~overlapped' => SingleRunner'
  <2> SUFFICES ASSUME ~overlapped' PROVE SingleRunner'
    OBVIOUS
  <2>1. ~overlapped
    BY DEF JobsNext, CronFires, LockStep, Begin, CrashStep, JobStep, Request, TimePasses, allVars
  <2>2. ASSUME \A r \in Run : pc'[r] = "running" => pc[r] = "running" PROVE SingleRunner'
    BY <2>1, <2>2 DEF JobsRun, SingleRunner, Running
  <2>3. ASSUME NEW r \in Run, Begin(r) PROVE SingleRunner'
    <3>1. \A q \in Run \ {r} : pc'[q] = pc[q]
      BY <2>3 DEF Begin, Check, TypeOK
    <3>2. CASE pc'[r] = "running"
      BY <2>3, <3>1, <3>2 DEF Begin, SingleRunner, Running
    <3>3. CASE pc'[r] # "running"
      BY <2>2, <3>1, <3>3
    <3> QED BY <3>2, <3>3
  <2>4. ASSUME NEW r \in Run, CronFires(r) \/ CrashStep(r) \/ Upsert(r) \/ Release(r) PROVE SingleRunner'
    BY <2>2, <2>4 DEF CronFires, CrashStep, Start, Crash, Upsert, Release, TypeOK
  <2>5. CASE UNCHANGED pc
    BY <2>2, <2>5
  <2> QED BY <2>3, <2>4, <2>5
          DEF JobsNext, LockStep, JobStep, Request, TimePasses, Tick, vars, allVars
<1>3. \A r \in Run : job'[r].at \in {"send", "write"} => job'[r].list # <<>>
  BY ListSteps DEF JobsRun
<1> QED BY <1>1, <1>2, <1>3 DEF JobsRun

\* Every step keeps each delivery created once, and listed once.
LEMMA CreatedOnceStep ==
    ASSUME JobsTypeOK, JobsRun, CreatedOnce, ListedOnce, [JobsNext]_allVars
    PROVE  CreatedOnce'
<1>q. /\ queue \in Seq(Delivery) /\ Len(queue) \in Nat /\ todo \in [Event -> SUBSET Hook]
      /\ \A k \in 1 .. Len(queue) : queue[k] \in Delivery
  BY DEF JobsTypeOK
<1>1. ASSUME UNCHANGED <<queue, todo, published>>,
             \A d \in Delivery : row'[d] = NoRow_ \/ row[d] # NoRow_ ,
             \A d \in Delivery : posts'[d] = posts[d] \/ posts'[d] = 0 \/ Created(d)
      PROVE  CreatedOnce'
  BY <1>1 DEF CreatedOnce, Created
<1>2. ASSUME NEW r \in Run, Begin(r) PROVE CreatedOnce'
  <2>1. \A d \in Delivery : posts'[d] = posts[d] \/ posts'[d] = 0
    BY <1>2 DEF Begin
  <2> QED BY <1>1, <1>2, <2>1 DEF Begin
<1>3. ASSUME NEW r \in Run, Post(r) PROVE CreatedOnce'
  <2>1. job[r].list # <<>>
    BY <1>3 DEF Post, JobsRun
  <2>2. Created(Head(job[r].list).d) /\ posts \in [Delivery -> 0 .. MaxPosts]
    BY <2>1, JobFacts DEF ListedOnce, JobsTypeOK
  <2>3. \A d \in Delivery : posts'[d] = posts[d] \/ Created(d)
    <3> SUFFICES ASSUME NEW d \in Delivery, d # Head(job[r].list).d PROVE posts'[d] = posts[d]
      BY <2>2
    <3> QED BY <1>3, <2>2 DEF Post
  <2> QED BY <1>1, <1>3, <2>3 DEF Post
<1>4. ASSUME NEW r \in Run, Write(r) PROVE CreatedOnce'
  <2>1. \A d \in Delivery : row'[d] = row[d] \/ row[d] # NoRow_
    BY <1>4 DEF Write, JobsTypeOK
  <2> QED BY <1>1, <1>4, <2>1 DEF Write
<1>5. ASSUME NEW h \in Hook, RemoveWebhook(h) PROVE CreatedOnce'
  <2>1. \A d \in Delivery : row'[d] = NoRow_ \/ row'[d] = row[d]
    BY <1>5 DEF RemoveWebhook
  <2> QED BY <1>1, <1>5, <2>1 DEF RemoveWebhook
<1>6. ASSUME NEW e \in Event, Publish(e) PROVE CreatedOnce'
  <2>1. /\ e \notin published /\ published' = published \cup {e}
        /\ \A f \in Event : f # e => todo'[f] = todo[f]
        /\ UNCHANGED <<queue, row, posts>>
    BY <1>6, <1>q DEF Publish
  <2>2. \A k \in 1 .. Len(queue) : queue[k][1] \in published /\ queue[k][1] \in Event /\ queue[k][2] \notin todo[queue[k][1]]
    BY <1>q DEF CreatedOnce, Delivery
  <2>3. \A k \in 1 .. Len(queue) : queue[k][1] \in published' /\ queue[k][2] \notin todo'[queue[k][1]]
    BY <2>1, <2>2
  <2> QED BY <2>1, <2>3 DEF CreatedOnce, Created
<1>7. ASSUME NEW e \in Event, todo' = [todo EXCEPT ![e] = {}], UNCHANGED <<published, row, queue, posts>>
      PROVE  CreatedOnce'
  <2>1. \A f \in Event : todo'[f] \subseteq todo[f]
    BY <1>7, <1>q
  <2>2. \A k \in 1 .. Len(queue) : queue[k][1] \in Event /\ queue[k][2] \notin todo[queue[k][1]]
    BY <1>q DEF CreatedOnce, Delivery
  <2>3. \A k \in 1 .. Len(queue) : queue[k][2] \notin todo'[queue[k][1]]
    BY <2>1, <2>2
  <2>4. \A f \in Event : f \notin published => todo'[f] = {}
    BY <2>1 DEF CreatedOnce
  <2> QED BY <1>7, <2>3, <2>4 DEF CreatedOnce, Created
<1>8. ASSUME NEW e \in Event, NEW h \in Hook, CreateRow(e, h), hook[h] = "active" PROVE CreatedOnce'
  <2> DEFINE n == Len(queue)
  <2>1. /\ h \in todo[e] /\ todo' = [todo EXCEPT ![e] = @ \ {h}]
        /\ row' = [row EXCEPT ![<<e, h>>] = [status |-> "PENDING", attempts |-> 0]]
        /\ queue' = Append(queue, <<e, h>>) /\ UNCHANGED <<published, posts>>
    BY <1>8 DEF CreateRow
  <2>2. <<e, h>> \in Delivery /\ <<e, h>>[1] = e /\ <<e, h>>[2] = h
    BY DEF Delivery
  <2>3. Len(queue') = n + 1 /\ queue'[n + 1] = <<e, h>> /\ \A k \in 1 .. n : queue'[k] = queue[k]
    BY <1>q, <2>1, <2>2
  <2>4. e \in published /\ (\A f \in Event : todo'[f] \subseteq todo[f]) /\ h \notin todo'[e]
    BY <1>q, <2>1 DEF CreatedOnce
  <2>5. \A k \in 1 .. n : queue[k] # <<e, h>>
    <3> SUFFICES ASSUME NEW k \in 1 .. n, queue[k] = <<e, h>> PROVE FALSE
      OBVIOUS
    <3>1. queue[k][1] = e /\ queue[k][2] = h
      BY <2>2
    <3> QED BY <2>1, <3>1 DEF CreatedOnce
  <2> HIDE DEF n
  <2>6. \A k \in 1 .. Len(queue') : k \in 1 .. n \/ k = n + 1
    BY <1>q, <2>3 DEF n
  <2>7. \A k \in 1 .. n : queue[k][1] \in Event /\ queue[k][1] \in published /\ queue[k][2] \notin todo[queue[k][1]]
    BY <1>q DEF CreatedOnce, Delivery, n
  <2>8. \A k \in 1 .. Len(queue') : queue'[k][1] \in published /\ queue'[k][2] \notin todo'[queue'[k][1]]
    <3> SUFFICES ASSUME NEW k \in 1 .. Len(queue')
                 PROVE  queue'[k][1] \in published /\ queue'[k][2] \notin todo'[queue'[k][1]]
      OBVIOUS
    <3>1. CASE k \in 1 .. n
      BY <2>3, <2>4, <2>7, <3>1
    <3>2. CASE k = n + 1
      BY <2>2, <2>3, <2>4, <3>2
    <3> QED BY <2>6, <3>1, <3>2
  <2>9. \A k, l \in 1 .. Len(queue') : queue'[k] = queue'[l] => k = l
    BY <2>3, <2>5, <2>6 DEF CreatedOnce, n
  <2>10. ASSUME NEW d \in Delivery, ~Created(d)' PROVE row'[d] = NoRow_ /\ posts'[d] = 0
    <3>1. d # <<e, h>> /\ \A k \in 1 .. n : queue[k] # d
      <4>1. n + 1 \in 1 .. Len(queue') /\ \A k \in 1 .. n : k \in 1 .. Len(queue')
        BY <1>q, <2>3 DEF n
      <4> QED BY <2>3, <2>10, <4>1 DEF Created
    <3>2. ~Created(d)
      BY <3>1 DEF Created, n
    <3> QED BY <2>1, <3>1, <3>2 DEF CreatedOnce, JobsTypeOK
  <2>11. \A f \in Event : f \notin published => todo'[f] = {}
    BY <2>4 DEF CreatedOnce
  <2> QED BY <2>1, <2>8, <2>9, <2>10, <2>11 DEF CreatedOnce
<1>9. ASSUME NEW e \in Event, NEW h \in Hook, CreateRow(e, h) PROVE CreatedOnce'
  BY <1>7, <1>8, <1>9 DEF CreateRow
<1>10. ASSUME UNCHANGED <<queue, todo, published, row, posts>> PROVE CreatedOnce'
  BY <1>1, <1>10
<1> QED BY <1>2, <1>3, <1>4, <1>5, <1>6, <1>7, <1>9, <1>10
        DEF JobsNext, CronFires, LockStep, CrashStep, JobStep, Request, TimePasses, hookVars, allVars,
            ReadPending, WriteFails, CreateWebhook, PublishFails

LEMMA ListedOnceStep ==
    ASSUME JobsTypeOK, JobsRun, CreatedOnce, ListedOnce, [JobsNext]_allVars
    PROVE  ListedOnce'
<1>1. \A d : Created(d) => Created(d)'
  <2>1. ASSUME NEW e \in Event, NEW h \in Hook, CreateRow(e, h), NEW d, Created(d) PROVE Created(d)'
    <3>1. CASE UNCHANGED queue
      BY <2>1, <3>1 DEF Created
    <3>2. CASE queue' = Append(queue, <<e, h>>)
      <4>1. queue \in Seq(Delivery) /\ <<e, h>> \in Delivery
        BY DEF JobsTypeOK, Delivery
      <4>2. Len(queue') = Len(queue) + 1 /\ \A k \in 1 .. Len(queue) : queue'[k] = queue[k] /\ k \in 1 .. Len(queue')
        BY <3>2, <4>1
      <4> QED BY <2>1, <4>2 DEF Created
    <3> QED BY <2>1, <3>1, <3>2 DEF CreateRow
  <2>2. CASE UNCHANGED queue
    BY <2>2 DEF Created
  <2> QED BY <2>1, <2>2
          DEF JobsNext, CronFires, LockStep, Begin, CrashStep, JobStep, Request, TimePasses, hookVars, allVars,
              ReadPending, Post, Write, WriteFails, CreateWebhook, RemoveWebhook, Publish, PublishFails
<1> DEFINE After == {d \in Delivery : Created(d)'}
           Fits(list) == \A i, j \in 1 .. Len(list) : list[i].d \in After /\ (list[i].d = list[j].d => i = j)
<1>2. ASSUME NEW r \in Run PROVE Fits(job[r].list)
  <2>1. \A i \in 1 .. Len(job[r].list) : job[r].list[i].d \in Delivery
    BY JobFacts
  <2>2. \A i \in 1 .. Len(job[r].list) : job[r].list[i].d \in After
    BY <1>1, <2>1 DEF ListedOnce
  <2> QED BY <2>2 DEF ListedOnce
<1>3. Fits(<<>>)
  <2>1. 1 .. Len(<<>>) = {}
    OBVIOUS
  <2> QED BY <2>1
<1>4. ASSUME NEW r \in Run, job[r].list # <<>> PROVE Fits(Tail(job[r].list))
  <2>1. \A i \in 1 .. Len(Tail(job[r].list)) :
          i + 1 \in 1 .. Len(job[r].list) /\ Tail(job[r].list)[i] = job[r].list[i + 1]
    BY <1>4, JobFacts
  <2>2. ASSUME NEW i \in 1 .. Len(Tail(job[r].list)), NEW j \in 1 .. Len(Tail(job[r].list)),
               Tail(job[r].list)[i].d = Tail(job[r].list)[j].d
        PROVE  i = j
    <3>1. i + 1 = j + 1
      BY <1>2, <2>1, <2>2, SMTT(20)
    <3>2. i \in Nat /\ j \in Nat
      OBVIOUS
    <3> QED BY <3>1, <3>2
  <2>3. \A i \in 1 .. Len(Tail(job[r].list)) : Tail(job[r].list)[i].d \in After
    BY <1>2, <2>1
  <2> QED BY <2>2, <2>3
<1>5. ASSUME NEW n \in Nat, NEW at \in [1 .. n -> 1 .. Len(queue)], Oldest(n, at) PROVE Fits(Batch(n, at))
  <2>1. /\ Len(Batch(n, at)) = n
        /\ \A i \in 1 .. n : at[i] \in 1 .. Len(queue) /\ Batch(n, at)[i].d = queue[at[i]]
        /\ \A i, j \in 1 .. n : at[i] = at[j] => i = j
    <3>1. Len(Batch(n, at)) = n
      BY <1>5, BatchIs
    <3>2. \A i \in 1 .. n : at[i] \in 1 .. Len(queue) /\ Batch(n, at)[i].d = queue[at[i]]
      BY DEF Batch
    <3>3. \A i, j \in 1 .. n : at[i] = at[j] => i = j
      BY <1>5, BatchIs
    <3> QED BY <3>1, <3>2, <3>3
  <2>2. ASSUME NEW i \in 1 .. n PROVE queue[at[i]] \in After
    <3>1. queue[at[i]] \in Delivery /\ Created(queue[at[i]])
      BY <2>1 DEF Created, JobsTypeOK
    <3>2. \A d \in Delivery : Created(d) => d \in After
      BY <1>1
    <3> QED BY <3>1, <3>2
  <2>3. \A i, j \in 1 .. n : queue[at[i]] = queue[at[j]] => i = j
    BY <2>1 DEF CreatedOnce
  <2> QED BY <2>1, <2>2, <2>3
<1>6. ASSUME NEW q \in Run PROVE Fits(job'[q].list)
  <2> HIDE DEF Fits
  <2>1. \/ job'[q].list = job[q].list \/ job'[q].list = <<>>
        \/ job[q].list # <<>> /\ job'[q].list = Tail(job[q].list)
        \/ \E n \in Nat : \E at \in [1 .. n -> 1 .. Len(queue)] : Oldest(n, at) /\ job'[q].list = Batch(n, at)
    BY ListSteps
  <2> QED BY <1>2, <1>3, <1>4, <1>5, <2>1
<1> QED
  <2>1. ASSUME NEW q \in Run, NEW i \in 1 .. Len(job'[q].list), NEW j \in 1 .. Len(job'[q].list)
        PROVE  /\ job'[q].list[i].d \in After
               /\ job'[q].list[i].d = job'[q].list[j].d => i = j
    BY <1>6
  <2>2. \A d \in After : Created(d)'
    OBVIOUS
  <2> QED BY <2>1, <2>2 DEF ListedOnce, Created

\* Until runs overlap, at most one job is in flight.
LEMMA SoleJob ==
    ASSUME JobsRun, ~overlapped, NEW r \in Run, job[r].at # "idle"
    PROVE  \A q \in Run \ {r} : job[q].at = "idle"
BY DEF JobsRun, SingleRunner, Running

\* A new delivery is in no list.
LEMMA NewIsUnlisted ==
    ASSUME JobsTypeOK, CreatedOnce, ListedOnce, NEW e \in Event, NEW h \in todo[e]
    PROVE  /\ <<e, h>> \in Delivery /\ ~Created(<<e, h>>)
           /\ \A r \in Run : \A i \in 1 .. Len(job[r].list) : job[r].list[i].d # <<e, h>>
<1>1. <<e, h>> \in Delivery /\ <<e, h>>[1] = e /\ <<e, h>>[2] = h
  BY DEF Delivery, JobsTypeOK
<1>2. ~Created(<<e, h>>)
  <2> SUFFICES ASSUME NEW k \in 1 .. Len(queue), queue[k] = <<e, h>> PROVE FALSE
    BY DEF Created
  <2>1. queue[k][1] = e /\ queue[k][2] = h
    BY <1>1
  <2> QED BY <2>1 DEF CreatedOnce
<1> QED BY <1>1, <1>2 DEF ListedOnce

\* Every step keeps the rows of a list as they were read, until runs overlap.
LEMMA SnapshotStep ==
    ASSUME JobsTypeOK, JobsRun, CreatedOnce, ListedOnce, SnapshotHolds, [JobsNext]_allVars
    PROVE  SnapshotHolds'
<1> SUFFICES ASSUME ~overlapped', NEW q \in Run, job'[q].at \in {"send", "write"},
                    NEW i \in 1 .. Len(job'[q].list)
             PROVE  AsRead(job[q].list[i])'
  BY DEF SnapshotHolds
<1>o. ~overlapped
  BY DEF JobsNext, CronFires, LockStep, Begin, CrashStep, JobStep, Request, TimePasses, allVars
<1>h. \A j \in 1 .. Len(job[q].list) : job[q].at \in {"send", "write"} => AsRead(job[q].list[j])
  BY <1>o DEF SnapshotHolds
<1>1. CASE UNCHANGED row
  <2>1. CASE job'[q].list = job[q].list /\ job[q].at \in {"send", "write"}
    BY <1>1, <1>h, <2>1 DEF AsRead
  <2>2. CASE job[q].at = "write" /\ job[q].list # <<>> /\ job'[q].list = Tail(job[q].list)
    <3>1. i + 1 \in 1 .. Len(job[q].list) /\ job'[q].list[i] = job[q].list[i + 1]
      BY <2>2, JobFacts
    <3> QED BY <1>1, <1>h, <2>2, <3>1 DEF AsRead
  <2>3. ASSUME NEW n \in Nat, NEW at \in [1 .. n -> 1 .. Len(queue)], Oldest(n, at), job'[q].list = Batch(n, at)
        PROVE  AsRead(job[q].list[i])'
    <3>1. i \in 1 .. n
      <4>1. Len(Batch(n, at)) = n
        BY <2>3, BatchIs
      <4> QED BY <2>3, <4>1
    <3>2. row[Batch(n, at)[i].d] = [status |-> "PENDING", attempts |-> Batch(n, at)[i].attempts]
      BY <2>3, <3>1, BatchIs
    <3> QED BY <1>1, <2>3, <3>2 DEF AsRead
  <2>4. /\ \A r \in Run : Begin(r) /\ job'[r].at \in {job[r].at, "read"} /\ job'[r].at \in {"send", "write"}
                            => job[r].at \in {"send", "write"}
        /\ Idle.at = "idle"
    BY DEF Idle
  <2> QED BY <2>1, <2>2, <2>3, <2>4, ListSteps
<1>2. ASSUME NEW r \in Run, Write(r), UNCHANGED <<vars, overlapped>>, row' # row PROVE AsRead(job[q].list[i])'
  <2> DEFINE item == Head(job[r].list)
  <2>1. /\ job[r].at = "write" /\ job[r].list # <<>>
        /\ row' = [row EXCEPT ![item.d] = Written(item, job[r].answer)]
        /\ job' = NextJob(r, Tail(job[r].list))
    BY <1>2 DEF Write, JobsRun
  <2>2. item = job[r].list[1] /\ item.d \in Delivery /\ Tail(job[r].list) \in Seq(Item) /\ 1 \in 1 .. Len(job[r].list)
    BY <2>1, JobFacts
  <2>3. job'[r].list = Tail(job[r].list) /\ \A p \in Run \ {r} : job'[p] = job[p]
    BY <2>1, <2>2, NextJobIs
  <2>4. q = r
    BY <1>o, <2>1, <2>3, SoleJob
  <2>5. i + 1 \in 1 .. Len(job[r].list) /\ job'[r].list[i] = job[r].list[i + 1]
    BY <2>1, <2>3, <2>4, JobFacts
  <2>6. job[r].list[i + 1].d # item.d /\ job[r].list[i + 1].d \in Delivery
    <3>1. i + 1 # 1
      OBVIOUS
    <3> QED BY <2>2, <2>5, <3>1, JobFacts DEF ListedOnce
  <2>7. row'[job[r].list[i + 1].d] = row[job[r].list[i + 1].d]
    BY <2>1, <2>6 DEF JobsTypeOK
  <2> QED BY <1>h, <2>1, <2>4, <2>5, <2>7 DEF AsRead
<1>3. ASSUME NEW h \in Hook, RemoveWebhook(h) PROVE AsRead(job[q].list[i])'
  <2>1. job' = job /\ job[q].list[i].d \in Delivery /\ AsRead(job[q].list[i])
    <3>1. job' = job
      BY <1>3 DEF RemoveWebhook
    <3> QED BY <1>h, <3>1, JobFacts
  <2>2. row'[job[q].list[i].d] \in {NoRow_, row[job[q].list[i].d]}
    BY <1>3, <2>1 DEF RemoveWebhook
  <2> QED BY <2>1, <2>2 DEF AsRead
<1>4. ASSUME NEW e \in Event, NEW h \in Hook, CreateRow(e, h), row' # row PROVE AsRead(job[q].list[i])'
  <2>1. h \in todo[e] /\ job' = job /\ row' = [row EXCEPT ![<<e, h>>] = [status |-> "PENDING", attempts |-> 0]]
    BY <1>4 DEF CreateRow
  <2>2. job[q].list[i].d # <<e, h>> /\ job[q].list[i].d \in Delivery
    BY <2>1, NewIsUnlisted, JobFacts
  <2>3. row'[job[q].list[i].d] = row[job[q].list[i].d]
    BY <2>1, <2>2 DEF JobsTypeOK
  <2> QED BY <1>h, <2>1, <2>3 DEF AsRead
<1> QED BY <1>1, <1>2, <1>3, <1>4
        DEF JobsNext, CronFires, LockStep, Begin, CrashStep, JobStep, Request, TimePasses, hookVars, allVars,
            ReadPending, Post, WriteFails, CreateWebhook, Publish, PublishFails

\* Every step keeps the account of the posts, until runs overlap.
LEMMA PostsStep ==
    ASSUME TypeOK, JobsTypeOK, JobsRun, CreatedOnce, ListedOnce, SnapshotHolds, PostsAccounted,
           [JobsNext]_allVars
    PROVE  PostsAccounted'
<1> SUFFICES ASSUME ~overlapped' PROVE \A d \in Delivery : Counted(d)'
  BY DEF PostsAccounted
<1>o. ~overlapped
  BY DEF JobsNext, CronFires, LockStep, Begin, CrashStep, JobStep, Request, TimePasses, allVars
<1>c. \A d \in Delivery : Counted(d)
  BY <1>o DEF PostsAccounted
<1>n. /\ crashes \in Nat /\ faults \in Nat /\ Limit \in Nat /\ Limit < MaxPosts /\ MaxPosts \in Nat
      /\ \A d \in Delivery : posts[d] \in Nat /\ posts[d] <= MaxPosts /\ row[d] \in Row /\ row[d].attempts \in Nat
  <2>1. crashes \in Nat /\ faults \in Nat /\ Limit \in Nat /\ Limit < MaxPosts /\ MaxPosts \in Nat
    BY LeaseAssumption, WebhookAssumption DEF TypeOK, JobsTypeOK, MaxPosts
  <2>2. ASSUME NEW d \in Delivery PROVE posts[d] \in Nat /\ posts[d] <= MaxPosts /\ row[d] \in Row
    BY <2>1 DEF JobsTypeOK
  <2>3. \A x \in Row : x.attempts \in Nat
    BY <2>1 DEF Row
  <2> QED BY <2>1, <2>2, <2>3
\* The delivery and its post are left alone, and a count that is lost was a fault.
<1>g. ASSUME NEW d \in Delivery, row'[d] = row[d], posts'[d] = posts[d],
             crashes' \in Nat, faults' \in Nat, crashes' + faults' >= crashes + faults,
             Writing(d)' => Writing(d),
             Writing(d) => Writing(d)' \/ crashes' + faults' >= crashes + faults + 1
      PROVE  Counted(d)'
  <2>1. /\ row[d] # NoRow_ => /\ row[d].attempts <= posts[d]
                              /\ row[d].status = "FAILED" => posts[d] >= Limit
                              /\ Writing(d)' => row[d].attempts + 1 <= posts[d]
    BY <1>c, <1>g DEF Counted
  <2>2. row[d] # NoRow_ => posts[d] <= row[d].attempts + crashes' + faults' + (IF Writing(d)' THEN 1 ELSE 0)
    <3>1. row[d] # NoRow_ => posts[d] <= row[d].attempts + crashes + faults + (IF Writing(d) THEN 1 ELSE 0)
      BY <1>c DEF Counted
    <3>2. posts[d] \in Nat /\ row[d].attempts \in Nat
      BY <1>n
    <3> QED BY <1>g, <1>n, <3>1, <3>2
  <2> QED BY <1>g, <2>1, <2>2 DEF Counted
\* Only one job writes.
<1>w. ASSUME NEW r \in Run, job[r].at # "idle", \A q \in Run \ {r} : job'[q] = job[q]
      PROVE  \A d : /\ Writing(d) <=> job[r].at = "write" /\ Head(job[r].list).d = d
                    /\ Writing(d)' <=> job'[r].at = "write" /\ Head(job'[r].list).d = d
  <2>1. \A q \in Run \ {r} : job[q].at = "idle" /\ job'[q].at = "idle"
    BY <1>o, <1>w, SoleJob
  <2> QED BY <2>1 DEF Writing
<1>1. ASSUME UNCHANGED <<job, row, posts>>, crashes' \in Nat, faults' \in Nat, crashes' + faults' >= crashes + faults
      PROVE  \A d \in Delivery : Counted(d)'
  BY <1>1, <1>g DEF Writing
<1>2. ASSUME NEW r \in Run, CronFires(r) \/ LockStep(r) PROVE \A d \in Delivery : Counted(d)'
  <2>1. CASE Begin(r)
    <3>1. job[r].at = "idle"
      BY <2>1 DEF Begin, Check, JobsRun
    <3>2. job' = job \/ job' = [job EXCEPT ![r].at = "read"]
      BY <2>1 DEF Begin
    <3>3. job'[r].at # "write" /\ \A q \in Run \ {r} : job'[q] = job[q]
      BY <3>1, <3>2, JobMoves, JobFacts
    <3>4. \A d : Writing(d)' <=> Writing(d)
      BY <3>1, <3>3 DEF Writing
    <3>5. UNCHANGED <<row, posts, faults, crashes>>
      BY <2>1 DEF Begin, Check
    <3> QED BY <1>g, <1>n, <3>4, <3>5
  <2>2. CASE ~Begin(r)
    BY <1>1, <1>2, <1>n, <2>2 DEF CronFires, LockStep, Start, Upsert, Release, hookVars
  <2> QED BY <2>1, <2>2
<1>3. ASSUME NEW r \in Run, CrashStep(r) PROVE \A d \in Delivery : Counted(d)'
  <2>1. job'[r].at = "idle" /\ \A q \in Run \ {r} : job'[q] = job[q]
    BY <1>3, JobEnds DEF CrashStep
  <2>2. crashes' = crashes + 1 /\ UNCHANGED <<row, posts, faults>>
    BY <1>3 DEF CrashStep, Crash
  <2>3. \A d : Writing(d)' => Writing(d)
    BY <2>1 DEF Writing
  <2> QED BY <1>g, <1>n, <2>2, <2>3
<1>4. ASSUME NEW r \in Run, ReadPending(r), UNCHANGED vars PROVE \A d \in Delivery : Counted(d)'
  <2>1. job[r].at = "read" /\ UNCHANGED <<row, posts, faults, crashes>>
    BY <1>4 DEF ReadPending, vars
  <2>2. job'[r].at # "write" /\ \A q \in Run \ {r} : job'[q] = job[q]
    <3>1. PICK n \in 0 .. Take : \E at \in [1 .. n -> 1 .. Len(queue)] :
            Oldest(n, at) /\ job' = NextJob(r, Batch(n, at))
      BY <1>4 DEF ReadPending
    <3>2. PICK at \in [1 .. n -> 1 .. Len(queue)] : Oldest(n, at) /\ job' = NextJob(r, Batch(n, at))
      BY <3>1
    <3>3. n \in Nat
      OBVIOUS
    <3>4. Batch(n, at) \in Seq(Item)
      BY <3>2, <3>3, BatchIs
    <3> QED BY <3>2, <3>4, NextJobIs
  <2>3. \A d : Writing(d)' <=> Writing(d)
    BY <2>1, <2>2 DEF Writing
  <2> QED BY <1>g, <1>n, <2>1, <2>3
<1>5. ASSUME NEW r \in Run, Post(r), UNCHANGED vars PROVE \A d \in Delivery : Counted(d)'
  <2> DEFINE item == Head(job[r].list)
  <2>1. job[r].at = "send" /\ job[r].list # <<>> /\ UNCHANGED <<row, faults, crashes>>
    BY <1>5 DEF Post, JobsRun, vars
  <2>2. /\ item = job[r].list[1] /\ 1 \in 1 .. Len(job[r].list) /\ item.d \in Delivery
        /\ item.attempts \in 0 .. Limit - 1
    BY <2>1, JobFacts
  <2>3. job'[r].at = "write" /\ job'[r].list = job[r].list /\ \A q \in Run \ {r} : job'[q] = job[q]
    <3>1. PICK answer \in {"ok", "bad"} : job' = [job EXCEPT ![r].at = "write", ![r].answer = answer]
      BY <1>5 DEF Post
    <3>2. job[r] \in Job /\ job'[r] = [job[r] EXCEPT !.at = "write", !.answer = answer]
      BY <3>1 DEF JobsTypeOK
    <3>3. job'[r].at = "write"
      BY <3>2 DEF Job
    <3> QED BY <3>1, <3>3, JobMoves
  <2>4. \A d : ~Writing(d) /\ (Writing(d)' <=> item.d = d)
    BY <1>w, <2>1, <2>3
  <2>5. posts' = [posts EXCEPT ![item.d] = IF @ < MaxPosts THEN @ + 1 ELSE @]
    BY <1>5, <1>o DEF Post
  <2>a. item.attempts \in Nat /\ item.attempts < Limit
    BY <1>n, <2>2
  <2>b. PICK c \in Delivery : c = item.d
    BY <2>2
  <2> HIDE DEF item
  <2>6. ASSUME NEW d \in Delivery, d # c PROVE Counted(d)'
    <3>1. posts'[d] = posts[d]
      BY <2>b, <2>5, <2>6 DEF JobsTypeOK
    <3> QED BY <2>b, <1>g, <1>n, <2>1, <2>4, <2>6, <3>1
  <2>7. Counted(c)'
    <3> SUFFICES ASSUME row[c] # NoRow_ PROVE Counted(c)'
      BY <2>b, <2>1, <2>3 DEF Counted
    <3>1. row[c] = [status |-> "PENDING", attempts |-> item.attempts]
      BY <2>b, <1>o, <2>1, <2>2 DEF SnapshotHolds, AsRead
    <3>2. posts'[c] = IF posts[c] < MaxPosts THEN posts[c] + 1 ELSE posts[c]
      BY <2>b, <2>2, <2>5 DEF JobsTypeOK
    <3>4. posts[c] \in Nat /\ posts[c] <= MaxPosts
      BY <2>b, <1>n, <2>2
    <3>3. /\ row[c].attempts = item.attempts /\ row[c].status = "PENDING"
          /\ item.attempts <= posts[c] /\ posts[c] <= item.attempts + crashes + faults
      <4>1. row[c].attempts = item.attempts /\ row[c].status = "PENDING"
        BY <2>b, <3>1
      <4>2. /\ row[c].attempts <= posts[c]
            /\ posts[c] <= row[c].attempts + crashes + faults + 0
        BY <2>b, <1>c, <2>2, <2>4 DEF Counted
      <4> QED BY <2>b, <1>n, <2>a, <3>4, <4>1, <4>2
    <3>5. /\ item.attempts <= posts'[c] /\ item.attempts + 1 <= posts'[c]
          /\ posts'[c] <= item.attempts + crashes + faults + 1
      BY <2>b, <1>n, <2>a, <3>2, <3>3, <3>4
    <3>6. Writing(c)' /\ row'[c] = row[c] /\ crashes' = crashes /\ faults' = faults
      BY <2>b, <2>1, <2>4
    <3> QED BY <2>b, <3>3, <3>5, <3>6 DEF Counted
  <2> QED BY <2>b, <2>6, <2>7
<1>6. ASSUME NEW r \in Run, Write(r), UNCHANGED vars PROVE \A d \in Delivery : Counted(d)'
  <2> DEFINE item == Head(job[r].list)
  <2>1. job[r].at = "write" /\ job[r].list # <<>> /\ UNCHANGED <<posts, faults, crashes>>
    BY <1>6 DEF Write, JobsRun, vars
  <2>2. /\ item = job[r].list[1] /\ 1 \in 1 .. Len(job[r].list) /\ item.d \in Delivery
        /\ item.attempts \in 0 .. Limit - 1 /\ Tail(job[r].list) \in Seq(Item)
    BY <2>1, JobFacts
  <2>3. job'[r].at # "write" /\ \A q \in Run \ {r} : job'[q] = job[q]
    BY <1>6, <2>2, NextJobIs, JobEnds DEF Write
  <2>4. \A d : (Writing(d) <=> item.d = d) /\ ~Writing(d)'
    BY <1>w, <2>1, <2>3
  <2>a. item.attempts \in Nat /\ item.attempts < Limit
    BY <1>n, <2>2
  <2>b. PICK c \in Delivery : c = item.d
    BY <2>2
  <2> HIDE DEF item
  <2>5. ASSUME NEW d \in Delivery, d # c PROVE Counted(d)'
    <3>1. row'[d] = row[d]
      BY <2>b, <1>6, <2>5 DEF Write, JobsTypeOK, item
    <3> QED BY <2>b, <1>g, <1>n, <2>1, <2>4, <2>5, <3>1
  <2>6. Counted(c)'
    <3>1. CASE row[c] = NoRow_
      <4>1. UNCHANGED row
        BY <2>b, <1>6, <3>1 DEF Write, item
      <4> QED BY <2>b, <3>1, <4>1 DEF Counted
    <3>2. CASE row[c] # NoRow_
      <4>1. row'[c] = Written(item, job[r].answer)
        BY <2>b, <1>6, <2>2, <3>2 DEF Write, JobsTypeOK, item
      <4>2. row[c] = [status |-> "PENDING", attempts |-> item.attempts]
        BY <2>b, <1>o, <2>1, <2>2, <3>2 DEF SnapshotHolds, AsRead
      <4>3. item.attempts + 1 <= posts[c] /\ posts[c] <= item.attempts + crashes + faults + 1
        <5>1. row[c].attempts = item.attempts
          BY <2>b, <4>2
        <5>2. row[c].attempts + 1 <= posts[c] /\ posts[c] <= row[c].attempts + crashes + faults + 1
          BY <2>b, <1>c, <2>2, <2>4, <3>2 DEF Counted
        <5> QED BY <5>1, <5>2
      <4>4. /\ row'[c].attempts = item.attempts + 1
            /\ row'[c].status = "FAILED" => item.attempts + 1 >= Limit
        BY <2>b, <4>1 DEF Written
      <4>5. posts[c] \in Nat
        BY <2>b, <1>n, <2>2
      <4>6. /\ item.attempts + 1 <= posts[c]
            /\ item.attempts + 1 >= Limit => posts[c] >= Limit
            /\ posts[c] <= item.attempts + 1 + crashes + faults + 0
        BY <2>b, <1>n, <2>a, <4>3, <4>5
      <4>7. ~Writing(c)' /\ posts'[c] = posts[c] /\ crashes' = crashes /\ faults' = faults
        BY <2>b, <2>1, <2>4
      <4> QED BY <2>b, <4>4, <4>6, <4>7 DEF Counted
    <3> QED BY <2>b, <3>1, <3>2
  <2> QED BY <2>b, <2>5, <2>6
<1>7. ASSUME NEW r \in Run, WriteFails(r), UNCHANGED vars PROVE \A d \in Delivery : Counted(d)'
  <2>1. /\ job[r].at = "write" /\ UNCHANGED <<row, posts, crashes>> /\ faults' = faults + 1
    BY <1>7 DEF WriteFails, Fault, vars
  <2>2. /\ \A q \in Run \ {r} : job'[q] = job[q]
        /\ job'[r].at = "idle" \/ job'[r].list = job[r].list
    <3>1. CASE job' = [job EXCEPT ![r].answer = "bad"]
      BY <3>1, JobMoves
    <3>2. CASE job' = [job EXCEPT ![r] = Idle]
      BY <3>2, JobEnds
    <3> QED BY <1>7, <3>1, <3>2 DEF WriteFails
  <2>3. \A d : Writing(d)' => Writing(d)
    BY <1>w, <2>1, <2>2
  <2> QED BY <1>g, <1>n, <2>1, <2>3
<1>8. ASSUME NEW h \in Hook, RemoveWebhook(h), UNCHANGED vars PROVE \A d \in Delivery : Counted(d)'
  <2>1. UNCHANGED <<job, posts, faults, crashes>>
    BY <1>8 DEF RemoveWebhook, vars
  <2>2. ASSUME NEW d \in Delivery, row'[d] # NoRow_ PROVE row'[d] = row[d]
    BY <1>8, <2>2 DEF RemoveWebhook
  <2>3. \A d : Writing(d)' <=> Writing(d)
    BY <2>1 DEF Writing
  <2>4. ASSUME NEW d \in Delivery PROVE Counted(d)'
    <3>1. CASE row'[d] = NoRow_
      BY <3>1 DEF Counted
    <3>2. CASE row'[d] # NoRow_
      BY <1>g, <1>n, <2>1, <2>2, <2>3, <3>2
    <3> QED BY <3>1, <3>2
  <2> QED BY <2>4
<1>9. ASSUME NEW e \in Event, NEW h \in Hook, CreateRow(e, h), UNCHANGED vars, row' # row
      PROVE  \A d \in Delivery : Counted(d)'
  <2>1. /\ h \in todo[e] /\ row' = [row EXCEPT ![<<e, h>>] = [status |-> "PENDING", attempts |-> 0]]
        /\ UNCHANGED <<job, posts, faults, crashes>>
    BY <1>9 DEF CreateRow, vars
  <2>2. /\ <<e, h>> \in Delivery /\ ~Created(<<e, h>>)
        /\ \A r \in Run : \A i \in 1 .. Len(job[r].list) : job[r].list[i].d # <<e, h>>
    BY <2>1, NewIsUnlisted
  <2>3. \A d : Writing(d)' <=> Writing(d)
    BY <2>1 DEF Writing
  <2>4. ASSUME NEW d \in Delivery, d # <<e, h>> PROVE Counted(d)'
    <3>1. row'[d] = row[d]
      BY <2>1, <2>4 DEF JobsTypeOK
    <3> QED BY <1>g, <1>n, <2>1, <2>3, <3>1
  <2>5. ~Writing(<<e, h>>)
    <3> SUFFICES ASSUME NEW r \in Run, job[r].at = "write" PROVE Head(job[r].list).d # <<e, h>>
      BY DEF Writing
    <3>1. Head(job[r].list) = job[r].list[1] /\ 1 \in 1 .. Len(job[r].list)
      BY JobFacts DEF JobsRun
    <3> QED BY <2>2, <3>1
  <2>6. Counted(<<e, h>>)'
    <3>1. posts'[<<e, h>>] = 0
      BY <2>1, <2>2 DEF CreatedOnce
    <3>2. row'[<<e, h>>] = [status |-> "PENDING", attempts |-> 0]
      BY <2>1, <2>2 DEF JobsTypeOK
    <3>3. row'[<<e, h>>].attempts = 0 /\ row'[<<e, h>>].status = "PENDING" /\ crashes' \in Nat /\ faults' \in Nat
      BY <1>n, <2>1, <3>2
    <3> QED BY <2>3, <2>5, <3>1, <3>3 DEF Counted
  <2> QED BY <2>4, <2>6
<1>10. ASSUME UNCHANGED <<job, row, posts, crashes>>, faults' = faults \/ faults' = faults + 1
       PROVE  \A d \in Delivery : Counted(d)'
  BY <1>1, <1>10, <1>n
<1>11. CASE Request
  <2>1. UNCHANGED vars /\ crashes' = crashes
    BY <1>11 DEF Request, vars
  <2>2. ASSUME NEW h \in Hook, CreateWebhook(h) PROVE \A d \in Delivery : Counted(d)'
    BY <1>10, <2>1, <2>2 DEF CreateWebhook
  <2>3. ASSUME NEW e \in Event, Publish(e) \/ PublishFails(e) PROVE \A d \in Delivery : Counted(d)'
    BY <1>10, <2>1, <2>3 DEF Publish, PublishFails, Fault
  <2>4. ASSUME NEW e \in Event, NEW h \in Hook, CreateRow(e, h) PROVE \A d \in Delivery : Counted(d)'
    <3>1. CASE row' = row
      BY <1>10, <2>1, <2>4, <3>1 DEF CreateRow
    <3> QED BY <1>9, <2>1, <2>4, <3>1
  <2> QED BY <1>8, <1>11, <2>1, <2>2, <2>3, <2>4 DEF Request
<1>12. CASE UNCHANGED allVars
  BY <1>10, <1>12 DEF allVars, hookVars, vars
<1>13. ASSUME NEW r \in Run, JobStep(r) PROVE \A d \in Delivery : Counted(d)'
  <2>1. UNCHANGED vars
    BY <1>13 DEF JobStep
  <2> QED BY <1>4, <1>5, <1>6, <1>13, <2>1 DEF JobStep
<1>14. CASE TimePasses
  BY <1>10, <1>14 DEF TimePasses, Tick, hookVars
<1>15. ASSUME NEW r \in Run, WriteFails(r) /\ UNCHANGED <<vars, overlapped>>
       PROVE  \A d \in Delivery : Counted(d)'
  <2>1. UNCHANGED vars
    BY <1>15
  <2> QED BY <1>7, <1>15, <2>1
<1>16. ASSUME NEW r \in Run, CronFires(r) \/ LockStep(r) \/ CrashStep(r) \/ JobStep(r)
       PROVE  \A d \in Delivery : Counted(d)'
  BY <1>2, <1>3, <1>13, <1>16
<1> QED BY <1>11, <1>12, <1>14, <1>15, <1>16 DEF JobsNext

-----------------------------------------------------------------------------

LEMMA DeliveryInvHolds == JobsSpec => []DeliveryInv
<1>1. JobsInit => JobsTypeOK /\ JobsRun /\ CreatedOnce /\ ListedOnce /\ SnapshotHolds /\ PostsAccounted
  <2> SUFFICES ASSUME JobsInit
               PROVE  JobsTypeOK /\ JobsRun /\ CreatedOnce /\ ListedOnce /\ SnapshotHolds /\ PostsAccounted
    OBVIOUS
  <2> USE WebhookAssumption, LeaseAssumption
  <2>1. /\ \A r \in Run : job[r] = Idle /\ job[r].at = "idle" /\ job[r].list = <<>> /\ Len(job[r].list) = 0
        /\ queue = <<>> /\ Len(queue) = 0 /\ \A d \in Delivery : row[d] = NoRow_ /\ posts[d] = 0
        /\ \A e \in Event : todo[e] = {}
        /\ \A r \in Run : pc[r] = "idle"
    BY DEF JobsInit, Init, Idle
  <2>2. JobsTypeOK
    <3>1. NoRow_ \in Row /\ Idle \in Job
      BY DEF NoRow_, Row, Idle, Job
    <3>2. ASSUME NEW r \in Run PROVE Len(job[r].list) <= Take
      <4>1. Len(job[r].list) = 0 /\ 0 <= Take
        BY <2>1
      <4> QED BY <4>1
    <3>3. 0 \in 0 .. MaxPosts /\ faults \in 0 .. MaxFault
      BY DEF MaxPosts, JobsInit
    <3>4. row \in [Delivery -> Row] /\ job \in [Run -> Job] /\ posts \in [Delivery -> 0 .. MaxPosts]
      BY <3>1, <3>3 DEF JobsInit
    <3>5. queue \in Seq(Delivery)
      BY <2>1
    <3>6. /\ hook \in [Hook -> {"absent", "active", "removed"}]
          /\ todo \in [Event -> SUBSET Hook] /\ published \subseteq Event /\ overlapped \in BOOLEAN
      BY DEF JobsInit
    <3> QED BY <3>2, <3>3, <3>4, <3>5, <3>6 DEF JobsTypeOK
  <2>3. JobsRun
    BY <2>1 DEF JobsRun, SingleRunner, Running
  <2>4. CreatedOnce /\ ListedOnce
    BY <2>1 DEF CreatedOnce, ListedOnce
  <2>5. SnapshotHolds /\ PostsAccounted
    BY <2>1 DEF SnapshotHolds, PostsAccounted, Counted
  <2> QED BY <2>2, <2>3, <2>4, <2>5
<1>2. JobsSpec => []TypeOK
  BY JobsKeepTheLease, TypeCorrect, PTL
<1>3. DeliveryInv /\ TypeOK' /\ [JobsNext]_allVars => DeliveryInv'
  BY JobsTypeStep, JobsRunStep, CreatedOnceStep, ListedOnceStep, SnapshotStep, PostsStep DEF DeliveryInv
<1>4. JobsInit /\ TypeOK => DeliveryInv
  BY <1>1 DEF DeliveryInv
<1> QED BY <1>2, <1>3, <1>4, PTL DEF JobsSpec

\* Every variable of the deliveries keeps its type, also when runs overlap.
THEOREM JobsTypeCorrect == JobsSpec => []JobsTypeOK
<1>1. DeliveryInv => JobsTypeOK
  BY DEF DeliveryInv
<1> QED BY <1>1, DeliveryInvHolds, PTL

\* Until two runs have overlapped, every post of a delivery is an attempt that was
\* counted, the one on its way, or one that a crash or a failed statement lost; and
\* nothing is given up before Limit real posts.
THEOREM PostsAreAttempts == JobsSpec => []AttemptsAreCounted
<1>1. DeliveryInv => AttemptsAreCounted
  <2> SUFFICES ASSUME DeliveryInv, NEW d \in Delivery, row[d] # NoRow_, ~overlapped
               PROVE  /\ row[d].attempts <= posts[d]
                      /\ row[d].status = "FAILED" => posts[d] >= Limit
                      /\ posts[d] <= row[d].attempts + crashes + faults
                                     + Cardinality({r \in Run : job[r].at = "write" /\ Head(job[r].list).d = d})
    BY DEF AttemptsAreCounted
  <2> DEFINE W == {r \in Run : job[r].at = "write" /\ Head(job[r].list).d = d}
  <2>1. Counted(d)
    BY DEF DeliveryInv, PostsAccounted
  <2>2. Cardinality(W) = IF Writing(d) THEN 1 ELSE 0
    <3>1. CASE Writing(d)
      <4>1. PICK r \in W : TRUE
        BY <3>1 DEF Writing
      <4>2. W = {r}
        BY <4>1, SoleJob DEF DeliveryInv
      <4> QED BY <3>1, <4>2, FS_Singleton
    <3>2. CASE ~Writing(d)
      BY <3>2, FS_EmptySet DEF Writing
    <3> QED BY <3>1, <3>2
  <2> QED BY <2>1, <2>2 DEF Counted
<1> QED BY <1>1, DeliveryInvHolds, PTL

\* Until two runs have overlapped, no step posts again, or changes, what was delivered,
\* except that it goes with its webhook.
THEOREM DeliveredStays == JobsSpec => DeliveredIsFinal
<1>1. ASSUME DeliveryInv, [JobsNext]_allVars, NEW d \in Delivery, row[d].status = "DELIVERED", ~overlapped'
      PROVE  row'[d] \in {row[d], NoRow_} /\ posts'[d] = posts[d]
  <2>o. ~overlapped
    BY <1>1 DEF JobsNext, CronFires, LockStep, Begin, CrashStep, JobStep, Request, TimePasses, allVars
  <2>t. JobsTypeOK /\ JobsRun /\ CreatedOnce /\ ListedOnce /\ row[d] # NoRow_
    BY <1>1 DEF DeliveryInv, NoRow_
  \* What a job has before it is not delivered.
  <2>l. ASSUME NEW r \in Run, job[r].at \in {"send", "write"} PROVE Head(job[r].list).d # d
    <3>1. Head(job[r].list) = job[r].list[1] /\ 1 \in 1 .. Len(job[r].list)
      BY <2>l, <2>t, JobFacts DEF JobsRun
    <3>2. AsRead(job[r].list[1])
      BY <1>1, <2>l, <2>o, <3>1 DEF DeliveryInv, SnapshotHolds
    <3> QED BY <1>1, <2>t, <3>1, <3>2 DEF AsRead
  <2>1. ASSUME NEW r \in Run, Post(r) PROVE UNCHANGED row /\ posts'[d] = posts[d]
    BY <2>1, <2>l, <2>t DEF Post, JobsTypeOK
  <2>2. ASSUME NEW r \in Run, Write(r) PROVE row'[d] = row[d] /\ UNCHANGED posts
    BY <2>2, <2>l, <2>t DEF Write, JobsTypeOK
  <2>3. ASSUME NEW h \in Hook, RemoveWebhook(h) PROVE row'[d] \in {row[d], NoRow_} /\ UNCHANGED posts
    BY <2>3 DEF RemoveWebhook
  <2>4. ASSUME NEW e \in Event, NEW h \in Hook, CreateRow(e, h) PROVE row'[d] = row[d] /\ UNCHANGED posts
    <3>1. <<e, h>> # d
      BY <2>4, <2>t, NewIsUnlisted DEF CreateRow, CreatedOnce
    <3> QED BY <2>4, <2>t, <3>1 DEF CreateRow, JobsTypeOK
  <2>5. CASE UNCHANGED <<row, posts>>
    BY <2>5
  <2> QED BY <1>1, <2>1, <2>2, <2>3, <2>4, <2>5
          DEF JobsNext, CronFires, LockStep, Begin, CrashStep, JobStep, Request, TimePasses, hookVars, allVars,
              ReadPending, WriteFails, CreateWebhook, Publish, PublishFails
<1>2. DeliveryInv /\ [JobsNext]_allVars
        => [\A d \in Delivery : (row[d].status = "DELIVERED" /\ ~overlapped') =>
                row'[d] \in {row[d], NoRow_} /\ posts'[d] = posts[d]]_allVars
  BY <1>1
<1> QED BY <1>2, DeliveryInvHolds, PTL DEF JobsSpec, DeliveredIsFinal
=============================================================================
