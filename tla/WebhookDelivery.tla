--------------------------- MODULE WebhookDelivery ---------------------------
(***************************************************************************)
(* Webhooks of modules/integrations: an event of an integration request    *)
(* becomes one IntegrationDelivery row per webhook, and every minute a run *)
(* of the lease (DistributedLock) reads the pending rows once and posts    *)
(* them one by one.  A run that outlives its lease shares its rows with    *)
(* the next one: each writes the attempts of its own snapshot plus one.    *)
(***************************************************************************)
EXTENDS DistributedLock, Sequences, FiniteSets

CONSTANTS
    Hook,       \* webhook ids
    Removable,  \* bound: the webhooks that may be created late and removed
    Event,      \* published events
    Limit,      \* attempts: { lt: 3 }, attempts >= 3
    Take,       \* take: 50, the rows one run reads
    MaxFault    \* bound: crashes, and statements of a publication or delivery that throw

ASSUME WebhookAssumption == Limit \in Nat \ {0} /\ Take \in Nat \ {0} /\ MaxFault \in Nat

VARIABLES
    hook,       \* the webhook rows: "absent", "active" or "removed"
    todo,       \* webhooks that enqueueWebhookEvent read and has yet to write a row for
    published,  \* events that were published
    row,        \* the delivery rows
    queue,      \* the rows that were created, in the order of createdAt, also those gone since
    job,        \* processPendingDeliveries of each run
    posts,      \* history: how often each delivery was posted; 0 once runs have overlapped
    faults,
    overlapped  \* history: two runs have executed the job together

hookVars == <<hook, todo, published, row, queue, job, posts, faults>>
allVars  == <<vars, hookVars, overlapped>>

Delivery == Event \X Hook
MaxPosts == Limit + MaxCrash + MaxFault + 1

NoRow_ == [status |-> "none", attempts |-> 0]
Idle   == [at |-> "idle", list |-> <<>>, answer |-> "none"]

Row  == [status : {"none", "PENDING", "DELIVERED", "FAILED"}, attempts : 0 .. Limit]
Item == [d : Delivery, attempts : 0 .. Limit - 1]
Job  == [at : {"idle", "read", "send", "write"}, list : Seq(Item), answer : {"none", "ok", "bad"}]

JobsTypeOK ==
    /\ hook \in [Hook -> {"absent", "active", "removed"}]
    /\ todo \in [Event -> SUBSET Hook] /\ published \subseteq Event
    /\ row \in [Delivery -> Row] /\ queue \in Seq(Delivery)
    /\ job \in [Run -> Job] /\ \A r \in Run : Len(job[r].list) <= Take
    /\ posts \in [Delivery -> 0 .. MaxPosts] /\ faults \in 0 .. MaxFault
    /\ overlapped \in BOOLEAN

JobsInit ==
    /\ Init
    /\ hook = [h \in Hook |-> IF h \in Removable THEN "absent" ELSE "active"]
    /\ todo = [e \in Event |-> {}] /\ published = {}
    /\ row = [d \in Delivery |-> NoRow_] /\ queue = <<>>
    /\ job = [r \in Run |-> Idle]
    /\ posts = [d \in Delivery |-> 0]
    /\ faults = 0 /\ overlapped = FALSE

Fault == crashes + faults < MaxFault /\ faults' = faults + 1

-----------------------------------------------------------------------------
\* The requests.

CreateWebhook(h) ==
    /\ hook[h] = "absent"
    /\ hook' = [hook EXCEPT ![h] = "active"]
    /\ UNCHANGED <<todo, published, row, queue, job, posts, faults>>

\* The deliveries of a webhook go with it (onDelete: Cascade).
RemoveWebhook(h) ==
    /\ hook[h] = "active" /\ h \in Removable
    /\ hook' = [hook EXCEPT ![h] = "removed"]
    /\ row' = [d \in Delivery |-> IF d[2] = h THEN NoRow_ ELSE row[d]]
    /\ UNCHANGED <<todo, published, queue, job, posts, faults>>

\* An integration request has committed its change; enqueueWebhookEvent reads
\* the webhooks that want the event.
Publish(e) ==
    /\ e \notin published
    /\ published' = published \cup {e}
    /\ todo' = [todo EXCEPT ![e] = {h \in Hook : hook[h] = "active"}]
    /\ UNCHANGED <<hook, row, queue, job, posts, faults>>

\* One row is created.  A webhook removed meanwhile fails the foreign key, and
\* the exception leaves the webhooks after it without a row.
CreateRow(e, h) ==
    /\ h \in todo[e]
    /\ IF hook[h] = "active"
       THEN /\ todo' = [todo EXCEPT ![e] = @ \ {h}]
            /\ row' = [row EXCEPT ![<<e, h>>] = [status |-> "PENDING", attempts |-> 0]]
            /\ queue' = Append(queue, <<e, h>>)
       ELSE /\ todo' = [todo EXCEPT ![e] = {}]
            /\ UNCHANGED <<row, queue>>
    /\ UNCHANGED <<hook, published, job, posts, faults>>

\* The request dies, or the database fails, before all rows are written.
PublishFails(e) ==
    /\ todo[e] # {}
    /\ Fault
    /\ todo' = [todo EXCEPT ![e] = {}]
    /\ UNCHANGED <<hook, published, row, queue, job, posts>>

-----------------------------------------------------------------------------
\* The job.

\* (Mutant of Due: the status is not read.)
DueByAttempts(d) == row[d].attempts < Limit

Due(d) == row[d].status = "PENDING" /\ row[d].attempts < Limit

NextJob(r, list) == [job EXCEPT ![r] =
    IF list = <<>> THEN Idle ELSE [at |-> "send", list |-> list, answer |-> "none"]]

\* at lists the oldest n due rows, n being all there are or else Take.
Oldest(n, at) ==
    /\ \A i \in 1 .. n : Due(queue[at[i]])
    /\ \A i, j \in 1 .. n : i < j => at[i] < at[j]
    /\ \A k \in 1 .. Len(queue) : Due(queue[k]) => (\E i \in 1 .. n : at[i] = k) \/ (n = Take /\ at[n] < k)

Batch(n, at) == [i \in 1 .. n |-> [d |-> queue[at[i]], attempts |-> row[queue[at[i]]].attempts]]

\* findMany: the oldest Take due rows with the attempts they have now.
ReadPending(r) ==
    /\ job[r].at = "read"
    /\ \E n \in 0 .. Take : \E at \in [1 .. n -> 1 .. Len(queue)] :
          Oldest(n, at) /\ job' = NextJob(r, Batch(n, at))
    /\ UNCHANGED <<hook, todo, published, row, queue, posts, faults>>

\* The POST, from the snapshot: also for a row that has been removed or settled
\* since.  It is answered, refused, or runs into its timeout.
Post(r) ==
    /\ job[r].at = "send"
    /\ \E answer \in {"ok", "bad"} :
          job' = [job EXCEPT ![r].at = "write", ![r].answer = answer]
    /\ LET d == Head(job[r].list).d
       IN  posts' = IF overlapped THEN posts
                    ELSE [posts EXCEPT ![d] = IF @ < MaxPosts THEN @ + 1 ELSE @]
    /\ UNCHANGED <<hook, todo, published, row, queue, faults>>

\* (Mutants of Written: the failed attempt is not counted; the last failure leaves
\* the row pending.)
WrittenUncounted(item, answer) ==
    [status |-> IF answer = "ok" THEN "DELIVERED" ELSE "PENDING", attempts |-> item.attempts]
WrittenOffByOne(item, answer) ==
    [status |-> CASE answer = "ok" -> "DELIVERED"
                  [] item.attempts + 1 > Limit -> "FAILED"
                  [] OTHER -> "PENDING",
     attempts |-> item.attempts + 1]

\* What deliver writes after the answer.
Written(item, answer) ==
    [status |-> CASE answer = "ok" -> "DELIVERED"
                  [] item.attempts + 1 >= Limit -> "FAILED"
                  [] OTHER -> "PENDING",
     attempts |-> item.attempts + 1]

\* The update; of a row that is gone it throws, in the catch as well, and that
\* ends the job.
Write(r) ==
    /\ job[r].at = "write"
    /\ LET item == Head(job[r].list) IN
          IF row[item.d] = NoRow_
          THEN job' = [job EXCEPT ![r] = Idle] /\ UNCHANGED row
          ELSE /\ row' = [row EXCEPT ![item.d] = Written(item, job[r].answer)]
               /\ job' = NextJob(r, Tail(job[r].list))
    /\ UNCHANGED <<hook, todo, published, queue, posts, faults>>

\* The update throws.  That of DELIVERED is inside the try: its catch writes a
\* failed attempt.  That of the catch ends the job.
WriteFails(r) ==
    /\ job[r].at = "write"
    /\ Fault
    /\ job' = IF job[r].answer = "ok" THEN [job EXCEPT ![r].answer = "bad"]
                                      ELSE [job EXCEPT ![r] = Idle]
    /\ UNCHANGED <<hook, todo, published, row, queue, posts>>

-----------------------------------------------------------------------------

\* A run that owns the lease begins the job; Release waits for its end.
Begin(r) ==
    /\ Check(r)
    /\ job' = IF pc'[r] = "running" THEN [job EXCEPT ![r].at = "read"] ELSE job
    /\ overlapped' = (overlapped \/ (pc'[r] = "running" /\ \E q \in Run \ {r} : pc[q] = "running"))
    /\ posts' = IF overlapped' THEN [d \in Delivery |-> 0] ELSE posts
    /\ UNCHANGED <<hook, todo, published, row, queue, faults>>

CronFires(r) == Start(r) /\ UNCHANGED <<hookVars, overlapped>>

LockStep(r) ==
    \/ (Upsert(r) \/ (Release(r) /\ job[r] = Idle)) /\ UNCHANGED <<hookVars, overlapped>>
    \/ Begin(r)

CrashStep(r) ==
    /\ Crash(r) /\ crashes + faults < MaxFault
    /\ job' = [job EXCEPT ![r] = Idle]
    /\ UNCHANGED <<hook, todo, published, row, queue, posts, faults, overlapped>>

JobStep(r) == (ReadPending(r) \/ Post(r) \/ Write(r)) /\ UNCHANGED <<vars, overlapped>>

Request ==
    /\ \/ \E h \in Hook : CreateWebhook(h) \/ RemoveWebhook(h)
       \/ \E e \in Event : Publish(e) \/ PublishFails(e) \/ \E h \in Hook : CreateRow(e, h)
    /\ UNCHANGED <<vars, overlapped>>

TimePasses == Tick /\ UNCHANGED <<hookVars, overlapped>>

JobsNext ==
    \/ \E r \in Run : CronFires(r) \/ LockStep(r) \/ CrashStep(r) \/ JobStep(r)
    \/ \E r \in Run : WriteFails(r) /\ UNCHANGED <<vars, overlapped>>
    \/ Request
    \/ TimePasses

JobsSpec == JobsInit /\ [][JobsNext]_allVars

\* Cron fires, statements end, a POST has a timeout, and time passes.
FairJobs ==
    /\ JobsSpec
    /\ \A r \in Run : WF_allVars(CronFires(r)) /\ WF_allVars(LockStep(r) \/ JobStep(r))
    /\ WF_allVars(TimePasses)

-----------------------------------------------------------------------------

\* What was delivered is not delivered again and not called failed, until two
\* runs have worked on the same rows: then the answer a slow run got writes
\* PENDING, with its own count, over DELIVERED.
DeliveredIsFinal ==
    [][\A d \in Delivery : (row[d].status = "DELIVERED" /\ ~overlapped') =>
           row'[d] \in {row[d], NoRow_} /\ posts'[d] = posts[d]]_allVars

\* Until runs overlap, nothing is given up before three real posts, and a receiver
\* sees no more posts than attempts counts, the one on its way and those whose
\* count a crash or a failed update lost.
AttemptsAreCounted ==
    \A d \in Delivery : (row[d] # NoRow_ /\ ~overlapped) =>
        /\ row[d].attempts <= posts[d]
        /\ row[d].status = "FAILED" => posts[d] >= Limit
        /\ posts[d] <= row[d].attempts + crashes + faults
                       + Cardinality({r \in Run : job[r].at = "write" /\ Head(job[r].list).d = d})

\* Every row is delivered, given up or removed with its webhook, although runs
\* crash and read only the oldest rows; unless overlapping runs undo each other.
EveryDeliveryEnds ==
    \A d \in Delivery :
        row[d].status = "PENDING" ~> (row[d].status # "PENDING" \/ overlapped)

=============================================================================
