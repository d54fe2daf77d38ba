---------------------------- MODULE RequestLimits ---------------------------
(***************************************************************************)
(* The limit on the requests of one address to one path                    *)
(* (common/middleware/rate-limit.middleware.ts) and the repetition of a    *)
(* query the database did not answer (common/db/prisma-retry.ts), as       *)
(* functions over the arrivals and the outcomes.                           *)
(***************************************************************************)
EXTENDS Integers, FiniteSets, Sequences, TLC

\* use: the bucket counts from its first request, and is replaced by the first one
\* at or after its end.  A limit of 0 is 1.
NoBucket == [count |-> 0, resetAt |-> 0]
MaxOf(configured) == IF configured = 0 THEN 1 ELSE configured
IsAdmitted(bucket, now, max) == bucket.resetAt <= now \/ bucket.count < max
BucketAfter(bucket, now, window, max) ==
    IF bucket.resetAt <= now THEN [count |-> 1, resetAt |-> now + window]
    ELSE IF bucket.count < max THEN [bucket EXCEPT !.count = @ + 1] ELSE bucket

\* The buckets before each arrival, and which arrivals are let through.
Buckets(times, window, max) ==
    LET before[i \in 1 .. Len(times) + 1] ==
            IF i = 1 THEN NoBucket ELSE BucketAfter(before[i - 1], times[i - 1], window, max)
    IN  before
LetThrough(times, window, max) ==
    {i \in DOMAIN times : IsAdmitted(Buckets(times, window, max)[i], times[i], max)}

\* withDbRetry: an outcome is "ok", "transient" or "error"; how many calls are made
\* when the i-th would end in outcomes[i].
IsLast(outcomes, i, attempts) == outcomes[i] # "transient" \/ i = attempts
CallsMade(outcomes, attempts) ==
    CHOOSE n \in 1 .. attempts : IsLast(outcomes, n, attempts) /\ \A i \in 1 .. n - 1 : ~IsLast(outcomes, i, attempts)

-----------------------------------------------------------------------------
\* Up to six arrivals within nine moments, a window of three.

WindowLength   == 3
Arrivals == UNION {{t \in [1 .. n -> 1 .. 9] : \A i \in 1 .. n - 1 : t[i] <= t[i + 1]} : n \in 1 .. 6}
Within(times, through, from) == Cardinality({i \in through : from <= times[i] /\ times[i] < from + WindowLength})

\* What an address gets in a window of its own choosing is less than twice the
\* limit, since a bucket starts with a request; it is one less than that when the
\* others come late in a bucket and the next is filled at once.
ASSUME LessThanTwiceTheLimit ==
    \A max \in 0 .. 3, times \in Arrivals :
        LET through == LetThrough(times, WindowLength, MaxOf(max)) IN
        \A from \in 1 .. 9 : Within(times, through, from) < 2 * MaxOf(max)
ASSUME NearlyTwiceIsReached ==
    \A max \in 1 .. 3 : \E times \in Arrivals :
        \E from \in 1 .. 9 : Within(times, LetThrough(times, WindowLength, max), from) = 2 * max - 1

\* Nobody is refused who asked less than the limit in the window before; and who
\* waits for as long as a refusal says is let through, unless others of the same
\* address were first.
ASSUME RefusedOnlyAtTheLimit ==
    \A max \in 1 .. 2, times \in Arrivals : \A i \in DOMAIN times \ LetThrough(times, WindowLength, max) :
        Cardinality({j \in LetThrough(times, WindowLength, max) : j < i /\ times[i] - times[j] < WindowLength}) >= max
ASSUME RefusalSaysWhen ==
    \A max \in 1 .. 2, times \in Arrivals :
        \A i, j \in DOMAIN times :
            LET at == Buckets(times, WindowLength, max)[i].resetAt IN
            /\ i \notin LetThrough(times, WindowLength, max)
            /\ i < j /\ times[j] >= at /\ \A k \in i .. j - 1 : times[k] < at
            => j \in LetThrough(times, WindowLength, max)

\* A query is repeated for as long as it might succeed: it ends in success if one
\* of the calls allowed succeeds before another error, and the caller is told of
\* the outcome of the last call.
ASSUME RepeatedWhileTransient ==
    \A attempts \in 1 .. 4 : \A outcomes \in [1 .. attempts -> {"ok", "transient", "error"}] :
        LET n == CallsMade(outcomes, attempts) IN
        /\ outcomes[n] = "ok" <=> \E i \in 1 .. attempts : outcomes[i] = "ok" /\ \A j \in 1 .. i - 1 : outcomes[j] = "transient"
        /\ outcomes[n] = "transient" => \A i \in 1 .. attempts : outcomes[i] = "transient"
=============================================================================
