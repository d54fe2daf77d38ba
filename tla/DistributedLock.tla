-------------------------- MODULE DistributedLock --------------------------
(***************************************************************************)
(* The table lease of common/locks/distributed-lock.service.ts.  A run is  *)
(* one call of runOnce(name, leaseMs, fn): on some replica a cron tick     *)
(* fires, draws a fresh owner UUID, reads the replica's clock, upserts the *)
(* row, reads it back, runs the job if it owns the row, and deletes the    *)
(* row it owns.                                                            *)
(*                                                                         *)
(* Time is kept relative, so that it never has to be bounded: age[r] is    *)
(* the time since run r read its clock, and left is the time until the     *)
(* row's expiresAt by the database's clock.                                *)
(***************************************************************************)
EXTENDS Integers

CONSTANTS
    Run,        \* identities of runOnce calls (the owner UUIDs)
    Lease,      \* leaseMs, in ticks
    MaxSkew,    \* how far a replica's clock may be from the database's
    MaxClaim,   \* the upsert and the read end this long after the clock was read
    MaxRun,     \* and the whole call this long after it
    MaxCrash,   \* bound: crashes of a replica, or failed releases
    NoRow       \* the table has no row of this name

ASSUME LeaseAssumption ==
    /\ NoRow \notin Run
    /\ Lease \in Nat
    /\ MaxSkew \in Nat
    /\ MaxClaim \in Nat /\ MaxRun \in Nat
    /\ MaxCrash \in Nat

VARIABLES
    pc,         \* where each run is in runOnce
    age,        \* time since the run read its clock
    skew,       \* the offset of the clock it read
    owner,      \* the row's owner, or NoRow
    left,       \* the row's expiresAt minus the database's now()
    crashes

vars == <<pc, age, skew, owner, left, crashes>>

Phase  == {"idle", "insert", "check", "running"}
Offset == -MaxSkew .. MaxSkew

\* Only the sign of an elapsed lease is ever read (expiresAt < now()).
Remaining(t) == IF t < 0 THEN -1 ELSE t

TypeOK ==
    /\ pc \in [Run -> Phase]
    /\ age \in [Run -> 0 .. MaxRun]
    /\ skew \in [Run -> Offset]
    /\ owner \in Run \cup {NoRow}
    /\ left \in -1 .. (Lease + MaxSkew)
    /\ crashes \in 0 .. MaxCrash

Init ==
    /\ pc = [r \in Run |-> "idle"]
    /\ age = [r \in Run |-> 0]
    /\ skew = [r \in Run |-> 0]
    /\ owner = NoRow
    /\ left = -1
    /\ crashes = 0

-----------------------------------------------------------------------------

\* owner = randomUUID(), now = new Date(): the UUID is fresh, so no row has it.
Start(r) ==
    /\ pc[r] = "idle"
    /\ owner # r
    /\ \E s \in Offset : skew' = [skew EXCEPT ![r] = s]
    /\ age' = [age EXCEPT ![r] = 0]
    /\ pc' = [pc EXCEPT ![r] = "insert"]
    /\ UNCHANGED <<owner, left, crashes>>

\* (Mutant of Claimable: an upsert without the WHERE.)
ClaimAlways == TRUE

\* The WHERE of ON CONFLICT DO UPDATE, and the case of no conflict.
Claimable == owner = NoRow \/ left < 0

\* expiresAt = now + leaseMs by the clock the run read, seen from the database.
ExpiresIn(r) == Lease + skew[r] - age[r]

\* INSERT ... ON CONFLICT DO UPDATE ... WHERE expiresAt < now(), one statement.
\* expiresAt comes from the clock the run read earlier, now() from the database.
Upsert(r) ==
    /\ pc[r] = "insert"
    /\ pc' = [pc EXCEPT ![r] = "check"]
    /\ owner' = IF Claimable THEN r ELSE owner
    /\ left' = IF Claimable THEN Remaining(ExpiresIn(r)) ELSE left
    /\ UNCHANGED <<age, skew, crashes>>

\* findUnique: run the job if the row is this run's, otherwise return null.
Check(r) ==
    /\ pc[r] = "check"
    /\ pc' = [pc EXCEPT ![r] = IF owner = r THEN "running" ELSE "idle"]
    /\ age' = [age EXCEPT ![r] = IF owner = r THEN @ ELSE 0]
    /\ skew' = [skew EXCEPT ![r] = IF owner = r THEN @ ELSE 0]
    /\ UNCHANGED <<owner, left, crashes>>

\* The row deleteMany({name, owner}) leaves: it deletes only the caller's.
AfterDelete(r) == IF owner = r THEN NoRow ELSE owner

\* The job ends, with a result or an exception, and finally releases the lease.
Release(r) ==
    /\ pc[r] = "running"
    /\ pc' = [pc EXCEPT ![r] = "idle"]
    /\ age' = [age EXCEPT ![r] = 0]
    /\ skew' = [skew EXCEPT ![r] = 0]
    /\ owner' = AfterDelete(r)
    /\ left' = IF AfterDelete(r) = NoRow THEN -1 ELSE left
    /\ UNCHANGED crashes

\* The replica dies inside runOnce, a statement of it throws before the try, or
\* the release fails (.catch(() => undefined)): whatever row there is stays.
Crash(r) ==
    /\ pc[r] # "idle"
    /\ crashes < MaxCrash
    /\ crashes' = crashes + 1
    /\ pc' = [pc EXCEPT ![r] = "idle"]
    /\ age' = [age EXCEPT ![r] = 0]
    /\ skew' = [skew EXCEPT ![r] = 0]
    /\ UNCHANGED <<owner, left>>

\* Time passes; statements and calls that have reached their bound end first.
Tick ==
    /\ \A r \in Run : pc[r] # "idle" => age[r] < MaxRun
    /\ \A r \in Run : pc[r] \in {"insert", "check"} => age[r] < MaxClaim
    /\ age' = [r \in Run |-> IF pc[r] = "idle" THEN age[r] ELSE age[r] + 1]
    /\ left' = Remaining(left - 1)
    /\ UNCHANGED <<pc, skew, owner, crashes>>

Next ==
    \/ \E r \in Run : Start(r) \/ Upsert(r) \/ Check(r) \/ Release(r) \/ Crash(r)
    \/ Tick

Spec == Init /\ [][Next]_vars

-----------------------------------------------------------------------------

Running == {r \in Run : pc[r] = "running"}

\* The lease that r asked for is over by the database's clock.
Late(r) == ExpiresIn(r) < 0

\* Two runs that execute the job together are not both inside their lease: a job
\* is alone for as long as it is in time, whatever overruns, crashes or runs on a
\* replica whose clock is off.
TimelyIsAlone == \A r, q \in Running : r # q => Late(r) \/ Late(q)

\* The row stands behind a run until its lease is over: nobody takes it away
\* early, and the late release or the crash of another run leaves it there.
HeldWhileTimely == \A r \in Running : ~Late(r) => owner = r /\ left >= 0

\* "guarantees a scheduled job runs on a single instance even when the backend
\* is deployed with multiple replicas": two runs never execute the job together.
SingleRunner == \A r, q \in Running : r = q

=============================================================================
