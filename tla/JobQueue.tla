------------------------------ MODULE JobQueue ------------------------------
(***************************************************************************)
(* The durable background job queue of Open CRM: the PostgreSQL table      *)
(* background_jobs, the jobs.Service transactions over it, and the worker  *)
(* loop every API process runs.                                            *)
(*                                                                         *)
(* A job is one (organization, job_type, idempotency_key) triple, so the   *)
(* row it may have is a function of the job.  Instants are kept relative   *)
(* to the database clock: a row is due when runAt <= 0, a lease has        *)
(* expired when lease = 0, and Tick moves everything one unit closer.      *)
(* Each transaction is one step; the handler between Claim and the         *)
(* finishing statement is not, and a worker may stop anywhere in it.       *)
(***************************************************************************)
EXTENDS Integers, FiniteSets

CONSTANTS
    Jobs,          \* idempotency keys
    Workers,       \* API processes, one Worker.Run goroutine each
    Tokens,        \* lock tokens
    NoJob, NoToken,
    MaxAttempts,   \* [Jobs -> Nat]: the max_attempts column
    Priority,      \* [Jobs -> Int]: the priority column
    Serves,        \* [Workers -> SUBSET Jobs]: jobs whose type has a handler
    CancelSets,    \* sets of jobs one cancelling transaction covers
    Lease,         \* lease length, in ticks
    Delays,        \* run_at offsets callers use (negative: already due)
    MaxRetryDelay, \* cap of the exponential backoff
    Horizon,       \* bound: beyond Horizon ticks overdue, order by id only
    RetainFor,     \* ticks a succeeded row outlives its completion
    BatchSize,     \* rows one retention pass deletes
    MaxArrivals    \* bound: inserts and replays of one job

ASSUME ConstantsAssumption ==
    /\ NoJob \notin Jobs \cup Workers
    /\ NoToken \notin Tokens
    /\ MaxAttempts \in [Jobs -> Nat \ {0}]
    /\ Priority \in [Jobs -> Int]
    /\ Serves \in [Workers -> SUBSET Jobs]
    /\ CancelSets \subseteq SUBSET Jobs
    /\ Lease \in Nat \ {0}
    /\ MaxRetryDelay \in Nat
    /\ Horizon \in Nat
    /\ Delays \subseteq Int
    /\ \A d \in Delays : d >= -Horizon
    /\ RetainFor \in Nat
    /\ BatchSize \in Nat
    /\ MaxArrivals \in Nat

VARIABLES
    status, attempts, runAt, lockToken, lease, age, \* the row of each job
    arrivals,                 \* how often a job was inserted or replayed
    pc, heldJob, heldToken,   \* each worker: where it is, what it claimed
    blocked                   \* workspace policy: TRUE defers handlers

rowVars == <<status, attempts, runAt, lockToken, lease, age>>
workerVars == <<pc, heldJob, heldToken>>
vars == <<status, attempts, runAt, lockToken, lease, age, arrivals,
          pc, heldJob, heldToken, blocked>>

Statuses == {"absent", "pending", "running", "retryable", "succeeded", "dead"}
Waiting == {"pending", "retryable"}
Verdicts == {"ok", "error", "deferred", "permanent"}
Places == {"stopped", "polling", "handling"} \cup Verdicts

TypeOK ==
    /\ status \in [Jobs -> Statuses]
    /\ attempts \in [Jobs -> Nat]
    /\ runAt \in [Jobs -> Int]
    /\ lockToken \in [Jobs -> Tokens \cup {NoToken}]
    /\ lease \in [Jobs -> Nat]
    /\ age \in [Jobs -> Nat]
    /\ arrivals \in [Jobs -> Nat]
    /\ pc \in [Workers -> Places]
    /\ heldJob \in [Workers -> Jobs \cup {NoJob}]
    /\ heldToken \in [Workers -> Tokens \cup {NoToken}]
    /\ blocked \in BOOLEAN

Init ==
    /\ status = [j \in Jobs |-> "absent"]
    /\ attempts = [j \in Jobs |-> 0]
    /\ runAt = [j \in Jobs |-> 0]
    /\ lockToken = [j \in Jobs |-> NoToken]
    /\ lease = [j \in Jobs |-> 0]
    /\ age = [j \in Jobs |-> 0]
    /\ arrivals = [j \in Jobs |-> 0]
    /\ pc = [w \in Workers |-> "stopped"]
    /\ heldJob = [w \in Workers |-> NoJob]
    /\ heldToken = [w \in Workers |-> NoToken]
    /\ blocked = FALSE

-----------------------------------------------------------------------------
(* Producers, operators and maintenance: transactions on the rows.         *)

\* INSERT ... ON CONFLICT: a key that has a row keeps that row as it is.
Enqueue(j, d) ==
    /\ status[j] = "absent"
    /\ arrivals[j] < MaxArrivals
    /\ status' = [status EXCEPT ![j] = "pending"]
    /\ attempts' = [attempts EXCEPT ![j] = 0]
    /\ runAt' = [runAt EXCEPT ![j] = d]
    /\ arrivals' = [arrivals EXCEPT ![j] = @ + 1]
    /\ UNCHANGED <<lockToken, lease, age, workerVars, blocked>>

\* An administrator re-arms a dead job: same row, same key, fresh attempts.
Replay(j) ==
    /\ status[j] = "dead"
    /\ arrivals[j] < MaxArrivals
    /\ status' = [status EXCEPT ![j] = "pending"]
    /\ attempts' = [attempts EXCEPT ![j] = 0]
    /\ runAt' = [runAt EXCEPT ![j] = 0]
    /\ arrivals' = [arrivals EXCEPT ![j] = @ + 1]
    /\ UNCHANGED <<lockToken, lease, age, workerVars, blocked>>

\* An administrator confirms the effect of a dead job: the row is completed
\* by hand, its attempts as they were.
Confirm(j) ==
    /\ status[j] = "dead"
    /\ status' = [status EXCEPT ![j] = "succeeded"]
    /\ age' = [age EXCEPT ![j] = 0]
    /\ UNCHANGED <<attempts, runAt, lockToken, lease, arrivals, workerVars,
                   blocked>>

\* Member deactivation, a rescheduled reminder or a quarantined submission
\* completes, in its own transaction, the waiting jobs it made pointless.
Cancellable(S) == {j \in S : status[j] \in Waiting}

CancelWaitingAsSkipped(S) ==
    /\ Cancellable(S) # {}
    /\ status' = [j \in Jobs |-> IF j \in Cancellable(S) THEN "skipped"
                                                         ELSE status[j]]
    /\ UNCHANGED <<attempts, runAt, lockToken, lease, age, arrivals,
                   workerVars, blocked>>

CancelWaiting(S) ==
    /\ Cancellable(S) # {}
    /\ status' = [j \in Jobs |-> IF j \in Cancellable(S) THEN "succeeded"
                                                         ELSE status[j]]
    /\ age' = [j \in Jobs |-> IF j \in Cancellable(S) THEN 0 ELSE age[j]]
    /\ UNCHANGED <<attempts, runAt, lockToken, lease, arrivals, workerVars,
                   blocked>>

\* One retention pass deletes a batch of succeeded rows past their cut-off.
Deletable == {j \in Jobs : status[j] = "succeeded" /\ age[j] >= RetainFor}

ApplyRetention(D) ==
    /\ D # {}
    /\ D \subseteq Deletable
    /\ Cardinality(D) <= BatchSize
    /\ status' = [j \in Jobs |-> IF j \in D THEN "absent" ELSE status[j]]
    /\ attempts' = [j \in Jobs |-> IF j \in D THEN 0 ELSE attempts[j]]
    /\ runAt' = [j \in Jobs |-> IF j \in D THEN 0 ELSE runAt[j]]
    /\ age' = [j \in Jobs |-> IF j \in D THEN 0 ELSE age[j]]
    /\ UNCHANGED <<lockToken, lease, arrivals, workerVars, blocked>>

-----------------------------------------------------------------------------
(* Claiming: the two statements of the Claim transaction.                  *)

ExpiredAtOnce(j) == status[j] = "running"
Expired(j) == status[j] = "running" /\ lease[j] = 0

ExhaustedNever == {}

\* The first statement dead-letters these, whatever their type.
Exhausted == {j \in Jobs : Expired(j) /\ attempts[j] >= MaxAttempts[j]}

Claimable(w) ==
    {j \in Serves[w] :
        /\ attempts[j] < MaxAttempts[j]
        /\ \/ status[j] \in Waiting /\ runAt[j] <= 0
           \/ Expired(j)}

\* ORDER BY priority DESC, run_at ASC (ties, broken by id, are left open).
Precedes(i, j) ==
    \/ Priority[i] > Priority[j]
    \/ Priority[i] = Priority[j] /\ runAt[i] < runAt[j]

First(S) == {j \in S : \A i \in S : ~Precedes(i, j)}

FreshInTable == Tokens \ {lockToken[j] : j \in Jobs}

\* newLockToken draws a random token: one that nothing else carries.
FreshTokens ==
    Tokens \ ({lockToken[j] : j \in Jobs} \cup {heldToken[w] : w \in Workers})

\* A poll that finds nothing to run still commits the dead-letter statement.
ClaimNothing(w) ==
    /\ pc[w] = "polling"
    /\ Claimable(w) = {}
    /\ Exhausted # {}
    /\ status' = [j \in Jobs |-> IF j \in Exhausted THEN "dead" ELSE status[j]]
    /\ lockToken' =
           [j \in Jobs |-> IF j \in Exhausted THEN NoToken ELSE lockToken[j]]
    /\ UNCHANGED <<attempts, runAt, lease, age, arrivals, workerVars, blocked>>

ClaimKeepingToken(w, j, t) ==
    /\ pc[w] = "polling"
    /\ j \in First(Claimable(w))
    /\ t \in IF lockToken[j] = NoToken THEN FreshTokens ELSE {lockToken[j]}
    /\ status' = [status EXCEPT ![j] = "running"]
    /\ lockToken' = [lockToken EXCEPT ![j] = t]
    /\ attempts' = [attempts EXCEPT ![j] = @ + 1]
    /\ lease' = [lease EXCEPT ![j] = Lease]
    /\ pc' = [pc EXCEPT ![w] = "handling"]
    /\ heldJob' = [heldJob EXCEPT ![w] = j]
    /\ heldToken' = [heldToken EXCEPT ![w] = t]
    /\ UNCHANGED <<runAt, age, arrivals, blocked>>

Claim(w, j, t) ==
    /\ pc[w] = "polling"
    /\ j \in First(Claimable(w))
    /\ t \in FreshTokens
    /\ status' = [i \in Jobs |-> IF i = j THEN "running"
                                 ELSE IF i \in Exhausted THEN "dead"
                                 ELSE status[i]]
    /\ lockToken' = [i \in Jobs |-> IF i = j THEN t
                                    ELSE IF i \in Exhausted THEN NoToken
                                    ELSE lockToken[i]]
    /\ attempts' = [attempts EXCEPT ![j] = @ + 1]
    /\ lease' = [lease EXCEPT ![j] = Lease]
    /\ pc' = [pc EXCEPT ![w] = "handling"]
    /\ heldJob' = [heldJob EXCEPT ![w] = j]
    /\ heldToken' = [heldToken EXCEPT ![w] = t]
    /\ UNCHANGED <<runAt, age, arrivals, blocked>>

-----------------------------------------------------------------------------
(* Executing: callHandler returns a verdict, execute reports it.           *)

\* A handler that hits the job timeout or panics returns an error; policy
\* (a suspended workspace, a paused sequence, a spent budget) defers.
HandlerReturns(w, v) ==
    /\ pc[w] = "handling"
    /\ v = "deferred" => blocked
    /\ pc' = [pc EXCEPT ![w] = v]
    /\ UNCHANGED <<rowVars, arrivals, heldJob, heldToken, blocked>>

HoldsAnyToken(w) == status[heldJob[w]] = "running"

\* WHERE id = $1 AND status = 'running' AND lock_token = $2; the lease is not
\* consulted, so a late worker nobody replaced still finishes.
Holds(w) ==
    /\ status[heldJob[w]] = "running"
    /\ lockToken[heldJob[w]] = heldToken[w]

LetGo(w) ==
    /\ pc' = [pc EXCEPT ![w] = "polling"]
    /\ heldJob' = [heldJob EXCEPT ![w] = NoJob]
    /\ heldToken' = [heldToken EXCEPT ![w] = NoToken]

Release(w, s) ==
    /\ status' = [status EXCEPT ![heldJob[w]] = s]
    /\ lockToken' = [lockToken EXCEPT ![heldJob[w]] = NoToken]
    /\ lease' = [lease EXCEPT ![heldJob[w]] = 0]
    /\ LetGo(w)

Complete(w) ==
    /\ pc[w] = "ok"
    /\ Holds(w)
    /\ Release(w, "succeeded")
    /\ age' = [age EXCEPT ![heldJob[w]] = 0]
    /\ UNCHANGED <<attempts, runAt, arrivals, blocked>>

\* Defer gives back the attempt its own claim added.
Defer(w, d) ==
    /\ pc[w] = "deferred"
    /\ Holds(w)
    /\ Release(w, "retryable")
    /\ attempts' = [attempts EXCEPT ![heldJob[w]] = IF @ = 0 THEN 0 ELSE @ - 1]
    /\ runAt' = [runAt EXCEPT ![heldJob[w]] = d]
    /\ UNCHANGED <<age, arrivals, blocked>>

\* Exponential backoff, capped; a claimed job has at least one attempt.
RetryDelay(n) ==
    LET backoff == 2^(n - 1)
    IN  IF backoff \in 1..MaxRetryDelay THEN backoff ELSE MaxRetryDelay

FailOffByOne(w) ==
    LET j == heldJob[w] IN
    /\ pc[w] = "error"
    /\ Holds(w)
    /\ \/ /\ attempts[j] > MaxAttempts[j]
          /\ Release(w, "dead")
          /\ UNCHANGED runAt
       \/ /\ attempts[j] <= MaxAttempts[j]
          /\ Release(w, "retryable")
          /\ runAt' = [runAt EXCEPT ![j] = RetryDelay(attempts[j])]
    /\ UNCHANGED <<attempts, age, arrivals, blocked>>

Fail(w) ==
    LET j == heldJob[w] IN
    /\ pc[w] = "error"
    /\ Holds(w)
    /\ \/ /\ attempts[j] >= MaxAttempts[j]
          /\ Release(w, "dead")
          /\ UNCHANGED runAt
       \/ /\ attempts[j] < MaxAttempts[j]
          /\ Release(w, "retryable")
          /\ runAt' = [runAt EXCEPT ![j] = RetryDelay(attempts[j])]
    /\ UNCHANGED <<attempts, age, arrivals, blocked>>

DeadLetter(w) ==
    /\ pc[w] = "permanent"
    /\ Holds(w)
    /\ Release(w, "dead")
    /\ UNCHANGED <<attempts, runAt, age, arrivals, blocked>>

\* The guarded UPDATE matched no row: ErrClaimLost, and the cycle ends.
ClaimLost(w) ==
    /\ pc[w] \in Verdicts
    /\ ~Holds(w)
    /\ LetGo(w)
    /\ UNCHANGED <<rowVars, arrivals, blocked>>

\* The statement itself failed, or the answer to Claim was lost: the row keeps
\* the lease and the worker goes on to its next poll.
LoseContact(w) ==
    /\ pc[w] \in {"handling"} \cup Verdicts
    /\ LetGo(w)
    /\ UNCHANGED <<rowVars, arrivals, blocked>>

\* Crash or graceful shutdown: execute leaves the lease of a claim intact.
Stop(w) ==
    /\ pc[w] # "stopped"
    /\ pc' = [pc EXCEPT ![w] = "stopped"]
    /\ heldJob' = [heldJob EXCEPT ![w] = NoJob]
    /\ heldToken' = [heldToken EXCEPT ![w] = NoToken]
    /\ UNCHANGED <<rowVars, arrivals, blocked>>

Start(w) ==
    /\ pc[w] = "stopped"
    /\ pc' = [pc EXCEPT ![w] = "polling"]
    /\ UNCHANGED <<rowVars, arrivals, heldJob, heldToken, blocked>>

-----------------------------------------------------------------------------
(* The environment.                                                        *)

Block == ~blocked /\ blocked' = TRUE /\ UNCHANGED <<rowVars, arrivals, workerVars>>
Unblock == blocked /\ blocked' = FALSE /\ UNCHANGED <<rowVars, arrivals, workerVars>>

Later(n, floor) == IF n > floor THEN n - 1 ELSE n

Tick ==
    /\ runAt' = [j \in Jobs |-> IF status[j] \in Waiting \cup {"running"}
                                THEN Later(runAt[j], -Horizon) ELSE runAt[j]]
    /\ lease' = [j \in Jobs |-> Later(lease[j], 0)]
    /\ age' = [j \in Jobs |-> IF status[j] = "succeeded" /\ age[j] < RetainFor
                              THEN age[j] + 1 ELSE age[j]]
    /\ UNCHANGED <<status, attempts, lockToken, arrivals, workerVars, blocked>>

Finish(w) ==
    \/ Complete(w)
    \/ \E d \in Delays : Defer(w, d)
    \/ Fail(w)
    \/ DeadLetter(w)
    \/ ClaimLost(w)

Poll(w) == ClaimNothing(w) \/ \E j \in Jobs, t \in Tokens : Claim(w, j, t)

Next ==
    \/ \E j \in Jobs : (\E d \in Delays : Enqueue(j, d)) \/ Replay(j) \/ Confirm(j)
    \/ \E S \in CancelSets : CancelWaiting(S)
    \/ \E D \in SUBSET Jobs : ApplyRetention(D)
    \/ \E w \in Workers :
          \/ Poll(w)
          \/ \E v \in Verdicts : HandlerReturns(w, v)
          \/ Finish(w)
          \/ LoseContact(w)
          \/ Stop(w)
          \/ Start(w)
    \/ Block
    \/ Unblock
    \/ Tick

Spec == Init /\ [][Next]_vars

-----------------------------------------------------------------------------
(* Properties.                                                             *)

Holding(w) == heldJob[w] # NoJob /\ Holds(w)

\* The row constraints of the table that span columns: exactly a running row
\* carries a lock token, and only a succeeded row is counted towards
\* retention.  A transaction that broke one would be refused by PostgreSQL.
RowConstraints ==
    \A j \in Jobs :
        /\ status[j] = "running" <=> lockToken[j] # NoToken
        /\ status[j] # "running" => lease[j] = 0
        /\ status[j] # "succeeded" => age[j] = 0

\* No job is stranded.  Claim only takes rows with attempts < max_attempts, so
\* a waiting row with its attempts spent could never run or become dead; and a
\* running row has an attempt to give back, so Defer's GREATEST(.., 0) never
\* clamps and hands out a free attempt.
NoStrandedJob ==
    \A j \in Jobs :
        /\ status[j] \in Waiting => attempts[j] < MaxAttempts[j]
        /\ status[j] = "running" => attempts[j] \in 1..MaxAttempts[j]

\* However leases expire and jobs are reclaimed, at most one worker can still
\* have its verdict accepted for a job.
SoleHolder ==
    \A v, w \in Workers :
        Holding(v) /\ Holding(w) /\ heldJob[v] = heldJob[w] => v = w

\* Once a claim is lost it stays lost: nothing that happens to the row while
\* the worker runs on - reclaim, replay, deletion, a new insert under the same
\* key - makes the worker's token match again.
LostClaimStaysLost ==
    [][\A w \in Workers :
          /\ heldJob[w] # NoJob
          /\ ~Holds(w)
          /\ heldJob'[w] = heldJob[w]
          /\ heldToken'[w] = heldToken[w]
          => ~Holds(w)']_vars

\* Until its lease expires a claim ends only by the verdict of its holder.
LeaseHonoured ==
    [][\A j \in Jobs :
          lease[j] > 0 /\ lockToken'[j] # lockToken[j] =>
              \E w \in Workers :
                  Holding(w) /\ heldJob[w] = j /\ pc[w] \in Verdicts]_vars

-----------------------------------------------------------------------------
(* The queue implements the work ledger: tokens and leases are how it is    *)
(* done, one accountable owner per job is what is promised.                 *)

Phase(s) ==
    CASE s = "absent" -> "none"
      [] s \in Waiting -> "waiting"
      [] s = "running" -> "taken"
      [] s = "succeeded" -> "done"
      [] s = "dead" -> "failed"

OwnerOf(j) ==
    IF \E w \in Workers : Holding(w) /\ heldJob[w] = j
    THEN CHOOSE w \in Workers : Holding(w) /\ heldJob[w] = j
    ELSE NoJob

ledgerPhase == [j \in Jobs |-> Phase(status[j])]
ledgerOwner == [j \in Jobs |-> OwnerOf(j)]

Ledger == INSTANCE JobLedger WITH
    Nobody <- NoJob,
    Limit <- MaxAttempts,
    phase <- ledgerPhase,
    tries <- attempts,
    owner <- ledgerOwner

\* Every behaviour of the queue is a behaviour of the ledger.
ImplementsLedger == Ledger!Spec

-----------------------------------------------------------------------------
(* Liveness.                                                               *)

\* A process is restarted when it stops and polls forever (the poll timer is
\* re-armed after every cycle), so a poll that is possible again and again
\* happens; the job timeout ends every handler, and the finishing statement is
\* retried by nobody but issued at once.  Producers, operators and policy owe
\* nothing.
Fairness ==
    /\ WF_vars(Tick)
    /\ \A w \in Workers :
          /\ WF_vars(Start(w))
          /\ SF_vars(Poll(w))
          /\ WF_vars(\E v \in Verdicts : HandlerReturns(w, v))
          /\ WF_vars(Finish(w))

FairSpec == Spec /\ Fairness

Unsettled(j) == status[j] \in Waiting \cup {"running"}

\* If policy stops deferring, every job in the queue ends: it succeeds, or it
\* is dead and an administrator can see it.  Crashed holders, lost claims and
\* expired final attempts included.
EveryJobSettles ==
    <>[]~blocked =>
        \A j \in Jobs : Unsettled(j) ~> ~Unsettled(j)
=============================================================================
