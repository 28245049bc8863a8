--------------------------- MODULE ReportSchedules ---------------------------
(***************************************************************************)
(* The scheduled delivery of one saved report (customreports/schedule*.go): *)
(* a revisioned schedule, its due occurrences ("runs"), one delivery per    *)
(* captured recipient, the jobs that deliver a run - the initial one and    *)
(* one per operator retry - and the operators.  The queue is what JobLedger *)
(* promises of it; a worker may lose its job and work on unaware.           *)
(*                                                                         *)
(* A delivery is claimed in a transaction, handed to the provider outside   *)
(* of any, and settled by a statement guarded by status = 'sending' only.   *)
(* The claim locks the run and the schedule; settling locks neither.        *)
(***************************************************************************)
EXTENDS Integers, FiniteSets

CONSTANTS
    Runs,           \* occurrences of the schedule
    Users,          \* members who may be recipients
    Workers,
    Nobody,         \* no job owner, no recipient in hand
    NoJob,          \* no job in hand
    MaxAttempts,    \* max_attempts of a delivery job
    MaxRecoveries,  \* bound: operator retries of one run
    MaxRevision     \* bound: revisions of the schedule

Jobs == Runs \X (0..MaxRecoveries)

VARIABLES
    revision, active, listed, due,  \* the schedule, its recipients, next_run_at reached
    member,                         \* membership_status of each user
    run, runRevision,               \* status and schedule_revision of each run
    artifact,                       \* its retained CSV: "none", "kept" or "past" its date
    delivery,                       \* status of each recipient delivery; "stalled" is
                                    \* "sending" claimed five minutes ago or more
    recovery,                       \* recovery_generation
    phase, tries, owner,            \* the jobs, as JobLedger sees them
    pc, job, lastTry, target,       \* each worker: place, job, job.Attempts = max, recipient
    open,                           \* history: claims the provider may have taken
    retried                         \* history: operator retries of a delivery

scheduleVars == <<revision, active, listed, due>>
runVars == <<run, runRevision, artifact, recovery>>
jobVars == <<phase, tries, owner>>
workerVars == <<pc, job, lastTry, target>>
vars == <<revision, active, listed, due, member, run, runRevision, artifact,
          delivery, recovery, phase, tries, owner, pc, job, lastTry, target,
          open, retried>>

Queue == INSTANCE JobLedger WITH Limit <- [j \in Jobs |-> MaxAttempts]

Closed == {"succeeded", "partial", "failed", "canceled"}
Open == {"pending", "sending"}
DeliveryStatuses ==
    {"none", "pending", "sending", "stalled", "accepted", "uncertain", "failed", "skipped"}
Sending == {"sending", "stalled"}
Verdicts == {"ok", "error", "permanent", "deferred"}
Answers == {"accepted", "uncertain", "rejected"}

TypeOK ==
    /\ revision \in 1..MaxRevision /\ active \in BOOLEAN /\ due \in BOOLEAN
    /\ listed \subseteq Users
    /\ member \in [Users -> BOOLEAN]
    /\ run \in [Runs -> {"none"} \cup Open \cup Closed]
    /\ runRevision \in [Runs -> 0..MaxRevision]
    /\ artifact \in [Runs -> {"none", "kept", "past"}]
    /\ delivery \in [Runs -> [Users -> DeliveryStatuses]]
    /\ recovery \in [Runs -> 0..MaxRecoveries]
    /\ phase \in [Jobs -> {"none", "waiting", "taken", "done", "failed"}]
    /\ tries \in [Jobs -> 0..MaxAttempts]
    /\ owner \in [Jobs -> Workers \cup {Nobody}]
    /\ pc \in [Workers -> {"idle", "prepare", "claim", "count", "send"} \cup Answers \cup Verdicts]
    /\ job \in [Workers -> Jobs \cup {NoJob}]
    /\ lastTry \in [Workers -> BOOLEAN]
    /\ target \in [Workers -> Users \cup {Nobody}]
    /\ open \in [Runs -> [Users -> Nat]]
    /\ retried \in [Runs -> [Users -> 0..MaxRecoveries]]

Init ==
    /\ revision = 1 /\ active = TRUE /\ listed = Users /\ due = FALSE
    /\ member = [u \in Users |-> TRUE]
    /\ run = [r \in Runs |-> "none"]
    /\ runRevision = [r \in Runs |-> 0]
    /\ artifact = [r \in Runs |-> "none"]
    /\ delivery = [r \in Runs |-> [u \in Users |-> "none"]]
    /\ recovery = [r \in Runs |-> 0]
    /\ phase = [j \in Jobs |-> "none"]
    /\ tries = [j \in Jobs |-> 0]
    /\ owner = [j \in Jobs |-> Nobody]
    /\ pc = [w \in Workers |-> "idle"]
    /\ job = [w \in Workers |-> NoJob]
    /\ lastTry = [w \in Workers |-> FALSE]
    /\ target = [w \in Workers |-> Nobody]
    /\ open = [r \in Runs |-> [u \in Users |-> 0]]
    /\ retried = [r \in Runs |-> [u \in Users |-> 0]]

-----------------------------------------------------------------------------
(* What the transactions share.                                            *)

\* A claim pass that found nothing pending holds the run and the schedule.
Locked == \E w \in Workers : pc[w] = "count"

In(r, d, statuses) == {u \in Users : d[r][u] \in statuses}

\* The status the recipients' outcomes add up to.
Summary(r, d) ==
    LET accepted == In(r, d, {"accepted"})
        uncertain == In(r, d, {"uncertain"})
        failed == In(r, d, {"failed"})
        skipped == In(r, d, {"skipped"})
    IN  IF uncertain \cup failed # {}
        THEN IF accepted \cup uncertain = {} THEN "failed" ELSE "partial"
        ELSE IF accepted = {} THEN "canceled"
        ELSE IF skipped # {} THEN "partial" ELSE "succeeded"

Becomes(r, from, to) ==
    [delivery EXCEPT ![r] = [u \in Users |-> IF @[u] \in from THEN to ELSE @[u]]]

\* finalizeDeliveryRun closes an open run, whatever its recipients wait for.
Finalized(r, d) == [run EXCEPT ![r] = IF @ \in Open THEN Summary(r, d) ELSE @]

StaleRun(r) == ~active \/ runRevision[r] # revision

\* cancelStaleDeliveryRun, of every run in R.
CancelStale(R) ==
    LET d == [r \in Runs |-> IF r \in R THEN Becomes(r, {"pending"}, "skipped")[r]
                             ELSE delivery[r]]
    IN  /\ delivery' = d
        /\ run' = [r \in Runs |-> IF r \in R THEN Finalized(r, d)[r] ELSE run[r]]

\* cancelStaleScheduleRuns leaves a run alone while one of its mails is in flight.
Untouched(newRevision) ==
    {r \in Runs : /\ run[r] \in Open
                  /\ runRevision[r] # newRevision
                  /\ In(r, delivery, Sending) = {}}

-----------------------------------------------------------------------------
(* Administrators, members, the clock.                                     *)

UpsertSchedule(on, recipients) ==
    /\ ~Locked
    /\ revision < MaxRevision
    /\ recipients # {} /\ \A u \in recipients : member[u]
    /\ revision' = revision + 1
    /\ active' = on
    /\ listed' = recipients
    /\ due' = FALSE
    /\ CancelStale(Untouched(revision + 1))
    /\ UNCHANGED <<member, runRevision, artifact, recovery, jobVars,
                   workerVars, open, retried>>

\* An edit of the report definition revises an active schedule, or pauses it.
ReconcileDefinition(executable) ==
    /\ ~Locked
    /\ active
    /\ revision < MaxRevision
    /\ revision' = revision + 1
    /\ active' = executable
    /\ due' = (due /\ executable)
    /\ CancelStale(Untouched(revision + 1))
    /\ UNCHANGED <<listed, member, runRevision, artifact, recovery, jobVars,
                   workerVars, open, retried>>

ChangeMembership(u) ==
    /\ member' = [member EXCEPT ![u] = ~@]
    /\ UNCHANGED <<scheduleVars, runVars, delivery, jobVars, workerVars,
                   open, retried>>

BecomeDue ==
    /\ active /\ ~due
    /\ \E r \in Runs : run[r] = "none"   \* bound: an occurrence is left
    /\ due' = TRUE
    /\ UNCHANGED <<revision, active, listed, member, runVars, delivery,
                   jobVars, workerVars, open, retried>>

\* Five minutes after the claim; the cutoff of an open claim pass is fixed.
Stall(r, u) ==
    /\ ~Locked
    /\ delivery[r][u] = "sending"
    /\ delivery' = [delivery EXCEPT ![r][u] = "stalled"]
    /\ UNCHANGED <<scheduleVars, member, runVars, jobVars, workerVars, open, retried>>

ArtifactTTLPasses(r) ==
    /\ artifact[r] = "kept"
    /\ artifact' = [artifact EXCEPT ![r] = "past"]
    /\ UNCHANGED <<scheduleVars, member, run, runRevision, delivery, recovery,
                   jobVars, workerVars, open, retried>>

CleanupExpiredDeliveryArtifacts(r) ==
    /\ ~Locked
    /\ artifact[r] = "past" /\ run[r] \in Closed
    /\ artifact' = [artifact EXCEPT ![r] = "none"]
    /\ UNCHANGED <<scheduleVars, member, run, runRevision, delivery, recovery,
                   jobVars, workerVars, open, retried>>

\* Discovery captures the revision and the active recipients with the job.
EnqueueDueDeliveries(r) ==
    /\ ~Locked
    /\ active /\ due
    /\ run[r] = "none"
    /\ run' = [run EXCEPT ![r] = "pending"]
    /\ runRevision' = [runRevision EXCEPT ![r] = revision]
    /\ delivery' = [delivery EXCEPT ![r] =
                       [u \in Users |-> IF u \in listed /\ member[u] THEN "pending" ELSE "none"]]
    /\ Queue!Submit(<<r, 0>>)
    /\ due' = FALSE
    /\ UNCHANGED <<revision, active, listed, member, artifact, recovery,
                   workerVars, open, retried>>

-----------------------------------------------------------------------------
(* ResolveRecipientDelivery.                                               *)

ConfirmSent(r, u) ==
    /\ ~Locked
    /\ delivery[r][u] = "uncertain"
    /\ delivery' = [delivery EXCEPT ![r][u] = "accepted"]
    /\ run' = [run EXCEPT ![r] = Summary(r, delivery')]
    /\ UNCHANGED <<scheduleVars, member, runRevision, artifact, recovery,
                   jobVars, workerVars, open, retried>>

Recoverable(r, u) ==
    /\ delivery[r][u] \in {"failed", "uncertain"}
    /\ ~StaleRun(r)
    /\ member[u] /\ u \in listed
    /\ artifact[r] = "kept"

Retry(r, u) ==
    /\ ~Locked
    /\ Recoverable(r, u)
    /\ recovery[r] < MaxRecoveries
    /\ delivery' = [delivery EXCEPT ![r][u] = "pending"]
    /\ run' = [run EXCEPT ![r] = "sending"]
    /\ recovery' = [recovery EXCEPT ![r] = @ + 1]
    /\ Queue!Submit(<<r, recovery[r] + 1>>)
    /\ retried' = [retried EXCEPT ![r][u] = @ + 1]
    /\ UNCHANGED <<scheduleVars, member, runRevision, artifact, workerVars, open>>

-----------------------------------------------------------------------------
(* HandleScheduledDeliveryJob.                                             *)

Goto(w, p) == pc' = [pc EXCEPT ![w] = p]
RunOf(w) == job[w][1]

Take(w, j) ==
    /\ pc[w] = "idle"
    /\ owner[j] = Nobody
    /\ Queue!Take(w, j, {})
    /\ Goto(w, "prepare")
    /\ job' = [job EXCEPT ![w] = j]
    /\ lastTry' = [lastTry EXCEPT ![w] = tries[j] + 1 = MaxAttempts]
    /\ UNCHANGED <<scheduleVars, member, runVars, delivery, target, open, retried>>

\* A closed run needs nothing; a stale one, or one without recipients, is closed.
PrepareClosed(w) ==
    LET r == RunOf(w) IN
    /\ pc[w] = "prepare" /\ ~Locked
    /\ \/ /\ run[r] \in Closed
          /\ UNCHANGED <<run, delivery>>
       \/ /\ run[r] \in Open /\ StaleRun(r)
          /\ CancelStale({r})
       \/ /\ run[r] \in Open /\ ~StaleRun(r)
          /\ In(r, delivery, DeliveryStatuses \ {"none"}) = {}
          /\ run' = [run EXCEPT ![r] = "canceled"]
          /\ UNCHANGED delivery
    /\ Goto(w, "ok")
    /\ UNCHANGED <<scheduleVars, member, runRevision, artifact, recovery,
                   jobVars, job, lastTry, target, open, retried>>

\* The artifact is generated once; a report that cannot be exported fails the
\* run and what is pending of it for good.
Prepare(w) ==
    LET r == RunOf(w) IN
    /\ pc[w] = "prepare" /\ ~Locked
    /\ run[r] \in Open /\ ~StaleRun(r)
    /\ In(r, delivery, DeliveryStatuses \ {"none"}) # {}
    /\ \/ /\ artifact' = [artifact EXCEPT ![r] = IF @ = "none" THEN "kept" ELSE @]
          /\ run' = [run EXCEPT ![r] = "sending"]
          /\ Goto(w, "claim")
          /\ UNCHANGED delivery
       \/ /\ artifact[r] = "none"
          /\ run' = [run EXCEPT ![r] = "failed"]
          /\ delivery' = Becomes(r, {"pending"}, "failed")
          /\ Goto(w, "permanent")
          /\ UNCHANGED artifact
    /\ UNCHANGED <<scheduleVars, member, runRevision, recovery, jobVars,
                   job, lastTry, target, open, retried>>

QuarantinedForResend(r) == Becomes(r, {"stalled"}, "pending")

\* The claim pass first quarantines what stalled ...
Quarantined(r) == Becomes(r, {"stalled"}, "uncertain")

ClaimClosed(w) ==
    LET r == RunOf(w) IN
    /\ pc[w] = "claim" /\ ~Locked
    /\ \/ run[r] \in Closed /\ UNCHANGED <<run, delivery>>
       \/ run[r] \in Open /\ StaleRun(r) /\ CancelStale({r})
    /\ Goto(w, "ok")
    /\ UNCHANGED <<scheduleVars, member, runRevision, artifact, recovery,
                   jobVars, job, lastTry, target, open, retried>>

\* ... then takes one pending delivery; its commit may be lost on the way back.
Claim(w, u) ==
    LET r == RunOf(w)
        d == Quarantined(r)
        valid == member[u] /\ u \in listed
    IN
    /\ pc[w] = "claim" /\ ~Locked
    /\ run[r] \in Open /\ ~StaleRun(r)
    /\ d[r][u] = "pending"
    /\ delivery' = [d EXCEPT ![r][u] = IF valid THEN "sending" ELSE "skipped"]
    /\ IF valid
       THEN /\ open' = [open EXCEPT ![r][u] = @ + 1]
            /\ \/ Goto(w, "send") /\ target' = [target EXCEPT ![w] = u]
               \/ Goto(w, "error") /\ UNCHANGED target
       ELSE UNCHANGED <<pc, open, target>>
    /\ UNCHANGED <<scheduleVars, member, runVars, jobVars, job, lastTry, retried>>

\* ... or, when none is, counts what is in flight: a second look at the rows.
FindNonePending(w) ==
    LET r == RunOf(w) IN
    /\ pc[w] = "claim" /\ ~Locked
    /\ run[r] \in Open /\ ~StaleRun(r)
    /\ In(r, delivery, {"pending"}) = {}
    /\ Goto(w, "count")
    /\ UNCHANGED <<scheduleVars, member, runVars, delivery, jobVars, job,
                   lastTry, target, open, retried>>

InFlight(r) == In(r, delivery, {"sending"})

DoneWhileInFlight(w) ==
    /\ pc[w] = "count"
    /\ InFlight(RunOf(w)) # {}
    /\ Goto(w, "ok")
    /\ UNCHANGED <<scheduleVars, member, runVars, delivery, jobVars, job,
                   lastTry, target, open, retried>>

\* Another worker's mail is in flight: roll back and come again later.
Defer(w) ==
    /\ pc[w] = "count"
    /\ InFlight(RunOf(w)) # {}
    /\ Goto(w, "deferred")
    /\ UNCHANGED <<scheduleVars, member, runVars, delivery, jobVars, job,
                   lastTry, target, open, retried>>

FinalizeDeliveryRun(w) ==
    LET r == RunOf(w) IN
    /\ pc[w] = "count"
    /\ InFlight(r) = {}
    /\ delivery' = Quarantined(r)
    /\ run' = Finalized(r, delivery')
    /\ Goto(w, "ok")
    /\ UNCHANGED <<scheduleVars, member, runRevision, artifact, recovery,
                   jobVars, job, lastTry, target, open, retried>>

\* The provider takes the mail, refuses it, or nobody knows.
Send(w) ==
    LET r == RunOf(w) IN
    /\ pc[w] = "send"
    /\ \E a \in Answers :
          /\ Goto(w, a)
          /\ open' = IF a = "rejected" THEN [open EXCEPT ![r][target[w]] = @ - 1] ELSE open
    /\ UNCHANGED <<scheduleVars, member, runVars, delivery, jobVars, job,
                   lastTry, target, retried>>

\* The row is not held by a claim pass that is quarantining it.
Free(r, u) == ~(Locked /\ delivery[r][u] = "stalled")

AwaitsUnchecked(r, u) == delivery[r][u] # "none"

\* WHERE status = 'sending': a late answer finds nothing to settle.
Awaits(r, u) == delivery[r][u] \in Sending

Keep(w, status) ==
    LET r == RunOf(w)
        u == target[w]
    IN  /\ Free(r, u)
        /\ delivery' = IF Awaits(r, u) THEN [delivery EXCEPT ![r][u] = status] ELSE delivery
        /\ target' = [target EXCEPT ![w] = Nobody]

FinalizeRecipientAccepted(w) ==
    /\ pc[w] = "accepted"
    /\ Keep(w, "accepted")
    /\ Goto(w, "claim")
    /\ UNCHANGED <<scheduleVars, member, runVars, jobVars, job, lastTry, open, retried>>

FinalizeRecipientUncertain(w) ==
    /\ pc[w] = "uncertain"
    /\ Keep(w, "uncertain")
    /\ Goto(w, "claim")
    /\ UNCHANGED <<scheduleVars, member, runVars, jobVars, job, lastTry, open, retried>>

\* A refused mail waits for the next attempt of the job, or failed for good.
FinalizeRecipientRejected(w) ==
    /\ pc[w] = "rejected"
    /\ Keep(w, IF lastTry[w] THEN "failed" ELSE "pending")
    /\ Goto(w, IF lastTry[w] THEN "claim" ELSE "error")
    /\ UNCHANGED <<scheduleVars, member, runVars, jobVars, job, lastTry, open, retried>>

\* Any statement can fail without effect; an acceptance that cannot be kept is
\* kept as uncertain.  Without a provider the handler refuses the job.
StatementFails(w) ==
    /\ \/ pc[w] = "prepare" /\ (Goto(w, "error") \/ Goto(w, "permanent"))
       \/ pc[w] \in {"claim", "count", "uncertain", "rejected"} /\ Goto(w, "error")
       \/ pc[w] = "accepted" /\ Goto(w, "uncertain")
    /\ target' = IF pc[w] = "accepted" THEN target ELSE [target EXCEPT ![w] = Nobody]
    /\ UNCHANGED <<scheduleVars, member, runVars, delivery, jobVars, job,
                   lastTry, open, retried>>

-----------------------------------------------------------------------------
(* The queue around the handler.                                           *)

BackToIdle(w) ==
    /\ Goto(w, "idle")
    /\ job' = [job EXCEPT ![w] = NoJob]
    /\ lastTry' = [lastTry EXCEPT ![w] = FALSE]
    /\ target' = [target EXCEPT ![w] = Nobody]
    /\ UNCHANGED <<scheduleVars, member, runVars, delivery, open, retried>>

Settle(w) ==
    LET j == job[w] IN
    /\ pc[w] \in Verdicts
    /\ owner[j] = w
    /\ Queue!Settle(w, j)
    /\ tries'[j] = tries[j] - (IF pc[w] = "deferred" THEN 1 ELSE 0)
    /\ phase'[j] =
          CASE pc[w] = "ok" -> "done"
            [] pc[w] = "permanent" -> "failed"
            [] pc[w] = "deferred" -> "waiting"
            [] pc[w] = "error" -> IF tries[j] < MaxAttempts THEN "waiting" ELSE "failed"
    /\ BackToIdle(w)

\* The verdict of a worker that lost its job is refused.
ClaimLost(w) ==
    /\ pc[w] \in Verdicts
    /\ owner[job[w]] # w
    /\ BackToIdle(w)
    /\ UNCHANGED jobVars

\* The lease lapses while the provider call lasts (every other step is short) ...
Lapse(w) ==
    /\ pc[w] = "send"
    /\ Queue!WalkAway(w, job[w])
    /\ UNCHANGED <<scheduleVars, member, runVars, delivery, workerVars, open, retried>>

\* ... or because its process stopped.
Stop(w) ==
    /\ pc[w] # "idle"
    /\ owner' = [owner EXCEPT ![job[w]] = IF @ = w THEN Nobody ELSE @]
    /\ UNCHANGED <<phase, tries>>
    /\ BackToIdle(w)

GiveUp(j) ==
    /\ j \in Queue!Spent /\ owner[j] = Nobody
    /\ Queue!GiveUp({j})
    /\ UNCHANGED <<scheduleVars, member, runVars, delivery, workerVars, open, retried>>

Next ==
    \/ \E on \in BOOLEAN, S \in SUBSET Users : UpsertSchedule(on, S)
    \/ \E executable \in BOOLEAN : ReconcileDefinition(executable)
    \/ \E u \in Users : ChangeMembership(u)
    \/ BecomeDue
    \/ \E r \in Runs :
          \/ EnqueueDueDeliveries(r)
          \/ ArtifactTTLPasses(r)
          \/ CleanupExpiredDeliveryArtifacts(r)
          \/ \E u \in Users : Stall(r, u) \/ ConfirmSent(r, u) \/ Retry(r, u)
    \/ \E w \in Workers :
          \/ \E j \in Jobs : Take(w, j)
          \/ PrepareClosed(w)
          \/ Prepare(w)
          \/ ClaimClosed(w)
          \/ \E u \in Users : Claim(w, u)
          \/ FindNonePending(w)
          \/ Defer(w)
          \/ FinalizeDeliveryRun(w)
          \/ Send(w)
          \/ FinalizeRecipientAccepted(w)
          \/ FinalizeRecipientUncertain(w)
          \/ FinalizeRecipientRejected(w)
          \/ StatementFails(w)
          \/ Settle(w)
          \/ ClaimLost(w)
          \/ Lapse(w)
          \/ Stop(w)
    \/ \E j \in Jobs : GiveUp(j)

Spec == Init /\ [][Next]_vars

-----------------------------------------------------------------------------
(* Properties.                                                             *)

\* However workers stop, lose their job or answer late, a report reaches the
\* provider's hands once per decision to send it: the schedule's, and each
\* retry an operator asked for.  Only a definite refusal gives the hand-over
\* back.
SentOncePerDecision ==
    \A r \in Runs, u \in Users : open[r][u] <= 1 + retried[r][u]

\* An open run is never forgotten: a job of it waits, is taken, or is dead in
\* the operators' list, whoever retried or deferred while others were at it.
OpenRunHasJob ==
    \A r \in Runs :
        run[r] \in Open =>
            \E j \in Jobs : j[1] = r /\ phase[j] \in {"waiting", "taken", "failed"}

\* What is settled stays settled until an operator decides: a late answer of
\* a worker that was overtaken changes nothing.
KeepsOutcomes ==
    \A r \in Runs, u \in Users :
        /\ delivery[r][u] \in {"accepted", "skipped"} => delivery'[r][u] = delivery[r][u]
        /\ delivery[r][u] = "failed" /\ delivery'[r][u] # "failed" =>
              retried'[r][u] = retried[r][u] + 1
OutcomesKept == [][KeepsOutcomes]_vars

-----------------------------------------------------------------------------
(* What the documentation says and the code does not do.                   *)

\* "A definite provider failure consumes at most three leased job attempts and
\* then appears as Failed", "an in-flight provider contact must still reach a
\* terminal or operator-resolved state" (docs/operations-runbook.md:1591, 1609): once a run
\* is closed and no worker is on it, no recipient is left pending or sending,
\* since no job will look at it and no operator action applies to it.
ClosedRunsAreSettled ==
    \A r \in Runs :
        run[r] \in Closed /\ (\A w \in Workers : job[w] = NoJob \/ RunOf(w) # r) =>
            In(r, delivery, {"pending"} \cup Sending) = {}
=============================================================================
