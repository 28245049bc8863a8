-------------------------- MODULE SequenceDelivery ---------------------------
(***************************************************************************)
(* One approved email sequence: enrollments, the delivery ledger, and the  *)
(* email_sequence.send handler that workers run for a job of the queue.    *)
(*                                                                         *)
(* The queue is used through what JobLedger promises of it (JobQueue       *)
(* implements JobLedger): a job may be taken from a silent owner, and the  *)
(* previous worker may still be anywhere in the handler.  Every database   *)
(* statement or transaction of the handler is one step, the provider call  *)
(* is one, and each may fail, or take effect with its answer lost.         *)
(*                                                                         *)
(* Due times are left out: the job of a step becomes claimable when its    *)
(* next_send_at is reached, the two being the same instant.                *)
(***************************************************************************)
EXTENDS Integers

CONSTANTS
    Enrollments,
    Contacts,
    ContactOf,    \* [Enrollments -> Contacts]
    Workers,
    NoSend,       \* no worker task
    Nobody,       \* no job owner
    Steps,        \* number of steps of the sequence
    MaxAttempts,  \* max_attempts of a send job
    MaxRearms,    \* bound: operator retries and replays of one job
    Archiving     \* FALSE: instances in which no contact is ever archived

ASSUME ConstantsAssumption ==
    /\ ContactOf \in [Enrollments -> Contacts]
    /\ Steps \in Nat \ {0}
    /\ MaxAttempts \in Nat \ {0}
    /\ MaxRearms \in Nat
    /\ Archiving \in BOOLEAN
    /\ Nobody \notin Workers

Sends == Enrollments \X (1..Steps)

ASSUME NoSendAssumption == NoSend \notin Sends

VARIABLES
    seqActive,          \* status = 'active' and approved_revision = revision
    enrollment, step,   \* status (with completion_reason), current_step_order
    archived,           \* contacts.archived_at IS NOT NULL
    suppressed,         \* a row in email_suppressions
    delivery,           \* status of the email_sequence_deliveries row
    jobPhase, jobTries, jobOwner,   \* the send jobs, as JobLedger sees them
    skipped,            \* the job succeeded with result "skipped"
    pc, task,           \* each worker: where it is in HandleJob, for which send
    claims, sends,      \* history: claimed attempts, provider calls
    rearms, replays,    \* history: operator retries, generic replays
    cutoff              \* history: the step at which the contact was suppressed

cadenceVars == <<seqActive, enrollment, step, archived, suppressed, cutoff>>
jobVars == <<jobPhase, jobTries, jobOwner, skipped>>
workerVars == <<pc, task>>
history == <<claims, sends, rearms, replays>>
vars == <<seqActive, enrollment, step, archived, suppressed, delivery,
          jobPhase, jobTries, jobOwner, skipped, pc, task, claims, sends,
          rearms, replays, cutoff>>

Queue == INSTANCE JobLedger WITH
    Jobs <- Sends,
    Limit <- [k \in Sends |-> MaxAttempts],
    phase <- jobPhase,
    tries <- jobTries,
    owner <- jobOwner

Ended == {"finished", "replied", "suppressed", "cancelled"}
Deliveries == {"none", "queued", "sending", "uncertain", "sent", "suppressed"}
Verdicts == {"ok", "skipped", "error", "deferred", "permanent"}
Calls == {"load", "why", "prepare", "quarantine", "check", "suppress", "claim",
          "unready", "unclaimed", "send", "finalize", "mark"}

TypeOK ==
    /\ seqActive \in BOOLEAN
    /\ enrollment \in [Enrollments -> {"none", "active"} \cup Ended]
    /\ step \in [Enrollments -> 0..Steps]
    /\ archived \in [Contacts -> BOOLEAN]
    /\ suppressed \in [Contacts -> BOOLEAN]
    /\ delivery \in [Sends -> Deliveries]
    /\ jobPhase \in [Sends -> {"none", "waiting", "taken", "done", "failed"}]
    /\ jobTries \in [Sends -> Nat]
    /\ jobOwner \in [Sends -> Workers \cup {Nobody}]
    /\ skipped \in [Sends -> BOOLEAN]
    /\ pc \in [Workers -> {"idle"} \cup Calls \cup Verdicts]
    /\ task \in [Workers -> Sends \cup {NoSend}]
    /\ claims \in [Sends -> Nat]
    /\ sends \in [Sends -> Nat]
    /\ rearms \in [Sends -> Nat]
    /\ replays \in [Sends -> Nat]
    /\ cutoff \in [Enrollments -> 0..Steps]

Init ==
    /\ seqActive = FALSE
    /\ enrollment = [e \in Enrollments |-> "none"]
    /\ step = [e \in Enrollments |-> 0]
    /\ archived = [c \in Contacts |-> FALSE]
    /\ suppressed = [c \in Contacts |-> FALSE]
    /\ delivery = [k \in Sends |-> "none"]
    /\ jobPhase = [k \in Sends |-> "none"]
    /\ jobTries = [k \in Sends |-> 0]
    /\ jobOwner = [k \in Sends |-> Nobody]
    /\ skipped = [k \in Sends |-> FALSE]
    /\ pc = [w \in Workers |-> "idle"]
    /\ task = [w \in Workers |-> NoSend]
    /\ claims = [k \in Sends |-> 0]
    /\ sends = [k \in Sends |-> 0]
    /\ rearms = [k \in Sends |-> 0]
    /\ replays = [k \in Sends |-> 0]
    /\ cutoff = [e \in Enrollments |-> Steps]

-----------------------------------------------------------------------------
(* Members, recipients and mailbox evidence.                               *)

Pause ==
    /\ seqActive
    /\ seqActive' = FALSE
    /\ UNCHANGED <<enrollment, step, archived, suppressed, cutoff, delivery,
                   jobVars, workerVars, history>>

Approve ==
    /\ ~seqActive
    /\ seqActive' = TRUE
    /\ UNCHANGED <<enrollment, step, archived, suppressed, cutoff, delivery,
                   jobVars, workerVars, history>>

\* A contact has at most one active enrollment in the sequence (a partial
\* unique index); the enrollment and its first job commit together.
EnrollContact(e) ==
    /\ enrollment[e] = "none"
    /\ seqActive
    /\ ~archived[ContactOf[e]]
    /\ \A f \in Enrollments :
          ContactOf[f] = ContactOf[e] => enrollment[f] # "active"
    /\ enrollment' = [enrollment EXCEPT ![e] = "active"]
    /\ step' = [step EXCEPT ![e] = 1]
    /\ Queue!Submit(<<e, 1>>)
    /\ UNCHANGED <<seqActive, archived, suppressed, cutoff, delivery, skipped,
                   workerVars, history>>

Leaves(e, how) ==
    /\ enrollment[e] = "active"
    /\ enrollment' = [enrollment EXCEPT ![e] = how]

CancelEnrollmentAsCanceled(e) ==
    /\ Leaves(e, "canceled")
    /\ UNCHANGED <<seqActive, step, archived, suppressed, cutoff, delivery,
                   jobVars, workerVars, history>>

CancelEnrollment(e) ==
    /\ Leaves(e, "cancelled")
    /\ UNCHANGED <<seqActive, step, archived, suppressed, cutoff, delivery,
                   jobVars, workerVars, history>>

Accepted(e) == \E s \in 1..Steps : delivery[<<e, s>>] = "sent"

\* Synced mail answers a message the provider accepted.
Reply(e) ==
    /\ Accepted(e)
    /\ ~archived[ContactOf[e]]
    /\ Leaves(e, "replied")
    /\ UNCHANGED <<seqActive, step, archived, suppressed, cutoff, delivery,
                   jobVars, workerVars, history>>

\* The first suppression of an address notes how far its enrollments were.
Suppresses(c) ==
    /\ suppressed' = [suppressed EXCEPT ![c] = TRUE]
    /\ cutoff' = [e \in Enrollments |->
                     IF ContactOf[e] = c /\ ~suppressed[c] THEN step[e]
                                                           ELSE cutoff[e]]

Unsubscribe(c) ==
    /\ ~suppressed[c]
    /\ Suppresses(c)
    /\ UNCHANGED <<seqActive, enrollment, step, archived, delivery, jobVars,
                   workerVars, history>>

\* A bounce or complaint for an accepted message, in one transaction.
Feedback(e) ==
    /\ Accepted(e)
    /\ Suppresses(ContactOf[e])
    /\ \/ Leaves(e, "suppressed")
       \/ enrollment[e] # "active" /\ UNCHANGED enrollment
    /\ UNCHANGED <<seqActive, step, archived, delivery, jobVars, workerVars,
                   history>>

ToggleArchived(c) ==
    /\ Archiving
    /\ archived' = [archived EXCEPT ![c] = ~@]
    /\ UNCHANGED <<seqActive, enrollment, step, suppressed, cutoff, delivery,
                   jobVars, workerVars, history>>

-----------------------------------------------------------------------------
(* The handler.  k is the send of the job the worker has taken.            *)

Goto(w, p) == pc' = [pc EXCEPT ![w] = p]

\* A committed statement whose answer may be lost on the way to the handler.
Answer(w, known, lost) == Goto(w, known) \/ Goto(w, lost)

Current(k) == enrollment[k[1]] = "active" /\ step[k[1]] = k[2]

Executable(k) == Current(k) /\ seqActive

\* deliveryPolicyPaused: a second query, on its own.
Paused(k) == Current(k) /\ ~seqActive

Take(w, k) ==
    /\ pc[w] = "idle"
    /\ Queue!Take(w, k, {})
    /\ Goto(w, "load")
    /\ task' = [task EXCEPT ![w] = k]
    /\ UNCHANGED <<cadenceVars, delivery, skipped, history>>

\* LoadScheduledSend, first query.  A contact left without an address, or a
\* template that renders to nothing, ends the job for good.
Load(w) ==
    LET k == task[w] IN
    /\ pc[w] = "load"
    /\ \/ /\ Executable(k) /\ ~archived[ContactOf[k[1]]]
          /\ Goto(w, "prepare") \/ Goto(w, "permanent")
       \/ /\ ~Executable(k) \/ archived[ContactOf[k[1]]]
          /\ Goto(w, "why")
    /\ UNCHANGED <<cadenceVars, delivery, jobVars, task, history>>

\* LoadScheduledSend, second query: paused defers, anything else skips.
LoadWhy(w) ==
    /\ pc[w] = "why"
    /\ Goto(w, IF Paused(task[w]) THEN "deferred" ELSE "skipped")
    /\ UNCHANGED <<cadenceVars, delivery, jobVars, task, history>>

\* The row is inserted once; what it holds decides how the handler goes on.
Prepare(w) ==
    LET k == task[w] IN
    /\ pc[w] = "prepare"
    /\ delivery' = [delivery EXCEPT ![k] = IF @ = "none" THEN "queued" ELSE @]
    /\ Answer(w, CASE delivery[k] \in {"none", "queued"} -> "check"
                   [] delivery[k] \in {"sent", "suppressed"} -> "ok"
                   [] delivery[k] = "sending" -> "quarantine"
                   [] delivery[k] = "uncertain" -> "permanent",
              "error")
    /\ UNCHANGED <<cadenceVars, jobVars, task, history>>

\* MarkDeliveryUncertain: only an attempt in flight becomes uncertain.
MarkUncertain(k) ==
    delivery' = [delivery EXCEPT ![k] = IF @ = "sending" THEN "uncertain" ELSE @]

\* The previous attempt ended without a result: no provider call, ever.
Quarantine(w) ==
    LET k == task[w] IN
    /\ pc[w] = "quarantine"
    /\ MarkUncertain(k)
    /\ \/ delivery[k] \in {"sending", "uncertain"} /\ Answer(w, "permanent", "error")
       \/ delivery[k] \notin {"sending", "uncertain"} /\ Goto(w, "error")
    /\ UNCHANGED <<cadenceVars, jobVars, task, history>>

CheckBudgetOnly(w) ==
    /\ pc[w] = "check"
    /\ Goto(w, "claim")
    /\ UNCHANGED <<cadenceVars, delivery, jobVars, task, history>>

\* IsSuppressed, then the shared send budgets, which may be spent.
CheckAllowed(w) ==
    /\ pc[w] = "check"
    /\ ~suppressed[ContactOf[task[w][1]]]
    /\ Goto(w, "claim")
    /\ UNCHANGED <<cadenceVars, delivery, jobVars, task, history>>

CheckRefused(w) ==
    /\ pc[w] = "check"
    /\ Goto(w, IF suppressed[ContactOf[task[w][1]]] THEN "suppress" ELSE "deferred")
    /\ UNCHANGED <<cadenceVars, delivery, jobVars, task, history>>

FinalizeSuppressedAdvancing(w) ==
    LET k == task[w] IN
    /\ pc[w] = "suppress"
    /\ delivery[k] = "queued"
    /\ delivery' = [delivery EXCEPT ![k] = "suppressed"]
    /\ step' = [step EXCEPT ![k[1]] = IF Current(k) /\ k[2] < Steps THEN @ + 1 ELSE @]
    /\ Goto(w, "ok")
    /\ UNCHANGED <<seqActive, enrollment, archived, suppressed, cutoff, jobVars,
                   task, history>>

FinalizeSuppressed(w) ==
    LET k == task[w] IN
    /\ pc[w] = "suppress"
    /\ \/ /\ delivery[k] = "queued"
          /\ delivery' = [delivery EXCEPT ![k] = "suppressed"]
          /\ enrollment' = [enrollment EXCEPT ![k[1]] =
                               IF Current(k) THEN "suppressed" ELSE @]
          /\ Answer(w, "ok", "error")
       \/ /\ delivery[k] # "queued"
          /\ Goto(w, "error")
          /\ UNCHANGED <<delivery, enrollment>>
    /\ UNCHANGED <<seqActive, step, archived, suppressed, cutoff, jobVars, task,
                   history>>

ClaimInFlightToo(w) ==
    LET k == task[w] IN
    /\ pc[w] = "claim"
    /\ Executable(k)
    /\ delivery[k] \in {"queued", "sending"}
    /\ delivery' = [delivery EXCEPT ![k] = "sending"]
    /\ claims' = [claims EXCEPT ![k] = @ + 1]
    /\ Goto(w, "send")
    /\ UNCHANGED <<cadenceVars, jobVars, task, sends, rearms, replays>>

\* ClaimDelivery: policy is rechecked under lock, then queued -> sending.
ClaimDelivery(w) ==
    LET k == task[w] IN
    /\ pc[w] = "claim"
    /\ \/ /\ Executable(k)
          /\ delivery[k] = "queued"
          /\ delivery' = [delivery EXCEPT ![k] = "sending"]
          /\ claims' = [claims EXCEPT ![k] = @ + 1]
          /\ Answer(w, "send", "error")
       \/ /\ ~Executable(k)
          /\ Goto(w, "unready")
          /\ UNCHANGED <<delivery, claims>>
       \/ /\ Executable(k)
          /\ delivery[k] # "queued"
          /\ Goto(w, "unclaimed")
          /\ UNCHANGED <<delivery, claims>>
    /\ UNCHANGED <<cadenceVars, jobVars, task, sends, rearms, replays>>

\* After the transaction was rolled back the row is read again to say why.
Classify(w) ==
    LET k == task[w] IN
    /\ pc[w] \in {"unready", "unclaimed"}
    /\ Goto(w, CASE delivery[k] \in {"sending", "uncertain"} -> "permanent"
                 [] delivery[k] \in {"sent", "suppressed"} -> "ok"
                 [] delivery[k] \in {"none", "queued"} ->
                      IF pc[w] = "unready" /\ Paused(k) THEN "deferred" ELSE "error")
    /\ UNCHANGED <<cadenceVars, delivery, jobVars, task, history>>

\* SendMessageAs: the provider is called, and says yes, no, or nothing.
CallProvider(w) ==
    /\ pc[w] = "send"
    /\ sends' = [sends EXCEPT ![task[w]] = @ + 1]
    /\ Answer(w, "finalize", "mark")
    /\ UNCHANGED <<cadenceVars, delivery, jobVars, task, claims, rearms, replays>>

AdvanceWhateverStatus(k) ==
    /\ step' = [step EXCEPT ![k[1]] = IF @ = k[2] /\ k[2] < Steps THEN @ + 1 ELSE @]
    /\ enrollment' = [enrollment EXCEPT ![k[1]] =
                         IF step[k[1]] = k[2] /\ k[2] = Steps THEN "finished" ELSE @]

\* finalizeDeliveryTx advances the enrollment the send still stands for, and
\* enqueues the next step under a key of its own (ON CONFLICT DO NOTHING).
Advance(k) ==
    /\ step' = [step EXCEPT ![k[1]] = IF Current(k) /\ k[2] < Steps THEN @ + 1 ELSE @]
    /\ enrollment' = [enrollment EXCEPT ![k[1]] =
                         IF Current(k) /\ k[2] = Steps THEN "finished" ELSE @]

Enqueued(k) ==
    {n \in {<<k[1], k[2] + 1>>} : Current(k) /\ k[2] < Steps /\ jobPhase[n] = "none"}

FinalizeSent(w) ==
    LET k == task[w] IN
    /\ pc[w] = "finalize"
    /\ \/ /\ delivery[k] = "sending"
          /\ delivery' = [delivery EXCEPT ![k] = "sent"]
          /\ Advance(k)
          /\ jobPhase' = [i \in Sends |-> IF i \in Enqueued(k) THEN "waiting"
                                                               ELSE jobPhase[i]]
          /\ Answer(w, "ok", "mark")
       \/ /\ delivery[k] # "sending"
          /\ Goto(w, "mark")
          /\ UNCHANGED <<delivery, enrollment, step, jobPhase>>
    /\ UNCHANGED <<seqActive, archived, suppressed, cutoff, jobTries, jobOwner,
                   skipped, task, history>>

\* The attempt has no known result; whether this UPDATE works is not looked at.
MarkAfterAttempt(w) ==
    /\ pc[w] = "mark"
    /\ MarkUncertain(task[w])
    /\ Goto(w, "permanent")
    /\ UNCHANGED <<cadenceVars, jobVars, task, history>>

\* Any statement can fail without effect, as all do past the job timeout; the
\* provider can be out of reach.
CallFails(w) ==
    /\ pc[w] \in Calls
    /\ Goto(w, CASE pc[w] \in {"send", "finalize"} -> "mark"
                 [] pc[w] = "mark" -> "permanent"
                 [] OTHER -> "error")
    /\ UNCHANGED <<cadenceVars, delivery, jobVars, task, history>>

-----------------------------------------------------------------------------
(* The queue: verdicts, crashes, exhausted jobs, operators.                *)

BackToIdle(w) ==
    /\ Goto(w, "idle")
    /\ task' = [task EXCEPT ![w] = NoSend]

\* The verdict of the worker that still owns the job settles it.
Settle(w) ==
    LET k == task[w] IN
    /\ pc[w] \in Verdicts
    /\ jobOwner[k] = w
    /\ Queue!Settle(w, k)
    /\ jobPhase'[k] =
          CASE pc[w] \in {"ok", "skipped"} -> "done"
            [] pc[w] = "permanent" -> "failed"
            [] pc[w] = "deferred" -> "waiting"
            [] pc[w] = "error" -> IF jobTries[k] < MaxAttempts THEN "waiting" ELSE "failed"
    /\ jobTries'[k] = IF pc[w] = "deferred" THEN jobTries[k] - 1 ELSE jobTries[k]
    /\ skipped' = [skipped EXCEPT ![k] = pc[w] = "skipped"]
    /\ BackToIdle(w)
    /\ UNCHANGED <<cadenceVars, delivery, history>>

\* Somebody else owns the job by now: the verdict is thrown away.
Disowned(w) ==
    /\ pc[w] \in Verdicts
    /\ jobOwner[task[w]] # w
    /\ BackToIdle(w)
    /\ UNCHANGED <<cadenceVars, delivery, jobVars, history>>

\* The process stops, or loses the queue, at any point of the handler.
Crash(w) ==
    /\ pc[w] # "idle"
    /\ \/ Queue!WalkAway(w, task[w])
       \/ jobOwner[task[w]] # w /\ UNCHANGED <<jobPhase, jobTries, jobOwner>>
    /\ BackToIdle(w)
    /\ UNCHANGED <<cadenceVars, delivery, skipped, history>>

GiveUpDisowned(k) ==
    /\ k \in Queue!Spent
    /\ jobOwner[k] # Nobody
    /\ Queue!GiveUp({k})
    /\ UNCHANGED <<cadenceVars, delivery, skipped, workerVars, history>>

GiveUp(k) ==
    /\ k \in Queue!Spent
    /\ Queue!GiveUp({k})
    /\ UNCHANGED <<cadenceVars, delivery, skipped, workerVars, history>>

\* The generic replay of a dead job knows nothing of deliveries.
Replay(k) ==
    /\ jobPhase[k] = "failed"
    /\ rearms[k] + replays[k] < MaxRearms
    /\ Queue!Submit(k)
    /\ replays' = [replays EXCEPT ![k] = @ + 1]
    /\ UNCHANGED <<cadenceVars, delivery, skipped, workerVars, claims, sends, rearms>>

\* ResolveUncertainDeliveryJob, "retry".
ResolveRetry(k) ==
    /\ jobPhase[k] = "failed"
    /\ delivery[k] = "uncertain"
    /\ rearms[k] + replays[k] < MaxRearms
    /\ delivery' = [delivery EXCEPT ![k] = "queued"]
    /\ Queue!Submit(k)
    /\ rearms' = [rearms EXCEPT ![k] = @ + 1]
    /\ UNCHANGED <<cadenceVars, skipped, workerVars, claims, sends, replays>>

ConfirmDeliveryOnly(k) ==
    /\ jobPhase[k] = "failed"
    /\ delivery[k] = "uncertain"
    /\ delivery' = [delivery EXCEPT ![k] = "sent"]
    /\ Queue!Vouch(k)
    /\ UNCHANGED <<cadenceVars, skipped, workerVars, history>>

\* ResolveUncertainDeliveryJob, "confirmed_sent".
ResolveConfirmed(k) ==
    /\ jobPhase[k] = "failed"
    /\ delivery[k] = "uncertain"
    /\ delivery' = [delivery EXCEPT ![k] = "sent"]
    /\ Advance(k)
    /\ jobPhase' = [i \in Sends |-> IF i = k THEN "done"
                                    ELSE IF i \in Enqueued(k) THEN "waiting"
                                    ELSE jobPhase[i]]
    /\ UNCHANGED <<seqActive, archived, suppressed, cutoff, jobTries, jobOwner,
                   skipped, workerVars, history>>

HandlerStep(w) ==
    \/ Load(w)
    \/ LoadWhy(w)
    \/ Prepare(w)
    \/ Quarantine(w)
    \/ CheckAllowed(w)
    \/ CheckRefused(w)
    \/ FinalizeSuppressed(w)
    \/ ClaimDelivery(w)
    \/ Classify(w)
    \/ CallProvider(w)
    \/ FinalizeSent(w)
    \/ MarkAfterAttempt(w)
    \/ CallFails(w)
    \/ Settle(w)
    \/ Disowned(w)

Next ==
    \/ Pause
    \/ Approve
    \/ \E e \in Enrollments :
          EnrollContact(e) \/ CancelEnrollment(e) \/ Reply(e) \/ Feedback(e)
    \/ \E c \in Contacts : Unsubscribe(c) \/ ToggleArchived(c)
    \/ \E w \in Workers :
          (\E k \in Sends : Take(w, k)) \/ HandlerStep(w) \/ Crash(w)
    \/ \E k \in Sends :
          GiveUp(k) \/ Replay(k) \/ ResolveRetry(k) \/ ResolveConfirmed(k)

Spec == Init /\ [][Next]_vars

-----------------------------------------------------------------------------
(* Properties.                                                             *)

\* The cadence is walked step by step: whatever order stale workers, retries
\* and operators act in, every step behind an enrollment was sent, and no step
\* ahead of it has a job or a delivery row (so ON CONFLICT never bites).
StepsInOrder ==
    \A e \in Enrollments, s \in 1..Steps :
        /\ s < step[e] => delivery[<<e, s>>] = "sent"
        /\ s > step[e] => delivery[<<e, s>>] = "none" /\ jobPhase[<<e, s>>] = "none"

\* A finalized delivery and its enrollment moved together: no enrollment still
\* stands at a step whose message is already settled.
MovedOnWhenSettled ==
    \A k \in Sends : delivery[k] \in {"sent", "suppressed"} => ~Current(k)

\* The step an enrollment waits at has a job that will run, or a dead one an
\* administrator can see; the one way out is a job completed as "skipped".
OnlySkipsStrand ==
    \A k \in Sends :
        Current(k) => \/ jobPhase[k] \in {"waiting", "taken", "failed"}
                      \/ jobPhase[k] = "done" /\ skipped[k]

\* A job that succeeded with anything but "skipped" tells the truth about the
\* message: provider-accepted, confirmed by an administrator, or suppressed.
SucceededMeansSettled ==
    \A k \in Sends :
        jobPhase[k] = "done" /\ ~skipped[k] => delivery[k] \in {"sent", "suppressed"}

\* The three records of a send - delivery, enrollment, job - never disagree
\* about what is done and what is left to do.
SendsAccountedFor == MovedOnWhenSettled /\ OnlySkipsStrand /\ SucceededMeansSettled

\* A recipient who unsubscribes, bounces or complains may still get the step
\* that was being worked on, and never one of the steps after it.
NothingAfterSuppression ==
    \A e \in Enrollments, s \in 1..Steps :
        sends[<<e, s>>] > 0 => s <= cutoff[e]

\* An enrollment that was cancelled, replied to, suppressed or finished keeps
\* that ending and its position, even if a send claimed earlier is finalized
\* afterwards.
EndedStaysEnded ==
    [][\A e \in Enrollments :
          enrollment[e] \in Ended =>
              enrollment'[e] = enrollment[e] /\ step'[e] = step[e]]_vars

Permits == INSTANCE SendPermits WITH
    running <- seqActive,
    live <- [e \in Enrollments |-> enrollment[e] = "active"],
    position <- step,
    allowed <- [k \in Sends |-> rearms[k] + 1],
    granted <- claims,
    used <- sends

\* Every provider call was permitted: by a running sequence and an active
\* enrollment at that step, once, and once more per administrator's retry.
ImplementsPermits == Permits!Spec

-----------------------------------------------------------------------------
(* Liveness.                                                               *)

\* Workers poll for ever and every handler call returns, by the job timeout at
\* the latest; lapsed leases are reaped by any claim.  Send budgets are fixed
\* windows that end, so a send that keeps asking is let through at some point.
\* Members, recipients and administrators owe nothing.
Fairness ==
    /\ WF_vars(\E w \in Workers, k \in Sends : Take(w, k))
    /\ \A w \in Workers : WF_vars(HandlerStep(w)) /\ SF_vars(CheckAllowed(w))
    /\ \A k \in Sends : WF_vars(GiveUp(k))

FairSpec == Spec /\ Fairness

\* While the sequence runs, no enrollment waits at a step for ever without a
\* visible reason: it moves on or ends, its job is dead, or it was skipped.
NoSilentStall ==
    <>[]seqActive =>
        \A k \in Sends :
            Current(k) ~> ~Current(k) \/ jobPhase[k] = "failed" \/ skipped[k]

-----------------------------------------------------------------------------
(* What the documentation says and the code does not do.                   *)

\* "Durable jobs remain deferred until an admin explicitly approves the
\* unchanged revision again" (emailsequences/service.go:380): a send held back
\* by a pause is still there when the sequence is approved again.
DeferredUntilApproved ==
    \A k \in Sends : Current(k) => jobPhase[k] # "done"
=============================================================================
