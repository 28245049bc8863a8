-------------------------- MODULE Workspace_proofs --------------------------
(***************************************************************************)
(* The types of a workspace: every part of MCWorkspace keeps the types its *)
(* module states.  Most follow from the invariants of WorkspaceAccess_     *)
(* proofs and WorkspaceRecords_proofs; this module adds what those did not *)
(* need.  Each part has a section, the last one puts the parts together.   *)
(***************************************************************************)
EXTENDS WorkspaceAccess_proofs, WorkspaceRecords_proofs

-----------------------------------------------------------------------------
(* Contact imports: ImportBatches.                                         *)

USE DEF batch, source, rows, processed, success, errors, rolledBack, rollbackSkipped, record,
        actorActive, batchLock, requestAt, todo, jobPhase, jobTries, jobOwner, replays

\* The types that ImportsTyped leaves out.
ImportsRest ==
    /\ source \in {"kept", "due", "gone"}
    /\ actorActive \in BOOLEAN
    /\ jobPhase \in {"none", "waiting", "taken", "done", "failed"}
    /\ jobTries \in 0..ImportAttempts
    /\ jobOwner \in Workers \cup {Nobody}
    /\ replays \in Nat

\* Together they are the types of the module.
LEMMA ImportsTypes == ASSUME ImportsTyped, ImportsRest PROVE I!TypeOK
BY DEF ImportsTyped, ImportsRest, I!TypeOK, RowStates, ImportPlaces, I!Verdicts

\* The initial state has them.
LEMMA ImportsRestInit == ASSUME ImportAttempts \in Nat, I!Init PROVE ImportsRest
BY DEF I!Init, ImportsRest

\* A step of the job.
LEMMA ImportsJobRest ==
    ASSUME ImportAttempts \in Nat, ImportsRest, NEW p \in I!Requests,
           \/ p \in Workers /\ (I!Take(p) \/ I!Settle(p))
           \/ I!Crash(p)
    PROVE  ImportsRest'
<1>1. CASE p \in Workers /\ I!Take(p)
  BY <1>1 DEF I!Take, ImportsRest, I!batchVars, I!rowVars
<1>2. CASE p \in Workers /\ I!Settle(p)
  BY <1>2 DEF I!Settle, ImportsRest, I!batchVars, I!rowVars
<1>3. CASE I!Crash(p)
  BY <1>3 DEF I!Crash, ImportsRest, I!batchVars, I!rowVars
<1> QED
  BY <1>1, <1>2, <1>3

\* A step of a request at the batch and its rows.
LEMMA ImportsRequestRest ==
    ASSUME ImportsRest, NEW p \in I!Requests,
           \/ I!Acquire(p) \/ I!CallFails(p) \/ I!Load(p) \/ I!MarkProcessing(p)
           \/ I!ReadRows(p) \/ I!Checkpoint(p) \/ I!CompleteBatch(p) \/ I!ActorGone(p)
           \/ I!RecordFailure(p) \/ I!Begin(p) \/ I!ListImported(p) \/ I!RollbackRow(p)
           \/ I!CompleteRollback(p)
    PROVE  ImportsRest'
<1>1. (source' = source \/ source' = "gone") /\ UNCHANGED <<actorActive, I!jobVars>>
  BY DEF I!Acquire, I!CallFails, I!Load, I!MarkProcessing, I!ReadRows, I!Checkpoint,
         I!CompleteBatch, I!ActorGone, I!RecordFailure, I!Begin, I!ListImported, I!RollbackRow,
         I!CompleteRollback, I!batchVars
<1> QED
  BY <1>1 DEF ImportsRest, I!jobVars

\* A step of the queue, the submitter, a reader of the records, or the cleanup.
LEMMA ImportsOutsideRest ==
    ASSUME ImportAttempts \in Nat, ImportsRest,
           \/ I!GiveUp \/ I!ReplayDead \/ I!Submit \/ I!Deactivate \/ I!Reactivate \/ I!SourceDeadline \/ I!ExpireSource
           \/ \E r \in I!Rows : I!TouchRecord(r)
           \/ UNCHANGED I!vars
    PROVE  ImportsRest'
<1>1. CASE I!GiveUp \/ I!ReplayDead
  BY <1>1 DEF I!GiveUp, I!ReplayDead, I!batchVars, I!rowVars, ImportsRest
<1>2. CASE I!Submit \/ I!Deactivate
  BY <1>2 DEF I!Submit, I!Deactivate, I!rowVars, I!callVars, ImportsRest
<1>3. CASE I!Reactivate \/ I!SourceDeadline \/ I!ExpireSource
  BY <1>3 DEF I!Reactivate, I!SourceDeadline, I!ExpireSource, I!batchVars, I!rowVars, I!jobVars,
              ImportsRest
<1>4. CASE (\E r \in I!Rows : I!TouchRecord(r)) \/ UNCHANGED I!vars
  BY <1>4 DEF I!TouchRecord, I!vars, I!batchVars, I!jobVars, ImportsRest
<1> QED
  BY <1>1, <1>2, <1>3, <1>4

\* Every step keeps them.
LEMMA ImportsRestStep ==
    ASSUME ImportAttempts \in Nat, ImportsRest, [I!Next]_I!vars
    PROVE  ImportsRest'
<1>1. ASSUME NEW p \in I!Requests,
             (p \in Workers /\ I!Execution(p)) \/ (p \in Rollbacks /\ I!Rollback(p))
               \/ I!Acquire(p) \/ I!CallFails(p) \/ I!Crash(p)
      PROVE  ImportsRest'
  BY <1>1, ImportsJobRest, ImportsRequestRest DEF I!Execution, I!Rollback
<1> QED
  BY <1>1, ImportsOutsideRest DEF I!Next, I!Requests

-----------------------------------------------------------------------------
(* Scheduled reports: ReportSchedules.                                     *)

USE DEF scheduleRevision, scheduleActive, recipients, scheduleDue, isMember, reportRun,
        runRevision, artifact, delivery, recovery, reportPhase, reportTries, reportOwner,
        workerAt, workerJob, lastTry, target, handedOver, retried

\* What the types take of the constants besides ReportsAssumed.
ReportTypesAssumed ==
    /\ ReportsAssumed
    /\ ReportAttempts \in Nat
    /\ ScheduleRevisions \in Nat \ {0}
    /\ Nobody \notin Workers

\* The types of the schedule, and of what a run captured of it.
ScheduleTyped ==
    /\ scheduleRevision \in 1..ScheduleRevisions
    /\ scheduleActive \in BOOLEAN
    /\ scheduleDue \in BOOLEAN
    /\ recipients \subseteq Recipients
    /\ isMember \in [Recipients -> BOOLEAN]
    /\ runRevision \in [Runs -> 0..ScheduleRevisions]
    /\ artifact \in [Runs -> {"none", "kept", "past"}]
    /\ lastTry \in [Workers -> BOOLEAN]

\* A job has an owner only while it is taken, and then one try of it was used.
OwnersTried ==
    \A j \in R!Jobs :
        reportOwner[j] # Nobody => reportPhase[j] = "taken" /\ reportTries[j] > 0

\* The tries of the jobs.
TriesTyped == reportTries \in [R!Jobs -> 0..ReportAttempts] /\ OwnersTried

\* The workers that have a mail at the provider, of whom each was counted.
MailsOut(r, u) == {w \in Workers : workerAt[w] = "send" /\ R!RunOf(w) = r /\ target[w] = u}
OutCounted == \A r \in Runs, u \in Recipients : Cardinality(MailsOut(r, u)) <= handedOver[r][u]

\* Every retry of a delivery is one of its run.
RetriesCounted == \A r \in Runs, u \in Recipients : retried[r][u] <= recovery[r]

\* The types that ReportsTyped leaves out, and why they hold.
ReportsRest == ScheduleTyped /\ TriesTyped /\ OutCounted /\ RetriesCounted

\* Nothing was due yet.
LEMMA ReportsRestStart == ASSUME ReportTypesAssumed, R!Init PROVE ReportsRest
<1>1. ScheduleTyped
  <2>1. scheduleRevision \in 1..ScheduleRevisions /\ runRevision \in [Runs -> 0..ScheduleRevisions]
    BY DEF ReportTypesAssumed, R!Init
  <2>2. scheduleActive \in BOOLEAN /\ scheduleDue \in BOOLEAN
    BY Zenon DEF R!Init
  <2>3. isMember \in [Recipients -> BOOLEAN] /\ lastTry \in [Workers -> BOOLEAN]
    BY Zenon DEF R!Init
  <2>4. recipients \subseteq Recipients /\ artifact \in [Runs -> {"none", "kept", "past"}]
    BY DEF R!Init
  <2> QED
    BY <2>1, <2>2, <2>3, <2>4 DEF ScheduleTyped
<1>3. TriesTyped /\ RetriesCounted
  BY DEF ReportTypesAssumed, R!Init, TriesTyped, OwnersTried, RetriesCounted
<1>2. ASSUME NEW r \in Runs, NEW u \in Recipients
      PROVE  Cardinality(MailsOut(r, u)) <= handedOver[r][u]
  <2>1. MailsOut(r, u) = {} /\ handedOver[r][u] = 0
    BY DEF R!Init, MailsOut
  <2> QED
    BY <2>1, FS_EmptySet
<1> QED
  BY <1>1, <1>2, <1>3 DEF ReportsRest, OutCounted

\* They hold with those ReportsTyped has, so they are the types of the module.
LEMMA ReportsTypes == ASSUME ReportTypesAssumed, ReportsTyped, ReportsRest PROVE R!TypeOK
<1>1. ASSUME NEW r \in Runs, NEW u \in Recipients
      PROVE  handedOver[r][u] \in Nat /\ retried[r][u] \in 0..Retries
  <2>1. MailsOut(r, u) \subseteq Workers
    BY DEF MailsOut
  <2>2. Cardinality(MailsOut(r, u)) \in Nat
    BY <2>1, FS_Subset, FS_CardinalityType DEF ReportTypesAssumed, ReportsAssumed
  <2>3. handedOver[r][u] \in Int /\ retried[r][u] \in Nat /\ recovery[r] \in 0..Retries
    BY DEF ReportsTyped
  <2>4. Retries \in Nat
    BY DEF ReportTypesAssumed, ReportsAssumed
  <2>5. Cardinality(MailsOut(r, u)) <= handedOver[r][u] /\ retried[r][u] <= recovery[r]
    BY DEF ReportsRest, OutCounted, RetriesCounted
  <2> QED
    BY <2>2, <2>3, <2>4, <2>5
<1>2. /\ handedOver \in [Runs -> [Recipients -> Nat]]
      /\ retried \in [Runs -> [Recipients -> 0..Retries]]
  BY <1>1 DEF ReportsTyped
<1> QED
  BY <1>2 DEF ReportsTyped, ReportsRest, ScheduleTyped, TriesTyped, R!TypeOK, RunStates, JobStates,
              WorkerPlaces

\* The schedule is revised within its bound, and a run captures its revision.
LEMMA ScheduleStays ==
    ASSUME ReportTypesAssumed, ScheduleTyped, ReportsTyped, [R!Next]_R!vars PROVE ScheduleTyped'
<1>1. CASE Revises
  <2>1. /\ scheduleRevision < ScheduleRevisions /\ scheduleRevision' = scheduleRevision + 1
        /\ scheduleActive' \in BOOLEAN
        /\ scheduleDue' \in BOOLEAN
        /\ recipients' \subseteq Recipients
        /\ UNCHANGED <<isMember, runRevision, artifact, lastTry>>
    BY <1>1 DEF Revises, R!UpsertSchedule, R!ReconcileDefinition, R!workerVars, ScheduleTyped
  <2> QED
    BY <2>1 DEF ScheduleTyped, ReportTypesAssumed
<1>2. CASE OffTheRun
  BY <1>2 DEF OffTheRun, R!ChangeMembership, R!BecomeDue, R!ArtifactTTLPasses,
              R!CleanupExpiredDeliveryArtifacts, R!scheduleVars, R!runVars, R!workerVars, ScheduleTyped
<1>3. ASSUME NEW r \in Runs, R!EnqueueDueDeliveries(r) PROVE ScheduleTyped'
  <2>1. /\ runRevision' = [runRevision EXCEPT ![r] = scheduleRevision]
        /\ scheduleDue' = FALSE
        /\ UNCHANGED <<scheduleRevision, scheduleActive, recipients, isMember, artifact, lastTry>>
    BY <1>3 DEF R!EnqueueDueDeliveries, R!workerVars
  <2>2. scheduleRevision \in 0..ScheduleRevisions
    BY DEF ScheduleTyped, ReportTypesAssumed
  <2>3. runRevision' \in [Runs -> 0..ScheduleRevisions]
    BY <2>1, <2>2 DEF ScheduleTyped
  <2> QED
    BY <2>1, <2>3 DEF ScheduleTyped
<1>4. ASSUME NEW r \in Runs, NEW u \in Recipients, R!Stall(r, u) \/ R!ConfirmSent(r, u) \/ R!Retry(r, u)
      PROVE  ScheduleTyped'
  BY <1>4 DEF R!Stall, R!ConfirmSent, R!Retry, R!scheduleVars, R!runVars, R!workerVars, ScheduleTyped
<1>5. ASSUME NEW w \in Workers, NEW j \in R!Jobs, R!Take(w, j) PROVE ScheduleTyped'
  <2>1. lastTry' = [lastTry EXCEPT ![w] = reportTries[j] + 1 = ReportAttempts]
        /\ UNCHANGED <<R!scheduleVars, isMember, runRevision, artifact>>
    BY <1>5, Zenon DEF R!Take, R!runVars
  <2>2. lastTry' \in [Workers -> BOOLEAN]
    BY <2>1, Zenon DEF ScheduleTyped
  <2> QED
    BY <2>1, <2>2 DEF ScheduleTyped, R!scheduleVars
<1>6. ASSUME NEW w \in Workers, LooksAtRun(w) PROVE ScheduleTyped'
  <2>1. UNCHANGED <<R!scheduleVars, isMember, runRevision, lastTry>>
    BY <1>6 DEF LooksAtRun, R!PrepareClosed, R!Prepare, R!ClaimClosed, R!FinalizeDeliveryRun, R!runVars
  <2>2. artifact' = artifact \/ artifact' = [artifact EXCEPT ![R!RunOf(w)] = IF @ = "none" THEN "kept" ELSE @]
    BY <1>6 DEF LooksAtRun, R!PrepareClosed, R!Prepare, R!ClaimClosed, R!FinalizeDeliveryRun
  <2> QED
    BY <2>1, <2>2 DEF ScheduleTyped, R!scheduleVars
<1>7. ASSUME NEW w \in Workers, OnlyMoves(w) \/ R!Send(w) \/ KeepsAnswer(w) \/ R!Lapse(w)
                 \/ \E u \in Recipients : R!Claim(w, u)
      PROVE  ScheduleTyped'
  <2>1. UNCHANGED <<R!scheduleVars, isMember, runRevision, artifact, lastTry>>
    BY <1>7 DEF OnlyMoves, R!FindNonePending, R!Defer, R!StatementFails, R!Send, KeepsAnswer,
                R!FinalizeRecipientAccepted, R!FinalizeRecipientUncertain,
                R!FinalizeRecipientRejected, R!Lapse, R!Claim, R!runVars, R!workerVars
  <2> QED
    BY <2>1 DEF ScheduleTyped, R!scheduleVars
<1>8. ASSUME NEW w \in Workers, R!Settle(w) \/ R!ClaimLost(w) \/ R!Stop(w) PROVE ScheduleTyped'
  BY <1>8 DEF R!Settle, R!ClaimLost, R!Stop, R!BackToIdle, R!scheduleVars, R!runVars, ScheduleTyped
<1>9. CASE (\E j \in R!Jobs : R!GiveUp(j)) \/ UNCHANGED R!vars
  BY <1>9 DEF R!GiveUp, R!vars, R!scheduleVars, R!runVars, R!workerVars, ScheduleTyped
<1> QED
  BY <1>1, <1>2, <1>3, <1>4, <1>5, <1>6, <1>7, <1>8, <1>9
  DEF R!Next, Revises, OffTheRun, LooksAtRun, OnlyMoves, KeepsAnswer

\* A submitted job starts with all its tries, and has no owner.
LEMMA TriesSubmitted ==
    ASSUME ReportTypesAssumed, TriesTyped, ReportsTyped, NEW j \in R!Jobs, R!Queue!Submit(j)
    PROVE  TriesTyped'
BY DEF R!Queue!Submit, TriesTyped, OwnersTried, ReportsTyped, ReportTypesAssumed

\* Taking a job uses one, which its new owner has then used.
LEMMA TriesTaken ==
    ASSUME ReportTypesAssumed, TriesTyped, ReportsTyped, NEW w \in Workers, NEW j \in R!Jobs, R!Take(w, j)
    PROVE  TriesTyped'
<1>1. /\ reportPhase' = [i \in R!Jobs |-> IF i = j THEN "taken" ELSE IF i \in {} THEN "failed" ELSE reportPhase[i]]
      /\ reportOwner' = [i \in R!Jobs |-> IF i = j THEN w ELSE IF i \in {} THEN Nobody ELSE reportOwner[i]]
      /\ reportTries' = [reportTries EXCEPT ![j] = @ + 1]
      /\ reportTries[j] < ReportAttempts
  BY DEF R!Take, R!Queue!Take
<1>2. reportTries[j] \in 0..ReportAttempts /\ ReportAttempts \in Nat
  BY DEF TriesTyped, ReportTypesAssumed
<1>3. reportTries[j] + 1 \in 0..ReportAttempts /\ reportTries[j] + 1 > 0
  BY <1>1, <1>2
<1>4. /\ reportTries' \in [R!Jobs -> 0..ReportAttempts] /\ reportTries'[j] > 0
      /\ \A i \in R!Jobs : i # j => reportTries'[i] = reportTries[i]
  BY <1>1, <1>3 DEF TriesTyped
<1>5. OwnersTried'
  BY <1>1, <1>4 DEF TriesTyped, OwnersTried
<1> QED
  BY <1>4, <1>5 DEF TriesTyped

\* Its owner settles a job: a deferral gives the try back, which was used.
LEMMA TriesSettled ==
    ASSUME ReportTypesAssumed, TriesTyped, ReportsTyped, NEW w \in Workers, R!Settle(w)
    PROVE  TriesTyped'
<1>0. workerAt[w] # "idle"
  BY DEF R!Settle, R!Verdicts
<1>1. PICK j \in R!Jobs : j = workerJob[w]
  BY <1>0 DEF ReportsTyped
<1>2. /\ reportOwner[j] = w /\ reportOwner' = [reportOwner EXCEPT ![j] = Nobody]
      /\ reportTries' = reportTries \/ reportTries' = [reportTries EXCEPT ![j] = @ - 1]
      /\ \E p \in {"done", "failed", "waiting"} : reportPhase' = [reportPhase EXCEPT ![j] = p]
  BY <1>1 DEF R!Settle, R!Queue!Settle
<1>3. reportTries[j] > 0 /\ reportTries[j] \in 0..ReportAttempts /\ ReportAttempts \in Nat
  BY <1>2 DEF TriesTyped, OwnersTried, ReportTypesAssumed
<1>4. reportTries[j] - 1 \in 0..ReportAttempts
  BY <1>3
<1>5. /\ reportTries' \in [R!Jobs -> 0..ReportAttempts]
      /\ \A i \in R!Jobs : i # j => reportTries'[i] = reportTries[i]
  BY <1>2, <1>4 DEF TriesTyped
<1>6. OwnersTried'
  BY <1>2, <1>5 DEF TriesTyped, OwnersTried, ReportsTyped
<1> QED
  BY <1>5, <1>6 DEF TriesTyped

\* A job without an owner has nothing to account for.
LEMMA TriesReleased ==
    ASSUME TriesTyped, ReportsTyped, UNCHANGED reportTries,
           \A i \in R!Jobs :
                \/ reportOwner'[i] = Nobody
                \/ reportOwner'[i] = reportOwner[i] /\ reportPhase'[i] = reportPhase[i]
    PROVE  TriesTyped'
BY DEF TriesTyped, OwnersTried

\* Every step keeps the tries within those a job has.
LEMMA TriesStay ==
    ASSUME ReportTypesAssumed, TriesTyped, ReportsTyped, [R!Next]_R!vars PROVE TriesTyped'
<1>1. ASSUME UNCHANGED <<reportPhase, reportTries, reportOwner>> PROVE TriesTyped'
  BY <1>1, TriesReleased
<1>2. ASSUME NEW r \in Runs, R!EnqueueDueDeliveries(r) PROVE TriesTyped'
  <2>1. <<r, 0>> \in R!Jobs /\ R!Queue!Submit(<<r, 0>>)
    BY <1>2 DEF R!EnqueueDueDeliveries, R!Jobs, ReportTypesAssumed, ReportsAssumed
  <2> QED
    BY <2>1, TriesSubmitted
<1>3. ASSUME NEW r \in Runs, NEW u \in Recipients, R!Retry(r, u) PROVE TriesTyped'
  <2>1. <<r, recovery[r] + 1>> \in R!Jobs
    BY <1>3, ReportRetried DEF ReportTypesAssumed
  <2>2. R!Queue!Submit(<<r, recovery[r] + 1>>)
    BY <1>3 DEF R!Retry
  <2> QED
    BY <2>1, <2>2, TriesSubmitted
<1>4. ASSUME NEW w \in Workers, R!ClaimLost(w) \/ R!Stop(w) \/ R!Lapse(w) PROVE TriesTyped'
  <2>1. UNCHANGED <<reportPhase, reportTries>>
    BY <1>4 DEF R!ClaimLost, R!Stop, R!Lapse, R!Queue!WalkAway, R!jobVars
  <2>2. \/ reportOwner' = reportOwner
        \/ reportOwner' = [reportOwner EXCEPT ![workerJob[w]] = IF @ = w THEN Nobody ELSE @]
        \/ reportOwner' = [reportOwner EXCEPT ![workerJob[w]] = Nobody]
    BY <1>4 DEF R!ClaimLost, R!Stop, R!Lapse, R!Queue!WalkAway, R!jobVars
  <2>3. \A i \in R!Jobs : reportOwner'[i] = Nobody \/ reportOwner'[i] = reportOwner[i]
    BY <2>2 DEF ReportsTyped
  <2> QED
    BY <2>1, <2>3, TriesReleased
<1>5. ASSUME NEW j \in R!Jobs, R!GiveUp(j) PROVE TriesTyped'
  <2>1. /\ reportPhase' = [i \in R!Jobs |-> IF i \in {j} THEN "failed" ELSE reportPhase[i]]
        /\ reportOwner' = [i \in R!Jobs |-> IF i \in {j} THEN Nobody ELSE reportOwner[i]]
        /\ reportTries' = reportTries
    BY <1>5 DEF R!GiveUp, R!Queue!GiveUp
  <2>2. \A i \in R!Jobs : \/ reportOwner'[i] = Nobody
                          \/ reportOwner'[i] = reportOwner[i] /\ reportPhase'[i] = reportPhase[i]
    BY <2>1
  <2> QED
    BY <2>1, <2>2, TriesReleased
<1>6. CASE Revises \/ OffTheRun \/ UNCHANGED R!vars
  <2>1. UNCHANGED R!jobVars
    BY <1>6 DEF Revises, R!UpsertSchedule, R!ReconcileDefinition, OffTheRun, R!ChangeMembership,
                R!BecomeDue, R!ArtifactTTLPasses, R!CleanupExpiredDeliveryArtifacts, R!vars, R!jobVars
  <2> QED
    BY <1>1, <2>1 DEF R!jobVars
<1>7. ASSUME NEW r \in Runs, NEW u \in Recipients, R!Stall(r, u) \/ R!ConfirmSent(r, u) PROVE TriesTyped'
  BY <1>1, <1>7 DEF R!Stall, R!ConfirmSent, R!jobVars
<1>8. ASSUME NEW w \in Workers, LooksAtRun(w) \/ OnlyMoves(w) \/ R!Send(w) \/ KeepsAnswer(w)
                 \/ \E u \in Recipients : R!Claim(w, u)
      PROVE  TriesTyped'
  <2>1. UNCHANGED R!jobVars
    BY <1>8 DEF LooksAtRun, R!PrepareClosed, R!Prepare, R!ClaimClosed, R!FinalizeDeliveryRun, OnlyMoves,
                R!FindNonePending, R!Defer, R!StatementFails, R!Send, KeepsAnswer,
                R!FinalizeRecipientAccepted, R!FinalizeRecipientUncertain,
                R!FinalizeRecipientRejected, R!Claim
  <2> QED
    BY <1>1, <2>1 DEF R!jobVars
<1>9. ASSUME NEW w \in Workers, R!Settle(w) PROVE TriesTyped'
  BY <1>9, TriesSettled
<1>10. ASSUME NEW w \in Workers, NEW j \in R!Jobs, R!Take(w, j) PROVE TriesTyped'
  BY <1>10, TriesTaken
<1> QED
  BY <1>2, <1>3, <1>4, <1>5, <1>6, <1>7, <1>8, <1>9, <1>10
  DEF R!Next, Revises, OffTheRun, LooksAtRun, OnlyMoves, KeepsAnswer

\* The mails at the provider can be counted.
LEMMA MailsOutFinite ==
    ASSUME ReportTypesAssumed, NEW r, NEW u
    PROVE  IsFiniteSet(MailsOut(r, u)) /\ Cardinality(MailsOut(r, u)) \in Nat
<1>1. MailsOut(r, u) \subseteq Workers
  BY DEF MailsOut
<1> QED
  BY <1>1, FS_Subset, FS_CardinalityType DEF ReportTypesAssumed, ReportsAssumed

\* While no worker begins to send and nothing is taken back, each is counted.
LEMMA OutStays ==
    ASSUME ReportTypesAssumed, ReportsTyped, OutCounted, UNCHANGED handedOver,
           \A r \in Runs, u \in Recipients : MailsOut(r, u)' \subseteq MailsOut(r, u)
    PROVE  OutCounted'
<1> SUFFICES ASSUME NEW r \in Runs, NEW u \in Recipients
             PROVE  Cardinality(MailsOut(r, u)') <= handedOver'[r][u]
  BY DEF OutCounted
<1>1. MailsOut(r, u)' \subseteq MailsOut(r, u) /\ IsFiniteSet(MailsOut(r, u))
  BY MailsOutFinite
<1>2. /\ Cardinality(MailsOut(r, u)') <= Cardinality(MailsOut(r, u))
      /\ Cardinality(MailsOut(r, u)') \in Nat /\ Cardinality(MailsOut(r, u)) \in Nat
  BY <1>1, FS_Subset, FS_CardinalityType
<1>3. /\ handedOver'[r][u] = handedOver[r][u] /\ handedOver[r][u] \in Int
      /\ Cardinality(MailsOut(r, u)) <= handedOver[r][u]
  BY DEF OutCounted, ReportsTyped
<1> QED
  BY <1>2, <1>3

\* A worker that goes elsewhere than to send adds no mail.
LEMMA NoneGoesOut ==
    ASSUME NEW w \in Workers, workerAt'[w] # "send", OthersWork(w), NEW r, NEW u
    PROVE  MailsOut(r, u)' \subseteq MailsOut(r, u) \ {w}
<1>1. \A x \in Workers \ {w} : workerAt'[x] = workerAt[x] /\ workerJob'[x] = workerJob[x] /\ target'[x] = target[x]
  BY DEF OthersWork
<1> QED
  BY <1>1 DEF MailsOut, R!RunOf

\* A claim is counted when its worker goes to send it.
LEMMA ClaimCounted ==
    ASSUME ReportTypesAssumed, ReportsTyped, OutCounted,
           NEW w \in Workers, NEW u \in Recipients, R!Claim(w, u)
    PROVE  OutCounted'
<1>0. /\ R!RunOf(w) \in Runs /\ OthersWork(w) /\ workerAt[w] = "claim"
      /\ handedOver' = handedOver \/ handedOver' = [handedOver EXCEPT ![R!RunOf(w)][u] = @ + 1]
      /\ workerJob' = workerJob
  BY ReportClaimed
<1>1. PICK r \in Runs : r = R!RunOf(w)
  BY <1>0
<1>2. workerAt'[w] = "send" =>
          handedOver' = [handedOver EXCEPT ![r][u] = @ + 1] /\ target' = [target EXCEPT ![w] = u]
  BY <1>0, <1>1 DEF R!Claim, R!Goto, ReportsTyped
<1>3. handedOver \in [Runs -> [Recipients -> Int]]
  BY DEF ReportsTyped
<1>4. \A q \in Runs, v \in Recipients :
          handedOver[q][v] \in Int /\ handedOver'[q][v] \in {handedOver[q][v], handedOver[q][v] + 1}
  BY <1>0, <1>1, <1>3
<1> SUFFICES ASSUME NEW q \in Runs, NEW v \in Recipients
             PROVE  Cardinality(MailsOut(q, v)') <= handedOver'[q][v]
  BY DEF OutCounted
<1>5. /\ IsFiniteSet(MailsOut(q, v)) /\ Cardinality(MailsOut(q, v)) \in Nat
      /\ Cardinality(MailsOut(q, v)) <= handedOver[q][v]
  BY MailsOutFinite DEF OutCounted
<1>6. CASE MailsOut(q, v)' \subseteq MailsOut(q, v)
  <2>1. Cardinality(MailsOut(q, v)') <= Cardinality(MailsOut(q, v)) /\ Cardinality(MailsOut(q, v)') \in Nat
    BY <1>5, <1>6, FS_Subset, FS_CardinalityType
  <2> QED
    BY <1>4, <1>5, <2>1
<1>7. CASE ~(MailsOut(q, v)' \subseteq MailsOut(q, v))
  <2>1. workerAt'[w] = "send"
    BY <1>0, <1>7, NoneGoesOut
  <2>2. target' = [target EXCEPT ![w] = u] /\ handedOver' = [handedOver EXCEPT ![r][u] = @ + 1]
    BY <1>2, <2>1
  <2>3. MailsOut(q, v)' \subseteq MailsOut(q, v) \cup {w}
    BY <1>0 DEF MailsOut, OthersWork, R!RunOf
  <2>4. q = r /\ v = u
    <3>1. w \in MailsOut(q, v)'
      BY <1>7, <2>3
    <3>2. target'[w] = v /\ workerJob'[w][1] = q
      BY <3>1 DEF MailsOut, R!RunOf
    <3>3. target'[w] = u
      BY <2>2 DEF ReportsTyped
    <3> QED
      BY <1>0, <1>1, <3>2, <3>3 DEF R!RunOf
  <2>5. handedOver'[q][v] = handedOver[q][v] + 1
    BY <1>3, <2>2, <2>4
  <2>6. w \notin MailsOut(q, v)
    BY <1>0 DEF MailsOut
  <2>7. /\ IsFiniteSet(MailsOut(q, v) \cup {w})
        /\ Cardinality(MailsOut(q, v) \cup {w}) = Cardinality(MailsOut(q, v)) + 1
    BY <1>5, <2>6, FS_AddElement
  <2>8. Cardinality(MailsOut(q, v)') <= Cardinality(MailsOut(q, v) \cup {w})
    BY <2>3, <2>7, FS_Subset
  <2>9. Cardinality(MailsOut(q, v)') \in Nat
    BY <2>3, <2>7, FS_Subset, FS_CardinalityType
  <2> QED
    BY <1>4, <1>5, <2>5, <2>7, <2>8, <2>9
<1> QED
  BY <1>6, <1>7

\* A refusal takes back what was counted for the worker that had it.
LEMMA RefusalTakenBack ==
    ASSUME ReportTypesAssumed, ReportsTyped, OutCounted, NEW w \in Workers, R!Send(w)
    PROVE  OutCounted'
<1>0. /\ workerAt[w] = "send" /\ workerAt'[w] # "send" /\ OthersWork(w)
      /\ target[w] \in Recipients /\ R!RunOf(w) \in Runs
      /\ \/ handedOver' = [handedOver EXCEPT ![R!RunOf(w)][target[w]] = @ - 1]
         \/ handedOver' = handedOver
  BY ReportSent DEF R!Answers
<1>1. PICK r \in Runs, u \in Recipients : r = R!RunOf(w) /\ u = target[w]
  BY <1>0
<1>2. handedOver \in [Runs -> [Recipients -> Int]]
  BY DEF ReportsTyped
<1> SUFFICES ASSUME NEW q \in Runs, NEW v \in Recipients
             PROVE  Cardinality(MailsOut(q, v)') <= handedOver'[q][v]
  BY DEF OutCounted
<1>3. MailsOut(q, v)' \subseteq MailsOut(q, v) \ {w}
  BY <1>0, NoneGoesOut
<1>4. /\ IsFiniteSet(MailsOut(q, v)) /\ Cardinality(MailsOut(q, v)) \in Nat
      /\ Cardinality(MailsOut(q, v)) <= handedOver[q][v]
  BY MailsOutFinite DEF OutCounted
<1>5. CASE q = r /\ v = u
  <2>1. w \in MailsOut(q, v)
    BY <1>0, <1>1, <1>5 DEF MailsOut
  <2>2. /\ IsFiniteSet(MailsOut(q, v) \ {w})
        /\ Cardinality(MailsOut(q, v) \ {w}) = Cardinality(MailsOut(q, v)) - 1
    BY <1>4, <2>1, FS_RemoveElement
  <2>3. Cardinality(MailsOut(q, v)') <= Cardinality(MailsOut(q, v) \ {w})
    BY <1>3, <2>2, FS_Subset
  <2>4. Cardinality(MailsOut(q, v)') \in Nat
    BY <1>3, <2>2, FS_Subset, FS_CardinalityType
  <2>5. handedOver[q][v] \in Int /\ handedOver'[q][v] \in {handedOver[q][v], handedOver[q][v] - 1}
    BY <1>0, <1>1, <1>2, <1>5
  <2> QED
    BY <1>4, <2>2, <2>3, <2>4, <2>5
<1>6. CASE q # r \/ v # u
  <2>1. handedOver'[q][v] = handedOver[q][v] /\ handedOver[q][v] \in Int
    BY <1>0, <1>1, <1>2, <1>6
  <2>2. Cardinality(MailsOut(q, v)') <= Cardinality(MailsOut(q, v)) /\ Cardinality(MailsOut(q, v)') \in Nat
    BY <1>3, <1>4, FS_Subset, FS_CardinalityType
  <2> QED
    BY <1>4, <2>1, <2>2
<1> QED
  BY <1>5, <1>6

\* Every step keeps each mail at the provider counted.
LEMMA OutStep ==
    ASSUME ReportTypesAssumed, ReportsTyped, OutCounted, [R!Next]_R!vars PROVE OutCounted'
<1>1. ASSUME UNCHANGED <<workerAt, workerJob, target, handedOver>> PROVE OutCounted'
  <2>1. \A r \in Runs, u \in Recipients : MailsOut(r, u)' = MailsOut(r, u)
    BY <1>1 DEF MailsOut, R!RunOf
  <2> QED
    BY <1>1, <2>1, OutStays
<1>2. ASSUME NEW w \in Workers, workerAt'[w] # "send", OthersWork(w), UNCHANGED handedOver PROVE OutCounted'
  <2>1. \A r \in Runs, u \in Recipients : MailsOut(r, u)' \subseteq MailsOut(r, u)
    BY <1>2, NoneGoesOut
  <2> QED
    BY <1>2, <2>1, OutStays
<1>3. CASE Revises \/ OffTheRun \/ UNCHANGED R!vars
  BY <1>1, <1>3, ScheduleRevised, RunUntouched DEF R!vars
<1>4. ASSUME NEW r \in Runs, R!EnqueueDueDeliveries(r) PROVE OutCounted'
  BY <1>1, <1>4, ReportEnqueued DEF ReportTypesAssumed
<1>5. ASSUME NEW r \in Runs, NEW u \in Recipients, R!Stall(r, u) \/ R!ConfirmSent(r, u) \/ R!Retry(r, u)
      PROVE  OutCounted'
  BY <1>1, <1>5, DeliveryStalled, ReportConfirmed, ReportRetried DEF ReportTypesAssumed
<1>6. ASSUME NEW w \in Workers, NEW j \in R!Jobs, R!Take(w, j) PROVE OutCounted'
  <2>1. /\ workerAt' = [workerAt EXCEPT ![w] = "prepare"] /\ workerJob' = [workerJob EXCEPT ![w] = j]
        /\ UNCHANGED <<target, handedOver>>
    BY <1>6, JobTaken
  <2>2. workerAt'[w] # "send" /\ OthersWork(w)
    BY <2>1 DEF OthersWork, ReportsTyped
  <2> QED
    BY <1>2, <2>1, <2>2
<1>7. ASSUME NEW w \in Workers, LooksAtRun(w) PROVE OutCounted'
  BY <1>2, <1>7, ReportLookedAt
<1>8. ASSUME NEW w \in Workers, OnlyMoves(w) PROVE OutCounted'
  BY <1>2, <1>8, WorkerMoved
<1>9. ASSUME NEW w \in Workers, KeepsAnswer(w) PROVE OutCounted'
  BY <1>2, <1>9, AnswerKept
<1>10. ASSUME NEW w \in Workers, R!Settle(w) \/ R!ClaimLost(w) \/ R!Stop(w) PROVE OutCounted'
  BY <1>2, <1>10, WorkerRests DEF R!Settle, R!ClaimLost, R!Stop
<1>11. ASSUME NEW w \in Workers, R!Lapse(w) PROVE OutCounted'
  BY <1>1, <1>11 DEF R!Lapse, R!workerVars
<1>12. ASSUME NEW j \in R!Jobs, R!GiveUp(j) PROVE OutCounted'
  BY <1>1, <1>12 DEF R!GiveUp, R!workerVars
<1> QED
  BY <1>3, <1>4, <1>5, <1>6, <1>7, <1>8, <1>9, <1>10, <1>11, <1>12, ClaimCounted, RefusalTakenBack
  DEF R!Next, Revises, OffTheRun, LooksAtRun, OnlyMoves, KeepsAnswer

\* A retry of a delivery is counted with its run.
LEMMA RetriesStep ==
    ASSUME ReportTypesAssumed, ReportsTyped, RetriesCounted, [R!Next]_R!vars PROVE RetriesCounted'
<1>1. ASSUME UNCHANGED <<recovery, retried>> PROVE RetriesCounted'
  BY <1>1 DEF RetriesCounted
<1>2. ASSUME NEW r \in Runs, NEW u \in Recipients, R!Retry(r, u) PROVE RetriesCounted'
  <2>1. /\ recovery' = [recovery EXCEPT ![r] = @ + 1]
        /\ retried' = [retried EXCEPT ![r][u] = @ + 1]
    BY <1>2, Zenon DEF R!Retry
  <2> SUFFICES ASSUME NEW q \in Runs, NEW v \in Recipients PROVE retried'[q][v] <= recovery'[q]
    BY DEF RetriesCounted
  <2>2. recovery[q] \in Nat /\ retried[q][v] \in Nat /\ retried[q][v] <= recovery[q]
    BY DEF ReportsTyped, RetriesCounted, ReportTypesAssumed, ReportsAssumed
  <2>3. CASE q = r
    <3>1. recovery'[q] = recovery[q] + 1 /\ retried'[q][v] \in {retried[q][v], retried[q][v] + 1}
      BY <2>1, <2>3 DEF ReportsTyped
    <3> QED
      BY <2>2, <3>1
  <2>4. CASE q # r
    BY <2>1, <2>2, <2>4 DEF ReportsTyped
  <2> QED
    BY <2>3, <2>4
<1>3. CASE Revises \/ OffTheRun \/ UNCHANGED R!vars
  BY <1>1, <1>3, ScheduleRevised, RunUntouched, Zenon DEF R!vars, Revises, R!UpsertSchedule,
     R!ReconcileDefinition
<1>4. ASSUME NEW r \in Runs, R!EnqueueDueDeliveries(r) PROVE RetriesCounted'
  BY <1>1, <1>4, ReportEnqueued DEF ReportTypesAssumed
<1>5. ASSUME NEW r \in Runs, NEW u \in Recipients, R!Stall(r, u) \/ R!ConfirmSent(r, u) PROVE RetriesCounted'
  BY <1>1, <1>5, DeliveryStalled, ReportConfirmed
<1>6. ASSUME NEW w \in Workers, LooksAtRun(w) \/ OnlyMoves(w) \/ R!Send(w) \/ KeepsAnswer(w)
      PROVE  RetriesCounted'
  BY <1>1, <1>6, ReportLookedAt, WorkerMoved, ReportSent, AnswerKept
<1>7. ASSUME NEW w \in Workers, R!Settle(w) \/ R!ClaimLost(w) \/ R!Stop(w) PROVE RetriesCounted'
  BY <1>1, <1>7, WorkerRests DEF R!Settle, R!ClaimLost, R!Stop
<1>8. ASSUME NEW w \in Workers, R!Lapse(w) \/ (\E u \in Recipients : R!Claim(w, u)) \/ (\E j \in R!Jobs : R!Take(w, j))
      PROVE  RetriesCounted'
  BY <1>1, <1>8, ReportClaimed, JobTaken DEF R!Lapse, R!runVars
<1>9. ASSUME NEW j \in R!Jobs, R!GiveUp(j) PROVE RetriesCounted'
  BY <1>1, <1>9 DEF R!GiveUp, R!runVars
<1> QED
  BY <1>2, <1>3, <1>4, <1>5, <1>6, <1>7, <1>8, <1>9
  DEF R!Next, Revises, OffTheRun, LooksAtRun, OnlyMoves, KeepsAnswer

\* Every step keeps them all.
LEMMA ReportsRestStep ==
    ASSUME ReportTypesAssumed, ReportsTyped, ReportsRest, [R!Next]_R!vars PROVE ReportsRest'
BY ScheduleStays, TriesStay, OutStep, RetriesStep DEF ReportsRest

-----------------------------------------------------------------------------
(* The people: Members.                                                    *)

USE DEF role, membership, verified, chosen, suppressed, link, key, shown, cooling, consumed,
        revoked, fate, unreported, signedIn, entering, outdated, request, PeopleRoles

\* A person's marks.
MarksTyped ==
    /\ suppressed \in [Users -> BOOLEAN]
    /\ cooling \in [M!Purposes -> [Users -> BOOLEAN]]

\* Who is at a browser, and who is about to be.
BrowsersTyped ==
    /\ signedIn \in [Browsers -> Users \cup {Nobody}]
    /\ entering \in [Browsers -> Users \cup {Nobody}]

\* Links within their bound; who has yet to report on one, reports on one that
\* was mailed.
LinksCounted ==
    /\ \A p \in M!Purposes, u \in Users : Len(fate[p][u]) <= Links
    /\ \A x \in unreported : x[3] <= Len(fate[x[1]][x[2]])

\* The types that PeopleTyped and LinksTyped leave out.
PeopleRest == MarksTyped /\ BrowsersTyped /\ LinksCounted

\* Together with the invariants of people and links they are the types of the module.
LEMMA PeopleTypes ==
    ASSUME Links \in Nat, PeopleInv, LinksInv, PeopleRest PROVE M!TypeOK
<1>1. /\ role \in [Users -> PeopleRoles]
      /\ membership \in [Users -> {"none", "active", "disabled"}]
      /\ {verified, chosen, suppressed, consumed, revoked} \subseteq [Users -> BOOLEAN]
      /\ shown \in [M!Purposes -> [Users -> M!Shown]]
      /\ cooling \in [M!Purposes -> [Users -> BOOLEAN]]
      /\ {signedIn, entering} \subseteq [Browsers -> Users \cup {Nobody}]
      /\ outdated \subseteq Browsers
  BY DEF PeopleInv, PeopleTyped, LinksInv, LinksTyped, PeopleRest, MarksTyped, BrowsersTyped
<1>2. ASSUME NEW p \in M!Purposes, NEW u \in Users
      PROVE  /\ fate[p][u] \in Seq(M!Fates) /\ Len(fate[p][u]) <= Links
             /\ link[p][u] \in 0..Links /\ key[p][u] \in 0..Links
  <2>1. fate[p][u] \in Seq(M!Fates) /\ Len(fate[p][u]) <= Links
    BY DEF PeopleInv, PeopleTyped, PeopleRest, LinksCounted
  <2>2. link[p][u] \in {0, Len(fate[p][u])} /\ key[p][u] \in {0, Len(fate[p][u])}
    BY DEF LinksInv, LinksFollow, Follows
  <2> QED
    BY <2>1, <2>2
<1>3. {link, key} \subseteq [M!Purposes -> [Users -> 0..Links]]
  <2>1. link \in [M!Purposes -> [Users -> Nat]] /\ key \in [M!Purposes -> [Users -> Nat]]
    BY DEF PeopleInv, PeopleTyped, LinksInv, LinksTyped
  <2>2. link \in [M!Purposes -> [Users -> 0..Links]]
    BY <1>2, <2>1
  <2>3. key \in [M!Purposes -> [Users -> 0..Links]]
    BY <1>2, <2>1
  <2> QED
    BY <2>2, <2>3
<1>4. unreported \subseteq M!Purposes \X Users \X (1..Links)
  <2> SUFFICES ASSUME NEW x \in unreported PROVE x \in M!Purposes \X Users \X (1..Links)
    OBVIOUS
  <2>1. x \in M!Purposes \X Users \X (Nat \ {0})
    BY DEF LinksInv, LinksTyped
  <2>2. x[3] <= Len(fate[x[1]][x[2]]) /\ Len(fate[x[1]][x[2]]) <= Links /\ fate[x[1]][x[2]] \in Seq(M!Fates)
    BY <1>2, <2>1 DEF PeopleRest, LinksCounted
  <2>3. x[3] \in 1..Links
    BY <2>1, <2>2
  <2> QED
    BY <2>1, <2>3
<1>5. \A r \in LifecycleRequests : request[r] = Idle \/
        /\ request[r].kind \in M!Lifecycle
        /\ request[r].target \in Users
        /\ request[r].role \in PeopleRoles
        /\ request[r].rows \subseteq Users
        /\ request[r].stale \in BOOLEAN
  BY DEF PeopleInv, PeopleTyped, RequestRecords
<1> QED
  BY <1>1, <1>2, <1>3, <1>4, <1>5 DEF M!TypeOK

\* The initial state has them.
LEMMA PeopleRestStart ==
    ASSUME Links \in Nat \ {0}, u1 \in Users, M!Init PROVE PeopleRest
<1>1. MarksTyped
  BY Zenon DEF M!Init, MarksTyped
<1>2. BrowsersTyped
  BY DEF M!Init, BrowsersTyped
<1>3. \A p \in M!Purposes, u \in Users : Len(fate[p][u]) <= Links
  BY DEF M!Init
<1>4. \A x \in unreported : x[3] <= Len(fate[x[1]][x[2]])
  BY DEF M!Init, M!Purposes
<1> QED
  BY <1>1, <1>2, <1>3, <1>4 DEF PeopleRest, LinksCounted

-----------------------------------------------------------------------------
\* While the bound on links leaves one, so does the bound for each person.
LEMMA LinksLeft ==
    ASSUME Links \in Nat, IsFiniteSet(Users), NEW p \in M!Purposes, NEW u \in Users,
           M!LinkCount < Links, Len(fate[p][u]) \in Nat
    PROVE  Len(fate[p][u]) < Links
<1> SUFFICES ASSUME Len(fate[p][u]) >= Links PROVE FALSE
  OBVIOUS
<1> DEFINE all == {x \in M!Purposes \X Users \X (1..Links) : x[3] <= Len(fate[x[1]][x[2]])}
<1>1. M!LinkCount = Cardinality(all)
  BY PeopleSizes DEF M!LinkCount
<1>3. IsFiniteSet(all)
  <2> DEFINE pairs == M!Purposes \X Users
             triples == M!Purposes \X Users \X (1..Links)
             f == [y \in pairs \X (1..Links) |-> <<y[1][1], y[1][2], y[2]>>]
  <2>1. IsFiniteSet(M!Purposes)
    <3>1. M!Purposes = {"verify"} \cup ({"setup"} \cup {"reset"})
      BY DEF M!Purposes
    <3>2. IsFiniteSet({"verify"}) /\ IsFiniteSet({"setup"}) /\ IsFiniteSet({"reset"})
      BY FS_Singleton
    <3>3. IsFiniteSet({"setup"} \cup {"reset"})
      BY <3>2, FS_Union
    <3> QED
      BY <3>1, <3>2, <3>3, FS_Union
  <2>2. IsFiniteSet(1..Links)
    BY FS_Interval
  <2>3. IsFiniteSet(pairs)
    BY <2>1, FS_Product
  <2>4. IsFiniteSet(pairs \X (1..Links))
    BY <2>2, <2>3, FS_Product
  <2>5. f \in Surjection(pairs \X (1..Links), triples)
    <3>1. \A y \in pairs \X (1..Links) : f[y] \in triples
      OBVIOUS
    <3>2. ASSUME NEW x \in triples PROVE \E y \in pairs \X (1..Links) : f[y] = x
      <4>1. <<<<x[1], x[2]>>, x[3]>> \in pairs \X (1..Links)
        OBVIOUS
      <4>2. f[<<<<x[1], x[2]>>, x[3]>>] = x
        BY <4>1
      <4> QED
        BY <4>1, <4>2
    <3> QED
      BY <3>1, <3>2 DEF Surjection
  <2>6. IsFiniteSet(triples)
    BY <2>4, <2>5, FS_Surjection
  <2> QED
    BY <2>6, FS_Subset
<1>4. IsFiniteSet(1..Links) /\ Cardinality(1..Links) = Links
  BY FS_Interval
<1>5. [n \in 1..Links |-> <<p, u, n>>] \in Injection(1..Links, all)
  BY DEF Injection, IsInjective
<1>6. Cardinality(1..Links) <= Cardinality(all)
  BY <1>3, <1>5, FS_Injection
<1>7. Cardinality(all) \in Nat
  BY <1>3, FS_CardinalityType
<1> HIDE DEF all
<1> QED
  BY <1>1, <1>4, <1>6, <1>7

\* Nothing is mailed, and nobody has more to report.
LEMMA LinksAreSame ==
    ASSUME LinksCounted, UNCHANGED fate, unreported' \subseteq unreported PROVE LinksCounted'
BY DEF LinksCounted

\* What becomes of a link leaves the number of links.
LEMMA FatesCounted ==
    ASSUME PeopleInv, LinksInv, LinksCounted, UNCHANGED unreported,
           NEW p \in M!Purposes, NEW u \in Users, NEW n \in DOMAIN fate[p][u], NEW f \in M!Fates,
           fate' = [fate EXCEPT ![p][u][n] = f]
    PROVE  LinksCounted'
<1>1. fate \in [M!Purposes -> [Users -> Seq(M!Fates)]]
  BY DEF PeopleInv, PeopleTyped
<1>2. ASSUME NEW q \in M!Purposes, NEW v \in Users PROVE Len(fate'[q][v]) = Len(fate[q][v])
  BY <1>1
<1>3. \A x \in unreported : x[1] \in M!Purposes /\ x[2] \in Users
  BY DEF LinksInv, LinksTyped
<1> QED
  BY <1>2, <1>3 DEF LinksCounted

\* A new link is counted, and so is who has to report on it.
LEMMA RotationsCounted ==
    ASSUME Links \in Nat, PeopleInv, LinksInv, LinksCounted,
           NEW p \in M!Purposes, NEW u \in Users, M!Rotate(p, u)
    PROVE  LinksCounted'
<1>1. fate \in [M!Purposes -> [Users -> Seq(M!Fates)]] /\ Len(fate[p][u]) \in Nat
  BY DEF PeopleInv, PeopleTyped
<1>2. /\ fate' = [fate EXCEPT ![p][u] = Append(@, "new")] /\ M!LinkCount < Links
      /\ unreported' = unreported \cup {<<p, u, Len(fate[p][u]) + 1>>}
  BY DEF M!Rotate
<1>3. Len(fate[p][u]) < Links
  BY <1>1, <1>2, LinksLeft DEF PeopleInv, PeopleAssumed
<1>4. Len(fate'[p][u]) = Len(fate[p][u]) + 1
  BY <1>1, <1>2
<1>5. ASSUME NEW q \in M!Purposes, NEW v \in Users
      PROVE  Len(fate'[q][v]) <= Links /\ Len(fate[q][v]) <= Len(fate'[q][v])
  <2>1. Len(fate[q][v]) \in Nat /\ Len(fate[q][v]) <= Links
    BY <1>1 DEF LinksCounted
  <2>2. CASE q = p /\ v = u
    BY <1>1, <1>3, <1>4, <2>1, <2>2
  <2>3. CASE q # p \/ v # u
    BY <1>1, <1>2, <2>1, <2>3
  <2> QED
    BY <2>2, <2>3
<1>6. ASSUME NEW x \in unreported' PROVE x[3] <= Len(fate'[x[1]][x[2]])
  <2>1. CASE x = <<p, u, Len(fate[p][u]) + 1>>
    BY <1>1, <1>4, <2>1
  <2>2. CASE x \in unreported
    <3>1. x[1] \in M!Purposes /\ x[2] \in Users /\ x[3] \in Nat
      BY <2>2 DEF LinksInv, LinksTyped
    <3>2. /\ x[3] <= Len(fate[x[1]][x[2]])
          /\ Len(fate[x[1]][x[2]]) \in Nat
          /\ Len(fate[x[1]][x[2]]) <= Len(fate'[x[1]][x[2]])
      BY <1>1, <1>5, <2>2, <3>1 DEF LinksCounted
    <3>3. Len(fate'[x[1]][x[2]]) \in Nat
      <4>1. fate'[x[1]][x[2]] \in {fate[x[1]][x[2]], Append(fate[p][u], "new")}
        <5> DEFINE y == x[1]
                   z == x[2]
        <5>1. y \in M!Purposes /\ z \in Users
          BY <3>1
        <5> HIDE DEF y, z
        <5>2. fate'[y][z] \in {fate[y][z], Append(fate[p][u], "new")}
          BY <1>1, <1>2, <5>1
        <5> QED
          BY <5>2 DEF y, z
      <4>2. fate[x[1]][x[2]] \in Seq(M!Fates) /\ fate[p][u] \in Seq(M!Fates)
        BY <1>1, <3>1
      <4> QED
        BY <4>1, <4>2
    <3> DEFINE i == x[3]
               older == Len(fate[x[1]][x[2]])
               newer == Len(fate'[x[1]][x[2]])
    <3>4. i \in Nat /\ older \in Nat /\ newer \in Nat /\ i <= older /\ older <= newer
      BY <3>1, <3>2, <3>3
    <3> HIDE DEF i, older, newer
    <3>5. i <= newer
      BY <3>4
    <3> QED
      BY <3>5 DEF i, newer
  <2> QED
    BY <1>2, <2>1, <2>2
<1> QED
  BY <1>5, <1>6 DEF LinksCounted

\* Every step keeps the links within their bound.
LEMMA CountStep ==
    ASSUME Links \in Nat, PeopleInv, LinksInv, LinksCounted, [M!Next]_M!vars PROVE LinksCounted'
<1>1. CASE UNCHANGED M!vars
  BY <1>1, LinksAreSame DEF M!vars
<1>2. ASSUME NEW p \in M!Purposes, NEW u \in Users, NEW n, M!Mail(p, u, n) \/ M!ComesBack(p, u, n)
      PROVE  LinksCounted'
  <2>1. /\ n \in DOMAIN fate[p][u] /\ UNCHANGED unreported
        /\ \E f \in {"sent", "failed", "bounced", "complaint"} : fate' = [fate EXCEPT ![p][u][n] = f]
    BY <1>2 DEF M!Mail, M!ComesBack
  <2>2. PICK f \in M!Fates : fate' = [fate EXCEPT ![p][u][n] = f]
    BY <2>1 DEF M!Fates
  <2> QED
    BY <2>1, <2>2, FatesCounted
<1>3. ASSUME NEW p \in M!Purposes, NEW u \in Users, NEW n,
             M!RecordDelivery(p, u, n) \/ M!HandlerStops(p, u, n) \/ M!Feedback(p, u, n) \/ M!CoolDown(p, u)
      PROVE  LinksCounted'
  <2>1. UNCHANGED fate /\ unreported' \subseteq unreported
    BY <1>3 DEF M!RecordDelivery, M!HandlerStops, M!Feedback, M!CoolDown
  <2> QED
    BY <2>1, LinksAreSame
<1>4. ASSUME NEW u \in Users, M!ResendVerification(u) \/ M!RequestReset(u) PROVE LinksCounted'
  <2>1. M!Rotate("verify", u) \/ M!Rotate("reset", u)
    BY <1>4 DEF M!ResendVerification, M!RequestReset
  <2> QED
    BY <2>1, RotationsCounted DEF M!Purposes
<1>5. ASSUME NEW u \in Users, M!CompleteSetup(u) \/ M!CompleteReset(u) PROVE LinksCounted'
  <2>1. UNCHANGED <<fate, unreported>>
    BY <1>5 DEF M!CompleteSetup, M!CompleteReset
  <2> QED
    BY <2>1, LinksAreSame
<1>6. ASSUME NEW s \in Browsers,
             \/ M!CommitLogin(s) \/ M!AbortLogin(s) \/ M!EndSession(s)
             \/ M!RevokeOtherSessions(s)
             \/ \E u \in Users : M!VerifyEmail(s, u) \/ M!BeginLogin(s, u)
      PROVE  LinksCounted'
  <2>1. UNCHANGED <<fate, unreported>>
    BY <1>6 DEF M!CommitLogin, M!AbortLogin, M!EndSession, M!RevokeOtherSessions, M!VerifyEmail,
       M!BeginLogin, M!linkVars
  <2> QED
    BY <2>1, LinksAreSame
<1>7. ASSUME NEW actor \in Users, NEW u \in Users, NEW as \in PeopleRoles, M!Invite(actor, u, as)
      PROVE  LinksCounted'
  <2>1. M!Rotate("setup", u)
    BY <1>7 DEF M!Invite
  <2> QED
    BY <2>1, RotationsCounted DEF M!Purposes
<1>8. ASSUME NEW actor \in Users, NEW u \in Users, NEW r \in LifecycleRequests,
             \/ M!BeginSetStatus(r, actor, u) \/ M!BeginRevoke(r, actor, u)
             \/ M!BeginResend(r, actor, u)
             \/ \E as \in PeopleRoles : M!BeginUpdateRole(r, actor, u, as)
      PROVE  LinksCounted'
  <2>1. UNCHANGED <<fate, unreported>>
    BY <1>8 DEF M!BeginSetStatus, M!BeginRevoke, M!BeginResend, M!BeginUpdateRole, M!Start, M!linkVars
  <2> QED
    BY <2>1, LinksAreSame
<1>9. ASSUME NEW r \in LifecycleRequests,
             \/ M!CommitDisable(r) \/ M!CommitEnable(r) \/ M!CommitRole(r)
             \/ M!CommitRevoke(r) \/ M!Abort(r)
      PROVE  LinksCounted'
  <2>1. UNCHANGED <<fate, unreported>>
    BY <1>9 DEF M!CommitDisable, M!CommitEnable, M!CommitRole, M!CommitRevoke, M!Abort, M!linkVars
  <2> QED
    BY <2>1, LinksAreSame
<1>10. ASSUME NEW r \in LifecycleRequests, M!CommitResend(r) PROVE LinksCounted'
  <2>1. M!Rotate("setup", request[r].target) /\ request[r] # Idle
    BY <1>10 DEF M!CommitResend, M!Pending
  <2>2. request[r].target \in Users
    BY <2>1 DEF PeopleInv, PeopleTyped, RequestRecords
  <2> QED
    BY <2>1, <2>2, RotationsCounted DEF M!Purposes
<1> QED
  BY <1>1, <1>2, <1>3, <1>4, <1>5, <1>6, <1>7, <1>8, <1>9, <1>10 DEF M!Next

\* Every step marks people with truth values.
LEMMA MarksStep ==
    ASSUME MarksTyped, [M!Next]_M!vars PROVE MarksTyped'
<1>1. ASSUME UNCHANGED <<suppressed, cooling>> PROVE MarksTyped'
  BY <1>1 DEF MarksTyped
<1>2. ASSUME NEW p \in M!Purposes, NEW u \in Users, NEW b \in BOOLEAN, UNCHANGED suppressed,
             cooling' = [cooling EXCEPT ![p][u] = b]
      PROVE  MarksTyped'
  BY <1>2, Zenon DEF MarksTyped
<1>3. ASSUME NEW u \in Users, NEW b \in BOOLEAN, UNCHANGED cooling,
             suppressed' = [suppressed EXCEPT ![u] = b]
      PROVE  MarksTyped'
  BY <1>3, Zenon DEF MarksTyped
<1>4. CASE UNCHANGED M!vars
  BY <1>1, <1>4 DEF M!vars
<1>5. ASSUME NEW p \in M!Purposes, NEW u \in Users, NEW n, M!RecordDelivery(p, u, n) PROVE MarksTyped'
  <2>1. CASE UNCHANGED cooling
    BY <1>1, <1>5, <2>1 DEF M!RecordDelivery, M!personVars
  <2>2. CASE ~UNCHANGED cooling
    <3> DEFINE b == cooling[p][u] \/ (p = "verify" /\ (IF fate[p][u][n] = "failed" THEN "failed" ELSE "sent") = "sent")
    <3>1. cooling' = [cooling EXCEPT ![p][u] = b] /\ UNCHANGED suppressed
      BY <1>5, <2>2, Zenon DEF M!RecordDelivery, M!personVars
    <3>2. b \in BOOLEAN
      BY Zenon
    <3> HIDE DEF b
    <3> QED
      BY <1>2, <3>1, <3>2
  <2> QED
    BY <2>1, <2>2
<1>6. ASSUME NEW p \in M!Purposes, NEW u \in Users, NEW n, M!Feedback(p, u, n) PROVE MarksTyped'
  <2> DEFINE b == suppressed[u] \/ fate[p][u][n] = "complaint"
  <2>1. suppressed' = [suppressed EXCEPT ![u] = b] /\ UNCHANGED cooling
    BY <1>6, Zenon DEF M!Feedback
  <2>2. b \in BOOLEAN
    BY Zenon
  <2> HIDE DEF b
  <2> QED
    BY <1>3, <2>1, <2>2
<1>7. ASSUME NEW p \in M!Purposes, NEW u \in Users, NEW n,
             M!Mail(p, u, n) \/ M!ComesBack(p, u, n) \/ M!HandlerStops(p, u, n)
      PROVE  MarksTyped'
  BY <1>1, <1>7 DEF M!Mail, M!ComesBack, M!HandlerStops, M!personVars
<1>8. ASSUME NEW p \in M!Purposes, NEW u \in Users, M!CoolDown(p, u) PROVE MarksTyped'
  <2>1. cooling' = [cooling EXCEPT ![p][u] = FALSE] /\ UNCHANGED suppressed
    BY <1>8, Zenon DEF M!CoolDown, M!personVars
  <2> QED
    BY <1>2, <2>1
<1>9. ASSUME NEW u \in Users, M!ResendVerification(u) \/ M!CompleteSetup(u) \/ M!CompleteReset(u)
      PROVE  MarksTyped'
  BY <1>1, <1>9 DEF M!ResendVerification, M!CompleteSetup, M!CompleteReset, M!personVars
<1>10. ASSUME NEW u \in Users, M!RequestReset(u) PROVE MarksTyped'
  <2>1. cooling' = [cooling EXCEPT !["reset"][u] = TRUE] /\ UNCHANGED suppressed
    BY <1>10, Zenon DEF M!RequestReset, M!personVars
  <2>2. "reset" \in M!Purposes
    BY DEF M!Purposes
  <2> QED
    BY <1>2, <2>1, <2>2
<1>11. ASSUME NEW s \in Browsers, NEW u \in Users, M!VerifyEmail(s, u) PROVE MarksTyped'
  <2>1. cooling' = [cooling EXCEPT !["verify"][u] = FALSE] /\ UNCHANGED suppressed
    BY <1>11, Zenon DEF M!VerifyEmail
  <2>2. "verify" \in M!Purposes
    BY DEF M!Purposes
  <2> QED
    BY <1>2, <2>1, <2>2
<1>12. ASSUME NEW s \in Browsers,
              \/ M!CommitLogin(s) \/ M!AbortLogin(s) \/ M!EndSession(s)
              \/ M!RevokeOtherSessions(s) \/ \E u \in Users : M!BeginLogin(s, u)
       PROVE  MarksTyped'
  BY <1>1, <1>12 DEF M!CommitLogin, M!AbortLogin, M!EndSession, M!RevokeOtherSessions, M!BeginLogin,
     M!linkVars, M!personVars
<1>13. ASSUME NEW actor \in Users, NEW u \in Users,
              \/ \E as \in PeopleRoles : M!Invite(actor, u, as)
              \/ \E r \in LifecycleRequests :
                  \/ M!BeginSetStatus(r, actor, u) \/ M!BeginRevoke(r, actor, u)
                  \/ M!BeginResend(r, actor, u)
                  \/ \E as \in PeopleRoles : M!BeginUpdateRole(r, actor, u, as)
       PROVE  MarksTyped'
  <2>1. UNCHANGED <<suppressed, cooling>>
    BY <1>13 DEF M!Invite, M!BeginSetStatus, M!BeginRevoke, M!BeginResend, M!BeginUpdateRole, M!Start,
       M!linkVars, M!personVars
  <2> QED
    BY <1>1, <2>1
<1>14. ASSUME NEW r \in LifecycleRequests,
              \/ M!CommitDisable(r) \/ M!CommitEnable(r) \/ M!CommitRole(r)
              \/ M!CommitRevoke(r) \/ M!CommitResend(r) \/ M!Abort(r)
       PROVE  MarksTyped'
  <2>1. UNCHANGED <<suppressed, cooling>>
    BY <1>14 DEF M!CommitDisable, M!CommitEnable, M!CommitRole, M!CommitRevoke, M!CommitResend, M!Abort,
       M!linkVars, M!personVars
  <2> QED
    BY <1>1, <2>1
<1> QED
  BY <1>4, <1>5, <1>6, <1>7, <1>8, <1>9, <1>10, <1>11, <1>12, <1>13, <1>14 DEF M!Next

\* Every step puts people, or nobody, at the browsers.
LEMMA BrowsersStep ==
    ASSUME BrowsersTyped, [M!Next]_M!vars PROVE BrowsersTyped'
<1>1. ASSUME UNCHANGED entering, \/ UNCHANGED signedIn
             \/ \E s \in Browsers, x \in Users \cup {Nobody} : signedIn' = [signedIn EXCEPT ![s] = x]
             \/ \E S : signedIn' = [t \in Browsers |-> IF t \in S THEN Nobody ELSE signedIn[t]]
      PROVE  BrowsersTyped'
  BY <1>1 DEF BrowsersTyped
<1>2. ASSUME UNCHANGED entering, NEW u, M!SignOut(u) PROVE BrowsersTyped'
  BY <1>2 DEF BrowsersTyped, M!SignOut
<1>3. CASE UNCHANGED M!vars
  BY <1>1, <1>3 DEF M!vars
<1>4. ASSUME NEW p \in M!Purposes, NEW u \in Users, NEW n,
             \/ M!Mail(p, u, n) \/ M!RecordDelivery(p, u, n) \/ M!HandlerStops(p, u, n)
             \/ M!ComesBack(p, u, n) \/ M!Feedback(p, u, n) \/ M!CoolDown(p, u)
      PROVE  BrowsersTyped'
  <2>1. UNCHANGED <<signedIn, entering>>
    BY <1>4 DEF M!Mail, M!RecordDelivery, M!HandlerStops, M!ComesBack, M!Feedback, M!CoolDown, M!sessionVars
  <2> QED
    BY <1>1, <2>1
<1>5. ASSUME NEW u \in Users, M!ResendVerification(u) \/ M!CompleteSetup(u) \/ M!RequestReset(u)
      PROVE  BrowsersTyped'
  <2>1. UNCHANGED <<signedIn, entering>>
    BY <1>5 DEF M!ResendVerification, M!CompleteSetup, M!RequestReset, M!sessionVars
  <2> QED
    BY <1>1, <2>1
<1>6. ASSUME NEW u \in Users, M!CompleteReset(u) PROVE BrowsersTyped'
  BY <1>2, <1>6 DEF M!CompleteReset, M!EndSessions
<1>7. ASSUME NEW s \in Browsers, M!CommitLogin(s) \/ M!AbortLogin(s) \/ \E u \in Users : M!BeginLogin(s, u)
      PROVE  BrowsersTyped'
  BY <1>7 DEF M!CommitLogin, M!AbortLogin, M!BeginLogin, BrowsersTyped
<1>8. ASSUME NEW s \in Browsers, M!EndSession(s) \/ M!RevokeOtherSessions(s) \/ \E u \in Users : M!VerifyEmail(s, u)
      PROVE  BrowsersTyped'
  BY <1>8 DEF M!EndSession, M!RevokeOtherSessions, M!VerifyEmail, BrowsersTyped
<1>9. ASSUME NEW actor \in Users, NEW u \in Users,
             \/ \E as \in PeopleRoles : M!Invite(actor, u, as)
             \/ \E r \in LifecycleRequests :
                 \/ M!BeginSetStatus(r, actor, u) \/ M!BeginRevoke(r, actor, u)
                 \/ M!BeginResend(r, actor, u)
                 \/ \E as \in PeopleRoles : M!BeginUpdateRole(r, actor, u, as)
      PROVE  BrowsersTyped'
  <2>1. UNCHANGED <<signedIn, entering>>
    BY <1>9 DEF M!Invite, M!BeginSetStatus, M!BeginRevoke, M!BeginResend, M!BeginUpdateRole, M!Start,
       M!sessionVars
  <2> QED
    BY <1>1, <2>1
<1>10. ASSUME NEW r \in LifecycleRequests,
              \/ M!CommitDisable(r) \/ M!CommitEnable(r) \/ M!CommitRole(r)
              \/ M!CommitRevoke(r) \/ M!CommitResend(r) \/ M!Abort(r)
       PROVE  BrowsersTyped'
  <2>1. UNCHANGED entering /\ (UNCHANGED signedIn \/ M!SignOut(request[r].target))
    BY <1>10 DEF M!CommitDisable, M!CommitEnable, M!CommitRole, M!CommitRevoke, M!CommitResend, M!Abort,
       M!sessionVars
  <2> QED
    BY <1>1, <1>2, <2>1
<1> QED
  BY <1>3, <1>4, <1>5, <1>6, <1>7, <1>8, <1>9, <1>10 DEF M!Next

\* Every step keeps them all.
LEMMA PeopleRestStep ==
    ASSUME Links \in Nat, PeopleInv, LinksInv, PeopleRest, [M!Next]_M!vars PROVE PeopleRest'
BY MarksStep, BrowsersStep, CountStep DEF PeopleRest

\* Mail on its way is a step of Members: the links it is about are within the bound.
LEMMA MailStepIsNext ==
    ASSUME Links \in Nat, PeopleInv, LinksInv, PeopleRest, MailStep PROVE M!Next
<1>1. fate \in [M!Purposes -> [Users -> Seq(M!Fates)]]
  BY DEF PeopleInv, PeopleTyped
<1>2. unreported \subseteq M!Purposes \X Users \X (1..Links)
  BY PeopleTypes DEF M!TypeOK
<1>3. ASSUME NEW x \in unreported,
             M!Mail(x[1], x[2], x[3]) \/ M!RecordDelivery(x[1], x[2], x[3])
                \/ M!HandlerStops(x[1], x[2], x[3])
      PROVE  M!Next
  <2>1. x[1] \in M!Purposes /\ x[2] \in Users /\ x[3] \in 1..Links
    BY <1>2
  <2> QED
    BY <1>3, <2>1 DEF M!Next
<1>4. ASSUME NEW p \in M!Purposes, NEW u \in Users, NEW n \in DOMAIN fate[p][u],
             M!ComesBack(p, u, n) \/ M!Feedback(p, u, n)
      PROVE  M!Next
  <2>1. fate[p][u] \in Seq(M!Fates) /\ Len(fate[p][u]) <= Links
    BY <1>1 DEF PeopleRest, LinksCounted
  <2>2. n \in 1..Links
    BY <2>1
  <2> QED
    BY <1>4, <2>2 DEF M!Next
<1>5. ASSUME NEW p \in M!Purposes, NEW u \in Users, M!CoolDown(p, u) PROVE M!Next
  BY <1>5 DEF M!Next
<1> QED
  BY <1>3, <1>4, <1>5 DEF MailStep

-----------------------------------------------------------------------------
(* The approvals of playbooks: WorkflowApprovals.                          *)

USE DEF playbookActive, playbookRevision, memberStatus, dealOwner, moveAt, captured, requester,
        playbookRun, approval, gate, plan, tasks, decision, told, disabling, overtaken

\* The tasks of a plan are created once or not at all, so the invariant of the
\* plans has the types of the module.
LEMMA ApprovalsTypes == ASSUME PlansInv PROVE W!TypeOK
<1>1. \A e \in StageMoves : tasks[e] \in 0..1
  BY DEF PlansInv, W!PlansAgree, W!RowsAgree
<1>2. tasks \in [StageMoves -> 0..1]
  BY <1>1 DEF PlansInv, ApprovalsTyped
<1> QED
  BY <1>2 DEF PlansInv, ApprovalsTyped, W!TypeOK, Choices, Disablings

-----------------------------------------------------------------------------
(* A member's mailbox: MailboxSync.                                        *)

USE DEF account, cycle, syncDue, inbox, stored, syncListed, syncJob, syncTries, sync, passedOver,
        abandoned

\* No job has more attempts than it may have, and one that waits has one left.
AttemptsLeft ==
    \A c \in B!Cycles :
        /\ syncTries[c] <= SyncAttempts
        /\ syncJob[c] \in {"none", "waiting"} => syncTries[c] < SyncAttempts

\* With the invariant of the jobs it makes the types of the module.
LEMMA MailboxModuleTypes == ASSUME MailboxAssumed, SyncAttempts \in Nat, JobsInv, AttemptsLeft PROVE B!TypeOK
<1>1. MailboxTyped /\ cycle > 0 /\ cycle + Cardinality(Underway) <= SyncCycles /\ syncListed <= cycle
  BY DEF JobsInv, RoomInv, NoJobAhead
<1>2. cycle \in 1..SyncCycles /\ syncListed \in 0..SyncCycles
  BY <1>1, UnderwayFinite DEF MailboxTyped, MailboxAssumed
<1>3. syncTries \in [B!Cycles -> 0..SyncAttempts]
  BY <1>1 DEF AttemptsLeft, MailboxTyped
<1> QED
  BY <1>1, <1>2, <1>3 DEF MailboxTyped, B!TypeOK, Accounts, JobPhases, SyncRecords, B!Cycles

\* The initial state has attempts left.
LEMMA AttemptsStart == ASSUME SyncAttempts \in Nat \ {0}, B!Init PROVE AttemptsLeft
BY DEF B!Init, AttemptsLeft

\* Every step leaves a waiting job an attempt.
LEMMA AttemptsStep ==
    ASSUME SyncAttempts \in Nat \ {0}, MailboxTyped, AttemptsLeft, [B!Next]_B!vars
    PROVE  AttemptsLeft'
<1>0. syncTries \in [B!Cycles -> Nat] /\ syncJob \in [B!Cycles -> JobPhases]
  BY DEF MailboxTyped
<1>1. ASSUME UNCHANGED <<syncJob, syncTries>> PROVE AttemptsLeft'
  BY <1>1 DEF AttemptsLeft
<1>2. ASSUME NEW c \in B!Cycles, UNCHANGED syncTries, syncJob[c] # "waiting",
             syncJob' = [syncJob EXCEPT ![c] = B!AfterFailure(c)]
      PROVE  AttemptsLeft'
  BY <1>0, <1>2 DEF AttemptsLeft, B!AfterFailure
<1>3. CASE UNCHANGED B!vars \/ B!Arrive \/ B!ComeDue \/ B!Delete \/ (\E on \in BOOLEAN : B!Upsert(on))
           \/ B!ListSyncTargets
  BY <1>1, <1>3 DEF B!vars, B!jobs, B!Arrive, B!ComeDue, B!Delete, B!Upsert, B!ListSyncTargets
<1>4. CASE B!Disable
  BY <1>0, <1>4 DEF B!Disable, AttemptsLeft
<1>5. CASE B!ScheduleDueJobs
  <2>1. /\ UNCHANGED syncTries
        /\ syncJob' \in {syncJob, [syncJob EXCEPT ![syncListed] =
                                        IF @ = "none" THEN "waiting" ELSE @]}
    BY <1>5, Zenon DEF B!ScheduleDueJobs
  <2> QED
    BY <1>0, <2>1 DEF AttemptsLeft
<1>6. ASSUME NEW c \in B!Cycles, B!Lapse(c) PROVE AttemptsLeft'
  BY <1>2, <1>6 DEF B!Lapse
<1>7. ASSUME NEW c \in B!Cycles, B!Replay(c) PROVE AttemptsLeft'
  BY <1>0, <1>7 DEF B!Replay, AttemptsLeft
<1>8. ASSUME NEW r \in Syncs, NEW c \in B!Cycles, B!Take(r, c) PROVE AttemptsLeft'
  <2>1. /\ syncJob[c] = "waiting" /\ syncJob' = [syncJob EXCEPT ![c] = "taken"]
        /\ syncTries' = [syncTries EXCEPT ![c] = @ + 1]
    BY <1>8, Zenon DEF B!Take
  <2> QED
    BY <1>0, <2>1 DEF AttemptsLeft
<1>9. ASSUME NEW r \in Syncs, B!Settle(r) PROVE AttemptsLeft'
  <2>1. /\ UNCHANGED syncTries
        /\ \/ UNCHANGED syncJob
           \/ syncJob' = [syncJob EXCEPT ![sync[r].job] = "succeeded"]
           \/ syncJob' = [syncJob EXCEPT ![sync[r].job] = B!AfterFailure(sync[r].job)]
    BY <1>9 DEF B!Settle
  <2> QED
    BY <1>0, <2>1 DEF AttemptsLeft, B!AfterFailure
<1>10. ASSUME NEW r \in Syncs,
              \/ B!RunNow(r) \/ B!LoadCredentials(r) \/ B!MarkSyncing(r)
              \/ B!Fetch(r) \/ B!FetchFails(r) \/ B!RecordInbound(r) \/ B!RecordFails(r)
              \/ (\E heard \in BOOLEAN : B!Finish(r, heard))
              \/ B!updateFailure(r) \/ B!StatementFails(r) \/ B!Stop(r)
              \/ B!BeginCheck(r) \/ B!MarkChecking(r)
              \/ (\E ready \in BOOLEAN : B!FinishCheck(r, ready))
       PROVE  AttemptsLeft'
  <2>1. UNCHANGED <<syncJob, syncTries>>
    BY <1>10 DEF B!jobs, B!RunNow, B!LoadCredentials, B!MarkSyncing, B!Fetch, B!FetchFails, B!RecordInbound,
       B!RecordFails, B!Finish, B!updateFailure, B!StatementFails, B!Stop, B!BeginCheck, B!MarkChecking,
       B!FinishCheck
  <2> QED
    BY <1>1, <2>1
<1> QED
  BY <1>3, <1>4, <1>5, <1>6, <1>7, <1>8, <1>9, <1>10 DEF B!Next

-----------------------------------------------------------------------------
(* The rate limiter: RateLimits.                                           *)

USE DEF now, count, expires, before, granted, holder, asked, left, stamp, denied

\* The clock within its bound, and the instants statements began.
ClockTyped == now \in 1..MaxTime /\ stamp \in [Callers -> 0..MaxTime]

\* With the invariant of the rows it makes the types of the module.
LEMMA LimitsTypes == ASSUME LimitsTyped, ClockTyped PROVE L!TypeOK
BY DEF LimitsTyped, ClockTyped, L!TypeOK

\* The clock starts within its bound.
LEMMA ClockStart == ASSUME MaxTime \in Nat \ {0}, L!Init PROVE ClockTyped
BY DEF L!Init, ClockTyped

\* Every step keeps it there.
LEMMA ClockStep == ASSUME MaxTime \in Nat \ {0}, ClockTyped, [L!Next]_L!vars PROVE ClockTyped'
<1>1. ASSUME UNCHANGED <<now, stamp>> PROVE ClockTyped'
  BY <1>1 DEF ClockTyped
<1>2. CASE UNCHANGED L!vars \/ \E c \in Callers, S \in SUBSET Buckets : L!Begin(c, S)
  BY <1>1, <1>2 DEF L!vars, L!Begin
<1>3. CASE \E c \in Callers : L!Issue(c)
  BY <1>3 DEF ClockTyped, L!Issue
<1>4. CASE \E c \in Callers : L!Consume(c)
  <2>1. UNCHANGED now /\ \E c \in Callers : stamp' = [stamp EXCEPT ![c] = 0]
    BY <1>4 DEF L!Consume
  <2> QED
    BY <2>1 DEF ClockTyped
<1>5. CASE \E c \in Callers : L!Accept(c) \/ L!Deny(c) \/ L!Lose(c)
  <2>1. UNCHANGED now /\ \E c \in Callers : stamp' = [stamp EXCEPT ![c] = 0]
    BY <1>5 DEF L!Accept, L!Deny, L!Lose, L!Keep, L!Undo, L!Forget
  <2> QED
    BY <2>1 DEF ClockTyped
<1>6. CASE \E b \in Buckets : L!CleanupExpired(b)
  BY <1>1, <1>6 DEF L!CleanupExpired, L!callVars
<1>7. CASE L!Tick
  BY <1>7 DEF ClockTyped, L!Tick, L!callVars
<1> QED
  BY <1>2, <1>3, <1>4, <1>5, <1>6, <1>7 DEF L!Next

-----------------------------------------------------------------------------
(* The workspace.                                                          *)

\* The constants are as the types need them.
LEMMA TypesAssumed ==
    /\ ImportAttempts \in Nat /\ ReportTypesAssumed
    /\ Links \in Nat \ {0} /\ SyncAttempts \in Nat \ {0} /\ MaxTime \in Nat \ {0}
    /\ MailboxAssumed /\ u1 \in Users
BY WorkspaceAssumption, RecordsAssumed, AccessAssumed DEF ReportTypesAssumed

\* What the types need beside the invariants of the parts.
TypesInv ==
    /\ OnImports => ImportsRest
    /\ OnReports => ReportsRest
    /\ OnMembers => PeopleRest
    /\ OnMailbox => AttemptsLeft
    /\ OnLimits => ClockTyped

\* It holds at the start.
LEMMA TypesStart == ASSUME WorkspaceInit PROVE TypesInv
<1>1. ASSUME OnImports PROVE ImportsRest
  BY <1>1, TypesAssumed, ImportsRestInit DEF WorkspaceInit, OnImports
<1>2. ASSUME OnReports PROVE ReportsRest
  BY <1>2, TypesAssumed, ReportsRestStart DEF WorkspaceInit, OnReports
<1>3. ASSUME OnMembers PROVE PeopleRest
  BY <1>3, TypesAssumed, PeopleRestStart DEF WorkspaceInit, OnMembers
<1>4. ASSUME OnMailbox PROVE AttemptsLeft
  BY <1>4, TypesAssumed, AttemptsStart DEF WorkspaceInit, OnMailbox
<1>5. ASSUME OnLimits PROVE ClockTyped
  BY <1>5, TypesAssumed, ClockStart DEF WorkspaceInit, OnLimits
<1> QED
  BY <1>1, <1>2, <1>3, <1>4, <1>5 DEF TypesInv

\* Every step keeps it.
LEMMA TypesStep ==
    ASSUME TypesInv, AccessInv, RecordsInv, [WorkspaceNext]_shared PROVE TypesInv'
<1>1. /\ OnImports' = OnImports /\ OnReports' = OnReports /\ OnMembers' = OnMembers
      /\ OnMailbox' = OnMailbox /\ OnLimits' = OnLimits
  BY AccessSubject DEF OnImports, OnReports, OnMembers, OnMailbox, OnLimits
<1>2. ASSUME OnImports PROVE ImportsRest'
  BY <1>2, TypesAssumed, ImportsMoved, ImportsRestStep DEF TypesInv
<1>3. ASSUME OnReports PROVE ReportsRest'
  BY <1>3, TypesAssumed, ReportsMoved, ReportsRestStep DEF TypesInv, RecordsInv, ReportsInv
<1>4. ASSUME OnMembers PROVE PeopleRest'
  <2>1. PeopleInv /\ LinksInv /\ PeopleRest /\ Links \in Nat
    BY <1>4, TypesAssumed DEF AccessInv, TypesInv
  <2>2. [M!Next]_M!vars
    BY <1>4, <2>1, PeopleMoved, MemberStepIsNext, MailStepIsNext
  <2> QED
    BY <2>1, <2>2, PeopleRestStep
<1>5. ASSUME OnMailbox PROVE AttemptsLeft'
  BY <1>5, TypesAssumed, MailboxMoved, AttemptsStep DEF TypesInv, AccessInv, CursorInv
<1>6. ASSUME OnLimits PROVE ClockTyped'
  BY <1>6, TypesAssumed, LimitsMoved, ClockStep DEF TypesInv
<1> QED
  BY <1>1, <1>2, <1>3, <1>4, <1>5, <1>6 DEF TypesInv

\* With the invariants of the parts it makes the types of every module.
LEMMA TypesFromParts == ASSUME TypesInv, AccessInv, RecordsInv PROVE TypesOK
<1>1. ASSUME OnImports PROVE I!TypeOK
  BY <1>1, ImportsTypes DEF TypesInv, RecordsInv, ImportsInv
<1>2. ASSUME OnReports PROVE R!TypeOK
  BY <1>2, TypesAssumed, ReportsTypes DEF TypesInv, RecordsInv, ReportsInv
<1>3. ASSUME OnMembers PROVE M!TypeOK
  BY <1>3, TypesAssumed, PeopleTypes DEF TypesInv, AccessInv
<1>4. ASSUME OnApprovals PROVE W!TypeOK
  BY <1>4, ApprovalsTypes DEF RecordsInv, LingerInv
<1>5. ASSUME OnMailbox PROVE B!TypeOK
  BY <1>5, TypesAssumed, MailboxModuleTypes DEF TypesInv, AccessInv, ServiceInv
<1>6. ASSUME OnLimits PROVE L!TypeOK
  BY <1>6, LimitsTypes DEF TypesInv, AccessInv, LimitsInv
<1> QED
  BY <1>1, <1>2, <1>3, <1>4, <1>5, <1>6 DEF TypesOK

\* Whatever the workspace does, every part keeps its types: no counter passes
\* its bound, no link is counted that was not mailed, nobody but a user is
\* signed in, and no job is tried once too often.
THEOREM WorkspaceTypesHold == WorkspaceSpec => []TypesOK
<1>1. WorkspaceInit => TypesInv
  BY TypesStart
<1>2. TypesInv /\ AccessInv /\ RecordsInv /\ [WorkspaceNext]_shared => TypesInv'
  BY TypesStep
<1>3. TypesInv /\ AccessInv /\ RecordsInv => TypesOK
  BY TypesFromParts
<1> QED
  BY <1>1, <1>2, <1>3, AccessAlways, RecordsAlways, PTL DEF WorkspaceSpec
=============================================================================
