---------------------------- MODULE ImportBatches ----------------------------
(***************************************************************************)
(* One CSV import of a workspace (modules/imports): the batch an           *)
(* administrator submits, the background job that lands its rows a         *)
(* checkpoint at a time and resumes after a failure, and the requests that *)
(* roll it back row by row.                                                *)
(*                                                                         *)
(* Executions and rollbacks take turns on a session advisory lock, which   *)
(* ends with the connection.  Recording a failure is outside of it.  The   *)
(* job's queue is what JobLedger promises of it; a lease may lapse under a *)
(* worker that goes on working.                                            *)
(***************************************************************************)
EXTENDS Integers, FiniteSets

CONSTANTS
    NumRows,         \* rows of the CSV
    CheckpointRows,  \* rows landed in one transaction, 50 in the code
    Workers,         \* job executions
    Rollbacks,       \* rollback requests
    Nobody,
    MaxAttempts,     \* max_attempts of the job
    MaxReplays       \* bound: operator replays of the dead job

Rows == 1..NumRows
Requests == Workers \cup Rollbacks

VARIABLES
    status,     \* import_batches.status
    source,     \* the retained CSV: "kept", "due" past its deadline, "gone"
    rows,       \* import_batch_rows.status, "none" before the row is processed
    processed, success, errors, rolledBack, rollbackSkipped,   \* the counters
    record,     \* the CRM record a row made: "fresh" as long as its version is
                \* the imported one
    active,     \* membership of the administrator who submitted it
    lock,       \* holder of the advisory lock
    pc, todo,   \* each request: where it is, the rows it read and not handled
    jobPhase, jobTries, jobOwner, replays

batchVars == <<status, source>>
counterVars == <<processed, success, errors, rolledBack, rollbackSkipped>>
rowVars == <<rows, counterVars, record>>
jobVars == <<jobPhase, jobTries, jobOwner, replays>>
callVars == <<lock, pc, todo>>
vars == <<status, source, rows, processed, success, errors, rolledBack,
          rollbackSkipped, record, active, lock, pc, todo, jobPhase,
          jobTries, jobOwner, replays>>

Completed == {"completed", "completed_with_errors"}
RolledBack == {"rolled_back", "partially_rolled_back"}
Terminal == Completed \cup RolledBack
Verdicts == {"ok", "error", "permanent"}

TypeOK ==
    /\ status \in Terminal \cup {"none", "processing", "failed"}
    /\ source \in {"kept", "due", "gone"}
    /\ rows \in [Rows -> {"none", "imported", "error", "rolled_back", "rollback_skipped"}]
    /\ {processed, success, errors, rolledBack, rollbackSkipped} \subseteq Nat
    /\ record \in [Rows -> {"none", "fresh", "edited", "archived"}]
    /\ active \in BOOLEAN
    /\ lock \in Requests \cup {Nobody}
    /\ pc \in [Requests -> {"idle", "lock", "load", "start", "read", "land",
                            "undo", "failing", "failing for good"} \cup Verdicts]
    /\ todo \in [Requests -> SUBSET Rows]
    /\ jobPhase \in {"none", "waiting", "taken", "done", "failed"}
    /\ jobTries \in 0..MaxAttempts
    /\ jobOwner \in Workers \cup {Nobody}
    /\ replays \in Nat

Init ==
    /\ status = "none" /\ source = "gone"
    /\ rows = [r \in Rows |-> "none"]
    /\ processed = 0 /\ success = 0 /\ errors = 0
    /\ rolledBack = 0 /\ rollbackSkipped = 0
    /\ record = [r \in Rows |-> "none"]
    /\ active = TRUE
    /\ lock = Nobody
    /\ pc = [p \in Requests |-> "idle"]
    /\ todo = [p \in Requests |-> {}]
    /\ jobPhase = "none" /\ jobTries = 0 /\ jobOwner = Nobody /\ replays = 0

-----------------------------------------------------------------------------
Goto(p, place) == pc' = [pc EXCEPT ![p] = place]

Unlock(p) == lock' = IF lock = p THEN Nobody ELSE lock

\* The call is over or has failed: what it read is gone, and so is the lock.
Leave(p, place) ==
    /\ Goto(p, place)
    /\ todo' = [todo EXCEPT ![p] = {}]
    /\ Unlock(p)

Acquire(p) ==
    /\ pc[p] = "lock"
    /\ lock = Nobody
    /\ lock' = p
    /\ Goto(p, "load")
    /\ UNCHANGED <<batchVars, rowVars, active, todo, jobVars>>

\* The process stops, the connection breaks, or a lease lapses with nobody
\* there to notice: whatever was not committed is gone.
Crash(p) ==
    /\ pc[p] # "idle"
    /\ Leave(p, "idle")
    /\ jobOwner' = IF jobOwner = p THEN Nobody ELSE jobOwner
    /\ UNCHANGED <<batchVars, rowVars, active, jobPhase, jobTries, replays>>

\* Any statement can fail without effect, the wait for the lock and the
\* reservation of plan capacity among them; a checkpoint meets a changed row
\* (ErrConflict), a rollback finds its own administrator gone.
CallFails(p) ==
    /\ pc[p] \in {"lock", "load", "start", "read", "land", "undo"}
    /\ Leave(p, IF p \in Workers THEN "failing" ELSE "idle")
    /\ UNCHANGED <<batchVars, rowVars, active, jobVars>>

-----------------------------------------------------------------------------
(* Submission and the job.                                                 *)

\* The batch, its source and its job in one transaction.
Submit ==
    /\ status = "none"
    /\ active
    /\ status' = "processing"
    /\ source' = "kept"
    /\ jobPhase' = "waiting"
    /\ UNCHANGED <<rowVars, active, callVars, jobTries, jobOwner, replays>>

Take(w) ==
    /\ pc[w] = "idle"
    /\ jobPhase \in {"waiting", "taken"}
    /\ jobTries < MaxAttempts
    /\ jobPhase' = "taken"
    /\ jobOwner' = w
    /\ jobTries' = jobTries + 1
    /\ Goto(w, "lock")
    /\ UNCHANGED <<batchVars, rowVars, active, lock, todo, replays>>

GiveUp ==
    /\ jobPhase = "taken"
    /\ jobTries = MaxAttempts
    /\ jobPhase' = "failed"
    /\ jobOwner' = Nobody
    /\ UNCHANGED <<batchVars, rowVars, active, callVars, jobTries, replays>>

ReplayDead ==
    /\ jobPhase = "failed"
    /\ replays < MaxReplays
    /\ jobPhase' = "waiting"
    /\ jobTries' = 0
    /\ replays' = replays + 1
    /\ UNCHANGED <<batchVars, rowVars, active, callVars, jobOwner>>

\* The verdict of the worker that still owns the job.
Settle(w) ==
    /\ pc[w] \in Verdicts
    /\ IF jobOwner = w
       THEN /\ jobPhase' = CASE pc[w] = "ok" -> "done"
                             [] pc[w] = "permanent" -> "failed"
                             [] OTHER -> IF jobTries < MaxAttempts THEN "waiting"
                                         ELSE "failed"
            /\ jobOwner' = Nobody
       ELSE UNCHANGED <<jobPhase, jobOwner>>
    /\ Goto(w, "idle")
    /\ UNCHANGED <<batchVars, rowVars, active, lock, todo, jobTries, replays>>

-----------------------------------------------------------------------------
(* runBatch.                                                               *)

\* A finished batch is a success whatever was asked; without its source, or
\* its submitter, it is a failure for good.
Load(w) ==
    /\ pc[w] = "load"
    /\ \/ status \in Terminal /\ Leave(w, "ok")
       \/ /\ status \notin Terminal
          /\ source # "kept" \/ ~active
          /\ Leave(w, "failing for good")
       \/ /\ status \notin Terminal
          /\ source = "kept" /\ active
          /\ Goto(w, "start")
          /\ UNCHANGED <<lock, todo>>
    /\ UNCHANGED <<batchVars, rowVars, active, jobVars>>

\* The membership may have ended since: the row is set to processing all the
\* same, and the first checkpoint notices.
MarkProcessing(w) ==
    /\ pc[w] = "start"
    /\ status' = IF status \in {"processing", "failed"} THEN "processing" ELSE status
    /\ Goto(w, "read")
    /\ UNCHANGED <<source, rowVars, active, lock, todo, jobVars>>

ReadRows(w) ==
    /\ pc[w] = "read"
    /\ todo' = [todo EXCEPT ![w] = {r \in Rows : rows[r] = "none"}]
    /\ Goto(w, "land")
    /\ UNCHANGED <<batchVars, rowVars, active, lock, jobVars>>

\* The next rows in the order of the file.
NextRows(w) ==
    {r \in todo[w] : Cardinality({q \in todo[w] : q <= r}) <= CheckpointRows}

\* One checkpoint: each row makes a record, or is invalid or a duplicate.
Checkpoint(w) ==
    /\ pc[w] = "land"
    /\ todo[w] # {}
    /\ active
    /\ status = "processing"
    /\ \E made \in SUBSET NextRows(w) :
        /\ rows' = [r \in Rows |-> IF r \in made THEN "imported"
                                   ELSE IF r \in NextRows(w) THEN "error" ELSE rows[r]]
        /\ record' = [r \in Rows |-> IF r \in made THEN "fresh" ELSE record[r]]
        /\ processed' = processed + Cardinality(NextRows(w))
        /\ success' = success + Cardinality(made)
        /\ errors' = errors + Cardinality(NextRows(w) \ made)
    /\ todo' = [todo EXCEPT ![w] = @ \ NextRows(w)]
    /\ UNCHANGED <<batchVars, rolledBack, rollbackSkipped, active, lock, pc, jobVars>>

CompleteBatch(w) ==
    /\ pc[w] = "land"
    /\ todo[w] = {}
    /\ active
    /\ status = "processing"
    /\ processed = NumRows
    /\ status' = IF errors > 0 THEN "completed_with_errors" ELSE "completed"
    /\ source' = "gone"
    /\ Leave(w, "ok")
    /\ UNCHANGED <<rowVars, active, jobVars>>

\* A checkpoint or the completion finds the submitter gone.
ActorGone(w) ==
    /\ pc[w] = "land"
    /\ ~active
    /\ Leave(w, "failing for good")
    /\ UNCHANGED <<batchVars, rowVars, active, jobVars>>

\* Best effort, and no longer under the lock.
RecordFailure(w) ==
    /\ pc[w] \in {"failing", "failing for good"}
    /\ \/ status \in {"processing", "failed"} /\ status' = "failed"
       \/ UNCHANGED status
    /\ Goto(w, IF pc[w] = "failing" THEN "error" ELSE "permanent")
    /\ UNCHANGED <<source, rowVars, active, lock, todo, jobVars>>

-----------------------------------------------------------------------------
(* Rollback.                                                               *)

BeginUnlocked(b) ==
    /\ pc[b] = "idle"
    /\ status # "none"
    /\ Goto(b, "load")
    /\ UNCHANGED <<batchVars, rowVars, active, lock, todo, jobVars>>

Begin(b) ==
    /\ pc[b] = "idle"
    /\ status # "none"
    /\ Goto(b, "lock")
    /\ UNCHANGED <<batchVars, rowVars, active, lock, todo, jobVars>>

\* A batch that is rolled back already, or still processing, is left alone.
ListImported(b) ==
    /\ pc[b] = "load"
    /\ IF status \in Completed \cup {"failed"}
       THEN /\ todo' = [todo EXCEPT ![b] = {r \in Rows : rows[r] = "imported"}]
            /\ Goto(b, "undo")
            /\ UNCHANGED lock
       ELSE Leave(b, "idle")
    /\ UNCHANGED <<batchVars, rowVars, active, jobVars>>

First(S) == {r \in S : \A q \in S : r <= q}

\* One transaction per row: the record is archived if it is still the one that
\* was imported.
RollbackRow(b) ==
    /\ pc[b] = "undo"
    /\ \E r \in First(todo[b]) :
        LET unchanged == record[r] = "fresh"
        IN  /\ record' = [record EXCEPT ![r] = IF unchanged THEN "archived" ELSE @]
            /\ rows' = [rows EXCEPT ![r] =
                          IF @ # "imported" THEN @
                          ELSE IF unchanged THEN "rolled_back" ELSE "rollback_skipped"]
            /\ rolledBack' = rolledBack + IF unchanged THEN 1 ELSE 0
            /\ rollbackSkipped' = rollbackSkipped + IF unchanged THEN 0 ELSE 1
            /\ todo' = [todo EXCEPT ![b] = @ \ {r}]
    /\ UNCHANGED <<batchVars, processed, success, errors, active, lock, pc, jobVars>>

CompleteRollback(b) ==
    /\ pc[b] = "undo"
    /\ todo[b] = {}
    /\ status \in Completed \cup {"failed"}
    /\ rolledBack + rollbackSkipped = success
    /\ status' = IF rollbackSkipped > 0 THEN "partially_rolled_back" ELSE "rolled_back"
    /\ source' = "gone"
    /\ Leave(b, "idle")
    /\ UNCHANGED <<rowVars, active, jobVars>>

-----------------------------------------------------------------------------
(* Members, users of the records, and time.                                *)

\* Deactivation fails the batch and completes its waiting job as skipped.
Deactivate ==
    /\ active
    /\ active' = FALSE
    /\ status' = IF status = "processing" THEN "failed" ELSE status
    /\ jobPhase' = IF jobPhase = "waiting" /\ status \in {"processing", "failed"}
                   THEN "done" ELSE jobPhase
    /\ UNCHANGED <<source, rowVars, callVars, jobTries, jobOwner, replays>>

Reactivate ==
    /\ ~active
    /\ active' = TRUE
    /\ UNCHANGED <<batchVars, rowVars, callVars, jobVars>>

\* Somebody edits the record, archives it, or restores it.
TouchRecord(r) ==
    /\ record[r] # "none"
    /\ \E new \in {"edited", "archived"} \ {record[r]} :
        record' = [record EXCEPT ![r] = new]
    /\ UNCHANGED <<batchVars, rows, counterVars, active, callVars, jobVars>>

SourceDeadline ==
    /\ source = "kept"
    /\ source' = "due"
    /\ UNCHANGED <<status, rowVars, active, callVars, jobVars>>

ExpireSourceAndBatch ==
    /\ source = "due"
    /\ source' = "gone"
    /\ status' = IF status = "processing" THEN "expired" ELSE status
    /\ UNCHANGED <<rowVars, active, callVars, jobVars>>

\* The hourly cleanup.
ExpireSource ==
    /\ source = "due"
    /\ source' = "gone"
    /\ status' = IF status = "processing" THEN "failed" ELSE status
    /\ UNCHANGED <<rowVars, active, callVars, jobVars>>

-----------------------------------------------------------------------------
Execution(w) ==
    \/ Take(w) \/ Load(w) \/ MarkProcessing(w) \/ ReadRows(w)
    \/ Checkpoint(w) \/ CompleteBatch(w) \/ ActorGone(w)
    \/ RecordFailure(w) \/ Settle(w)

Rollback(b) ==
    \/ Begin(b) \/ ListImported(b) \/ RollbackRow(b) \/ CompleteRollback(b)

Next ==
    \/ Submit \/ GiveUp \/ ReplayDead \/ SourceDeadline \/ ExpireSource
    \/ \E w \in Workers : Execution(w)
    \/ \E b \in Rollbacks : Rollback(b)
    \/ \E p \in Requests : Acquire(p) \/ CallFails(p) \/ Crash(p)
    \/ Deactivate \/ Reactivate
    \/ \E r \in Rows : TouchRecord(r)

Spec == Init /\ [][Next]_vars

-----------------------------------------------------------------------------
(* Properties.                                                             *)

Count(statuses) == Cardinality({r \in Rows : rows[r] \in statuses})

\* The counters of the batch are those of its rows, through every checkpoint,
\* interruption, resumption and rollback.  They decide: a batch whose counters
\* drifted could never be completed, or never be rolled back.
CountersAgree ==
    /\ processed = Count({"imported", "error", "rolled_back", "rollback_skipped"})
    /\ success = Count({"imported", "rolled_back", "rollback_skipped"})
    /\ errors = Count({"error"})
    /\ rolledBack = Count({"rolled_back"})
    /\ rollbackSkipped = Count({"rollback_skipped"})

\* A rollback that was completed stays: no retry of the job, no failure that is
\* recorded late and no second rollback lands, undoes or reopens anything.
outcomeVars == <<batchVars, rows, counterVars>>

KeepsRollback == (status \in RolledBack) => UNCHANGED outcomeVars
RollbackIsFinal == [][KeepsRollback]_vars
=============================================================================
