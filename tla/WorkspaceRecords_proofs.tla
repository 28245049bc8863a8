---------------------- MODULE WorkspaceRecords_proofs -----------------------
(***************************************************************************)
(* What a workspace writes down about imports, playbooks and reports       *)
(* stays true: theorems about the parts of MCWorkspace that                *)
(* ImportBatches, WorkflowApprovals and ReportSchedules describe, for any  *)
(* number of rows, workers, events, users, retries and revisions.  Each    *)
(* part has a section: names for the variables it uses, its inductive      *)
(* invariant, a lemma for each kind of step, and its theorems.  The last   *)
(* section puts the parts together.                                        *)
(***************************************************************************)
EXTENDS MCWorkspace, Sequences, FiniteSets, FiniteSetTheorems, TLAPS

-----------------------------------------------------------------------------
(* Contact imports: ImportBatches.                                         *)

\* The names of its variables.
batch == v1
source == v2
rows == v3
processed == v4
success == v5
errors == v6
rolledBack == v7
rollbackSkipped == v8
record == v9
actorActive == v10
batchLock == v11
requestAt == v12
todo == v13
jobPhase == v14
jobTries == v15
jobOwner == v16
replays == v17
USE DEF batch, source, rows, processed, success, errors, rolledBack, rollbackSkipped, record,
        actorActive, batchLock, requestAt, todo, jobPhase, jobTries, jobOwner, replays

\* The cardinality that ImportBatches uses is the library's.
LEMMA ImportSizes == \A S : I!Cardinality(S) = Cardinality(S)
BY DEF I!Cardinality, Cardinality

\* What is taken of the constants: a number of rows, and requests by somebody.
ImportsAssumed == NumRows \in Nat /\ Nobody \notin I!Requests

\* What becomes of a row of the CSV.
RowStates == {"none", "imported", "error", "rolled_back", "rollback_skipped"}

\* Where an execution or a rollback may be.
ImportPlaces == {"idle", "lock", "load", "start", "read", "land", "undo", "failing", "failing for good"}
              \cup I!Verdicts

\* The places reached with the lock of the batch.
LockedPlaces == {"load", "start", "read", "land", "undo"}

\* The types of the batch, its rows and its callers.
ImportsTyped ==
    /\ batch \in I!Terminal \cup {"none", "processing", "failed"}
    /\ rows \in [I!Rows -> RowStates]
    /\ record \in [I!Rows -> {"none", "fresh", "edited", "archived"}]
    /\ processed \in Nat /\ success \in Nat /\ errors \in Nat
    /\ rolledBack \in Nat /\ rollbackSkipped \in Nat
    /\ batchLock \in I!Requests \cup {Nobody}
    /\ requestAt \in [I!Requests -> ImportPlaces]
    /\ todo \in [I!Requests -> SUBSET I!Rows]

\* Whoever is between the lock and the end of the call has the lock.
LockHeld == \A p \in I!Requests : requestAt[p] \in LockedPlaces => batchLock = p

\* The rows a call read are still as it read them, and a batch that is being
\* rolled back stays one that may be.
WorkInHand ==
    \A p \in I!Requests :
        /\ requestAt[p] = "land" => \A r \in todo[p] : rows[r] = "none"
        /\ requestAt[p] = "undo" => /\ batch \in I!Completed \cup {"failed"}
                                    /\ \A r \in todo[p] : rows[r] = "imported"

\* Nothing is left of the CSV of a batch that was rolled back.
RollbackForgets == batch \in I!RolledBack => source = "gone"

\* The inductive invariant: the counters agree because whoever writes them has
\* the lock, and the rows in hand are as they were read.
ImportsInv == ImportsTyped /\ LockHeld /\ WorkInHand /\ RollbackForgets /\ I!CountersAgree

\* Sets of rows can be counted.
LEMMA RowsFinite ==
    ASSUME ImportsAssumed, NEW S \in SUBSET I!Rows
    PROVE  IsFiniteSet(S) /\ Cardinality(S) \in Nat
<1>1. IsFiniteSet(I!Rows)
  BY FS_Interval DEF I!Rows, ImportsAssumed
<1> QED
  BY <1>1, FS_Subset, FS_CardinalityType

\* What joins a set of rows is added to its number.
LEMMA RowsAdded ==
    ASSUME ImportsAssumed, NEW S \in SUBSET I!Rows, NEW T \in SUBSET I!Rows, S \cap T = {}
    PROVE  Cardinality(S \cup T) = Cardinality(S) + Cardinality(T)
<1>1. Cardinality(S \cap T) = 0
  BY FS_EmptySet
<1>2. IsFiniteSet(S) /\ IsFiniteSet(T) /\ Cardinality(S) \in Nat /\ Cardinality(T) \in Nat
  BY RowsFinite
<1>3. Cardinality(S \cup T) = Cardinality(S) + Cardinality(T) - Cardinality(S \cap T)
  BY <1>2, FS_Union
<1> QED
  BY <1>1, <1>2, <1>3

\* The rows in some states.
RowsIn(statuses) == {r \in I!Rows : rows[r] \in statuses}

\* Whoever holds the lock is alone in it.
LEMMA AloneInLock ==
    ASSUME ImportsInv, NEW p \in I!Requests, requestAt[p] \in LockedPlaces
    PROVE  \A q \in I!Requests \ {p} : requestAt[q] \notin LockedPlaces
BY DEF ImportsInv, LockHeld

\* A step that leaves the calls, the rows and the counters alone.
LEMMA CallsStand ==
    ASSUME ImportsAssumed, ImportsInv, UNCHANGED <<batchLock, requestAt, todo, rows,
           I!counterVars>>,
           record' \in [I!Rows -> {"none", "fresh", "edited", "archived"}],
           batch' \in I!Terminal \cup {"none", "processing", "failed"},
           batch \in I!Completed \cup {"failed"} => batch' = batch,
           RollbackForgets'
    PROVE  ImportsInv'
<1> USE DEF ImportsInv, I!counterVars
<1>1. ImportsTyped'
  BY DEF ImportsTyped
<1>2. LockHeld' /\ WorkInHand'
  BY DEF LockHeld, WorkInHand
<1>3. I!CountersAgree'
  BY ImportSizes DEF I!CountersAgree, I!Count
<1> QED BY <1>1, <1>2, <1>3

\* A step of one call that leaves the rows and the counters alone, and ends
\* outside of the work on them.
LEMMA CallMoves ==
    ASSUME ImportsAssumed, ImportsInv, NEW p \in I!Requests, NEW place \in ImportPlaces,
           requestAt' = [requestAt EXCEPT ![p] = place], place \notin {"land", "undo"},
           place \in LockedPlaces => batchLock' = p,
           \A q \in I!Requests \ {p} : batchLock = q => batchLock' = q,
           batchLock' \in I!Requests \cup {Nobody},
           todo' \in [I!Requests -> SUBSET I!Rows], \A q \in I!Requests \ {p} : todo'[q] = todo[q],
           UNCHANGED <<rows, I!counterVars, record>>,
           batch' \in I!Terminal \cup {"none", "processing", "failed"},
           \A q \in I!Requests \ {p} :
               requestAt[q] = "undo" /\ batch \in I!Completed \cup {"failed"} => batch' = batch,
           RollbackForgets'
    PROVE  ImportsInv'
<1> USE DEF ImportsInv, I!counterVars
<1>1. ImportsTyped'
  BY DEF ImportsTyped
<1>2. LockHeld'
  BY DEF LockHeld, ImportsTyped
<1>3. WorkInHand'
  <2>1. \A q \in I!Requests \ {p} : requestAt'[q] = requestAt[q]
    BY DEF ImportsTyped
  <2>2. requestAt'[p] = place
    BY DEF ImportsTyped
  <2> QED BY <2>1, <2>2 DEF WorkInHand
<1>4. I!CountersAgree'
  BY ImportSizes DEF I!CountersAgree, I!Count
<1> QED BY <1>1, <1>2, <1>3, <1>4

\* Steps that touch neither the lock, nor a caller, nor a row.
LEMMA ImportsOutside ==
    ASSUME ImportsAssumed, ImportsInv,
           \/ I!Submit \/ I!GiveUp \/ I!ReplayDead \/ I!SourceDeadline \/ I!ExpireSource
           \/ I!Deactivate \/ I!Reactivate \/ (\E r \in I!Rows : I!TouchRecord(r)) \/ UNCHANGED I!vars
    PROVE  ImportsInv'
<1> USE DEF I!Submit, I!GiveUp, I!ReplayDead, I!SourceDeadline, I!ExpireSource, I!Deactivate,
            I!Reactivate,
            I!TouchRecord, I!vars, I!callVars, I!rowVars, I!batchVars
<1>1. UNCHANGED <<batchLock, requestAt, todo, rows, I!counterVars>>
  BY DEF I!counterVars
<1>2. record' \in [I!Rows -> {"none", "fresh", "edited", "archived"}]
  BY DEF ImportsInv, ImportsTyped
<1>3. /\ batch' \in {batch, "processing", "failed"} /\ source' \in {source, "kept", "due", "gone"}
      /\ batch' # batch => batch \in {"none", "processing"}
      /\ source' = source \/ source # "gone" \/ batch = "none"
  OBVIOUS
<1>4. /\ batch' \in I!Terminal \cup {"none", "processing", "failed"}
      /\ batch \in I!Completed \cup {"failed"} => batch' = batch
  BY <1>3 DEF ImportsInv, ImportsTyped, I!Completed
<1>5. RollbackForgets'
  BY <1>3 DEF ImportsInv, RollbackForgets, I!RolledBack
<1> QED BY <1>1, <1>2, <1>4, <1>5, CallsStand

\* What leaving a call does, and what going on in it does.
LEMMA CallLeaves ==
    ASSUME ImportsAssumed, ImportsInv, NEW p \in I!Requests,
           NEW place \in ImportPlaces \ LockedPlaces,
           I!Leave(p, place), UNCHANGED <<rows, I!counterVars, record>>,
           batch' \in I!Terminal \cup {"none", "processing", "failed"},
           \A q \in I!Requests \ {p} :
               requestAt[q] = "undo" /\ batch \in I!Completed \cup {"failed"} => batch' = batch,
           RollbackForgets'
    PROVE  ImportsInv'
<1>1. /\ requestAt' = [requestAt EXCEPT ![p] = place] /\ place \notin {"land", "undo"} /\ place \notin LockedPlaces
      /\ batchLock' \in I!Requests \cup {Nobody}
      /\ \A q \in I!Requests \ {p} : batchLock = q => batchLock' = q
  BY DEF I!Leave, I!Goto, I!Unlock, ImportsInv, ImportsTyped, LockedPlaces
<1>2. todo' \in [I!Requests -> SUBSET I!Rows] /\ \A q \in I!Requests \ {p} : todo'[q] = todo[q]
  BY DEF I!Leave, ImportsInv, ImportsTyped
<1> QED
  BY <1>1, <1>2, CallMoves

\* A call that goes on without writing rows.
LEMMA CallGoes ==
    ASSUME ImportsAssumed, ImportsInv, NEW p \in I!Requests, NEW place \in ImportPlaces,
           place \notin {"land", "undo"}, place \in LockedPlaces => requestAt[p] \in LockedPlaces,
           I!Goto(p, place), UNCHANGED <<rows, I!counterVars, record, batchLock, todo>>,
           batch' \in I!Terminal \cup {"none", "processing", "failed"},
           \A q \in I!Requests \ {p} :
               requestAt[q] = "undo" /\ batch \in I!Completed \cup {"failed"} => batch' = batch,
           RollbackForgets'
    PROVE  ImportsInv'
<1>1. /\ place \in LockedPlaces => batchLock' = p
      /\ batchLock' \in I!Requests \cup {Nobody}
      /\ todo' \in [I!Requests -> SUBSET I!Rows]
  BY DEF ImportsInv, ImportsTyped, LockHeld
<1> QED
  BY <1>1, CallMoves DEF I!Goto

\* A call that leaves gives the lock back.
LEMMA ImportsLeave ==
    ASSUME ImportsAssumed, ImportsInv, NEW p \in I!Requests,
           \/ I!Crash(p) \/ I!CallFails(p) \/ I!ActorGone(p) \/ I!CompleteBatch(p) \/ I!CompleteRollback(p)
           \/ I!Load(p) \/ (I!ListImported(p) /\ batch \notin I!Completed \cup {"failed"})
    PROVE  ImportsInv'
<1>0. /\ batch \in I!Terminal \cup {"none", "processing", "failed"}
      /\ batch \in I!RolledBack => source = "gone"
  BY DEF ImportsInv, ImportsTyped, RollbackForgets
<1>1. CASE UNCHANGED I!batchVars
  <2>1. /\ batch' \in I!Terminal \cup {"none", "processing", "failed"}
        /\ UNCHANGED batch /\ RollbackForgets'
    BY <1>0, <1>1 DEF I!batchVars, RollbackForgets
  <2>2. UNCHANGED <<rows, I!counterVars, record>>
    BY DEF I!Crash, I!CallFails, I!ActorGone, I!CompleteBatch, I!CompleteRollback, I!Load,
       I!ListImported,
           I!rowVars, I!counterVars
  <2>3. CASE \E place \in ImportPlaces \ LockedPlaces : I!Leave(p, place)
    BY <2>1, <2>2, <2>3, CallLeaves
  <2>4. CASE I!Load(p) /\ I!Goto(p, "start") /\ UNCHANGED <<batchLock, todo>>
    BY <2>1, <2>2, <2>4, CallGoes DEF I!Load, ImportPlaces, LockedPlaces
  <2> QED
    BY <2>3, <2>4 DEF I!Crash, I!CallFails, I!ActorGone, I!CompleteBatch, I!CompleteRollback,
       I!Load,
                      I!ListImported, ImportPlaces, LockedPlaces, I!Verdicts
<1>2. CASE I!CompleteBatch(p) \/ I!CompleteRollback(p)
  <2>1. /\ UNCHANGED <<rows, I!counterVars, record>> /\ requestAt[p] \in LockedPlaces
        /\ \E place \in ImportPlaces \ LockedPlaces : I!Leave(p, place)
        /\ batch' \in I!Completed \cup I!RolledBack /\ source' = "gone"
    BY <1>2 DEF I!CompleteBatch, I!CompleteRollback, ImportPlaces, LockedPlaces, I!Verdicts,
       I!rowVars, I!counterVars,
                I!Completed, I!RolledBack
  <2>2. RollbackForgets' /\ batch' \in I!Terminal
    BY <2>1 DEF RollbackForgets, I!Terminal
  <2>3. \A q \in I!Requests \ {p} : requestAt[q] # "undo"
    BY <2>1, AloneInLock DEF LockedPlaces
  <2> QED BY <2>1, <2>2, <2>3, CallLeaves
<1> QED
  BY <1>1, <1>2 DEF I!Crash, I!CallFails, I!ActorGone, I!Load, I!ListImported

\* The steps of a job's execution that write no row.
LEMMA ImportsGo ==
    ASSUME ImportsAssumed, ImportsInv, NEW p \in I!Requests,
           \/ I!Take(p) \/ I!Settle(p) \/ I!Begin(p) \/ I!MarkProcessing(p) \/ I!RecordFailure(p)
    PROVE  ImportsInv'
<1>0. /\ batch \in I!Terminal \cup {"none", "processing", "failed"}
      /\ batch \in I!RolledBack => source = "gone"
  BY DEF ImportsInv, ImportsTyped, RollbackForgets
<1>1. /\ UNCHANGED <<rows, I!counterVars, record, batchLock, todo, source>>
      /\ batch' \in {batch, "processing", "failed"}
      /\ batch' # batch => batch \in {"processing", "failed"}
  BY DEF I!Take, I!Settle, I!Begin, I!MarkProcessing, I!RecordFailure, I!rowVars,
     I!counterVars, I!batchVars
<1>2. RollbackForgets' /\ batch' \in I!Terminal \cup {"none", "processing", "failed"}
  BY <1>0, <1>1 DEF RollbackForgets, I!RolledBack
<1>3. PICK place \in ImportPlaces : /\ I!Goto(p, place) /\ place \notin {"land", "undo"}
                                    /\ place \in LockedPlaces => requestAt[p] \in LockedPlaces
  <2>1. \/ I!Goto(p, "lock") \/ I!Goto(p, "idle") \/ I!Goto(p, "error") \/ I!Goto(p, "permanent")
        \/ I!Goto(p, "read") /\ requestAt[p] = "start"
    BY DEF I!Take, I!Settle, I!Begin, I!MarkProcessing, I!RecordFailure
  <2>2. /\ {"lock", "idle", "error", "permanent", "read"} \subseteq ImportPlaces
        /\ {"lock", "idle", "error", "permanent"} \cap LockedPlaces = {}
    BY DEF ImportPlaces, LockedPlaces, I!Verdicts
  <2>3. CASE I!Goto(p, "read") /\ requestAt[p] = "start"
    BY <2>2, <2>3 DEF LockedPlaces
  <2> QED BY <2>1, <2>2, <2>3
<1>4. \A q \in I!Requests \ {p} :
          requestAt[q] = "undo" /\ batch \in I!Completed \cup {"failed"} => batch' = batch
  <2>1. CASE I!MarkProcessing(p)
    <3>1. requestAt[p] \in LockedPlaces
      BY <2>1 DEF I!MarkProcessing, LockedPlaces
    <3> QED BY <3>1, AloneInLock DEF LockedPlaces
  <2>2. CASE ~I!MarkProcessing(p)
    BY <2>2 DEF I!Take, I!Settle, I!Begin, I!RecordFailure, I!batchVars, I!Completed
  <2> QED BY <2>1, <2>2
<1> QED BY <1>1, <1>2, <1>3, <1>4, CallGoes

\* The lock is taken when nobody has it.
LEMMA ImportsAcquire ==
    ASSUME ImportsAssumed, ImportsInv, NEW p \in I!Requests, I!Acquire(p)
    PROVE  ImportsInv'
<1>1. /\ requestAt' = [requestAt EXCEPT ![p] = "load"] /\ "load" \in ImportPlaces
      /\ batchLock = Nobody /\ batchLock' = p /\ UNCHANGED todo
      /\ UNCHANGED <<rows, I!counterVars, record, batch, source>>
  BY DEF I!Acquire, I!Goto, ImportPlaces, I!rowVars, I!counterVars, I!batchVars
<1>2. /\ \A q \in I!Requests \ {p} : batchLock = q => batchLock' = q
      /\ batchLock' \in I!Requests \cup {Nobody}
      /\ todo' \in [I!Requests -> SUBSET I!Rows] /\ RollbackForgets'
      /\ batch' \in I!Terminal \cup {"none", "processing", "failed"}
  BY <1>1 DEF ImportsInv, ImportsTyped, RollbackForgets, ImportsAssumed
<1> QED BY <1>1, <1>2, CallMoves

\* The rows a call reads under the lock.
LEMMA ImportsRead ==
    ASSUME ImportsAssumed, ImportsInv, NEW p \in I!Requests,
           I!ReadRows(p) \/ (I!ListImported(p) /\ batch \in I!Completed \cup {"failed"})
    PROVE  ImportsInv'
<1> USE DEF ImportsInv
<1>1. /\ UNCHANGED <<rows, I!counterVars, record, batchLock, batch, source>> /\ requestAt[p] \in LockedPlaces
      /\ \E place \in {"land", "undo"} : I!Goto(p, place)
      /\ \E read \in SUBSET I!Rows : todo' = [todo EXCEPT ![p] = read]
  BY DEF I!ReadRows, I!ListImported, I!rowVars, I!counterVars, I!batchVars, LockedPlaces
<1>2. ImportsTyped'
  BY <1>1 DEF ImportsTyped, I!Goto, ImportPlaces, I!counterVars
<1>3. LockHeld'
  BY <1>1 DEF LockHeld, ImportsTyped, I!Goto, LockedPlaces
<1>4. ASSUME NEW q \in I!Requests
      PROVE /\ requestAt'[q] = "land" => \A r \in todo'[q] : rows'[r] = "none"
            /\ requestAt'[q] = "undo" => /\ batch' \in I!Completed \cup {"failed"}
                                         /\ \A r \in todo'[q] : rows'[r] = "imported"
  <2>1. CASE q # p
    <3>1. requestAt'[q] = requestAt[q] /\ requestAt[q] \notin LockedPlaces
      BY <1>1, <2>1, AloneInLock DEF I!Goto, ImportsTyped
    <3> QED BY <3>1 DEF LockedPlaces
  <2>2. CASE q = p /\ I!ReadRows(p)
    BY <1>1, <2>2 DEF I!ReadRows, I!Goto, ImportsTyped
  <2>3. CASE q = p /\ I!ListImported(p) /\ batch \in I!Completed \cup {"failed"}
    BY <1>1, <2>3 DEF I!ListImported, I!Goto, ImportsTyped
  <2> QED BY <2>1, <2>2, <2>3
<1>5. WorkInHand'
  BY <1>4 DEF WorkInHand
<1>6. RollbackForgets' /\ I!CountersAgree'
  BY <1>1, ImportSizes DEF RollbackForgets, I!CountersAgree, I!Count, I!counterVars
<1> QED BY <1>2, <1>3, <1>5, <1>6

\* A checkpoint lands the next rows and counts exactly them.
LEMMA ImportsCheckpoint ==
    ASSUME ImportsAssumed, ImportsInv, NEW w \in I!Requests, I!Checkpoint(w)
    PROVE  ImportsInv'
<1> DEFINE next == I!NextRows(w)
<1>1. PICK made \in SUBSET next :
        /\ rows' = [r \in I!Rows |-> IF r \in made THEN "imported"
                                   ELSE IF r \in next THEN "error" ELSE rows[r]]
        /\ record' = [r \in I!Rows |-> IF r \in made THEN "fresh" ELSE record[r]]
        /\ processed' = processed + Cardinality(next)
        /\ success' = success + Cardinality(made)
        /\ errors' = errors + Cardinality(next \ made)
  BY ImportSizes DEF I!Checkpoint
<1>2. /\ todo' = [todo EXCEPT ![w] = @ \ next] /\ requestAt[w] = "land"
      /\ UNCHANGED <<batch, source, rolledBack, rollbackSkipped, batchLock, requestAt>>
  BY DEF I!Checkpoint, I!batchVars
<1>3. next \subseteq todo[w] /\ next \subseteq I!Rows /\ \A r \in next : rows[r] = "none"
  BY <1>2 DEF I!NextRows, ImportsInv, ImportsTyped, WorkInHand
<1> HIDE DEF next
<1>4. Cardinality(next) \in Nat /\ Cardinality(made) \in Nat /\ Cardinality(next \ made) \in Nat
  BY <1>3, RowsFinite
<1>5. ImportsTyped'
  BY <1>1, <1>2, <1>3, <1>4 DEF ImportsInv, ImportsTyped, RowStates
<1>6. LockHeld' /\ RollbackForgets'
  BY <1>2 DEF ImportsInv, LockHeld, RollbackForgets
<1>7. WorkInHand'
  <2>1. \A q \in I!Requests \ {w} : requestAt[q] \notin {"land", "undo"}
    BY <1>2, AloneInLock DEF LockedPlaces
  <2>2. \A r \in todo'[w] : rows'[r] = "none"
    <3>1. todo'[w] = todo[w] \ next /\ \A r \in todo[w] : r \in I!Rows /\ rows[r] = "none"
      BY <1>2 DEF ImportsInv, ImportsTyped, WorkInHand
    <3> QED BY <1>1, <3>1
  <2> QED BY <1>2, <2>1, <2>2 DEF WorkInHand
<1>8. ASSUME NEW S \in SUBSET (RowStates \ {"none"}), NEW joins \in SUBSET next,
             RowsIn(S)' = RowsIn(S) \cup joins
      PROVE  Cardinality(RowsIn(S)') = Cardinality(RowsIn(S)) + Cardinality(joins)
  <2>1. RowsIn(S) \in SUBSET I!Rows /\ joins \in SUBSET I!Rows /\ RowsIn(S) \cap joins = {}
    BY <1>3 DEF RowsIn
  <2> QED BY <1>8, <2>1, RowsAdded
<1>9. /\ RowsIn({"imported", "error", "rolled_back", "rollback_skipped"})'
            = RowsIn({"imported", "error", "rolled_back", "rollback_skipped"}) \cup next
      /\ RowsIn({"imported", "rolled_back", "rollback_skipped"})'
            = RowsIn({"imported", "rolled_back", "rollback_skipped"}) \cup made
      /\ RowsIn({"error"})' = RowsIn({"error"}) \cup (next \ made)
      /\ RowsIn({"rolled_back"})' = RowsIn({"rolled_back"}) \cup {}
      /\ RowsIn({"rollback_skipped"})' = RowsIn({"rollback_skipped"}) \cup {}
  BY <1>1, <1>3 DEF RowsIn
<1>10. /\ Cardinality(RowsIn({"imported", "error", "rolled_back", "rollback_skipped"})')
            = Cardinality(RowsIn({"imported", "error", "rolled_back", "rollback_skipped"})) + Cardinality(next)
       /\ Cardinality(RowsIn({"imported", "rolled_back", "rollback_skipped"})')
            = Cardinality(RowsIn({"imported", "rolled_back", "rollback_skipped"})) + Cardinality(made)
       /\ Cardinality(RowsIn({"error"})') = Cardinality(RowsIn({"error"})) + Cardinality(next \ made)
       /\ Cardinality(RowsIn({"rolled_back"})') = Cardinality(RowsIn({"rolled_back"}))
       /\ Cardinality(RowsIn({"rollback_skipped"})') = Cardinality(RowsIn({"rollback_skipped"}))
  BY <1>8, <1>9 DEF RowStates
<1>11. I!CountersAgree'
  BY <1>1, <1>2, <1>10, ImportSizes DEF ImportsInv, I!CountersAgree, I!Count, RowsIn
<1> QED BY <1>5, <1>6, <1>7, <1>11 DEF ImportsInv

\* Rolling back a row counts it once.
LEMMA ImportsRollbackRow ==
    ASSUME ImportsAssumed, ImportsInv, NEW b \in I!Requests, I!RollbackRow(b)
    PROVE  ImportsInv'
<1>1. PICK r \in I!First(todo[b]) : I!RollbackRow(b)!2!(r)
  BY DEF I!RollbackRow
<1> DEFINE unchanged == record[r] = "fresh"
           outcome == IF unchanged THEN "rolled_back" ELSE "rollback_skipped"
<1>2. /\ requestAt[b] = "undo" /\ r \in todo[b]
      /\ UNCHANGED <<batch, source, processed, success, errors, batchLock, requestAt>>
  BY DEF I!RollbackRow, I!First, I!batchVars
<1>3. r \in I!Rows /\ rows[r] = "imported"
  BY <1>2 DEF ImportsInv, ImportsTyped, WorkInHand
<1>4. /\ record' = [record EXCEPT ![r] = IF unchanged THEN "archived" ELSE @]
      /\ rolledBack' = rolledBack + IF unchanged THEN 1 ELSE 0
      /\ rollbackSkipped' = rollbackSkipped + IF unchanged THEN 0 ELSE 1
      /\ todo' = [todo EXCEPT ![b] = @ \ {r}]
      /\ rows' = [rows EXCEPT ![r] = outcome]
  <2>1. rows' = [rows EXCEPT ![r] = IF @ # "imported" THEN @ ELSE outcome]
    BY <1>1
  <2> QED BY <1>1, <1>3, <2>1
<1>5. PICK out \in {"rolled_back", "rollback_skipped"} :
            out = outcome /\ (unchanged <=> out = "rolled_back")
  OBVIOUS
<1>6. ImportsTyped'
  BY <1>2, <1>3, <1>4, <1>5 DEF ImportsInv, ImportsTyped, RowStates
<1>7. LockHeld' /\ RollbackForgets'
  BY <1>2 DEF ImportsInv, LockHeld, RollbackForgets
<1>8. WorkInHand'
  <2>1. \A q \in I!Requests \ {b} : requestAt[q] \notin {"land", "undo"}
    BY <1>2, AloneInLock DEF LockedPlaces
  <2>2. todo'[b] = todo[b] \ {r} /\ \A q \in I!Rows \ {r} : rows'[q] = rows[q]
    BY <1>3, <1>4 DEF ImportsInv, ImportsTyped
  <2>3. \A q \in todo[b] : q \in I!Rows /\ rows[q] = "imported"
    BY <1>2 DEF ImportsInv, ImportsTyped, WorkInHand
  <2>4. batch \in I!Completed \cup {"failed"}
    BY <1>2 DEF ImportsInv, WorkInHand
  <2> QED BY <1>2, <2>1, <2>2, <2>3, <2>4 DEF WorkInHand
<1>9. /\ RowsIn({"imported", "error", "rolled_back", "rollback_skipped"})'
            = RowsIn({"imported", "error", "rolled_back", "rollback_skipped"})
      /\ RowsIn({"imported", "rolled_back", "rollback_skipped"})'
            = RowsIn({"imported", "rolled_back", "rollback_skipped"})
      /\ RowsIn({"error"})' = RowsIn({"error"})
      /\ RowsIn({out})' = RowsIn({out}) \cup {r} /\ r \notin RowsIn({out})
      /\ \A other \in {"rolled_back", "rollback_skipped"} \ {out} : RowsIn({other})' = RowsIn({other})
  <2>1. rows' = [rows EXCEPT ![r] = out]
    BY <1>4, <1>5
  <2> QED BY <1>3, <1>5, <2>1 DEF RowsIn, ImportsInv, ImportsTyped
<1>10. /\ Cardinality(RowsIn({out})') = Cardinality(RowsIn({out})) + 1
       /\ \A s \in {"rolled_back", "rollback_skipped"} : Cardinality(RowsIn({s})) \in Nat
  <2>1. \A s \in {"rolled_back", "rollback_skipped"} :
            IsFiniteSet(RowsIn({s})) /\ Cardinality(RowsIn({s})) \in Nat
    BY RowsFinite DEF RowsIn
  <2> QED BY <1>9, <2>1, FS_AddElement
<1>11. I!CountersAgree'
  <2>1. /\ processed' = Cardinality(RowsIn({"imported", "error", "rolled_back", "rollback_skipped"})')
        /\ success' = Cardinality(RowsIn({"imported", "rolled_back", "rollback_skipped"})')
        /\ errors' = Cardinality(RowsIn({"error"})')
    BY <1>2, <1>9, ImportSizes DEF ImportsInv, I!CountersAgree, I!Count, RowsIn
  <2>2. rolledBack = Cardinality(RowsIn({"rolled_back"}))
        /\ rollbackSkipped = Cardinality(RowsIn({"rollback_skipped"}))
    BY ImportSizes DEF ImportsInv, I!CountersAgree, I!Count, RowsIn
  <2>3. rolledBack' = Cardinality(RowsIn({"rolled_back"})')
        /\ rollbackSkipped' = Cardinality(RowsIn({"rollback_skipped"})')
    <3>1. CASE out = "rolled_back"
      <4>1. rolledBack' = rolledBack + 1 /\ rollbackSkipped' = rollbackSkipped + 0
        BY <1>4, <1>5, <3>1
      <4>2. /\ Cardinality(RowsIn({"rolled_back"})') = Cardinality(RowsIn({"rolled_back"})) + 1
            /\ RowsIn({"rollback_skipped"})' = RowsIn({"rollback_skipped"})
        BY <1>9, <1>10, <3>1
      <4> QED BY <1>10, <2>2, <4>1, <4>2
    <3>2. CASE out = "rollback_skipped"
      <4>1. rolledBack' = rolledBack + 0 /\ rollbackSkipped' = rollbackSkipped + 1
        BY <1>4, <1>5, <3>2
      <4>2. /\ Cardinality(RowsIn({"rollback_skipped"})') = Cardinality(RowsIn({"rollback_skipped"})) + 1
            /\ RowsIn({"rolled_back"})' = RowsIn({"rolled_back"})
        BY <1>9, <1>10, <3>2
      <4> QED BY <1>10, <2>2, <4>1, <4>2
    <3> QED BY <3>1, <3>2
  <2> QED BY <2>1, <2>3, ImportSizes DEF I!CountersAgree, I!Count, RowsIn
<1> QED BY <1>6, <1>7, <1>8, <1>11 DEF ImportsInv

\* Every step keeps the invariant.
LEMMA ImportsStep == ImportsAssumed /\ ImportsInv /\ [I!Next]_I!vars => ImportsInv'
<1> SUFFICES ASSUME ImportsAssumed, ImportsInv, [I!Next]_I!vars PROVE ImportsInv'
  OBVIOUS
<1>1. ASSUME NEW w \in Workers, I!Execution(w) PROVE ImportsInv'
  <2>1. w \in I!Requests
    BY DEF I!Requests
  <2>2. CASE I!Take(w) \/ I!MarkProcessing(w) \/ I!RecordFailure(w) \/ I!Settle(w)
    BY <2>1, <2>2, ImportsGo
  <2>3. CASE I!Load(w) \/ I!CompleteBatch(w) \/ I!ActorGone(w)
    <3>1. CASE I!Load(w)
      BY <2>1, <3>1, ImportsLeave
    <3>2. CASE I!CompleteBatch(w)
      BY <2>1, <3>2, ImportsLeave
    <3>3. CASE I!ActorGone(w)
      BY <2>1, <3>3, ImportsLeave
    <3> QED BY <2>3, <3>1, <3>2, <3>3
  <2>4. CASE I!ReadRows(w)
    BY <2>1, <2>4, ImportsRead
  <2>5. CASE I!Checkpoint(w)
    BY <2>1, <2>5, ImportsCheckpoint
  <2> QED BY <1>1, <2>2, <2>3, <2>4, <2>5 DEF I!Execution
<1>2. ASSUME NEW b \in Rollbacks, I!Rollback(b) PROVE ImportsInv'
  <2>1. b \in I!Requests
    BY DEF I!Requests
  <2>2. CASE I!Begin(b)
    BY <2>1, <2>2, ImportsGo
  <2>3. CASE I!ListImported(b)
    BY <2>1, <2>3, ImportsLeave, ImportsRead
  <2>4. CASE I!CompleteRollback(b)
    BY <2>1, <2>4, ImportsLeave
  <2>5. CASE I!RollbackRow(b)
    BY <2>1, <2>5, ImportsRollbackRow
  <2> QED BY <1>2, <2>2, <2>3, <2>4, <2>5 DEF I!Rollback
<1>3. ASSUME NEW p \in I!Requests,
             I!Acquire(p) \/ I!CallFails(p) \/ I!Crash(p) PROVE ImportsInv'
  BY <1>3, ImportsAcquire, ImportsLeave
<1> QED BY <1>1, <1>2, <1>3, ImportsOutside DEF I!Next

\* Nothing was submitted yet.
LEMMA ImportsInit == ImportsAssumed /\ I!Init => ImportsInv
<1> SUFFICES ASSUME ImportsAssumed, I!Init PROVE ImportsInv
  OBVIOUS
<1>1. /\ batch = "none" /\ rows = [r \in I!Rows |-> "none"]
      /\ processed = 0 /\ success = 0 /\ errors = 0 /\ rolledBack = 0 /\ rollbackSkipped = 0
      /\ record = [r \in I!Rows |-> "none"] /\ batchLock = Nobody
      /\ requestAt = [p \in I!Requests |-> "idle"] /\ todo = [p \in I!Requests |-> {}]
  BY DEF I!Init
<1>2. ImportsTyped
  BY <1>1 DEF ImportsTyped, RowStates, ImportPlaces
<1>3. LockHeld /\ WorkInHand /\ RollbackForgets
  BY <1>1 DEF LockHeld, WorkInHand, RollbackForgets, I!RolledBack, LockedPlaces
<1>4. I!CountersAgree
  <2>1. \A S \in SUBSET (RowStates \ {"none"}) : RowsIn(S) = {}
    BY <1>1 DEF RowsIn
  <2>2. Cardinality({}) = 0
    BY FS_EmptySet
  <2>3. \A S \in SUBSET (RowStates \ {"none"}) : Cardinality(RowsIn(S)) = 0
    BY <2>1, <2>2
  <2> QED BY <1>1, <2>3, ImportSizes DEF I!CountersAgree, I!Count, RowsIn, RowStates
<1> QED BY <1>2, <1>3, <1>4 DEF ImportsInv

\* Through every checkpoint, interruption, resumption and rollback the counters
\* of a batch are those of its rows.
THEOREM CountersStayExact == ASSUME ImportsAssumed PROVE I!Spec => []I!CountersAgree
<1>1. ImportsInv => I!CountersAgree
  BY DEF ImportsInv
<1> QED BY <1>1, ImportsInit, ImportsStep, PTL DEF I!Spec

\* No step changes the outcome of a batch that was rolled back.
LEMMA RollbackStays == ImportsAssumed /\ ImportsInv /\ [I!Next]_I!vars => I!KeepsRollback
<1> SUFFICES ASSUME ImportsAssumed, ImportsInv, [I!Next]_I!vars, batch \in I!RolledBack
             PROVE  UNCHANGED I!outcomeVars
  BY DEF I!KeepsRollback
<1> USE DEF I!outcomeVars, I!batchVars, I!counterVars, I!rowVars, I!callVars, I!RolledBack
<1>0. source = "gone"
  BY DEF ImportsInv, RollbackForgets
<1>1. CASE I!Submit \/ I!GiveUp \/ I!ReplayDead \/ I!SourceDeadline \/ I!ExpireSource
           \/ I!Deactivate \/ I!Reactivate \/ (\E r \in I!Rows : I!TouchRecord(r)) \/ UNCHANGED I!vars
  BY <1>0, <1>1 DEF I!Submit, I!GiveUp, I!ReplayDead, I!SourceDeadline, I!ExpireSource,
     I!Deactivate,
                    I!Reactivate, I!TouchRecord, I!vars
<1>2. ASSUME NEW p \in I!Requests,
             I!Acquire(p) \/ I!CallFails(p) \/ I!Crash(p) PROVE UNCHANGED I!outcomeVars
  BY <1>2 DEF I!Acquire, I!CallFails, I!Crash
<1>3. ASSUME NEW w \in Workers, I!Execution(w) PROVE UNCHANGED I!outcomeVars
  BY <1>3 DEF I!Execution, I!Take, I!Load, I!MarkProcessing, I!ReadRows, I!Checkpoint,
     I!CompleteBatch, I!ActorGone,
              I!RecordFailure, I!Settle
<1>4. ASSUME NEW b \in Rollbacks, I!Rollback(b) PROVE UNCHANGED I!outcomeVars
  <2>1. requestAt[b] # "undo"
    BY DEF ImportsInv, WorkInHand, I!Requests, I!Completed
  <2> QED BY <1>4, <2>1 DEF I!Rollback, I!Begin, I!ListImported, I!RollbackRow,
             I!CompleteRollback
<1> QED BY <1>1, <1>2, <1>3, <1>4 DEF I!Next

\* A rollback that was completed stays, whatever is retried or recorded late.
THEOREM RollbacksStand == ASSUME ImportsAssumed PROVE I!Spec => I!RollbackIsFinal
BY ImportsInit, ImportsStep, RollbackStays, PTL DEF I!Spec, I!RollbackIsFinal

-----------------------------------------------------------------------------
(* The approvals of playbooks: WorkflowApprovals.                          *)

\* The names of its variables.
playbookActive == v1
playbookRevision == v2
memberStatus == v3
dealOwner == v4
moveAt == v5
captured == v6
requester == v7
playbookRun == v8
approval == v9
gate == v10
plan == v11
tasks == v12
decision == v13
told == v14
disabling == v15
overtaken == v16
USE DEF playbookActive, playbookRevision, memberStatus, dealOwner, moveAt, captured, requester,
        playbookRun, approval, gate, plan, tasks, decision, told, disabling, overtaken

\* What is taken of the constants: users are somebody, and the playbook has a
\* first revision.
ApprovalsAssumed == Nobody \notin Users /\ PlaybookRevisions \in Nat \ {0}

\* What a decision may be.
Choices == (Users \X W!Decisions \X DecisionKeys) \cup {W!NoDecision}

\* What a disabling in progress has read and seen.
Disablings == [by : Users \cup {Nobody}, target : Users \cup {Nobody},
               seen : SUBSET StageMoves, missed : SUBSET StageMoves,
               owner : Users \cup {Nobody}, moved : BOOLEAN]

\* The types of the playbook, of its runs and of the disabling in progress.
ApprovalsTyped ==
    /\ playbookActive \in BOOLEAN /\ playbookRevision \in 1..PlaybookRevisions
    /\ memberStatus \in [Users -> {"active", "disabled"}]
    /\ dealOwner \in Users \cup {Nobody}
    /\ moveAt \in [StageMoves -> {"idle", "read", "queueing", "failing", "skipping", "over"}]
    /\ captured \in [StageMoves -> 0..PlaybookRevisions]
    /\ requester \in [StageMoves -> Users \cup {Nobody}]
    /\ playbookRun \in [StageMoves -> {"none", "waiting", "succeeded", "failed", "skipped", "cancelled"}]
    /\ approval \in [StageMoves -> W!Decisions \cup {"none", "pending", "cancelled"}]
    /\ gate \in [StageMoves -> {"none", "queued", "succeeded", "failed", "skipped", "cancelled"}]
    /\ plan \in [StageMoves -> {"none", "queued", "succeeded", "skipped", "cancelled"}]
    /\ tasks \in [StageMoves -> Nat]
    /\ decision \in [StageMoves -> Choices]
    /\ told \in SUBSET (StageMoves \X Users \X W!Decisions \X DecisionKeys)
    /\ disabling \in Disablings
    /\ overtaken \in SUBSET StageMoves

\* Nothing of an event is written before its transaction commits.
Unwritten(e) ==
    moveAt[e] # "over" =>
        /\ playbookRun[e] = "none" /\ approval[e] = "none" /\ gate[e] = "none" /\ plan[e] = "none"
        /\ tasks[e] = 0 /\ decision[e] = W!NoDecision

\* The inductive invariant of the rows: they agree, and none is written before
\* the transaction of its event commits.
PlansInv ==
    ApprovalsTyped /\ (\A e \in StageMoves : Unwritten(e)) /\ W!PlansAgree

\* The rows of an event stand.
Stands(e) ==
    /\ playbookRun'[e] = playbookRun[e] /\ approval'[e] = approval[e] /\ gate'[e] = gate[e]
    /\ plan'[e] = plan[e] /\ tasks'[e] = tasks[e] /\ decision'[e] = decision[e]

\* A disabling in progress keeps its record when others commit.
LEMMA SnapshotKept ==
    ASSUME disabling \in Disablings, NEW S \in SUBSET StageMoves, W!DealMoves(S)
    PROVE  /\ disabling' \in Disablings
           /\ disabling'.target = disabling.target /\ disabling'.seen = disabling.seen
           /\ disabling'.missed =
                IF disabling.target = Nobody THEN disabling.missed ELSE disabling.missed \cup S
<1>1. CASE disabling.target = Nobody
  BY <1>1 DEF W!DealMoves
<1>2. CASE disabling.target # Nobody
  <2> DEFINE missed == disabling.missed \cup S
  <2>1. disabling' = [disabling EXCEPT !.moved = TRUE, !.missed = missed] /\ missed \in SUBSET StageMoves
    BY <1>2 DEF W!DealMoves, Disablings
  <2> HIDE DEF missed
  <2>2. /\ disabling' \in Disablings
        /\ disabling'.target = disabling.target /\ disabling'.seen = disabling.seen
        /\ disabling'.missed = missed
    BY <2>1 DEF Disablings
  <2> QED BY <1>2, <2>2 DEF missed
<1> QED BY <1>1, <1>2

\* A disabling that begins has such a record.
LEMMA SnapshotTaken ==
    ASSUME ApprovalsAssumed, ApprovalsTyped, NEW by \in Users, NEW u \in Users,
           W!BeginDisable(by, u)
    PROVE  /\ disabling' \in Disablings /\ disabling'.target = u
           /\ disabling'.seen = {e \in W!Pending : requester[e] = u} /\ disabling'.missed = {}
BY DEF W!BeginDisable, ApprovalsTyped, Disablings, W!Pending

\* No disabling in progress is such a record.
LEMMA NoSnapshot == W!NoRequest \in Disablings /\ W!NoRequest.target = Nobody
BY DEF W!NoRequest, Disablings

\* The steps, by what they write: nothing of the rows,
RowsUntouched ==
    \/ \E e \in StageMoves, u \in Users : W!BeginEvent(e, u)
    \/ \E e \in StageMoves, matched \in BOOLEAN : W!ReserveRun(e, matched)
    \/ \E e \in StageMoves : W!AbortEvent(e)
    \/ \E e \in StageMoves, u \in Users, d \in W!Decisions, k \in DecisionKeys : W!ReplayDecision(u, e, d, k)
    \/ \E u \in Users : W!AssignDeal(u)
    \/ \E by, u \in Users : W!BeginDisable(by, u) \/ W!Reactivate(by, u)
    \/ W!AbortDisable
    \/ UNCHANGED W!vars

\* the rows of what is pending, or those of one event.
Cancels ==
    \/ \E u \in Users : W!DeactivateDefinition(u)
    \/ \E u \in Users, on \in BOOLEAN : W!UpdateDefinition(u, on)
    \/ \E to \in Users \cup {Nobody} : W!CommitDisable(to)

\* The steps that write the rows of one event.
Writes ==
    \/ \E e \in StageMoves : W!CommitEvent(e)
    \/ \E e \in StageMoves, u \in Users, d \in W!Decisions, k \in DecisionKeys : W!DecideApproval(u, e, d, k)

\* Every step leaves the rows alone, cancels some, or writes those of one event.
LEMMA ApprovalSteps == [W!Next]_W!vars => RowsUntouched \/ Cancels \/ Writes
BY DEF W!Next, RowsUntouched, Cancels, Writes

\* What a cancellation does to the rows.
LEMMA Cancelled ==
    ASSUME Cancels
    PROVE  \E items \in SUBSET W!Pending : W!cancelPendingApprovalItems(items)
<1>1. CASE \E u \in Users : W!DeactivateDefinition(u)
  BY <1>1 DEF W!DeactivateDefinition
<1>2. CASE \E u \in Users, on \in BOOLEAN : W!UpdateDefinition(u, on)
  BY <1>2 DEF W!UpdateDefinition
<1>3. CASE \E to \in Users \cup {Nobody} : W!CommitDisable(to)
  BY <1>3 DEF W!CommitDisable, W!Disturbed
<1> QED BY <1>1, <1>2, <1>3 DEF Cancels

\* Rows that are not written stand.
LEMMA UntouchedStand == ASSUME RowsUntouched PROVE \A e \in StageMoves : Stands(e)
BY DEF RowsUntouched, W!BeginEvent, W!ReserveRun, W!AbortEvent, W!ReplayDecision,
   W!AssignDeal, W!BeginDisable,
       W!Reactivate, W!AbortDisable, W!vars, W!rows, Stands

\* Every step keeps the types.
LEMMA ApprovalTypes == ApprovalsAssumed /\ PlansInv /\ [W!Next]_W!vars => ApprovalsTyped'
<1> SUFFICES ASSUME ApprovalsAssumed, PlansInv, [W!Next]_W!vars PROVE ApprovalsTyped'
  OBVIOUS
<1>0. ApprovalsTyped
  BY DEF PlansInv
<1> USE DEF ApprovalsTyped, W!definition, W!rows
<1>1. ASSUME NEW e \in StageMoves, NEW u \in Users, W!BeginEvent(e, u) PROVE ApprovalsTyped'
  <2>1. (IF playbookActive THEN playbookRevision ELSE 0) \in 0..PlaybookRevisions
    BY <1>0 DEF ApprovalsAssumed
  <2> QED BY <1>0, <1>1, <2>1 DEF W!BeginEvent
<1>2. ASSUME NEW e \in StageMoves, NEW matched \in BOOLEAN, W!ReserveRun(e,
             matched) PROVE ApprovalsTyped'
  <2> DEFINE place == CASE ~matched -> "skipping"
                        [] matched /\ W!eligibleWorkflowApproverExists(e) -> "queueing"
                        [] OTHER -> "failing"
  <2>1. place \in {"skipping", "queueing", "failing"} /\ moveAt' = [moveAt EXCEPT ![e] = place]
    BY <1>2 DEF W!ReserveRun
  <2>2. UNCHANGED <<W!definition, memberStatus, dealOwner, W!rows, told, disabling, overtaken>>
    BY <1>2 DEF W!ReserveRun
  <2> HIDE DEF place
  <2> QED BY <1>0, <2>1, <2>2
<1>3. ASSUME NEW e \in StageMoves, W!CommitEvent(e) PROVE ApprovalsTyped'
  <2>1. PICK S \in SUBSET StageMoves : W!DealMoves(S)
    BY <1>3 DEF W!CommitEvent
  <2>2. disabling' \in Disablings
    BY <1>0, <2>1, SnapshotKept
  <2>3. dealOwner' \in Users \cup {Nobody} /\ moveAt' = [moveAt EXCEPT ![e] = "over"]
    BY <1>0, <1>3 DEF W!CommitEvent, W!OwnerAfter
  <2>4. \/ UNCHANGED <<playbookRun, approval, gate, plan>>
        \/ W!queueDealApproval(e) \/ W!failUnavailableDealApproval(e) \/ W!skipDealTaskRun(e)
    BY <1>3 DEF W!CommitEvent
  <2>5. /\ playbookRun' \in [StageMoves -> {"none", "waiting", "succeeded", "failed", "skipped", "cancelled"}]
        /\ approval' \in [StageMoves -> W!Decisions \cup {"none", "pending", "cancelled"}]
        /\ gate' \in [StageMoves -> {"none", "queued", "succeeded", "failed", "skipped", "cancelled"}]
        /\ plan' \in [StageMoves -> {"none", "queued", "succeeded", "skipped", "cancelled"}]
    BY <1>0, <2>4 DEF W!queueDealApproval, W!failUnavailableDealApproval, W!skipDealTaskRun
  <2>6. UNCHANGED <<W!definition, memberStatus, captured, requester, tasks, decision, told, overtaken>>
    BY <1>3 DEF W!CommitEvent
  <2> QED BY <1>0, <2>2, <2>3, <2>5, <2>6
<1>4. ASSUME NEW e \in StageMoves, W!AbortEvent(e) PROVE ApprovalsTyped'
  BY <1>0, <1>4 DEF W!AbortEvent, ApprovalsAssumed
<1>5. ASSUME NEW e \in StageMoves, NEW u \in Users, NEW d \in W!Decisions,
             NEW k \in DecisionKeys,
             W!DecideApproval(u, e, d, k)
      PROVE  ApprovalsTyped'
  <2>1. decision' \in [StageMoves -> Choices] /\ tasks' \in [StageMoves -> Nat]
    BY <1>0, <1>5 DEF W!DecideApproval, Choices
  <2>2. /\ playbookRun' \in [StageMoves -> {"none", "waiting", "succeeded", "failed", "skipped", "cancelled"}]
        /\ approval' \in [StageMoves -> W!Decisions \cup {"none", "pending", "cancelled"}]
        /\ gate' \in [StageMoves -> {"none", "queued", "succeeded", "failed", "skipped", "cancelled"}]
        /\ plan' \in [StageMoves -> {"none", "queued", "succeeded", "skipped", "cancelled"}]
    BY <1>0, <1>5 DEF W!DecideApproval
  <2> QED BY <1>0, <1>5, <2>1, <2>2 DEF W!DecideApproval
<1>6. ASSUME NEW e \in StageMoves, NEW u \in Users, NEW d \in W!Decisions,
             NEW k \in DecisionKeys,
             W!ReplayDecision(u, e, d, k)
      PROVE  ApprovalsTyped'
  BY <1>0, <1>6 DEF W!ReplayDecision
<1>7. ASSUME NEW u \in Users, W!AssignDeal(u) PROVE ApprovalsTyped'
  <2>1. disabling' \in Disablings
    BY <1>0, <1>7, SnapshotKept DEF W!AssignDeal
  <2> QED BY <1>0, <1>7, <2>1 DEF W!AssignDeal
<1>8. ASSUME NEW items \in SUBSET W!Pending, W!cancelPendingApprovalItems(items),
             UNCHANGED <<moveAt, told>>, playbookActive' \in BOOLEAN, playbookRevision' \in 1..PlaybookRevisions,
             memberStatus' \in [Users -> {"active", "disabled"}], dealOwner' \in Users \cup {Nobody},
             disabling' \in Disablings, overtaken' \in SUBSET StageMoves
      PROVE  ApprovalsTyped'
  BY <1>0, <1>8 DEF W!cancelPendingApprovalItems
<1>9. ASSUME NEW u \in Users, NEW on \in BOOLEAN,
             W!DeactivateDefinition(u) \/ W!UpdateDefinition(u, on)
      PROVE  ApprovalsTyped'
  <2>1. UNCHANGED <<moveAt, told, memberStatus, dealOwner, disabling>> /\ W!cancelPendingApprovalItems(W!Pending)
    BY <1>9 DEF W!DeactivateDefinition, W!UpdateDefinition
  <2>2. overtaken' \in SUBSET StageMoves
    BY <1>0, <1>9 DEF W!DeactivateDefinition, W!UpdateDefinition, W!Overtakes
  <2>3. playbookActive' \in BOOLEAN
    BY <1>9, Zenon DEF W!DeactivateDefinition, W!UpdateDefinition
  <2>4. playbookRevision' \in 1..PlaybookRevisions
    BY <1>0, <1>9 DEF W!DeactivateDefinition, W!UpdateDefinition, ApprovalsAssumed
  <2> QED BY <1>0, <1>8, <2>1, <2>2, <2>3, <2>4
<1>10. ASSUME NEW by \in Users, NEW u \in Users, W!BeginDisable(by, u) PROVE ApprovalsTyped'
  BY <1>0, <1>10, SnapshotTaken DEF W!BeginDisable
<1>11. ASSUME NEW by \in Users, NEW u \in Users, W!Reactivate(by, u) PROVE ApprovalsTyped'
  BY <1>0, <1>11 DEF W!Reactivate
<1>12. ASSUME NEW to \in Users \cup {Nobody}, W!CommitDisable(to) PROVE ApprovalsTyped'
  <2>1. UNCHANGED <<W!definition, moveAt, told>> /\ disabling' = W!NoRequest
        /\ W!cancelPendingApprovalItems(disabling.seen) /\ disabling.seen \subseteq W!Pending
    BY <1>12 DEF W!CommitDisable, W!Disturbed
  <2>2. dealOwner' \in Users \cup {Nobody} /\ memberStatus' \in [Users -> {"active", "disabled"}]
    BY <1>0, <1>12 DEF W!CommitDisable
  <2>3. overtaken' \in SUBSET StageMoves
    BY <1>0, <1>12 DEF W!CommitDisable, Disablings
  <2> QED BY <1>0, <1>8, <2>1, <2>2, <2>3, NoSnapshot
<1>13. CASE W!AbortDisable
  BY <1>0, <1>13, NoSnapshot DEF W!AbortDisable
<1>14. CASE UNCHANGED W!vars
  BY <1>0, <1>14 DEF W!vars
<1> QED
  BY <1>1, <1>2, <1>3, <1>4, <1>5, <1>6, <1>7, <1>9, <1>10, <1>11, <1>12, <1>13, <1>14
     DEF W!Next

\* What is decided or cancelled is left alone.
LEMMA DecisionsKept == PlansInv /\ [W!Next]_W!vars => W!KeepsDecisions
<1> SUFFICES ASSUME PlansInv, [W!Next]_W!vars, NEW e \in StageMoves, playbookRun[e] \notin {"none", "waiting"}
             PROVE  Stands(e)
  BY DEF W!KeepsDecisions, Stands
<1>0. /\ ApprovalsTyped /\ moveAt[e] = "over" /\ approval[e] # "pending"
  BY DEF PlansInv, Unwritten, W!PlansAgree, W!RowsAgree
<1>1. CASE RowsUntouched
  BY <1>1, UntouchedStand
<1>2. CASE Cancels
  <2>1. PICK items \in SUBSET W!Pending : W!cancelPendingApprovalItems(items)
    BY <1>2, Cancelled
  <2> QED BY <1>0, <2>1 DEF W!cancelPendingApprovalItems, Stands, W!Pending
<1>3. ASSUME NEW f \in StageMoves, W!CommitEvent(f) PROVE Stands(e)
  <2>1. f # e
    BY <1>0, <1>3 DEF W!CommitEvent
  <2> QED
    BY <1>0, <1>3, <2>1 DEF W!CommitEvent, W!queueDealApproval, W!failUnavailableDealApproval,
                            W!skipDealTaskRun, Stands, ApprovalsTyped
<1>4. ASSUME NEW f \in StageMoves, NEW u \in Users, NEW d \in W!Decisions,
             NEW k \in DecisionKeys,
             W!DecideApproval(u, f, d, k)
      PROVE  Stands(e)
  <2>1. f # e
    BY <1>0, <1>4 DEF W!DecideApproval
  <2> QED BY <1>0, <1>4, <2>1 DEF W!DecideApproval, Stands, ApprovalsTyped
<1> QED BY <1>1, <1>2, <1>3, <1>4, ApprovalSteps DEF Writes

\* Rows that stand agree as before.
LEMMA RowsStand ==
    ASSUME NEW e \in StageMoves, Stands(e)
    PROVE  /\ W!RowsAgree(e) => W!RowsAgree(e)'
           /\ (moveAt[e] = "over" => moveAt'[e] = "over") /\ Unwritten(e) => Unwritten(e)'
BY DEF Stands, W!RowsAgree, Unwritten

\* A cancellation writes rows that agree.
LEMMA RowsCancelled ==
    ASSUME NEW items \in SUBSET W!Pending, W!cancelPendingApprovalItems(items),
           NEW e \in StageMoves,
           ApprovalsTyped, W!RowsAgree(e), Unwritten(e), moveAt' = moveAt
    PROVE  W!RowsAgree(e)' /\ Unwritten(e)'
<1>1. CASE e \in items
  <2>1. /\ approval'[e] = "cancelled" /\ playbookRun'[e] = "cancelled" /\ gate'[e] = "cancelled"
        /\ plan'[e] = "cancelled" /\ tasks' = tasks /\ decision' = decision
    BY <1>1 DEF W!cancelPendingApprovalItems
  <2>2. approval[e] = "pending" /\ moveAt[e] = "over"
    BY <1>1 DEF W!Pending, Unwritten
  <2>3. tasks[e] = 0 /\ decision[e] = W!NoDecision
    BY <2>2 DEF W!RowsAgree, W!Decisions
  <2> QED BY <2>1, <2>2, <2>3 DEF W!RowsAgree, Unwritten, W!Decisions
<1>2. CASE e \notin items
  <2>1. Stands(e)
    BY <1>2 DEF W!cancelPendingApprovalItems, Stands
  <2> QED BY <2>1, RowsStand
<1> QED BY <1>1, <1>2

\* The transaction of an event writes rows that agree.
LEMMA RowsCommitted ==
    ASSUME ApprovalsTyped, NEW f \in StageMoves, W!CommitEvent(f), NEW e \in StageMoves,
           W!RowsAgree(e), Unwritten(e)
    PROVE  W!RowsAgree(e)' /\ Unwritten(e)'
<1>0. UNCHANGED <<tasks, decision>> /\ moveAt' = [moveAt EXCEPT ![f] = "over"] /\ moveAt[f] # "over"
  BY DEF W!CommitEvent
<1>1. CASE f = e
  <2>1. /\ playbookRun[e] = "none" /\ approval[e] = "none" /\ gate[e] = "none" /\ plan[e] = "none"
        /\ tasks[e] = 0 /\ decision[e] = W!NoDecision
    BY <1>0, <1>1 DEF Unwritten
  <2>2. moveAt'[e] = "over"
    BY <1>0, <1>1 DEF ApprovalsTyped
  <2>3. CASE UNCHANGED <<playbookRun, approval, gate, plan>>
    BY <1>0, <2>1, <2>2, <2>3 DEF W!RowsAgree, Unwritten, W!Decisions
  <2>4. CASE W!queueDealApproval(f)
    <3>1. playbookRun'[e] = "waiting" /\ approval'[e] = "pending" /\ gate'[e] = "queued" /\ plan'[e] = "queued"
      BY <1>1, <2>4 DEF W!queueDealApproval, ApprovalsTyped
    <3> QED BY <1>0, <2>1, <2>2, <3>1 DEF W!RowsAgree, Unwritten, W!Decisions
  <2>5. CASE W!failUnavailableDealApproval(f)
    <3>1. playbookRun'[e] = "failed" /\ approval'[e] = "none" /\ gate'[e] = "failed" /\ plan'[e] = "cancelled"
      BY <1>1, <2>1, <2>5 DEF W!failUnavailableDealApproval, ApprovalsTyped
    <3> QED BY <1>0, <2>1, <2>2, <3>1 DEF W!RowsAgree, Unwritten, W!Decisions
  <2>6. CASE W!skipDealTaskRun(f)
    <3>1. playbookRun'[e] = "skipped" /\ approval'[e] = "none" /\ gate'[e] = "skipped" /\ plan'[e] = "skipped"
      BY <1>1, <2>1, <2>6 DEF W!skipDealTaskRun, ApprovalsTyped
    <3> QED BY <1>0, <2>1, <2>2, <3>1 DEF W!RowsAgree, Unwritten, W!Decisions
  <2> QED BY <2>3, <2>4, <2>5, <2>6 DEF W!CommitEvent
<1>2. CASE f # e
  <2>1. Stands(e) /\ moveAt'[e] = moveAt[e]
    BY <1>0, <1>2 DEF W!CommitEvent, W!queueDealApproval, W!failUnavailableDealApproval,
       W!skipDealTaskRun,
                      Stands, ApprovalsTyped
  <2> QED BY <2>1, RowsStand
<1> QED BY <1>1, <1>2

\* A decision writes rows that agree, and its tasks once.
LEMMA RowsDecided ==
    ASSUME ApprovalsAssumed, ApprovalsTyped, NEW f \in StageMoves, NEW u \in Users,
           NEW d \in W!Decisions,
           NEW k \in DecisionKeys, W!DecideApproval(u, f, d, k), NEW e \in StageMoves, W!RowsAgree(e), Unwritten(e)
    PROVE  W!RowsAgree(e)' /\ Unwritten(e)'
<1>0. moveAt' = moveAt /\ approval[f] = "pending"
  BY DEF W!DecideApproval
<1>1. CASE f = e
  <2>1. tasks[e] = 0 /\ moveAt[e] = "over"
    BY <1>0, <1>1 DEF W!RowsAgree, Unwritten
  <2>2. decision'[e] = <<u, d, k>> /\ approval'[e] = d /\ gate'[e] = "succeeded"
    BY <1>1 DEF W!DecideApproval, ApprovalsTyped
  <2>3. decision'[e] # W!NoDecision
    BY <2>2 DEF W!NoDecision, ApprovalsAssumed
  <2>4. CASE d = "approved"
    <3>1. playbookRun'[e] = "succeeded" /\ plan'[e] = "succeeded" /\ tasks'[e] = 1
      BY <1>1, <2>1, <2>4 DEF W!DecideApproval, ApprovalsTyped
    <3> QED BY <1>0, <2>1, <2>2, <2>3, <2>4, <3>1 DEF W!RowsAgree, Unwritten, W!Decisions
  <2>5. CASE d = "rejected"
    <3>1. playbookRun'[e] = "cancelled" /\ plan'[e] = "cancelled" /\ tasks'[e] = 0
      BY <1>1, <2>1, <2>5 DEF W!DecideApproval, ApprovalsTyped
    <3> QED BY <1>0, <2>1, <2>2, <2>3, <2>5, <3>1 DEF W!RowsAgree, Unwritten, W!Decisions
  <2> QED BY <2>4, <2>5 DEF W!Decisions
<1>2. CASE f # e
  <2>1. Stands(e) /\ moveAt'[e] = moveAt[e]
    BY <1>0, <1>2 DEF W!DecideApproval, Stands, ApprovalsTyped
  <2> QED BY <2>1, RowsStand
<1> QED BY <1>1, <1>2

\* A transaction that is over stays over.
LEMMA OverStays ==
    ASSUME ApprovalsTyped, RowsUntouched, NEW e \in StageMoves
    PROVE  moveAt[e] = "over" => moveAt'[e] = "over"
<1>1. ASSUME NEW f \in StageMoves, NEW u \in Users, W!BeginEvent(f,
             u) PROVE moveAt[e] = "over" => moveAt'[e] = "over"
  BY <1>1 DEF W!BeginEvent, ApprovalsTyped
<1>2. ASSUME NEW f \in StageMoves, NEW matched \in BOOLEAN, W!ReserveRun(f, matched)
      PROVE  moveAt[e] = "over" => moveAt'[e] = "over"
  BY <1>2 DEF W!ReserveRun, ApprovalsTyped
<1>3. ASSUME NEW f \in StageMoves,
             W!AbortEvent(f) PROVE moveAt[e] = "over" => moveAt'[e] = "over"
  BY <1>3 DEF W!AbortEvent, W!InFlight, ApprovalsTyped
<1>4. CASE \/ \E f \in StageMoves, u \in Users, d \in W!Decisions, k \in DecisionKeys : W!ReplayDecision(u, f, d, k)
           \/ \E u \in Users : W!AssignDeal(u)
           \/ \E by, u \in Users : W!BeginDisable(by, u) \/ W!Reactivate(by, u)
           \/ W!AbortDisable
           \/ UNCHANGED W!vars
  BY <1>4 DEF W!ReplayDecision, W!AssignDeal, W!BeginDisable, W!Reactivate, W!AbortDisable,
     W!vars
<1> QED BY <1>1, <1>2, <1>3, <1>4 DEF RowsUntouched

\* Every step keeps the invariant of the rows.
LEMMA PlansStep == ApprovalsAssumed /\ PlansInv /\ [W!Next]_W!vars => PlansInv'
<1> SUFFICES ASSUME ApprovalsAssumed, PlansInv, [W!Next]_W!vars PROVE PlansInv'
  OBVIOUS
<1>0. ApprovalsTyped /\ ApprovalsTyped'
  BY ApprovalTypes DEF PlansInv
<1>1. ASSUME NEW e \in StageMoves PROVE W!RowsAgree(e)' /\ Unwritten(e)'
  <2>0. W!RowsAgree(e) /\ Unwritten(e)
    BY DEF PlansInv, W!PlansAgree
  <2>1. CASE RowsUntouched
    <3>1. Stands(e) /\ (moveAt[e] = "over" => moveAt'[e] = "over")
      BY <1>0, <2>1, UntouchedStand, OverStays
    <3> QED BY <2>0, <3>1, RowsStand
  <2>2. CASE Cancels
    <3>1. PICK items \in SUBSET W!Pending : W!cancelPendingApprovalItems(items)
      BY <2>2, Cancelled
    <3>2. moveAt' = moveAt
      BY <2>2 DEF Cancels, W!DeactivateDefinition, W!UpdateDefinition, W!CommitDisable
    <3> QED BY <1>0, <2>0, <3>1, <3>2, RowsCancelled
  <2>3. CASE Writes
    BY <1>0, <2>0, <2>3, RowsCommitted, RowsDecided DEF Writes
  <2> QED BY <2>1, <2>2, <2>3, ApprovalSteps
<1>2. W!ToldAsDecided'
  <2> SUFFICES ASSUME NEW t \in told' PROVE decision'[t[1]] = <<t[2], t[3], t[4]>>
    BY DEF W!ToldAsDecided
  <2>1. t[1] \in StageMoves /\ t[2] \in Users
    BY <1>0 DEF ApprovalsTyped
  <2>2. CASE t \in told
    <3>1. decision[t[1]] = <<t[2], t[3], t[4]>>
      BY <2>2 DEF PlansInv, W!PlansAgree, W!ToldAsDecided
    <3>2. decision[t[1]] # W!NoDecision
      BY <2>1, <3>1 DEF W!NoDecision, ApprovalsAssumed
    <3>3. approval[t[1]] \in W!Decisions
      BY <2>1, <3>2 DEF PlansInv, W!PlansAgree, W!RowsAgree
    <3>4. playbookRun[t[1]] \notin {"none", "waiting"}
      BY <2>1, <3>3 DEF PlansInv, W!PlansAgree, W!RowsAgree, W!Decisions
    <3> QED BY <2>1, <3>1, <3>4, DecisionsKept DEF W!KeepsDecisions
  <2>3. CASE t \notin told
    <3>1. PICK e \in StageMoves, u \in Users, d \in W!Decisions, k \in DecisionKeys : W!ReplayDecision(u, e, d, k)
      <4>1. told' # told
        BY <2>3
      <4>2. ~Cancels /\ ~Writes
        BY <4>1 DEF Cancels, Writes, W!DeactivateDefinition, W!UpdateDefinition,
           W!CommitDisable, W!CommitEvent,
                    W!DecideApproval
      <4>3. RowsUntouched
        BY <4>2, ApprovalSteps
      <4> QED BY <4>1, <4>3 DEF RowsUntouched, W!BeginEvent, W!ReserveRun, W!AbortEvent,
                 W!AssignDeal,
                                W!BeginDisable, W!Reactivate, W!AbortDisable, W!vars
    <3> QED BY <2>3, <3>1 DEF W!ReplayDecision, W!rows
  <2> QED BY <2>2, <2>3
<1> QED BY <1>0, <1>1, <1>2 DEF PlansInv, W!PlansAgree

\* Nothing was planned yet.
LEMMA PlansInit == ApprovalsAssumed /\ W!Init => PlansInv
<1> SUFFICES ASSUME ApprovalsAssumed, W!Init PROVE PlansInv
  OBVIOUS
<1>1. ApprovalsTyped
  BY NoSnapshot DEF W!Init, ApprovalsTyped, Choices, ApprovalsAssumed
<1>2. \A e \in StageMoves : Unwritten(e) /\ W!RowsAgree(e)
  BY DEF W!Init, Unwritten, W!RowsAgree, W!Decisions
<1> QED BY <1>1, <1>2 DEF W!Init, PlansInv, W!PlansAgree, W!ToldAsDecided

\* The run, the approval, the outcomes and the tasks of every event tell one
\* story, and what was decided or cancelled is not decided again.
THEOREM ApprovalsAgree ==
    ASSUME ApprovalsAssumed
    PROVE  W!Spec => [](W!PlansAgree) /\ [][W!KeepsDecisions]_W!vars
<1>1. PlansInv /\ [W!Next]_W!vars => [W!KeepsDecisions]_W!vars
  BY DecisionsKept
<1>2. PlansInv => W!PlansAgree
  BY DEF PlansInv
<1> QED BY <1>1, <1>2, PlansInit, PlansStep, PTL DEF W!Spec

\* An event under way is the move of an active member, and knows the definition
\* or is overtaken.
UnderWay(e) ==
    W!InFlight(e) =>
        /\ requester[e] \in Users /\ memberStatus[requester[e]] = "active"
        /\ moveAt[e] = "read" \/ captured[e] # 0
        /\ captured[e] # 0 => e \in overtaken \/ (playbookActive /\ captured[e] = playbookRevision)

\* A disabling under way has seen what is pending of its member, or missed it
\* because it was committed since.
Watched(e) ==
    approval[e] = "pending" /\ disabling.target # Nobody /\ requester[e] = disabling.target =>
        e \in disabling.seen \cup disabling.missed

\* An approval left pending is current, or one of the two was overtaken.
Excused(e) ==
    approval[e] = "pending" =>
        \/ e \in overtaken
        \/ playbookActive /\ captured[e] = playbookRevision /\ memberStatus[requester[e]] = "active"

\* The inductive invariant of what lingers.
LingerInv == PlansInv /\ \A e \in StageMoves : UnderWay(e) /\ Watched(e) /\ Excused(e)

\* The property the runs check, event by event.
LEMMA Lingers == W!OnlyOvertakenPlansLinger <=> \A e \in StageMoves : Excused(e)
BY DEF W!OnlyOvertakenPlansLinger, Excused, W!Pending

\* What is pending after a cancellation was pending and not among the cancelled.
LEMMA CancelledAreFew ==
    ASSUME NEW items \in SUBSET W!Pending, W!cancelPendingApprovalItems(items),
           NEW e \in StageMoves,
           approval'[e] = "pending"
    PROVE  approval[e] = "pending" /\ e \notin items
BY DEF W!cancelPendingApprovalItems

\* Every step keeps the invariant of what lingers.
LEMMA LingerStep == ApprovalsAssumed /\ LingerInv /\ [W!Next]_W!vars => LingerInv'
<1> SUFFICES ASSUME ApprovalsAssumed, LingerInv, [W!Next]_W!vars, NEW e \in StageMoves
             PROVE  UnderWay(e)' /\ Watched(e)' /\ Excused(e)'
  BY PlansStep DEF LingerInv
<1>0. /\ ApprovalsTyped /\ UnderWay(e) /\ Watched(e) /\ Excused(e)
      /\ (approval[e] = "pending" => moveAt[e] = "over") /\ Nobody \notin Users
  BY DEF LingerInv, PlansInv, Unwritten, ApprovalsAssumed
<1> USE DEF W!InFlight
<1>1. ASSUME NEW f \in StageMoves, NEW u \in Users, W!BeginEvent(f, u)
      PROVE  UnderWay(e)' /\ Watched(e)' /\ Excused(e)'
  <2>1. UNCHANGED <<W!definition, memberStatus, approval, disabling, overtaken>> /\ memberStatus[u] = "active"
    BY <1>1 DEF W!BeginEvent
  <2>2. CASE f = e
    <3>1. /\ moveAt'[e] = "read" /\ requester'[e] = u /\ moveAt[e] = "idle"
          /\ captured'[e] = IF playbookActive THEN playbookRevision ELSE 0
      BY <1>0, <1>1, <2>2 DEF W!BeginEvent, ApprovalsTyped
    <3> QED BY <1>0, <2>1, <3>1 DEF UnderWay, Watched, Excused, W!definition
  <2>3. CASE f # e
    <3>1. moveAt'[e] = moveAt[e] /\ requester'[e] = requester[e] /\ captured'[e] = captured[e]
      BY <1>0, <1>1, <2>3 DEF W!BeginEvent, ApprovalsTyped
    <3> QED BY <1>0, <2>1, <3>1 DEF UnderWay, Watched, Excused, W!definition
  <2> QED BY <2>2, <2>3
<1>2. ASSUME NEW f \in StageMoves, NEW matched \in BOOLEAN, W!ReserveRun(f, matched)
      PROVE  UnderWay(e)' /\ Watched(e)' /\ Excused(e)'
  <2>1. UNCHANGED <<W!definition, memberStatus, W!rows, disabling, overtaken>>
        /\ moveAt[f] = "read" /\ captured[f] # 0
    BY <1>2 DEF W!ReserveRun
  <2>2. f # e => moveAt'[e] = moveAt[e]
    BY <1>0, <1>2 DEF W!ReserveRun, ApprovalsTyped
  <2> QED BY <1>0, <2>1, <2>2 DEF UnderWay, Watched, Excused, W!definition, W!rows
<1>3. ASSUME NEW f \in StageMoves, W!CommitEvent(f)
      PROVE  UnderWay(e)' /\ Watched(e)' /\ Excused(e)'
  <2> DEFINE S == {f} \cap {g \in StageMoves : requester[g] = disabling.target}
  <2>1. /\ UNCHANGED <<W!definition, memberStatus, captured, requester, overtaken>> /\ W!DealMoves(S)
        /\ moveAt' = [moveAt EXCEPT ![f] = "over"]
    BY <1>3 DEF W!CommitEvent
  <2>2. /\ disabling'.target = disabling.target /\ disabling'.seen = disabling.seen
        /\ disabling'.missed =
             IF disabling.target = Nobody THEN disabling.missed ELSE disabling.missed \cup S
    BY <1>0, <2>1, SnapshotKept DEF ApprovalsTyped
  <2>3. CASE f = e
    <3>1. moveAt'[e] = "over"
      BY <1>0, <2>1, <2>3 DEF ApprovalsTyped
    <3>2. approval'[e] = "pending" => moveAt[e] = "queueing"
      BY <1>0, <1>3, <2>3 DEF W!CommitEvent, ApprovalsTyped, W!failUnavailableDealApproval,
         W!skipDealTaskRun
    <3>3. UnderWay(e)'
      BY <3>1 DEF UnderWay
    <3>4. Watched(e)'
      BY <2>1, <2>2, <2>3 DEF Watched
    <3>5. Excused(e)'
      BY <1>0, <2>1, <3>2 DEF UnderWay, Excused, W!definition
    <3> QED BY <3>3, <3>4, <3>5
  <2>4. CASE f # e
    <3>1. moveAt'[e] = moveAt[e] /\ approval'[e] = approval[e]
      BY <1>0, <1>3, <2>4 DEF W!CommitEvent, W!queueDealApproval, W!failUnavailableDealApproval,
                              W!skipDealTaskRun, ApprovalsTyped
    <3>2. UnderWay(e)' /\ Excused(e)'
      BY <1>0, <2>1, <3>1 DEF UnderWay, Excused, W!definition
    <3>3. Watched(e)'
      BY <1>0, <2>1, <2>2, <3>1 DEF Watched
    <3> QED BY <3>2, <3>3
  <2> QED BY <2>3, <2>4
<1>4. ASSUME NEW f \in StageMoves, W!AbortEvent(f)
      PROVE  UnderWay(e)' /\ Watched(e)' /\ Excused(e)'
  <2>1. UNCHANGED <<W!definition, memberStatus, approval, disabling>> /\ overtaken' = overtaken \ {f}
    BY <1>4 DEF W!AbortEvent
  <2>2. CASE f = e
    <3>1. moveAt'[e] = "idle" /\ moveAt[e] # "over"
      BY <1>0, <1>4, <2>2 DEF W!AbortEvent, ApprovalsTyped
    <3> QED BY <1>0, <2>1, <3>1 DEF UnderWay, Watched, Excused, W!definition
  <2>3. CASE f # e
    <3>1. moveAt'[e] = moveAt[e] /\ requester'[e] = requester[e] /\ captured'[e] = captured[e]
      BY <1>0, <1>4, <2>3 DEF W!AbortEvent, ApprovalsTyped
    <3> QED BY <1>0, <2>1, <2>3, <3>1 DEF UnderWay, Watched, Excused, W!definition
  <2> QED BY <2>2, <2>3
<1>5. ASSUME NEW f \in StageMoves, NEW u \in Users, NEW d \in W!Decisions,
             NEW k \in DecisionKeys,
             W!DecideApproval(u, f, d, k)
      PROVE  UnderWay(e)' /\ Watched(e)' /\ Excused(e)'
  <2>1. UNCHANGED <<W!definition, memberStatus, moveAt, captured, requester, disabling, overtaken>>
    BY <1>5 DEF W!DecideApproval
  <2>2. approval'[e] = "pending" => approval[e] = "pending"
    BY <1>0, <1>5 DEF W!DecideApproval, W!Decisions, ApprovalsTyped
  <2> QED BY <1>0, <2>1, <2>2 DEF UnderWay, Watched, Excused, W!definition
<1>6. CASE \/ \E f \in StageMoves, u \in Users, d \in W!Decisions, k \in DecisionKeys : W!ReplayDecision(u, f, d, k)
           \/ UNCHANGED W!vars
  BY <1>0, <1>6 DEF W!ReplayDecision, W!vars, W!rows, W!definition, UnderWay, Watched, Excused
<1>7. ASSUME NEW u \in Users, W!AssignDeal(u) PROVE UnderWay(e)' /\ Watched(e)' /\ Excused(e)'
  <2>1. UNCHANGED <<W!definition, memberStatus, moveAt, W!rows, overtaken>> /\ W!DealMoves({})
    BY <1>7 DEF W!AssignDeal
  <2>2. disabling'.target = disabling.target /\ disabling'.seen = disabling.seen
        /\ disabling'.missed = disabling.missed
    <3>1. disabling \in Disablings /\ {} \in SUBSET StageMoves
      BY <1>0 DEF ApprovalsTyped
    <3>2. PICK S \in SUBSET StageMoves : S = {} /\ W!DealMoves(S)
      BY <2>1
    <3> QED BY <3>1, <3>2, SnapshotKept
  <2> QED BY <1>0, <2>1, <2>2 DEF UnderWay, Watched, Excused, W!rows, W!definition
<1>8. ASSUME NEW u \in Users, NEW on \in BOOLEAN,
             W!DeactivateDefinition(u) \/ W!UpdateDefinition(u, on)
      PROVE  UnderWay(e)' /\ Watched(e)' /\ Excused(e)'
  <2>1. /\ UNCHANGED <<memberStatus, moveAt, captured, requester, disabling>>
        /\ W!cancelPendingApprovalItems(W!Pending) /\ overtaken' = overtaken \cup W!Overtakes
        /\ W!DefinitionFree
    BY <1>8 DEF W!DeactivateDefinition, W!UpdateDefinition, W!cancelPendingApprovalItems,
                W!lockWorkflowDefinitionWriter
  <2>2. approval'[e] # "pending"
    BY <2>1 DEF W!cancelPendingApprovalItems, W!Pending
  <2>3. UnderWay(e)'
    BY <1>0, <2>1 DEF UnderWay, W!Overtakes, W!DefinitionFree
  <2> QED BY <2>2, <2>3 DEF Watched, Excused
<1>9. ASSUME NEW by \in Users, NEW u \in Users, W!BeginDisable(by, u)
      PROVE  UnderWay(e)' /\ Watched(e)' /\ Excused(e)'
  <2>1. UNCHANGED <<W!definition, memberStatus, moveAt, W!rows, overtaken>>
    BY <1>9 DEF W!BeginDisable
  <2>2. disabling'.target = u /\ disabling'.seen = {g \in W!Pending : requester[g] = u}
    BY <1>0, <1>9, SnapshotTaken
  <2>3. UnderWay(e)' /\ Excused(e)'
    BY <1>0, <2>1 DEF UnderWay, Excused, W!definition, W!rows
  <2>4. Watched(e)'
    BY <2>1, <2>2 DEF Watched, W!rows, W!Pending
  <2> QED BY <2>3, <2>4
<1>10. ASSUME NEW by \in Users, NEW u \in Users, W!Reactivate(by, u)
       PROVE  UnderWay(e)' /\ Watched(e)' /\ Excused(e)'
  <2>1. UNCHANGED <<W!definition, moveAt, W!rows, disabling, overtaken>>
    BY <1>10 DEF W!Reactivate
  <2>2. \A v \in Users : memberStatus[v] = "active" => memberStatus'[v] = "active"
    BY <1>0, <1>10 DEF W!Reactivate, ApprovalsTyped
  <2>3. requester[e] = Nobody => memberStatus'[requester[e]] = memberStatus[requester[e]]
    BY <1>0, <1>10 DEF W!Reactivate, ApprovalsTyped
  <2> QED BY <1>0, <2>1, <2>2, <2>3 DEF UnderWay, Watched, Excused, W!definition, W!rows,
             ApprovalsTyped
<1>11. ASSUME NEW to \in Users \cup {Nobody}, W!CommitDisable(to)
       PROVE  UnderWay(e)' /\ Watched(e)' /\ Excused(e)'
  <2> DEFINE u == disabling.target
  <2>1. /\ UNCHANGED <<W!definition, moveAt, captured, requester>> /\ disabling' = W!NoRequest
        /\ W!cancelPendingApprovalItems(disabling.seen) /\ disabling.seen \in SUBSET W!Pending
        /\ memberStatus' = [memberStatus EXCEPT ![u] = "disabled"] /\ overtaken' = overtaken \cup disabling.missed
        /\ W!MembershipFree(u) /\ u # Nobody
    BY <1>11 DEF W!CommitDisable, W!Disturbed, W!cancelPendingApprovalItems
  <2>2. Watched(e)'
    BY <2>1 DEF Watched, W!NoRequest
  <2>3. \A x : x # u /\ memberStatus[x] = "active" => memberStatus'[x] = "active"
    BY <1>0, <2>1 DEF ApprovalsTyped
  <2>4. UnderWay(e)'
    BY <1>0, <2>1, <2>3 DEF UnderWay, W!MembershipFree, W!definition
  <2>5. Excused(e)'
    <3> SUFFICES ASSUME approval'[e] = "pending" PROVE Excused(e)'
      BY DEF Excused
    <3>1. approval[e] = "pending" /\ e \notin disabling.seen
      BY <2>1, CancelledAreFew
    <3>2. CASE requester[e] = u
      BY <1>0, <2>1, <3>1, <3>2 DEF Watched, Excused
    <3>3. CASE requester[e] # u
      BY <1>0, <2>1, <2>3, <3>1, <3>3 DEF Excused, W!definition
    <3> QED BY <3>2, <3>3
  <2> QED BY <2>2, <2>4, <2>5
<1>12. CASE W!AbortDisable
  BY <1>0, <1>12, NoSnapshot DEF W!AbortDisable, UnderWay, Watched, Excused, W!definition,
     W!rows
<1> QED
  BY <1>1, <1>2, <1>3, <1>4, <1>5, <1>6, <1>7, <1>8, <1>9, <1>10, <1>11, <1>12 DEF W!Next

\* Nothing lingers yet.
LEMMA LingerInit == ApprovalsAssumed /\ W!Init => LingerInv
<1> SUFFICES ASSUME ApprovalsAssumed, W!Init PROVE LingerInv
  OBVIOUS
<1>1. \A e \in StageMoves : UnderWay(e) /\ Watched(e) /\ Excused(e)
  BY DEF W!Init, UnderWay, W!InFlight, Watched, Excused
<1> QED BY <1>1, PlansInit DEF LingerInv

\* An approval left pending belongs to the current revision of an active
\* definition and to an active requester, or the writer that should have
\* cancelled it had read before its event committed.
THEOREM OnlyOvertakenLinger ==
    ASSUME ApprovalsAssumed
    PROVE  W!Spec => []W!OnlyOvertakenPlansLinger
<1>1. LingerInv => W!OnlyOvertakenPlansLinger
  BY Lingers DEF LingerInv
<1> QED BY <1>1, LingerInit, LingerStep, PTL DEF W!Spec

-----------------------------------------------------------------------------
(* Scheduled reports: ReportSchedules.                                     *)

\* The names of its variables.
scheduleRevision == v1
scheduleActive == v2
recipients == v3
scheduleDue == v4
isMember == v5
reportRun == v6
runRevision == v7
artifact == v8
delivery == v9
recovery == v10
reportPhase == v11
reportTries == v12
reportOwner == v13
workerAt == v14
workerJob == v15
lastTry == v16
target == v17
handedOver == v18
retried == v19
USE DEF scheduleRevision, scheduleActive, recipients, scheduleDue, isMember, reportRun,
        runRevision, artifact, delivery, recovery, reportPhase, reportTries, reportOwner,
        workerAt, workerJob, lastTry, target, handedOver, retried

\* What is taken of the constants: finitely many workers and a number of retries.
ReportsAssumed == IsFiniteSet(Workers) /\ Retries \in Nat

\* The states of a run.
RunStates == {"none"} \cup R!Open \cup R!Closed

\* Where a worker may be.
WorkerPlaces == {"idle", "prepare", "claim", "count", "send"} \cup R!Answers \cup R!Verdicts

\* The phases of a job.
JobStates == {"none", "waiting", "taken", "done", "failed"}

\* The types of the runs, the deliveries, the jobs and the workers.
ReportsTyped ==
    /\ reportRun \in [Runs -> RunStates]
    /\ delivery \in [Runs -> [Recipients -> R!DeliveryStatuses]]
    /\ recovery \in [Runs -> 0..Retries]
    /\ reportPhase \in [R!Jobs -> JobStates]
    /\ reportOwner \in [R!Jobs -> Workers \cup {Nobody}]
    /\ workerAt \in [Workers -> WorkerPlaces]
    /\ workerJob \in [Workers -> R!Jobs \cup {Idle}]
    /\ target \in [Workers -> Recipients \cup {Nobody}]
    /\ handedOver \in [Runs -> [Recipients -> Int]]
    /\ retried \in [Runs -> [Recipients -> Nat]]
    /\ \A w \in Workers : workerAt[w] # "idle" => workerJob[w] \in R!Jobs
    /\ \A w \in Workers : workerAt[w] \in {"send"} \cup R!Answers => target[w] \in Recipients

\* A run that is summed up is closed.
LEMMA SummaryCloses == ASSUME NEW r, NEW d PROVE R!Summary(r, d) \in R!Closed
BY DEF R!Summary, R!Closed

\* Deliveries of a run that are moved together.
LEMMA BecomesDoes ==
    ASSUME delivery \in [Runs -> [Recipients -> R!DeliveryStatuses]], NEW r \in Runs,
           NEW from, NEW to \in R!DeliveryStatuses
    PROVE  /\ R!Becomes(r, from, to) \in [Runs -> [Recipients -> R!DeliveryStatuses]]
           /\ \A q \in Runs : q # r => R!Becomes(r, from, to)[q] = delivery[q]
           /\ \A u \in Recipients :
                 R!Becomes(r, from, to)[r][u] = IF delivery[r][u] \in from THEN to ELSE delivery[r][u]
BY DEF R!Becomes

\* What cancelling stale runs does to deliveries.
LEMMA StaleCancelled ==
    ASSUME delivery \in [Runs -> [Recipients -> R!DeliveryStatuses]],
           reportRun \in [Runs -> RunStates],
           NEW Stale \in SUBSET Runs, R!CancelStale(Stale)
    PROVE  /\ delivery' \in [Runs -> [Recipients -> R!DeliveryStatuses]] /\ reportRun' \in [Runs -> RunStates]
           /\ \A r \in Runs, u \in Recipients :
                delivery'[r][u] = delivery[r][u]
                \/ (delivery[r][u] = "pending" /\ delivery'[r][u] = "skipped")
           /\ \A r \in Runs :
                reportRun'[r] = reportRun[r] \/ (r \in Stale /\ reportRun[r] \in R!Open /\ reportRun'[r] \in R!Closed)
           /\ \A r \in Stale : reportRun[r] \in R!Open => reportRun'[r] \in R!Closed
<1> DEFINE d == [r \in Runs |-> IF r \in Stale THEN R!Becomes(r, {"pending"}, "skipped")[r] ELSE delivery[r]]
<1>1. delivery' = d /\ reportRun' = [r \in Runs |-> IF r \in Stale THEN R!Finalized(r, d)[r] ELSE reportRun[r]]
  BY DEF R!CancelStale
<1>2. \A r \in Runs : d[r] \in [Recipients -> R!DeliveryStatuses]
          /\ \A u \in Recipients : d[r][u] = delivery[r][u]
                              \/ (delivery[r][u] = "pending" /\ d[r][u] = "skipped")
  BY BecomesDoes DEF R!DeliveryStatuses
<1>3. d \in [Runs -> [Recipients -> R!DeliveryStatuses]]
  BY <1>2
<1> HIDE DEF d
<1>4. \A r \in Runs : R!Finalized(r, d)[r] = IF reportRun[r] \in R!Open THEN R!Summary(r, d) ELSE reportRun[r]
  BY DEF R!Finalized
<1>5. \A r \in Runs : R!Summary(r, d) \in R!Closed
  BY SummaryCloses
<1>6. \A r \in Runs : reportRun'[r] = IF r \in Stale /\ reportRun[r] \in R!Open THEN R!Summary(r, d) ELSE reportRun[r]
  BY <1>1, <1>4
<1>7. reportRun' \in [Runs -> RunStates]
  BY <1>1, <1>4, <1>5 DEF RunStates
<1> QED BY <1>1, <1>2, <1>3, <1>5, <1>6, <1>7

\* What a worker's own step leaves alone.
OthersWork(w) ==
    \A x \in Workers \ {w} : workerAt'[x] = workerAt[x] /\ workerJob'[x] = workerJob[x] /\ target'[x] = target[x]

\* What a worker that goes on does to the others.
LEMMA WorkerGoes ==
    ASSUME ReportsTyped, NEW w \in Workers, workerAt[w] # "idle", NEW p \in WorkerPlaces,
           R!Goto(w, p),
           UNCHANGED workerJob,
           target' = target \/ target' = [target EXCEPT ![w] = Nobody],
           p \in {"send"} \cup R!Answers => target' = target /\ target[w] \in Recipients
    PROVE  /\ workerAt' \in [Workers -> WorkerPlaces] /\ target' \in [Workers -> Recipients \cup {Nobody}]
           /\ workerAt'[w] = p /\ OthersWork(w)
           /\ \A x \in Workers : workerAt'[x] # "idle" => workerJob'[x] \in R!Jobs
           /\ \A x \in Workers : workerAt'[x] \in {"send"} \cup R!Answers => target'[x] \in Recipients
BY DEF ReportsTyped, R!Goto, OthersWork

\* What a worker that ends does to the others.
LEMMA WorkerRests ==
    ASSUME ReportsTyped, NEW w \in Workers, R!BackToIdle(w)
    PROVE  /\ workerAt' \in [Workers -> WorkerPlaces] /\ target' \in [Workers -> Recipients \cup {Nobody}]
           /\ workerJob' \in [Workers -> R!Jobs \cup {Idle}]
           /\ workerAt'[w] = "idle" /\ OthersWork(w)
           /\ \A x \in Workers : workerAt'[x] # "idle" => workerJob'[x] \in R!Jobs
           /\ \A x \in Workers : workerAt'[x] \in {"send"} \cup R!Answers => target'[x] \in Recipients
           /\ UNCHANGED <<reportRun, delivery, recovery, handedOver, retried>>
<1>1. /\ workerAt' = [workerAt EXCEPT ![w] = "idle"] /\ workerJob' = [workerJob EXCEPT ![w] = Idle]
      /\ target' = [target EXCEPT ![w] = Nobody] /\ "idle" \in WorkerPlaces
      /\ "idle" \notin {"send"} \cup R!Answers
  BY DEF R!BackToIdle, R!Goto, WorkerPlaces, R!Answers
<1>2. UNCHANGED <<reportRun, delivery, recovery, handedOver, retried>>
  BY DEF R!BackToIdle, R!runVars
<1> QED BY <1>1, <1>2 DEF ReportsTyped, OthersWork

\* The queue's part of a step: the phase of one job, and who owns it.
LEMMA QueueSettles ==
    ASSUME ReportsTyped, NEW w \in Workers, workerAt[w] # "idle", R!Settle(w)
    PROVE  /\ reportPhase' \in [R!Jobs -> JobStates] /\ reportOwner' \in [R!Jobs -> Workers \cup {Nobody}]
           /\ \A j \in R!Jobs : j # workerJob[w] => reportPhase'[j] = reportPhase[j]
           /\ reportPhase'[workerJob[w]] \in {"waiting", "done", "failed"}
           /\ reportPhase'[workerJob[w]] = "done" => workerAt[w] = "ok"
<1> DEFINE j == workerJob[w]
<1>1. j \in R!Jobs
  BY DEF ReportsTyped
<1>2. /\ R!Queue!Settle(w, j) /\ workerAt[w] \in R!Verdicts
      /\ reportPhase'[j] = CASE workerAt[w] = "ok" -> "done"
                       [] workerAt[w] = "permanent" -> "failed"
                       [] workerAt[w] = "deferred" -> "waiting"
                       [] workerAt[w] = "error" -> IF reportTries[j] < ReportAttempts THEN "waiting" ELSE "failed"
  BY DEF R!Settle
<1> HIDE DEF j
<1>3. PICK p \in {"done", "failed", "waiting"} : reportPhase' = [reportPhase EXCEPT ![j] = p]
  BY <1>2 DEF R!Queue!Settle
<1>4. reportOwner' = [reportOwner EXCEPT ![j] = Nobody]
  BY <1>2 DEF R!Queue!Settle
<1>5. reportPhase'[j] = "done" => workerAt[w] = "ok"
  <2>1. workerAt[w] = "permanent" => reportPhase'[j] = "failed"
    BY <1>2
  <2>2. workerAt[w] = "deferred" => reportPhase'[j] = "waiting"
    BY <1>2
  <2>3. workerAt[w] = "error" => reportPhase'[j] \in {"waiting", "failed"}
    BY <1>2
  <2> QED BY <1>2, <2>1, <2>2, <2>3 DEF R!Verdicts
<1>6. reportPhase'[j] = p
  BY <1>1, <1>3 DEF ReportsTyped
<1>7. reportPhase' \in [R!Jobs -> JobStates] /\ reportOwner' \in [R!Jobs -> Workers \cup {Nobody}]
      /\ \A i \in R!Jobs : i # j => reportPhase'[i] = reportPhase[i]
  BY <1>1, <1>3, <1>4 DEF ReportsTyped, JobStates
<1> QED BY <1>3, <1>5, <1>6, <1>7 DEF j

\* What submitting a job does.
LEMMA JobSubmitted ==
    ASSUME ReportsTyped, NEW j \in R!Jobs, R!Queue!Submit(j)
    PROVE  /\ reportPhase' \in [R!Jobs -> JobStates] /\ reportOwner' = reportOwner
           /\ reportPhase'[j] = "waiting" /\ \A i \in R!Jobs : i # j => reportPhase'[i] = reportPhase[i]
BY DEF R!Queue!Submit, ReportsTyped, JobStates

\* What taking a job does.
LEMMA JobTaken ==
    ASSUME ReportsTyped, NEW w \in Workers, NEW j \in R!Jobs, R!Take(w, j)
    PROVE  /\ reportPhase' \in [R!Jobs -> JobStates] /\ reportOwner' \in [R!Jobs -> Workers \cup {Nobody}]
           /\ reportPhase[j] \in {"waiting", "taken"} /\ reportPhase'[j] = "taken"
           /\ \A i \in R!Jobs : i # j => reportPhase'[i] = reportPhase[i]
           /\ workerAt' = [workerAt EXCEPT ![w] = "prepare"] /\ workerJob' = [workerJob EXCEPT ![w] = j]
           /\ UNCHANGED <<reportRun, delivery, recovery, target, handedOver, retried>>
<1>1. /\ reportPhase' = [i \in R!Jobs |-> IF i = j THEN "taken" ELSE IF i \in {} THEN "failed" ELSE reportPhase[i]]
      /\ reportOwner' = [i \in R!Jobs |-> IF i = j THEN w ELSE IF i \in {} THEN Nobody ELSE reportOwner[i]]
      /\ reportPhase[j] \in {"waiting", "taken"}
  BY DEF R!Take, R!Queue!Take
<1>2. /\ workerAt' = [workerAt EXCEPT ![w] = "prepare"] /\ workerJob' = [workerJob EXCEPT ![w] = j]
      /\ UNCHANGED <<reportRun, delivery, recovery, target, handedOver, retried>>
  BY DEF R!Take, R!Goto, R!runVars
<1> QED BY <1>1, <1>2 DEF ReportsTyped, JobStates

\* What giving a job up does.
LEMMA JobGivenUp ==
    ASSUME ReportsTyped, NEW j \in R!Jobs, R!GiveUp(j)
    PROVE  /\ reportPhase' \in [R!Jobs -> JobStates] /\ reportOwner' \in [R!Jobs -> Workers \cup {Nobody}]
           /\ reportPhase[j] = "taken" /\ reportPhase'[j] = "failed"
           /\ \A i \in R!Jobs : i # j => reportPhase'[i] = reportPhase[i]
<1>1. /\ reportPhase' = [i \in R!Jobs |-> IF i \in {j} THEN "failed" ELSE reportPhase[i]]
      /\ reportOwner' = [i \in R!Jobs |-> IF i \in {j} THEN Nobody ELSE reportOwner[i]]
      /\ reportPhase[j] = "taken"
  BY DEF R!GiveUp, R!Queue!GiveUp, R!Queue!Spent
<1> QED BY <1>1 DEF ReportsTyped, JobStates

\* How the delivery of a recipient may move.
DeliveryStep(r, u) ==
    \/ delivery'[r][u] = delivery[r][u]
    \/ reportRun[r] = "none" /\ delivery'[r][u] \in {"none", "pending"}
    \/ delivery[r][u] = "pending" /\ delivery'[r][u] \in {"skipped", "failed", "sending"}
    \/ delivery[r][u] = "sending" /\ delivery'[r][u] = "stalled"
    \/ delivery[r][u] \in R!Sending /\ delivery'[r][u] \in {"accepted", "uncertain", "failed", "pending"}
    \/ delivery[r][u] = "uncertain" /\ delivery'[r][u] = "accepted"
    \/ /\ delivery[r][u] \in {"failed", "uncertain"} /\ delivery'[r][u] = "pending"
       /\ retried'[r][u] = retried[r][u] + 1

\* So does every delivery.
DeliverySteps == \A r \in Runs, u \in Recipients : DeliveryStep(r, u)

\* A worker that works has a run.
LEMMA RunKnown == ASSUME ReportsTyped, NEW w \in Workers, workerAt[w] # "idle" PROVE R!RunOf(w) \in Runs
BY DEF ReportsTyped, R!RunOf, R!Jobs

\* What keeping the provider's answer does: only a delivery still being sent
\* takes it.
LEMMA KeptDoes ==
    ASSUME ReportsTyped, NEW w \in Workers, workerAt[w] \in R!Answers,
           NEW status \in {"accepted", "uncertain", "failed", "pending"}, R!Keep(w, status)
    PROVE  /\ R!RunOf(w) \in Runs /\ target[w] \in Recipients
           /\ delivery' \in [Runs -> [Recipients -> R!DeliveryStatuses]]
           /\ target' = [target EXCEPT ![w] = Nobody]
           /\ DeliverySteps
           /\ \A r \in Runs, u \in Recipients :
                 \/ delivery'[r][u] = delivery[r][u]
                 \/ r = R!RunOf(w) /\ u = target[w] /\ delivery'[r][u] = status
<1> DEFINE r == R!RunOf(w)
           u == target[w]
<1>1. r \in Runs /\ u \in Recipients
  BY RunKnown DEF ReportsTyped, R!Answers
<1>2. /\ delivery' = IF delivery[r][u] \in R!Sending THEN [delivery EXCEPT ![r][u] = status] ELSE delivery
      /\ target' = [target EXCEPT ![w] = Nobody]
  BY DEF R!Keep, R!Awaits
<1> HIDE DEF r, u
<1>3. delivery \in [Runs -> [Recipients -> R!DeliveryStatuses]] /\ status \in R!DeliveryStatuses
  BY DEF ReportsTyped, R!DeliveryStatuses
<1>4. CASE delivery[r][u] \in R!Sending
  <2>1. delivery' \in [Runs -> [Recipients -> R!DeliveryStatuses]] /\ delivery'[r][u] = status
        /\ \A q \in Runs, v \in Recipients : q # r \/ v # u => delivery'[q][v] = delivery[q][v]
    BY <1>1, <1>2, <1>3, <1>4
  <2>2. DeliverySteps
    BY <1>4, <2>1 DEF DeliverySteps, DeliveryStep
  <2> QED BY <1>1, <1>2, <2>1, <2>2 DEF r, u
<1>5. CASE delivery[r][u] \notin R!Sending
  <2>1. delivery' = delivery
    BY <1>2, <1>5
  <2>2. DeliverySteps
    BY <2>1 DEF DeliverySteps, DeliveryStep
  <2> QED BY <1>1, <1>2, <1>3, <2>1, <2>2 DEF r, u
<1> QED BY <1>4, <1>5

\* What enqueueing a run does.
LEMMA ReportEnqueued ==
    ASSUME ReportsAssumed, ReportsTyped, NEW r \in Runs, R!EnqueueDueDeliveries(r)
    PROVE  /\ ReportsTyped' /\ DeliverySteps
           /\ reportRun[r] = "none" /\ reportRun' = [reportRun EXCEPT ![r] = "pending"]
           /\ \A q \in Runs : q # r => delivery'[q] = delivery[q]
           /\ reportPhase'[<<r, 0>>] = "waiting" /\ \A j \in R!Jobs : j # <<r, 0>> => reportPhase'[j] = reportPhase[j]
           /\ UNCHANGED <<recovery, workerAt, workerJob, target, handedOver, retried>>
<1> DEFINE sent == [u \in Recipients |-> IF u \in recipients /\ isMember[u] THEN "pending" ELSE "none"]
<1>1. /\ reportRun[r] = "none" /\ reportRun' = [reportRun EXCEPT ![r] = "pending"]
      /\ delivery' = [delivery EXCEPT ![r] = sent] /\ R!Queue!Submit(<<r, 0>>)
      /\ UNCHANGED <<recovery, workerAt, workerJob, target, handedOver, retried>>
  BY DEF R!EnqueueDueDeliveries, R!workerVars
<1>2. <<r, 0>> \in R!Jobs
  BY DEF R!Jobs, ReportsAssumed
<1>3. /\ reportPhase' \in [R!Jobs -> JobStates] /\ reportOwner' = reportOwner
      /\ reportPhase'[<<r, 0>>] = "waiting" /\ \A i \in R!Jobs : i # <<r, 0>> => reportPhase'[i] = reportPhase[i]
  BY <1>1, <1>2, JobSubmitted
<1>4. sent \in [Recipients -> R!DeliveryStatuses] /\ \A u \in Recipients : sent[u] \in {"none", "pending"}
  BY DEF R!DeliveryStatuses
<1> HIDE DEF sent
<1>5. delivery' \in [Runs -> [Recipients -> R!DeliveryStatuses]] /\ reportRun' \in [Runs -> RunStates]
      /\ delivery'[r] = sent /\ \A q \in Runs : q # r => delivery'[q] = delivery[q]
  BY <1>1, <1>4 DEF ReportsTyped, RunStates, R!Open
<1>6. DeliverySteps
  BY <1>1, <1>4, <1>5 DEF DeliverySteps, DeliveryStep
<1>7. ReportsTyped'
  BY <1>1, <1>3, <1>5 DEF ReportsTyped
<1> QED BY <1>1, <1>3, <1>5, <1>6, <1>7

\* What an operator's confirmation does.
LEMMA ReportConfirmed ==
    ASSUME ReportsTyped, NEW r \in Runs, NEW u \in Recipients, R!ConfirmSent(r, u)
    PROVE  /\ ReportsTyped' /\ DeliverySteps
           /\ delivery[r][u] = "uncertain" /\ delivery' = [delivery EXCEPT ![r][u] = "accepted"]
           /\ reportRun'[r] \in R!Closed /\ \A q \in Runs : q # r => reportRun'[q] = reportRun[q]
           /\ UNCHANGED <<recovery, reportPhase, workerAt, workerJob, target, handedOver, retried>>
<1>1. /\ delivery[r][u] = "uncertain" /\ delivery' = [delivery EXCEPT ![r][u] = "accepted"]
      /\ UNCHANGED <<recovery, reportPhase, reportOwner, workerAt, workerJob, target, handedOver, retried>>
  BY DEF R!ConfirmSent, R!jobVars, R!workerVars
<1>2. PICK s \in R!Closed : reportRun' = [reportRun EXCEPT ![r] = s]
  BY SummaryCloses DEF R!ConfirmSent
<1>3. reportRun' \in [Runs -> RunStates] /\ reportRun'[r] \in R!Closed /\ \A q \in Runs : q # r => reportRun'[q] = reportRun[q]
  BY <1>2 DEF ReportsTyped, RunStates
<1>4. delivery' \in [Runs -> [Recipients -> R!DeliveryStatuses]]
  BY <1>1 DEF ReportsTyped, R!DeliveryStatuses
<1>5. DeliverySteps
  BY <1>1 DEF ReportsTyped, DeliverySteps, DeliveryStep
<1>6. ReportsTyped'
  BY <1>1, <1>3, <1>4 DEF ReportsTyped
<1> QED BY <1>1, <1>3, <1>5, <1>6

\* What an operator's retry does: one more job, one more decision to send.
LEMMA ReportRetried ==
    ASSUME ReportsAssumed, ReportsTyped, NEW r \in Runs, NEW u \in Recipients, R!Retry(r, u)
    PROVE  /\ ReportsTyped' /\ DeliverySteps
           /\ delivery[r][u] \in {"failed", "uncertain"} /\ delivery' = [delivery EXCEPT ![r][u] = "pending"]
           /\ reportRun' = [reportRun EXCEPT ![r] = "sending"]
           /\ recovery' = [recovery EXCEPT ![r] = @ + 1]
           /\ retried' = [retried EXCEPT ![r][u] = @ + 1]
           /\ <<r, recovery[r] + 1>> \in R!Jobs /\ reportPhase'[<<r, recovery[r] + 1>>] = "waiting"
           /\ \A j \in R!Jobs : j # <<r, recovery[r] + 1>> => reportPhase'[j] = reportPhase[j]
           /\ UNCHANGED <<workerAt, workerJob, target, handedOver>>
<1>1. /\ delivery[r][u] \in {"failed", "uncertain"} /\ delivery' = [delivery EXCEPT ![r][u] = "pending"]
      /\ reportRun' = [reportRun EXCEPT ![r] = "sending"] /\ recovery[r] < Retries
      /\ recovery' = [recovery EXCEPT ![r] = @ + 1]
      /\ retried' = [retried EXCEPT ![r][u] = @ + 1]
      /\ R!Queue!Submit(<<r, recovery[r] + 1>>)
      /\ UNCHANGED <<workerAt, workerJob, target, handedOver>>
  BY DEF R!Retry, R!Recoverable, R!workerVars
<1>2. recovery[r] + 1 \in 0..Retries
  BY <1>1 DEF ReportsAssumed, ReportsTyped
<1>3. <<r, recovery[r] + 1>> \in R!Jobs
  BY <1>2 DEF R!Jobs
<1>4. /\ reportPhase' \in [R!Jobs -> JobStates] /\ reportOwner' = reportOwner
      /\ reportPhase'[<<r, recovery[r] + 1>>] = "waiting"
      /\ \A i \in R!Jobs : i # <<r, recovery[r] + 1>> => reportPhase'[i] = reportPhase[i]
  BY <1>1, <1>3, JobSubmitted
<1>5. /\ delivery' \in [Runs -> [Recipients -> R!DeliveryStatuses]] /\ reportRun' \in [Runs -> RunStates]
      /\ recovery' \in [Runs -> 0..Retries] /\ retried' \in [Runs -> [Recipients -> Nat]]
  BY <1>1, <1>2 DEF ReportsTyped, R!DeliveryStatuses, RunStates, R!Open
<1>6. DeliverySteps
  BY <1>1 DEF ReportsTyped, DeliverySteps, DeliveryStep
<1>7. ReportsTyped'
  BY <1>1, <1>4, <1>5 DEF ReportsTyped
<1> QED BY <1>1, <1>3, <1>4, <1>6, <1>7

\* A quarantined delivery is uncertain.
LEMMA StalledQuarantined ==
    ASSUME ReportsTyped, NEW r \in Runs
    PROVE  /\ R!Quarantined(r) \in [Runs -> [Recipients -> R!DeliveryStatuses]]
           /\ \A q \in Runs, u \in Recipients :
                 \/ R!Quarantined(r)[q][u] = delivery[q][u]
                 \/ delivery[q][u] = "stalled" /\ R!Quarantined(r)[q][u] = "uncertain"
<1>1. delivery \in [Runs -> [Recipients -> R!DeliveryStatuses]] /\ "uncertain" \in R!DeliveryStatuses
  BY DEF ReportsTyped, R!DeliveryStatuses
<1>2. /\ R!Quarantined(r) \in [Runs -> [Recipients -> R!DeliveryStatuses]]
      /\ \A q \in Runs : q # r => R!Quarantined(r)[q] = delivery[q]
      /\ \A u \in Recipients : R!Quarantined(r)[r][u] = IF delivery[r][u] \in {"stalled"} THEN "uncertain"
                                                 ELSE delivery[r][u]
  BY <1>1, BecomesDoes DEF R!Quarantined
<1> QED BY <1>2

\* What claiming a delivery does.
LEMMA ReportClaimed ==
    ASSUME ReportsTyped, NEW w \in Workers, NEW u \in Recipients, R!Claim(w, u)
    PROVE  /\ ReportsTyped' /\ DeliverySteps
           /\ R!RunOf(w) \in Runs /\ delivery[R!RunOf(w)][u] = "pending"
           /\ delivery'[R!RunOf(w)][u] \in {"sending", "skipped"}
           /\ \A q \in Runs, v \in Recipients : delivery'[q][v] = "pending" => delivery[q][v] = "pending"
           /\ handedOver' = handedOver \/ handedOver' = [handedOver EXCEPT ![R!RunOf(w)][u] = @ + 1]
           /\ workerAt[w] = "claim" /\ workerAt'[w] \in {"claim", "send", "error"} /\ OthersWork(w)
           /\ UNCHANGED <<reportRun, recovery, reportPhase, workerJob, retried>>
<1> DEFINE r == R!RunOf(w)
           d == R!Quarantined(r)
           to == IF isMember[u] /\ u \in recipients THEN "sending" ELSE "skipped"
<1>0. workerAt[w] = "claim" /\ r \in Runs /\ d[r][u] = "pending" /\ to \in {"sending", "skipped"}
  BY RunKnown DEF R!Claim
<1>1. /\ d \in [Runs -> [Recipients -> R!DeliveryStatuses]]
      /\ \A q \in Runs, v \in Recipients : d[q][v] = delivery[q][v]
                                      \/ (delivery[q][v] = "stalled" /\ d[q][v] = "uncertain")
  BY <1>0, StalledQuarantined
<1>2. /\ delivery' = [d EXCEPT ![r][u] = to]
      /\ \/ handedOver' = [handedOver EXCEPT ![r][u] = @ + 1] /\ R!Goto(w, "send") /\ target' = [target EXCEPT ![w] = u]
         \/ handedOver' = [handedOver EXCEPT ![r][u] = @ + 1] /\ R!Goto(w, "error") /\ UNCHANGED target
         \/ UNCHANGED <<workerAt, handedOver, target>>
      /\ UNCHANGED <<reportRun, recovery, reportPhase, reportOwner, workerJob, retried>>
  BY DEF R!Claim, R!runVars, R!jobVars
<1> HIDE DEF r, d, to
<1>3. delivery[r][u] = "pending"
  BY <1>0, <1>1
<1>4. /\ delivery' \in [Runs -> [Recipients -> R!DeliveryStatuses]] /\ delivery'[r][u] = to
      /\ \A q \in Runs, v \in Recipients : q # r \/ v # u => delivery'[q][v] = d[q][v]
  BY <1>0, <1>1, <1>2 DEF R!DeliveryStatuses
<1>5. DeliverySteps
  <2> SUFFICES ASSUME NEW q \in Runs, NEW v \in Recipients PROVE DeliveryStep(q, v)
    BY DEF DeliverySteps
  <2>1. CASE q = r /\ v = u
    BY <2>1, <1>0, <1>3, <1>4 DEF DeliveryStep
  <2>2. CASE q # r \/ v # u
    <3>1. delivery'[q][v] = delivery[q][v]
          \/ (delivery[q][v] = "stalled" /\ delivery'[q][v] = "uncertain")
      BY <2>2, <1>1, <1>4
    <3> QED BY <3>1 DEF DeliveryStep, R!Sending
  <2> QED BY <2>1, <2>2
<1>6. \A q \in Runs, v \in Recipients : delivery'[q][v] = "pending" => delivery[q][v] = "pending"
  BY <1>0, <1>1, <1>3, <1>4
<1>7. /\ workerAt' \in [Workers -> WorkerPlaces] /\ target' \in [Workers -> Recipients \cup {Nobody}]
      /\ workerAt'[w] \in {"claim", "send", "error"} /\ OthersWork(w)
      /\ \A x \in Workers : workerAt'[x] # "idle" => workerJob'[x] \in R!Jobs
      /\ \A x \in Workers : workerAt'[x] \in {"send"} \cup R!Answers => target'[x] \in Recipients
      /\ handedOver' \in [Runs -> [Recipients -> Int]]
  <2>1. CASE /\ handedOver' = [handedOver EXCEPT ![r][u] = @ + 1] /\ R!Goto(w, "send")
             /\ target' = [target EXCEPT ![w] = u]
    <3>1. workerAt' = [workerAt EXCEPT ![w] = "send"] /\ target' = [target EXCEPT ![w] = u] /\ workerJob' = workerJob
      BY <2>1, <1>2 DEF R!Goto
    <3>2. handedOver' \in [Runs -> [Recipients -> Int]]
      BY <2>1, <1>0 DEF ReportsTyped
    <3> QED BY <3>1, <3>2, <1>0 DEF ReportsTyped, OthersWork, WorkerPlaces
  <2>2. CASE handedOver' = [handedOver EXCEPT ![r][u] = @ + 1] /\ R!Goto(w, "error") /\ UNCHANGED target
    <3>1. handedOver' \in [Runs -> [Recipients -> Int]]
      BY <2>2, <1>0 DEF ReportsTyped
    <3> QED BY <2>2, <3>1, <1>0, <1>2, WorkerGoes DEF R!Verdicts, R!Answers, WorkerPlaces
  <2>3. CASE UNCHANGED <<workerAt, handedOver, target>>
    BY <2>3, <1>0, <1>2 DEF ReportsTyped, OthersWork
  <2> QED BY <2>1, <2>2, <2>3, <1>2
<1>8. ReportsTyped'
  BY <1>2, <1>4, <1>7 DEF ReportsTyped
<1> QED BY <1>0, <1>2, <1>3, <1>4, <1>5, <1>6, <1>7, <1>8 DEF r, d, to

\* What sending does: a definite refusal gives the hand-over back.
LEMMA ReportSent ==
    ASSUME ReportsTyped, NEW w \in Workers, R!Send(w)
    PROVE  /\ ReportsTyped' /\ DeliverySteps
           /\ workerAt[w] = "send" /\ workerAt'[w] \in R!Answers /\ OthersWork(w) /\ target[w] \in Recipients
           /\ R!RunOf(w) \in Runs
           /\ handedOver' = IF workerAt'[w] = "rejected" THEN [handedOver EXCEPT ![R!RunOf(w)][target[w]] = @ - 1] ELSE handedOver
           /\ UNCHANGED <<reportRun, delivery, recovery, reportPhase, workerJob, target, retried>>
<1> DEFINE r == R!RunOf(w)
           u == target[w]
<1>0. workerAt[w] = "send" /\ r \in Runs /\ u \in Recipients
  BY RunKnown DEF R!Send, ReportsTyped
<1>1. PICK a \in R!Answers :
         /\ R!Goto(w, a) /\ handedOver' = IF a = "rejected" THEN [handedOver EXCEPT ![r][u] = @ - 1] ELSE handedOver
         /\ UNCHANGED <<reportRun, delivery, recovery, reportPhase, reportOwner, workerJob, target, retried>>
  BY DEF R!Send, R!runVars, R!jobVars
<1> HIDE DEF r, u
<1>2. workerAt'[w] = a
  BY <1>1 DEF ReportsTyped, R!Goto
<1>3. handedOver' \in [Runs -> [Recipients -> Int]]
  BY <1>0, <1>1 DEF ReportsTyped
<1>4. DeliverySteps
  BY <1>1 DEF DeliverySteps, DeliveryStep
<1>5. /\ workerAt' \in [Workers -> WorkerPlaces] /\ OthersWork(w)
      /\ \A x \in Workers : workerAt'[x] # "idle" => workerJob'[x] \in R!Jobs
      /\ \A x \in Workers : workerAt'[x] \in {"send"} \cup R!Answers => target'[x] \in Recipients
  BY <1>0, <1>1 DEF ReportsTyped, R!Goto, WorkerPlaces, OthersWork, u
<1>6. ReportsTyped'
  BY <1>1, <1>3, <1>5 DEF ReportsTyped
<1> QED BY <1>0, <1>1, <1>2, <1>4, <1>5, <1>6 DEF r, u

\* No delivery begins to wait.
NoneNewlyPending ==
    \A r \in Runs, u \in Recipients : delivery'[r][u] = "pending" => delivery[r][u] = "pending"

\* A step of the handler that looks at the run, and may close it.
LooksAtRun(w) == R!PrepareClosed(w) \/ R!Prepare(w) \/ R!ClaimClosed(w) \/ R!FinalizeDeliveryRun(w)

\* What looking at a run does.
LEMMA ReportLookedAt ==
    ASSUME ReportsTyped, NEW w \in Workers, LooksAtRun(w)
    PROVE  /\ ReportsTyped' /\ DeliverySteps /\ NoneNewlyPending
           /\ workerAt[w] \in {"prepare", "claim", "count"} /\ workerAt'[w] \in {"ok", "claim", "permanent"}
           /\ OthersWork(w) /\ R!RunOf(w) \in Runs
           /\ \A q \in Runs : q # R!RunOf(w) => reportRun'[q] = reportRun[q]
           /\ reportRun'[R!RunOf(w)] = reportRun[R!RunOf(w)]
              \/ (reportRun[R!RunOf(w)] \in R!Open /\ reportRun'[R!RunOf(w)] \in R!Open \cup R!Closed)
           /\ workerAt'[w] = "ok" => reportRun[R!RunOf(w)] = "none" \/ reportRun'[R!RunOf(w)] \in R!Closed
           /\ UNCHANGED <<recovery, reportPhase, workerJob, handedOver, retried>>
<1> DEFINE r == R!RunOf(w)
<1>0. /\ workerAt[w] \in {"prepare", "claim", "count"} /\ r \in Runs
      /\ UNCHANGED <<recovery, reportPhase, reportOwner, workerJob, target, handedOver, retried>>
  BY RunKnown DEF LooksAtRun, R!PrepareClosed, R!Prepare, R!ClaimClosed,
     R!FinalizeDeliveryRun, R!jobVars, R!runVars
<1>00. reportRun \in [Runs -> RunStates] /\ delivery \in [Runs -> [Recipients -> R!DeliveryStatuses]]
  BY DEF ReportsTyped
<1> DEFINE Effect == /\ delivery' \in [Runs -> [Recipients -> R!DeliveryStatuses]] /\ reportRun' \in [Runs -> RunStates]
                     /\ DeliverySteps /\ NoneNewlyPending
                     /\ \A q \in Runs : q # r => reportRun'[q] = reportRun[q]
                     /\ reportRun'[r] = reportRun[r] \/ (reportRun[r] \in R!Open /\ reportRun'[r] \in R!Open \cup R!Closed)
<1>1. ASSUME UNCHANGED delivery PROVE DeliverySteps /\ NoneNewlyPending
  BY <1>1 DEF DeliverySteps, DeliveryStep, NoneNewlyPending
<1>2. ASSUME R!CancelStale({r}) PROVE Effect /\ (reportRun[r] \in R!Open => reportRun'[r] \in R!Closed)
  <2>1. /\ delivery' \in [Runs -> [Recipients -> R!DeliveryStatuses]] /\ reportRun' \in [Runs -> RunStates]
        /\ \A q \in Runs, u \in Recipients :
             delivery'[q][u] = delivery[q][u]
             \/ (delivery[q][u] = "pending" /\ delivery'[q][u] = "skipped")
        /\ \A q \in Runs : reportRun'[q] = reportRun[q] \/ (q \in {r} /\ reportRun[q] \in R!Open /\ reportRun'[q] \in R!Closed)
        /\ \A q \in {r} : reportRun[q] \in R!Open => reportRun'[q] \in R!Closed
    BY <1>0, <1>00, <1>2, StaleCancelled
  <2>2. DeliverySteps /\ NoneNewlyPending
    BY <2>1 DEF DeliverySteps, DeliveryStep, NoneNewlyPending
  <2> QED BY <1>0, <2>1, <2>2
<1>3. ASSUME UNCHANGED <<reportRun, delivery>> PROVE Effect
  BY <1>00, <1>1, <1>3
<1>4. ASSUME NEW s \in R!Open \cup R!Closed, reportRun[r] \in R!Open,
             reportRun' = [reportRun EXCEPT ![r] = s],
             UNCHANGED delivery
      PROVE  Effect /\ reportRun'[r] = s
  <2>1. reportRun' \in [Runs -> RunStates] /\ reportRun'[r] = s /\ \A q \in Runs : q # r => reportRun'[q] = reportRun[q]
    BY <1>0, <1>00, <1>4 DEF RunStates
  <2> QED BY <1>00, <1>1, <1>4, <2>1
<1> DEFINE Ends == \E p \in {"ok", "claim", "permanent"} :
                      R!Goto(w, p) /\ (p = "ok" => reportRun[r] = "none" \/ reportRun'[r] \in R!Closed)
<1>5. ASSUME R!PrepareClosed(w) \/ R!ClaimClosed(w) PROVE Effect /\ Ends
  <2>1. R!Goto(w, "ok")
    BY <1>5 DEF R!PrepareClosed, R!ClaimClosed
  <2>2. \/ reportRun[r] \in R!Closed /\ UNCHANGED <<reportRun, delivery>>
        \/ reportRun[r] \in R!Open /\ R!CancelStale({r})
        \/ reportRun[r] \in R!Open /\ reportRun' = [reportRun EXCEPT ![r] = "canceled"] /\ UNCHANGED delivery
    BY <1>5 DEF R!PrepareClosed, R!ClaimClosed
  <2>3. "canceled" \in R!Closed
    BY DEF R!Closed
  <2>4. CASE reportRun[r] \in R!Closed /\ UNCHANGED <<reportRun, delivery>>
    <3>1. Effect
      BY <1>3, <2>4
    <3> QED BY <2>1, <2>4, <3>1
  <2>5. CASE reportRun[r] \in R!Open /\ R!CancelStale({r})
    <3>1. Effect /\ reportRun'[r] \in R!Closed
      BY <1>2, <2>5
    <3> QED BY <2>1, <3>1
  <2>6. CASE reportRun[r] \in R!Open /\ reportRun' = [reportRun EXCEPT ![r] = "canceled"] /\ UNCHANGED delivery
    <3>1. Effect /\ reportRun'[r] = "canceled"
      BY <1>4, <2>3, <2>6
    <3> QED BY <2>1, <2>3, <3>1
  <2> QED BY <2>2, <2>4, <2>5, <2>6
<1>6. ASSUME R!Prepare(w) PROVE Effect /\ Ends
  <2>1. reportRun[r] \in R!Open
    BY <1>6 DEF R!Prepare
  <2>2. CASE reportRun' = [reportRun EXCEPT ![r] = "sending"] /\ R!Goto(w, "claim") /\ UNCHANGED delivery
    <3>1. "sending" \in R!Open
      BY DEF R!Open
    <3>2. Effect
      BY <1>4, <2>1, <2>2, <3>1
    <3> QED BY <2>2, <3>2
  <2>3. CASE /\ reportRun' = [reportRun EXCEPT ![r] = "failed"] /\ R!Goto(w, "permanent")
             /\ delivery' = R!Becomes(r, {"pending"}, "failed")
    <3>1. reportRun' \in [Runs -> RunStates] /\ reportRun'[r] = "failed" /\ \A q \in Runs : q # r => reportRun'[q] = reportRun[q]
      BY <1>0, <1>00, <2>3 DEF RunStates, R!Closed
    <3>2. "failed" \in R!DeliveryStatuses
      BY DEF R!DeliveryStatuses
    <3>3. /\ delivery' \in [Runs -> [Recipients -> R!DeliveryStatuses]]
          /\ \A q \in Runs : q # r => delivery'[q] = delivery[q]
          /\ \A u \in Recipients :
                delivery'[r][u] = IF delivery[r][u] \in {"pending"} THEN "failed" ELSE delivery[r][u]
      BY <1>0, <1>00, <2>3, <3>2, BecomesDoes
    <3>4. \A q \in Runs, u \in Recipients :
             delivery'[q][u] = delivery[q][u]
             \/ (delivery[q][u] = "pending" /\ delivery'[q][u] = "failed")
      BY <3>3
    <3>5. DeliverySteps /\ NoneNewlyPending
      BY <3>4 DEF DeliverySteps, DeliveryStep, NoneNewlyPending
    <3>6. Effect
      BY <2>1, <3>1, <3>3, <3>5 DEF R!Closed
    <3> QED BY <2>3, <3>6
  <2> QED BY <1>6, <2>2, <2>3 DEF R!Prepare
<1>7. ASSUME R!FinalizeDeliveryRun(w) PROVE Effect /\ Ends
  <2>1. /\ delivery' = R!Quarantined(r) /\ R!Goto(w, "ok")
        /\ reportRun' = [reportRun EXCEPT ![r] = IF @ \in R!Open THEN R!Summary(r, delivery') ELSE @]
    BY <1>7 DEF R!FinalizeDeliveryRun, R!Finalized
  <2>2. /\ delivery' \in [Runs -> [Recipients -> R!DeliveryStatuses]]
        /\ \A q \in Runs, u \in Recipients :
             delivery'[q][u] = delivery[q][u]
             \/ (delivery[q][u] = "stalled" /\ delivery'[q][u] = "uncertain")
    BY <1>0, <2>1, StalledQuarantined
  <2>3. DeliverySteps /\ NoneNewlyPending
    BY <2>2 DEF DeliverySteps, DeliveryStep, NoneNewlyPending, R!Sending
  <2>4. PICK s : s \in R!Closed /\ reportRun' = [reportRun EXCEPT ![r] = IF @ \in R!Open THEN s ELSE @]
    BY <2>1, SummaryCloses
  <2>5. /\ reportRun' \in [Runs -> RunStates] /\ \A q \in Runs : q # r => reportRun'[q] = reportRun[q]
        /\ reportRun'[r] = IF reportRun[r] \in R!Open THEN s ELSE reportRun[r]
    BY <1>0, <1>00, <2>4 DEF RunStates
  <2>6. Effect
    BY <2>2, <2>3, <2>4, <2>5
  <2>7. reportRun[r] = "none" \/ reportRun'[r] \in R!Closed
    BY <1>0, <1>00, <2>4, <2>5 DEF RunStates
  <2> QED BY <2>1, <2>6, <2>7
<1>8. Effect /\ Ends
  BY <1>5, <1>6, <1>7 DEF LooksAtRun
<1>9. PICK p \in {"ok", "claim", "permanent"} :
         R!Goto(w, p) /\ (p = "ok" => reportRun[r] = "none" \/ reportRun'[r] \in R!Closed)
  BY <1>8
<1>10. Effect
  BY <1>8
<1> HIDE DEF Effect, Ends
<1>11. /\ workerAt' \in [Workers -> WorkerPlaces] /\ target' \in [Workers -> Recipients \cup {Nobody}]
       /\ workerAt'[w] = p /\ OthersWork(w)
       /\ \A x \in Workers : workerAt'[x] # "idle" => workerJob'[x] \in R!Jobs
       /\ \A x \in Workers : workerAt'[x] \in {"send"} \cup R!Answers => target'[x] \in Recipients
  <2>1. p \in WorkerPlaces /\ p \notin {"send"} \cup R!Answers /\ workerAt[w] # "idle"
    BY <1>0 DEF WorkerPlaces, R!Verdicts, R!Answers
  <2> QED BY <1>0, <1>9, <2>1, WorkerGoes
<1>12. ReportsTyped'
  BY <1>0, <1>10, <1>11 DEF ReportsTyped, Effect
<1> QED BY <1>0, <1>9, <1>10, <1>11, <1>12 DEF Effect

\* A step of the handler that only moves its worker.
OnlyMoves(w) == R!FindNonePending(w) \/ R!Defer(w) \/ R!StatementFails(w)

\* What a worker that only moves does.
LEMMA WorkerMoved ==
    ASSUME ReportsTyped, NEW w \in Workers, OnlyMoves(w)
    PROVE  /\ ReportsTyped' /\ workerAt[w] # "idle"
           /\ workerAt'[w] \in {"count", "deferred", "error", "permanent", "uncertain"} /\ OthersWork(w)
           /\ UNCHANGED <<reportRun, delivery, recovery, reportPhase, workerJob, handedOver, retried>>
<1>1. UNCHANGED <<reportRun, delivery, recovery, reportPhase, reportOwner, workerJob, handedOver, retried>>
  BY DEF OnlyMoves, R!FindNonePending, R!Defer, R!StatementFails, R!runVars, R!jobVars
<1>2. PICK p \in {"count", "deferred", "error", "permanent", "uncertain"} :
         /\ R!Goto(w, p) /\ workerAt[w] # "idle"
         /\ p = "uncertain" => workerAt[w] = "accepted" /\ target' = target
         /\ target' = target \/ target' = [target EXCEPT ![w] = Nobody]
  BY DEF OnlyMoves, R!FindNonePending, R!Defer, R!StatementFails
<1>3. /\ p \in WorkerPlaces
      /\ p \in {"send"} \cup R!Answers => target' = target /\ target[w] \in Recipients
  BY <1>2 DEF WorkerPlaces, R!Answers, R!Verdicts, ReportsTyped
<1>4. /\ workerAt' \in [Workers -> WorkerPlaces] /\ target' \in [Workers -> Recipients \cup {Nobody}]
      /\ workerAt'[w] = p /\ OthersWork(w)
      /\ \A x \in Workers : workerAt'[x] # "idle" => workerJob'[x] \in R!Jobs
      /\ \A x \in Workers : workerAt'[x] \in {"send"} \cup R!Answers => target'[x] \in Recipients
  BY <1>1, <1>2, <1>3, WorkerGoes
<1>5. ReportsTyped'
  BY <1>1, <1>4 DEF ReportsTyped
<1> QED BY <1>1, <1>2, <1>4, <1>5

\* The answer of the provider is kept, if the recipient still awaits one.
KeepsAnswer(w) ==
    R!FinalizeRecipientAccepted(w) \/ R!FinalizeRecipientUncertain(w) \/ R!FinalizeRecipientRejected(w)

\* What writing the answer does.
LEMMA AnswerKept ==
    ASSUME ReportsTyped, NEW w \in Workers, KeepsAnswer(w)
    PROVE  /\ ReportsTyped' /\ DeliverySteps
           /\ R!RunOf(w) \in Runs /\ target[w] \in Recipients
           /\ workerAt[w] \in R!Answers /\ workerAt'[w] \in {"claim", "error"} /\ OthersWork(w)
           /\ \A r \in Runs, u \in Recipients :
                 \/ delivery'[r][u] = "pending" => delivery[r][u] = "pending"
                 \/ workerAt[w] = "rejected" /\ r = R!RunOf(w) /\ u = target[w]
           /\ UNCHANGED <<reportRun, recovery, reportPhase, workerJob, handedOver, retried>>
<1>1. UNCHANGED <<reportRun, recovery, reportPhase, reportOwner, workerJob, handedOver, retried>> /\ workerAt[w] \in R!Answers
  BY DEF KeepsAnswer, R!FinalizeRecipientAccepted, R!FinalizeRecipientUncertain,
         R!FinalizeRecipientRejected, R!runVars, R!jobVars, R!Answers
<1>2. PICK p \in {"claim", "error"}, status \in {"accepted", "uncertain", "failed", "pending"} :
         /\ R!Goto(w, p) /\ R!Keep(w, status)
         /\ status = "pending" => workerAt[w] = "rejected"
  BY DEF KeepsAnswer, R!FinalizeRecipientAccepted, R!FinalizeRecipientUncertain,
         R!FinalizeRecipientRejected
<1>3. /\ R!RunOf(w) \in Runs /\ target[w] \in Recipients
      /\ delivery' \in [Runs -> [Recipients -> R!DeliveryStatuses]]
      /\ target' = [target EXCEPT ![w] = Nobody]
      /\ DeliverySteps
      /\ \A r \in Runs, u \in Recipients :
            \/ delivery'[r][u] = delivery[r][u]
            \/ r = R!RunOf(w) /\ u = target[w] /\ delivery'[r][u] = status
  BY <1>1, <1>2, KeptDoes
<1>4. p \in WorkerPlaces /\ p \notin {"send"} \cup R!Answers /\ workerAt[w] # "idle"
  BY <1>1, <1>2 DEF WorkerPlaces, R!Verdicts, R!Answers
<1>5. /\ workerAt' \in [Workers -> WorkerPlaces] /\ target' \in [Workers -> Recipients \cup {Nobody}]
      /\ workerAt'[w] = p /\ OthersWork(w)
      /\ \A x \in Workers : workerAt'[x] # "idle" => workerJob'[x] \in R!Jobs
      /\ \A x \in Workers : workerAt'[x] \in {"send"} \cup R!Answers => target'[x] \in Recipients
  BY <1>1, <1>2, <1>3, <1>4, WorkerGoes
<1>6. ReportsTyped'
  BY <1>1, <1>3, <1>5 DEF ReportsTyped
<1>7. \A r \in Runs, u \in Recipients :
         \/ delivery'[r][u] = "pending" => delivery[r][u] = "pending"
         \/ workerAt[w] = "rejected" /\ r = R!RunOf(w) /\ u = target[w]
  BY <1>2, <1>3
<1> QED BY <1>1, <1>2, <1>3, <1>5, <1>6, <1>7

\* The schedule or the definition is revised: runs of older revisions end.
Revises ==
    \/ \E on \in BOOLEAN, S \in SUBSET Recipients : R!UpsertSchedule(on, S)
    \/ \E executable \in BOOLEAN : R!ReconcileDefinition(executable)

\* What revising the schedule does: runs of the old revision are closed.
LEMMA ScheduleRevised ==
    ASSUME ReportsTyped, Revises
    PROVE  /\ ReportsTyped' /\ DeliverySteps /\ NoneNewlyPending
           /\ \A r \in Runs : reportRun'[r] = reportRun[r] \/ (reportRun[r] \in R!Open /\ reportRun'[r] \in R!Closed)
           /\ UNCHANGED <<recovery, reportPhase, workerAt, workerJob, target, handedOver, retried>>
<1>1. /\ R!CancelStale(R!Untouched(scheduleRevision + 1))
      /\ UNCHANGED <<recovery, reportPhase, reportOwner, workerAt, workerJob, target, handedOver, retried>>
  BY DEF Revises, R!UpsertSchedule, R!ReconcileDefinition, R!jobVars, R!workerVars
<1>2. PICK Stale \in SUBSET Runs : R!CancelStale(Stale)
  BY <1>1 DEF R!Untouched
<1>3. /\ delivery' \in [Runs -> [Recipients -> R!DeliveryStatuses]] /\ reportRun' \in [Runs -> RunStates]
      /\ \A r \in Runs, u \in Recipients :
           delivery'[r][u] = delivery[r][u]
           \/ (delivery[r][u] = "pending" /\ delivery'[r][u] = "skipped")
      /\ \A r \in Runs :
           reportRun'[r] = reportRun[r] \/ (r \in Stale /\ reportRun[r] \in R!Open /\ reportRun'[r] \in R!Closed)
  BY <1>2, StaleCancelled DEF ReportsTyped
<1>4. DeliverySteps /\ NoneNewlyPending
  BY <1>3 DEF DeliverySteps, DeliveryStep, NoneNewlyPending
<1>5. ReportsTyped'
  BY <1>1, <1>3 DEF ReportsTyped
<1> QED BY <1>1, <1>3, <1>4, <1>5

\* What quarantining a stalled delivery does.
LEMMA DeliveryStalled ==
    ASSUME ReportsTyped, NEW r \in Runs, NEW u \in Recipients, R!Stall(r, u)
    PROVE  /\ ReportsTyped' /\ DeliverySteps /\ NoneNewlyPending
           /\ UNCHANGED <<reportRun, recovery, reportPhase, workerAt, workerJob, target, handedOver, retried>>
<1>1. /\ delivery[r][u] = "sending" /\ delivery' = [delivery EXCEPT ![r][u] = "stalled"]
      /\ UNCHANGED <<reportRun, recovery, reportPhase, reportOwner, workerAt, workerJob, target, handedOver, retried>>
  BY DEF R!Stall, R!runVars, R!jobVars, R!workerVars
<1>2. /\ delivery' \in [Runs -> [Recipients -> R!DeliveryStatuses]] /\ delivery'[r][u] = "stalled"
      /\ \A q \in Runs, v \in Recipients : q # r \/ v # u => delivery'[q][v] = delivery[q][v]
  BY <1>1 DEF ReportsTyped, R!DeliveryStatuses
<1>3. DeliverySteps /\ NoneNewlyPending
  BY <1>1, <1>2 DEF DeliverySteps, DeliveryStep, NoneNewlyPending
<1>4. ReportsTyped'
  BY <1>1, <1>2 DEF ReportsTyped
<1> QED BY <1>1, <1>3, <1>4

\* Steps at the desk and at the clock that touch neither runs nor jobs.
OffTheRun ==
    \/ \E u \in Recipients : R!ChangeMembership(u)
    \/ R!BecomeDue
    \/ \E r \in Runs : R!ArtifactTTLPasses(r) \/ R!CleanupExpiredDeliveryArtifacts(r)

\* Steps beside the run leave it alone.
LEMMA RunUntouched ==
    OffTheRun => UNCHANGED <<reportRun, delivery, recovery, reportPhase, reportOwner, workerAt, workerJob, target, handedOver, retried>>
BY DEF OffTheRun, R!ChangeMembership, R!BecomeDue, R!ArtifactTTLPasses,
       R!CleanupExpiredDeliveryArtifacts, R!runVars, R!jobVars, R!workerVars

\* A run that did not begin has nothing to show.
FreshRuns ==
    \A r \in Runs :
        reportRun[r] = "none" =>
            /\ recovery[r] = 0
            /\ \A u \in Recipients : delivery[r][u] = "none" /\ handedOver[r][u] = 0 /\ retried[r][u] = 0

\* A worker is on a run that began, for a retry that happened, and calls the
\* latest job of the run done only when the run is closed.
OnTheRun ==
    \A w \in Workers :
        workerAt[w] # "idle" =>
            /\ reportRun[R!RunOf(w)] # "none"
            /\ workerJob[w][2] <= recovery[R!RunOf(w)]
            /\ workerAt[w] = "ok" /\ workerJob[w][2] = recovery[R!RunOf(w)] => reportRun[R!RunOf(w)] \in R!Closed

\* The latest job of a run exists, and is done only when the run is closed.
LatestJob ==
    \A r \in Runs :
        /\ \A g \in 0..Retries : g > recovery[r] \/ reportRun[r] = "none" => reportPhase[<<r, g>>] = "none"
        /\ reportRun[r] # "none" => reportPhase[<<r, recovery[r]>>] # "none"
        /\ reportRun[r] \in R!Open => reportPhase[<<r, recovery[r]>>] # "done"

\* The inductive invariant of runs and jobs.
ReportsInv == ReportsTyped /\ FreshRuns /\ OnTheRun /\ LatestJob

\* Steps that neither begin nor reopen a run, nor touch a job.
Quiet ==
    /\ UNCHANGED <<recovery, reportPhase>>
    /\ \A r \in Runs :
          \/ reportRun'[r] = reportRun[r]
          \/ reportRun[r] # "none" /\ reportRun'[r] \in R!Closed
          \/ reportRun[r] \in R!Open /\ reportRun'[r] \in R!Open
    /\ \A r \in Runs, u \in Recipients :
          reportRun[r] = "none" => /\ delivery'[r][u] = delivery[r][u]
                                   /\ handedOver'[r][u] = handedOver[r][u] /\ retried'[r][u] = retried[r][u]
    /\ \A w \in Workers :
          \/ workerAt'[w] = "idle"
          \/ /\ workerAt[w] # "idle" /\ workerJob'[w] = workerJob[w]
             /\ workerAt'[w] = "ok" => workerAt[w] = "ok" \/ reportRun'[R!RunOf(w)] \in R!Closed

\* Quiet steps keep the invariant.
LEMMA QuietKeeps ==
    ASSUME ReportsInv, ReportsTyped', Quiet PROVE ReportsInv'
<1>1. R!Closed \cap R!Open = {} /\ "none" \notin R!Closed /\ "none" \notin R!Open
  BY DEF R!Closed, R!Open
<1>2. FreshRuns'
  BY <1>1 DEF ReportsInv, FreshRuns, Quiet
<1>3. OnTheRun'
  <2> SUFFICES ASSUME NEW w \in Workers, workerAt'[w] # "idle"
               PROVE  /\ reportRun'[workerJob'[w][1]] # "none"
                      /\ workerJob'[w][2] <= recovery'[workerJob'[w][1]]
                      /\ workerAt'[w] = "ok" /\ workerJob'[w][2] = recovery'[workerJob'[w][1]] => reportRun'[workerJob'[w][1]] \in R!Closed
    BY DEF OnTheRun, R!RunOf
  <2>1. workerAt[w] # "idle" /\ workerJob'[w] = workerJob[w] /\ (workerAt'[w] = "ok" => workerAt[w] = "ok" \/ reportRun'[workerJob[w][1]] \in R!Closed)
        /\ recovery' = recovery
    BY DEF Quiet, R!RunOf
  <2>2. PICK r \in Runs : r = workerJob[w][1]
    BY <2>1, RunKnown DEF ReportsInv, R!RunOf
  <2>3. /\ reportRun[r] # "none" /\ workerJob[w][2] <= recovery[r]
        /\ workerAt[w] = "ok" /\ workerJob[w][2] = recovery[r] => reportRun[r] \in R!Closed
    BY <2>1, <2>2 DEF ReportsInv, OnTheRun, R!RunOf
  <2>4. \/ reportRun'[r] = reportRun[r]
        \/ reportRun'[r] \in R!Closed
        \/ reportRun[r] \in R!Open /\ reportRun'[r] \in R!Open
    BY DEF Quiet
  <2> QED BY <1>1, <2>1, <2>2, <2>3, <2>4
<1>4. LatestJob'
  <2> SUFFICES ASSUME NEW r \in Runs
               PROVE  /\ \A g \in 0..Retries :
                           g > recovery'[r] \/ reportRun'[r] = "none" => reportPhase'[<<r, g>>] = "none"
                      /\ reportRun'[r] # "none" => reportPhase'[<<r, recovery'[r]>>] # "none"
                      /\ reportRun'[r] \in R!Open => reportPhase'[<<r, recovery'[r]>>] # "done"
    BY DEF LatestJob
  <2>1. recovery' = recovery /\ reportPhase' = reportPhase
        /\ (reportRun'[r] = reportRun[r] \/ (reportRun[r] # "none" /\ reportRun'[r] \in R!Closed) \/ (reportRun[r] \in R!Open /\ reportRun'[r] \in R!Open))
    BY DEF Quiet
  <2> QED BY <1>1, <2>1 DEF ReportsInv, LatestJob
<1> QED BY <1>2, <1>3, <1>4 DEF ReportsInv

\* Steps of one worker that stays on its run.
LEMMA StaysOnRun ==
    ASSUME ReportsTyped, NEW w \in Workers, OthersWork(w), workerAt[w] # "idle",
           UNCHANGED workerJob,
           workerAt'[w] = "ok" => reportRun'[R!RunOf(w)] \in R!Closed
    PROVE  \A x \in Workers :
              \/ workerAt'[x] = "idle"
              \/ /\ workerAt[x] # "idle" /\ workerJob'[x] = workerJob[x]
                 /\ workerAt'[x] = "ok" => workerAt[x] = "ok" \/ reportRun'[R!RunOf(x)] \in R!Closed
BY DEF OthersWork

\* A step that makes nothing newly pending leaves fresh runs alone.
LEMMA FreshUntouched ==
    ASSUME ReportsInv, DeliverySteps, NEW r \in Runs, NEW u \in Recipients,
           reportRun[r] = "none",
           delivery'[r][u] = "pending" => delivery[r][u] = "pending"
    PROVE  delivery'[r][u] = delivery[r][u]
<1>1. delivery[r][u] = "none" /\ DeliveryStep(r, u)
  BY DEF ReportsInv, FreshRuns, DeliverySteps
<1> QED BY <1>1 DEF DeliveryStep, R!Sending

\* Workers that hold a refusal of a mail not yet written down.
Refused(r, u) == {w \in Workers : workerAt[w] = "rejected" /\ R!RunOf(w) = r /\ target[w] = u}

\* What waits to be handed over.
Pending(r, u) == IF delivery[r][u] = "pending" THEN 1 ELSE 0

\* What the provider may have, what waits to be handed over, and what will wait
\* again stay within the decisions to send.
Owed(r, u) == handedOver[r][u] + Pending(r, u) + Cardinality(Refused(r, u)) <= 1 + retried[r][u]

\* So for every delivery.
HandedOnce == \A r \in Runs, u \in Recipients : Owed(r, u)

\* Refusals in hand can be counted.
LEMMA RefusedIsFinite ==
    ASSUME ReportsAssumed, NEW r, NEW u
    PROVE  IsFiniteSet(Refused(r, u)) /\ Cardinality(Refused(r, u)) \in Nat
<1>1. Refused(r, u) \subseteq Workers
  BY DEF Refused
<1> QED BY <1>1, FS_Subset, FS_CardinalityType DEF ReportsAssumed

\* They can be counted after a step.
LEMMA RefusedIsFiniteNext ==
    ASSUME ReportsAssumed, NEW r, NEW u
    PROVE  IsFiniteSet(Refused(r, u)') /\ Cardinality(Refused(r, u)') \in Nat
<1>1. Refused(r, u)' \subseteq Workers
  BY DEF Refused
<1> QED BY <1>1, FS_Subset, FS_CardinalityType DEF ReportsAssumed

\* Fewer refusals in hand count less.
LEMMA FewerRefused ==
    ASSUME ReportsAssumed, NEW r, NEW u, Refused(r, u)' \subseteq Refused(r, u)
    PROVE  Cardinality(Refused(r, u)') <= Cardinality(Refused(r, u))
<1>1. IsFiniteSet(Refused(r, u))
  BY RefusedIsFinite
<1> QED BY <1>1, FS_Subset

\* A delivery that neither waits again nor is handed over owes no more.
LEMMA NoNewDebt ==
    ASSUME ReportsAssumed, ReportsTyped, ReportsTyped', NEW r \in Runs, NEW u \in Recipients,
           Owed(r, u),
           handedOver'[r][u] = handedOver[r][u], retried'[r][u] = retried[r][u],
           delivery'[r][u] = "pending" => delivery[r][u] = "pending",
           Refused(r, u)' \subseteq Refused(r, u)
    PROVE  Owed(r, u)'
<1> DEFINE n == Cardinality(Refused(r, u))
           m == Cardinality(Refused(r, u)')
           p == Pending(r, u)
           q == Pending(r, u)'
<1>1. n \in Nat /\ m \in Nat /\ m <= n
  BY RefusedIsFinite, RefusedIsFiniteNext, FewerRefused
<1>2. p \in {0, 1} /\ q \in {0, 1} /\ q <= p
  BY DEF Pending
<1>3. handedOver[r][u] \in Int /\ retried[r][u] \in Nat
  BY DEF ReportsTyped
<1>4. handedOver[r][u] + p + n <= 1 + retried[r][u]
  BY DEF Owed
<1>5. Owed(r, u)' <=> handedOver'[r][u] + q + m <= 1 + retried'[r][u]
  BY DEF Owed
<1> HIDE DEF n, m, p, q
<1> QED BY <1>1, <1>2, <1>3, <1>4, <1>5

\* A worker's step that ends in no refusal adds none.
LEMMA RefusalsShrink ==
    ASSUME NEW w \in Workers, workerAt'[w] # "rejected", NEW r, NEW u,
           \A x \in Workers \ {w} : workerAt'[x] = workerAt[x] /\ workerJob'[x] = workerJob[x] /\ target'[x] = target[x]
    PROVE  Refused(r, u)' \subseteq Refused(r, u) \ {w}
BY DEF Refused, R!RunOf

\* Workers that stay where they are have the refusals they had.
LEMMA RefusalsSame ==
    ASSUME UNCHANGED <<workerAt, workerJob, target>>, NEW r, NEW u
    PROVE  Refused(r, u)' = Refused(r, u)
BY DEF Refused, R!RunOf

\* So for every delivery, while no more refusals are in hand.
LEMMA HandedStays ==
    ASSUME ReportsAssumed, ReportsTyped, ReportsTyped', HandedOnce, NoneNewlyPending,
           UNCHANGED <<handedOver, retried>>,
           \A r \in Runs, u \in Recipients : Refused(r, u)' \subseteq Refused(r, u)
    PROVE  HandedOnce'
<1> SUFFICES ASSUME NEW r \in Runs, NEW u \in Recipients PROVE Owed(r, u)'
  BY DEF HandedOnce
<1>1. Owed(r, u)
  BY DEF HandedOnce
<1> QED BY <1>1, NoNewDebt DEF NoneNewlyPending

\* What a step has to leave as it found it, and what it may do to deliveries.
Goes == ReportsInv' /\ HandedOnce' /\ DeliverySteps

\* A quiet step is a step.
LEMMA QuietGoes ==
    ASSUME ReportsAssumed, ReportsInv, HandedOnce, ReportsTyped', DeliverySteps,
           NoneNewlyPending,
           UNCHANGED <<recovery, reportPhase, handedOver, retried>>,
           \A r \in Runs : \/ reportRun'[r] = reportRun[r]
                           \/ reportRun[r] # "none" /\ reportRun'[r] \in R!Closed
                           \/ reportRun[r] \in R!Open /\ reportRun'[r] \in R!Open,
           \A x \in Workers : \/ workerAt'[x] = "idle"
                              \/ /\ workerAt[x] # "idle" /\ workerJob'[x] = workerJob[x]
                                 /\ workerAt'[x] = "ok" => workerAt[x] = "ok" \/ reportRun'[R!RunOf(x)] \in R!Closed,
           \A r \in Runs, u \in Recipients : Refused(r, u)' \subseteq Refused(r, u)
    PROVE  Goes
<1>1. \A r \in Runs, u \in Recipients :
         reportRun[r] = "none" => /\ delivery'[r][u] = delivery[r][u]
                                  /\ handedOver'[r][u] = handedOver[r][u] /\ retried'[r][u] = retried[r][u]
  BY FreshUntouched DEF NoneNewlyPending
<1>2. Quiet
  BY <1>1 DEF Quiet
<1>3. ReportsInv'
  BY <1>2, QuietKeeps
<1>4. HandedOnce'
  BY HandedStays DEF ReportsInv
<1> QED BY <1>3, <1>4 DEF Goes

\* Only one run moves.
LEMMA RunMoves ==
    ASSUME ReportsTyped, NEW r \in Runs,
           \A q \in Runs : q # r => reportRun'[q] = reportRun[q],
           reportRun'[r] = reportRun[r] \/ (reportRun[r] \in R!Open /\ reportRun'[r] \in R!Open \cup R!Closed)
    PROVE  \A q \in Runs : \/ reportRun'[q] = reportRun[q]
                           \/ reportRun[q] # "none" /\ reportRun'[q] \in R!Closed
                           \/ reportRun[q] \in R!Open /\ reportRun'[q] \in R!Open
BY DEF R!Open

\* Looking at a run keeps the invariant.
LEMMA LookGoes ==
    ASSUME ReportsAssumed, ReportsInv, HandedOnce, NEW w \in Workers, LooksAtRun(w) PROVE Goes
<1>1. /\ ReportsTyped' /\ DeliverySteps /\ NoneNewlyPending
      /\ workerAt[w] \in {"prepare", "claim", "count"} /\ workerAt'[w] \in {"ok", "claim", "permanent"}
      /\ OthersWork(w) /\ R!RunOf(w) \in Runs
      /\ \A q \in Runs : q # R!RunOf(w) => reportRun'[q] = reportRun[q]
      /\ reportRun'[R!RunOf(w)] = reportRun[R!RunOf(w)]
         \/ (reportRun[R!RunOf(w)] \in R!Open /\ reportRun'[R!RunOf(w)] \in R!Open \cup R!Closed)
      /\ workerAt'[w] = "ok" => reportRun[R!RunOf(w)] = "none" \/ reportRun'[R!RunOf(w)] \in R!Closed
      /\ UNCHANGED <<recovery, reportPhase, workerJob, handedOver, retried>>
  BY ReportLookedAt DEF ReportsInv
<1>2. reportRun[R!RunOf(w)] # "none" /\ workerAt[w] # "idle"
  BY <1>1 DEF ReportsInv, OnTheRun
<1>3. \A q \in Runs : \/ reportRun'[q] = reportRun[q]
                      \/ reportRun[q] # "none" /\ reportRun'[q] \in R!Closed
                      \/ reportRun[q] \in R!Open /\ reportRun'[q] \in R!Open
  BY <1>1, RunMoves DEF ReportsInv
<1>4. \A x \in Workers : \/ workerAt'[x] = "idle"
                         \/ /\ workerAt[x] # "idle" /\ workerJob'[x] = workerJob[x]
                            /\ workerAt'[x] = "ok" => workerAt[x] = "ok" \/ reportRun'[R!RunOf(x)] \in R!Closed
  BY <1>1, <1>2, StaysOnRun DEF ReportsInv
<1>5. \A r \in Runs, u \in Recipients : Refused(r, u)' \subseteq Refused(r, u)
  BY <1>1, RefusalsShrink DEF OthersWork
<1> QED BY <1>1, <1>3, <1>4, <1>5, QuietGoes

\* A worker that only moves keeps it.
LEMMA MoveGoes ==
    ASSUME ReportsAssumed, ReportsInv, HandedOnce, NEW w \in Workers, OnlyMoves(w) PROVE Goes
<1>1. /\ ReportsTyped' /\ workerAt[w] # "idle"
      /\ workerAt'[w] \in {"count", "deferred", "error", "permanent", "uncertain"} /\ OthersWork(w)
      /\ UNCHANGED <<reportRun, delivery, recovery, reportPhase, workerJob, handedOver, retried>>
  BY WorkerMoved DEF ReportsInv
<1>2. DeliverySteps /\ NoneNewlyPending
  BY <1>1 DEF DeliverySteps, DeliveryStep, NoneNewlyPending
<1>3. \A x \in Workers : \/ workerAt'[x] = "idle"
                         \/ /\ workerAt[x] # "idle" /\ workerJob'[x] = workerJob[x]
                            /\ workerAt'[x] = "ok" => workerAt[x] = "ok" \/ reportRun'[R!RunOf(x)] \in R!Closed
  BY <1>1, StaysOnRun DEF ReportsInv
<1>4. \A r \in Runs, u \in Recipients : Refused(r, u)' \subseteq Refused(r, u)
  BY <1>1, RefusalsShrink DEF OthersWork
<1> QED BY <1>1, <1>2, <1>3, <1>4, QuietGoes

\* The worker drops its job, and no job changes its phase.
LEMMA LeaveGoes ==
    ASSUME ReportsAssumed, ReportsInv, HandedOnce, NEW w \in Workers,
           R!ClaimLost(w) \/ R!Stop(w)
    PROVE  Goes
<1>1. R!BackToIdle(w) /\ reportPhase' = reportPhase
      /\ (reportOwner' = reportOwner \/ reportOwner' = [reportOwner EXCEPT ![workerJob[w]] = IF @ = w THEN Nobody ELSE @])
  BY DEF R!ClaimLost, R!Stop, R!jobVars
<1>2. /\ workerAt' \in [Workers -> WorkerPlaces] /\ target' \in [Workers -> Recipients \cup {Nobody}]
      /\ workerJob' \in [Workers -> R!Jobs \cup {Idle}]
      /\ workerAt'[w] = "idle" /\ OthersWork(w)
      /\ \A x \in Workers : workerAt'[x] # "idle" => workerJob'[x] \in R!Jobs
      /\ \A x \in Workers : workerAt'[x] \in {"send"} \cup R!Answers => target'[x] \in Recipients
      /\ UNCHANGED <<reportRun, delivery, recovery, handedOver, retried>>
  BY <1>1, WorkerRests DEF ReportsInv
<1>3. reportOwner' \in [R!Jobs -> Workers \cup {Nobody}]
  BY <1>1 DEF ReportsInv, ReportsTyped
<1>4. ReportsTyped'
  BY <1>1, <1>2, <1>3 DEF ReportsInv, ReportsTyped
<1>5. DeliverySteps /\ NoneNewlyPending
  BY <1>2 DEF DeliverySteps, DeliveryStep, NoneNewlyPending
<1>6. \A x \in Workers : \/ workerAt'[x] = "idle"
                         \/ /\ workerAt[x] # "idle" /\ workerJob'[x] = workerJob[x]
                            /\ workerAt'[x] = "ok" => workerAt[x] = "ok" \/ reportRun'[R!RunOf(x)] \in R!Closed
  BY <1>2 DEF OthersWork
<1>7. \A r \in Runs, u \in Recipients : Refused(r, u)' \subseteq Refused(r, u)
  BY <1>2, RefusalsShrink DEF OthersWork
<1> QED BY <1>1, <1>2, <1>4, <1>5, <1>6, <1>7, QuietGoes

\* Steps that touch no worker.
LEMMA DeskGoes ==
    ASSUME ReportsAssumed, ReportsInv, HandedOnce, ReportsTyped', DeliverySteps,
           NoneNewlyPending,
           UNCHANGED <<recovery, reportPhase, workerAt, workerJob, target, handedOver, retried>>,
           \A r \in Runs : reportRun'[r] = reportRun[r] \/ (reportRun[r] \in R!Open /\ reportRun'[r] \in R!Closed)
    PROVE  Goes
<1>1. \A r \in Runs : \/ reportRun'[r] = reportRun[r]
                      \/ reportRun[r] # "none" /\ reportRun'[r] \in R!Closed
                      \/ reportRun[r] \in R!Open /\ reportRun'[r] \in R!Open
  BY DEF R!Open
<1>2. \A r \in Runs, u \in Recipients : Refused(r, u)' \subseteq Refused(r, u)
  BY RefusalsSame
<1>3. \A x \in Workers : \/ workerAt'[x] = "idle"
                         \/ /\ workerAt[x] # "idle" /\ workerJob'[x] = workerJob[x]
                            /\ workerAt'[x] = "ok" => workerAt[x] = "ok" \/ reportRun'[R!RunOf(x)] \in R!Closed
  OBVIOUS
<1> QED BY <1>1, <1>2, <1>3, QuietGoes

\* Steps that leave runs, deliveries and workers alone keep it.
LEMMA RestGoes ==
    ASSUME ReportsAssumed, ReportsInv, HandedOnce,
           UNCHANGED <<reportRun, delivery, recovery, reportPhase, workerAt, workerJob, target, handedOver, retried>>,
           reportOwner' \in [R!Jobs -> Workers \cup {Nobody}]
    PROVE  Goes
<1>1. ReportsTyped'
  BY DEF ReportsInv, ReportsTyped
<1>2. DeliverySteps /\ NoneNewlyPending
  BY DEF DeliverySteps, DeliveryStep, NoneNewlyPending
<1> QED BY <1>1, <1>2, DeskGoes

\* An operator's confirmation keeps it.
LEMMA ConfirmGoes ==
    ASSUME ReportsAssumed, ReportsInv, HandedOnce, NEW r \in Runs, NEW u \in Recipients,
           R!ConfirmSent(r, u)
    PROVE  Goes
<1>1. /\ ReportsTyped' /\ DeliverySteps
      /\ delivery[r][u] = "uncertain" /\ delivery' = [delivery EXCEPT ![r][u] = "accepted"]
      /\ reportRun'[r] \in R!Closed /\ \A q \in Runs : q # r => reportRun'[q] = reportRun[q]
      /\ UNCHANGED <<recovery, reportPhase, workerAt, workerJob, target, handedOver, retried>>
  BY ReportConfirmed DEF ReportsInv
<1>2. reportRun[r] # "none"
  BY <1>1 DEF ReportsInv, FreshRuns
<1>3. \A q \in Runs : \/ reportRun'[q] = reportRun[q]
                      \/ reportRun[q] # "none" /\ reportRun'[q] \in R!Closed
                      \/ reportRun[q] \in R!Open /\ reportRun'[q] \in R!Open
  BY <1>1, <1>2
<1>4. NoneNewlyPending
  BY <1>1 DEF NoneNewlyPending, ReportsInv, ReportsTyped
<1>5. \A q \in Runs, v \in Recipients : Refused(q, v)' \subseteq Refused(q, v)
  BY <1>1, RefusalsSame
<1>6. \A x \in Workers : \/ workerAt'[x] = "idle"
                         \/ /\ workerAt[x] # "idle" /\ workerJob'[x] = workerJob[x]
                            /\ workerAt'[x] = "ok" => workerAt[x] = "ok" \/ reportRun'[R!RunOf(x)] \in R!Closed
  BY <1>1
<1> QED BY <1>1, <1>3, <1>4, <1>5, <1>6, QuietGoes

\* Steps of a worker on its run that leave runs and jobs alone, but not what
\* is handed over.
LEMMA WorkKeeps ==
    ASSUME ReportsInv, ReportsTyped', DeliverySteps, NEW w \in Workers, OthersWork(w),
           workerAt[w] # "idle",
           workerAt'[w] # "ok", UNCHANGED <<reportRun, recovery, reportPhase, workerJob, retried>>,
           \A r \in Runs, u \in Recipients :
              r # R!RunOf(w) => /\ handedOver'[r][u] = handedOver[r][u]
                                /\ delivery'[r][u] = "pending" => delivery[r][u] = "pending"
    PROVE  ReportsInv'
<1>1. R!RunOf(w) \in Runs /\ reportRun[R!RunOf(w)] # "none"
  BY RunKnown DEF ReportsInv, OnTheRun
<1>2. \A r \in Runs, u \in Recipients :
         reportRun[r] = "none" => /\ delivery'[r][u] = delivery[r][u]
                                  /\ handedOver'[r][u] = handedOver[r][u] /\ retried'[r][u] = retried[r][u]
  BY <1>1, FreshUntouched
<1>3. \A x \in Workers : \/ workerAt'[x] = "idle"
                         \/ /\ workerAt[x] # "idle" /\ workerJob'[x] = workerJob[x]
                            /\ workerAt'[x] = "ok" => workerAt[x] = "ok" \/ reportRun'[R!RunOf(x)] \in R!Closed
  BY StaysOnRun DEF ReportsInv
<1>4. Quiet
  BY <1>2, <1>3 DEF Quiet
<1> QED BY <1>4, QuietKeeps

\* Claiming keeps it: what waited is handed over.
LEMMA ClaimGoes ==
    ASSUME ReportsAssumed, ReportsInv, HandedOnce, NEW w \in Workers, NEW u \in Recipients,
           R!Claim(w, u)
    PROVE  Goes
<1>0. /\ ReportsTyped' /\ DeliverySteps
      /\ R!RunOf(w) \in Runs /\ delivery[R!RunOf(w)][u] = "pending"
      /\ delivery'[R!RunOf(w)][u] \in {"sending", "skipped"}
      /\ \A q \in Runs, v \in Recipients : delivery'[q][v] = "pending" => delivery[q][v] = "pending"
      /\ handedOver' = handedOver \/ handedOver' = [handedOver EXCEPT ![R!RunOf(w)][u] = @ + 1]
      /\ workerAt[w] = "claim" /\ workerAt'[w] \in {"claim", "send", "error"} /\ OthersWork(w)
      /\ UNCHANGED <<reportRun, recovery, reportPhase, workerJob, retried>>
  BY ReportClaimed DEF ReportsInv
<1>1. PICK r \in Runs : r = R!RunOf(w)
  BY <1>0
<1>2. handedOver \in [Runs -> [Recipients -> Int]]
  BY DEF ReportsInv, ReportsTyped
<1>3. \A q \in Runs, v \in Recipients : q # r \/ v # u => handedOver'[q][v] = handedOver[q][v]
  BY <1>0, <1>1, <1>2
<1>4. handedOver'[r][u] <= handedOver[r][u] + 1
  BY <1>0, <1>1, <1>2
<1>5. ReportsInv'
  BY <1>0, <1>1, <1>3, WorkKeeps
<1>6. \A q, v : Refused(q, v)' \subseteq Refused(q, v)
  BY <1>0, RefusalsShrink DEF OthersWork
<1>7. ASSUME NEW q \in Runs, NEW v \in Recipients PROVE Owed(q, v)'
  <2>1. Owed(q, v)
    BY DEF HandedOnce
  <2>2. CASE q # r \/ v # u
    BY <2>1, <2>2, <1>0, <1>3, <1>6, NoNewDebt DEF ReportsInv
  <2>3. CASE q = r /\ v = u
    <3> DEFINE n == Cardinality(Refused(r, u))
               m == Cardinality(Refused(r, u)')
    <3>1. n \in Nat /\ m \in Nat /\ m <= n
      BY <1>6, RefusedIsFinite, RefusedIsFiniteNext, FewerRefused
    <3>2. Pending(r, u) = 1 /\ Pending(r, u)' = 0
      BY <1>0, <1>1 DEF Pending
    <3>3. handedOver[r][u] + 1 + n <= 1 + retried[r][u]
      BY <2>1, <2>3, <3>2 DEF Owed
    <3>4. Owed(r, u)' <=> handedOver'[r][u] + 0 + m <= 1 + retried'[r][u]
      BY <3>2 DEF Owed
    <3>5. handedOver[r][u] \in Int /\ handedOver'[r][u] \in Int /\ retried[r][u] \in Nat /\ retried' = retried
      BY <1>0 DEF ReportsInv, ReportsTyped
    <3> HIDE DEF n, m
    <3>6. Owed(r, u)'
      BY <1>4, <3>1, <3>3, <3>4, <3>5
    <3> QED BY <2>3, <3>6
  <2> QED BY <2>2, <2>3
<1> QED BY <1>0, <1>5, <1>7 DEF Goes, HandedOnce

\* Sending keeps it: what was handed over may come back as a refusal in hand.
LEMMA SendGoes ==
    ASSUME ReportsAssumed, ReportsInv, HandedOnce, NEW w \in Workers, R!Send(w) PROVE Goes
<1>0. /\ ReportsTyped' /\ DeliverySteps
      /\ workerAt[w] = "send" /\ workerAt'[w] \in R!Answers /\ OthersWork(w) /\ target[w] \in Recipients
      /\ R!RunOf(w) \in Runs
      /\ handedOver' = IF workerAt'[w] = "rejected" THEN [handedOver EXCEPT ![R!RunOf(w)][target[w]] = @ - 1] ELSE handedOver
      /\ UNCHANGED <<reportRun, delivery, recovery, reportPhase, workerJob, target, retried>>
  BY ReportSent DEF ReportsInv
<1>1. PICK r \in Runs, u \in Recipients : r = R!RunOf(w) /\ u = target[w]
  BY <1>0
<1>2. handedOver \in [Runs -> [Recipients -> Int]]
  BY DEF ReportsInv, ReportsTyped
<1>3. \A q \in Runs, v \in Recipients : q # r \/ v # u => handedOver'[q][v] = handedOver[q][v]
  BY <1>0, <1>1, <1>2
<1>4. ReportsInv'
  <2>1. workerAt'[w] # "ok"
    BY <1>0 DEF R!Answers
  <2> QED BY <1>0, <1>1, <1>3, <2>1, WorkKeeps
<1>5. CASE workerAt'[w] # "rejected"
  <2>1. \A q, v : Refused(q, v)' \subseteq Refused(q, v)
    BY <1>0, <1>5, RefusalsShrink DEF OthersWork
  <2>2. NoneNewlyPending /\ UNCHANGED <<handedOver, retried>>
    BY <1>0, <1>5 DEF NoneNewlyPending
  <2>3. HandedOnce'
    BY <1>0, <2>1, <2>2, HandedStays DEF ReportsInv
  <2> QED BY <1>0, <1>4, <2>3 DEF Goes
<1>6. CASE workerAt'[w] = "rejected"
  <2>1. handedOver'[r][u] = handedOver[r][u] - 1
    BY <1>0, <1>1, <1>2, <1>6
  <2>2. w \notin Refused(r, u)
    BY <1>0 DEF Refused
  <2>3. Refused(r, u)' = Refused(r, u) \cup {w}
    BY <1>0, <1>1, <1>6 DEF Refused, R!RunOf, OthersWork
  <2>4. Cardinality(Refused(r, u)') = Cardinality(Refused(r, u)) + 1
    BY <2>2, <2>3, RefusedIsFinite, FS_AddElement
  <2>5. ASSUME NEW q \in Runs, NEW v \in Recipients, q # r \/ v # u PROVE Refused(q,
               v)' = Refused(q, v)
    BY <1>0, <1>1, <2>5 DEF Refused, R!RunOf, OthersWork
  <2>6. ASSUME NEW q \in Runs, NEW v \in Recipients PROVE Owed(q, v)'
    <3>1. Owed(q, v)
      BY DEF HandedOnce
    <3>2. CASE q # r \/ v # u
      <4>1. Refused(q, v)' \subseteq Refused(q, v)
        BY <2>5, <3>2
      <4> QED BY <3>1, <3>2, <4>1, <1>0, <1>3, NoNewDebt DEF ReportsInv
    <3>3. CASE q = r /\ v = u
      <4> DEFINE n == Cardinality(Refused(r, u))
                 m == Cardinality(Refused(r, u)')
                 p == Pending(r, u)
      <4>1. n \in Nat /\ m = n + 1
        BY <2>4, RefusedIsFinite
      <4>2. p \in {0, 1} /\ Pending(r, u)' = p
        BY <1>0 DEF Pending
      <4>3. handedOver[r][u] + p + n <= 1 + retried[r][u]
        BY <3>1, <3>3 DEF Owed
      <4>4. Owed(r, u)' <=> handedOver'[r][u] + p + m <= 1 + retried'[r][u]
        BY <4>2 DEF Owed
      <4>5. handedOver[r][u] \in Int /\ retried[r][u] \in Nat /\ retried' = retried
        BY <1>0 DEF ReportsInv, ReportsTyped
      <4> HIDE DEF n, m, p
      <4>6. Owed(r, u)'
        BY <2>1, <4>1, <4>2, <4>3, <4>4, <4>5
      <4> QED BY <3>3, <4>6
    <3> QED BY <3>2, <3>3
  <2> QED BY <1>0, <1>4, <2>6 DEF Goes, HandedOnce
<1> QED BY <1>5, <1>6

\* Writing the answer keeps it: a refusal in hand becomes a delivery that waits.
LEMMA AnswerGoes ==
    ASSUME ReportsAssumed, ReportsInv, HandedOnce, NEW w \in Workers, KeepsAnswer(w) PROVE Goes
<1>0. /\ ReportsTyped' /\ DeliverySteps
      /\ R!RunOf(w) \in Runs /\ target[w] \in Recipients
      /\ workerAt[w] \in R!Answers /\ workerAt'[w] \in {"claim", "error"} /\ OthersWork(w)
      /\ \A q \in Runs, v \in Recipients :
            \/ delivery'[q][v] = "pending" => delivery[q][v] = "pending"
            \/ workerAt[w] = "rejected" /\ q = R!RunOf(w) /\ v = target[w]
      /\ UNCHANGED <<reportRun, recovery, reportPhase, workerJob, handedOver, retried>>
  BY AnswerKept DEF ReportsInv
<1>1. PICK r \in Runs, u \in Recipients : r = R!RunOf(w) /\ u = target[w]
  BY <1>0
<1>2. ReportsInv'
  <2>1. workerAt[w] # "idle"
    BY <1>0 DEF R!Answers
  <2> QED BY <1>0, <1>1, <2>1, WorkKeeps
<1>3. \A q, v : Refused(q, v)' \subseteq Refused(q, v) \ {w}
  BY <1>0, RefusalsShrink DEF OthersWork
<1>4. ASSUME NEW q \in Runs, NEW v \in Recipients PROVE Owed(q, v)'
  <2>1. Owed(q, v)
    BY DEF HandedOnce
  <2>2. CASE delivery'[q][v] = "pending" => delivery[q][v] = "pending"
    <3>1. Refused(q, v)' \subseteq Refused(q, v)
      BY <1>3
    <3> QED BY <2>1, <2>2, <3>1, <1>0, NoNewDebt DEF ReportsInv
  <2>3. CASE workerAt[w] = "rejected" /\ q = r /\ v = u
    <3> DEFINE n == Cardinality(Refused(r, u))
               m == Cardinality(Refused(r, u)')
               p == Pending(r, u)
               s == Pending(r, u)'
    <3>1. w \in Refused(r, u)
      BY <1>1, <2>3 DEF Refused
    <3>2. n \in Nat /\ m \in Nat /\ m <= n - 1
      <4> DEFINE S == Refused(r, u) \ {w}
      <4>1. IsFiniteSet(Refused(r, u)) /\ n \in Nat /\ m \in Nat
        BY RefusedIsFinite, RefusedIsFiniteNext
      <4>2. IsFiniteSet(S) /\ Cardinality(S) = n - 1
        BY <3>1, <4>1, FS_RemoveElement
      <4>3. Refused(r, u)' \subseteq S
        BY <1>3
      <4>4. m <= Cardinality(S)
        BY <4>2, <4>3, FS_Subset
      <4> QED BY <4>1, <4>2, <4>4
    <3>3. p \in {0, 1} /\ s \in {0, 1}
      BY DEF Pending
    <3>4. handedOver[r][u] + p + n <= 1 + retried[r][u]
      BY <2>1, <2>3 DEF Owed
    <3>5. Owed(r, u)' <=> handedOver'[r][u] + s + m <= 1 + retried'[r][u]
      BY DEF Owed
    <3>6. handedOver[r][u] \in Int /\ retried[r][u] \in Nat /\ retried' = retried /\ handedOver' = handedOver
      BY <1>0 DEF ReportsInv, ReportsTyped
    <3> HIDE DEF n, m, p, s
    <3>7. Owed(r, u)'
      BY <3>2, <3>3, <3>4, <3>5, <3>6
    <3> QED BY <2>3, <3>7
  <2> QED BY <1>0, <1>1, <2>2, <2>3
<1> QED BY <1>0, <1>2, <1>4 DEF Goes, HandedOnce

\* Enqueueing keeps it.
LEMMA EnqueueGoes ==
    ASSUME ReportsAssumed, ReportsInv, HandedOnce, NEW r \in Runs, R!EnqueueDueDeliveries(r)
    PROVE  Goes
<1>0. /\ ReportsTyped' /\ DeliverySteps
      /\ reportRun[r] = "none" /\ reportRun' = [reportRun EXCEPT ![r] = "pending"]
      /\ \A q \in Runs : q # r => delivery'[q] = delivery[q]
      /\ reportPhase'[<<r, 0>>] = "waiting" /\ \A j \in R!Jobs : j # <<r, 0>> => reportPhase'[j] = reportPhase[j]
      /\ UNCHANGED <<recovery, workerAt, workerJob, target, handedOver, retried>>
  BY ReportEnqueued DEF ReportsInv
<1>1. /\ reportRun'[r] = "pending" /\ \A q \in Runs : q # r => reportRun'[q] = reportRun[q]
      /\ "pending" \notin R!Closed /\ "pending" # "none"
  BY <1>0 DEF ReportsInv, ReportsTyped, R!Closed
<1>2. /\ recovery[r] = 0
      /\ \A u \in Recipients : delivery[r][u] = "none" /\ handedOver[r][u] = 0 /\ retried[r][u] = 0
  BY <1>0 DEF ReportsInv, FreshRuns
<1>3. \A w \in Workers : workerAt[w] # "idle" => R!RunOf(w) # r
  BY <1>0 DEF ReportsInv, OnTheRun
<1>4. FreshRuns'
  BY <1>0, <1>1 DEF ReportsInv, FreshRuns
<1>5. OnTheRun'
  <2> SUFFICES ASSUME NEW w \in Workers, workerAt[w] # "idle"
               PROVE  /\ reportRun'[workerJob[w][1]] # "none"
                      /\ workerJob[w][2] <= recovery[workerJob[w][1]]
                      /\ workerAt[w] = "ok" /\ workerJob[w][2] = recovery[workerJob[w][1]] => reportRun'[workerJob[w][1]] \in R!Closed
    BY <1>0 DEF OnTheRun, R!RunOf
  <2>1. PICK q \in Runs : q = workerJob[w][1]
    BY RunKnown DEF ReportsInv, R!RunOf
  <2>2. reportRun'[q] = reportRun[q]
    BY <1>1, <1>3, <2>1 DEF R!RunOf
  <2> QED BY <2>1, <2>2 DEF ReportsInv, OnTheRun, R!RunOf
<1>6. LatestJob'
  <2> SUFFICES ASSUME NEW q \in Runs
               PROVE  /\ \A g \in 0..Retries :
                           g > recovery[q] \/ reportRun'[q] = "none" => reportPhase'[<<q, g>>] = "none"
                      /\ reportRun'[q] # "none" => reportPhase'[<<q, recovery[q]>>] # "none"
                      /\ reportRun'[q] \in R!Open => reportPhase'[<<q, recovery[q]>>] # "done"
    BY <1>0 DEF LatestJob
  <2>1. recovery[q] \in 0..Retries
    BY DEF ReportsInv, ReportsTyped
  <2>2. \A g \in 0..Retries : <<q, g>> \in R!Jobs
    BY DEF R!Jobs
  <2>3. CASE q # r
    <3>1. \A g \in 0..Retries : reportPhase'[<<q, g>>] = reportPhase[<<q, g>>]
      BY <1>0, <2>2, <2>3
    <3>2. reportRun'[q] = reportRun[q]
      BY <1>1, <2>3
    <3> QED BY <2>1, <3>1, <3>2 DEF ReportsInv, LatestJob
  <2>4. CASE q = r
    <3>1. \A g \in 0..Retries : g > 0 => reportPhase'[<<r, g>>] = reportPhase[<<r, g>>]
      BY <1>0, <2>2, <2>4
    <3>2. \A g \in 0..Retries : reportPhase[<<r, g>>] = "none"
      BY <1>0 DEF ReportsInv, LatestJob
    <3>3. reportPhase'[<<r, 0>>] = "waiting" /\ recovery[q] = 0
      BY <1>0, <1>2, <2>4
    <3> QED BY <1>1, <2>4, <3>1, <3>2, <3>3
  <2> QED BY <2>3, <2>4
<1>7. ASSUME NEW q \in Runs, NEW u \in Recipients PROVE Owed(q, u)'
  <2>1. Owed(q, u)
    BY DEF HandedOnce
  <2>2. Refused(q, u)' = Refused(q, u)
    BY <1>0, RefusalsSame
  <2>3. CASE q # r
    <3>1. delivery'[q] = delivery[q]
      BY <1>0, <2>3
    <3> QED BY <1>0, <2>1, <2>2, <3>1, NoNewDebt DEF ReportsInv
  <2>4. CASE q = r
    <3>1. Refused(r, u) = {}
      BY <1>3 DEF Refused
    <3>2. Cardinality(Refused(r, u)') = 0
      BY <2>2, <2>4, <3>1, FS_EmptySet
    <3>3. Pending(r, u)' \in {0, 1}
      BY DEF Pending
    <3>4. handedOver'[r][u] = 0 /\ retried'[r][u] = 0
      BY <1>0, <1>2
    <3>5. Owed(r, u)' <=> handedOver'[r][u] + Pending(r, u)' + Cardinality(Refused(r, u)') <= 1 + retried'[r][u]
      BY DEF Owed
    <3>6. Owed(r, u)'
      BY <3>2, <3>3, <3>4, <3>5
    <3> QED BY <2>4, <3>6
  <2> QED BY <2>3, <2>4
<1> QED BY <1>0, <1>4, <1>5, <1>6, <1>7 DEF Goes, HandedOnce, ReportsInv

\* A retry keeps it: one more may be handed over.
LEMMA RetryGoes ==
    ASSUME ReportsAssumed, ReportsInv, HandedOnce, NEW r \in Runs, NEW u \in Recipients,
           R!Retry(r, u)
    PROVE  Goes
<1>0. /\ ReportsTyped' /\ DeliverySteps
      /\ delivery[r][u] \in {"failed", "uncertain"} /\ delivery' = [delivery EXCEPT ![r][u] = "pending"]
      /\ reportRun' = [reportRun EXCEPT ![r] = "sending"]
      /\ recovery' = [recovery EXCEPT ![r] = @ + 1]
      /\ retried' = [retried EXCEPT ![r][u] = @ + 1]
      /\ <<r, recovery[r] + 1>> \in R!Jobs /\ reportPhase'[<<r, recovery[r] + 1>>] = "waiting"
      /\ \A j \in R!Jobs : j # <<r, recovery[r] + 1>> => reportPhase'[j] = reportPhase[j]
      /\ UNCHANGED <<workerAt, workerJob, target, handedOver>>
  BY ReportRetried DEF ReportsInv
<1>1. /\ reportRun'[r] = "sending" /\ \A q \in Runs : q # r => reportRun'[q] = reportRun[q]
      /\ recovery'[r] = recovery[r] + 1 /\ \A q \in Runs : q # r => recovery'[q] = recovery[q]
      /\ recovery \in [Runs -> 0..Retries] /\ Retries \in Nat
      /\ "sending" # "none"
  BY <1>0 DEF ReportsInv, ReportsTyped, ReportsAssumed
<1>2. reportRun[r] # "none"
  BY <1>0 DEF ReportsInv, FreshRuns
<1>3. /\ \A q \in Runs, v \in Recipients : q # r \/ v # u =>
            delivery'[q][v] = delivery[q][v] /\ retried'[q][v] = retried[q][v]
      /\ retried'[r][u] = retried[r][u] + 1 /\ delivery'[r][u] = "pending"
  BY <1>0 DEF ReportsInv, ReportsTyped
<1>4. FreshRuns'
  <2>1. ASSUME NEW q \in Runs, reportRun'[q] = "none"
        PROVE  /\ recovery'[q] = 0
               /\ \A v \in Recipients : delivery'[q][v] = "none" /\ handedOver'[q][v] = 0 /\ retried'[q][v] = 0
    <3>1. q # r /\ reportRun[q] = "none"
      BY <1>1, <2>1
    <3> QED BY <1>0, <1>1, <1>3, <3>1 DEF ReportsInv, FreshRuns
  <2> QED BY <2>1 DEF FreshRuns
<1>5. OnTheRun'
  <2> SUFFICES ASSUME NEW w \in Workers, workerAt[w] # "idle"
               PROVE  /\ reportRun'[workerJob[w][1]] # "none"
                      /\ workerJob[w][2] <= recovery'[workerJob[w][1]]
                      /\ workerAt[w] = "ok" /\ workerJob[w][2] = recovery'[workerJob[w][1]] => reportRun'[workerJob[w][1]] \in R!Closed
    BY <1>0 DEF OnTheRun, R!RunOf
  <2>1. PICK q \in Runs : q = workerJob[w][1]
    BY RunKnown DEF ReportsInv, R!RunOf
  <2>2. /\ reportRun[q] # "none" /\ workerJob[w][2] <= recovery[q]
        /\ workerAt[w] = "ok" /\ workerJob[w][2] = recovery[q] => reportRun[q] \in R!Closed
    BY <2>1 DEF ReportsInv, OnTheRun, R!RunOf
  <2>3. CASE q # r
    BY <1>1, <2>1, <2>2, <2>3
  <2>4. CASE q = r
    <3>1. workerJob[w][2] \in 0..Retries
      BY DEF ReportsInv, ReportsTyped, R!Jobs
    <3>2. workerJob[w][2] < recovery'[r]
      BY <1>1, <2>2, <2>4, <3>1
    <3> QED BY <1>1, <2>1, <2>4, <3>1, <3>2
  <2> QED BY <2>3, <2>4
<1>6. LatestJob'
  <2> SUFFICES ASSUME NEW q \in Runs
               PROVE  /\ \A g \in 0..Retries :
                           g > recovery'[q] \/ reportRun'[q] = "none" => reportPhase'[<<q, g>>] = "none"
                      /\ reportRun'[q] # "none" => reportPhase'[<<q, recovery'[q]>>] # "none"
                      /\ reportRun'[q] \in R!Open => reportPhase'[<<q, recovery'[q]>>] # "done"
    BY DEF LatestJob
  <2>1. recovery[q] \in 0..Retries
    BY DEF ReportsInv, ReportsTyped
  <2>2. \A g \in 0..Retries : <<q, g>> \in R!Jobs
    BY DEF R!Jobs
  <2>3. CASE q # r
    <3>1. \A g \in 0..Retries : reportPhase'[<<q, g>>] = reportPhase[<<q, g>>]
      BY <1>0, <2>2, <2>3
    <3>2. reportRun'[q] = reportRun[q] /\ recovery'[q] = recovery[q]
      BY <1>1, <2>3
    <3> QED BY <2>1, <3>1, <3>2 DEF ReportsInv, LatestJob
  <2>4. CASE q = r
    <3>1. \A g \in 0..Retries : g # recovery[r] + 1 => reportPhase'[<<r, g>>] = reportPhase[<<r, g>>]
      BY <1>0, <2>2, <2>4
    <3>2. \A g \in 0..Retries : g > recovery[r] => reportPhase[<<r, g>>] = "none"
      BY DEF ReportsInv, LatestJob
    <3>3. \A g \in 0..Retries : g > recovery'[r] => reportPhase'[<<r, g>>] = "none"
      BY <1>1, <2>1, <2>4, <3>1, <3>2
    <3>4. reportPhase'[<<r, recovery'[r]>>] = "waiting"
      BY <1>0, <1>1
    <3> QED BY <1>1, <2>4, <3>3, <3>4
  <2> QED BY <2>3, <2>4
<1>7. ASSUME NEW q \in Runs, NEW v \in Recipients PROVE Owed(q, v)'
  <2>1. Owed(q, v)
    BY DEF HandedOnce
  <2>2. Refused(q, v)' = Refused(q, v)
    BY <1>0, RefusalsSame
  <2>3. CASE q # r \/ v # u
    <3>1. delivery'[q][v] = delivery[q][v] /\ retried'[q][v] = retried[q][v] /\ handedOver' = handedOver
      BY <1>0, <1>3, <2>3
    <3> QED BY <1>0, <2>1, <2>2, <3>1, NoNewDebt DEF ReportsInv
  <2>4. CASE q = r /\ v = u
    <3> DEFINE n == Cardinality(Refused(r, u))
               m == Cardinality(Refused(r, u)')
    <3>1. n \in Nat /\ m = n
      BY <2>2, <2>4, RefusedIsFinite
    <3>2. Pending(r, u) = 0 /\ Pending(r, u)' = 1
      BY <1>0, <1>3 DEF Pending
    <3>3. handedOver[r][u] + 0 + n <= 1 + retried[r][u]
      BY <2>1, <2>4, <3>2 DEF Owed
    <3>4. Owed(r, u)' <=> handedOver'[r][u] + 1 + m <= 1 + retried'[r][u]
      BY <3>2 DEF Owed
    <3>5. handedOver[r][u] \in Int /\ retried[r][u] \in Nat /\ handedOver' = handedOver
      BY <1>0 DEF ReportsInv, ReportsTyped
    <3> HIDE DEF n, m
    <3>6. Owed(r, u)'
      BY <1>3, <3>1, <3>3, <3>4, <3>5
    <3> QED BY <2>4, <3>6
  <2> QED BY <2>3, <2>4
<1> QED BY <1>0, <1>4, <1>5, <1>6, <1>7 DEF Goes, HandedOnce, ReportsInv

\* A job that was submitted is of a run that was begun.
LEMMA JobHasRun ==
    ASSUME ReportsAssumed, ReportsInv, NEW j \in R!Jobs, reportPhase[j] # "none"
    PROVE  reportRun[j[1]] # "none" /\ j[2] <= recovery[j[1]]
<1>1. PICK s \in Runs, h \in 0..Retries : j = <<s, h>>
  BY DEF R!Jobs
<1>2. recovery[s] \in 0..Retries
  BY DEF ReportsInv, ReportsTyped
<1>3. ~(h > recovery[s] \/ reportRun[s] = "none")
  BY <1>1 DEF ReportsInv, LatestJob
<1>4. h <= recovery[s] /\ reportRun[s] # "none"
  BY <1>2, <1>3 DEF ReportsAssumed
<1> QED BY <1>1, <1>4

\* A job of a run that began moves on; the latest one is done only with its run.
LEMMA JobGoes ==
    ASSUME ReportsAssumed, ReportsInv, HandedOnce, ReportsTyped', NEW j \in R!Jobs,
           \A i \in R!Jobs : i # j => reportPhase'[i] = reportPhase[i],
           reportRun[j[1]] # "none" /\ j[2] <= recovery[j[1]],
           reportPhase'[j] # "none",
           reportPhase'[j] = "done" /\ j[2] = recovery[j[1]] => reportRun[j[1]] \in R!Closed,
           UNCHANGED <<reportRun, delivery, recovery, handedOver, retried>>,
           \A w \in Workers :
              \/ workerAt'[w] = "idle"
              \/ workerAt'[w] = "prepare" /\ workerJob'[w] = j
              \/ workerAt'[w] = workerAt[w] /\ workerJob'[w] = workerJob[w],
           \A r \in Runs, u \in Recipients : Refused(r, u)' \subseteq Refused(r, u)
    PROVE  Goes
<1>1. PICK s \in Runs, h \in 0..Retries : j = <<s, h>>
  BY DEF R!Jobs
<1>2. reportRun[s] # "none" /\ h <= recovery[s] /\ recovery \in [Runs -> 0..Retries]
  BY <1>1 DEF ReportsInv, LatestJob, ReportsTyped, ReportsAssumed
<1>3. FreshRuns'
  BY DEF ReportsInv, FreshRuns
<1>4. OnTheRun'
  <2> SUFFICES ASSUME NEW w \in Workers, workerAt'[w] # "idle"
               PROVE  /\ reportRun[workerJob'[w][1]] # "none"
                      /\ workerJob'[w][2] <= recovery[workerJob'[w][1]]
                      /\ workerAt'[w] = "ok" /\ workerJob'[w][2] = recovery[workerJob'[w][1]] => reportRun[workerJob'[w][1]] \in R!Closed
    BY DEF OnTheRun, R!RunOf
  <2>1. CASE workerAt'[w] = "prepare" /\ workerJob'[w] = j
    BY <1>1, <1>2, <2>1
  <2>2. CASE workerAt'[w] = workerAt[w] /\ workerJob'[w] = workerJob[w]
    BY <2>2 DEF ReportsInv, OnTheRun, R!RunOf
  <2> QED BY <2>1, <2>2
<1>5. LatestJob'
  <2> SUFFICES ASSUME NEW q \in Runs
               PROVE  /\ \A g \in 0..Retries :
                           g > recovery[q] \/ reportRun[q] = "none" => reportPhase'[<<q, g>>] = "none"
                      /\ reportRun[q] # "none" => reportPhase'[<<q, recovery[q]>>] # "none"
                      /\ reportRun[q] \in R!Open => reportPhase'[<<q, recovery[q]>>] # "done"
    BY DEF LatestJob
  <2>1. recovery[q] \in 0..Retries /\ \A g \in 0..Retries : <<q, g>> \in R!Jobs
    BY DEF ReportsInv, ReportsTyped, R!Jobs
  <2>2. \A g \in 0..Retries : q # s \/ g # h => reportPhase'[<<q, g>>] = reportPhase[<<q, g>>]
    BY <1>1, <2>1
  <2>3. \A g \in 0..Retries : g > recovery[q] \/ reportRun[q] = "none" => reportPhase'[<<q, g>>] = "none"
    <3>1. ASSUME NEW g \in 0..Retries, g > recovery[q] \/ reportRun[q] = "none"
          PROVE  q # s \/ g # h
      BY <1>2, <2>1, <3>1
    <3> QED BY <2>2, <3>1 DEF ReportsInv, LatestJob
  <2>4. reportRun[q] # "none" => reportPhase'[<<q, recovery[q]>>] # "none"
    BY <1>1, <2>1, <2>2 DEF ReportsInv, LatestJob
  <2>5. reportRun[q] \in R!Open => reportPhase'[<<q, recovery[q]>>] # "done"
    <3>1. CASE q = s /\ recovery[q] = h
      <4>1. reportRun[q] \in R!Closed => reportRun[q] \notin R!Open
        BY DEF R!Open, R!Closed
      <4> QED BY <1>1, <3>1, <4>1
    <3>2. CASE q # s \/ recovery[q] # h
      BY <2>1, <2>2, <3>2 DEF ReportsInv, LatestJob
    <3> QED BY <3>1, <3>2
  <2> QED BY <2>3, <2>4, <2>5
<1>6. DeliverySteps /\ NoneNewlyPending
  BY DEF DeliverySteps, DeliveryStep, NoneNewlyPending
<1>7. HandedOnce'
  BY <1>6, HandedStays DEF ReportsInv
<1> QED BY <1>3, <1>4, <1>5, <1>6, <1>7 DEF Goes, ReportsInv

\* Taking a job keeps it.
LEMMA TakeGoes ==
    ASSUME ReportsAssumed, ReportsInv, HandedOnce, NEW w \in Workers, NEW j \in R!Jobs,
           R!Take(w, j)
    PROVE  Goes
<1>1. /\ reportPhase' \in [R!Jobs -> JobStates] /\ reportOwner' \in [R!Jobs -> Workers \cup {Nobody}]
      /\ reportPhase[j] \in {"waiting", "taken"} /\ reportPhase'[j] = "taken"
      /\ \A i \in R!Jobs : i # j => reportPhase'[i] = reportPhase[i]
      /\ workerAt' = [workerAt EXCEPT ![w] = "prepare"] /\ workerJob' = [workerJob EXCEPT ![w] = j]
      /\ UNCHANGED <<reportRun, delivery, recovery, target, handedOver, retried>>
  BY JobTaken DEF ReportsInv
<1>2. /\ workerAt' \in [Workers -> WorkerPlaces] /\ workerJob' \in [Workers -> R!Jobs \cup {Idle}]
      /\ workerAt'[w] = "prepare" /\ workerJob'[w] = j
      /\ \A x \in Workers \ {w} : workerAt'[x] = workerAt[x] /\ workerJob'[x] = workerJob[x] /\ target'[x] = target[x]
  BY <1>1 DEF ReportsInv, ReportsTyped, WorkerPlaces
<1>3. ReportsTyped'
  <2>1. \A x \in Workers : workerAt'[x] # "idle" => workerJob'[x] \in R!Jobs
    BY <1>2 DEF ReportsInv, ReportsTyped
  <2>2. \A x \in Workers : workerAt'[x] \in {"send"} \cup R!Answers => target'[x] \in Recipients
    BY <1>2 DEF ReportsInv, ReportsTyped, R!Answers
  <2> QED BY <1>1, <1>2, <2>1, <2>2 DEF ReportsInv, ReportsTyped
<1>4. \A r \in Runs, u \in Recipients : Refused(r, u)' \subseteq Refused(r, u)
  BY <1>2, RefusalsShrink
<1>5. \A x \in Workers : \/ workerAt'[x] = "idle"
                         \/ workerAt'[x] = "prepare" /\ workerJob'[x] = j
                         \/ workerAt'[x] = workerAt[x] /\ workerJob'[x] = workerJob[x]
  BY <1>2
<1>6. reportRun[j[1]] # "none" /\ j[2] <= recovery[j[1]]
  BY <1>1, JobHasRun
<1>8. reportPhase'[j] # "none" /\ reportPhase'[j] # "done"
  BY <1>1
<1>7. UNCHANGED <<reportRun, delivery, recovery, handedOver, retried>>
  BY <1>1
<1> QED BY <1>1, <1>3, <1>4, <1>5, <1>6, <1>7, <1>8, JobGoes

\* Settling a job keeps it.
LEMMA SettleGoes ==
    ASSUME ReportsAssumed, ReportsInv, HandedOnce, NEW w \in Workers, R!Settle(w) PROVE Goes
<1>1. workerAt[w] # "idle" /\ R!BackToIdle(w)
  BY DEF R!Settle, R!Verdicts
<1>2. PICK j \in R!Jobs : j = workerJob[w]
  BY <1>1 DEF ReportsInv, ReportsTyped
<1>3. /\ reportPhase' \in [R!Jobs -> JobStates] /\ reportOwner' \in [R!Jobs -> Workers \cup {Nobody}]
      /\ \A i \in R!Jobs : i # j => reportPhase'[i] = reportPhase[i]
      /\ reportPhase'[j] \in {"waiting", "done", "failed"}
      /\ reportPhase'[j] = "done" => workerAt[w] = "ok"
  BY <1>1, <1>2, QueueSettles DEF ReportsInv
<1>4. /\ workerAt' \in [Workers -> WorkerPlaces] /\ target' \in [Workers -> Recipients \cup {Nobody}]
      /\ workerJob' \in [Workers -> R!Jobs \cup {Idle}]
      /\ workerAt'[w] = "idle" /\ OthersWork(w)
      /\ \A x \in Workers : workerAt'[x] # "idle" => workerJob'[x] \in R!Jobs
      /\ \A x \in Workers : workerAt'[x] \in {"send"} \cup R!Answers => target'[x] \in Recipients
      /\ UNCHANGED <<reportRun, delivery, recovery, handedOver, retried>>
  BY <1>1, WorkerRests DEF ReportsInv
<1>5. ReportsTyped'
  BY <1>3, <1>4 DEF ReportsInv, ReportsTyped
<1>6. /\ reportRun[j[1]] # "none" /\ j[2] <= recovery[j[1]]
      /\ workerAt[w] = "ok" /\ j[2] = recovery[j[1]] => reportRun[j[1]] \in R!Closed
  BY <1>1, <1>2 DEF ReportsInv, OnTheRun, R!RunOf
<1>7. \A r \in Runs, u \in Recipients : Refused(r, u)' \subseteq Refused(r, u)
  BY <1>4, RefusalsShrink DEF OthersWork
<1>8. \A x \in Workers : \/ workerAt'[x] = "idle"
                         \/ workerAt'[x] = "prepare" /\ workerJob'[x] = j
                         \/ workerAt'[x] = workerAt[x] /\ workerJob'[x] = workerJob[x]
  BY <1>4 DEF OthersWork
<1> QED BY <1>3, <1>4, <1>5, <1>6, <1>7, <1>8, JobGoes

\* Giving a job up keeps it.
LEMMA GiveUpGoes ==
    ASSUME ReportsAssumed, ReportsInv, HandedOnce, NEW j \in R!Jobs, R!GiveUp(j) PROVE Goes
<1>1. /\ reportPhase' \in [R!Jobs -> JobStates] /\ reportOwner' \in [R!Jobs -> Workers \cup {Nobody}]
      /\ reportPhase[j] = "taken" /\ reportPhase'[j] = "failed"
      /\ \A i \in R!Jobs : i # j => reportPhase'[i] = reportPhase[i]
  BY JobGivenUp DEF ReportsInv
<1>2. UNCHANGED <<reportRun, delivery, recovery, workerAt, workerJob, target, handedOver, retried>>
  BY DEF R!GiveUp, R!runVars, R!workerVars
<1>3. ReportsTyped'
  BY <1>1, <1>2 DEF ReportsInv, ReportsTyped
<1>4. \A r \in Runs, u \in Recipients : Refused(r, u)' \subseteq Refused(r, u)
  BY <1>2, RefusalsSame
<1>5. \A x \in Workers : \/ workerAt'[x] = "idle"
                         \/ workerAt'[x] = "prepare" /\ workerJob'[x] = j
                         \/ workerAt'[x] = workerAt[x] /\ workerJob'[x] = workerJob[x]
  BY <1>2
<1>6. reportRun[j[1]] # "none" /\ j[2] <= recovery[j[1]]
  BY <1>1, JobHasRun
<1>8. reportPhase'[j] # "none" /\ reportPhase'[j] # "done"
  BY <1>1
<1>7. UNCHANGED <<reportRun, delivery, recovery, handedOver, retried>>
  BY <1>2
<1> QED BY <1>1, <1>3, <1>4, <1>5, <1>6, <1>7, <1>8, JobGoes

\* Nothing was due yet.
LEMMA ReportsStart == ASSUME ReportsAssumed, R!Init PROVE ReportsInv /\ HandedOnce
<1>1. ReportsTyped
  BY DEF ReportsAssumed, R!Init, ReportsTyped, RunStates, R!DeliveryStatuses, JobStates,
     WorkerPlaces, R!Answers
<1>2. FreshRuns /\ OnTheRun
  BY DEF R!Init, FreshRuns, OnTheRun
<1>3. LatestJob
  BY DEF R!Init, LatestJob, R!Jobs, R!Open
<1>4. ASSUME NEW r \in Runs, NEW u \in Recipients PROVE Owed(r, u)
  <2>1. Refused(r, u) = {}
    BY DEF R!Init, Refused
  <2>2. Cardinality(Refused(r, u)) = 0
    BY <2>1, FS_EmptySet
  <2>3. Pending(r, u) = 0 /\ handedOver[r][u] = 0 /\ retried[r][u] = 0
    BY DEF R!Init, Pending
  <2> QED BY <2>2, <2>3 DEF Owed
<1> QED BY <1>1, <1>2, <1>3, <1>4 DEF ReportsInv, HandedOnce

\* Every step keeps the invariant, and moves deliveries only as they may be.
LEMMA ReportsStep ==
    ASSUME ReportsAssumed, ReportsInv, HandedOnce, [R!Next]_R!vars PROVE Goes
<1>1. CASE UNCHANGED R!vars
  <2>1. UNCHANGED <<reportRun, delivery, recovery, reportPhase, reportOwner, workerAt, workerJob, target, handedOver, retried>>
    BY <1>1 DEF R!vars
  <2> QED BY <2>1, RestGoes DEF ReportsInv, ReportsTyped
<1>2. CASE Revises
  <2>1. /\ ReportsTyped' /\ DeliverySteps /\ NoneNewlyPending
        /\ \A r \in Runs : reportRun'[r] = reportRun[r] \/ (reportRun[r] \in R!Open /\ reportRun'[r] \in R!Closed)
        /\ UNCHANGED <<recovery, reportPhase, workerAt, workerJob, target, handedOver, retried>>
    BY <1>2, ScheduleRevised DEF ReportsInv
  <2> QED BY <2>1, DeskGoes
<1>3. CASE OffTheRun
  <2>1. UNCHANGED <<reportRun, delivery, recovery, reportPhase, reportOwner, workerAt, workerJob, target, handedOver, retried>>
    BY <1>3, RunUntouched
  <2> QED BY <2>1, RestGoes DEF ReportsInv, ReportsTyped
<1>4. ASSUME NEW r \in Runs, R!EnqueueDueDeliveries(r) PROVE Goes
  BY <1>4, EnqueueGoes
<1>5. ASSUME NEW r \in Runs, NEW u \in Recipients, R!Stall(r, u) PROVE Goes
  <2>1. /\ ReportsTyped' /\ DeliverySteps /\ NoneNewlyPending
        /\ UNCHANGED <<reportRun, recovery, reportPhase, workerAt, workerJob, target, handedOver, retried>>
    BY <1>5, DeliveryStalled DEF ReportsInv
  <2> QED BY <2>1, DeskGoes
<1>6. ASSUME NEW r \in Runs, NEW u \in Recipients, R!ConfirmSent(r, u) PROVE Goes
  BY <1>6, ConfirmGoes
<1>7. ASSUME NEW r \in Runs, NEW u \in Recipients, R!Retry(r, u) PROVE Goes
  BY <1>7, RetryGoes
<1>8. ASSUME NEW w \in Workers, NEW j \in R!Jobs, R!Take(w, j) PROVE Goes
  BY <1>8, TakeGoes
<1>9. ASSUME NEW w \in Workers, LooksAtRun(w) PROVE Goes
  BY <1>9, LookGoes
<1>10. ASSUME NEW w \in Workers, NEW u \in Recipients, R!Claim(w, u) PROVE Goes
  BY <1>10, ClaimGoes
<1>11. ASSUME NEW w \in Workers, OnlyMoves(w) PROVE Goes
  BY <1>11, MoveGoes
<1>12. ASSUME NEW w \in Workers, R!Send(w) PROVE Goes
  BY <1>12, SendGoes
<1>13. ASSUME NEW w \in Workers, KeepsAnswer(w) PROVE Goes
  BY <1>13, AnswerGoes
<1>14. ASSUME NEW w \in Workers, R!Settle(w) PROVE Goes
  BY <1>14, SettleGoes
<1>15. ASSUME NEW w \in Workers, R!ClaimLost(w) \/ R!Stop(w) PROVE Goes
  BY <1>15, LeaveGoes
<1>16. ASSUME NEW w \in Workers, R!Lapse(w) PROVE Goes
  <2>1. /\ UNCHANGED <<reportRun, delivery, recovery, reportPhase, workerAt, workerJob, target, handedOver, retried>>
        /\ reportOwner' = [reportOwner EXCEPT ![workerJob[w]] = Nobody]
    BY <1>16 DEF R!Lapse, R!Queue!WalkAway, R!runVars, R!workerVars
  <2>2. reportOwner' \in [R!Jobs -> Workers \cup {Nobody}]
    BY <2>1 DEF ReportsInv, ReportsTyped
  <2> QED BY <2>1, <2>2, RestGoes
<1>17. ASSUME NEW j \in R!Jobs, R!GiveUp(j) PROVE Goes
  BY <1>17, GiveUpGoes
<1> QED BY <1>1, <1>2, <1>3, <1>4, <1>5, <1>6, <1>7, <1>8, <1>9, <1>10, <1>11, <1>12, <1>13,
           <1>14, <1>15, <1>16, <1>17
        DEF R!Next, Revises, OffTheRun, LooksAtRun, OnlyMoves, KeepsAnswer

\* What is settled stays so until an operator decides.
LEMMA StepKeepsOutcomes ==
    ASSUME ReportsInv, DeliverySteps PROVE R!KeepsOutcomes
<1> SUFFICES ASSUME NEW r \in Runs, NEW u \in Recipients
             PROVE  /\ delivery[r][u] \in {"accepted", "skipped"} => delivery'[r][u] = delivery[r][u]
                    /\ delivery[r][u] = "failed" /\ delivery'[r][u] # "failed" =>
                          retried'[r][u] = retried[r][u] + 1
  BY DEF R!KeepsOutcomes
<1>1. DeliveryStep(r, u) /\ (reportRun[r] = "none" => delivery[r][u] = "none")
  BY DEF DeliverySteps, ReportsInv, FreshRuns
<1> QED BY <1>1 DEF DeliveryStep, R!Sending

\* What the provider may have is bounded by the decisions to send.
LEMMA OwedBounds ==
    ASSUME ReportsAssumed, ReportsInv, HandedOnce PROVE R!SentOncePerDecision
<1> SUFFICES ASSUME NEW r \in Runs, NEW u \in Recipients PROVE handedOver[r][u] <= 1 + retried[r][u]
  BY DEF R!SentOncePerDecision
<1>1. Cardinality(Refused(r, u)) \in Nat /\ Pending(r, u) \in {0, 1}
  BY RefusedIsFinite DEF Pending
<1>2. handedOver[r][u] + Pending(r, u) + Cardinality(Refused(r, u)) <= 1 + retried[r][u]
  BY DEF HandedOnce, Owed
<1>3. handedOver[r][u] \in Int /\ retried[r][u] \in Nat
  BY DEF ReportsInv, ReportsTyped
<1> QED BY <1>1, <1>2, <1>3

\* The latest job of an open run has not ended.
LEMMA LatestJobFound ==
    ASSUME ReportsAssumed, ReportsInv PROVE R!OpenRunHasJob
<1> SUFFICES ASSUME NEW r \in Runs, reportRun[r] \in R!Open
             PROVE  \E j \in R!Jobs : j[1] = r /\ reportPhase[j] \in {"waiting", "taken", "failed"}
  BY DEF R!OpenRunHasJob
<1>1. recovery[r] \in 0..Retries
  BY DEF ReportsInv, ReportsTyped
<1>2. <<r, recovery[r]>> \in R!Jobs
  BY <1>1 DEF R!Jobs
<1>3. reportPhase[<<r, recovery[r]>>] \notin {"none", "done"}
  BY DEF ReportsInv, LatestJob, R!Open
<1>4. reportPhase[<<r, recovery[r]>>] \in JobStates
  BY <1>2 DEF ReportsInv, ReportsTyped
<1> QED BY <1>2, <1>3, <1>4 DEF JobStates

\* A report is handed over once per decision to send it, an open run has a job,
\* and what is settled stays settled until an operator decides.
THEOREM ReportsHold ==
    ASSUME ReportsAssumed
    PROVE  R!Spec => [](R!SentOncePerDecision /\ R!OpenRunHasJob) /\ [][R!KeepsOutcomes]_R!vars
<1>1. R!Init => ReportsInv /\ HandedOnce
  BY ReportsStart
<1>2. ReportsInv /\ HandedOnce /\ [R!Next]_R!vars => (ReportsInv /\ HandedOnce)'
  BY ReportsStep DEF Goes
<1>3. ReportsInv /\ HandedOnce => R!SentOncePerDecision /\ R!OpenRunHasJob
  BY OwedBounds, LatestJobFound
<1>4. ReportsInv /\ HandedOnce /\ [R!Next]_R!vars => R!KeepsOutcomes
  BY ReportsStep, StepKeepsOutcomes DEF Goes
<1> QED BY <1>1, <1>2, <1>3, <1>4, PTL DEF R!Spec

-----------------------------------------------------------------------------
(* The workspace.  A behaviour of MCWorkspace is about one of its parts:   *)
(* its steps are that part's.                                              *)

\* The constants of the workspace are as the three parts need them.
LEMMA RecordsAssumed == ImportsAssumed /\ ApprovalsAssumed /\ ReportsAssumed
BY WorkspaceAssumption DEF ImportsAssumed, ApprovalsAssumed, ReportsAssumed, I!Requests

\* No step changes what the behaviour is about.
LEMMA RecordsSubject == ASSUME [WorkspaceNext]_shared PROVE UNCHANGED about
<1>1. CASE UNCHANGED shared
  BY <1>1 DEF shared
<1>2. CASE ImportStep
  BY <1>2 DEF ImportStep, Rest18
<1>3. CASE ReportStep
  BY <1>3 DEF ReportStep, Rest
<1>4. CASE MailStep
  BY <1>4 DEF MailStep, Rest18
<1>5. CASE MemberStep
  BY <1>5 DEF MemberStep, Rest18
<1>6. CASE ApprovalStep
  BY <1>6 DEF ApprovalStep, Rest17
<1>7. CASE MailboxStep
  BY <1>7 DEF MailboxStep, Rest12
<1>8. CASE LimitStep
  BY <1>8 DEF LimitStep, Rest11
<1> QED
  BY <1>1, <1>2, <1>3, <1>4, <1>5, <1>6, <1>7, <1>8 DEF WorkspaceNext

\* While imports are looked at, every step is one of ImportBatches.
LEMMA ImportsMoved == ASSUME OnImports, [WorkspaceNext]_shared PROVE [I!Next]_I!vars
<1>1. CASE UNCHANGED shared
  BY <1>1 DEF shared, from11, I!vars
<1>2. CASE ImportStep
  <2>1. 1 \in I!Rows
    BY WorkspaceAssumption DEF I!Rows
  <2> QED
    BY <1>2, <2>1 DEF ImportStep, I!Next, I!Execution, I!Rollback, I!Requests
<1>3. ~(ReportStep \/ MailStep \/ MemberStep \/ ApprovalStep \/ MailboxStep \/ LimitStep)
  BY DEF ReportStep, MailStep, MemberStep, ApprovalStep, MailboxStep, LimitStep, OnImports,
         OnReports, OnPeople, OnMembers, OnApprovals, OnMailbox, OnLimits
<1> QED
  BY <1>1, <1>2, <1>3 DEF WorkspaceNext

\* While reports are looked at, every step is one of ReportSchedules.
LEMMA ReportsMoved == ASSUME OnReports, [WorkspaceNext]_shared PROVE [R!Next]_R!vars
<1>1. CASE UNCHANGED shared
  BY <1>1 DEF shared, from11, R!vars
<1>2. CASE ReportStep
  BY <1>2 DEF ReportStep, R!Next
<1>3. ~(ImportStep \/ MailStep \/ MemberStep \/ ApprovalStep \/ MailboxStep \/ LimitStep)
  BY DEF ImportStep, MailStep, MemberStep, ApprovalStep, MailboxStep, LimitStep, OnImports,
         OnReports, OnPeople, OnMembers, OnApprovals, OnMailbox, OnLimits
<1> QED
  BY <1>1, <1>2, <1>3 DEF WorkspaceNext

\* While approvals are looked at, every step is one of WorkflowApprovals.
LEMMA ApprovalsMoved == ASSUME OnApprovals, [WorkspaceNext]_shared PROVE [W!Next]_W!vars
<1>1. CASE UNCHANGED shared
  BY <1>1 DEF shared, from11, W!vars, W!definition, W!rows
<1>2. CASE ApprovalStep
  BY <1>2 DEF ApprovalStep, W!Next
<1>3. ~(ImportStep \/ ReportStep \/ MailStep \/ MemberStep \/ MailboxStep \/ LimitStep)
  BY DEF ImportStep, ReportStep, MailStep, MemberStep, MailboxStep, LimitStep, OnImports,
         OnReports, OnPeople, OnMembers, OnApprovals, OnMailbox, OnLimits
<1> QED
  BY <1>1, <1>2, <1>3 DEF WorkspaceNext

\* The inductive invariant of the workspace: that of the part looked at.
RecordsInv ==
    /\ OnImports => ImportsInv
    /\ OnReports => ReportsInv /\ HandedOnce
    /\ OnApprovals => LingerInv

\* It holds at the start.
LEMMA RecordsStart == ASSUME WorkspaceInit PROVE RecordsInv
<1>1. ASSUME OnImports PROVE ImportsInv
  BY <1>1, RecordsAssumed, ImportsInit DEF WorkspaceInit, OnImports
<1>2. ASSUME OnReports PROVE ReportsInv /\ HandedOnce
  BY <1>2, RecordsAssumed, ReportsStart DEF WorkspaceInit, OnReports
<1>3. ASSUME OnApprovals PROVE LingerInv
  BY <1>3, RecordsAssumed, LingerInit DEF WorkspaceInit, OnApprovals
<1> QED
  BY <1>1, <1>2, <1>3 DEF RecordsInv

\* Every step keeps it.
LEMMA RecordsStep == ASSUME RecordsInv, [WorkspaceNext]_shared PROVE RecordsInv'
<1>1. OnImports' = OnImports /\ OnReports' = OnReports /\ OnApprovals' = OnApprovals
  BY RecordsSubject DEF OnImports, OnReports, OnApprovals
<1>2. ASSUME OnImports PROVE ImportsInv'
  BY <1>2, RecordsAssumed, ImportsMoved, ImportsStep DEF RecordsInv
<1>3. ASSUME OnReports PROVE ReportsInv' /\ HandedOnce'
  BY <1>3, RecordsAssumed, ReportsMoved, ReportsStep DEF RecordsInv, Goes
<1>4. ASSUME OnApprovals PROVE LingerInv'
  BY <1>4, RecordsAssumed, ApprovalsMoved, LingerStep DEF RecordsInv
<1> QED
  BY <1>1, <1>2, <1>3, <1>4 DEF RecordsInv

\* A workspace keeps what is known of its part.
LEMMA RecordsAlways == WorkspaceSpec => []RecordsInv
<1>1. WorkspaceInit => RecordsInv
  BY RecordsStart
<1>2. RecordsInv /\ [WorkspaceNext]_shared => RecordsInv'
  BY RecordsStep
<1> QED
  BY <1>1, <1>2, PTL DEF WorkspaceSpec

\* What several transactions write in turn adds up: the counters of an import
\* are those of its rows, and the run, the approval, the outcomes and the tasks
\* of a playbook tell one story.
THEOREM RecordsAlwaysAgree == WorkspaceSpec => []RecordsAgree
<1>1. RecordsInv => RecordsAgree
  BY DEF RecordsInv, RecordsAgree, ImportsInv, LingerInv, PlansInv
<1> QED
  BY <1>1, RecordsAlways, PTL

\* An approval that is left pending is current, or was overtaken by one of the
\* two writers its transaction does not wait for.
THEOREM NoOtherPlanLingers == WorkspaceSpec => []OnlyOvertakenPlansLinger
<1>1. RecordsInv => OnlyOvertakenPlansLinger
  BY Lingers DEF RecordsInv, OnlyOvertakenPlansLinger, LingerInv
<1> QED
  BY <1>1, RecordsAlways, PTL

\* A report is handed to the provider once per decision to send it.
THEOREM ReportsAreSentOnce == WorkspaceSpec => []SentOncePerDecision
<1>1. RecordsInv => SentOncePerDecision
  BY RecordsAssumed, OwedBounds DEF RecordsInv, SentOncePerDecision
<1> QED
  BY <1>1, RecordsAlways, PTL

\* An open run of a report has a job that waits, is taken, or is dead.
THEOREM OpenRunsHaveJobs == WorkspaceSpec => []OpenRunHasJob
<1>1. RecordsInv => OpenRunHasJob
  BY RecordsAssumed, LatestJobFound DEF RecordsInv, OpenRunHasJob
<1> QED
  BY <1>1, RecordsAlways, PTL

\* No step reopens what has ended: a rolled back import, a settled delivery of
\* a report, a decided or cancelled approval.
THEOREM EndedRecordsStand == WorkspaceSpec => SettledStaysSettled
<1>1. ASSUME RecordsInv, [WorkspaceNext]_shared
      PROVE  /\ OnImports => I!KeepsRollback
             /\ OnReports => R!KeepsOutcomes
             /\ OnApprovals => W!KeepsDecisions
  <2>1. ASSUME OnImports PROVE I!KeepsRollback
    BY <1>1, <2>1, RecordsAssumed, ImportsMoved, RollbackStays DEF RecordsInv
  <2>2. ASSUME OnReports PROVE R!KeepsOutcomes
    BY <1>1, <2>2, RecordsAssumed, ReportsMoved, ReportsStep, StepKeepsOutcomes
       DEF RecordsInv, Goes
  <2>3. ASSUME OnApprovals PROVE W!KeepsDecisions
    BY <1>1, <2>3, ApprovalsMoved, DecisionsKept DEF RecordsInv, LingerInv
  <2> QED
    BY <2>1, <2>2, <2>3
<1> QED
  BY <1>1, RecordsAlways, PTL DEF WorkspaceSpec, SettledStaysSettled
=============================================================================
