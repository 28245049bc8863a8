----------------------------- MODULE ExportJobs ------------------------------
(***************************************************************************)
(* The durable exports of one workspace: the filtered CRM exports of       *)
(* exports/async.go (filtered) and the portable workspace bundles of        *)
(* workspaceexports/service.go, two tables with the same life cycle and two *)
(* handlers that differ in what they check.                                *)
(*                                                                         *)
(* A request inserts the export row and its job together; a worker that    *)
(* took the job marks the row "processing", builds the file outside any    *)
(* transaction, and stores it in one; the queue is what JobLedger promises *)
(* of it.  The storing transaction is two steps, its statements and its    *)
(* commit, because what it evicts is what it saw before others committed.  *)
(***************************************************************************)
EXTENDS Integers, FiniteSets

CONSTANTS
    Exports,      \* export rows, one idempotency key each
    Admins,       \* members who may request
    Workers,
    NoExport,     \* no worker task
    Nobody,       \* no job owner, no requester
    MaxAttempts,  \* max_attempts of an export job
    MaxReady,     \* artifacts one workspace keeps
    MaxReplays,   \* bound: generic replays of one job
    Kinds         \* the tables looked at: TRUE crm_exports, FALSE workspace_exports

VARIABLES
    filtered,     \* which of the two tables this behaviour is about
    status,       \* crm_exports.status or workspace_exports.status
    requester,    \* requested_by_user_id
    expires,      \* expires_at: "unset", "ahead" or "past"
    later,        \* ORDER BY completed_at: <<x, y>> when x was stored after y, or y never
    active,       \* membership_status of each administrator
    jobPhase, jobTries, jobOwner,   \* the export jobs, as JobLedger sees them
    withdrawn,    \* the job was completed as "skipped" with its requester
    pc, task,     \* each worker: where it is in the handler, for which export
    evicts,       \* each worker: rows its open transaction expires
    replays       \* history: generic replays

rowVars == <<filtered, status, requester, expires, later>>
jobVars == <<jobPhase, jobTries, jobOwner, withdrawn>>
workerVars == <<pc, task, evicts>>
vars == <<filtered, status, requester, expires, later, active, jobPhase,
          jobTries, jobOwner, withdrawn, pc, task, evicts, replays>>

Queue == INSTANCE JobLedger WITH
    Jobs <- Exports,
    Limit <- [x \in Exports |-> MaxAttempts],
    phase <- jobPhase,
    tries <- jobTries,
    owner <- jobOwner

Statuses == {"none", "pending", "processing", "ready", "failed", "expired"}
Generating == {"pending", "processing"}
Verdicts == {"ok", "error", "permanent"}
Calls == {"load", "actor", "start", "build", "store", "commit",
          "too large", "interrupted", "inactive"}

TypeOK ==
    /\ filtered \in Kinds
    /\ status \in [Exports -> Statuses]
    /\ requester \in [Exports -> Admins \cup {Nobody}]
    /\ expires \in [Exports -> {"unset", "ahead", "past"}]
    /\ later \subseteq Exports \X Exports
    /\ active \in [Admins -> BOOLEAN]
    /\ jobPhase \in [Exports -> {"none", "waiting", "taken", "done", "failed"}]
    /\ jobTries \in [Exports -> Nat]
    /\ jobOwner \in [Exports -> Workers \cup {Nobody}]
    /\ withdrawn \in [Exports -> BOOLEAN]
    /\ pc \in [Workers -> {"idle"} \cup Calls \cup Verdicts]
    /\ task \in [Workers -> Exports \cup {NoExport}]
    /\ evicts \in [Workers -> SUBSET Exports]
    /\ replays \in [Exports -> Nat]

Init ==
    /\ filtered \in Kinds
    /\ status = [x \in Exports |-> "none"]
    /\ requester = [x \in Exports |-> Nobody]
    /\ expires = [x \in Exports |-> "unset"]
    /\ later = {}
    /\ active = [a \in Admins |-> TRUE]
    /\ jobPhase = [x \in Exports |-> "none"]
    /\ jobTries = [x \in Exports |-> 0]
    /\ jobOwner = [x \in Exports |-> Nobody]
    /\ withdrawn = [x \in Exports |-> FALSE]
    /\ pc = [w \in Workers |-> "idle"]
    /\ task = [w \in Workers |-> NoExport]
    /\ evicts = [w \in Workers |-> {}]
    /\ replays = [x \in Exports |-> 0]

-----------------------------------------------------------------------------
(* Row locks: the storing transaction holds its own row, and a shared lock *)
(* on the requester's membership, until it commits.                        *)

Storing(x) == \E w \in Workers : pc[w] = "commit" /\ task[w] = x

Vouched(a) == \E w \in Workers : pc[w] = "commit" /\ requester[task[w]] = a

-----------------------------------------------------------------------------
(* Members, readers and the clock.                                         *)

\* Requests serialize on the organization row; a known key changes nothing.
Request(x, a) ==
    /\ status[x] = "none"
    /\ filtered => active[a]
    /\ \A y \in Exports : status[y] \notin Generating
    /\ status' = [status EXCEPT ![x] = "pending"]
    /\ requester' = [requester EXCEPT ![x] = a]
    /\ Queue!Submit(x)
    /\ UNCHANGED <<filtered, expires, later, active, withdrawn, workerVars, replays>>

Quiesced(a) == {x \in Exports : requester[x] = a /\ status[x] \in Generating}

SkippedAny(a, failing) ==
    {x \in Exports : requester[x] = a /\ jobPhase[x] = "waiting"}

Skipped(a, failing) ==
    {x \in Exports : /\ requester[x] = a
                     /\ x \in failing \/ status[x] = "failed"
                     /\ jobPhase[x] = "waiting"}

DisableJobsOnly(a) ==
    /\ active[a]
    /\ ~Vouched(a)
    /\ active' = [active EXCEPT ![a] = FALSE]
    /\ withdrawn' = [x \in Exports |-> x \in SkippedAny(a, {}) \/ withdrawn[x]]
    /\ Queue!Withdraw(SkippedAny(a, {}))
    /\ UNCHANGED <<rowVars, workerVars, replays>>

\* Deactivation fails the member's CRM exports and completes, as skipped, the
\* jobs of the failed ones that are waiting; running jobs are left to fail.
Disable(a) ==
    /\ active[a]
    /\ ~Vouched(a)
    /\ active' = [active EXCEPT ![a] = FALSE]
    /\ LET failing == IF filtered THEN Quiesced(a) ELSE {}
           skipped == IF filtered THEN Skipped(a, failing) ELSE {}
       IN  /\ status' = [x \in Exports |-> IF x \in failing THEN "failed" ELSE status[x]]
           /\ withdrawn' = [x \in Exports |-> x \in skipped \/ withdrawn[x]]
           /\ Queue!Withdraw(skipped)
    /\ UNCHANGED <<filtered, requester, expires, later, workerVars, replays>>

Reactivate(a) ==
    /\ ~active[a]
    /\ active' = [active EXCEPT ![a] = TRUE]
    /\ UNCHANGED <<rowVars, jobVars, workerVars, replays>>

ArtifactTTLPasses(x) ==
    /\ expires[x] = "ahead"
    /\ expires' = [expires EXCEPT ![x] = "past"]
    /\ UNCHANGED <<filtered, status, requester, later, active, jobVars, workerVars,
                   replays>>

ExpireAsDeleted(x) ==
    /\ status[x] \in {"ready", "failed"} /\ ~Storing(x)
    /\ expires[x] = "past"
    /\ status' = [status EXCEPT ![x] = "deleted"]
    /\ UNCHANGED <<filtered, requester, expires, later, active, jobVars,
                   workerVars, replays>>

\* Listing and the hourly cleanup expire the ready rows that are due; a
\* download expires whatever row it finds with a date that has passed.
Expire(x) ==
    /\ status[x] \in {"ready", "failed"} /\ ~Storing(x)
    /\ expires[x] = "past"
    /\ status' = [status EXCEPT ![x] = "expired"]
    /\ UNCHANGED <<filtered, requester, expires, later, active, jobVars,
                   workerVars, replays>>

-----------------------------------------------------------------------------
(* The handler.  x is the export of the job the worker has taken.          *)

Goto(w, p) == pc' = [pc EXCEPT ![w] = p]

\* A committed statement whose answer may be lost on the way to the handler.
Answer(w, known, lost) == Goto(w, known) \/ Goto(w, lost)

Take(w, x) ==
    /\ pc[w] = "idle"
    /\ \A v \in Workers : task[v] # x
    /\ Queue!Take(w, x, {})
    /\ Goto(w, "load")
    /\ task' = [task EXCEPT ![w] = x]
    /\ UNCHANGED <<rowVars, active, withdrawn, evicts, replays>>

LoadStarted(w) ==
    LET x == task[w] IN
    /\ pc[w] = "load"
    /\ Goto(w, IF status[x] \in {"ready", "processing"} THEN "ok"
               ELSE IF filtered THEN "actor" ELSE "start")
    /\ UNCHANGED <<rowVars, active, jobVars, task, evicts, replays>>

LoadAfresh(w) ==
    /\ pc[w] = "load"
    /\ Goto(w, IF filtered THEN "actor" ELSE "start")
    /\ UNCHANGED <<rowVars, active, jobVars, task, evicts, replays>>

\* A file that is there and not expired is not built again.
Load(w) ==
    LET x == task[w] IN
    /\ pc[w] = "load"
    /\ Goto(w, IF status[x] = "ready" /\ expires[x] = "ahead" THEN "ok"
               ELSE IF filtered THEN "actor" ELSE "start")
    /\ UNCHANGED <<rowVars, active, jobVars, task, evicts, replays>>

CheckActor(w) ==
    /\ pc[w] = "actor"
    /\ Goto(w, IF active[requester[task[w]]] THEN "start" ELSE "inactive")
    /\ UNCHANGED <<rowVars, active, jobVars, task, evicts, replays>>

\* Whatever the row says, it starts over.
MarkProcessing(w) ==
    LET x == task[w] IN
    /\ pc[w] = "start"
    /\ ~Storing(x)
    /\ status' = [status EXCEPT ![x] = "processing"]
    /\ expires' = [expires EXCEPT ![x] = "unset"]
    /\ Answer(w, "build", "error")
    /\ UNCHANGED <<filtered, requester, later, active, jobVars, task, evicts, replays>>

Build(w) ==
    /\ pc[w] = "build"
    /\ \E p \in {"store", "too large", "interrupted"} : Goto(w, p)
    /\ UNCHANGED <<rowVars, active, jobVars, task, evicts, replays>>

\* ORDER BY completed_at DESC OFFSET MaxReady, as the transaction of x sees it:
\* x itself comes first.
Evicted(x) ==
    LET ready == {y \in Exports \ {x} : status[y] = "ready"}
    IN  {y \in ready : Cardinality({z \in ready : <<z, y>> \in later}) + 1 >= MaxReady}

\* The statements of the storing transaction.  The CRM handler checks its
\* requester and its own row again; the workspace handler checks nothing.
Store(w) ==
    LET x == task[w] IN
    /\ pc[w] = "store"
    /\ ~Storing(x)
    /\ \/ /\ filtered => active[requester[x]] /\ status[x] = "processing"
          /\ evicts' = [evicts EXCEPT ![w] = Evicted(x)]
          /\ Goto(w, "commit")
       \/ /\ filtered /\ ~active[requester[x]]
          /\ Goto(w, "inactive")
          /\ UNCHANGED evicts
       \/ /\ filtered /\ active[requester[x]] /\ status[x] # "processing"
          /\ Goto(w, "error")
          /\ UNCHANGED evicts
    /\ UNCHANGED <<rowVars, active, jobVars, task, replays>>

Commit(w) ==
    LET x == task[w] IN
    /\ pc[w] = "commit"
    /\ status' = [y \in Exports |->
                     IF y = x THEN "ready"
                     ELSE IF y \in evicts[w] /\ status[y] = "ready" THEN "expired"
                     ELSE status[y]]
    /\ expires' = [expires EXCEPT ![x] = "ahead"]
    /\ later' = {p \in later : x \notin {p[1], p[2]}} \cup {x} \X (Exports \ {x})
    /\ evicts' = [evicts EXCEPT ![w] = {}]
    /\ Answer(w, "ok", "error")
    /\ UNCHANGED <<filtered, requester, active, jobVars, task, replays>>

\* recordAsyncFailure / recordFailure: whatever the row says, it failed; the
\* error of this UPDATE itself is dropped.
RecordFailure(w) ==
    LET x == task[w] IN
    /\ pc[w] \in {"too large", "interrupted", "inactive"}
    /\ ~Storing(x)
    /\ status' = [status EXCEPT ![x] = "failed"]
    /\ Goto(w, IF pc[w] = "interrupted" THEN "error" ELSE "permanent")
    /\ UNCHANGED <<filtered, requester, expires, later, active, jobVars, task, evicts, replays>>

\* Any statement can fail without effect, as all do past the job timeout.
CallFails(w) ==
    /\ pc[w] \in Calls \ {"build"}
    /\ Goto(w, IF pc[w] \in {"too large", "inactive"} THEN "permanent" ELSE "error")
    /\ evicts' = [evicts EXCEPT ![w] = {}]
    /\ UNCHANGED <<rowVars, active, jobVars, task, replays>>

-----------------------------------------------------------------------------
(* The queue: verdicts, crashes, exhausted jobs, operators.                *)

BackToIdle(w) ==
    /\ Goto(w, "idle")
    /\ task' = [task EXCEPT ![w] = NoExport]
    /\ evicts' = [evicts EXCEPT ![w] = {}]

\* The verdict of the worker that still owns the job settles it.
Settle(w) ==
    LET x == task[w] IN
    /\ pc[w] \in Verdicts
    /\ jobOwner[x] = w
    /\ Queue!Settle(w, x)
    /\ jobTries'[x] = jobTries[x]
    /\ jobPhase'[x] =
          CASE pc[w] = "ok" -> "done"
            [] pc[w] = "permanent" -> "failed"
            [] pc[w] = "error" -> IF jobTries[x] < MaxAttempts THEN "waiting" ELSE "failed"
    /\ BackToIdle(w)
    /\ UNCHANGED <<rowVars, active, withdrawn, replays>>

\* The process stops, or loses the queue, at any point of the handler.
Crash(w) ==
    /\ pc[w] # "idle"
    /\ Queue!WalkAway(w, task[w])
    /\ BackToIdle(w)
    /\ UNCHANGED <<rowVars, active, withdrawn, replays>>

GiveUpOwned(x) ==
    /\ x \in Queue!Spent
    /\ jobOwner[x] # Nobody
    /\ \A w \in Workers : task[w] # x
    /\ Queue!GiveUp({x})
    /\ UNCHANGED <<rowVars, active, withdrawn, workerVars, replays>>

\* The lease of the last attempt lapsed: dead, and the export row keeps its state.
GiveUp(x) ==
    /\ x \in Queue!Spent
    /\ \A w \in Workers : task[w] # x
    /\ Queue!GiveUp({x})
    /\ UNCHANGED <<rowVars, active, withdrawn, workerVars, replays>>

Replay(x) ==
    /\ jobPhase[x] = "failed"
    /\ replays[x] < MaxReplays
    /\ Queue!Submit(x)
    /\ replays' = [replays EXCEPT ![x] = @ + 1]
    /\ UNCHANGED <<rowVars, active, withdrawn, workerVars>>

HandlerStep(w) ==
    \/ Load(w)
    \/ CheckActor(w)
    \/ MarkProcessing(w)
    \/ Build(w)
    \/ Store(w)
    \/ Commit(w)
    \/ RecordFailure(w)
    \/ CallFails(w)
    \/ Settle(w)

Next ==
    \/ \E x \in Exports, a \in Admins : Request(x, a)
    \/ \E a \in Admins : Disable(a) \/ Reactivate(a)
    \/ \E x \in Exports : ArtifactTTLPasses(x) \/ Expire(x) \/ GiveUp(x) \/ Replay(x)
    \/ \E w \in Workers : (\E x \in Exports : Take(w, x)) \/ HandlerStep(w) \/ Crash(w)

Spec == Init /\ [][Next]_vars

-----------------------------------------------------------------------------
(* Properties.                                                             *)

\* An export that is pending or processing refuses every new request of the
\* workspace, so it must never be left without a job: one that will run, or a
\* dead one that an administrator can see and replay.
BlockerHasJob ==
    \A x \in Exports :
        status[x] \in Generating => jobPhase[x] \in {"waiting", "taken", "failed"}

\* A job that succeeded did produce the file (which may have expired since),
\* unless its requester's deactivation withdrew it.
SucceededMeansProduced ==
    \A x \in Exports :
        jobPhase[x] = "done" => withdrawn[x] \/ status[x] \in {"ready", "expired"}

\* The row of an export and its job never disagree about what is left to do.
ExportsAccounted == BlockerHasJob /\ SucceededMeansProduced

\* What is downloadable only shrinks by expiry: no late step of another
\* execution turns a ready file back into one that is being built or failed.
KeepsReady ==
    \A x \in Exports :
        status[x] = "ready" /\ expires[x] = "ahead" => status'[x] \in {"ready", "expired"}
ReadyStaysUsable == [][KeepsReady]_vars

-----------------------------------------------------------------------------
(* Liveness.                                                               *)

\* Workers poll for ever, every handler call returns, lapsed leases are reaped.
Fairness ==
    /\ WF_vars(\E w \in Workers, x \in Exports : Take(w, x))
    /\ \A w \in Workers : WF_vars(HandlerStep(w))
    /\ \A x \in Exports : WF_vars(GiveUp(x))

FairSpec == Spec /\ Fairness

Blocking(x) == status[x] \in Generating /\ jobPhase[x] # "failed"

\* Whatever fails, an export stops blocking the workspace, or its job is dead
\* and waits for an administrator.
ExportsUnblock ==
    \A x \in Exports : Blocking(x) ~> ~Blocking(x)

-----------------------------------------------------------------------------
(* What the documentation says and the code does not do.                   *)

\* "The server permits only one pending/processing export per workspace"
\* (docs/operations-runbook.md:519).
OneAtATime ==
    \A x, y \in Exports :
        status[x] \in Generating /\ status[y] \in Generating => x = y
=============================================================================
