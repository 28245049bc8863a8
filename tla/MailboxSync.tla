----------------------------- MODULE MailboxSync -----------------------------
(***************************************************************************)
(* A member's connected IMAP mailbox (modules/mailboxsync, useremail).  A   *)
(* scheduler lists accounts that are due and enqueues a job under the key   *)
(* of the due instant; a job, or the member through a request, synchronises *)
(* the account: it reads the account, marks it "syncing", fetches the       *)
(* newest messages above the cursor, stores those it could read, one        *)
(* transaction each, and at the end moves the cursor and the next due       *)
(* instant.                                                                 *)
(*                                                                         *)
(* Nothing is locked, so any number of synchronisations of one account      *)
(* overlap.  The mailbox numbers its messages 1, 2, ...; each instant the   *)
(* account becomes due is a cycle.                                          *)
(***************************************************************************)
EXTENDS Integers, FiniteSets

CONSTANTS
    Runs,           \* workers and requests that may synchronise at the same time
    Limit,          \* messages fetched at a time
    TooLarge,       \* messages of more bytes than a literal may have
    MaxAttempts,    \* of a job
    MaxMail,        \* bound: messages that arrive
    MaxCycles       \* bound: due instants

VARIABLES
    account,        \* [enabled, status, cursor]; status is "none" without an account
    cycle, due,     \* next_sync_at: which instant it is, and whether it has come
    inbox,          \* number of the newest message in the mailbox
    stored,         \* messages of the mailbox that email_messages has
    listed,         \* cycle of the target the scheduler holds, 0 for none
    job, tries,     \* the job of each cycle
    run,            \* where each synchronisation stands
    passedOver,     \* ghost: messages that were older than those fetched when
                    \* the cursor passed them
    abandoned       \* ghost: "syncing" was written by a request that will not finish

schedule == <<cycle, due, listed>>
jobs == <<job, tries>>
vars == <<account, schedule, inbox, stored, jobs, run, passedOver, abandoned>>

Cycles == 1..MaxCycles
Mail == 1..MaxMail

\* A synchronisation, or a check, as it begins.
Begun(step, c) == [at |-> step, job |-> c, mark |-> 0, todo |-> {}, older |-> {}]
AtRest == Begun("idle", 0)
NoAccount == [enabled |-> FALSE, status |-> "none", cursor |-> 0]

TypeOK ==
    /\ account \in [enabled : BOOLEAN, cursor : 0..MaxMail,
                    status : {"none", "disabled", "pending", "syncing", "ready", "error"}]
    /\ cycle \in Cycles /\ due \in BOOLEAN
    /\ inbox \in 0..MaxMail
    /\ stored \subseteq Mail
    /\ listed \in 0..MaxCycles
    /\ job \in [Cycles -> {"none", "waiting", "taken", "succeeded", "dead"}]
    /\ tries \in [Cycles -> 0..MaxAttempts]
    /\ run \in [Runs -> [at : {"idle", "load", "mark", "fetch", "store", "fail", "done", "failed",
                               "check", "checked"},
                         job : 0..MaxCycles, mark : 0..MaxMail,
                         todo : SUBSET Mail, older : SUBSET Mail]]
    /\ passedOver \subseteq Mail
    /\ abandoned \in BOOLEAN

Init ==
    /\ account = [enabled |-> TRUE, status |-> "pending", cursor |-> 0]
    /\ cycle = 1 /\ due = TRUE
    /\ inbox = 0
    /\ stored = {}
    /\ listed = 0
    /\ job = [c \in Cycles |-> "none"]
    /\ tries = [c \in Cycles |-> 0]
    /\ run = [r \in Runs |-> AtRest]
    /\ passedOver = {}
    /\ abandoned = FALSE

Exists == account.status # "none"
Active == {r \in Runs : run[r].at # "idle"}

\* Each active run may yet begin a cycle.
MayBegin == cycle + Cardinality(Active) < MaxCycles

\* UpdateSyncState: the row's status, unless there is no row any more.
WriteStatus(s) ==
    /\ account' = IF Exists THEN [account EXCEPT !.status = s] ELSE account
    /\ abandoned' = (abandoned /\ Exists /\ s = "syncing")

At(r, step) == run[r].at = step
GoTo(r, step) == run' = [run EXCEPT ![r].at = step]

-----------------------------------------------------------------------------
(* The member, the mailbox and the clock.                                   *)

Arrive ==
    /\ inbox < MaxMail
    /\ inbox' = inbox + 1
    /\ UNCHANGED <<account, schedule, stored, jobs, run, passedOver, abandoned>>

ComeDue ==
    /\ account.enabled /\ ~due
    /\ due' = TRUE
    /\ UNCHANGED <<account, cycle, listed, inbox, stored, jobs, run, passedOver, abandoned>>

\* The account is saved, for the same mailbox: the cursor is kept.
Upsert(on) ==
    /\ MayBegin
    /\ account' = [account EXCEPT !.enabled = on, !.status = IF on THEN "pending" ELSE "disabled"]
    /\ cycle' = cycle + 1
    /\ due' = on
    /\ abandoned' = FALSE
    /\ UNCHANGED <<listed, inbox, stored, jobs, run, passedOver>>

Delete ==
    /\ Exists
    /\ account' = NoAccount
    /\ due' = FALSE
    /\ abandoned' = FALSE
    /\ UNCHANGED <<cycle, listed, inbox, stored, jobs, run, passedOver>>

\* The member is disabled: the next due instant stays, waiting jobs are done.
Disable ==
    /\ account' = IF Exists THEN [account EXCEPT !.enabled = FALSE, !.status = "disabled"] ELSE account
    /\ job' = [c \in Cycles |-> IF job[c] = "waiting" THEN "succeeded" ELSE job[c]]
    /\ abandoned' = FALSE
    /\ UNCHANGED <<schedule, inbox, stored, tries, run, passedOver>>

-----------------------------------------------------------------------------
(* The scheduler, and the queue as the handler sees it.                     *)

ListedStatuses == {"pending", "ready", "error"}

ListSyncTargets ==
    /\ account.enabled /\ account.status \in ListedStatuses /\ due
    /\ listed' = cycle
    /\ UNCHANGED <<account, cycle, due, inbox, stored, jobs, run, passedOver, abandoned>>

\* Enqueue leaves a job that has the key alone; the scheduler may also stop.
ScheduleDueJobs ==
    /\ listed # 0
    /\ listed' = 0
    /\ job' \in {job, [job EXCEPT ![listed] = IF @ = "none" THEN "waiting" ELSE @]}
    /\ UNCHANGED <<account, cycle, due, inbox, stored, tries, run, passedOver, abandoned>>

Take(r, c) ==
    /\ At(r, "idle") /\ job[c] = "waiting" /\ MayBegin
    /\ job' = [job EXCEPT ![c] = "taken"]
    /\ tries' = [tries EXCEPT ![c] = @ + 1]
    /\ run' = [run EXCEPT ![r] = Begun("load", c)]
    /\ UNCHANGED <<account, schedule, inbox, stored, passedOver, abandoned>>

AfterFailure(c) == IF tries[c] < MaxAttempts THEN "waiting" ELSE "dead"

Settle(r) ==
    /\ run[r].at \in {"done", "failed"}
    /\ LET c == run[r].job
       IN  job' = IF c = 0 THEN job
                  ELSE [job EXCEPT ![c] = IF At(r, "done") THEN "succeeded" ELSE AfterFailure(c)]
    /\ run' = [run EXCEPT ![r] = AtRest]
    /\ UNCHANGED <<account, schedule, inbox, stored, tries, passedOver, abandoned>>

\* The lease of a process that stopped runs out.
Lapse(c) ==
    /\ job[c] = "taken" /\ \A r \in Runs : run[r].job # c
    /\ job' = [job EXCEPT ![c] = AfterFailure(c)]
    /\ UNCHANGED <<account, schedule, inbox, stored, tries, run, passedOver, abandoned>>

\* An administrator replays a dead job.
Replay(c) ==
    /\ job[c] = "dead"
    /\ job' = [job EXCEPT ![c] = "waiting"]
    /\ tries' = [tries EXCEPT ![c] = 0]
    /\ UNCHANGED <<account, schedule, inbox, stored, run, passedOver, abandoned>>

-----------------------------------------------------------------------------
(* SyncUser, statement by statement.                                        *)

RunNow(r) ==
    /\ At(r, "idle") /\ MayBegin
    /\ run' = [run EXCEPT ![r] = Begun("load", 0)]
    /\ UNCHANGED <<account, schedule, inbox, stored, jobs, passedOver, abandoned>>

\* SyncCredentials, and the check of what it returned.
LoadCredentials(r) ==
    /\ At(r, "load")
    /\ run' = [run EXCEPT ![r].mark = account.cursor,
                          ![r].at = CASE ~Exists -> "failed"
                                      [] Exists /\ ~account.enabled -> "fail"
                                      [] OTHER -> "mark"]
    /\ UNCHANGED <<account, schedule, inbox, stored, jobs, passedOver, abandoned>>

MarkSyncing(r) ==
    /\ At(r, "mark")
    /\ WriteStatus("syncing")
    /\ GoTo(r, IF Exists THEN "fetch" ELSE "failed")
    /\ UNCHANGED <<schedule, inbox, stored, jobs, passedOver>>

Above(cursor) == {u \in 1..inbox : u > cursor}

\* recentUIDs: the newest Limit messages above the cursor.
recentUIDs(cursor) == {u \in Above(cursor) : Cardinality(Above(u)) < Limit}

\* A literal over the bound is not read as one: its response has none and is
\* left out, without an error.
parseFetchResponses(messages) == messages \ TooLarge

Fetch(r) ==
    /\ At(r, "fetch")
    /\ LET recent == recentUIDs(run[r].mark)
       IN  run' = [run EXCEPT ![r].at = "store",
                              ![r].todo = parseFetchResponses(recent),
                              ![r].older = Above(run[r].mark) \ recent]
    /\ UNCHANGED <<account, schedule, inbox, stored, jobs, passedOver, abandoned>>

\* The connection or a command fails, or the provider takes too long.
FetchFails(r) ==
    /\ At(r, "fetch")
    /\ GoTo(r, "fail")
    /\ UNCHANGED <<account, schedule, inbox, stored, jobs, passedOver, abandoned>>

Oldest(messages) == {u \in messages : \A v \in messages : u <= v}

\* A message is stored in a transaction of its own, or found there already.
RecordInbound(r) ==
    /\ At(r, "store")
    /\ \E u \in Oldest(run[r].todo) :
        /\ stored' = stored \cup {u}
        /\ run' = [run EXCEPT ![r].todo = @ \ {u}, ![r].mark = u]
    /\ UNCHANGED <<account, schedule, inbox, jobs, passedOver, abandoned>>

RecordFailsGoesOn(r) ==
    /\ At(r, "store")
    /\ \E u \in Oldest(run[r].todo) : run' = [run EXCEPT ![r].todo = @ \ {u}]
    /\ UNCHANGED <<account, schedule, inbox, stored, jobs, passedOver, abandoned>>

\* The message cannot be matched or stored; what was stored before stays.
RecordFails(r) ==
    /\ At(r, "store") /\ run[r].todo # {}
    /\ GoTo(r, "fail")
    /\ UNCHANGED <<account, schedule, inbox, stored, jobs, passedOver, abandoned>>

\* The cursor becomes the last message this run stored, or what it was when this
\* run began, whatever another run has made of it since.  The answer may be lost.
Finish(r, heard) ==
    /\ At(r, "store") /\ run[r].todo = {}
    /\ account' = IF ~Exists THEN account
                  ELSE [account EXCEPT !.status = "ready",
                                       !.cursor = IF run[r].mark # 0 THEN run[r].mark ELSE @]
    /\ cycle' = IF Exists THEN cycle + 1 ELSE cycle
    /\ due' = (due /\ ~Exists)
    /\ passedOver' = IF Exists THEN passedOver \cup {u \in run[r].older : u <= run[r].mark}
                     ELSE passedOver
    /\ abandoned' = FALSE
    /\ GoTo(r, IF Exists /\ heard THEN "done" ELSE "failed")
    /\ UNCHANGED <<listed, inbox, stored, jobs>>

updateFailure(r) ==
    /\ At(r, "fail")
    /\ WriteStatus("error")
    /\ GoTo(r, "failed")
    /\ UNCHANGED <<schedule, inbox, stored, jobs, passedOver>>

\* What nobody will take back: a request marked the account and is gone.
LeavesBehind(r) ==
    abandoned' = (abandoned \/ (/\ run[r].job = 0 /\ account.status = "syncing"
                                /\ run[r].at \notin {"load", "mark", "check"}))

\* A statement fails, or its request or job ran out of time, and so does every
\* later one: the account stays as it is.
StatementFails(r) ==
    /\ run[r].at \notin {"idle", "done", "failed"}
    /\ LeavesBehind(r)
    /\ GoTo(r, "failed")
    /\ UNCHANGED <<account, schedule, inbox, stored, jobs, passedOver>>

Stop(r) ==
    /\ ~At(r, "idle")
    /\ LeavesBehind(r)
    /\ run' = [run EXCEPT ![r] = AtRest]
    /\ UNCHANGED <<account, schedule, inbox, stored, jobs, passedOver>>

-----------------------------------------------------------------------------
(* handleCheckMyEmailSync: the request that checks the settings.            *)

BeginCheck(r) ==
    /\ At(r, "idle") /\ Exists /\ account.enabled /\ MayBegin
    /\ run' = [run EXCEPT ![r] = Begun("check", 0)]
    /\ UNCHANGED <<account, schedule, inbox, stored, jobs, passedOver, abandoned>>

MarkChecking(r) ==
    /\ At(r, "check")
    /\ WriteStatus("syncing")
    /\ GoTo(r, IF Exists THEN "checked" ELSE "failed")
    /\ UNCHANGED <<schedule, inbox, stored, jobs, passedOver>>

FinishCheck(r, ready) ==
    /\ At(r, "checked")
    /\ WriteStatus(IF ready THEN "ready" ELSE "error")
    /\ GoTo(r, IF Exists THEN "done" ELSE "failed")
    /\ UNCHANGED <<schedule, inbox, stored, jobs, passedOver>>

-----------------------------------------------------------------------------
Next ==
    \/ Arrive \/ ComeDue \/ Delete \/ Disable
    \/ \E on \in BOOLEAN : Upsert(on)
    \/ ListSyncTargets \/ ScheduleDueJobs
    \/ \E c \in Cycles : Lapse(c) \/ Replay(c)
    \/ \E r \in Runs :
        \/ \E c \in Cycles : Take(r, c)
        \/ RunNow(r) \/ LoadCredentials(r) \/ MarkSyncing(r)
        \/ Fetch(r) \/ FetchFails(r) \/ RecordInbound(r) \/ RecordFails(r)
        \/ \E heard \in BOOLEAN : Finish(r, heard)
        \/ updateFailure(r) \/ StatementFails(r) \/ Stop(r) \/ Settle(r)
        \/ BeginCheck(r) \/ MarkChecking(r)
        \/ \E ready \in BOOLEAN : FinishCheck(r, ready)

Spec == Init /\ [][Next]_vars

-----------------------------------------------------------------------------
(* Properties.                                                              *)

\* What the cursor may leave behind it: what the CRM has, what was older than the
\* Limit newest when it was passed, and what is too large to be read, which is
\* lost without a word once a later message of its batch is stored.
Accounted == stored \cup passedOver \cup TooLarge

\* The cursor passes no other message by: whatever fails between two messages,
\* however two synchronisations overlap, and whatever of a batch was left out.
CursorCovers == \A u \in 1..account.cursor : u \in Accounted

\* An account that is due is not forgotten: the scheduler will find it, or a
\* job or a request is at it, or a dead job tells an administrator.  The
\* exception is the account that a request marked "syncing" and left so.
DueIsServed ==
    account.enabled /\ due =>
        \/ account.status \in ListedStatuses /\ job[cycle] = "none"
        \/ \E c \in Cycles : job[c] \in {"waiting", "taken", "dead"}
        \/ Active # {}
        \/ abandoned

\* The messages that arrive are brought to the CRM, as far as CursorCovers and
\* DueIsServed say.
MailboxFollowed == CursorCovers /\ DueIsServed
=============================================================================
