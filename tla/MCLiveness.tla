----------------------------- MODULE MCLiveness ------------------------------
(***************************************************************************)
(* Instances for TLC of what must come to an end: the jobs of the queue,    *)
(* the exports built by such jobs, and the claims on outgoing mail.  A      *)
(* behaviour is about one of them, which the initial state picks, and they  *)
(* take turns on one set of variables; what a part has no use for stays     *)
(* Idle.  Symmetry is not used, because liveness is checked.                *)
(***************************************************************************)
EXTENDS Integers, TLC

CONSTANTS
    Idle, None,
    k1, k2,          \* jobs, exports, deliveries
    w1, w2,          \* workers, or the calls that deliver mail
    t1, t2, t3, t4,  \* lock tokens
    a1,              \* an administrator
    MaxReady

VARIABLES about, v1, v2, v3, v4, v5, v6, v7, v8, v9, v10, v11, v12, v13, v14

shared == <<about, v1, v2, v3, v4, v5, v6, v7, v8, v9, v10, v11, v12, v13, v14>>

Jobs == {k1, k2}
Workers == {w1, w2}

Q == INSTANCE JobQueue WITH
        Tokens <- {t1, t2, t3, t4}, NoJob <- None, NoToken <- Idle,
        MaxAttempts <- (k1 :> 2) @@ (k2 :> 1),
        Priority <- (k1 :> 0) @@ (k2 :> 0),
        Serves <- (w1 :> Jobs) @@ (w2 :> Jobs),
        CancelSets <- {}, Lease <- 1, Delays <- {0, 1}, MaxRetryDelay <- 1,
        Horizon <- 0, RetainFor <- 0, BatchSize <- 1, MaxArrivals <- 1,
        status <- v1, attempts <- v2, runAt <- v3, lockToken <- v4, lease <- v5,
        age <- v6, arrivals <- v7, pc <- v8, heldJob <- v9, heldToken <- v10,
        blocked <- v11

E == INSTANCE ExportJobs WITH
        Exports <- Jobs, Admins <- {a1}, NoExport <- None, Nobody <- None,
        MaxAttempts <- 2, MaxReplays <- 1, Kinds <- BOOLEAN,
        filtered <- v1, status <- v2, requester <- v3, expires <- v4, later <- v5,
        active <- v6, jobPhase <- v7, jobTries <- v8, jobOwner <- v9,
        withdrawn <- v10, pc <- v11, task <- v12, evicts <- v13, replays <- v14

M == INSTANCE MailDeliveries WITH
        Deliveries <- {k1}, Calls <- Workers, NoDelivery <- None, Kinds <- BOOLEAN,
        MaxRetries <- 1,
        recordMail <- v1, status <- v2, stale <- v3, messages <- v4, active <- v5,
        writer <- v6, linked <- v7, pc <- v8, task <- v9, mailbox <- v10,
        claims <- v11, retries <- v12

LivenessInit ==
    \/ about \in {"jobs", "claims"} /\ Q!Init /\ v12 = Idle /\ v13 = Idle /\ v14 = Idle
    \/ about \in {"exports", "replays"} /\ E!Init
    \/ about = "mail" /\ M!Init /\ v13 = Idle /\ v14 = Idle

-----------------------------------------------------------------------------
\* The queue is looked at twice: two jobs that share a worker, and two workers
\* that claim one job from each other.
OnQueue == about \in {"jobs", "claims"}
MayEnqueue(j) == about = "claims" => j = k1
MayWork(w) == about = "jobs" => w = w1

OnMail == about = "mail"

\* So are exports: two of them that share a worker, and one that two workers
\* take from each other and an administrator replays.
OnExports == about \in {"exports", "replays"}
MayReplay == about = "replays"
MayRequest(x) == about = "replays" => x = k1
MayTake(w) == about = "exports" => w = w1

Rest == UNCHANGED about
Rest12 == UNCHANGED <<about, v12, v13, v14>>
Rest13 == UNCHANGED <<about, v13, v14>>

QueueStep ==
    \/ \E j \in Jobs :
        \/ \E d \in {0, 1} : OnQueue /\ MayEnqueue(j) /\ Q!Enqueue(j, d) /\ Rest12
        \/ OnQueue /\ Q!Confirm(j) /\ Rest12
    \/ \E w \in Workers :
        \/ OnQueue /\ MayWork(w) /\ Q!Poll(w) /\ Rest12
        \/ \E v \in Q!Verdicts : OnQueue /\ MayWork(w) /\ Q!HandlerReturns(w, v) /\ Rest12
        \/ OnQueue /\ MayWork(w) /\ Q!Finish(w) /\ Rest12
        \/ OnQueue /\ MayWork(w) /\ Q!LoseContact(w) /\ Rest12
        \/ OnQueue /\ MayWork(w) /\ Q!Stop(w) /\ Rest12
        \/ OnQueue /\ MayWork(w) /\ Q!Start(w) /\ Rest12
    \/ \E D \in SUBSET Jobs : OnQueue /\ Q!ApplyRetention(D) /\ Rest12
    \/ OnQueue /\ Q!Block /\ Rest12
    \/ OnQueue /\ Q!Unblock /\ Rest12
    \/ OnQueue /\ Q!Tick /\ Rest12

ExportStep ==
    \/ \E x \in Jobs :
        \/ OnExports /\ MayRequest(x) /\ E!Request(x, a1) /\ Rest
        \/ OnExports /\ E!ArtifactTTLPasses(x) /\ Rest
        \/ OnExports /\ E!Expire(x) /\ Rest
        \/ OnExports /\ E!GiveUp(x) /\ Rest
        \/ OnExports /\ MayReplay /\ E!Replay(x) /\ Rest
        \/ \E w \in Workers : OnExports /\ MayTake(w) /\ E!Take(w, x) /\ Rest
    \/ OnExports /\ E!Disable(a1) /\ Rest
    \/ OnExports /\ E!Reactivate(a1) /\ Rest
    \/ \E w \in Workers :
        \/ OnExports /\ E!Load(w) /\ Rest
        \/ OnExports /\ E!CheckActor(w) /\ Rest
        \/ OnExports /\ E!MarkProcessing(w) /\ Rest
        \/ OnExports /\ E!Build(w) /\ Rest
        \/ OnExports /\ E!Store(w) /\ Rest
        \/ OnExports /\ E!Commit(w) /\ Rest
        \/ OnExports /\ E!RecordFailure(w) /\ Rest
        \/ OnExports /\ E!CallFails(w) /\ Rest
        \/ OnExports /\ E!Settle(w) /\ Rest
        \/ OnExports /\ E!Crash(w) /\ Rest

MailStep ==
    \/ \E c \in Workers : OnMail /\ M!Call(c) /\ Rest13
    \/ OnMail /\ M!Age(k1) /\ Rest13
    \/ OnMail /\ M!Recover(k1) /\ Rest13
    \/ OnMail /\ M!ConfirmSent(k1) /\ Rest13
    \/ OnMail /\ M!MarkNotSent(k1) /\ Rest13
    \/ OnMail /\ M!Deactivate /\ Rest13
    \/ OnMail /\ M!Reactivate /\ Rest13
    \/ OnMail /\ M!ChangeRole /\ Rest13
    \/ OnMail /\ M!ChangeRecord /\ Rest13

LivenessNext == QueueStep \/ ExportStep \/ MailStep

\* The fairness each part states for itself.  A condition of one part and a
\* condition of another are one condition, since no behaviour is about both.
Returns(w) == \E v \in Q!Verdicts : Q!HandlerReturns(w, v)

Fairness ==
    /\ WF_shared(\/ OnQueue /\ Q!Tick /\ Rest12
                 \/ OnExports /\ (\E w \in Workers, x \in Jobs : MayTake(w) /\ E!Take(w, x)) /\ Rest
                 \/ OnMail /\ M!Age(k1) /\ Rest13)
    /\ \A w \in Workers :
        /\ WF_shared(\/ OnQueue /\ MayWork(w) /\ Q!Start(w) /\ Rest12
                     \/ OnExports /\ E!HandlerStep(w) /\ Rest)
        /\ SF_shared(OnQueue /\ MayWork(w) /\ Q!Poll(w) /\ Rest12)
        /\ WF_shared(OnQueue /\ MayWork(w) /\ Returns(w) /\ Rest12)
        /\ WF_shared(OnQueue /\ MayWork(w) /\ Q!Finish(w) /\ Rest12)
    /\ WF_shared(\/ OnExports /\ E!GiveUp(k1) /\ Rest
                 \/ OnMail /\ M!Recover(k1) /\ Rest13)
    /\ WF_shared(OnExports /\ E!GiveUp(k2) /\ Rest)

LivenessSpec == LivenessInit /\ [][LivenessNext]_shared /\ Fairness

-----------------------------------------------------------------------------
\* JobQueue: if policy stops deferring, every job ends.
Stuck(j) == OnQueue /\ Q!Unsettled(j)
EveryJobSettles ==
    <>[](OnQueue => ~v11) => \A j \in Jobs : Stuck(j) ~> ~Stuck(j)

\* ExportJobs: an export stops blocking the workspace, or its job is dead.
Blocking(x) == OnExports /\ E!Blocking(x)
ExportsUnblock == \A x \in Jobs : Blocking(x) ~> ~Blocking(x)

\* MailDeliveries: a claim is settled, or put before a person.
Claimed == OnMail /\ M!Claimed(k1)
ClaimsSettle == Claimed ~> ~Claimed
=============================================================================
