----------------------------- MODULE MCWorkspace -----------------------------
(***************************************************************************)
(* Instances for TLC of six parts of a workspace that do not interact:      *)
(* contact imports, scheduled reports, its people, the approvals of its     *)
(* playbooks, a member's mailbox, and the rate limiter in front of them.  A *)
(* behaviour is about one of them, which the initial state picks from       *)
(* Parts, so they take turns on one set of variables: v1 is the status of   *)
(* the import batch, or the revision of the schedule, or the roles of the   *)
(* people, or the clock of the rate limiter.  What a part has no use for    *)
(* stays Idle.                                                              *)
(***************************************************************************)
EXTENDS Integers, FiniteSets, TLC

CONSTANTS
    Parts,              \* the parts this instance looks at
    p1, p2,             \* interchangeable workers, browsers or callers
    b1, b2,             \* rollbacks or lifecycle requests
    u1, u2, r1, Nobody, Idle,
    Workers, Rollbacks, NumRows, CheckpointRows, ImportAttempts, ImportReplays,
    Runs, Recipients, ReportAttempts, Retries, ScheduleRevisions,
    Users, Browsers, LifecycleRequests, Links,
    Managers, StageMoves, DecisionKeys, ApproverRole, PlaybookRevisions,
    Syncs, FetchLimit, TooLarge, SyncAttempts, Messages, SyncCycles,
    Buckets, Callers, BudgetOf, Window, Grace, MaxTime

VARIABLES
    about,
    v1, v2, v3, v4, v5, v6, v7, v8, v9, v10, v11,
    v12, v13, v14, v15, v16, v17, v18, v19

from12 == <<v12, v13, v14, v15, v16, v17, v18, v19>>
from11 == <<v11, v12, v13, v14, v15, v16, v17, v18, v19>>
shared == <<about, v1, v2, v3, v4, v5, v6, v7, v8, v9, v10, from11>>

I == INSTANCE ImportBatches WITH
        MaxAttempts <- ImportAttempts, MaxReplays <- ImportReplays,
        status <- v1, source <- v2, rows <- v3, processed <- v4, success <- v5,
        errors <- v6, rolledBack <- v7, rollbackSkipped <- v8, record <- v9,
        active <- v10, lock <- v11, pc <- v12, todo <- v13, jobPhase <- v14,
        jobTries <- v15, jobOwner <- v16, replays <- v17

R == INSTANCE ReportSchedules WITH
        Users <- Recipients, NoJob <- Idle,
        MaxAttempts <- ReportAttempts, MaxRecoveries <- Retries,
        MaxRevision <- ScheduleRevisions,
        revision <- v1, active <- v2, listed <- v3, due <- v4, member <- v5,
        run <- v6, runRevision <- v7, artifact <- v8, delivery <- v9,
        recovery <- v10, phase <- v11, tries <- v12, owner <- v13, pc <- v14,
        job <- v15, lastTry <- v16, target <- v17, open <- v18, retried <- v19

M == INSTANCE Members WITH
        Requests <- LifecycleRequests,
        Founder <- u1, Roles <- {"owner", "member"}, NoRequest <- Idle, MaxLinks <- Links,
        role <- v1, status <- v2, verified <- v3, chosen <- v4, suppressed <- v5,
        link <- v6, key <- v7, shown <- v8, cooling <- v9, consumed <- v10,
        revoked <- v11, fate <- v12, unreported <- v13, session <- v14,
        entering <- v15, outdated <- v16, req <- v17

W == INSTANCE WorkflowApprovals WITH
        Events <- StageMoves, Keys <- DecisionKeys, MaxRevision <- PlaybookRevisions,
        active <- v1, revision <- v2, status <- v3, dealOwner <- v4, pc <- v5,
        captured <- v6, requester <- v7, run <- v8, approval <- v9, gate <- v10,
        plan <- v11, tasks <- v12, decision <- v13, told <- v14, disabling <- v15,
        overtaken <- v16

B == INSTANCE MailboxSync WITH
        Runs <- Syncs, Limit <- FetchLimit, MaxAttempts <- SyncAttempts,
        MaxMail <- Messages, MaxCycles <- SyncCycles,
        account <- v1, cycle <- v2, due <- v3, inbox <- v4, stored <- v5, listed <- v6,
        job <- v7, tries <- v8, run <- v9, passedOver <- v10, abandoned <- v11

L == INSTANCE RateLimits WITH
        Limit <- BudgetOf, NoCaller <- Nobody,
        now <- v1, count <- v2, expires <- v3, before <- v4, granted <- v5,
        owner <- v6, asked <- v7, left <- v8, stamp <- v9, denied <- v10

\* The first revision of the playbook asks an owner, its second whoever has the
\* deal; the first bucket admits one call in a window, the second two.
Approvers == <<"owner", "record_owner">>
Budgets == [b \in Buckets |-> b]

\* Finitely many actors who are somebody, the founder among the people, and
\* numbers for sizes: what the theorems about a workspace take of its constants.
ASSUME WorkspaceAssumption ==
    /\ IsFiniteSet(Workers) /\ IsFiniteSet(Users) /\ IsFiniteSet(Syncs)
    /\ Nobody \notin Workers \cup Rollbacks \cup Users \cup Callers
    /\ u1 \in Users
    /\ NumRows \in Nat \ {0} /\ ImportAttempts \in Nat
    /\ Retries \in Nat /\ ReportAttempts \in Nat /\ ScheduleRevisions \in Nat \ {0}
    /\ Links \in Nat \ {0} /\ PlaybookRevisions \in Nat \ {0}
    /\ FetchLimit \in Nat /\ SyncAttempts \in Nat \ {0} /\ Messages \in Nat
    /\ SyncCycles \in Nat \ {0}
    /\ BudgetOf \in [Buckets -> Nat] /\ Window \in Nat /\ MaxTime \in Nat \ {0}

IdleFrom18 == v18 = Idle /\ v19 = Idle
IdleFrom12 ==
    /\ v12 = Idle /\ v13 = Idle /\ v14 = Idle /\ v15 = Idle /\ v16 = Idle
    /\ v17 = Idle /\ IdleFrom18
IdleFrom11 == v11 = Idle /\ IdleFrom12

WorkspaceInit ==
    /\ about \in Parts
    /\ \/ about = "imports" /\ I!Init /\ IdleFrom18
       \/ about \in {"reports", "revisions"} /\ R!Init
       \/ about \in {"people", "links", "lifecycle"} /\ M!Init /\ IdleFrom18
       \/ about = "approvals" /\ W!Init /\ v17 = Idle /\ IdleFrom18
       \/ about \in {"mailbox", "account"} /\ B!Init /\ IdleFrom12
       \/ about = "limits" /\ L!Init /\ IdleFrom11

-----------------------------------------------------------------------------
\* A second rollback is asked for before the dead job is replayed, and of the
\* records only the first is edited or archived by somebody.
OnImports == about = "imports"

\* Reports are looked at twice: with two workers at once under the schedule as
\* it is, and with a schedule that changes under one worker at a time.
OnReports == about \in {"reports", "revisions"}
MayRevise == about = "revisions"
MayTake == about = "revisions" => \A w \in Workers : v14[w] = "idle"
OnLimits == about = "limits"
OnApprovals == about = "approvals"

\* The mailbox is looked at twice: with two synchronisations at once of an
\* account that nobody changes, and with everything else that happens to an
\* account while one synchronisation, or one check, is at it and a message comes.
OnMailbox == about \in {"mailbox", "account"}
MayChange == about = "account"
MayArrive == about = "mailbox" \/ v4 = 0
MayStart == about = "mailbox" \/ \A r \in Syncs : v9[r].at = "idle"
MayRequest == MayStart /\ \A r \in Syncs : v9[r].job = 0 => v9[r].at = "idle"

\* The people of the workspace are looked at three times: with two browsers,
\* two links and nobody invited again or promoted; with one browser, no login and three links, of which only the
\* invitations' are read; and with two lifecycle requests at once, one browser,
\* two links and mail that nobody reads.
OnPeople == about \in {"people", "links"}
OnMembers == about \in {"people", "links", "lifecycle"}
MayMail == about # "links" => M!LinkCount < 2
Reads(p) == about = "links" => p = "setup"
MayManage(r) == about = "lifecycle" \/ (about = "links" /\ r = b1)
MayAsk(r) == about # "lifecycle" => r = b1
MayEnter == about # "people" => \A s \in Browsers : v14[s] = Nobody /\ v15[s] = Nobody
MayLogIn == about # "links" /\ MayEnter

Rest == UNCHANGED about
Rest17 == UNCHANGED <<about, v17, v18, v19>>
Rest18 == UNCHANGED <<about, v18, v19>>
Rest12 == UNCHANGED <<about, from12>>
Rest11 == UNCHANGED <<about, from11>>

ImportStep ==
    \/ OnImports /\ I!Submit /\ Rest18
    \/ OnImports /\ I!GiveUp /\ Rest18
    \/ OnImports /\ v12[b2] = "idle" /\ I!ReplayDead /\ Rest18
    \/ OnImports /\ I!SourceDeadline /\ Rest18
    \/ OnImports /\ I!ExpireSource /\ Rest18
    \/ OnImports /\ I!Deactivate /\ Rest18
    \/ OnImports /\ I!Reactivate /\ Rest18
    \/ \E w \in Workers :
        \/ OnImports /\ I!Take(w) /\ Rest18
        \/ OnImports /\ I!Load(w) /\ Rest18
        \/ OnImports /\ I!MarkProcessing(w) /\ Rest18
        \/ OnImports /\ I!ReadRows(w) /\ Rest18
        \/ OnImports /\ I!Checkpoint(w) /\ Rest18
        \/ OnImports /\ I!CompleteBatch(w) /\ Rest18
        \/ OnImports /\ I!ActorGone(w) /\ Rest18
        \/ OnImports /\ I!RecordFailure(w) /\ Rest18
        \/ OnImports /\ I!Settle(w) /\ Rest18
    \/ \E b \in Rollbacks :
        \/ OnImports /\ (b = b2 => v17 = 0) /\ I!Begin(b) /\ Rest18
        \/ OnImports /\ I!ListImported(b) /\ Rest18
        \/ OnImports /\ I!RollbackRow(b) /\ Rest18
        \/ OnImports /\ I!CompleteRollback(b) /\ Rest18
    \/ \E p \in Workers \cup Rollbacks :
        \/ OnImports /\ I!Acquire(p) /\ Rest18
        \/ OnImports /\ I!CallFails(p) /\ Rest18
        \/ OnImports /\ I!Crash(p) /\ Rest18
    \/ OnImports /\ I!TouchRecord(1) /\ Rest18

ReportStep ==
    \/ \E on \in BOOLEAN, S \in SUBSET Recipients : OnReports /\ MayRevise /\ R!UpsertSchedule(on, S) /\ Rest
    \/ \E executable \in BOOLEAN : OnReports /\ MayRevise /\ R!ReconcileDefinition(executable) /\ Rest
    \/ OnReports /\ R!BecomeDue /\ Rest
    \/ \E u \in Recipients : OnReports /\ R!ChangeMembership(u) /\ Rest
    \/ \E r \in Runs :
        \/ OnReports /\ R!EnqueueDueDeliveries(r) /\ Rest
        \/ OnReports /\ R!ArtifactTTLPasses(r) /\ Rest
        \/ OnReports /\ R!CleanupExpiredDeliveryArtifacts(r) /\ Rest
        \/ \E u \in Recipients :
            \/ OnReports /\ R!Stall(r, u) /\ Rest
            \/ OnReports /\ R!ConfirmSent(r, u) /\ Rest
            \/ OnReports /\ R!Retry(r, u) /\ Rest
    \/ \E w \in Workers :
        \/ \E j \in R!Jobs : OnReports /\ MayTake /\ R!Take(w, j) /\ Rest
        \/ OnReports /\ R!PrepareClosed(w) /\ Rest
        \/ OnReports /\ R!Prepare(w) /\ Rest
        \/ OnReports /\ R!ClaimClosed(w) /\ Rest
        \/ \E u \in Recipients : OnReports /\ R!Claim(w, u) /\ Rest
        \/ OnReports /\ R!FindNonePending(w) /\ Rest
        \/ OnReports /\ R!Defer(w) /\ Rest
        \/ OnReports /\ R!FinalizeDeliveryRun(w) /\ Rest
        \/ OnReports /\ R!Send(w) /\ Rest
        \/ OnReports /\ R!FinalizeRecipientAccepted(w) /\ Rest
        \/ OnReports /\ R!FinalizeRecipientUncertain(w) /\ Rest
        \/ OnReports /\ R!FinalizeRecipientRejected(w) /\ Rest
        \/ OnReports /\ R!StatementFails(w) /\ Rest
        \/ OnReports /\ R!Settle(w) /\ Rest
        \/ OnReports /\ R!ClaimLost(w) /\ Rest
        \/ OnReports /\ R!Lapse(w) /\ Rest
        \/ OnReports /\ R!Stop(w) /\ Rest
    \/ \E j \in R!Jobs : OnReports /\ R!GiveUp(j) /\ Rest

MailStep ==
    \/ OnPeople /\ \E x \in v13 : Reads(x[1]) /\ M!Mail(x[1], x[2], x[3]) /\ Rest18
    \/ OnPeople /\ \E x \in v13 : Reads(x[1]) /\ M!RecordDelivery(x[1], x[2], x[3]) /\ Rest18
    \/ OnPeople /\ \E x \in v13 : Reads(x[1]) /\ M!HandlerStops(x[1], x[2], x[3]) /\ Rest18
    \/ OnPeople /\ \E p \in M!Purposes, u \in Users : \E n \in DOMAIN v12[p][u] :
            M!ComesBack(p, u, n) /\ Rest18
    \/ OnPeople /\ \E p \in M!Purposes, u \in Users : \E n \in DOMAIN v12[p][u] :
            M!Feedback(p, u, n) /\ Rest18
    \/ OnPeople /\ \E p \in M!Purposes, u \in Users : M!CoolDown(p, u) /\ Rest18

MemberStep ==
    \/ \E u \in Users :
        \/ OnMembers /\ M!ResendVerification(u) /\ MayMail /\ Rest18
        \/ OnMembers /\ M!CompleteSetup(u) /\ Rest18
        \/ OnMembers /\ about # "links" /\ M!RequestReset(u) /\ MayMail /\ Rest18
        \/ OnMembers /\ M!CompleteReset(u) /\ Rest18
    \/ \E s \in Browsers :
        \/ OnMembers /\ M!CommitLogin(s) /\ Rest18
        \/ OnMembers /\ M!AbortLogin(s) /\ Rest18
        \/ OnMembers /\ M!EndSession(s) /\ Rest18
        \/ OnMembers /\ M!RevokeOtherSessions(s) /\ Rest18
        \/ \E u \in Users : OnMembers /\ MayEnter /\ M!VerifyEmail(s, u) /\ Rest18
        \/ \E u \in Users : OnMembers /\ MayLogIn /\ M!BeginLogin(s, u) /\ Rest18
    \/ \E actor, u \in Users :
        \/ \E as \in {"owner", "member"} : OnMembers /\ M!Invite(actor, u, as) /\ MayMail /\ Rest18
        \/ \E r \in LifecycleRequests :
            \/ OnMembers /\ MayAsk(r) /\ M!BeginSetStatus(r, actor, u) /\ Rest18
            \/ OnMembers /\ MayManage(r) /\ M!BeginRevoke(r, actor, u) /\ Rest18
            \/ OnMembers /\ MayManage(r) /\ M!BeginResend(r, actor, u) /\ Rest18
            \/ \E as \in {"owner", "member"} :
                OnMembers /\ MayManage(r) /\ M!BeginUpdateRole(r, actor, u, as) /\ Rest18
    \/ \E r \in LifecycleRequests :
        \/ OnMembers /\ M!CommitDisable(r) /\ Rest18
        \/ OnMembers /\ M!CommitEnable(r) /\ Rest18
        \/ OnMembers /\ M!CommitRole(r) /\ Rest18
        \/ OnMembers /\ M!CommitRevoke(r) /\ Rest18
        \/ OnMembers /\ M!CommitResend(r) /\ MayMail /\ Rest18
        \/ OnMembers /\ M!Abort(r) /\ Rest18

ApprovalStep ==
    \/ \E e \in StageMoves :
        \/ \E u \in Users : OnApprovals /\ W!BeginEvent(e, u) /\ Rest17
        \/ \E matched \in BOOLEAN : OnApprovals /\ W!ReserveRun(e, matched) /\ Rest17
        \/ OnApprovals /\ W!CommitEvent(e) /\ Rest17
        \/ OnApprovals /\ W!AbortEvent(e) /\ Rest17
        \/ \E u \in Users, d \in W!Decisions, k \in DecisionKeys :
            \/ OnApprovals /\ W!DecideApproval(u, e, d, k) /\ Rest17
            \/ OnApprovals /\ W!ReplayDecision(u, e, d, k) /\ Rest17
    \/ \E u \in Users :
        \/ OnApprovals /\ W!AssignDeal(u) /\ Rest17
        \/ OnApprovals /\ W!DeactivateDefinition(u) /\ Rest17
        \/ \E on \in BOOLEAN : OnApprovals /\ W!UpdateDefinition(u, on) /\ Rest17
        \/ \E by \in Users : OnApprovals /\ W!BeginDisable(by, u) /\ Rest17
        \/ \E by \in Users : OnApprovals /\ W!Reactivate(by, u) /\ Rest17
    \/ \E to \in Users \cup {Nobody} : OnApprovals /\ W!CommitDisable(to) /\ Rest17
    \/ OnApprovals /\ W!AbortDisable /\ Rest17

MailboxStep ==
    \/ OnMailbox /\ MayArrive /\ B!Arrive /\ Rest12
    \/ OnMailbox /\ B!ComeDue /\ Rest12
    \/ \E on \in BOOLEAN : OnMailbox /\ MayChange /\ B!Upsert(on) /\ Rest12
    \/ OnMailbox /\ MayChange /\ B!Delete /\ Rest12
    \/ OnMailbox /\ MayChange /\ B!Disable /\ Rest12
    \/ OnMailbox /\ B!ListSyncTargets /\ Rest12
    \/ OnMailbox /\ B!ScheduleDueJobs /\ Rest12
    \/ \E c \in B!Cycles :
        \/ OnMailbox /\ B!Lapse(c) /\ Rest12
        \/ OnMailbox /\ MayChange /\ B!Replay(c) /\ Rest12
        \/ \E r \in Syncs : OnMailbox /\ MayStart /\ B!Take(r, c) /\ Rest12
    \/ \E r \in Syncs :
        \/ OnMailbox /\ MayRequest /\ B!RunNow(r) /\ Rest12
        \/ OnMailbox /\ B!LoadCredentials(r) /\ Rest12
        \/ OnMailbox /\ B!MarkSyncing(r) /\ Rest12
        \/ OnMailbox /\ B!Fetch(r) /\ Rest12
        \/ OnMailbox /\ B!FetchFails(r) /\ Rest12
        \/ OnMailbox /\ B!RecordInbound(r) /\ Rest12
        \/ OnMailbox /\ B!RecordFails(r) /\ Rest12
        \/ \E heard \in BOOLEAN : OnMailbox /\ (heard \/ MayChange) /\ B!Finish(r, heard) /\ Rest12
        \/ OnMailbox /\ B!updateFailure(r) /\ Rest12
        \/ OnMailbox /\ MayChange /\ B!StatementFails(r) /\ Rest12
        \/ OnMailbox /\ B!Stop(r) /\ Rest12
        \/ OnMailbox /\ B!Settle(r) /\ Rest12
        \/ OnMailbox /\ MayChange /\ MayStart /\ B!BeginCheck(r) /\ Rest12
        \/ OnMailbox /\ B!MarkChecking(r) /\ Rest12
        \/ \E ready \in BOOLEAN : OnMailbox /\ B!FinishCheck(r, ready) /\ Rest12

LimitStep ==
    \/ \E c \in Callers :
        \/ OnLimits /\ L!Issue(c) /\ Rest11
        \/ OnLimits /\ L!Consume(c) /\ Rest11
        \/ OnLimits /\ L!Accept(c) /\ Rest11
        \/ OnLimits /\ L!Deny(c) /\ Rest11
        \/ OnLimits /\ L!Lose(c) /\ Rest11
        \/ \E budgets \in SUBSET Buckets : OnLimits /\ L!Begin(c, budgets) /\ Rest11
    \/ \E b \in Buckets : OnLimits /\ L!CleanupExpired(b) /\ Rest11
    \/ OnLimits /\ L!Tick /\ Rest11

WorkspaceNext ==
    \/ ImportStep \/ ReportStep \/ MailStep \/ MemberStep \/ ApprovalStep
    \/ MailboxStep \/ LimitStep

WorkspaceSpec == WorkspaceInit /\ [][WorkspaceNext]_shared

-----------------------------------------------------------------------------
TypesOK ==
    /\ OnImports => I!TypeOK
    /\ OnReports => R!TypeOK
    /\ OnMembers => M!TypeOK
    /\ OnApprovals => W!TypeOK
    /\ OnMailbox => B!TypeOK
    /\ OnLimits => L!TypeOK

\* What several transactions write in turn adds up: the counters of an import
\* say what its rows say (ImportBatches), and the run, the approval, the
\* outcomes and the tasks of a playbook tell one story (WorkflowApprovals).
RecordsAgree ==
    /\ OnImports => I!CountersAgree
    /\ OnApprovals => W!PlansAgree

\* What has ended is left alone: a rolled back import (ImportBatches), a
\* settled delivery of a report (ReportSchedules), a decided or cancelled
\* approval (WorkflowApprovals).
SettledStaysSettled ==
    [][/\ OnImports => I!KeepsRollback
       /\ OnReports => R!KeepsOutcomes
       /\ OnApprovals => W!KeepsDecisions]_shared

\* WorkflowApprovals: an approval left pending is current, or was overtaken.
OnlyOvertakenPlansLinger == OnApprovals => W!OnlyOvertakenPlansLinger

\* ReportSchedules: one hand-over per decision to send.
SentOncePerDecision == OnReports => R!SentOncePerDecision

\* ReportSchedules: an open run has a job.
OpenRunHasJob == OnReports => R!OpenRunHasJob

\* ReportSchedules: nothing is left to send in a run that is closed.
ClosedRunsAreSettled == OnReports => R!ClosedRunsAreSettled

\* Members: the workspace keeps an active owner.
OwnerRemains == OnMembers => M!OwnerRemains

\* Members: nobody is signed in by a password that was replaced.
CredentialsCurrent == OnMembers => M!CredentialsCurrent

\* Members: only the newest link works, and its status is the one shown.
NewestLinkOnly == OnMembers => M!NewestLinkOnly

\* MailboxSync: the cursor passes by only what was older than the limit or is too
\* large, and an account that is due is served.
MailboxFollowed == OnMailbox => B!MailboxFollowed

\* RateLimits: what was granted is what the buckets count.
BudgetsExact == OnLimits => L!BudgetsExact

ActorSymmetry == Permutations({p1, p2})
=============================================================================
