-------------------------- MODULE WorkflowApprovals --------------------------
(***************************************************************************)
(* Approval-gated playbooks (modules/workflowautomations).  A stage move of *)
(* a deal runs the active rules in its own transaction: a rule that opens   *)
(* with an approval captures its actions, leaves the run waiting, and       *)
(* creates the tasks only when an eligible member approves.  Editing or     *)
(* deactivating the definition, or disabling the member whose move started  *)
(* the run, cancels what is pending.                                        *)
(*                                                                         *)
(* There is one definition and one deal; an event is one stage move of the  *)
(* deal.  Its transaction holds the deal and, FOR SHARE, the mover's        *)
(* membership; it reads the rules without a lock, and holds the definition  *)
(* (FOR KEY SHARE, by the foreign key) from the insertion of the run on.    *)
(* Decisions and definition writes take every lock they need before they    *)
(* read, so each is one step.  Disabling a member is SERIALIZABLE: it works *)
(* on the snapshot of its first statement, however long it then waits for   *)
(* the membership, and fails when a row it writes has changed since.        *)
(***************************************************************************)
EXTENDS Integers, FiniteSets

CONSTANTS
    Users,
    Managers,       \* the members with the owner's role; roles do not change here
    Events,         \* stage moves of the deal
    Keys,           \* idempotency keys of decisions
    ApproverRole,   \* who decides, by the revision of the definition: "owner" or "record_owner"
    MaxRevision,    \* bound: edits of the definition
    Nobody

VARIABLES
    active, revision,   \* the definition
    status,             \* memberships
    dealOwner,
    pc,                 \* where the transaction of an event stands
    captured,           \* revision whose actions the event read, 0 if the rule was not active
    requester,          \* who moved the deal
    run, approval,      \* the rows of an event
    gate, plan,         \* outcomes of the approval action and of the task actions
    tasks,              \* how often the captured tasks were created
    decision,           \* <<decider, decision, key>> kept with the approval
    told,               \* ghost: the decisions a client was told of
    disabling,          \* the request that disables a member
    overtaken           \* ghost: events that committed after a change they did not see

definition == <<active, revision>>
rows == <<captured, requester, run, approval, gate, plan, tasks, decision>>
vars == <<definition, status, dealOwner, pc, rows, told, disabling, overtaken>>

Decisions == {"approved", "rejected"}
NoDecision == <<Nobody, "none", Nobody>>
NoRequest == [by |-> Nobody, target |-> Nobody, seen |-> {}, missed |-> {},
              owner |-> Nobody, moved |-> FALSE]

TypeOK ==
    /\ active \in BOOLEAN /\ revision \in 1..MaxRevision
    /\ status \in [Users -> {"active", "disabled"}]
    /\ dealOwner \in Users \cup {Nobody}
    /\ pc \in [Events -> {"idle", "read", "queueing", "failing", "skipping", "over"}]
    /\ captured \in [Events -> 0..MaxRevision]
    /\ requester \in [Events -> Users \cup {Nobody}]
    /\ run \in [Events -> {"none", "waiting", "succeeded", "failed", "skipped", "cancelled"}]
    /\ approval \in [Events -> Decisions \cup {"none", "pending", "cancelled"}]
    /\ gate \in [Events -> {"none", "queued", "succeeded", "failed", "skipped", "cancelled"}]
    /\ plan \in [Events -> {"none", "queued", "succeeded", "skipped", "cancelled"}]
    /\ tasks \in [Events -> 0..1]
    /\ decision \in [Events -> (Users \X Decisions \X Keys) \cup {NoDecision}]
    /\ told \subseteq Events \X Users \X Decisions \X Keys
    /\ disabling \in [by : Users \cup {Nobody}, target : Users \cup {Nobody},
                      seen : SUBSET Events, missed : SUBSET Events,
                      owner : Users \cup {Nobody}, moved : BOOLEAN]
    /\ overtaken \subseteq Events

Init ==
    /\ active = TRUE /\ revision = 1
    /\ status = [u \in Users |-> "active"]
    /\ dealOwner \in Users \cup {Nobody}
    /\ pc = [e \in Events |-> "idle"]
    /\ captured = [e \in Events |-> 0]
    /\ requester = [e \in Events |-> Nobody]
    /\ run = [e \in Events |-> "none"]
    /\ approval = [e \in Events |-> "none"]
    /\ gate = [e \in Events |-> "none"]
    /\ plan = [e \in Events |-> "none"]
    /\ tasks = [e \in Events |-> 0]
    /\ decision = [e \in Events |-> NoDecision]
    /\ told = {}
    /\ disabling = NoRequest
    /\ overtaken = {}

-----------------------------------------------------------------------------
(* Locks.                                                                   *)

InFlight(e) == pc[e] \notin {"idle", "over"}

\* The deal is free for FOR UPDATE.
DealFree == \A e \in Events : ~InFlight(e)

\* The membership is free for FOR UPDATE: no event of the member and no request
\* the member makes holds it.
MembershipFree(u) ==
    /\ \A e \in Events : InFlight(e) => requester[e] # u
    /\ disabling.by # u

\* The definition is free for FOR UPDATE: no run of it is being inserted.
DefinitionFree == \A e \in Events : pc[e] \in {"idle", "read", "over"}

Pending == {e \in Events : approval[e] = "pending"}

\* A disabling that has its snapshot finds the deal's row changed, and does not
\* see what the events of S leave behind.
DealMoves(S) ==
    disabling' = IF disabling.target = Nobody THEN disabling
                 ELSE [disabling EXCEPT !.moved = TRUE, !.missed = @ \cup S]

-----------------------------------------------------------------------------
(* The event: moveDealStageInTx and ExecuteDealTaskRules.                   *)

BeginEvent(e, u) ==
    /\ pc[e] = "idle" /\ status[u] = "active" /\ DealFree
    /\ pc' = [pc EXCEPT ![e] = "read"]
    /\ captured' = [captured EXCEPT ![e] = IF active THEN revision ELSE 0]
    /\ requester' = [requester EXCEPT ![e] = u]
    /\ UNCHANGED <<definition, status, dealOwner, run, approval, gate, plan, tasks,
                   decision, told, disabling, overtaken>>

\* An unowned deal becomes the mover's.
OwnerAfter(e) == IF dealOwner = Nobody THEN requester[e] ELSE dealOwner

eligibleWorkflowApproverExists(e) ==
    IF ApproverRole[captured[e]] = "owner"
    THEN \E u \in Managers : status[u] = "active"
    ELSE status[OwnerAfter(e)] = "active"

\* Whether a condition of the rule holds is the deal's business.
ReserveRun(e, conditionMatched) ==
    /\ pc[e] = "read" /\ captured[e] # 0
    /\ pc' = [pc EXCEPT ![e] = CASE ~conditionMatched -> "skipping"
                                 [] conditionMatched /\ eligibleWorkflowApproverExists(e) -> "queueing"
                                 [] OTHER -> "failing"]
    /\ UNCHANGED <<definition, status, dealOwner, rows, told, disabling, overtaken>>

queueDealApproval(e) ==
    /\ run' = [run EXCEPT ![e] = "waiting"]
    /\ approval' = [approval EXCEPT ![e] = "pending"]
    /\ gate' = [gate EXCEPT ![e] = "queued"]
    /\ plan' = [plan EXCEPT ![e] = "queued"]

failUnavailableDealApproval(e) ==
    /\ run' = [run EXCEPT ![e] = "failed"]
    /\ gate' = [gate EXCEPT ![e] = "failed"]
    /\ plan' = [plan EXCEPT ![e] = "cancelled"]
    /\ UNCHANGED approval

skipDealTaskRun(e) ==
    /\ run' = [run EXCEPT ![e] = "skipped"]
    /\ gate' = [gate EXCEPT ![e] = "skipped"]
    /\ plan' = [plan EXCEPT ![e] = "skipped"]
    /\ UNCHANGED approval

\* Only now do other transactions see the run and what belongs to it.
CommitEvent(e) ==
    /\ \/ pc[e] = "read" /\ captured[e] = 0 /\ UNCHANGED <<run, approval, gate, plan>>
       \/ pc[e] = "queueing" /\ queueDealApproval(e)
       \/ pc[e] = "failing" /\ failUnavailableDealApproval(e)
       \/ pc[e] = "skipping" /\ skipDealTaskRun(e)
    /\ pc' = [pc EXCEPT ![e] = "over"]
    /\ dealOwner' = OwnerAfter(e)
    /\ DealMoves({e} \cap {f \in Events : requester[f] = disabling.target})
    /\ UNCHANGED <<definition, status, captured, requester, tasks, decision, told, overtaken>>

\* The whole transaction is rolled back, the move with it.
AbortEvent(e) ==
    /\ InFlight(e)
    /\ pc' = [pc EXCEPT ![e] = "idle"]
    /\ captured' = [captured EXCEPT ![e] = 0]
    /\ requester' = [requester EXCEPT ![e] = Nobody]
    /\ overtaken' = overtaken \ {e}
    /\ UNCHANGED <<definition, status, dealOwner, run, approval, gate, plan, tasks,
                   decision, told, disabling>>

\* The deal is given to another active member (deals Update).
AssignDeal(u) ==
    /\ DealFree /\ status[u] = "active" /\ u # dealOwner
    /\ dealOwner' = u
    /\ DealMoves({})
    /\ UNCHANGED <<definition, status, pc, rows, told, overtaken>>

-----------------------------------------------------------------------------
(* Decisions.                                                               *)

actorCanDecideApproval(u, e) ==
    IF ApproverRole[captured[e]] = "owner" THEN u \in Managers ELSE dealOwner = u

lockApprovalDecision(u, e) ==
    /\ approval[e] # "none" /\ DealFree
    /\ status[u] = "active" /\ status[requester[e]] = "active"
    /\ actorCanDecideApproval(u, e)
    /\ approval[e] = "pending" => active

\* The first decision stands.  Its answer may be lost.
DecideApproval(u, e, d, k) ==
    /\ lockApprovalDecision(u, e)
    /\ approval[e] = "pending" /\ run[e] = "waiting"
    /\ approval' = [approval EXCEPT ![e] = d]
    /\ decision' = [decision EXCEPT ![e] = <<u, d, k>>]
    /\ gate' = [gate EXCEPT ![e] = "succeeded"]
    /\ IF d = "approved"
       THEN /\ tasks' = [tasks EXCEPT ![e] = @ + 1]
            /\ plan' = [plan EXCEPT ![e] = "succeeded"]
            /\ run' = [run EXCEPT ![e] = "succeeded"]
       ELSE /\ plan' = [plan EXCEPT ![e] = "cancelled"]
            /\ run' = [run EXCEPT ![e] = "cancelled"]
            /\ UNCHANGED tasks
    /\ UNCHANGED <<definition, status, dealOwner, pc, captured, requester, told,
                   disabling, overtaken>>

\* The same decision with the same key is answered again; anything else conflicts.
ReplayDecision(u, e, d, k) ==
    /\ lockApprovalDecision(u, e)
    /\ approval[e] = d /\ decision[e] = <<u, d, k>>
    /\ told' = told \cup {<<e, u, d, k>>}
    /\ UNCHANGED <<definition, status, dealOwner, pc, rows, disabling, overtaken>>

-----------------------------------------------------------------------------
(* What cancels.                                                            *)

cancelPendingApprovalItems(items) ==
    /\ approval' = [e \in Events |-> IF e \in items THEN "cancelled" ELSE approval[e]]
    /\ run' = [e \in Events |-> IF e \in items THEN "cancelled" ELSE run[e]]
    /\ gate' = [e \in Events |-> IF e \in items THEN "cancelled" ELSE gate[e]]
    /\ plan' = [e \in Events |-> IF e \in items THEN "cancelled" ELSE plan[e]]
    /\ UNCHANGED <<captured, requester, tasks, decision>>

lockWorkflowDefinitionWriter(by) ==
    by \in Managers /\ status[by] = "active" /\ MembershipFree(by) /\ DefinitionFree

\* The events that have read the definition and not inserted their run.
Overtakes == {e \in Events : pc[e] = "read" /\ captured[e] # 0}

UpdateAndKeepPending(by, desiredActive) ==
    /\ lockWorkflowDefinitionWriter(by) /\ revision < MaxRevision
    /\ revision' = revision + 1
    /\ active' = desiredActive
    /\ cancelPendingApprovalItems(IF desiredActive THEN {} ELSE Pending)
    /\ overtaken' = overtaken \cup Overtakes
    /\ UNCHANGED <<status, dealOwner, pc, told, disabling>>

UpdateDefinition(by, desiredActive) ==
    /\ lockWorkflowDefinitionWriter(by) /\ revision < MaxRevision
    /\ revision' = revision + 1
    /\ active' = desiredActive
    /\ cancelPendingApprovalItems(Pending)
    /\ overtaken' = overtaken \cup Overtakes
    /\ UNCHANGED <<status, dealOwner, pc, told, disabling>>

DeactivateDefinition(by) ==
    /\ lockWorkflowDefinitionWriter(by)
    /\ active' = FALSE
    /\ cancelPendingApprovalItems(Pending)
    /\ overtaken' = overtaken \cup Overtakes
    /\ UNCHANGED <<revision, status, dealOwner, pc, told, disabling>>

\* The first statement authorizes the actor, and fixes what the transaction sees.
BeginDisable(by, u) ==
    /\ disabling.target = Nobody
    /\ by \in Managers /\ status[by] = "active" /\ by # u /\ status[u] = "active"
    /\ disabling' = [by |-> by, target |-> u,
                     seen |-> {e \in Pending : requester[e] = u}, missed |-> {},
                     owner |-> dealOwner, moved |-> FALSE]
    /\ UNCHANGED <<definition, status, dealOwner, pc, rows, told, overtaken>>

\* A row of the snapshot that the transaction writes has changed since.
Disturbed ==
    \/ disabling.seen \cap Pending # disabling.seen
    \/ disabling.owner = disabling.target /\ disabling.moved

LastManager(u) == \A m \in Managers : status[m] = "active" => m = u

CommitDisable(reassignTo) ==
    LET u == disabling.target IN
    /\ u # Nobody /\ MembershipFree(u) /\ ~LastManager(u)
    /\ disabling.owner = u => DealFree
    /\ ~Disturbed
    /\ reassignTo \in {m \in Users \ {u} : status[m] = "active"} \cup {Nobody}
    /\ dealOwner' = IF disabling.owner = u THEN reassignTo ELSE dealOwner
    /\ cancelPendingApprovalItems(disabling.seen)
    /\ status' = [status EXCEPT ![u] = "disabled"]
    /\ overtaken' = overtaken \cup disabling.missed
    /\ disabling' = NoRequest
    /\ UNCHANGED <<definition, pc, told>>

\* Refused, or disturbed: the caller's retry begins with a snapshot of its own.
AbortDisable ==
    /\ disabling.target # Nobody
    /\ disabling' = NoRequest
    /\ UNCHANGED <<definition, status, dealOwner, pc, rows, told, overtaken>>

Reactivate(by, u) ==
    /\ by \in Managers /\ status[by] = "active" /\ status[u] = "disabled"
    /\ status' = [status EXCEPT ![u] = "active"]
    /\ UNCHANGED <<definition, dealOwner, pc, rows, told, disabling, overtaken>>

-----------------------------------------------------------------------------
Next ==
    \/ \E e \in Events :
        \/ \E u \in Users : BeginEvent(e, u)
        \/ \E matched \in BOOLEAN : ReserveRun(e, matched)
        \/ CommitEvent(e)
        \/ AbortEvent(e)
        \/ \E u \in Users, d \in Decisions, k \in Keys :
            DecideApproval(u, e, d, k) \/ ReplayDecision(u, e, d, k)
    \/ \E u \in Users : AssignDeal(u) \/ DeactivateDefinition(u)
    \/ \E u \in Users, on \in BOOLEAN : UpdateDefinition(u, on)
    \/ \E by, u \in Users : BeginDisable(by, u) \/ Reactivate(by, u)
    \/ \E to \in Users \cup {Nobody} : CommitDisable(to)
    \/ AbortDisable

Spec == Init /\ [][Next]_vars

-----------------------------------------------------------------------------
(* The rows of an event are written by five handlers in four tables, and    *)
(* agree: what is pending is queued and waits, what was approved has its    *)
(* tasks, once, and nothing else has any; a decision is kept with exactly    *)
(* the approvals that were decided, and a client is told of no other one.    *)
RowsAgree(e) ==
    /\ approval[e] = "pending" <=> run[e] = "waiting"
    /\ approval[e] = "pending" <=> gate[e] = "queued"
    /\ approval[e] = "pending" <=> plan[e] = "queued"
    /\ approval[e] = "approved" <=> run[e] = "succeeded"
    /\ approval[e] = "approved" <=> plan[e] = "succeeded"
    /\ tasks[e] = IF approval[e] = "approved" THEN 1 ELSE 0
    /\ approval[e] = "rejected" <=> (gate[e] = "succeeded" /\ plan[e] = "cancelled")
    /\ approval[e] \in {"rejected", "cancelled"} <=> run[e] = "cancelled"
    /\ approval[e] \in Decisions <=> decision[e] # NoDecision
    /\ approval[e] \in Decisions => decision[e][2] = approval[e]

\* What a client was told, in answer to a key, is the decision that is kept.
ToldAsDecided == \A t \in told : decision[t[1]] = <<t[2], t[3], t[4]>>

\* Both, for every event: the tables never contradict each other or a client.
PlansAgree == (\A e \in Events : RowsAgree(e)) /\ ToldAsDecided

(* What is left pending belongs to the definition as it is and to an active  *)
(* member: an edit, a deactivation or the disabling of the member cancels it *)
(* in the same transaction.  The exceptions are the events that were under   *)
(* way: those that read the rule before the definition changed and inserted  *)
(* their run after, and those that committed after the snapshot of the       *)
(* transaction that disabled their member.                                   *)
OnlyOvertakenPlansLinger ==
    \A e \in Pending :
        \/ e \in overtaken
        \/ active /\ captured[e] = revision /\ status[requester[e]] = "active"

(* A run that ended, in whatever way, is left alone: no cancellation takes   *)
(* back what was decided, and no decision revives what was cancelled.        *)
KeepsDecisions ==
    \A e \in Events : run[e] \notin {"none", "waiting"} =>
        /\ run'[e] = run[e] /\ approval'[e] = approval[e]
        /\ gate'[e] = gate[e] /\ plan'[e] = plan[e]
        /\ tasks'[e] = tasks[e] /\ decision'[e] = decision[e]
=============================================================================
