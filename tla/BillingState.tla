---------------------------- MODULE BillingState -----------------------------
(***************************************************************************)
(* The billing state of one workspace against Stripe's: the subscription   *)
(* and the invoices Stripe keeps, the webhooks that report each change     *)
(* (late, in any order, perhaps never), and the reconciliation that reads  *)
(* Stripe's present state through a background job and applies it behind a *)
(* watermark.  Stripe's changes form one history; what the workspace holds *)
(* of an object is the position in that history it was last told about.    *)
(*                                                                         *)
(* A webhook and the application of a snapshot are serializable            *)
(* transactions, one step each.  Ordering is a matter of seconds (now),    *)
(* staleness a matter of hours (fresh).  The one job is that of the latest *)
(* generation key; its queue is what JobLedger promises of it.             *)
(***************************************************************************)
EXTENDS Integers, FiniteSets, Sequences

CONSTANTS
    MaxInvoices,  \* bound: invoices of the subscription
    MaxAttempts,  \* max_attempts of a billing.reconcile job
    MaxTime,      \* bound: seconds told apart
    MaxEvents,    \* bound: changes at Stripe
    MaxReplays    \* bound: operator replays

ASSUME BillingAssumption ==
    /\ MaxAttempts \in Nat \ {0}
    /\ {MaxInvoices, MaxTime, MaxEvents, MaxReplays} \subseteq Nat

Sub == 0
Invoices == 1..MaxInvoices
Objects == {Sub} \cup Invoices

VARIABLES
    now,            \* the second, by Stripe's clock and ours
    history,        \* Stripe: its changes [of, at, is], oldest first
    receipts,       \* billing_webhook_events processed or ignored
    missed,         \* history: an event was ignored, no workspace being known
    linked,         \* stripe_customer_id and stripe_subscription_id are set
    applied,        \* position in history of the row's content, 0 when none
    cursor,         \* billing_last_event_created, last_event_created
    standing,       \* subscription_status
    paymentCursor,  \* billing_last_invoice_event_created
    fresh,          \* billing_last_reconciled_at is younger than six hours
    phase, tries,   \* the job
    keyed,          \* the job's key is that of the present generation
    pc,             \* the worker running the job
    observed, seen, \* its snapshot: when it was begun, what it saw
    replays         \* history: operator replays

stripeVars == <<now, history>>
rowVars == <<linked, applied, cursor, standing, paymentCursor>>
jobVars == <<fresh, phase, tries, keyed, replays>>
workerVars == <<pc, observed, seen>>
vars == <<stripeVars, receipts, missed, rowVars, jobVars, workerVars>>

Never == 0   \* a NULL cursor; seconds start above it

ChangeRecords ==
    [of : Objects, at : Nat,
     is : {"incomplete", "active", "past_due", "canceled", "failed", "paid"}]

NoSnapshot == [o \in Objects |-> 0]

Standings == {"trialing", "active", "past_due", "canceled"}

TypeOK ==
    /\ now \in Nat
    /\ history \in Seq(ChangeRecords)
    /\ receipts \subseteq DOMAIN history
    /\ applied \in [Objects -> Nat]
    /\ cursor \in [Objects -> Nat]
    /\ standing \in Standings
    /\ {paymentCursor, tries, observed, replays} \subseteq Nat
    /\ {missed, linked, fresh, keyed} \subseteq BOOLEAN
    /\ phase \in {"none", "waiting", "taken", "done", "failed"}
    /\ pc \in {"idle", "retrieve", "list", "apply"}
    /\ seen \in [Objects -> Nat]

Init ==
    /\ now = 2
    /\ history = <<>>
    /\ receipts = {} /\ missed = FALSE
    /\ linked = FALSE
    /\ applied = [o \in Objects |-> 0]
    /\ cursor = [o \in Objects |-> Never]
    /\ standing = "trialing"
    /\ paymentCursor = Never
    /\ fresh = FALSE
    /\ phase = "none" /\ tries = 0 /\ keyed = FALSE
    /\ pc = "idle" /\ observed = Never /\ seen = NoSnapshot
    /\ replays = 0

-----------------------------------------------------------------------------
(* Stripe.  It stops changing one second before the clock does.            *)

LastOf(S) == IF S = {} THEN 0 ELSE CHOOSE n \in S : \A m \in S : m <= n

ChangesOf(O) == {n \in DOMAIN history : history[n].of \in O}

\* The position of the latest change of o, 0 before the first.
Latest(o) == LastOf(ChangesOf({o}))

State(o) == IF Latest(o) = 0 THEN "none" ELSE history[Latest(o)].is

Change(o, state) == [of |-> o, at |-> now, is |-> state]

Happens(changes) ==
    /\ now + 1 <= MaxTime
    /\ Len(history) + Len(changes) <= MaxEvents
    /\ history' = history \o changes
    /\ UNCHANGED <<now, receipts, missed, rowVars, jobVars, workerVars>>

Subscribe ==
    /\ State(Sub) = "none"
    /\ \E state \in {"incomplete", "active"} : Happens(<<Change(Sub, state)>>)

\* Stripe asks for payment of invoices in order, and may ask again later.
Issued(i) == \A k \in 1..i - 1 : State(k) # "none"

PaymentFails(i) ==
    /\ State(Sub) \in {"incomplete", "active", "past_due"}
    /\ State(i) = "none" /\ Issued(i)
    /\ IF State(Sub) = "active"
       THEN Happens(<<Change(i, "failed"), Change(Sub, "past_due")>>)
       ELSE Happens(<<Change(i, "failed")>>)

PaymentSucceeds(i) ==
    /\ State(Sub) \in {"incomplete", "active", "past_due"}
    /\ State(i) # "paid" /\ Issued(i)
    /\ IF State(Sub) # "active" /\ \A k \in Invoices \ {i} : State(k) # "failed"
       THEN Happens(<<Change(i, "paid"), Change(Sub, "active")>>)
       ELSE Happens(<<Change(i, "paid")>>)

CancelSubscription ==
    /\ State(Sub) \in {"incomplete", "active", "past_due"}
    /\ Happens(<<Change(Sub, "canceled")>>)

Tick ==
    /\ now < MaxTime
    /\ now' = now + 1
    /\ UNCHANGED <<history, receipts, missed, rowVars, jobVars, workerVars>>

-----------------------------------------------------------------------------
(* Webhooks.  A delivery that never comes, comes twice, or fails and leaves *)
(* its receipt retryable changes nothing.                                   *)

\* checkout.session.completed: the references only, never the status.
CheckoutWebhook ==
    /\ State(Sub) # "none"
    /\ linked' = TRUE
    /\ UNCHANGED <<stripeVars, receipts, missed, applied, cursor, standing,
                   paymentCursor, jobVars, workerVars>>

\* Ordering: nothing known to be newer is in the row.
AnyOrder(o, at) == TRUE

Supersedes(o, at) == cursor[o] <= at

\* The status a subscription state stands for; "incomplete" stands for none.
StandingVerbatim(state) == state

Standing(state) == IF state = "incomplete" THEN standing ELSE state

SubscriptionWebhook(n) ==
    /\ history[n].of = Sub
    /\ receipts' = receipts \cup {n}
    /\ IF Supersedes(Sub, history[n].at)
       THEN /\ linked' = TRUE
            /\ applied' = [applied EXCEPT ![Sub] = n]
            /\ cursor' = [cursor EXCEPT ![Sub] = history[n].at]
            /\ standing' = Standing(history[n].is)
       ELSE UNCHANGED <<linked, applied, cursor, standing>>
    /\ UNCHANGED <<stripeVars, missed, paymentCursor, jobVars, workerVars>>

\* What a payment does to the status, outside the subscription's own events.
AfterPayment(outcome) ==
    CASE outcome = "failed" /\ standing \in {"active", "trialing"} -> "past_due"
      [] outcome = "paid" /\ standing = "past_due" -> "active"
      [] OTHER -> standing

InvoiceWebhook(n) ==
    LET i == history[n].of
        created == history[n].at
    IN  /\ i \in Invoices
        /\ linked
        /\ receipts' = receipts \cup {n}
        /\ IF Supersedes(i, created)
           THEN /\ applied' = [applied EXCEPT ![i] = n]
                /\ cursor' = [cursor EXCEPT ![i] = created]
           ELSE UNCHANGED <<applied, cursor>>
        /\ IF paymentCursor <= created
           THEN /\ standing' = AfterPayment(history[n].is)
                /\ paymentCursor' = created
           ELSE UNCHANGED <<standing, paymentCursor>>
        /\ UNCHANGED <<stripeVars, missed, linked, jobVars, workerVars>>

\* An invoice names no workspace: before the references are stored its event
\* is acknowledged and lost.
InvoiceWebhookUnknown(n) ==
    /\ history[n].of \in Invoices
    /\ ~linked
    /\ receipts' = receipts \cup {n}
    /\ missed' = TRUE
    /\ UNCHANGED <<stripeVars, rowVars, jobVars, workerVars>>

-----------------------------------------------------------------------------
(* Scheduling a reconciliation.                                            *)

GrowStale ==
    /\ fresh
    /\ fresh' = FALSE
    /\ UNCHANGED <<stripeVars, receipts, missed, rowVars, phase, tries,
                   keyed, replays, workerVars>>

\* A workspace that is due and has no job on its way gets one; a known key
\* keeps its row, in whatever state it is.  (Another process that listed the
\* workspace too finds the key, or the key of a generation left behind.)
ScheduleReconciliation ==
    /\ linked /\ ~fresh
    /\ phase \notin {"waiting", "taken"}
    /\ ~keyed
    /\ phase' = "waiting"
    /\ tries' = 0
    /\ keyed' = TRUE
    /\ UNCHANGED <<stripeVars, receipts, missed, rowVars, fresh, replays,
                   workerVars>>

ReplayDead ==
    /\ phase = "failed" /\ keyed
    /\ replays < MaxReplays
    /\ phase' = "waiting"
    /\ tries' = 0
    /\ replays' = replays + 1
    /\ UNCHANGED <<stripeVars, receipts, missed, rowVars, fresh, keyed,
                   workerVars>>

-----------------------------------------------------------------------------
(* The job.  phase "taken" with an idle worker is a lease nobody holds.    *)

\* Claimed; ObservedAt is taken before Stripe is asked anything.
BeginReconciliation ==
    /\ phase \in {"waiting", "taken"} /\ pc = "idle"
    /\ tries < MaxAttempts
    /\ phase' = "taken"
    /\ tries' = tries + 1
    /\ pc' = "retrieve"
    /\ observed' = now
    /\ UNCHANGED <<stripeVars, receipts, missed, rowVars, fresh, keyed,
                   replays, seen>>

RetrieveSubscription ==
    /\ pc = "retrieve"
    /\ seen' = [o \in Objects |-> IF o = Sub THEN Latest(Sub) ELSE 0]
    /\ pc' = "list"
    /\ UNCHANGED <<stripeVars, receipts, missed, rowVars, jobVars, observed>>

ListThenClock ==
    /\ pc = "list"
    /\ seen' = [o \in Objects |-> IF o = Sub THEN seen[Sub] ELSE Latest(o)]
    /\ pc' = "apply"
    /\ observed' = now
    /\ UNCHANGED <<stripeVars, receipts, missed, rowVars, jobVars>>

ListInvoices ==
    /\ pc = "list"
    /\ seen' = [o \in Objects |-> IF o = Sub THEN seen[Sub] ELSE Latest(o)]
    /\ pc' = "apply"
    /\ UNCHANGED <<stripeVars, receipts, missed, rowVars, jobVars, observed>>

\* The run, and its snapshot, is over.
Leave(verdict) ==
    /\ phase' = verdict
    /\ pc' = "idle"
    /\ observed' = Never
    /\ seen' = NoSnapshot

WatermarkAtObservation == observed

Watermark == observed - 1

\* Rows the snapshot may replace: it has them, and nothing newer was applied.
Replaced == {o \in Objects : seen[o] # 0 /\ Supersedes(o, Watermark)}

\* The evidence is recorded, and the generation moves on, whether or not the
\* subscription was replaced.
EvidenceIfReplaced ==
    IF Sub \in Replaced THEN fresh' = TRUE /\ keyed' = FALSE
                        ELSE UNCHANGED <<fresh, keyed>>

RecordEvidence == fresh' = TRUE /\ keyed' = FALSE

\* The job is completed, unless the process stops first or the queue is not
\* told.
ApplySnapshot ==
    /\ pc = "apply"
    /\ applied' = [o \in Objects |-> IF o \in Replaced THEN seen[o] ELSE applied[o]]
    /\ cursor' = [o \in Objects |-> IF o \in Replaced THEN Watermark ELSE cursor[o]]
    /\ standing' = IF Sub \in Replaced THEN Standing(history[seen[Sub]].is)
                                       ELSE standing
    /\ RecordEvidence
    /\ Leave("done") \/ Leave("taken")
    /\ UNCHANGED <<stripeVars, receipts, missed, linked, paymentCursor, tries,
                   replays>>

\* Stripe refuses or times out, or the transaction does not commit.
ReconciliationFails ==
    /\ pc # "idle"
    /\ Leave(IF tries < MaxAttempts THEN "waiting" ELSE "failed")
    /\ UNCHANGED <<stripeVars, receipts, missed, rowVars, fresh, tries, keyed,
                   replays>>

WorkerDies ==
    /\ pc # "idle"
    /\ Leave("taken")
    /\ UNCHANGED <<stripeVars, receipts, missed, rowVars, fresh, tries, keyed,
                   replays>>

GiveUp ==
    /\ phase = "taken" /\ pc = "idle"
    /\ tries >= MaxAttempts
    /\ phase' = "failed"
    /\ UNCHANGED <<stripeVars, receipts, missed, rowVars, fresh, tries,
                   keyed, replays, workerVars>>

-----------------------------------------------------------------------------
Stripe ==
    \/ Subscribe \/ CancelSubscription
    \/ \E i \in Invoices : PaymentFails(i) \/ PaymentSucceeds(i)

Webhook ==
    \/ CheckoutWebhook
    \/ \E n \in DOMAIN history \ receipts :
          SubscriptionWebhook(n) \/ InvoiceWebhook(n) \/ InvoiceWebhookUnknown(n)

Reconciliation ==
    \/ GrowStale \/ ScheduleReconciliation
    \/ BeginReconciliation \/ RetrieveSubscription \/ ListInvoices
    \/ ApplySnapshot \/ GiveUp

Next ==
    \/ Tick \/ Stripe \/ Webhook
    \/ Reconciliation \/ ReplayDead \/ ReconciliationFails \/ WorkerDies

Spec == Init /\ [][Next]_vars

FairSpec ==
    /\ Spec
    /\ WF_vars(Tick)
    /\ WF_vars(GrowStale)
    /\ WF_vars(ScheduleReconciliation)
    /\ WF_vars(BeginReconciliation)
    /\ WF_vars(RetrieveSubscription)
    /\ WF_vars(ListInvoices)
    /\ WF_vars(ApplySnapshot)
    /\ WF_vars(GiveUp)

-----------------------------------------------------------------------------
(* Properties.                                                             *)

\* A row is never ahead of what it was told: whatever Stripe changed before
\* the second its cursor names is in the row.  Both ways to move a cursor
\* must keep this, so an event the cursor makes the webhook handler refuse is
\* never news.
NothingSkipped ==
    \A n \in DOMAIN history :
        history[n].at < cursor[history[n].of] => n <= applied[history[n].of]

\* "The retrieval-start watermark prevents its current subscription and
\* recent 25 invoices from overwriting a newer webhook."
SnapshotsMoveForward ==
    [][pc = "apply" /\ pc' = "idle" =>
          \A o \in Objects : applied'[o] >= applied[o]]_vars

\* Two changes of one object, or two payments, in one second: the cursor
\* cannot order them and the order of delivery decides.
Tied ==
    \E m, n \in DOMAIN history :
        /\ m # n
        /\ history[m].at = history[n].at
        /\ \/ history[m].of = history[n].of
           \/ {history[m].of, history[n].of} \subseteq Invoices

AllHandled == receipts = DOMAIN history /\ ~missed

LastPayment ==
    IF ChangesOf(Invoices) = {} THEN "none"
    ELSE history[LastOf(ChangesOf(Invoices))].is

\* The provider's status, or anything when it has none to tell.
StandingAgrees == State(Sub) \in {"none", "incomplete", standing}

\* Webhooks alone suffice: once every change was delivered to a linked
\* workspace, in whatever order and between whatever snapshots, each row is
\* Stripe's present one.
WebhooksConverge ==
    AllHandled /\ ~Tied => \A o \in Objects : applied[o] = Latest(o)

\* ...and so is the status, although the events of invoices and of the
\* subscription both write it under cursors of their own, provided the last
\* payment did not settle one of two unpaid invoices (its event says "paid",
\* not that the subscription recovered).
StandingConverges ==
    /\ AllHandled
    /\ ~Tied
    /\ ~(State(Sub) = "past_due" /\ LastPayment = "paid")
    => StandingAgrees

\* However deliveries and snapshots interleave, rows and status end up right.
StateConverges == WebhooksConverge /\ StandingConverges

InSync ==
    /\ \A o \in Objects : applied[o] = Latest(o)
    /\ StandingAgrees

\* The reconciliation of this generation failed for good: an operator replays.
Blocked == phase = "failed" /\ keyed

\* Whatever webhooks were lost, missed, late or in the wrong order, a linked
\* workspace ends up with Stripe's state and keeps it, unless reconciliation
\* itself has run out of attempts.
InSyncEventually == <>[](linked => InSync \/ Blocked)
=============================================================================
