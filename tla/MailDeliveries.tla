--------------------------- MODULE MailDeliveries ----------------------------
(***************************************************************************)
(* One-to-one e-mail through a member's own mailbox: the record e-mails of *)
(* emailmessages/record_deliveries.go and the threaded replies of          *)
(* emailmessages/replies.go, two ledgers with one protocol.  All the       *)
(* deliveries here are one sender's, to one record or in one thread.       *)
(*                                                                         *)
(* A delivery is prepared, claimed, handed to the provider outside any     *)
(* transaction and then settled, each step a transaction of its own, all   *)
(* driven by the HTTP request that may be cut off between any two.  The    *)
(* SMTP conversation has no deadline, so a provider call may outlive the   *)
(* five minutes after which recovery declares its claim stale.  A claim    *)
(* carries no token: an answer settles whatever claim is there.            *)
(***************************************************************************)
EXTENDS Integers, FiniteSets

CONSTANTS
    Deliveries,   \* rows of the ledger, one idempotency key each
    Calls,        \* HTTP requests that drive a delivery
    NoDelivery,   \* a call that drives none
    Kinds,        \* the ledgers looked at: TRUE record e-mail, FALSE replies
    MaxRetries    \* bound: explicit retries of one delivery

VARIABLES
    recordMail,   \* which of the two ledgers this behaviour is about
    status,       \* status of each row, "none" before it exists
    stale,        \* claimed_at is older than the stale limit
    messages,     \* email_messages rows written for the delivery
    active, writer,   \* the sender's membership status, and whether the role writes
    linked,       \* the record exists and the recipient is still its address
    pc, task,     \* each call: where it is, for which delivery
    mailbox,      \* copies the provider accepted
    claims, retries   \* history: claims won, explicit retries

rowVars == <<recordMail, status, stale, messages>>
memberVars == <<active, writer, linked>>
callVars == <<pc, task>>
historyVars == <<mailbox, claims, retries>>
vars == <<recordMail, status, stale, messages, active, writer, linked, pc,
          task, mailbox, claims, retries>>

Statuses == {"none", "prepared", "sending", "accepted", "failed", "uncertain"}
Unresolved == {"prepared", "sending", "uncertain"}
Settled == {"accepted", "failed"}
Answers == {"accepted", "rejected", "unknown"}

TypeOK ==
    /\ recordMail \in Kinds
    /\ status \in [Deliveries -> Statuses]
    /\ stale \in [Deliveries -> BOOLEAN]
    /\ messages \in [Deliveries -> Nat]
    /\ active \in BOOLEAN /\ writer \in BOOLEAN /\ linked \in BOOLEAN
    /\ pc \in [Calls -> {"idle", "claim", "check", "send"} \cup Answers]
    /\ task \in [Calls -> Deliveries \cup {NoDelivery}]
    /\ \A c \in Calls : pc[c] # "idle" => task[c] \in Deliveries
    /\ mailbox \in [Deliveries -> Nat]
    /\ claims \in [Deliveries -> Nat]
    /\ retries \in [Deliveries -> Nat]

Init ==
    /\ recordMail \in Kinds
    /\ status = [d \in Deliveries |-> "none"]
    /\ stale = [d \in Deliveries |-> FALSE]
    /\ messages = [d \in Deliveries |-> 0]
    /\ active = TRUE /\ writer = TRUE /\ linked = TRUE
    /\ pc = [c \in Calls |-> "idle"]
    /\ task = [c \in Calls |-> NoDelivery]
    /\ mailbox = [d \in Deliveries |-> 0]
    /\ claims = [d \in Deliveries |-> 0]
    /\ retries = [d \in Deliveries |-> 0]

-----------------------------------------------------------------------------
(* Row updates.                                                            *)

\* The accepting transaction: the message, its links, note, activity and audit
\* entry, and the row.
Accept(d) ==
    /\ status' = [status EXCEPT ![d] = "accepted"]
    /\ messages' = [messages EXCEPT ![d] = @ + 1]

\* The failing one.  A failed record e-mail keeps a failed message as evidence.
Reject(d) ==
    /\ status' = [status EXCEPT ![d] = "failed"]
    /\ messages' = [messages EXCEPT ![d] = IF recordMail THEN @ + 1 ELSE @]

Doubt(d) ==
    /\ status' = [status EXCEPT ![d] = "uncertain"]
    /\ UNCHANGED messages

Leave(c) ==
    /\ pc' = [pc EXCEPT ![c] = "idle"]
    /\ task' = [task EXCEPT ![c] = NoDelivery]

Goto(c, place) ==
    /\ pc' = [pc EXCEPT ![c] = place]
    /\ UNCHANGED task

-----------------------------------------------------------------------------
(* The request: prepare or find the delivery, claim it, call the provider. *)

\* A new key: the unique index admits one unresolved delivery at a time.
Prepare(c, d) ==
    /\ pc[c] = "idle"
    /\ status[d] = "none"
    /\ active /\ writer
    /\ recordMail => linked
    /\ \A other \in Deliveries : status[other] \notin Unresolved
    /\ status' = [status EXCEPT ![d] = "prepared"]
    /\ pc' = [pc EXCEPT ![c] = "claim"]
    /\ task' = [task EXCEPT ![c] = d]
    /\ UNCHANGED <<recordMail, stale, messages, memberVars, historyVars>>

\* A known key: a prepared or sending delivery is driven on, any other shown.
Replay(c, d) ==
    /\ pc[c] = "idle"
    /\ status[d] \in {"prepared", "sending"}
    /\ active /\ writer
    /\ pc' = [pc EXCEPT ![c] = "claim"]
    /\ task' = [task EXCEPT ![c] = d]
    /\ UNCHANGED <<rowVars, memberVars, historyVars>>

ClaimAnyState(c) ==
    LET d == task[c] IN
    /\ pc[c] = "claim"
    /\ status[d] \in {"prepared", "sending"}
    /\ status' = [status EXCEPT ![d] = "sending"]
    /\ stale' = [stale EXCEPT ![d] = FALSE]
    /\ claims' = [claims EXCEPT ![d] = @ + 1]
    /\ Goto(c, "check")
    /\ UNCHANGED <<recordMail, messages, memberVars, mailbox, retries>>

\* Replies are claimed without looking at the membership again.
Claim(c) ==
    LET d == task[c] IN
    /\ pc[c] = "claim"
    /\ status[d] = "prepared"
    /\ recordMail => active /\ writer /\ linked
    /\ status' = [status EXCEPT ![d] = "sending"]
    /\ stale' = [stale EXCEPT ![d] = FALSE]
    /\ claims' = [claims EXCEPT ![d] = @ + 1]
    /\ Goto(c, "check")
    /\ UNCHANGED <<recordMail, messages, memberVars, mailbox, retries>>

\* The record or the recipient changed: claimed and failed in one transaction.
ClaimChanged(c) ==
    /\ pc[c] = "claim"
    /\ status[task[c]] = "prepared"
    /\ recordMail /\ active /\ writer /\ ~linked
    /\ Reject(task[c])
    /\ Leave(c)
    /\ UNCHANGED <<recordMail, stale, memberVars, historyVars>>

\* Somebody else's claim that is too old is declared uncertain on the way.
ClaimStale(c) ==
    /\ pc[c] = "claim"
    /\ status[task[c]] = "sending"
    /\ stale[task[c]]
    /\ Doubt(task[c])
    /\ stale' = [stale EXCEPT ![task[c]] = FALSE]
    /\ Leave(c)
    /\ UNCHANGED <<recordMail, memberVars, historyVars>>

ClaimNothing(c) ==
    LET d == task[c] IN
    /\ pc[c] = "claim"
    /\ \/ status[d] \notin {"prepared", "sending"}
       \/ status[d] = "sending" /\ ~stale[d]
       \/ status[d] = "prepared" /\ recordMail /\ ~(active /\ writer)
    /\ Leave(c)
    /\ UNCHANGED <<rowVars, memberVars, historyVars>>

\* After the claim: the mailbox, its address, the suppression list.
RefuseToSend(c) ==
    /\ pc[c] = "check"
    /\ Goto(c, "rejected")
    /\ UNCHANGED <<rowVars, memberVars, historyVars>>

CallProvider(c) ==
    /\ pc[c] = "check"
    /\ Goto(c, "send")
    /\ UNCHANGED <<rowVars, memberVars, historyVars>>

\* The provider: an error after the data began may or may not mean delivered.
Answer(c) ==
    /\ pc[c] = "send"
    /\ \E answer \in Answers, arrived \in BOOLEAN :
        /\ answer = "accepted" => arrived
        /\ answer = "rejected" => ~arrived
        /\ mailbox' = [mailbox EXCEPT ![task[c]] = IF arrived THEN @ + 1 ELSE @]
        /\ Goto(c, answer)
    /\ UNCHANGED <<rowVars, memberVars, claims, retries>>

-----------------------------------------------------------------------------
(* Settling the delivery.                                                  *)

Complete(c) ==
    /\ pc[c] = "accepted"
    /\ status[task[c]] \in {"sending", "uncertain"}
    /\ Accept(task[c])
    /\ stale' = [stale EXCEPT ![task[c]] = FALSE]
    /\ Leave(c)
    /\ UNCHANGED <<recordMail, memberVars, historyVars>>

CompleteTwice(c) ==
    /\ pc[c] = "accepted"
    /\ status[task[c]] = "accepted"
    /\ Leave(c)
    /\ UNCHANGED <<rowVars, memberVars, historyVars>>

\* The row is in no state to be accepted, or the transaction failed: the
\* handler reports it as uncertain instead.
CompleteFails(c) ==
    /\ pc[c] = "accepted"
    /\ Goto(c, "unknown")
    /\ UNCHANGED <<rowVars, memberVars, historyVars>>

FailAnyState(c) ==
    LET d == task[c] IN
    /\ pc[c] \in {"rejected", "unknown"}
    /\ status[d] \in {"sending", "uncertain"}
    /\ IF pc[c] = "rejected" THEN Reject(d) ELSE Doubt(d)
    /\ stale' = [stale EXCEPT ![d] = FALSE]
    /\ Leave(c)
    /\ UNCHANGED <<recordMail, memberVars, historyVars>>

Fail(c) ==
    LET d == task[c] IN
    /\ pc[c] \in {"rejected", "unknown"}
    /\ status[d] = "sending"
    /\ IF pc[c] = "rejected" THEN Reject(d) ELSE Doubt(d)
    /\ stale' = [stale EXCEPT ![d] = FALSE]
    /\ Leave(c)
    /\ UNCHANGED <<recordMail, memberVars, historyVars>>

\* The row is settled or uncertain already: the call answers with an error.
FailRefused(c) ==
    /\ pc[c] \in {"rejected", "unknown"}
    /\ status[task[c]] # "sending"
    /\ Leave(c)
    /\ UNCHANGED <<rowVars, memberVars, historyVars>>

\* The process stops, or the client hangs up and the request context ends.
Stop(c) ==
    /\ pc[c] # "idle"
    /\ Leave(c)
    /\ UNCHANGED <<rowVars, memberVars, historyVars>>

-----------------------------------------------------------------------------
(* Recovery and the people who resolve what is uncertain.                  *)

Age(d) ==
    /\ status[d] = "sending" /\ ~stale[d]
    /\ stale' = [stale EXCEPT ![d] = TRUE]
    /\ UNCHANGED <<recordMail, status, messages, memberVars, callVars, historyVars>>

RecoverLinkedOnly(d) ==
    /\ status[d] = "sending" /\ stale[d]
    /\ linked
    /\ Doubt(d)
    /\ stale' = [stale EXCEPT ![d] = FALSE]
    /\ UNCHANGED <<recordMail, memberVars, callVars, historyVars>>

\* The recovery pass, at start-up and every minute, row by row.
Recover(d) ==
    /\ status[d] = "sending" /\ stale[d]
    /\ Doubt(d)
    /\ stale' = [stale EXCEPT ![d] = FALSE]
    /\ UNCHANGED <<recordMail, memberVars, callVars, historyVars>>

\* The sender or an administrator found the message in the Sent folder.
ConfirmSent(d) ==
    /\ status[d] = "uncertain"
    /\ mailbox[d] > 0
    /\ Accept(d)
    /\ UNCHANGED <<recordMail, stale, memberVars, callVars, historyVars>>

\* It is not there, at the time they look.
MarkNotSent(d) ==
    /\ status[d] = "uncertain"
    /\ mailbox[d] = 0
    /\ Reject(d)
    /\ UNCHANGED <<recordMail, stale, memberVars, callVars, historyVars>>

\* Only the sender may retry; the handler goes straight on to send.
Retry(c, d) ==
    /\ pc[c] = "idle"
    /\ status[d] = "uncertain"
    /\ active /\ writer
    /\ retries[d] < MaxRetries
    /\ status' = [status EXCEPT ![d] = "prepared"]
    /\ retries' = [retries EXCEPT ![d] = @ + 1]
    /\ pc' = [pc EXCEPT ![c] = "claim"]
    /\ task' = [task EXCEPT ![c] = d]
    /\ UNCHANGED <<recordMail, stale, messages, memberVars, mailbox, claims>>

-----------------------------------------------------------------------------
(* The membership and the record.                                          *)

\* Deactivation settles the sender's deliveries in its own transaction, with
\* no evidence message.
Deactivate ==
    /\ active
    /\ active' = FALSE
    /\ status' = [d \in Deliveries |->
                    CASE status[d] = "prepared" -> "failed"
                      [] status[d] = "sending" -> "uncertain"
                      [] OTHER -> status[d]]
    /\ stale' = [d \in Deliveries |-> FALSE]
    /\ UNCHANGED <<recordMail, messages, writer, linked, callVars, historyVars>>

Reactivate ==
    /\ ~active
    /\ active' = TRUE
    /\ UNCHANGED <<rowVars, writer, linked, callVars, historyVars>>

ChangeRole ==
    /\ writer' = ~writer
    /\ UNCHANGED <<rowVars, active, linked, callVars, historyVars>>

ChangeRecord ==
    /\ recordMail
    /\ linked' = ~linked
    /\ UNCHANGED <<rowVars, active, writer, callVars, historyVars>>

-----------------------------------------------------------------------------
Call(c) ==
    \/ \E d \in Deliveries : Prepare(c, d) \/ Replay(c, d) \/ Retry(c, d)
    \/ Claim(c) \/ ClaimChanged(c) \/ ClaimStale(c) \/ ClaimNothing(c)
    \/ RefuseToSend(c) \/ CallProvider(c) \/ Answer(c)
    \/ Complete(c) \/ CompleteTwice(c) \/ CompleteFails(c)
    \/ Fail(c) \/ FailRefused(c)
    \/ Stop(c)

Next ==
    \/ \E c \in Calls : Call(c)
    \/ \E d \in Deliveries : Age(d) \/ Recover(d) \/ ConfirmSent(d) \/ MarkNotSent(d)
    \/ Deactivate \/ Reactivate \/ ChangeRole \/ ChangeRecord

Spec == Init /\ [][Next]_vars

-----------------------------------------------------------------------------
(* Properties.                                                             *)

\* The customer's timeline shows a delivery once and shows the truth: whichever
\* of a late answer, a second attempt, an operator and a deactivation settle
\* it, exactly one message is recorded when it is accepted, and the provider
\* took it then; none while it is open, and at most one when it failed.
OneRecordPerDelivery ==
    \A d \in Deliveries :
        /\ status[d] = "accepted" => messages[d] = 1 /\ mailbox[d] > 0
        /\ status[d] = "failed" => messages[d] <= 1
        /\ status[d] \notin Settled => messages[d] = 0

\* Nothing but a person's decision buys another provider call: however often
\* the request is replayed, cut off or recovered, a delivery is claimed at
\* most once more than it was explicitly retried.
OneClaimPerDecision == \A d \in Deliveries : claims[d] <= 1 + retries[d]

\* Recorded once and bought once, whatever happens to the requests.
DeliveredOnce == OneRecordPerDelivery /\ OneClaimPerDecision

\* A settled delivery stays as it is, and an answer that arrives after the
\* claim was declared uncertain never turns it into a failure: that is for
\* the people who look into the Sent folder.
KeepsSettled ==
    \A d \in Deliveries :
        /\ status[d] \in Settled => status'[d] = status[d]
        /\ status[d] = "uncertain" /\ status'[d] = "failed" => UNCHANGED callVars
LateAnswersDecideNothing == [][KeepsSettled]_vars

\* Time passes and the recovery pass runs; no request is assumed to go on.
Fairness ==
    /\ \A d \in Deliveries : WF_vars(Age(d))
    /\ \A d \in Deliveries : WF_vars(Recover(d))

FairSpec == Spec /\ Fairness

Claimed(d) == status[d] = "sending"

\* No claim blocks its record for ever: whatever becomes of the request that
\* holds it, it is settled or put before a person.
ClaimsSettle == \A d \in Deliveries : Claimed(d) ~> ~Claimed(d)

=============================================================================
