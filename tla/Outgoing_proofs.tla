-------------------------- MODULE Outgoing_proofs ---------------------------
(***************************************************************************)
(* What leaves a workspace is settled once: theorems about the parts of    *)
(* MCOutgoing that MailDeliveries, QuoteDeliveries and ExportJobs          *)
(* describe, for any number of deliveries, requests, quotes, customers,    *)
(* exports and workers.  Each part has a section: names for the variables  *)
(* it uses, its inductive invariant, a lemma for each kind of step, and    *)
(* its theorems.  E-mail and quotes are then shown to implement            *)
(* DeliveryPromise.  The last section puts the parts together.             *)
(***************************************************************************)
EXTENDS MCOutgoing, FiniteSetTheorems, TLAPS

-----------------------------------------------------------------------------
(* One-to-one e-mail: MailDeliveries.                                      *)

\* The names of its variables.
recordMail == v1
mailStatus == v2
mailStale == v3
messages == v4
senderActive == v5
writer == v6
linked == v7
callAt == v8
callTask == v9
mailbox == v10
claims == v11
retries == v12
USE DEF recordMail, mailStatus, mailStale, messages, senderActive, writer, linked, callAt,
        callTask, mailbox, claims, retries

\* An unclaimed delivery has a claim in hand: preparing it, or deciding to
\* retry it, bought exactly one.
ClaimInHand ==
    \A d \in Deliveries :
        /\ mailStatus[d] = "none" => claims[d] = 0
        /\ mailStatus[d] = "prepared" => claims[d] <= retries[d]

\* A request that holds the provider's acceptance is right about it.
MailAcceptanceIsTrue ==
    \A c \in Senders : callAt[c] = "accepted" => mailbox[callTask[c]] > 0

\* The inductive invariant: what the run checks, and what a claim in hand and an
\* answer in hand mean.
MailInv ==
    /\ M!TypeOK
    /\ M!OneRecordPerDelivery
    /\ M!OneClaimPerDecision
    /\ ClaimInHand
    /\ MailAcceptanceIsTrue

-----------------------------------------------------------------------------
\* The first state, before any delivery: nothing is recorded or claimed.
LEMMA MailStart == M!Init => MailInv
BY SMT DEF M!Init, MailInv, M!TypeOK, M!Statuses, M!Answers, M!Settled, M!OneRecordPerDelivery,
    M!OneClaimPerDecision, ClaimInHand, MailAcceptanceIsTrue

\* What a request does, statement by statement, keeps the invariant.
LEMMA MailCallKeeps ==
    ASSUME MailInv, NEW c \in Senders, M!Call(c)
    PROVE  MailInv'
<1> USE DEF MailInv, M!TypeOK, M!Statuses, M!Answers, M!Settled, M!OneRecordPerDelivery,
            M!OneClaimPerDecision, ClaimInHand, MailAcceptanceIsTrue, M!rowVars,
            M!memberVars, M!historyVars, M!Leave, M!Goto
<1>1. CASE \E d \in Deliveries : M!Prepare(c, d)
  BY <1>1, SMTT(30) DEF M!Prepare
<1>2. CASE \E d \in Deliveries : M!Replay(c, d)
  BY <1>2, SMTT(30) DEF M!Replay
<1>3. CASE \E d \in Deliveries : M!Retry(c, d)
  BY <1>3, SMTT(30) DEF M!Retry
<1>4. CASE M!Claim(c)
  BY <1>4, SMTT(30) DEF M!Claim
<1>5. CASE M!ClaimChanged(c)
  <2>1. /\ callAt[c] = "claim" /\ mailStatus[callTask[c]] = "prepared"
        /\ M!Reject(callTask[c]) /\ M!Leave(c)
        /\ UNCHANGED <<recordMail, mailStale, M!memberVars, M!historyVars>>
    BY <1>5, Zenon DEF M!ClaimChanged
  <2> QED
    BY <2>1, SMTT(30) DEF M!Reject
<1>6. CASE M!ClaimStale(c)
  BY <1>6, SMTT(30) DEF M!ClaimStale, M!Doubt
<1>7. CASE M!ClaimNothing(c)
  BY <1>7, SMTT(30) DEF M!ClaimNothing
<1>8. CASE M!RefuseToSend(c)
  BY <1>8, SMTT(30) DEF M!RefuseToSend
<1>9. CASE M!CallProvider(c)
  BY <1>9, SMTT(30) DEF M!CallProvider
<1>10. CASE M!Answer(c)
  BY <1>10, SMTT(30) DEF M!Answer
<1>11. CASE M!Complete(c)
  BY <1>11, SMTT(30) DEF M!Complete, M!Accept
<1>12. CASE M!CompleteTwice(c)
  BY <1>12, SMTT(30) DEF M!CompleteTwice
<1>13. CASE M!CompleteFails(c)
  BY <1>13, SMTT(30) DEF M!CompleteFails
<1>14. CASE M!Fail(c)
  BY <1>14, SMTT(30) DEF M!Fail, M!Reject, M!Doubt
<1>15. CASE M!FailRefused(c)
  BY <1>15, SMTT(30) DEF M!FailRefused
<1>16. CASE M!Stop(c)
  BY <1>16, SMTT(30) DEF M!Stop
<1> QED
  BY <1>1, <1>2, <1>3, <1>4, <1>5, <1>6, <1>7, <1>8, <1>9, <1>10, <1>11,
     <1>12, <1>13, <1>14, <1>15, <1>16 DEF M!Call

\* So does what happens to a delivery without a request.
LEMMA MailRowKeeps ==
    ASSUME MailInv, NEW d \in Deliveries,
           M!Age(d) \/ M!Recover(d) \/ M!ConfirmSent(d) \/ M!MarkNotSent(d)
    PROVE  MailInv'
<1> USE DEF MailInv, M!TypeOK, M!Statuses, M!Answers, M!Settled, M!OneRecordPerDelivery,
            M!OneClaimPerDecision, ClaimInHand, MailAcceptanceIsTrue, M!rowVars,
            M!memberVars, M!callVars, M!historyVars
<1>1. CASE M!Age(d)
  BY <1>1, SMTT(30) DEF M!Age
<1>2. CASE M!Recover(d)
  BY <1>2, SMTT(30) DEF M!Recover, M!Doubt
<1>3. CASE M!ConfirmSent(d)
  BY <1>3, SMTT(30) DEF M!ConfirmSent, M!Accept
<1>4. CASE M!MarkNotSent(d)
  BY <1>4, SMTT(30) DEF M!MarkNotSent, M!Reject
<1> QED
  BY <1>1, <1>2, <1>3, <1>4

\* So does what happens to the member and the record.
LEMMA MailMemberKeeps ==
    ASSUME MailInv, M!Deactivate \/ M!Reactivate \/ M!ChangeRole \/ M!ChangeRecord
    PROVE  MailInv'
<1> USE DEF MailInv, M!TypeOK, M!Statuses, M!Answers, M!Settled, M!OneRecordPerDelivery,
            M!OneClaimPerDecision, ClaimInHand, MailAcceptanceIsTrue, M!rowVars,
            M!memberVars, M!callVars, M!historyVars
<1>1. CASE M!Deactivate
  <2>1. /\ senderActive' = FALSE
        /\ mailStale' = [d \in Deliveries |-> FALSE]
        /\ UNCHANGED <<recordMail, messages, writer, linked, M!callVars, M!historyVars>>
    BY <1>1, Zenon DEF M!Deactivate
  <2>2. /\ mailStatus' \in [Deliveries -> M!Statuses]
        /\ \A d \in Deliveries :
            /\ mailStatus'[d] # "prepared"
            /\ \/ mailStatus'[d] = mailStatus[d]
               \/ mailStatus[d] = "prepared" /\ mailStatus'[d] = "failed"
               \/ mailStatus[d] = "sending" /\ mailStatus'[d] = "uncertain"
    BY <1>1, SMTT(30) DEF M!Deactivate
  <2>3. M!TypeOK'
    BY <2>1, <2>2
  <2>4. M!OneRecordPerDelivery' /\ M!OneClaimPerDecision' /\ ClaimInHand' /\ MailAcceptanceIsTrue'
    BY <2>1, <2>2, SMTT(30)
  <2> QED
    BY <2>3, <2>4
<1>2. CASE M!Reactivate
  BY <1>2, SMTT(30) DEF M!Reactivate
<1>3. CASE M!ChangeRole
  BY <1>3, SMTT(30) DEF M!ChangeRole
<1>4. CASE M!ChangeRecord
  <2>1. linked' \in BOOLEAN
    BY <1>4, Zenon DEF M!ChangeRecord
  <2>2. UNCHANGED <<M!rowVars, senderActive, writer, M!callVars, M!historyVars>>
    BY <1>4, Zenon DEF M!ChangeRecord
  <2> QED
    BY <2>1, <2>2
<1> QED
  BY <1>1, <1>2, <1>3, <1>4

\* Every step keeps the invariant, and so does no step.
LEMMA MailStepKeeps ==
    ASSUME MailInv, [M!Next]_M!vars
    PROVE  MailInv'
<1>1. CASE \E c \in Senders : M!Call(c)
  BY <1>1, MailCallKeeps
<1>2. CASE \E d \in Deliveries : M!Age(d) \/ M!Recover(d) \/ M!ConfirmSent(d) \/ M!MarkNotSent(d)
  BY <1>2, MailRowKeeps
<1>3. CASE M!Deactivate \/ M!Reactivate \/ M!ChangeRole \/ M!ChangeRecord
  BY <1>3, MailMemberKeeps
<1>4. CASE UNCHANGED M!vars
  BY <1>4 DEF M!vars, MailInv, M!TypeOK, M!Statuses, M!Answers, M!Settled,
     M!OneRecordPerDelivery, M!OneClaimPerDecision, ClaimInHand, MailAcceptanceIsTrue
<1> QED
  BY <1>1, <1>2, <1>3, <1>4 DEF M!Next

\* The inductive invariant of the protocol.
THEOREM MailInvariance == M!Spec => []MailInv
<1>1. M!Init => MailInv
  BY MailStart
<1>2. MailInv /\ [M!Next]_M!vars => MailInv'
  BY MailStepKeeps
<1> QED
  BY <1>1, <1>2, PTL DEF M!Spec

-----------------------------------------------------------------------------
\* However the requests of record e-mail and replies are replayed, cut off,
\* recovered or overtaken, an accepted delivery has exactly one message, which
\* the provider took, and is claimed once more than it was retried at most.
THEOREM DeliveriesAreRecordedOnce == M!Spec => []M!DeliveredOnce
<1>1. MailInv => M!DeliveredOnce
  BY DEF MailInv, M!DeliveredOnce
<1> QED
  BY <1>1, MailInvariance, PTL

\* One step never reopens a settled delivery, and no request turns one that
\* was declared uncertain into a failed one.
LEMMA StepKeepsSettled ==
    ASSUME M!TypeOK, M!Next
    PROVE  M!KeepsSettled
<1> USE DEF M!TypeOK, M!Statuses, M!Settled, M!KeepsSettled, M!rowVars, M!memberVars,
            M!historyVars, M!callVars, M!Leave, M!Goto, M!Accept, M!Reject, M!Doubt
<1>1. ASSUME NEW c \in Senders, M!Call(c)
      PROVE  M!KeepsSettled
  <2>1. CASE \E d \in Deliveries : M!Prepare(c, d) \/ M!Replay(c, d) \/ M!Retry(c, d)
    BY <2>1, SMTT(30) DEF M!Prepare, M!Replay, M!Retry
  <2>2. CASE M!Claim(c) \/ M!ClaimChanged(c) \/ M!ClaimStale(c) \/ M!ClaimNothing(c)
    BY <2>2, SMTT(30) DEF M!Claim, M!ClaimChanged, M!ClaimStale, M!ClaimNothing
  <2>3. CASE M!RefuseToSend(c) \/ M!CallProvider(c) \/ M!Answer(c) \/ M!Stop(c)
    BY <2>3, SMTT(30) DEF M!RefuseToSend, M!CallProvider, M!Answer, M!Stop
  <2>4. CASE M!Complete(c) \/ M!CompleteTwice(c) \/ M!CompleteFails(c)
    BY <2>4, SMTT(30) DEF M!Complete, M!CompleteTwice, M!CompleteFails
  <2>5. CASE M!Fail(c) \/ M!FailRefused(c)
    BY <2>5, SMTT(30) DEF M!Fail, M!FailRefused
  <2> QED
    BY <1>1, <2>1, <2>2, <2>3, <2>4, <2>5 DEF M!Call
<1>2. ASSUME NEW d \in Deliveries,
             M!Age(d) \/ M!Recover(d) \/ M!ConfirmSent(d) \/ M!MarkNotSent(d)
      PROVE  M!KeepsSettled
  BY <1>2, SMTT(30) DEF M!Age, M!Recover, M!ConfirmSent, M!MarkNotSent
<1>3. CASE M!Deactivate \/ M!Reactivate \/ M!ChangeRole \/ M!ChangeRecord
  BY <1>3, SMTT(30) DEF M!Deactivate, M!Reactivate, M!ChangeRole, M!ChangeRecord
<1> QED
  BY <1>1, <1>2, <1>3 DEF M!Next

\* Late answers decide nothing, in every behaviour.
THEOREM SettledMailStands == M!Spec => M!LateAnswersDecideNothing
<1>1. M!TypeOK /\ [M!Next]_M!vars => [M!KeepsSettled]_M!vars
  BY StepKeepsSettled
<1>2. MailInv => M!TypeOK
  BY DEF MailInv
<1> QED
  BY <1>1, <1>2, MailInvariance, PTL DEF M!Spec, M!LateAnswersDecideNothing

-----------------------------------------------------------------------------
(* What sending by hand promises: record e-mail and replies implement      *)
(* DeliveryPromise.                                                        *)

\* An accepted delivery was sent; the rest is named alike.  All of them are about
\* one record or thread.  A request holds a permit from its claim until the
\* provider answered or it stopped.
mailFate == [d \in Deliveries |-> IF mailStatus[d] = "accepted" THEN "sent" ELSE mailStatus[d]]
mailPermit == [c \in Senders |-> IF callAt[c] \in {"check", "send"} THEN callTask[c] ELSE None]
mailReached == {d \in Deliveries : mailbox[d] > 0}

MailPromise == INSTANCE DeliveryPromise WITH
    Callers <- Senders, Subjects <- {"record"}, Nothing <- None,
    fate <- mailFate, subject <- [d \in Deliveries |-> "record"],
    permit <- mailPermit, reached <- mailReached

\* A step of the mail protocol is a step of the promise, or none.
MailKept == [MailPromise!Next]_(MailPromise!vars)

\* What none of the three sees is no step of the promise.
LEMMA MailStands ==
    ASSUME UNCHANGED <<mailFate, mailPermit, mailReached>>
    PROVE  MailKept
BY DEF MailKept, MailPromise!vars

\* A row that is written becomes what was written, and no other does.
LEMMA MailBecomes ==
    ASSUME M!TypeOK, NEW d \in Deliveries, NEW x,
           mailStatus' = [mailStatus EXCEPT ![d] = x], mailbox' = mailbox
    PROVE  MailPromise!Become(d, IF x = "accepted" THEN "sent" ELSE x)
<1>1. mailFate' = [mailFate EXCEPT ![d] = IF x = "accepted" THEN "sent" ELSE x]
  <2>1. \A k \in Deliveries :
            mailFate'[k] = IF k = d THEN IF x = "accepted" THEN "sent" ELSE x ELSE mailFate[k]
    BY SMT DEF M!TypeOK, mailFate
  <2>2. /\ mailFate = [k \in Deliveries |-> mailFate[k]]
        /\ mailFate' = [k \in Deliveries |-> mailFate'[k]]
    BY SMT DEF mailFate
  <2> QED
    BY <2>1, <2>2, SMT
<1>2. mailReached' = mailReached
  BY DEF mailReached
<1> QED
  BY <1>1, <1>2, Zenon DEF MailPromise!Become

\* A request that is not about to call the provider holds no permit.
LEMMA MailPermitGone ==
    ASSUME M!TypeOK, NEW c \in Senders, NEW place, place \notin {"check", "send"},
           callAt' = [callAt EXCEPT ![c] = place],
           callTask' = callTask \/ \E t : callTask' = [callTask EXCEPT ![c] = t]
    PROVE  mailPermit' = [mailPermit EXCEPT ![c] = None]
<1>1. \A k \in Senders : mailPermit'[k] = IF k = c THEN None ELSE mailPermit[k]
  BY SMT DEF M!TypeOK, mailPermit
<1>2. /\ mailPermit = [k \in Senders |-> mailPermit[k]]
      /\ mailPermit' = [k \in Senders |-> mailPermit'[k]]
  BY SMT DEF mailPermit
<1> QED
  BY <1>1, <1>2, SMT

\* One that was not and is not changes no permit.
LEMMA MailPermitStays ==
    ASSUME M!TypeOK, NEW c \in Senders, NEW place, place \notin {"check", "send"},
           callAt[c] \notin {"check", "send"},
           callAt' = [callAt EXCEPT ![c] = place],
           callTask' = callTask \/ \E t : callTask' = [callTask EXCEPT ![c] = t]
    PROVE  mailPermit' = mailPermit
BY SMT DEF M!TypeOK, mailPermit

\* What may be written in a row, besides a claim: each is a step of the promise.
MayBecome(d, x) ==
    \/ /\ mailStatus[d] = "none" /\ x = "prepared"
       /\ \A other \in Deliveries : mailStatus[other] \notin M!Unresolved
    \/ mailStatus[d] \in {"prepared", "sending"} /\ x = "failed"
    \/ mailStatus[d] = "sending" /\ x = "uncertain"
    \/ mailStatus[d] = "uncertain" /\ x = "prepared"
    \/ mailStatus[d] = "uncertain" /\ x = "failed" /\ ~(mailbox[d] > 0)
    \/ mailStatus[d] \in {"sending", "uncertain"} /\ x = "accepted" /\ mailbox[d] > 0

\* A row that is written so keeps the promise.
LEMMA MailWritten ==
    ASSUME M!TypeOK, NEW d \in Deliveries, NEW x, MayBecome(d, x),
           mailStatus' = [mailStatus EXCEPT ![d] = x],
           UNCHANGED <<mailbox, mailPermit>>
    PROVE  MailKept
<1>1. MailPromise!Become(d, IF x = "accepted" THEN "sent" ELSE x)
  BY MailBecomes
<1>2. \A k \in Deliveries :
        mailFate[k] = IF mailStatus[k] = "accepted" THEN "sent" ELSE mailStatus[k]
  BY DEF mailFate
<1>3. \A k \in Deliveries : k \in mailReached <=> mailbox[k] > 0
  BY DEF mailReached
<1>4. MailPromise!Next
  <2>1. CASE /\ mailStatus[d] = "none" /\ x = "prepared"
             /\ \A other \in Deliveries : mailStatus[other] \notin M!Unresolved
    <3>1. mailFate[d] = "none"
      BY <1>2, <2>1
    <3>2. \A other \in Deliveries : mailFate[other] \notin MailPromise!Unresolved
      BY <1>2, <2>1 DEF M!Unresolved, MailPromise!Unresolved
    <3>3. mailFate' = [mailFate EXCEPT ![d] = "prepared"] /\ mailReached' = mailReached
      BY <1>1, <2>1 DEF MailPromise!Become
    <3>4. [k \in Deliveries |-> "record"] = [[k \in Deliveries |-> "record"] EXCEPT ![d] = "record"]
      BY SMT
    <3>5. MailPromise!Decide(d, "record")
      BY <3>1, <3>2, <3>3, <3>4, Zenon DEF MailPromise!Decide
    <3> QED
      BY <3>5, Zenon DEF MailPromise!Next
  <2>2. CASE mailStatus[d] \in {"prepared", "sending"} /\ x = "failed"
    <3>1. MailPromise!Refuse(d)
      BY <1>1, <1>2, <2>2 DEF MailPromise!Refuse
    <3> QED
      BY <3>1, Zenon DEF MailPromise!Next
  <2>3. CASE mailStatus[d] = "sending" /\ x = "uncertain"
    <3>1. MailPromise!Doubt(d)
      BY <1>1, <1>2, <2>3 DEF MailPromise!Doubt
    <3> QED
      BY <3>1, Zenon DEF MailPromise!Next
  <2>4. CASE mailStatus[d] = "uncertain" /\ x = "prepared"
    <3>1. MailPromise!Again(d)
      BY <1>1, <1>2, <2>4 DEF MailPromise!Again
    <3> QED
      BY <3>1, Zenon DEF MailPromise!Next
  <2>5. CASE mailStatus[d] = "uncertain" /\ x = "failed" /\ ~(mailbox[d] > 0)
    <3>1. MailPromise!GiveUp(d)
      BY <1>1, <1>2, <1>3, <2>5 DEF MailPromise!GiveUp
    <3> QED
      BY <3>1, Zenon DEF MailPromise!Next
  <2>6. CASE mailStatus[d] \in {"sending", "uncertain"} /\ x = "accepted" /\ mailbox[d] > 0
    <3>1. MailPromise!Accept(d)
      BY <1>1, <1>2, <1>3, <2>6 DEF MailPromise!Accept
    <3> QED
      BY <3>1, Zenon DEF MailPromise!Next
  <2> QED
    BY <2>1, <2>2, <2>3, <2>4, <2>5, <2>6, Zenon DEF MayBecome
<1> QED
  BY <1>4 DEF MailKept

\* A claim grants a permit.
LEMMA MailGranted ==
    ASSUME MailInv, NEW c \in Senders, M!Claim(c), None \notin Deliveries
    PROVE  MailKept
<1>1. PICK d \in Deliveries : d = callTask[c]
  BY DEF M!Claim, MailInv, M!TypeOK
<1>2. /\ callAt[c] = "claim" /\ mailStatus[d] = "prepared"
      /\ mailStatus' = [mailStatus EXCEPT ![d] = "sending"]
      /\ callAt' = [callAt EXCEPT ![c] = "check"]
      /\ UNCHANGED <<callTask, mailbox>>
  BY <1>1, Zenon DEF M!Claim, M!Goto
<1>3. MailPromise!Become(d, "sending")
  <2>1. MailPromise!Become(d, IF "sending" = "accepted" THEN "sent" ELSE "sending")
    BY <1>2, MailBecomes, Zenon DEF MailInv
  <2> QED
    BY <2>1
<1>4. mailFate[d] = "prepared" /\ mailPermit[c] = None
  BY <1>2 DEF mailFate, mailPermit
<1>5. mailPermit' = [mailPermit EXCEPT ![c] = d]
  <2>1. \A k \in Senders : mailPermit'[k] = IF k = c THEN d ELSE mailPermit[k]
    BY <1>1, <1>2, SMT DEF MailInv, M!TypeOK, mailPermit
  <2>2. /\ mailPermit = [k \in Senders |-> mailPermit[k]]
        /\ mailPermit' = [k \in Senders |-> mailPermit'[k]]
    BY SMT DEF mailPermit
  <2> QED
    BY <2>1, <2>2, SMT
<1>6. MailPromise!Grant(d, c)
  BY <1>3, <1>4, <1>5, Zenon DEF MailPromise!Grant
<1> QED
  BY <1>6, Zenon DEF MailPromise!Next, MailKept

\* A request that could have called the provider and no longer can used its
\* permit, whatever came of it.
LEMMA MailCalled ==
    ASSUME MailInv, NEW c \in Senders, None \notin Deliveries,
           callAt[c] \in {"check", "send"},
           NEW place, place \notin {"check", "send"},
           callAt' = [callAt EXCEPT ![c] = place],
           callTask' = callTask \/ \E t : callTask' = [callTask EXCEPT ![c] = t],
           mailStatus' = mailStatus,
           mailbox' = mailbox \/ mailbox' = [mailbox EXCEPT ![callTask[c]] = @ + 1]
    PROVE  MailKept
<1>1. PICK d \in Deliveries : d = callTask[c]
  BY DEF MailInv, M!TypeOK
<1>2. mailPermit[c] = d
  BY <1>1 DEF mailPermit
<1>3. mailPermit' = [mailPermit EXCEPT ![c] = None]
  BY MailPermitGone DEF MailInv
<1>4. mailReached' \in {mailReached, mailReached \cup {d}}
  <2>1. CASE mailbox' = mailbox
    BY <2>1 DEF mailReached
  <2>2. CASE mailbox' = [mailbox EXCEPT ![d] = @ + 1]
    <3>1. \A k \in Deliveries : mailbox'[k] > 0 <=> (mailbox[k] > 0 \/ k = d)
      BY <2>2, SMT DEF MailInv, M!TypeOK
    <3>2. mailReached' = mailReached \cup {d}
      BY <3>1 DEF mailReached
    <3> QED
      BY <3>2
  <2> QED
    BY <1>1, <2>1, <2>2
<1>5. mailFate' = mailFate
  BY DEF mailFate
<1>6. d # None
  OBVIOUS
<1>7. MailPromise!Call(c)
  BY <1>2, <1>3, <1>4, <1>5, <1>6, Zenon DEF MailPromise!Call
<1> QED
  BY <1>7, Zenon DEF MailPromise!Next, MailKept

\* The first state promises nothing yet.
LEMMA MailPromiseStart == ASSUME M!Init PROVE MailPromise!Init
<1>1. mailFate = [d \in Deliveries |-> "none"]
  BY SMT DEF M!Init, mailFate
<1>2. mailPermit = [c \in Senders |-> None]
  BY SMT DEF M!Init, mailPermit
<1>3. mailReached = {}
  BY SMT DEF M!Init, mailReached
<1>4. [d \in Deliveries |-> "record"] \in [Deliveries -> {"record"} \cup {None}]
  OBVIOUS
<1> QED
  BY <1>1, <1>2, <1>3, <1>4, Zenon DEF MailPromise!Init

\* Every step of a request keeps the promise.
LEMMA MailCallPromised ==
    ASSUME MailInv, NEW c \in Senders, M!Call(c), None \notin Deliveries
    PROVE  MailKept
<1> USE DEF M!rowVars, M!memberVars, M!historyVars, M!Leave, M!Goto
<1>0. M!TypeOK /\ MailAcceptanceIsTrue
  BY DEF MailInv
<1>t. ASSUME callAt[c] # "idle" PROVE callTask[c] \in Deliveries
  BY <1>0, <1>t DEF M!TypeOK
<1>s. ASSUME NEW place, place \notin {"check", "send"},
             callAt[c] \notin {"check", "send"},
             callAt' = [callAt EXCEPT ![c] = place],
             callTask' = callTask \/ \E t : callTask' = [callTask EXCEPT ![c] = t],
             UNCHANGED <<mailStatus, mailbox>>
      PROVE  MailKept
  <2>1. mailPermit' = mailPermit
    BY <1>0, <1>s, MailPermitStays
  <2>2. mailFate' = mailFate /\ mailReached' = mailReached
    BY <1>s DEF mailFate, mailReached
  <2> QED
    BY <2>1, <2>2, MailStands
<1>w. ASSUME NEW d \in Deliveries, NEW x, MayBecome(d, x),
             NEW place, place \notin {"check", "send"},
             callAt[c] \notin {"check", "send"},
             callAt' = [callAt EXCEPT ![c] = place],
             callTask' = callTask \/ \E t : callTask' = [callTask EXCEPT ![c] = t],
             mailStatus' = [mailStatus EXCEPT ![d] = x], mailbox' = mailbox
      PROVE  MailKept
  <2>1. mailPermit' = mailPermit
    BY <1>0, <1>w, MailPermitStays
  <2> QED
    BY <1>0, <1>w, <2>1, MailWritten
<1>1. ASSUME NEW d \in Deliveries, M!Prepare(c, d)
      PROVE  MailKept
  <2>1. /\ callAt[c] = "idle" /\ MayBecome(d, "prepared")
        /\ callAt' = [callAt EXCEPT ![c] = "claim"] /\ callTask' = [callTask EXCEPT ![c] = d]
        /\ mailStatus' = [mailStatus EXCEPT ![d] = "prepared"] /\ mailbox' = mailbox
    BY <1>1, Zenon DEF M!Prepare, MayBecome
  <2> QED
    BY <1>w, <2>1
<1>2. ASSUME NEW d \in Deliveries, M!Replay(c, d)
      PROVE  MailKept
  <2>1. /\ callAt[c] = "idle"
        /\ callAt' = [callAt EXCEPT ![c] = "claim"] /\ callTask' = [callTask EXCEPT ![c] = d]
        /\ UNCHANGED <<mailStatus, mailbox>>
    BY <1>2, Zenon DEF M!Replay
  <2> QED
    BY <1>s, <2>1
<1>3. ASSUME NEW d \in Deliveries, M!Retry(c, d)
      PROVE  MailKept
  <2>1. /\ callAt[c] = "idle" /\ MayBecome(d, "prepared")
        /\ callAt' = [callAt EXCEPT ![c] = "claim"] /\ callTask' = [callTask EXCEPT ![c] = d]
        /\ mailStatus' = [mailStatus EXCEPT ![d] = "prepared"] /\ mailbox' = mailbox
    BY <1>3, Zenon DEF M!Retry, MayBecome
  <2> QED
    BY <1>w, <2>1
<1>4. CASE M!Claim(c)
  BY <1>4, MailGranted
<1>5. CASE M!ClaimChanged(c)
  <2>1. /\ callAt[c] = "claim" /\ mailStatus[callTask[c]] = "prepared"
        /\ callAt' = [callAt EXCEPT ![c] = "idle"] /\ callTask' = [callTask EXCEPT ![c] = None]
        /\ mailStatus' = [mailStatus EXCEPT ![callTask[c]] = "failed"] /\ mailbox' = mailbox
    BY <1>5, Zenon DEF M!ClaimChanged, M!Reject
  <2>2. MayBecome(callTask[c], "failed")
    BY <2>1 DEF MayBecome
  <2> QED
    BY <1>t, <1>w, <2>1, <2>2
<1>6. CASE M!ClaimStale(c)
  <2>1. /\ callAt[c] = "claim" /\ mailStatus[callTask[c]] = "sending"
        /\ callAt' = [callAt EXCEPT ![c] = "idle"] /\ callTask' = [callTask EXCEPT ![c] = None]
        /\ mailStatus' = [mailStatus EXCEPT ![callTask[c]] = "uncertain"] /\ mailbox' = mailbox
    BY <1>6, Zenon DEF M!ClaimStale, M!Doubt
  <2>2. MayBecome(callTask[c], "uncertain")
    BY <2>1 DEF MayBecome
  <2> QED
    BY <1>t, <1>w, <2>1, <2>2
<1>7. CASE M!ClaimNothing(c)
  <2>1. /\ callAt[c] = "claim"
        /\ callAt' = [callAt EXCEPT ![c] = "idle"] /\ callTask' = [callTask EXCEPT ![c] = None]
        /\ UNCHANGED <<mailStatus, mailbox>>
    BY <1>7, Zenon DEF M!ClaimNothing
  <2> QED
    BY <1>s, <2>1
<1>8. CASE M!RefuseToSend(c)
  <2>1. /\ callAt[c] = "check" /\ callAt' = [callAt EXCEPT ![c] = "rejected"]
        /\ UNCHANGED <<callTask, mailStatus, mailbox>>
    BY <1>8, Zenon DEF M!RefuseToSend
  <2> QED
    BY <2>1, MailCalled
<1>9. CASE M!CallProvider(c)
  <2>1. /\ callAt[c] = "check" /\ callAt' = [callAt EXCEPT ![c] = "send"]
        /\ UNCHANGED <<callTask, mailStatus, mailbox>>
    BY <1>9, Zenon DEF M!CallProvider
  <2>2. mailPermit' = mailPermit
    BY <1>0, <2>1, SMT DEF M!TypeOK, mailPermit
  <2>3. mailFate' = mailFate /\ mailReached' = mailReached
    BY <2>1 DEF mailFate, mailReached
  <2> QED
    BY <2>2, <2>3, MailStands
<1>10. CASE M!Answer(c)
  <2>1. PICK answer \in M!Answers, got \in BOOLEAN :
          /\ callAt[c] = "send" /\ callAt' = [callAt EXCEPT ![c] = answer]
          /\ mailbox' = [mailbox EXCEPT ![callTask[c]] = IF got THEN @ + 1 ELSE @]
          /\ UNCHANGED <<callTask, mailStatus>>
    BY <1>10, Zenon DEF M!Answer
  <2>2. answer \notin {"check", "send"}
    BY DEF M!Answers
  <2>3. mailbox' = mailbox \/ mailbox' = [mailbox EXCEPT ![callTask[c]] = @ + 1]
    <3>1. CASE got
      BY <2>1, <3>1, Zenon
    <3>2. CASE ~got
      <4>1. mailbox' = [mailbox EXCEPT ![callTask[c]] = mailbox[callTask[c]]]
        BY <2>1, <3>2, Zenon
      <4> QED
        BY <1>0, <4>1, SMT DEF M!TypeOK
    <3> QED
      BY <3>1, <3>2
  <2> QED
    BY <2>1, <2>2, <2>3, MailCalled
<1>11. CASE M!Complete(c)
  <2>1. /\ callAt[c] = "accepted" /\ mailStatus[callTask[c]] \in {"sending", "uncertain"}
        /\ callAt' = [callAt EXCEPT ![c] = "idle"] /\ callTask' = [callTask EXCEPT ![c] = None]
        /\ mailStatus' = [mailStatus EXCEPT ![callTask[c]] = "accepted"] /\ mailbox' = mailbox
    BY <1>11, Zenon DEF M!Complete, M!Accept
  <2>2. MayBecome(callTask[c], "accepted")
    BY <1>0, <2>1 DEF MayBecome, MailAcceptanceIsTrue
  <2> QED
    BY <1>t, <1>w, <2>1, <2>2
<1>12. CASE M!CompleteTwice(c)
  <2>1. /\ callAt[c] = "accepted"
        /\ callAt' = [callAt EXCEPT ![c] = "idle"] /\ callTask' = [callTask EXCEPT ![c] = None]
        /\ UNCHANGED <<mailStatus, mailbox>>
    BY <1>12, Zenon DEF M!CompleteTwice
  <2> QED
    BY <1>s, <2>1
<1>13. CASE M!CompleteFails(c)
  <2>1. /\ callAt[c] = "accepted" /\ callAt' = [callAt EXCEPT ![c] = "unknown"]
        /\ UNCHANGED <<callTask, mailStatus, mailbox>>
    BY <1>13, Zenon DEF M!CompleteFails
  <2> QED
    BY <1>s, <2>1
<1>14. CASE M!Fail(c)
  <2>1. /\ callAt[c] \in {"rejected", "unknown"} /\ mailStatus[callTask[c]] = "sending"
        /\ callAt' = [callAt EXCEPT ![c] = "idle"] /\ callTask' = [callTask EXCEPT ![c] = None]
        /\ mailbox' = mailbox
    BY <1>14, Zenon DEF M!Fail
  <2>2. \E x \in {"failed", "uncertain"} : mailStatus' = [mailStatus EXCEPT ![callTask[c]] = x]
    BY <1>14 DEF M!Fail, M!Reject, M!Doubt
  <2>3. \A x \in {"failed", "uncertain"} : MayBecome(callTask[c], x)
    BY <2>1 DEF MayBecome
  <2> QED
    BY <1>t, <1>w, <2>1, <2>2, <2>3
<1>15. CASE M!FailRefused(c)
  <2>1. /\ callAt[c] \in {"rejected", "unknown"}
        /\ callAt' = [callAt EXCEPT ![c] = "idle"] /\ callTask' = [callTask EXCEPT ![c] = None]
        /\ UNCHANGED <<mailStatus, mailbox>>
    BY <1>15, Zenon DEF M!FailRefused
  <2> QED
    BY <1>s, <2>1
<1>16. CASE M!Stop(c)
  <2>1. /\ callAt' = [callAt EXCEPT ![c] = "idle"] /\ callTask' = [callTask EXCEPT ![c] = None]
        /\ UNCHANGED <<mailStatus, mailbox>>
    BY <1>16, Zenon DEF M!Stop
  <2>2. CASE callAt[c] \in {"check", "send"}
    BY <2>1, <2>2, MailCalled
  <2>3. CASE callAt[c] \notin {"check", "send"}
    BY <1>s, <2>1, <2>3
  <2> QED
    BY <2>2, <2>3
<1> QED
  BY <1>1, <1>2, <1>3, <1>4, <1>5, <1>6, <1>7, <1>8, <1>9, <1>10, <1>11, <1>12, <1>13, <1>14,
     <1>15, <1>16, Zenon DEF M!Call

\* So do recovery and the people who look.
LEMMA MailRowPromised ==
    ASSUME MailInv, NEW d \in Deliveries,
           M!Age(d) \/ M!Recover(d) \/ M!ConfirmSent(d) \/ M!MarkNotSent(d)
    PROVE  MailKept
<1>0. M!TypeOK
  BY DEF MailInv
<1>1. UNCHANGED <<callAt, callTask, mailbox>>
  BY Zenon DEF M!Age, M!Recover, M!ConfirmSent, M!MarkNotSent, M!callVars, M!historyVars
<1>2. mailPermit' = mailPermit
  BY <1>1 DEF mailPermit
<1>3. CASE M!Age(d)
  <2>1. mailFate' = mailFate /\ mailReached' = mailReached
    BY <1>1, <1>3 DEF M!Age, mailFate, mailReached
  <2> QED
    BY <1>2, <2>1, MailStands
<1>4. CASE M!Recover(d) \/ M!ConfirmSent(d) \/ M!MarkNotSent(d)
  <2>1. \E x : MayBecome(d, x) /\ mailStatus' = [mailStatus EXCEPT ![d] = x]
    <3>1. CASE M!Recover(d)
      <4>1. mailStatus[d] = "sending" /\ mailStatus' = [mailStatus EXCEPT ![d] = "uncertain"]
        BY <3>1, Zenon DEF M!Recover, M!Doubt
      <4> QED
        BY <4>1, Zenon DEF MayBecome
    <3>2. CASE M!ConfirmSent(d)
      <4>1. /\ mailStatus[d] = "uncertain" /\ mailbox[d] > 0
            /\ mailStatus' = [mailStatus EXCEPT ![d] = "accepted"]
        BY <3>2, Zenon DEF M!ConfirmSent, M!Accept
      <4>2. MayBecome(d, "accepted")
        BY <4>1 DEF MayBecome
      <4> QED
        BY <4>1, <4>2
    <3>3. CASE M!MarkNotSent(d)
      <4>1. /\ mailStatus[d] = "uncertain" /\ mailbox[d] = 0
            /\ mailStatus' = [mailStatus EXCEPT ![d] = "failed"]
        BY <3>3, Zenon DEF M!MarkNotSent, M!Reject
      <4>2. ~(mailbox[d] > 0)
        BY <4>1
      <4> QED
        BY <4>1, <4>2, Zenon DEF MayBecome
    <3> QED
      BY <1>4, <3>1, <3>2, <3>3
  <2> QED
    BY <1>0, <1>1, <1>2, <2>1, MailWritten
<1> QED
  BY <1>3, <1>4

\* So do the sender's membership, the role and the record.
LEMMA MailMemberPromised ==
    ASSUME MailInv, M!Deactivate \/ M!Reactivate \/ M!ChangeRole \/ M!ChangeRecord
    PROVE  MailKept
<1>1. UNCHANGED <<callAt, callTask, mailbox>>
  BY Zenon DEF M!Deactivate, M!Reactivate, M!ChangeRole, M!ChangeRecord, M!callVars, M!historyVars
<1>2. mailPermit' = mailPermit /\ mailReached' = mailReached
  BY <1>1 DEF mailPermit, mailReached
<1>3. CASE M!Deactivate
  <2>1. mailStatus' = [d \in Deliveries |->
                         CASE mailStatus[d] = "prepared" -> "failed"
                           [] mailStatus[d] = "sending" -> "uncertain"
                           [] OTHER -> mailStatus[d]]
    BY <1>3, Zenon DEF M!Deactivate
  <2>2. mailFate' = [d \in Deliveries |->
                       CASE mailFate[d] = "prepared" -> "failed"
                         [] mailFate[d] = "sending" -> "uncertain"
                         [] OTHER -> mailFate[d]]
    BY <2>1, SMTT(30) DEF mailFate
  <2>3. MailPromise!Withdraw
    BY <1>2, <2>2, Zenon DEF MailPromise!Withdraw
  <2> QED
    BY <2>3, Zenon DEF MailPromise!Next, MailKept
<1>4. CASE M!Reactivate \/ M!ChangeRole \/ M!ChangeRecord
  <2>1. mailStatus' = mailStatus
    BY <1>4, Zenon DEF M!Reactivate, M!ChangeRole, M!ChangeRecord, M!rowVars
  <2>2. mailFate' = mailFate
    BY <2>1 DEF mailFate
  <2> QED
    BY <1>2, <2>2, MailStands
<1> QED
  BY <1>3, <1>4

\* Every step keeps the promise, and so does no step.
LEMMA MailPromised ==
    ASSUME MailInv, [M!Next]_M!vars, None \notin Deliveries
    PROVE  MailKept
<1>1. CASE \E c \in Senders : M!Call(c)
  BY <1>1, MailCallPromised
<1>2. CASE \E d \in Deliveries : M!Age(d) \/ M!Recover(d) \/ M!ConfirmSent(d) \/ M!MarkNotSent(d)
  BY <1>2, MailRowPromised
<1>3. CASE M!Deactivate \/ M!Reactivate \/ M!ChangeRole \/ M!ChangeRecord
  BY <1>3, MailMemberPromised
<1>4. CASE UNCHANGED M!vars
  <2>1. UNCHANGED <<mailFate, mailPermit, mailReached>>
    BY <1>4 DEF M!vars, mailFate, mailPermit, mailReached
  <2> QED
    BY <2>1, MailStands
<1> QED
  BY <1>1, <1>2, <1>3, <1>4 DEF M!Next

\* Record e-mail and replies keep the promise: one unresolved delivery at a time,
\* one provider call per decision, however late, and an end that agrees with what
\* arrived and stands.
THEOREM MailKeepsPromise == M!Spec => MailPromise!Spec
<1>1. M!Init => MailPromise!Init
  BY MailPromiseStart
<1>2. MailInv /\ [M!Next]_M!vars => [MailPromise!Next]_(MailPromise!vars)
  BY OutgoingAssumption, MailPromised DEF MailKept
<1> QED
  BY <1>1, <1>2, MailInvariance, PTL DEF M!Spec, MailPromise!Spec

-----------------------------------------------------------------------------
(* How often a message can arrive.                                         *)

\* The requests that hold a permit for a delivery.
PermitHolders(d) == {c \in Senders : callAt[c] \in {"check", "send"} /\ callTask[c] = d}

\* What the provider took, and may yet take, was claimed.  They can be counted
\* because each claim adds one.
MailIsClaimed ==
    \A d \in Deliveries :
        /\ IsFiniteSet(PermitHolders(d))
        /\ mailbox[d] + Cardinality(PermitHolders(d)) <= claims[d]

\* Where nobody is claimed and nobody more holds a permit, the count stands.
LEMMA FewerHolders ==
    ASSUME MailInv, MailInv', MailIsClaimed,
           UNCHANGED <<mailbox, claims>>,
           \A c \in Senders : callAt'[c] \in {"check", "send"} =>
               callAt[c] \in {"check", "send"} /\ callTask'[c] = callTask[c]
    PROVE  MailIsClaimed'
<1>1. ASSUME NEW d \in Deliveries
      PROVE  /\ IsFiniteSet(PermitHolders(d)')
             /\ mailbox'[d] + Cardinality(PermitHolders(d)') <= claims'[d]
  <2>1. PermitHolders(d)' \subseteq PermitHolders(d)
    BY DEF PermitHolders
  <2>2. /\ IsFiniteSet(PermitHolders(d)) /\ IsFiniteSet(PermitHolders(d)')
        /\ Cardinality(PermitHolders(d)') <= Cardinality(PermitHolders(d))
    BY <2>1, FS_Subset DEF MailIsClaimed
  <2>3. Cardinality(PermitHolders(d)) \in Nat /\ Cardinality(PermitHolders(d)') \in Nat
    BY <2>2, FS_CardinalityType
  <2>4. mailbox[d] \in Nat /\ claims[d] \in Nat /\ mailbox'[d] = mailbox[d] /\ claims'[d] = claims[d]
    BY DEF MailInv, M!TypeOK
  <2>5. mailbox[d] + Cardinality(PermitHolders(d)) <= claims[d]
    BY DEF MailIsClaimed
  <2> QED
    BY <2>2, <2>3, <2>4, <2>5
<1> QED
  BY <1>1 DEF MailIsClaimed

\* A claim counts for the permit it grants.
LEMMA ClaimCounts ==
    ASSUME MailInv, MailInv', MailIsClaimed, NEW c \in Senders, M!Claim(c)
    PROVE  MailIsClaimed'
<1>1. PICK t \in Deliveries : t = callTask[c]
  BY DEF M!Claim, MailInv, M!TypeOK
<1>2. /\ callAt[c] = "claim" /\ callAt' = [callAt EXCEPT ![c] = "check"]
      /\ UNCHANGED <<callTask, mailbox>>
      /\ claims' = [claims EXCEPT ![t] = @ + 1]
  BY <1>1, Zenon DEF M!Claim, M!Goto
<1>3. ASSUME NEW d \in Deliveries
      PROVE  /\ IsFiniteSet(PermitHolders(d)')
             /\ mailbox'[d] + Cardinality(PermitHolders(d)') <= claims'[d]
  <2>1. mailbox[d] \in Nat /\ claims[d] \in Nat /\ mailbox'[d] = mailbox[d]
    BY <1>2 DEF MailInv, M!TypeOK
  <2>2. claims'[d] = IF d = t THEN claims[d] + 1 ELSE claims[d]
    BY <1>2 DEF MailInv, M!TypeOK
  <2>3. mailbox[d] + Cardinality(PermitHolders(d)) <= claims[d]
    BY DEF MailIsClaimed
  <2>4. Cardinality(PermitHolders(d)) \in Nat /\ IsFiniteSet(PermitHolders(d))
    BY FS_CardinalityType DEF MailIsClaimed
  <2>5. CASE d = t
    <3>1. PermitHolders(d)' = PermitHolders(d) \cup {c}
      BY <1>1, <1>2, <2>5 DEF PermitHolders, MailInv, M!TypeOK
    <3>2. /\ IsFiniteSet(PermitHolders(d)')
          /\ Cardinality(PermitHolders(d)') <= Cardinality(PermitHolders(d)) + 1
          /\ Cardinality(PermitHolders(d)') \in Nat
      <4>1. IsFiniteSet(PermitHolders(d)')
        BY <3>1, <2>4, FS_AddElement
      <4>2. Cardinality(PermitHolders(d)') \in Nat
        BY <4>1, FS_CardinalityType
      <4>3. Cardinality(PermitHolders(d)') <= Cardinality(PermitHolders(d)) + 1
        BY <3>1, <2>4, FS_AddElement
      <4> QED
        BY <4>1, <4>2, <4>3
    <3> QED
      BY <2>1, <2>2, <2>3, <2>4, <2>5, <3>2
  <2>6. CASE d # t
    <3>1. PermitHolders(d)' = PermitHolders(d)
      BY <1>1, <1>2, <2>6 DEF PermitHolders, MailInv, M!TypeOK
    <3> QED
      BY <2>1, <2>2, <2>3, <2>4, <2>6, <3>1
  <2> QED
    BY <2>5, <2>6
<1> QED
  BY <1>3 DEF MailIsClaimed

\* What the provider takes counts for the permit it uses.
LEMMA AnswerCounts ==
    ASSUME MailInv, MailInv', MailIsClaimed, NEW c \in Senders, M!Answer(c)
    PROVE  MailIsClaimed'
<1>1. PICK t \in Deliveries : t = callTask[c]
  BY DEF M!Answer, MailInv, M!TypeOK
<1>2. PICK answer \in M!Answers, got \in BOOLEAN :
        /\ callAt[c] = "send" /\ callAt' = [callAt EXCEPT ![c] = answer]
        /\ mailbox' = [mailbox EXCEPT ![t] = IF got THEN @ + 1 ELSE @]
        /\ UNCHANGED <<callTask, claims>>
  BY <1>1, Zenon DEF M!Answer, M!Goto
<1>3. ASSUME NEW d \in Deliveries
      PROVE  /\ IsFiniteSet(PermitHolders(d)')
             /\ mailbox'[d] + Cardinality(PermitHolders(d)') <= claims'[d]
  <2>1. mailbox[d] \in Nat /\ claims[d] \in Nat /\ claims'[d] = claims[d] /\ mailbox'[d] \in Nat
    BY <1>2 DEF MailInv, M!TypeOK
  <2>2. IF d = t THEN mailbox'[d] \in {mailbox[d], mailbox[d] + 1} ELSE mailbox'[d] = mailbox[d]
    BY <1>2, SMT DEF MailInv, M!TypeOK
  <2>3. mailbox[d] + Cardinality(PermitHolders(d)) <= claims[d]
    BY DEF MailIsClaimed
  <2>4. Cardinality(PermitHolders(d)) \in Nat /\ IsFiniteSet(PermitHolders(d))
    BY FS_CardinalityType DEF MailIsClaimed
  <2>5. CASE d = t
    <3>1. c \in PermitHolders(d) /\ PermitHolders(d)' = PermitHolders(d) \ {c}
      BY <1>1, <1>2, <2>5 DEF PermitHolders, MailInv, M!TypeOK, M!Answers
    <3>2. /\ IsFiniteSet(PermitHolders(d)')
          /\ Cardinality(PermitHolders(d)') = Cardinality(PermitHolders(d)) - 1
      BY <3>1, <2>4, FS_RemoveElement
    <3> QED
      BY <2>1, <2>2, <2>3, <2>4, <2>5, <3>2
  <2>6. CASE d # t
    <3>1. PermitHolders(d)' = PermitHolders(d)
      BY <1>1, <1>2, <2>6 DEF PermitHolders, MailInv, M!TypeOK, M!Answers
    <3> QED
      BY <2>1, <2>2, <2>3, <2>4, <2>6, <3>1
  <2> QED
    BY <2>5, <2>6
<1> QED
  BY <1>3 DEF MailIsClaimed

\* No other step calls or claims.
LEMMA MailIsClaimedStep ==
    ASSUME MailInv, MailInv', MailIsClaimed, [M!Next]_M!vars
    PROVE  MailIsClaimed'
<1> USE DEF M!rowVars, M!memberVars, M!callVars, M!historyVars, M!Leave, M!Goto
<1>0. M!TypeOK
  BY DEF MailInv
<1>1. ASSUME NEW c \in Senders, M!Call(c)
      PROVE  MailIsClaimed'
  <2>1. CASE M!Claim(c)
    BY <2>1, ClaimCounts
  <2>2. CASE M!Answer(c)
    BY <2>2, AnswerCounts
  <2>3. CASE /\ ~M!Claim(c) /\ ~M!Answer(c)
    <3>1. UNCHANGED <<mailbox, claims>>
      BY <1>1, <2>3, Zenon DEF M!Call, M!Prepare, M!Replay, M!Retry, M!ClaimChanged, M!ClaimStale,
         M!ClaimNothing, M!RefuseToSend, M!CallProvider, M!Complete, M!CompleteTwice,
         M!CompleteFails, M!Fail, M!FailRefused, M!Stop
    <3>2. CASE M!CallProvider(c)
      <4>1. /\ callAt[c] = "check" /\ callAt' = [callAt EXCEPT ![c] = "send"]
            /\ callTask' = callTask
        BY <3>2, Zenon DEF M!CallProvider
      <4>2. \A k \in Senders : callAt'[k] \in {"check", "send"} =>
               callAt[k] \in {"check", "send"} /\ callTask'[k] = callTask[k]
        BY <1>0, <4>1 DEF M!TypeOK
      <4> QED
        BY <3>1, <4>2, FewerHolders
    <3>3. CASE ~M!CallProvider(c)
      <4>1. /\ \E place : place \notin {"check", "send"} /\ callAt' = [callAt EXCEPT ![c] = place]
            /\ callTask' = callTask \/ \E t : callTask' = [callTask EXCEPT ![c] = t]
        <5>1. \E place \in {"idle", "claim", "rejected", "unknown"} :
                callAt' = [callAt EXCEPT ![c] = place]
          BY <1>1, <2>3, <3>3 DEF M!Call, M!Prepare, M!Replay, M!Retry, M!ClaimChanged,
             M!ClaimStale, M!ClaimNothing, M!RefuseToSend, M!Complete, M!CompleteTwice,
             M!CompleteFails, M!Fail, M!FailRefused, M!Stop
        <5>2. callTask' = callTask \/ \E t : callTask' = [callTask EXCEPT ![c] = t]
          BY <1>1, <2>3, <3>3, Zenon DEF M!Call, M!Prepare, M!Replay, M!Retry, M!ClaimChanged,
             M!ClaimStale, M!ClaimNothing, M!RefuseToSend, M!Complete, M!CompleteTwice,
             M!CompleteFails, M!Fail, M!FailRefused, M!Stop
        <5> QED
          BY <5>1, <5>2
      <4>2. \A k \in Senders : callAt'[k] \in {"check", "send"} =>
               callAt[k] \in {"check", "send"} /\ callTask'[k] = callTask[k]
        BY <1>0, <4>1 DEF M!TypeOK
      <4> QED
        BY <3>1, <4>2, FewerHolders
    <3> QED
      BY <3>2, <3>3
  <2> QED
    BY <2>1, <2>2, <2>3
<1>2. CASE UNCHANGED <<callAt, callTask, mailbox, claims>>
  BY <1>2, FewerHolders
<1>3. CASE \/ \E d \in Deliveries : M!Age(d) \/ M!Recover(d) \/ M!ConfirmSent(d) \/ M!MarkNotSent(d)
           \/ M!Deactivate \/ M!Reactivate \/ M!ChangeRole \/ M!ChangeRecord
  <2>1. UNCHANGED <<callAt, callTask, mailbox, claims>>
    BY <1>3, Zenon DEF M!Age, M!Recover, M!ConfirmSent, M!MarkNotSent, M!Deactivate,
       M!Reactivate, M!ChangeRole, M!ChangeRecord
  <2> QED
    BY <1>2, <2>1
<1>4. CASE UNCHANGED M!vars
  BY <1>2, <1>4 DEF M!vars
<1> QED
  BY <1>1, <1>3, <1>4, Zenon DEF M!Next

\* No customer finds a message more often than once, and once more for each
\* retry the sender asked for.
NoUnaskedMail == \A d \in Deliveries : mailbox[d] <= 1 + retries[d]

\* However the requests are replayed, cut off, recovered or overtaken, nobody
\* receives a record e-mail or a reply that nobody decided to send.
THEOREM MailIsAskedFor == M!Spec => []NoUnaskedMail
<1>1. ASSUME M!Init
      PROVE  MailIsClaimed
  <2>1. ASSUME NEW d \in Deliveries
        PROVE  mailbox[d] = 0 /\ claims[d] = 0 /\ PermitHolders(d) = {}
    BY <1>1, SMT DEF M!Init, PermitHolders
  <2> QED
    BY <2>1, FS_EmptySet DEF MailIsClaimed
<1>2. MailInv /\ MailInv' /\ MailIsClaimed /\ [M!Next]_M!vars => MailIsClaimed'
  BY MailIsClaimedStep
<1>3. ASSUME MailInv, MailIsClaimed
      PROVE  NoUnaskedMail
  <2>1. ASSUME NEW d \in Deliveries
        PROVE  mailbox[d] <= 1 + retries[d]
    <3>1. mailbox[d] \in Nat /\ claims[d] \in Nat /\ retries[d] \in Nat
      BY <1>3 DEF MailInv, M!TypeOK
    <3>2. Cardinality(PermitHolders(d)) \in Nat
      BY <1>3, FS_CardinalityType DEF MailIsClaimed
    <3>3. mailbox[d] + Cardinality(PermitHolders(d)) <= claims[d] /\ claims[d] <= 1 + retries[d]
      BY <1>3 DEF MailIsClaimed, MailInv, M!OneClaimPerDecision
    <3> QED
      BY <3>1, <3>2, <3>3
  <2> QED
    BY <2>1 DEF NoUnaskedMail
<1> QED
  BY <1>1, <1>2, <1>3, MailInvariance, PTL DEF M!Spec

-----------------------------------------------------------------------------
(* Quotes and their signatures: QuoteDeliveries.                           *)

\* The names of its variables.
approval == v1
age == v2
source == v3
quoteStatus == v4
quoteOf == v5
quoteStale == v6
signature == v7
converted == v8
deal == v9
senderHere == v10
requestAt == v11
requestTask == v12
signing == v13
arrived == v14
USE DEF approval, age, source, quoteStatus, quoteOf, quoteStale, signature, converted, deal,
        senderHere, requestAt, requestTask, signing, arrived

\* A delivery exists only of a quote that may be sent; review is not undone.
\* Before it exists it asks for nothing.
DeliveredWasReviewed ==
    \A d \in Deliveries :
        /\ quoteStatus[d] # "none" => approval[quoteOf[d]] \in Q!Sendable
        /\ quoteStatus[d] = "none" => signature[d] = "none"

\* Only an expired quote is replaced, and it stays expired.
ReplacedIsExpired == \A q \in Quotes : Q!Replaced(q) => age[q] # "valid"

\* A request that holds the provider's acceptance is right about it.
QuoteAcceptanceIsTrue == \A c \in Senders : requestAt[c] = "accepted" => requestTask[c] \in arrived

\* The inductive invariant: what the run checks, the review of what is delivered,
\* and that only an expired quote is replaced.
QuotesInv ==
    /\ Q!TypeOK
    /\ Q!DraftWhileUnresolved
    /\ Q!SignedWasDelivered
    /\ Q!ReplacedIsClosed
    /\ DeliveredWasReviewed
    /\ ReplacedIsExpired
    /\ QuoteAcceptanceIsTrue

-----------------------------------------------------------------------------
\* Before the first quote there is nothing to go wrong.
LEMMA QuotesStart ==
    ASSUME None \notin Quotes, Q!Init
    PROVE  QuotesInv
BY SMT DEF Q!Init, QuotesInv, Q!TypeOK, Q!DraftWhileUnresolved, Q!SignedWasDelivered,
    Q!ReplacedIsClosed, DeliveredWasReviewed, ReplacedIsExpired,
    QuoteAcceptanceIsTrue, Q!Unresolved, Q!OpenSignature, Q!Decided, Q!Sendable,
    Q!Replaced, Q!Delivering

\* What the sender's request does, statement by statement, keeps the invariant.
LEMMA QuoteCallKeeps ==
    ASSUME QuotesInv, NEW c \in Senders, Q!Call(c)
    PROVE  QuotesInv'
<1> USE DEF QuotesInv, Q!TypeOK, Q!DraftWhileUnresolved, Q!SignedWasDelivered,
            Q!ReplacedIsClosed, DeliveredWasReviewed, ReplacedIsExpired,
            QuoteAcceptanceIsTrue, Q!Unresolved, Q!OpenSignature, Q!Decided, Q!Sendable,
            Q!Replaced, Q!Delivering, Q!Exists, Q!quoteVars, Q!rowVars, Q!callVars,
            Q!Leave, Q!Goto, Q!Take
<1>1. CASE \E d \in Deliveries, q \in Quotes : Q!PrepareQuoteDelivery(c, d, q)
  BY <1>1, SMTT(30) DEF Q!PrepareQuoteDelivery
<1>2. CASE \E d \in Deliveries : Q!ReplayQuoteDelivery(c, d)
  BY <1>2, SMTT(30) DEF Q!ReplayQuoteDelivery
<1>3. CASE \E d \in Deliveries : Q!CheckRetry(c, d)
  BY <1>3, SMTT(30) DEF Q!CheckRetry
<1>4. CASE Q!ClaimQuoteDelivery(c)
  BY <1>4, SMTT(30) DEF Q!ClaimQuoteDelivery
<1>5. CASE Q!ClaimExpired(c)
  BY <1>5, SMTT(30) DEF Q!ClaimExpired, Q!VoidDraft
<1>6. CASE Q!ClaimStale(c)
  BY <1>6, SMTT(30) DEF Q!ClaimStale
<1>7. CASE Q!ClaimNothing(c)
  BY <1>7, SMTT(30) DEF Q!ClaimNothing
<1>8. CASE Q!Send(c)
  BY <1>8, SMTT(30) DEF Q!Send
<1>9. CASE Q!CompleteQuoteDelivery(c)
  BY <1>9, SMTT(30) DEF Q!CompleteQuoteDelivery, Q!Accept
<1>10. CASE Q!CompleteTwice(c)
  BY <1>10, SMTT(30) DEF Q!CompleteTwice
<1>11. CASE Q!CompleteFails(c)
  BY <1>11, SMTT(30) DEF Q!CompleteFails
<1>12. CASE Q!FailQuoteDelivery(c)
  BY <1>12, SMTT(30) DEF Q!FailQuoteDelivery, Q!VoidDraft
<1>13. CASE Q!FailRefused(c)
  BY <1>13, SMTT(30) DEF Q!FailRefused
<1>14. CASE Q!Retry(c)
  BY <1>14, SMTT(30) DEF Q!Retry
<1>15. CASE Q!RetryRefused(c)
  BY <1>15, SMTT(30) DEF Q!RetryRefused
<1>16. CASE Q!Stop(c)
  BY <1>16, SMTT(30) DEF Q!Stop
<1> QED
  BY <1>1, <1>2, <1>3, <1>4, <1>5, <1>6, <1>7, <1>8, <1>9, <1>10, <1>11, <1>12, <1>13, <1>14,
     <1>15, <1>16 DEF Q!Call

\* So do review, expiry and reissue of a quote.
LEMMA QuoteKeeps ==
    ASSUME QuotesInv, NEW q \in Quotes, Q!Quote(q)
    PROVE  QuotesInv'
<1> USE DEF QuotesInv, Q!TypeOK, Q!DraftWhileUnresolved, Q!SignedWasDelivered,
            Q!ReplacedIsClosed, DeliveredWasReviewed, ReplacedIsExpired,
            QuoteAcceptanceIsTrue, Q!Unresolved, Q!OpenSignature, Q!Decided, Q!Sendable,
            Q!Replaced, Q!Delivering, Q!Exists, Q!quoteVars, Q!rowVars, Q!callVars
<1>1. CASE Q!FinalizeQuote(q)
  BY <1>1, SMTT(30) DEF Q!FinalizeQuote
<1>2. CASE Q!DecideQuoteApproval(q)
  BY <1>2, SMTT(30) DEF Q!DecideQuoteApproval
<1>3. CASE Q!Expire(q)
  BY <1>3, SMTT(30) DEF Q!Expire
<1>4. CASE \E new \in Quotes : Q!ReissueExpiredQuote(q, new)
  BY <1>4, SMTT(30) DEF Q!ReissueExpiredQuote
<1> QED
  BY <1>1, <1>2, <1>3, <1>4 DEF Q!Quote

\* So do recovery, the people who resolve a delivery, and the customer's refusal.
LEMMA QuoteDeliveryKeeps ==
    ASSUME QuotesInv, NEW d \in Deliveries, Q!Delivery(d)
    PROVE  QuotesInv'
<1> USE DEF QuotesInv, Q!TypeOK, Q!DraftWhileUnresolved, Q!SignedWasDelivered,
            Q!ReplacedIsClosed, DeliveredWasReviewed, ReplacedIsExpired,
            QuoteAcceptanceIsTrue, Q!Unresolved, Q!OpenSignature, Q!Decided, Q!Sendable,
            Q!Replaced, Q!Delivering, Q!Exists, Q!quoteVars, Q!rowVars, Q!callVars
<1>1. CASE Q!Age(d)
  BY <1>1, SMTT(30) DEF Q!Age
<1>2. CASE Q!Recover(d)
  BY <1>2, SMTT(30) DEF Q!Recover
<1>3. CASE Q!ConfirmSent(d)
  BY <1>3, SMTT(30) DEF Q!ConfirmSent, Q!Accept
<1>4. CASE Q!MarkNotSent(d)
  BY <1>4, SMTT(30) DEF Q!MarkNotSent, Q!VoidDraft
<1>5. CASE Q!DeclinePublicQuote(d)
  BY <1>5, SMTT(30) DEF Q!DeclinePublicQuote
<1>6. CASE Q!VoidSignatureRequest(d)
  BY <1>6, SMTT(30) DEF Q!VoidSignatureRequest
<1>7. CASE Q!ConvertSignedQuoteToWon(d)
  <2>1. /\ deal' = FALSE
        /\ converted' = [converted EXCEPT ![d] = TRUE]
        /\ UNCHANGED <<Q!quoteVars, quoteStatus, quoteOf, quoteStale, signature, senderHere,
                       Q!callVars, signing, arrived>>
    BY <1>7, Zenon DEF Q!ConvertSignedQuoteToWon
  <2>2. Q!TypeOK'
    <3>1. deal' \in BOOLEAN /\ senderHere' \in BOOLEAN
      BY <2>1, Zenon
    <3>2. converted' \in [Deliveries -> BOOLEAN]
      BY <2>1
    <3> QED
      BY <2>1, <3>1, <3>2
  <2>3. Q!DraftWhileUnresolved' /\ Q!SignedWasDelivered' /\ Q!ReplacedIsClosed'
    BY <2>1, SMTT(30)
  <2>4. DeliveredWasReviewed' /\ ReplacedIsExpired' /\ QuoteAcceptanceIsTrue'
    BY <2>1, SMTT(30)
  <2> QED
    BY <2>2, <2>3, <2>4
<1> QED
  BY <1>1, <1>2, <1>3, <1>4, <1>5, <1>6, <1>7 DEF Q!Delivery

\* So does the signature.
LEMMA VisitorKeeps ==
    ASSUME QuotesInv, NEW v \in Visitors, Q!Visitor(v)
    PROVE  QuotesInv'
<1> USE DEF QuotesInv, Q!TypeOK, Q!DraftWhileUnresolved, Q!SignedWasDelivered,
            Q!ReplacedIsClosed, DeliveredWasReviewed, ReplacedIsExpired,
            QuoteAcceptanceIsTrue, Q!Unresolved, Q!OpenSignature, Q!Decided, Q!Sendable,
            Q!Replaced, Q!Delivering, Q!Exists, Q!quoteVars, Q!rowVars, Q!callVars
<1>1. CASE \E d \in Deliveries : Q!BeginSigning(v, d)
  BY <1>1, SMTT(30) DEF Q!BeginSigning
<1>2. CASE Q!SignPublicQuote(v)
  BY <1>2, SMTT(30) DEF Q!SignPublicQuote
<1>3. CASE Q!SignNothing(v)
  BY <1>3, SMTT(30) DEF Q!SignNothing
<1> QED
  BY <1>1, <1>2, <1>3 DEF Q!Visitor

\* So do the sender's membership and the deal's stage.
LEMMA QuoteMemberKeeps ==
    ASSUME QuotesInv, Q!Deactivate \/ Q!Reactivate \/ Q!MoveDealStage
    PROVE  QuotesInv'
<1> USE DEF QuotesInv, Q!TypeOK, Q!DraftWhileUnresolved, Q!SignedWasDelivered,
            Q!ReplacedIsClosed, DeliveredWasReviewed, ReplacedIsExpired,
            QuoteAcceptanceIsTrue, Q!Unresolved, Q!OpenSignature, Q!Decided, Q!Sendable,
            Q!Replaced, Q!Delivering, Q!Exists, Q!quoteVars, Q!rowVars, Q!callVars
<1>1. CASE Q!Deactivate
  <2>1. /\ senderHere' = FALSE
        /\ quoteStale' = [d \in Deliveries |-> FALSE]
        /\ UNCHANGED <<Q!quoteVars, quoteOf, converted, deal, Q!callVars, signing, arrived>>
    BY <1>1, Zenon DEF Q!Deactivate
  <2>2. /\ quoteStatus' \in [Deliveries -> Q!Unresolved \cup {"none", "sent", "failed"}]
        /\ \A d \in Deliveries :
            \/ quoteStatus[d] = "prepared" /\ quoteStatus'[d] = "failed"
            \/ quoteStatus[d] = "sending" /\ quoteStatus'[d] = "uncertain"
            \/ quoteStatus[d] \notin {"prepared", "sending"} /\ quoteStatus'[d] = quoteStatus[d]
    BY <1>1, SMTT(30) DEF Q!Deactivate
  <2>3. /\ signature' \in [Deliveries -> Q!Decided \cup {"none", "draft", "sent"}]
        /\ \A d \in Deliveries :
            \/ quoteStatus[d] = "prepared" /\ signature[d] = "draft" /\ signature'[d] = "voided"
            \/ ~(quoteStatus[d] = "prepared" /\ signature[d] = "draft") /\ signature'[d] = signature[d]
    BY <1>1, SMTT(30) DEF Q!Deactivate
  <2>4. Q!TypeOK'
    <3>1. deal' \in BOOLEAN /\ senderHere' \in BOOLEAN
      BY <2>1, Zenon
    <3>2. quoteStale' \in [Deliveries -> BOOLEAN]
      BY <2>1
    <3> QED
      BY <2>1, <2>2, <2>3, <3>1, <3>2
  <2>5. Q!DraftWhileUnresolved' /\ Q!SignedWasDelivered'
    BY <2>1, <2>2, <2>3, SMTT(30)
  <2>6. Q!ReplacedIsClosed'
    BY <2>1, <2>2, <2>3, SMTT(30)
  <2>7. DeliveredWasReviewed' /\ ReplacedIsExpired' /\ QuoteAcceptanceIsTrue'
    BY <2>1, <2>2, <2>3, SMTT(30)
  <2> QED
    BY <2>4, <2>5, <2>6, <2>7
<1>2. CASE Q!Reactivate
  BY <1>2, SMTT(30) DEF Q!Reactivate
<1>3. CASE Q!MoveDealStage
  BY <1>3, SMTT(30) DEF Q!MoveDealStage
<1> QED
  BY <1>1, <1>2, <1>3

\* Every step keeps the invariant, and so does no step.
LEMMA QuotesStepKeeps ==
    ASSUME QuotesInv, [Q!Next]_Q!vars
    PROVE  QuotesInv'
<1>1. CASE \E q \in Quotes : Q!Quote(q)
  BY <1>1, QuoteKeeps
<1>2. CASE \E c \in Senders : Q!Call(c)
  BY <1>2, QuoteCallKeeps
<1>3. CASE \E d \in Deliveries : Q!Delivery(d)
  BY <1>3, QuoteDeliveryKeeps
<1>4. CASE \E v \in Visitors : Q!Visitor(v)
  BY <1>4, VisitorKeeps
<1>5. CASE Q!Deactivate \/ Q!Reactivate \/ Q!MoveDealStage
  BY <1>5, QuoteMemberKeeps
<1>6. CASE UNCHANGED Q!vars
  BY <1>6 DEF Q!vars, QuotesInv, Q!TypeOK, Q!DraftWhileUnresolved, Q!SignedWasDelivered,
     Q!ReplacedIsClosed, DeliveredWasReviewed, ReplacedIsExpired,
     QuoteAcceptanceIsTrue, Q!Unresolved, Q!OpenSignature, Q!Decided, Q!Sendable,
     Q!Replaced, Q!Delivering
<1> QED
  BY <1>1, <1>2, <1>3, <1>4, <1>5, <1>6 DEF Q!Next

\* The inductive invariant of the protocol.
THEOREM QuotesInvariance ==
    ASSUME None \notin Quotes
    PROVE  Q!Spec => []QuotesInv
<1>1. Q!Init => QuotesInv
  BY QuotesStart
<1>2. QuotesInv /\ [Q!Next]_Q!vars => QuotesInv'
  BY QuotesStepKeeps
<1> QED
  BY <1>1, <1>2, PTL DEF Q!Spec

-----------------------------------------------------------------------------
\* A signature request opens, closes and gives way together with its delivery:
\* a draft exactly while the delivery is unresolved, open to the customer only
\* when it was delivered and reviewed, and never of a quote that was replaced.
THEOREM SignaturesFollowDeliveries ==
    ASSUME None \notin Quotes
    PROVE  Q!Spec => []Q!SignatureFollowsDelivery
<1>1. QuotesInv => Q!SignatureFollowsDelivery
  BY DEF QuotesInv, Q!SignatureFollowsDelivery
<1> QED
  BY <1>1, QuotesInvariance, PTL

\* One step never takes back what the customer decided, or a conversion.
LEMMA StepKeepsDecisions ==
    ASSUME QuotesInv, Q!Next
    PROVE  Q!KeepsDecisions
<1> USE DEF Q!KeepsDecisions, Q!Decided, QuotesInv, Q!TypeOK, DeliveredWasReviewed,
            Q!DraftWhileUnresolved, Q!Unresolved, Q!quoteVars, Q!rowVars, Q!callVars
<1>1. ASSUME NEW q \in Quotes, Q!Quote(q)
      PROVE  Q!KeepsDecisions
  BY <1>1, SMTT(30) DEF Q!Quote, Q!FinalizeQuote, Q!DecideQuoteApproval, Q!Expire,
     Q!ReissueExpiredQuote
<1>2. ASSUME NEW c \in Senders, Q!Call(c)
      PROVE  Q!KeepsDecisions
  <2> USE DEF Q!Leave, Q!Goto, Q!Take
  <2>1. CASE \E d \in Deliveries, q \in Quotes : Q!PrepareQuoteDelivery(c, d, q)
    BY <2>1, SMTT(30) DEF Q!PrepareQuoteDelivery
  <2>2. CASE \E d \in Deliveries : Q!ReplayQuoteDelivery(c, d) \/ Q!CheckRetry(c, d)
    BY <2>2, SMTT(30) DEF Q!ReplayQuoteDelivery, Q!CheckRetry
  <2>3. CASE Q!ClaimQuoteDelivery(c) \/ Q!ClaimExpired(c) \/ Q!ClaimStale(c) \/ Q!ClaimNothing(c)
    BY <2>3, SMTT(30) DEF Q!ClaimQuoteDelivery, Q!ClaimExpired, Q!ClaimStale, Q!ClaimNothing,
       Q!VoidDraft
  <2>4. CASE Q!CompleteQuoteDelivery(c) \/ Q!CompleteTwice(c) \/ Q!CompleteFails(c)
    BY <2>4, SMTT(30) DEF Q!CompleteQuoteDelivery, Q!CompleteTwice, Q!CompleteFails, Q!Accept
  <2>5. CASE Q!FailQuoteDelivery(c) \/ Q!FailRefused(c)
    BY <2>5, SMTT(30) DEF Q!FailQuoteDelivery, Q!FailRefused, Q!VoidDraft
  <2>6. CASE Q!Send(c) \/ Q!Retry(c) \/ Q!RetryRefused(c) \/ Q!Stop(c)
    BY <2>6, SMTT(30) DEF Q!Send, Q!Retry, Q!RetryRefused, Q!Stop
  <2> QED
    BY <1>2, <2>1, <2>2, <2>3, <2>4, <2>5, <2>6 DEF Q!Call
<1>3. ASSUME NEW d \in Deliveries, Q!Delivery(d)
      PROVE  Q!KeepsDecisions
  <2>1. CASE Q!Age(d) \/ Q!Recover(d) \/ Q!ConfirmSent(d) \/ Q!MarkNotSent(d)
    BY <2>1, SMTT(30) DEF Q!Age, Q!Recover, Q!ConfirmSent, Q!MarkNotSent, Q!Accept, Q!VoidDraft
  <2>2. CASE Q!DeclinePublicQuote(d) \/ Q!VoidSignatureRequest(d)
    BY <2>2, SMTT(30) DEF Q!DeclinePublicQuote, Q!VoidSignatureRequest
  <2>3. CASE Q!ConvertSignedQuoteToWon(d)
    BY <2>3, Zenon DEF Q!ConvertSignedQuoteToWon
  <2> QED
    BY <1>3, <2>1, <2>2, <2>3 DEF Q!Delivery
<1>4. ASSUME NEW v \in Visitors, Q!Visitor(v)
      PROVE  Q!KeepsDecisions
  BY <1>4, SMTT(30) DEF Q!Visitor, Q!BeginSigning, Q!SignPublicQuote, Q!SignNothing
<1>5. CASE Q!Deactivate \/ Q!Reactivate \/ Q!MoveDealStage
  BY <1>5, SMTT(30) DEF Q!Deactivate, Q!Reactivate, Q!MoveDealStage
<1> QED
  BY <1>1, <1>2, <1>3, <1>4, <1>5 DEF Q!Next

\* What the customer decided is final, in every behaviour.
THEOREM CustomerDecisionsStand ==
    ASSUME None \notin Quotes
    PROVE  Q!Spec => Q!DecisionsAreFinal
<1>1. QuotesInv /\ [Q!Next]_Q!vars => [Q!KeepsDecisions]_Q!vars
  BY StepKeepsDecisions
<1> QED
  BY <1>1, QuotesInvariance, PTL DEF Q!Spec, Q!DecisionsAreFinal

-----------------------------------------------------------------------------
(* Quotes implement DeliveryPromise.                                       *)

\* A quote's delivery keeps its names; the request that is sending it holds the
\* permit.
quotePermit == [c \in Senders |-> IF requestAt[c] = "send" THEN requestTask[c] ELSE None]

QuotePromise == INSTANCE DeliveryPromise WITH
    Callers <- Senders, Subjects <- Quotes, Nothing <- None,
    fate <- quoteStatus, subject <- quoteOf, permit <- quotePermit, reached <- arrived

\* A step of the quotes is a step of the promise, or none.
QuoteKept == [QuotePromise!Next]_(QuotePromise!vars)

\* What none of the four sees is no step of the promise.
LEMMA QuoteStands ==
    ASSUME UNCHANGED <<quoteStatus, quoteOf, quotePermit, arrived>>
    PROVE  QuoteKept
BY DEF QuoteKept, QuotePromise!vars

\* A request that is not sending holds no permit.
LEMMA QuotePermitGone ==
    ASSUME Q!TypeOK, NEW c \in Senders, NEW place, place # "send",
           requestAt' = [requestAt EXCEPT ![c] = place],
           requestTask' = requestTask \/ \E t : requestTask' = [requestTask EXCEPT ![c] = t]
    PROVE  quotePermit' = [quotePermit EXCEPT ![c] = None]
<1>1. \A k \in Senders : quotePermit'[k] = IF k = c THEN None ELSE quotePermit[k]
  BY SMT DEF Q!TypeOK, quotePermit
<1>2. /\ quotePermit = [k \in Senders |-> quotePermit[k]]
      /\ quotePermit' = [k \in Senders |-> quotePermit'[k]]
  BY SMT DEF quotePermit
<1> QED
  BY <1>1, <1>2, SMT

\* One that was not and is not changes no permit.
LEMMA QuotePermitStays ==
    ASSUME Q!TypeOK, NEW c \in Senders, NEW place, place # "send", requestAt[c] # "send",
           requestAt' = [requestAt EXCEPT ![c] = place],
           requestTask' = requestTask \/ \E t : requestTask' = [requestTask EXCEPT ![c] = t]
    PROVE  quotePermit' = quotePermit
BY SMT DEF Q!TypeOK, quotePermit

\* What may be written in an existing delivery, besides a claim.
QuoteMayBecome(d, x) ==
    \/ quoteStatus[d] \in {"prepared", "sending"} /\ x = "failed"
    \/ quoteStatus[d] = "sending" /\ x = "uncertain"
    \/ quoteStatus[d] = "uncertain" /\ x = "prepared"
    \/ quoteStatus[d] = "uncertain" /\ x = "failed" /\ d \notin arrived
    \/ quoteStatus[d] \in {"sending", "uncertain"} /\ x = "sent" /\ d \in arrived

\* Each is a step of the promise.
LEMMA QuoteWritten ==
    ASSUME NEW d \in Deliveries, NEW x, QuoteMayBecome(d, x),
           quoteStatus' = [quoteStatus EXCEPT ![d] = x],
           UNCHANGED <<quoteOf, quotePermit, arrived>>
    PROVE  QuoteKept
<1>1. QuotePromise!Become(d, x)
  BY Zenon DEF QuotePromise!Become
<1>2. CASE quoteStatus[d] \in {"prepared", "sending"} /\ x = "failed"
  <2>1. QuotePromise!Refuse(d)
    BY <1>1, <1>2 DEF QuotePromise!Refuse
  <2> QED
    BY <2>1, Zenon DEF QuotePromise!Next, QuoteKept
<1>3. CASE quoteStatus[d] = "sending" /\ x = "uncertain"
  <2>1. QuotePromise!Doubt(d)
    BY <1>1, <1>3 DEF QuotePromise!Doubt
  <2> QED
    BY <2>1, Zenon DEF QuotePromise!Next, QuoteKept
<1>4. CASE quoteStatus[d] = "uncertain" /\ x = "prepared"
  <2>1. QuotePromise!Again(d)
    BY <1>1, <1>4 DEF QuotePromise!Again
  <2> QED
    BY <2>1, Zenon DEF QuotePromise!Next, QuoteKept
<1>5. CASE quoteStatus[d] = "uncertain" /\ x = "failed" /\ d \notin arrived
  <2>1. QuotePromise!GiveUp(d)
    BY <1>1, <1>5 DEF QuotePromise!GiveUp
  <2> QED
    BY <2>1, Zenon DEF QuotePromise!Next, QuoteKept
<1>6. CASE quoteStatus[d] \in {"sending", "uncertain"} /\ x = "sent" /\ d \in arrived
  <2>1. QuotePromise!Accept(d)
    BY <1>1, <1>6 DEF QuotePromise!Accept
  <2> QED
    BY <2>1, Zenon DEF QuotePromise!Next, QuoteKept
<1> QED
  BY <1>2, <1>3, <1>4, <1>5, <1>6, Zenon DEF QuoteMayBecome

\* A claim grants a permit.
LEMMA QuoteGranted ==
    ASSUME QuotesInv, NEW c \in Senders, Q!ClaimQuoteDelivery(c)
    PROVE  QuoteKept
<1>1. PICK d \in Deliveries : d = requestTask[c]
  BY DEF Q!ClaimQuoteDelivery, QuotesInv, Q!TypeOK
<1>2. /\ requestAt[c] = "claim" /\ quoteStatus[d] = "prepared"
      /\ quoteStatus' = [quoteStatus EXCEPT ![d] = "sending"]
      /\ requestAt' = [requestAt EXCEPT ![c] = "send"]
      /\ UNCHANGED <<requestTask, quoteOf, arrived>>
  BY <1>1, Zenon DEF Q!ClaimQuoteDelivery, Q!Goto
<1>3. QuotePromise!Become(d, "sending")
  BY <1>2, Zenon DEF QuotePromise!Become
<1>4. quotePermit[c] = None
  BY <1>2 DEF quotePermit
<1>5. quotePermit' = [quotePermit EXCEPT ![c] = d]
  <2>1. \A k \in Senders : quotePermit'[k] = IF k = c THEN d ELSE quotePermit[k]
    BY <1>1, <1>2, SMT DEF QuotesInv, Q!TypeOK, quotePermit
  <2>2. /\ quotePermit = [k \in Senders |-> quotePermit[k]]
        /\ quotePermit' = [k \in Senders |-> quotePermit'[k]]
    BY SMT DEF quotePermit
  <2> QED
    BY <2>1, <2>2, SMT
<1>6. QuotePromise!Grant(d, c)
  BY <1>2, <1>3, <1>4, <1>5, Zenon DEF QuotePromise!Grant
<1> QED
  BY <1>6, Zenon DEF QuotePromise!Next, QuoteKept

\* A request that was sending and no longer is used its permit.
LEMMA QuoteCalled ==
    ASSUME QuotesInv, NEW c \in Senders, None \notin Deliveries,
           requestAt[c] = "send", NEW place, place # "send",
           requestAt' = [requestAt EXCEPT ![c] = place],
           requestTask' = requestTask \/ \E t : requestTask' = [requestTask EXCEPT ![c] = t],
           UNCHANGED <<quoteStatus, quoteOf>>,
           arrived' \in {arrived, arrived \cup {requestTask[c]}}
    PROVE  QuoteKept
<1>1. requestTask[c] \in Deliveries
  BY DEF QuotesInv, Q!TypeOK
<1>2. quotePermit[c] = requestTask[c] /\ quotePermit[c] # None
  BY <1>1 DEF quotePermit
<1>3. quotePermit' = [quotePermit EXCEPT ![c] = None]
  BY QuotePermitGone DEF QuotesInv
<1>4. QuotePromise!Call(c)
  BY <1>2, <1>3, Zenon DEF QuotePromise!Call
<1> QED
  BY <1>4, Zenon DEF QuotePromise!Next, QuoteKept

\* Before the first quote nothing is promised.
LEMMA QuotePromiseStart == ASSUME Q!Init PROVE QuotePromise!Init
<1>1. quotePermit = [c \in Senders |-> None]
  BY SMT DEF Q!Init, quotePermit
<1>2. quoteOf \in [Deliveries -> Quotes \cup {None}]
  BY DEF Q!Init
<1> QED
  BY <1>1, <1>2, Zenon DEF Q!Init, QuotePromise!Init

\* Every step of the sender's request keeps the promise.
LEMMA QuoteCallPromised ==
    ASSUME QuotesInv, NEW c \in Senders, Q!Call(c), None \notin Deliveries
    PROVE  QuoteKept
<1> USE DEF Q!quoteVars, Q!rowVars, Q!Leave, Q!Goto, Q!Take
<1>0. Q!TypeOK /\ QuoteAcceptanceIsTrue
  BY DEF QuotesInv
<1>t. ASSUME requestAt[c] # "idle" PROVE requestTask[c] \in Deliveries
  BY <1>0, <1>t DEF Q!TypeOK
<1>s. ASSUME NEW place, place # "send", requestAt[c] # "send",
             requestAt' = [requestAt EXCEPT ![c] = place],
             requestTask' = requestTask \/ \E t : requestTask' = [requestTask EXCEPT ![c] = t],
             UNCHANGED <<quoteStatus, quoteOf, arrived>>
      PROVE  QuoteKept
  BY <1>0, <1>s, QuotePermitStays, QuoteStands
<1>w. ASSUME NEW d \in Deliveries, NEW x, QuoteMayBecome(d, x),
             NEW place, place # "send", requestAt[c] # "send",
             requestAt' = [requestAt EXCEPT ![c] = place],
             requestTask' = requestTask \/ \E t : requestTask' = [requestTask EXCEPT ![c] = t],
             quoteStatus' = [quoteStatus EXCEPT ![d] = x], UNCHANGED <<quoteOf, arrived>>
      PROVE  QuoteKept
  BY <1>0, <1>w, QuotePermitStays, QuoteWritten
<1>1. ASSUME NEW d \in Deliveries, NEW q \in Quotes, Q!PrepareQuoteDelivery(c, d, q)
      PROVE  QuoteKept
  <2>1. /\ requestAt[c] = "idle" /\ quoteStatus[d] = "none"
        /\ ~Q!Delivering(q)
        /\ requestAt' = [requestAt EXCEPT ![c] = "claim"]
        /\ requestTask' = [requestTask EXCEPT ![c] = d]
        /\ quoteStatus' = [quoteStatus EXCEPT ![d] = "prepared"]
        /\ quoteOf' = [quoteOf EXCEPT ![d] = q]
        /\ arrived' = arrived
    BY <1>1, Zenon DEF Q!PrepareQuoteDelivery
  <2>2. quotePermit' = quotePermit
    BY <1>0, <2>1, QuotePermitStays
  <2>3. \A other \in Deliveries : quoteOf[other] = q => quoteStatus[other] \notin QuotePromise!Unresolved
    BY <2>1 DEF Q!Delivering, Q!Unresolved, QuotePromise!Unresolved
  <2>4. QuotePromise!Decide(d, q)
    BY <2>1, <2>2, <2>3, Zenon DEF QuotePromise!Decide
  <2> QED
    BY <2>4, Zenon DEF QuotePromise!Next, QuoteKept
<1>2. ASSUME NEW d \in Deliveries, Q!ReplayQuoteDelivery(c, d) \/ Q!CheckRetry(c, d)
      PROVE  QuoteKept
  <2>1. /\ requestAt[c] = "idle"
        /\ \E place \in {"claim", "retry"} : requestAt' = [requestAt EXCEPT ![c] = place]
        /\ requestTask' = [requestTask EXCEPT ![c] = d]
        /\ UNCHANGED <<quoteStatus, quoteOf, arrived>>
    BY <1>2 DEF Q!ReplayQuoteDelivery, Q!CheckRetry
  <2> QED
    BY <1>s, <2>1
<1>3. CASE Q!ClaimQuoteDelivery(c)
  BY <1>3, QuoteGranted
<1>4. CASE Q!ClaimExpired(c)
  <2>1. /\ requestAt[c] = "claim" /\ quoteStatus[requestTask[c]] = "prepared"
        /\ requestAt' = [requestAt EXCEPT ![c] = "idle"]
        /\ requestTask' = [requestTask EXCEPT ![c] = None]
        /\ quoteStatus' = [quoteStatus EXCEPT ![requestTask[c]] = "failed"]
        /\ UNCHANGED <<quoteOf, arrived>>
    BY <1>4, Zenon DEF Q!ClaimExpired
  <2>2. QuoteMayBecome(requestTask[c], "failed")
    BY <2>1 DEF QuoteMayBecome
  <2> QED
    BY <1>t, <1>w, <2>1, <2>2
<1>5. CASE Q!ClaimStale(c)
  <2>1. /\ requestAt[c] = "claim" /\ quoteStatus[requestTask[c]] = "sending"
        /\ requestAt' = [requestAt EXCEPT ![c] = "idle"]
        /\ requestTask' = [requestTask EXCEPT ![c] = None]
        /\ quoteStatus' = [quoteStatus EXCEPT ![requestTask[c]] = "uncertain"]
        /\ UNCHANGED <<quoteOf, arrived>>
    BY <1>5, Zenon DEF Q!ClaimStale
  <2>2. QuoteMayBecome(requestTask[c], "uncertain")
    BY <2>1 DEF QuoteMayBecome
  <2> QED
    BY <1>t, <1>w, <2>1, <2>2
<1>6. CASE Q!ClaimNothing(c) \/ Q!CompleteTwice(c) \/ Q!FailRefused(c) \/ Q!RetryRefused(c)
  <2>1. /\ requestAt[c] \in {"claim", "accepted", "rejected", "unknown", "retry"}
        /\ requestAt' = [requestAt EXCEPT ![c] = "idle"]
        /\ requestTask' = [requestTask EXCEPT ![c] = None]
        /\ UNCHANGED <<quoteStatus, quoteOf, arrived>>
    BY <1>6 DEF Q!ClaimNothing, Q!CompleteTwice, Q!FailRefused, Q!RetryRefused
  <2> QED
    BY <1>s, <2>1
<1>7. CASE Q!Send(c)
  <2>1. PICK answer \in {"accepted", "rejected", "unknown"} :
          /\ requestAt[c] = "send" /\ requestAt' = [requestAt EXCEPT ![c] = answer]
          /\ arrived' \in {arrived, arrived \cup {requestTask[c]}}
          /\ UNCHANGED <<requestTask, quoteStatus, quoteOf>>
    BY <1>7 DEF Q!Send
  <2> QED
    BY <2>1, QuoteCalled
<1>8. CASE Q!CompleteQuoteDelivery(c)
  <2>1. /\ requestAt[c] = "accepted" /\ quoteStatus[requestTask[c]] \in {"sending", "uncertain"}
        /\ requestAt' = [requestAt EXCEPT ![c] = "idle"]
        /\ requestTask' = [requestTask EXCEPT ![c] = None]
        /\ quoteStatus' = [quoteStatus EXCEPT ![requestTask[c]] = "sent"]
        /\ UNCHANGED <<quoteOf, arrived>>
    BY <1>8, Zenon DEF Q!CompleteQuoteDelivery, Q!Accept
  <2>2. QuoteMayBecome(requestTask[c], "sent")
    BY <1>0, <2>1 DEF QuoteMayBecome, QuoteAcceptanceIsTrue
  <2> QED
    BY <1>t, <1>w, <2>1, <2>2
<1>9. CASE Q!CompleteFails(c)
  <2>1. /\ requestAt[c] = "accepted" /\ requestAt' = [requestAt EXCEPT ![c] = "unknown"]
        /\ UNCHANGED <<requestTask, quoteStatus, quoteOf, arrived>>
    BY <1>9, Zenon DEF Q!CompleteFails
  <2> QED
    BY <1>s, <2>1
<1>10. CASE Q!FailQuoteDelivery(c)
  <2>1. /\ requestAt[c] \in {"rejected", "unknown"} /\ quoteStatus[requestTask[c]] = "sending"
        /\ requestAt' = [requestAt EXCEPT ![c] = "idle"]
        /\ requestTask' = [requestTask EXCEPT ![c] = None]
        /\ UNCHANGED <<quoteOf, arrived>>
    BY <1>10, Zenon DEF Q!FailQuoteDelivery
  <2>2. \E x \in {"failed", "uncertain"} : quoteStatus' = [quoteStatus EXCEPT ![requestTask[c]] = x]
    BY <1>10 DEF Q!FailQuoteDelivery
  <2>3. \A x \in {"failed", "uncertain"} : QuoteMayBecome(requestTask[c], x)
    BY <2>1 DEF QuoteMayBecome
  <2> QED
    BY <1>t, <1>w, <2>1, <2>2, <2>3
<1>11. CASE Q!Retry(c)
  <2>1. /\ requestAt[c] = "retry" /\ quoteStatus[requestTask[c]] = "uncertain"
        /\ requestAt' = [requestAt EXCEPT ![c] = "claim"]
        /\ quoteStatus' = [quoteStatus EXCEPT ![requestTask[c]] = "prepared"]
        /\ UNCHANGED <<requestTask, quoteOf, arrived>>
    BY <1>11, Zenon DEF Q!Retry
  <2>2. QuoteMayBecome(requestTask[c], "prepared")
    BY <2>1 DEF QuoteMayBecome
  <2> QED
    BY <1>t, <1>w, <2>1, <2>2
<1>12. CASE Q!Stop(c)
  <2>1. /\ requestAt' = [requestAt EXCEPT ![c] = "idle"]
        /\ requestTask' = [requestTask EXCEPT ![c] = None]
        /\ UNCHANGED <<quoteStatus, quoteOf, arrived>>
    BY <1>12, Zenon DEF Q!Stop
  <2>2. CASE requestAt[c] = "send"
    BY <2>1, <2>2, QuoteCalled
  <2>3. CASE requestAt[c] # "send"
    BY <1>s, <2>1, <2>3
  <2> QED
    BY <2>2, <2>3
<1> QED
  BY <1>1, <1>2, <1>3, <1>4, <1>5, <1>6, <1>7, <1>8, <1>9, <1>10, <1>11, <1>12, Zenon DEF Q!Call

\* So do recovery and the people who look; the customer and the deal see none
\* of it.
LEMMA QuoteDeliveryPromised ==
    ASSUME NEW d \in Deliveries, Q!Delivery(d)
    PROVE  QuoteKept
<1>1. UNCHANGED <<quoteOf, requestAt, requestTask, arrived>>
  BY Zenon DEF Q!Delivery, Q!Age, Q!Recover, Q!ConfirmSent, Q!MarkNotSent, Q!DeclinePublicQuote,
     Q!VoidSignatureRequest, Q!ConvertSignedQuoteToWon, Q!callVars
<1>2. quotePermit' = quotePermit
  BY <1>1 DEF quotePermit
<1>3. CASE Q!Recover(d)
  <2>1. quoteStatus[d] = "sending" /\ quoteStatus' = [quoteStatus EXCEPT ![d] = "uncertain"]
    BY <1>3, Zenon DEF Q!Recover
  <2>2. QuoteMayBecome(d, "uncertain")
    BY <2>1 DEF QuoteMayBecome
  <2> QED
    BY <1>1, <1>2, <2>1, <2>2, QuoteWritten
<1>4. CASE Q!ConfirmSent(d)
  <2>1. /\ quoteStatus[d] = "uncertain" /\ d \in arrived
        /\ quoteStatus' = [quoteStatus EXCEPT ![d] = "sent"]
    BY <1>4, Zenon DEF Q!ConfirmSent, Q!Accept
  <2>2. QuoteMayBecome(d, "sent")
    BY <2>1 DEF QuoteMayBecome
  <2> QED
    BY <1>1, <1>2, <2>1, <2>2, QuoteWritten
<1>5. CASE Q!MarkNotSent(d)
  <2>1. /\ quoteStatus[d] = "uncertain" /\ d \notin arrived
        /\ quoteStatus' = [quoteStatus EXCEPT ![d] = "failed"]
    BY <1>5, Zenon DEF Q!MarkNotSent
  <2>2. QuoteMayBecome(d, "failed")
    BY <2>1 DEF QuoteMayBecome
  <2> QED
    BY <1>1, <1>2, <2>1, <2>2, QuoteWritten
<1>6. CASE \/ Q!Age(d) \/ Q!DeclinePublicQuote(d) \/ Q!VoidSignatureRequest(d)
           \/ Q!ConvertSignedQuoteToWon(d)
  <2>1. quoteStatus' = quoteStatus
    BY <1>6, Zenon DEF Q!Age, Q!DeclinePublicQuote, Q!VoidSignatureRequest, Q!ConvertSignedQuoteToWon
  <2> QED
    BY <1>1, <1>2, <2>1, QuoteStands
<1> QED
  BY <1>3, <1>4, <1>5, <1>6, Zenon DEF Q!Delivery

\* The quote, its customer, the sender's membership and the deal.
LEMMA QuoteRestPromised ==
    ASSUME \/ \E q \in Quotes : Q!Quote(q)
           \/ \E v \in Visitors : Q!Visitor(v)
           \/ Q!Deactivate \/ Q!Reactivate \/ Q!MoveDealStage
    PROVE  QuoteKept
<1> USE DEF Q!quoteVars, Q!rowVars, Q!callVars
<1>1. UNCHANGED <<quoteOf, requestAt, requestTask, arrived>>
  BY Zenon DEF Q!Quote, Q!FinalizeQuote, Q!DecideQuoteApproval, Q!Expire, Q!ReissueExpiredQuote,
     Q!Visitor, Q!BeginSigning, Q!SignPublicQuote, Q!SignNothing, Q!Deactivate, Q!Reactivate,
     Q!MoveDealStage
<1>2. quotePermit' = quotePermit
  BY <1>1 DEF quotePermit
<1>3. CASE Q!Deactivate
  <2>1. QuotePromise!Withdraw
    BY <1>1, <1>2, <1>3, Zenon DEF Q!Deactivate, QuotePromise!Withdraw
  <2> QED
    BY <2>1, Zenon DEF QuotePromise!Next, QuoteKept
<1>4. CASE ~Q!Deactivate
  <2>1. quoteStatus' = quoteStatus
    BY <1>4, Zenon DEF Q!Quote, Q!FinalizeQuote, Q!DecideQuoteApproval, Q!Expire,
       Q!ReissueExpiredQuote, Q!Visitor, Q!BeginSigning, Q!SignPublicQuote, Q!SignNothing,
       Q!Reactivate, Q!MoveDealStage
  <2> QED
    BY <1>1, <1>2, <2>1, QuoteStands
<1> QED
  BY <1>3, <1>4

\* Every step keeps the promise, and so does no step.
LEMMA QuotePromised ==
    ASSUME QuotesInv, [Q!Next]_Q!vars, None \notin Deliveries
    PROVE  QuoteKept
<1>1. CASE \E c \in Senders : Q!Call(c)
  BY <1>1, QuoteCallPromised
<1>2. CASE \E d \in Deliveries : Q!Delivery(d)
  BY <1>2, QuoteDeliveryPromised
<1>3. CASE \/ \E q \in Quotes : Q!Quote(q)
           \/ \E v \in Visitors : Q!Visitor(v)
           \/ Q!Deactivate \/ Q!Reactivate \/ Q!MoveDealStage
  BY <1>3, QuoteRestPromised
<1>4. CASE UNCHANGED Q!vars
  <2>1. UNCHANGED <<quoteStatus, quoteOf, quotePermit, arrived>>
    BY <1>4 DEF Q!vars, quotePermit
  <2> QED
    BY <2>1, QuoteStands
<1> QED
  BY <1>1, <1>2, <1>3, <1>4, Zenon DEF Q!Next

\* The deliveries of quotes keep the same promise, quote by quote, whatever
\* review, expiry, reissue, the customer and the deal do meanwhile.
THEOREM QuotesKeepPromise == Q!Spec => QuotePromise!Spec
<1>1. Q!Init => QuotePromise!Init
  BY QuotePromiseStart
<1>2. QuotesInv /\ [Q!Next]_Q!vars => [QuotePromise!Next]_(QuotePromise!vars)
  BY OutgoingAssumption, QuotePromised DEF QuoteKept
<1>3. Q!Spec => []QuotesInv
  BY OutgoingAssumption, QuotesInvariance
<1> QED
  BY <1>1, <1>2, <1>3, PTL DEF Q!Spec, QuotePromise!Spec

-----------------------------------------------------------------------------
(* Exports: ExportJobs.                                                    *)

\* The names of its variables.
filtered == v1
exportStatus == v2
requester == v3
expires == v4
later == v5
adminActive == v6
jobPhase == v7
jobTries == v8
jobOwner == v9
withdrawn == v10
workerAt == v11
workerTask == v12
evicts == v13
replays == v14
USE DEF filtered, exportStatus, requester, expires, later, adminActive, jobPhase, jobTries,
        jobOwner, withdrawn, workerAt, workerTask, evicts, replays

\* A file that can be downloaded.
Usable(x) == exportStatus[x] = "ready" /\ expires[x] = "ahead"

\* The places of the handler from which the row is written as unfinished.
Unfinished == {"actor", "start", "build", "store", "too large", "interrupted", "inactive"}

\* The types of what the statements below read.
ExportsTyped ==
    /\ exportStatus \in [Exports -> E!Statuses]
    /\ expires \in [Exports -> {"unset", "ahead", "past"}]
    /\ requester \in [Exports -> Admins \cup {None}]
    /\ adminActive \in [Admins -> BOOLEAN]
    /\ jobPhase \in [Exports -> {"none", "waiting", "taken", "done", "failed"}]
    /\ withdrawn \in [Exports -> BOOLEAN]
    /\ workerAt \in [Workers -> {"idle"} \cup E!Calls \cup E!Verdicts]
    /\ workerTask \in [Workers -> Exports \cup {None}]

\* Whoever runs the handler runs it for a job that is taken.
JobInHand ==
    \A w \in Workers : workerAt[w] # "idle" => workerTask[w] \in Exports /\ jobPhase[workerTask[w]] = "taken"

\* Nobody else runs it for the same export.
AloneOnExport ==
    \A v, w \in Workers :
        v # w /\ workerAt[v] # "idle" /\ workerAt[w] # "idle" => workerTask[v] # workerTask[w]

\* An execution that goes on after its first look found nothing to download,
\* and there is nothing until it stores the file itself.
NothingToKeep == \A w \in Workers : workerAt[w] \in Unfinished => ~Usable(workerTask[w])

\* An execution reports success only when the file was there or is stored.
OkIsProduced ==
    \A w \in Workers : workerAt[w] = "ok" => exportStatus[workerTask[w]] \in {"ready", "expired"}

\* The inductive invariant of the exports.
ExportsInv ==
    /\ ExportsTyped
    /\ JobInHand
    /\ AloneOnExport
    /\ NothingToKeep
    /\ OkIsProduced
    /\ E!BlockerHasJob
    /\ E!SucceededMeansProduced

USE DEF E!Calls, E!Verdicts, E!Statuses, E!Generating, Unfinished

\* Before the first request there is nothing to go wrong.
LEMMA ExportsStart == ASSUME E!Init PROVE ExportsInv
BY SMT DEF E!Init, ExportsInv, ExportsTyped, JobInHand, AloneOnExport, NothingToKeep,
   OkIsProduced,
   Usable, E!BlockerHasJob, E!SucceededMeansProduced

\* A request inserts the row and its job together.
LEMMA ExportRequestKeeps ==
    ASSUME ExportsInv, NEW x \in Exports, NEW a \in Admins, E!Request(x, a)
    PROVE  ExportsInv'
<1> USE DEF ExportsInv
<1>1. /\ exportStatus[x] = "none"
      /\ exportStatus' = [exportStatus EXCEPT ![x] = "pending"]
      /\ requester' = [requester EXCEPT ![x] = a]
      /\ jobPhase[x] \in {"none", "failed"}
      /\ jobPhase' = [jobPhase EXCEPT ![x] = "waiting"]
      /\ UNCHANGED <<expires, adminActive, withdrawn, workerAt, workerTask>>
  BY DEF E!Request, E!Queue!Submit, E!workerVars
<1>2. ExportsTyped'
  BY <1>1 DEF ExportsTyped
<1>3. JobInHand' /\ AloneOnExport' /\ NothingToKeep' /\ OkIsProduced'
  <2>1. JobInHand'
    BY <1>1 DEF ExportsTyped, JobInHand
  <2>2. AloneOnExport'
    BY <1>1 DEF ExportsTyped, AloneOnExport
  <2>3. NothingToKeep'
    BY <1>1 DEF ExportsTyped, JobInHand, NothingToKeep, Usable
  <2>4. OkIsProduced'
    BY <1>1 DEF ExportsTyped, JobInHand, OkIsProduced
  <2> QED
    BY <2>1, <2>2, <2>3, <2>4
<1>4. E!BlockerHasJob' /\ E!SucceededMeansProduced'
  BY <1>1 DEF ExportsTyped, E!BlockerHasJob, E!SucceededMeansProduced
<1> QED
  BY <1>2, <1>3, <1>4

\* Deactivation fails the rows and withdraws their waiting jobs.
LEMMA ExportDisableKeeps ==
    ASSUME ExportsInv, NEW a \in Admins, E!Disable(a)
    PROVE  ExportsInv'
<1> USE DEF ExportsInv
<1> DEFINE failing == IF filtered THEN E!Quiesced(a) ELSE {}
           skipped == IF filtered THEN E!Skipped(a, failing) ELSE {}
<1>1. /\ adminActive' = [adminActive EXCEPT ![a] = FALSE]
      /\ exportStatus' = [x \in Exports |-> IF x \in failing THEN "failed" ELSE exportStatus[x]]
      /\ withdrawn' = [x \in Exports |-> x \in skipped \/ withdrawn[x]]
      /\ jobPhase' = [x \in Exports |-> IF x \in skipped THEN "done" ELSE jobPhase[x]]
      /\ UNCHANGED <<requester, expires, workerAt, workerTask>>
  BY Zenon DEF E!Disable, E!Queue!Withdraw, E!workerVars
<1>2. \A x \in Exports :
        /\ x \in failing => exportStatus[x] \in E!Generating
        /\ x \in skipped => jobPhase[x] = "waiting" /\ (x \in failing \/ exportStatus[x] = "failed")
  BY DEF E!Quiesced, E!Skipped
<1> HIDE DEF failing, skipped
<1>3. ExportsTyped'
  <2>1. adminActive' \in [Admins -> BOOLEAN] /\ withdrawn' \in [Exports -> BOOLEAN]
    BY <1>1, Zenon DEF ExportsTyped
  <2> QED
    BY <1>1, <2>1 DEF ExportsTyped
<1>4. JobInHand' /\ AloneOnExport' /\ NothingToKeep' /\ OkIsProduced'
  BY <1>1, <1>2 DEF ExportsTyped, JobInHand, AloneOnExport, NothingToKeep, OkIsProduced, Usable
<1>5. E!BlockerHasJob'
  BY <1>1, <1>2 DEF ExportsTyped, E!BlockerHasJob
<1>6. \A x \in Exports : x \in skipped => withdrawn'[x]
  BY <1>1, Zenon
<1>7. \A x \in Exports : withdrawn[x] => withdrawn'[x]
  BY <1>1, Zenon
<1>8. E!SucceededMeansProduced'
  BY <1>1, <1>2, <1>6, <1>7 DEF ExportsTyped, E!SucceededMeansProduced
<1> QED
  BY <1>3, <1>4, <1>5, <1>8

\* Reactivation touches no row.
LEMMA ExportReactivateKeeps ==
    ASSUME ExportsInv, NEW a \in Admins, E!Reactivate(a)
    PROVE  ExportsInv'
<1> USE DEF ExportsInv
<1>1. /\ adminActive' = [adminActive EXCEPT ![a] = TRUE]
      /\ UNCHANGED <<exportStatus, requester, expires, jobPhase, withdrawn, workerAt, workerTask>>
  BY DEF E!Reactivate, E!rowVars, E!jobVars, E!workerVars
<1>2. adminActive' \in [Admins -> BOOLEAN]
  BY <1>1, Zenon DEF ExportsTyped
<1> QED
  BY <1>1, <1>2 DEF ExportsTyped, JobInHand, AloneOnExport, NothingToKeep, OkIsProduced, Usable,
     E!BlockerHasJob, E!SucceededMeansProduced

\* Nor does the clock, and expiry ends what was ready or had failed.
LEMMA ExportExpiryKeeps ==
    ASSUME ExportsInv, NEW x \in Exports, E!ArtifactTTLPasses(x) \/ E!Expire(x)
    PROVE  ExportsInv'
<1> USE DEF ExportsInv
<1>1. /\ \/ exportStatus[x] \in {"ready", "failed"} /\ exportStatus' = [exportStatus EXCEPT ![x] = "expired"]
            /\ UNCHANGED expires
         \/ UNCHANGED exportStatus /\ expires' = [expires EXCEPT ![x] = "past"]
      /\ UNCHANGED <<requester, adminActive, jobPhase, withdrawn, workerAt, workerTask>>
  BY DEF E!ArtifactTTLPasses, E!Expire, E!jobVars, E!workerVars
<1>2. ExportsTyped'
  BY <1>1 DEF ExportsTyped
<1>3. JobInHand' /\ AloneOnExport' /\ NothingToKeep' /\ OkIsProduced'
  <2>1. JobInHand'
    BY <1>1 DEF ExportsTyped, JobInHand
  <2>2. AloneOnExport'
    BY <1>1 DEF ExportsTyped, AloneOnExport
  <2>3. NothingToKeep'
    BY <1>1 DEF ExportsTyped, JobInHand, NothingToKeep, Usable
  <2>4. OkIsProduced'
    BY <1>1 DEF ExportsTyped, JobInHand, OkIsProduced
  <2> QED
    BY <2>1, <2>2, <2>3, <2>4
<1>4. E!BlockerHasJob' /\ E!SucceededMeansProduced'
  BY <1>1 DEF ExportsTyped, E!BlockerHasJob, E!SucceededMeansProduced
<1> QED
  BY <1>2, <1>3, <1>4

\* The queue gives up a job that nobody runs, and an operator replays it.
LEMMA ExportLedgerKeeps ==
    ASSUME ExportsInv, NEW x \in Exports, E!GiveUp(x) \/ E!Replay(x)
    PROVE  ExportsInv'
<1> USE DEF ExportsInv
<1>1. /\ \/ jobPhase[x] = "taken" /\ jobPhase' = [jobPhase EXCEPT ![x] = "failed"]
            /\ \A w \in Workers : workerTask[w] # x
         \/ jobPhase[x] = "failed" /\ jobPhase' = [jobPhase EXCEPT ![x] = "waiting"]
      /\ UNCHANGED <<exportStatus, requester, expires, adminActive, withdrawn, workerAt, workerTask>>
  <2>1. CASE E!GiveUp(x)
    <3>1. /\ jobPhase[x] = "taken"
          /\ jobPhase' = [y \in Exports |-> IF y \in {x} THEN "failed" ELSE jobPhase[y]]
          /\ \A w \in Workers : workerTask[w] # x
          /\ UNCHANGED <<exportStatus, requester, expires, adminActive, withdrawn, workerAt, workerTask>>
      BY <2>1 DEF E!GiveUp, E!Queue!GiveUp, E!Queue!Spent, E!rowVars, E!workerVars
    <3>2. jobPhase' = [jobPhase EXCEPT ![x] = "failed"]
      BY <3>1 DEF ExportsTyped
    <3> QED
      BY <3>1, <3>2
  <2>2. CASE E!Replay(x)
    BY <2>2 DEF E!Replay, E!Queue!Submit, E!rowVars, E!workerVars
  <2> QED
    BY <2>1, <2>2
<1>2. ExportsTyped'
  BY <1>1 DEF ExportsTyped
<1>3. JobInHand' /\ AloneOnExport' /\ NothingToKeep' /\ OkIsProduced'
  <2>1. JobInHand'
    BY <1>1 DEF ExportsTyped, JobInHand
  <2>2. AloneOnExport'
    BY <1>1 DEF ExportsTyped, AloneOnExport
  <2>3. NothingToKeep'
    BY <1>1 DEF ExportsTyped, JobInHand, NothingToKeep, Usable
  <2>4. OkIsProduced'
    BY <1>1 DEF ExportsTyped, JobInHand, OkIsProduced
  <2> QED
    BY <2>1, <2>2, <2>3, <2>4
<1>4. E!BlockerHasJob' /\ E!SucceededMeansProduced'
  BY <1>1 DEF ExportsTyped, E!BlockerHasJob, E!SucceededMeansProduced
<1> QED
  BY <1>2, <1>3, <1>4

\* A worker takes a job that nobody else runs.
LEMMA ExportTakeKeeps ==
    ASSUME ExportsInv, NEW w \in Workers, NEW x \in Exports, E!Take(w, x)
    PROVE  ExportsInv'
<1> USE DEF ExportsInv
<1>1. /\ workerAt[w] = "idle" /\ \A v \in Workers : workerTask[v] # x
      /\ jobPhase[x] \in {"waiting", "taken"}
      /\ jobPhase' = [y \in Exports |-> IF y = x THEN "taken"
                                        ELSE IF y \in {} THEN "failed" ELSE jobPhase[y]]
      /\ workerAt' = [workerAt EXCEPT ![w] = "load"]
      /\ workerTask' = [workerTask EXCEPT ![w] = x]
      /\ UNCHANGED <<exportStatus, requester, expires, adminActive, withdrawn>>
  BY DEF E!Take, E!Goto, E!Queue!Take, E!rowVars
<1>2. ExportsTyped'
  BY <1>1 DEF ExportsTyped
<1>3. JobInHand' /\ AloneOnExport' /\ NothingToKeep' /\ OkIsProduced'
  <2>1. JobInHand'
    BY <1>1 DEF ExportsTyped, JobInHand
  <2>2. AloneOnExport'
    BY <1>1 DEF ExportsTyped, AloneOnExport
  <2>3. NothingToKeep'
    BY <1>1 DEF ExportsTyped, JobInHand, NothingToKeep, Usable
  <2>4. OkIsProduced'
    BY <1>1 DEF ExportsTyped, JobInHand, OkIsProduced
  <2> QED
    BY <2>1, <2>2, <2>3, <2>4
<1>4. E!BlockerHasJob' /\ E!SucceededMeansProduced'
  BY <1>1 DEF ExportsTyped, E!BlockerHasJob, E!SucceededMeansProduced
<1> QED
  BY <1>2, <1>3, <1>4

\* A step of the handler that only goes to another place keeps the invariant
\* if it may say there what it says.
LEMMA ExportMoveKeeps ==
    ASSUME ExportsInv, NEW w \in Workers, NEW p \in E!Calls \cup E!Verdicts,
           workerAt[w] # "idle",
           workerAt' = [workerAt EXCEPT ![w] = p],
           p \in Unfinished => ~Usable(workerTask[w]),
           p = "ok" => exportStatus[workerTask[w]] \in {"ready", "expired"},
           UNCHANGED <<exportStatus, requester, expires, adminActive, jobPhase, withdrawn, workerTask>>
    PROVE  ExportsInv'
<1> USE DEF ExportsInv
<1>2. ExportsTyped'
  BY DEF ExportsTyped
<1>3. JobInHand' /\ AloneOnExport' /\ NothingToKeep' /\ OkIsProduced'
  <2>1. JobInHand'
    BY DEF ExportsTyped, JobInHand
  <2>2. AloneOnExport'
    <3>1. \A v \in Workers : workerAt'[v] # "idle" => workerAt[v] # "idle"
      BY DEF ExportsTyped
    <3> QED
      BY <3>1 DEF AloneOnExport
  <2>3. NothingToKeep'
    BY DEF ExportsTyped, JobInHand, NothingToKeep, Usable
  <2>4. OkIsProduced'
    BY DEF ExportsTyped, JobInHand, OkIsProduced
  <2> QED
    BY <2>1, <2>2, <2>3, <2>4
<1>4. E!BlockerHasJob' /\ E!SucceededMeansProduced'
  BY DEF ExportsTyped, E!BlockerHasJob, E!SucceededMeansProduced
<1> QED
  BY <1>2, <1>3, <1>4

\* A look at the row or the requester, the work outside any transaction, the
\* statements before the commit, and a statement that fails.
LEMMA ExportLookKeeps ==
    ASSUME ExportsInv, NEW w \in Workers,
           E!Load(w) \/ E!CheckActor(w) \/ E!Build(w) \/ E!Store(w) \/ E!CallFails(w)
    PROVE  ExportsInv'
<1>1. UNCHANGED <<exportStatus, requester, expires, adminActive, jobPhase, withdrawn, workerTask>>
  BY DEF E!Load, E!CheckActor, E!Build, E!Store, E!CallFails, E!rowVars, E!jobVars
<1>2. \E p \in E!Calls \cup E!Verdicts :
        /\ workerAt[w] # "idle"
        /\ workerAt' = [workerAt EXCEPT ![w] = p]
        /\ p \in Unfinished => workerAt[w] \in Unfinished \/ ~Usable(workerTask[w])
        /\ p = "ok" => exportStatus[workerTask[w]] \in {"ready", "expired"}
  <2>1. CASE E!Load(w)
    <3>1. CASE exportStatus[workerTask[w]] = "ready" /\ expires[workerTask[w]] = "ahead"
      BY <2>1, <3>1 DEF E!Load, E!Goto
    <3>2. CASE ~(exportStatus[workerTask[w]] = "ready" /\ expires[workerTask[w]] = "ahead") /\ filtered
      <4>1. workerAt[w] = "load" /\ \E p \in {"actor"} : workerAt' = [workerAt EXCEPT ![w] = p]
        BY <2>1, <3>2 DEF E!Load, E!Goto
      <4> QED
        BY <3>2, <4>1 DEF Usable
    <3>3. CASE ~(exportStatus[workerTask[w]] = "ready" /\ expires[workerTask[w]] = "ahead") /\ ~filtered
      <4>1. workerAt[w] = "load" /\ \E p \in {"start"} : workerAt' = [workerAt EXCEPT ![w] = p]
        BY <2>1, <3>3 DEF E!Load, E!Goto
      <4> QED
        BY <3>3, <4>1 DEF Usable
    <3> QED
      BY <3>1, <3>2, <3>3
  <2>2. CASE E!CheckActor(w)
    <3>1. workerAt[w] = "actor" /\ \E p \in {"start", "inactive"} : workerAt' = [workerAt EXCEPT ![w] = p]
      BY <2>2 DEF E!CheckActor, E!Goto
    <3> QED
      BY <3>1
  <2>3. CASE E!Build(w)
    BY <2>3 DEF E!Build, E!Goto
  <2>4. CASE E!Store(w)
    <3>1. workerAt[w] = "store" /\ \E p \in {"commit", "inactive", "error"} : workerAt' = [workerAt EXCEPT ![w] = p]
      BY <2>4 DEF E!Store, E!Goto
    <3> QED
      BY <3>1
  <2>5. CASE E!CallFails(w)
    <3>1. /\ workerAt[w] \in E!Calls
          /\ \E p \in {"permanent", "error"} : workerAt' = [workerAt EXCEPT ![w] = p]
      BY <2>5 DEF E!CallFails, E!Goto
    <3> QED
      BY <3>1
  <2> QED
    BY <2>1, <2>2, <2>3, <2>4, <2>5
<1>3. workerAt[w] \in Unfinished => ~Usable(workerTask[w])
  BY DEF ExportsInv, NothingToKeep
<1> QED
  BY <1>1, <1>2, <1>3, ExportMoveKeeps

\* The row is written by whoever runs its job: as unfinished when there is
\* nothing to download, and as ready when the file is stored.
LEMMA ExportWriteKeeps ==
    ASSUME ExportsInv, NEW w \in Workers,
           E!MarkProcessing(w) \/ E!Commit(w) \/ E!RecordFailure(w)
    PROVE  ExportsInv'
<1> USE DEF ExportsInv
<1>0. /\ workerAt[w] # "idle"
      /\ workerTask[w] \in Exports /\ jobPhase[workerTask[w]] = "taken"
      /\ \A v \in Workers \ {w} : workerAt[v] # "idle" => workerTask[v] # workerTask[w]
  <2>1. workerAt[w] # "idle"
    BY DEF E!MarkProcessing, E!Commit, E!RecordFailure
  <2> QED
    BY <2>1 DEF JobInHand, AloneOnExport
<1>1. UNCHANGED <<requester, adminActive, jobPhase, withdrawn, workerTask>>
  BY DEF E!MarkProcessing, E!Commit, E!RecordFailure, E!jobVars
<1>2. /\ exportStatus' \in [Exports -> E!Statuses]
      /\ expires' \in [Exports -> {"unset", "ahead", "past"}]
      /\ \A y \in Exports \ {workerTask[w]} :
            /\ exportStatus'[y] # exportStatus[y] => exportStatus[y] = "ready" /\ exportStatus'[y] = "expired"
            /\ expires'[y] = expires[y]
  <2>1. CASE E!MarkProcessing(w)
    BY <1>0, <2>1 DEF E!MarkProcessing, ExportsTyped
  <2>2. CASE E!Commit(w)
    BY <1>0, <2>2 DEF E!Commit, ExportsTyped
  <2>3. CASE E!RecordFailure(w)
    BY <1>0, <2>3 DEF E!RecordFailure, ExportsTyped
  <2> QED
    BY <2>1, <2>2, <2>3
<1>3. PICK p \in E!Calls \cup E!Verdicts :
        /\ workerAt' = [workerAt EXCEPT ![w] = p]
        /\ p \in Unfinished => exportStatus'[workerTask[w]] # "ready"
        /\ p = "ok" => exportStatus'[workerTask[w]] = "ready"
  <2>1. CASE E!MarkProcessing(w)
    <3>1. \E p \in {"build", "error"} : workerAt' = [workerAt EXCEPT ![w] = p]
      BY <2>1 DEF E!MarkProcessing, E!Answer, E!Goto
    <3>2. exportStatus'[workerTask[w]] = "processing"
      BY <1>0, <2>1 DEF E!MarkProcessing, ExportsTyped
    <3> QED
      BY <3>1, <3>2
  <2>2. CASE E!Commit(w)
    BY <1>0, <2>2 DEF E!Commit, E!Answer, E!Goto, ExportsTyped
  <2>3. CASE E!RecordFailure(w)
    <3>1. \E p \in {"error", "permanent"} : workerAt' = [workerAt EXCEPT ![w] = p]
      BY <2>3 DEF E!RecordFailure, E!Goto
    <3> QED
      BY <3>1
  <2> QED
    BY <2>1, <2>2, <2>3
<1>4. ExportsTyped'
  BY <1>1, <1>2, <1>3 DEF ExportsTyped
<1>5. JobInHand' /\ AloneOnExport'
  BY <1>0, <1>1, <1>3 DEF ExportsTyped, JobInHand, AloneOnExport
<1>6. NothingToKeep' /\ OkIsProduced'
  <2>1. \A v \in Workers \ {w} : workerAt'[v] = workerAt[v] /\ workerTask'[v] = workerTask[v]
    BY <1>1, <1>3 DEF ExportsTyped
  <2>2. workerAt'[w] = p /\ workerTask'[w] = workerTask[w]
    BY <1>1, <1>3 DEF ExportsTyped
  <2>3. NothingToKeep'
    <3>1. ASSUME NEW v \in Workers \ {w}, workerAt[v] \in Unfinished
          PROVE  ~(exportStatus'[workerTask[v]] = "ready" /\ expires'[workerTask[v]] = "ahead")
      <4>1. workerTask[v] \in Exports \ {workerTask[w]} /\ ~Usable(workerTask[v])
        BY <1>0, <3>1 DEF JobInHand, NothingToKeep
      <4> QED
        BY <1>2, <4>1 DEF Usable
    <3>2. p \in Unfinished => exportStatus'[workerTask[w]] # "ready"
      BY <1>3
    <3> QED
      BY <2>1, <2>2, <3>1, <3>2 DEF NothingToKeep, Usable
  <2>4. OkIsProduced'
    <3>1. ASSUME NEW v \in Workers \ {w}, workerAt[v] = "ok"
          PROVE  exportStatus'[workerTask[v]] \in {"ready", "expired"}
      <4>1. workerTask[v] \in Exports \ {workerTask[w]} /\ exportStatus[workerTask[v]] \in {"ready", "expired"}
        BY <1>0, <3>1 DEF JobInHand, OkIsProduced
      <4> QED
        BY <1>2, <4>1
    <3>2. p = "ok" => exportStatus'[workerTask[w]] = "ready"
      BY <1>3
    <3> QED
      BY <2>1, <2>2, <3>1, <3>2 DEF OkIsProduced
  <2> QED
    BY <2>3, <2>4
<1>7. E!BlockerHasJob' /\ E!SucceededMeansProduced'
  BY <1>0, <1>1, <1>2 DEF ExportsTyped, E!BlockerHasJob, E!SucceededMeansProduced
<1> QED
  BY <1>4, <1>5, <1>6, <1>7

\* The verdict settles the job; a crash leaves it taken.
LEMMA ExportEndKeeps ==
    ASSUME ExportsInv, NEW w \in Workers, E!Settle(w) \/ E!Crash(w)
    PROVE  ExportsInv'
<1> USE DEF ExportsInv
<1>1. /\ workerAt[w] # "idle"
      /\ workerAt' = [workerAt EXCEPT ![w] = "idle"]
      /\ workerTask' = [workerTask EXCEPT ![w] = None]
      /\ UNCHANGED <<exportStatus, requester, expires, adminActive, withdrawn>>
  BY DEF E!Settle, E!Crash, E!BackToIdle, E!Goto, E!rowVars
<1>2. /\ workerTask[w] \in Exports
      /\ \A v \in Workers \ {w} : workerAt[v] # "idle" => workerTask[v] # workerTask[w]
  BY <1>1 DEF JobInHand, AloneOnExport
<1>3. /\ jobPhase' \in [Exports -> {"none", "waiting", "taken", "done", "failed"}]
      /\ \A y \in Exports \ {workerTask[w]} : jobPhase'[y] = jobPhase[y]
      /\ \/ jobPhase'[workerTask[w]] \in {"waiting", "failed", "taken"}
         \/ jobPhase'[workerTask[w]] = "done" /\ workerAt[w] = "ok"
  <2>1. CASE E!Settle(w)
    <3>0. workerAt[w] \in E!Verdicts
      BY <2>1 DEF E!Settle
    <3>1. PICK p \in {"done", "failed", "waiting"} : jobPhase' = [jobPhase EXCEPT ![workerTask[w]] = p]
      BY <2>1 DEF E!Settle, E!Queue!Settle
    <3>2. jobPhase'[workerTask[w]] = "done" => workerAt[w] = "ok"
      <4>1. jobPhase'[workerTask[w]] =
               CASE workerAt[w] = "ok" -> "done"
                 [] workerAt[w] = "permanent" -> "failed"
                 [] workerAt[w] = "error" -> IF jobTries[workerTask[w]] < MaxAttempts THEN "waiting" ELSE "failed"
        BY <2>1 DEF E!Settle
      <4> QED
        BY <3>0, <4>1
    <3> QED
      BY <1>2, <3>1, <3>2 DEF ExportsTyped
  <2>2. CASE E!Crash(w)
    BY <1>1, <2>2 DEF E!Crash, E!Queue!WalkAway, ExportsTyped, JobInHand
  <2> QED
    BY <2>1, <2>2
<1>4. ExportsTyped'
  BY <1>1, <1>3 DEF ExportsTyped
<1>5. JobInHand' /\ AloneOnExport'
  <2>1. workerAt'[w] = "idle" /\ \A v \in Workers \ {w} : workerAt'[v] = workerAt[v] /\ workerTask'[v] = workerTask[v]
    BY <1>1 DEF ExportsTyped
  <2>2. JobInHand'
    BY <1>2, <1>3, <2>1 DEF JobInHand
  <2>3. AloneOnExport'
    BY <2>1 DEF AloneOnExport
  <2> QED
    BY <2>2, <2>3
<1>6. NothingToKeep' /\ OkIsProduced'
  BY <1>1 DEF ExportsTyped, NothingToKeep, OkIsProduced, Usable
<1>7. E!BlockerHasJob' /\ E!SucceededMeansProduced'
  BY <1>1, <1>2, <1>3 DEF ExportsTyped, OkIsProduced, E!BlockerHasJob, E!SucceededMeansProduced
<1> QED
  BY <1>4, <1>5, <1>6, <1>7

\* Every step keeps the invariant, and so does no step.
LEMMA ExportsStep == ASSUME ExportsInv, [E!Next]_E!vars PROVE ExportsInv'
<1>1. CASE UNCHANGED E!vars
  BY <1>1 DEF E!vars, E!rowVars, ExportsInv, ExportsTyped, JobInHand, AloneOnExport,
     NothingToKeep,
     OkIsProduced, Usable, E!BlockerHasJob, E!SucceededMeansProduced
<1>2. CASE \E x \in Exports, a \in Admins : E!Request(x, a)
  BY <1>2, ExportRequestKeeps
<1>3. CASE \E a \in Admins : E!Disable(a) \/ E!Reactivate(a)
  BY <1>3, ExportDisableKeeps, ExportReactivateKeeps
<1>4. CASE \E x \in Exports : E!ArtifactTTLPasses(x) \/ E!Expire(x) \/ E!GiveUp(x) \/ E!Replay(x)
  BY <1>4, ExportExpiryKeeps, ExportLedgerKeeps
<1>5. CASE \E w \in Workers : (\E x \in Exports : E!Take(w, x)) \/ E!HandlerStep(w) \/ E!Crash(w)
  BY <1>5, ExportTakeKeeps, ExportLookKeeps, ExportWriteKeeps, ExportEndKeeps DEF E!HandlerStep
<1> QED
  BY <1>1, <1>2, <1>3, <1>4, <1>5 DEF E!Next

\* The inductive invariant of the exports, in every behaviour.
LEMMA ExportsInvariance == E!Spec => []ExportsInv
<1>1. E!Init => ExportsInv
  BY ExportsStart
<1>2. ExportsInv /\ [E!Next]_E!vars => ExportsInv'
  BY ExportsStep
<1> QED
  BY <1>1, <1>2, PTL DEF E!Spec

\* An export that refuses new requests has a job that will run or that an
\* administrator can replay, and a job that succeeded produced its file.
THEOREM ExportsAreAccountedFor == E!Spec => []E!ExportsAccounted
<1>1. ExportsInv => E!ExportsAccounted
  BY DEF ExportsInv, E!ExportsAccounted
<1> QED
  BY <1>1, ExportsInvariance, PTL

\* The rest of the types of the module.
ExportsRest ==
    /\ filtered \in BOOLEAN
    /\ later \subseteq Exports \X Exports
    /\ jobTries \in [Exports -> Nat]
    /\ jobOwner \in [Exports -> Workers \cup {None}]
    /\ evicts \in [Workers -> SUBSET Exports]
    /\ replays \in [Exports -> Nat]

\* What members and the clock do to them.
LEMMA ExportRowRest ==
    ASSUME ExportsRest,
           \/ \E x \in Exports, a \in Admins : E!Request(x, a)
           \/ \E a \in Admins : E!Disable(a) \/ E!Reactivate(a)
           \/ \E x \in Exports : E!ArtifactTTLPasses(x) \/ E!Expire(x)
    PROVE  ExportsRest'
<1>1. ASSUME NEW x \in Exports, NEW a \in Admins, E!Request(x, a) PROVE ExportsRest'
  BY <1>1 DEF E!Request, E!Queue!Submit, E!workerVars, ExportsRest
<1>2. ASSUME NEW a \in Admins, E!Disable(a) \/ E!Reactivate(a) PROVE ExportsRest'
  <2>1. UNCHANGED <<filtered, later, jobTries, jobOwner, evicts, replays>>
    BY <1>2, Zenon DEF E!Disable, E!Reactivate, E!Queue!Withdraw, E!rowVars, E!jobVars, E!workerVars
  <2> QED
    BY <2>1 DEF ExportsRest
<1>3. ASSUME NEW x \in Exports, E!ArtifactTTLPasses(x) \/ E!Expire(x) PROVE ExportsRest'
  BY <1>3 DEF E!ArtifactTTLPasses, E!Expire, E!jobVars, E!workerVars, ExportsRest
<1> QED
  BY <1>1, <1>2, <1>3

\* What the queue and its operators do to them.
LEMMA ExportQueueRest ==
    ASSUME ExportsRest, NEW x \in Exports,
           \/ E!GiveUp(x) \/ E!Replay(x)
           \/ \E w \in Workers : E!Take(w, x)
    PROVE  ExportsRest'
<1>1. CASE E!GiveUp(x)
  BY <1>1 DEF E!GiveUp, E!Queue!GiveUp, E!rowVars, E!workerVars, ExportsRest
<1>2. CASE E!Replay(x)
  BY <1>2 DEF E!Replay, E!Queue!Submit, E!rowVars, E!workerVars, ExportsRest
<1>3. ASSUME NEW w \in Workers, E!Take(w, x) PROVE ExportsRest'
  BY <1>3 DEF E!Take, E!Queue!Take, E!rowVars, ExportsRest
<1> QED
  BY <1>1, <1>2, <1>3

\* What the handler does to them.
LEMMA ExportHandlerRest ==
    ASSUME ExportsInv, ExportsRest, NEW w \in Workers, E!HandlerStep(w) \/ E!Crash(w)
    PROVE  ExportsRest'
<1>0. workerAt[w] # "idle" => workerTask[w] \in Exports
  BY DEF ExportsInv, JobInHand
<1>1. CASE E!Load(w) \/ E!CheckActor(w) \/ E!MarkProcessing(w) \/ E!Build(w) \/ E!RecordFailure(w)
  BY <1>1 DEF E!Load, E!CheckActor, E!MarkProcessing, E!Build, E!RecordFailure, E!rowVars,
              E!jobVars, ExportsRest
<1>2. CASE E!CallFails(w)
  BY <1>2 DEF E!CallFails, E!rowVars, E!jobVars, ExportsRest
<1>3. CASE E!Store(w)
  <2>1. E!Evicted(workerTask[w]) \subseteq Exports
    BY DEF E!Evicted
  <2>2. UNCHANGED <<filtered, later, jobTries, jobOwner, replays>>
    BY <1>3 DEF E!Store, E!rowVars, E!jobVars
  <2>3. evicts' = evicts \/ evicts' = [evicts EXCEPT ![w] = E!Evicted(workerTask[w])]
    BY <1>3 DEF E!Store
  <2> QED
    BY <2>1, <2>2, <2>3 DEF ExportsRest
<1>4. CASE E!Commit(w)
  <2>1. UNCHANGED <<filtered, jobTries, jobOwner, replays>>
    BY <1>4 DEF E!Commit, E!jobVars
  <2>2. evicts' \in [Workers -> SUBSET Exports]
    BY <1>4 DEF E!Commit, ExportsRest
  <2>3. later' \subseteq Exports \X Exports
    <3>1. workerTask[w] \in Exports
      BY <1>0, <1>4 DEF E!Commit
    <3>2. later' = {p \in later : workerTask[w] \notin {p[1], p[2]}}
                     \cup {workerTask[w]} \X (Exports \ {workerTask[w]})
      BY <1>4, Zenon DEF E!Commit
    <3> QED
      BY <3>1, <3>2 DEF ExportsRest
  <2> QED
    BY <2>1, <2>2, <2>3 DEF ExportsRest
<1>5. CASE E!Settle(w)
  <2>1. workerTask[w] \in Exports /\ UNCHANGED <<filtered, later, replays>>
    BY <1>0, <1>5 DEF E!Settle, E!rowVars
  <2>2. evicts' = [evicts EXCEPT ![w] = {}] /\ jobOwner' = [jobOwner EXCEPT ![workerTask[w]] = None]
    BY <1>5 DEF E!Settle, E!BackToIdle, E!Queue!Settle
  <2>3. jobTries' = jobTries
    <3>1. \/ jobTries' = jobTries
          \/ jobTries' = [jobTries EXCEPT ![workerTask[w]] = @ - 1]
      BY <1>5 DEF E!Settle, E!Queue!Settle
    <3>2. jobTries'[workerTask[w]] = jobTries[workerTask[w]]
      BY <1>5 DEF E!Settle
    <3> QED
      BY <2>1, <3>1, <3>2 DEF ExportsRest
  <2> QED
    BY <2>1, <2>2, <2>3 DEF ExportsRest
<1>6. CASE E!Crash(w)
  BY <1>6 DEF E!Crash, E!BackToIdle, E!Queue!WalkAway, E!rowVars, ExportsRest
<1> QED
  BY <1>1, <1>2, <1>3, <1>4, <1>5, <1>6 DEF E!HandlerStep

\* They hold at the start, and every step keeps them.
LEMMA ExportsRestStart == ASSUME E!Init PROVE ExportsRest
BY DEF E!Init, ExportsRest

LEMMA ExportsRestStep == ASSUME ExportsInv, ExportsRest, [E!Next]_E!vars PROVE ExportsRest'
<1>1. CASE UNCHANGED E!vars
  BY <1>1 DEF E!vars, ExportsRest
<1>2. CASE E!Next
  BY <1>2, ExportRowRest, ExportQueueRest, ExportHandlerRest DEF E!Next
<1> QED
  BY <1>1, <1>2

\* Together with those the invariant states, they are the types of the module.
LEMMA ExportsTypes == ASSUME ExportsInv, ExportsRest PROVE E!TypeOK
BY DEF ExportsInv, ExportsTyped, ExportsRest, E!TypeOK

\* One step takes a file that can be downloaded away by expiry only.
LEMMA StepKeepsReady == ASSUME ExportsInv, E!Next PROVE E!KeepsReady
<1> SUFFICES ASSUME NEW x \in Exports, Usable(x)
             PROVE  exportStatus'[x] \in {"ready", "expired"}
  BY DEF E!KeepsReady, Usable
<1> USE DEF ExportsInv, ExportsTyped, Usable
<1>1. CASE UNCHANGED exportStatus
  BY <1>1
<1>2. CASE \E y \in Exports, a \in Admins : E!Request(y, a)
  BY <1>2 DEF E!Request
<1>3. CASE \E a \in Admins : E!Disable(a)
  <2>1. PICK a \in Admins : E!Disable(a)
    BY <1>3
  <2>2. x \notin E!Quiesced(a)
    BY DEF E!Quiesced
  <2> QED
    BY <2>1, <2>2 DEF E!Disable
<1>4. CASE \E y \in Exports : E!Expire(y)
  BY <1>4 DEF E!Expire
<1>5. CASE \E w \in Workers : E!MarkProcessing(w) \/ E!RecordFailure(w)
  <2>1. PICK w \in Workers : E!MarkProcessing(w) \/ E!RecordFailure(w)
    BY <1>5
  <2>2. workerAt[w] \in Unfinished
    BY <2>1 DEF E!MarkProcessing, E!RecordFailure
  <2>3. workerTask[w] # x
    BY <2>2 DEF NothingToKeep
  <2>4. exportStatus'[x] = exportStatus[x]
    BY <2>1, <2>3 DEF E!MarkProcessing, E!RecordFailure
  <2> QED
    BY <2>4
<1>6. CASE \E w \in Workers : E!Commit(w)
  <2>1. PICK w \in Workers :
           exportStatus' = [y \in Exports |->
                        IF y = workerTask[w] THEN "ready"
                        ELSE IF y \in evicts[w] /\ exportStatus[y] = "ready" THEN "expired"
                        ELSE exportStatus[y]]
    BY <1>6, Zenon DEF E!Commit
  <2> QED
    BY <2>1
<1>7. \/ UNCHANGED exportStatus
      \/ \E y \in Exports, a \in Admins : E!Request(y, a)
      \/ \E a \in Admins : E!Disable(a)
      \/ \E y \in Exports : E!Expire(y)
      \/ \E w \in Workers : E!MarkProcessing(w) \/ E!RecordFailure(w)
      \/ \E w \in Workers : E!Commit(w)
  <2>1. CASE \E a \in Admins : E!Reactivate(a)
    BY <2>1 DEF E!Reactivate, E!rowVars
  <2>2. CASE \E y \in Exports : E!ArtifactTTLPasses(y) \/ E!GiveUp(y) \/ E!Replay(y)
    BY <2>2 DEF E!ArtifactTTLPasses, E!GiveUp, E!Replay, E!rowVars
  <2>3. CASE \E w \in Workers : \/ \E y \in Exports : E!Take(w, y)
                                \/ E!Load(w) \/ E!CheckActor(w) \/ E!Build(w) \/ E!Store(w)
    BY <2>3 DEF E!Take, E!Load, E!CheckActor, E!Build, E!Store, E!rowVars
  <2>4. CASE \E w \in Workers : E!CallFails(w) \/ E!Settle(w) \/ E!Crash(w)
    BY <2>4 DEF E!CallFails, E!Settle, E!Crash, E!rowVars
  <2> QED
    BY <2>1, <2>2, <2>3, <2>4 DEF E!Next, E!HandlerStep
<1> QED
  BY <1>1, <1>2, <1>3, <1>4, <1>5, <1>6, <1>7

\* What is downloadable only shrinks by expiry, in every behaviour.
THEOREM ReadyOnlyExpires == E!Spec => E!ReadyStaysUsable
<1>1. ExportsInv /\ [E!Next]_E!vars => [E!KeepsReady]_E!vars
  BY StepKeepsReady
<1> QED
  BY <1>1, ExportsInvariance, PTL DEF E!Spec, E!ReadyStaysUsable

-----------------------------------------------------------------------------
(* What leaves the workspace.  A behaviour of MCOutgoing is about one of its *)
(* parts: its steps are that part's.                                       *)

\* No step changes what the behaviour is about.
LEMMA OutgoingSubject == ASSUME [OutgoingNext]_shared PROVE UNCHANGED about
<1>1. CASE UNCHANGED shared
  BY <1>1 DEF shared
<1>2. CASE MailStep
  BY <1>2 DEF MailStep, Rest13
<1>3. CASE QuoteStep
  BY <1>3 DEF QuoteStep, Rest
<1>4. CASE ExportStep
  BY <1>4 DEF ExportStep, Rest
<1> QED
  BY <1>1, <1>2, <1>3, <1>4 DEF OutgoingNext

\* While e-mail is looked at, every step is one of MailDeliveries.
LEMMA MailMoved == ASSUME OnMail, [OutgoingNext]_shared PROVE [M!Next]_M!vars
<1>1. CASE UNCHANGED shared
  BY <1>1 DEF shared, M!vars
<1>2. CASE MailStep
  BY <1>2 DEF MailStep, M!Next, M!Call
<1>3. ~(QuoteStep \/ ExportStep)
  BY DEF QuoteStep, ExportStep, OnMail, OnQuotes, OnExports
<1> QED
  BY <1>1, <1>2, <1>3 DEF OutgoingNext

\* While quotes are looked at, every step is one of QuoteDeliveries.
LEMMA QuotesMoved == ASSUME OnQuotes, [OutgoingNext]_shared PROVE [Q!Next]_Q!vars
<1>1. CASE UNCHANGED shared
  BY <1>1 DEF shared, Q!vars
<1>2. CASE QuoteStep
  BY <1>2 DEF QuoteStep, Q!Next, Q!Quote, Q!Call, Q!Delivery, Q!Visitor
<1>3. ~(MailStep \/ ExportStep)
  BY DEF MailStep, ExportStep, OnMail, OnQuotes, OnExports
<1> QED
  BY <1>1, <1>2, <1>3 DEF OutgoingNext

\* While exports are looked at, every step is one of ExportJobs.
LEMMA ExportsMoved == ASSUME OnExports, [OutgoingNext]_shared PROVE [E!Next]_E!vars
<1>1. CASE UNCHANGED shared
  BY <1>1 DEF shared, E!vars, E!rowVars
<1>2. CASE ExportStep
  BY <1>2 DEF ExportStep, E!Next, E!HandlerStep, Exports, Workers
<1>3. ~(MailStep \/ QuoteStep)
  BY DEF MailStep, QuoteStep, OnMail, OnQuotes, OnExports
<1> QED
  BY <1>1, <1>2, <1>3 DEF OutgoingNext

\* The inductive invariant: that of the part looked at.
OutgoingInv ==
    /\ OnMail => MailInv
    /\ OnQuotes => QuotesInv
    /\ OnExports => ExportsInv /\ ExportsRest

\* It holds at the start.
LEMMA OutgoingStart == ASSUME OutgoingInit PROVE OutgoingInv
<1>1. ASSUME OnMail PROVE MailInv
  BY <1>1, MailStart DEF OutgoingInit, OnMail
<1>2. ASSUME OnQuotes PROVE QuotesInv
  BY <1>2, OutgoingAssumption, QuotesStart DEF OutgoingInit, OnQuotes
<1>3. ASSUME OnExports PROVE ExportsInv /\ ExportsRest
  BY <1>3, ExportsStart, ExportsRestStart DEF OutgoingInit, OnExports
<1> QED
  BY <1>1, <1>2, <1>3 DEF OutgoingInv

\* Every step keeps it.
LEMMA OutgoingStep == ASSUME OutgoingInv, [OutgoingNext]_shared PROVE OutgoingInv'
<1>1. OnMail' = OnMail /\ OnQuotes' = OnQuotes /\ OnExports' = OnExports
  BY OutgoingSubject DEF OnMail, OnQuotes, OnExports
<1>2. ASSUME OnMail PROVE MailInv'
  BY <1>2, MailMoved, MailStepKeeps DEF OutgoingInv
<1>3. ASSUME OnQuotes PROVE QuotesInv'
  BY <1>3, QuotesMoved, QuotesStepKeeps DEF OutgoingInv
<1>4. ASSUME OnExports PROVE ExportsInv' /\ ExportsRest'
  BY <1>4, ExportsMoved, ExportsStep, ExportsRestStep DEF OutgoingInv
<1> QED
  BY <1>1, <1>2, <1>3, <1>4 DEF OutgoingInv

\* What is known of a part is known in every behaviour.
LEMMA OutgoingAlways == OutgoingSpec => []OutgoingInv
<1>1. OutgoingInit => OutgoingInv
  BY OutgoingStart
<1>2. OutgoingInv /\ [OutgoingNext]_shared => OutgoingInv'
  BY OutgoingStep
<1> QED
  BY <1>1, <1>2, PTL DEF OutgoingSpec

\* Whatever part of what leaves a workspace a behaviour is about, its rows,
\* its requests and its jobs keep the types of their columns.
THEOREM OutgoingTypesHold == OutgoingSpec => []TypesOK
<1>1. OutgoingInv => TypesOK
  BY ExportsTypes DEF OutgoingInv, TypesOK, MailInv, QuotesInv
<1> QED
  BY <1>1, OutgoingAlways, PTL

\* However its requests are replayed, cut off, recovered or overtaken, a
\* delivery is recorded once and claimed once per decision to send it.
THEOREM MailIsDeliveredOnce == OutgoingSpec => []DeliveredOnce
<1>1. OutgoingInv => DeliveredOnce
  BY DEF OutgoingInv, DeliveredOnce, MailInv, M!DeliveredOnce
<1> QED
  BY <1>1, OutgoingAlways, PTL

\* A signature request opens, closes and gives way with its delivery.
THEOREM SignaturesFollow == OutgoingSpec => []SignatureFollowsDelivery
<1>1. OutgoingInv => SignatureFollowsDelivery
  BY DEF OutgoingInv, SignatureFollowsDelivery, QuotesInv, Q!SignatureFollowsDelivery
<1> QED
  BY <1>1, OutgoingAlways, PTL

\* A blocking export has a job, and a job that succeeded produced its file.
THEOREM ExportsAgreeWithJobs == OutgoingSpec => []ExportsAccounted
<1>1. OutgoingInv => ExportsAccounted
  BY DEF OutgoingInv, ExportsAccounted, ExportsInv, E!ExportsAccounted
<1> QED
  BY <1>1, OutgoingAlways, PTL

\* A settled delivery is not reopened, and no request fails an uncertain one.
THEOREM LateMailDecidesNothing == OutgoingSpec => LateAnswersDecideNothing
<1>1. ASSUME OutgoingInv, [OutgoingNext]_shared, OnMail PROVE M!KeepsSettled
  <2>1. M!TypeOK
    BY <1>1 DEF OutgoingInv, MailInv
  <2>2. CASE M!Next
    BY <2>1, <2>2, StepKeepsSettled
  <2>3. CASE UNCHANGED M!vars
    BY <2>3 DEF M!vars, M!KeepsSettled, M!callVars, M!Settled
  <2> QED
    BY <1>1, <2>2, <2>3, MailMoved
<1>2. OutgoingInv /\ [OutgoingNext]_shared => [OnMail => M!KeepsSettled]_shared
  BY <1>1
<1> QED
  BY <1>2, OutgoingAlways, PTL DEF OutgoingSpec, LateAnswersDecideNothing

\* What the customer decided stands.
THEOREM QuoteDecisionsStand == OutgoingSpec => DecisionsAreFinal
<1>1. ASSUME OutgoingInv, [OutgoingNext]_shared, OnQuotes PROVE Q!KeepsDecisions
  <2>1. QuotesInv
    BY <1>1 DEF OutgoingInv
  <2>2. CASE Q!Next
    BY <2>1, <2>2, StepKeepsDecisions
  <2>3. CASE UNCHANGED Q!vars
    BY <2>3 DEF Q!vars, Q!KeepsDecisions
  <2> QED
    BY <1>1, <2>2, <2>3, QuotesMoved
<1>2. OutgoingInv /\ [OutgoingNext]_shared => [OnQuotes => Q!KeepsDecisions]_shared
  BY <1>1
<1> QED
  BY <1>2, OutgoingAlways, PTL DEF OutgoingSpec, DecisionsAreFinal

\* A file that can be downloaded is taken away by expiry only.
THEOREM DownloadsOnlyExpire == OutgoingSpec => ReadyStaysUsable
<1>1. ASSUME OutgoingInv, [OutgoingNext]_shared, OnExports PROVE E!KeepsReady
  <2>1. ExportsInv
    BY <1>1 DEF OutgoingInv
  <2>2. CASE E!Next
    BY <2>1, <2>2, StepKeepsReady
  <2>3. CASE UNCHANGED E!vars
    BY <2>3 DEF E!vars, E!rowVars, E!KeepsReady
  <2> QED
    BY <1>1, <2>2, <2>3, ExportsMoved
<1>2. OutgoingInv /\ [OutgoingNext]_shared => [OnExports => E!KeepsReady]_shared
  BY <1>1
<1> QED
  BY <1>2, OutgoingAlways, PTL DEF OutgoingSpec, ReadyStaysUsable
=============================================================================
