----------------------- MODULE SequenceDelivery_proofs ------------------------
(***************************************************************************)
(* Proofs about SequenceDelivery, for any number of enrollments, contacts, *)
(* workers, steps, tries and operator decisions.                           *)
(***************************************************************************)
EXTENDS SequenceDelivery, FiniteSets, FiniteSetTheorems, TLAPS

\* A worker that is anywhere in the handler works on a send...
TasksAreSends == \A w \in Workers : pc[w] # "idle" => task[w] \in Sends

\* ... whose job exists, so that its step was reached.
WorkIsReached == \A w \in Workers : pc[w] # "idle" => jobPhase[task[w]] # "none"

\* An owned job is being tried.
OwnedIsTaken ==
    \A k \in Sends : jobOwner[k] # Nobody => jobPhase[k] = "taken" /\ jobTries[k] > 0

\* Who was never enrolled stands before the first step.
NotStarted == \A e \in Enrollments : enrollment[e] = "none" => step[e] = 0

\* StepsInOrder, one send at a time.
Cadence ==
    \A k \in Sends :
        /\ k[2] < step[k[1]] => delivery[k] = "sent"
        /\ k[2] > step[k[1]] => delivery[k] = "none" /\ jobPhase[k] = "none"

\* A handler that is about to report success has seen a settled delivery.
OkIsSettled ==
    \A w \in Workers : pc[w] = "ok" => delivery[task[w]] \in {"sent", "suppressed"}

\* Only a suppression closes an enrollment's cadence early.
CutoffsAreOpen ==
    \A e \in Enrollments : ~suppressed[ContactOf[e]] => cutoff[e] = Steps

\* Past the suppression check a step is one of those before the cutoff, even
\* if the suppression comes now.
AllowedBefore ==
    \A w \in Workers :
        pc[w] \in {"claim", "send"} => task[w][2] <= cutoff[task[w][1]]

\* NothingAfterSuppression, one send at a time, with the position it implies.
SentWasReached ==
    \A k \in Sends :
        sends[k] > 0 => k[2] <= step[k[1]] /\ k[2] <= cutoff[k[1]]

\* The inductive invariant.
IInv ==
    /\ TypeOK
    /\ TasksAreSends
    /\ WorkIsReached
    /\ OwnedIsTaken
    /\ NotStarted
    /\ Cadence
    /\ OkIsSettled
    /\ MovedOnWhenSettled
    /\ OnlySkipsStrand
    /\ SucceededMeansSettled
    /\ CutoffsAreOpen
    /\ AllowedBefore
    /\ SentWasReached

-----------------------------------------------------------------------------
\* Steps are ordered: one comes before the other or they are the same.
LEMMA Trichotomy == \A i, j \in Int : i < j \/ i = j \/ i > j
OBVIOUS

\* A send is an enrollment and one of the steps.
LEMMA SendParts ==
    ASSUME NEW k \in Sends
    PROVE  k[1] \in Enrollments /\ k[2] \in 1..Steps /\ k = <<k[1], k[2]>>
BY DEF Sends

\* The next send of an enrollment, while there is one.
LEMMA NextSend ==
    ASSUME NEW k \in Sends, k[2] < Steps
    PROVE  /\ <<k[1], k[2] + 1>> \in Sends
           /\ <<k[1], k[2] + 1>>[1] = k[1]
           /\ <<k[1], k[2] + 1>>[2] = k[2] + 1
BY SendParts, ConstantsAssumption DEF Sends

\* Every initial state satisfies the invariant.
LEMMA InitEstablishes == Init => IInv
<1> SUFFICES ASSUME Init PROVE IInv
  OBVIOUS
<1> USE SendParts, ConstantsAssumption DEF Init, IInv, TypeOK, TasksAreSends, OwnedIsTaken, NotStarted, Cadence,
            WorkIsReached, OkIsSettled, MovedOnWhenSettled, OnlySkipsStrand,
            SucceededMeansSettled, CutoffsAreOpen, AllowedBefore, SentWasReached,
            Current, Calls, Verdicts, Ended, Deliveries, cadenceVars, jobVars,
            workerVars, history
<1>1. TypeOK
  <2>1. seqActive \in BOOLEAN
    BY Zenon
  <2> QED
    BY <2>1, SMTT(30)
<1>2. TasksAreSends /\ WorkIsReached /\ OwnedIsTaken /\ NotStarted /\ Cadence
  BY SMTT(30)
<1>3. OkIsSettled /\ MovedOnWhenSettled /\ OnlySkipsStrand /\ SucceededMeansSettled
  BY SMTT(30)
<1>4. CutoffsAreOpen /\ AllowedBefore /\ SentWasReached
  BY SMTT(30)
<1> QED
  BY <1>1, <1>2, <1>3, <1>4

\* What members, recipients and the mailbox do keeps the invariant.
LEMMA MembersPreserve ==
    ASSUME IInv, Pause \/ Approve
    PROVE  IInv'
<1> USE SendParts, ConstantsAssumption DEF IInv, TypeOK, TasksAreSends, OwnedIsTaken, NotStarted, Cadence,
            WorkIsReached, OkIsSettled, MovedOnWhenSettled, OnlySkipsStrand,
            SucceededMeansSettled, CutoffsAreOpen, AllowedBefore, SentWasReached,
            Current, Calls, Verdicts, Ended, Deliveries, cadenceVars, jobVars,
            workerVars, history
<1>1. CASE Pause
  <2>1. /\ seqActive' = FALSE
        /\ UNCHANGED <<enrollment, step, archived, suppressed, cutoff, delivery,
                       jobVars, workerVars, history>>
    BY <1>1, Zenon DEF Pause
  <2>2. seqActive' \in BOOLEAN
    BY <2>1, Zenon
  <2> QED
    BY <2>1, <2>2, SMTT(30)
<1>2. CASE Approve
  BY <1>2, SMTT(30) DEF Approve
<1> QED
  BY <1>1, <1>2

\* So does what happens to one enrollment.
LEMMA EnrollmentPreserves ==
    ASSUME IInv, NEW e \in Enrollments,
           EnrollContact(e) \/ CancelEnrollment(e) \/ Reply(e) \/ Feedback(e)
    PROVE  IInv'
<1> USE SendParts, ConstantsAssumption DEF IInv, TypeOK, TasksAreSends, OwnedIsTaken, NotStarted, Cadence,
            WorkIsReached, OkIsSettled, MovedOnWhenSettled, OnlySkipsStrand,
            SucceededMeansSettled, CutoffsAreOpen, AllowedBefore, SentWasReached,
            Current, Calls, Verdicts, Ended, Deliveries, cadenceVars, jobVars,
            workerVars, history
<1>1. CASE EnrollContact(e)
  <2> DEFINE first == <<e, 1>>
  <2>0. first \in Sends
    BY DEF Sends
  <2>1. TypeOK'
    <3>1. /\ jobPhase' = [jobPhase EXCEPT ![first] = "waiting"]
          /\ jobTries' = [jobTries EXCEPT ![first] = 0]
          /\ jobOwner' = jobOwner
      BY <1>1 DEF EnrollContact, Queue!Submit
    <3>2. jobPhase' \in [Sends -> {"none", "waiting", "taken", "done", "failed"}]
      BY <2>0, <3>1
    <3>3. jobTries' \in [Sends -> Nat] /\ jobOwner' \in [Sends -> Workers \cup {Nobody}]
      BY <2>0, <3>1
    <3> QED
      BY <1>1, <3>2, <3>3, SMTT(30) DEF EnrollContact
  <2>2. TasksAreSends' /\ WorkIsReached'
    BY <1>1, SMTT(30) DEF EnrollContact, Queue!Submit
  <2>3. OwnedIsTaken' /\ NotStarted'
    BY <1>1, SMTT(30) DEF EnrollContact, Queue!Submit
  <2>4. Cadence'
    BY <1>1, SMTT(30) DEF EnrollContact, Queue!Submit
  <2>5. OkIsSettled'
    BY <1>1, SMTT(30) DEF EnrollContact, Queue!Submit
  <2>6. MovedOnWhenSettled'
    BY <1>1, SMTT(30) DEF EnrollContact, Queue!Submit
  <2>7. OnlySkipsStrand'
    BY <1>1, SMTT(30) DEF EnrollContact, Queue!Submit
  <2>8. SucceededMeansSettled'
    BY <1>1, SMTT(30) DEF EnrollContact, Queue!Submit
  <2>9. CutoffsAreOpen' /\ AllowedBefore' /\ SentWasReached'
    BY <1>1, SMTT(30) DEF EnrollContact, Queue!Submit
  <2> QED
    BY <2>1, <2>2, <2>3, <2>4, <2>5, <2>6, <2>7, <2>8, <2>9
<1>2. CASE CancelEnrollment(e)
  BY <1>2, SMTT(30) DEF CancelEnrollment, Leaves
<1>3. CASE Reply(e)
  BY <1>3, SMTT(30) DEF Reply, Leaves
<1>4. CASE Feedback(e)
  BY <1>4, SMTT(30) DEF Feedback, Leaves, Suppresses
<1> QED
  BY <1>1, <1>2, <1>3, <1>4

\* So does what happens to a contact.
LEMMA ContactPreserves ==
    ASSUME IInv, NEW c \in Contacts, Unsubscribe(c) \/ ToggleArchived(c)
    PROVE  IInv'
<1> USE SendParts, ConstantsAssumption DEF IInv, TypeOK, TasksAreSends, OwnedIsTaken, NotStarted, Cadence,
            WorkIsReached, OkIsSettled, MovedOnWhenSettled, OnlySkipsStrand,
            SucceededMeansSettled, CutoffsAreOpen, AllowedBefore, SentWasReached,
            Current, Calls, Verdicts, Ended, Deliveries, cadenceVars, jobVars,
            workerVars, history
<1>1. CASE Unsubscribe(c)
  BY <1>1, SMTT(30) DEF Unsubscribe, Suppresses
<1>2. CASE ToggleArchived(c)
  BY <1>2, SMTT(30) DEF ToggleArchived
<1> QED
  BY <1>1, <1>2

\* So does every statement of the handler.
LEMMA HandlerPreserves ==
    ASSUME IInv, NEW w \in Workers, HandlerStep(w)
    PROVE  IInv'
<1> USE SendParts, ConstantsAssumption DEF IInv, TypeOK, TasksAreSends, OwnedIsTaken, NotStarted, Cadence,
            WorkIsReached, OkIsSettled, MovedOnWhenSettled, OnlySkipsStrand,
            SucceededMeansSettled, CutoffsAreOpen, AllowedBefore, SentWasReached,
            Current, Calls, Verdicts, Ended, Deliveries, cadenceVars, jobVars,
            workerVars, history
<1>1. CASE Load(w)
  BY <1>1, SMTT(30) DEF Goto, Answer, Load
<1>2. CASE LoadWhy(w)
  BY <1>2, SMTT(30) DEF Goto, Answer, LoadWhy
<1>3. CASE Prepare(w)
  BY <1>3, SMTT(30) DEF Goto, Answer, Prepare
<1>4. CASE Quarantine(w)
  <2>1. TypeOK'
    BY <1>4, SMTT(30) DEF Goto, Answer, Quarantine, MarkUncertain
  <2>2. TasksAreSends' /\ WorkIsReached'
    BY <1>4, SMTT(30) DEF Goto, Answer, Quarantine, MarkUncertain
  <2>3. OwnedIsTaken' /\ NotStarted'
    BY <1>4, SMTT(30) DEF Goto, Answer, Quarantine, MarkUncertain
  <2>4. Cadence'
    BY <1>4, SMTT(30) DEF Goto, Answer, Quarantine, MarkUncertain
  <2>5. OkIsSettled'
    BY <1>4, SMTT(30) DEF Goto, Answer, Quarantine, MarkUncertain
  <2>6. MovedOnWhenSettled'
    BY <1>4, SMTT(30) DEF Goto, Answer, Quarantine, MarkUncertain
  <2>7. OnlySkipsStrand'
    BY <1>4, SMTT(30) DEF Goto, Answer, Quarantine, MarkUncertain
  <2>8. SucceededMeansSettled'
    BY <1>4, SMTT(30) DEF Goto, Answer, Quarantine, MarkUncertain
  <2>9. CutoffsAreOpen' /\ AllowedBefore' /\ SentWasReached'
    BY <1>4, SMTT(30) DEF Goto, Answer, Quarantine, MarkUncertain
  <2> QED
    BY <2>1, <2>2, <2>3, <2>4, <2>5, <2>6, <2>7, <2>8, <2>9
<1>5. CASE CheckAllowed(w)
  BY <1>5, SMTT(30) DEF Goto, Answer, CheckAllowed
<1>6. CASE CheckRefused(w)
  BY <1>6, SMTT(30) DEF Goto, Answer, CheckRefused
<1>7. CASE FinalizeSuppressed(w)
  <2>1. TypeOK'
    <3>1. delivery' \in [Sends -> Deliveries]
      BY <1>7, SMTT(30) DEF Goto, Answer, FinalizeSuppressed
    <3>2. pc' \in [Workers -> {"idle"} \cup Calls \cup Verdicts]
      BY <1>7, SMTT(30) DEF Goto, Answer, FinalizeSuppressed
    <3>3. enrollment' \in [Enrollments -> {"none", "active"} \cup Ended]
      BY <1>7, SMTT(30) DEF Goto, Answer, FinalizeSuppressed
    <3> QED
      BY <1>7, <3>1, <3>2, <3>3, SMTT(30) DEF Goto, Answer, FinalizeSuppressed
  <2>2. TasksAreSends' /\ WorkIsReached'
    BY <1>7, SMTT(30) DEF Goto, Answer, FinalizeSuppressed
  <2>3. OwnedIsTaken' /\ NotStarted'
    BY <1>7, SMTT(30) DEF Goto, Answer, FinalizeSuppressed
  <2>4. Cadence'
    BY <1>7, SMTT(30) DEF Goto, Answer, FinalizeSuppressed
  <2>5. OkIsSettled'
    BY <1>7, SMTT(30) DEF Goto, Answer, FinalizeSuppressed
  <2>6. MovedOnWhenSettled'
    BY <1>7, SMTT(30) DEF Goto, Answer, FinalizeSuppressed
  <2>7. OnlySkipsStrand'
    BY <1>7, SMTT(30) DEF Goto, Answer, FinalizeSuppressed
  <2>8. SucceededMeansSettled'
    BY <1>7, SMTT(30) DEF Goto, Answer, FinalizeSuppressed
  <2>9. CutoffsAreOpen' /\ AllowedBefore' /\ SentWasReached'
    BY <1>7, SMTT(30) DEF Goto, Answer, FinalizeSuppressed
  <2> QED
    BY <2>1, <2>2, <2>3, <2>4, <2>5, <2>6, <2>7, <2>8, <2>9
<1>8. CASE ClaimDelivery(w)
  <2>1. TypeOK'
    <3>1. delivery' \in [Sends -> Deliveries]
      BY <1>8, SMTT(30) DEF Goto, Answer, ClaimDelivery
    <3>2. pc' \in [Workers -> {"idle"} \cup Calls \cup Verdicts]
      BY <1>8, SMTT(30) DEF Goto, Answer, ClaimDelivery
    <3>3. claims' \in [Sends -> Nat]
      BY <1>8, SMTT(30) DEF Goto, Answer, ClaimDelivery
    <3> QED
      BY <1>8, <3>1, <3>2, <3>3, SMTT(30) DEF Goto, Answer, ClaimDelivery
  <2>2. TasksAreSends' /\ WorkIsReached'
    BY <1>8, SMTT(30) DEF Goto, Answer, ClaimDelivery
  <2>3. OwnedIsTaken' /\ NotStarted'
    BY <1>8, SMTT(30) DEF Goto, Answer, ClaimDelivery
  <2>4. Cadence'
    BY <1>8, SMTT(30) DEF Goto, Answer, ClaimDelivery
  <2>5. OkIsSettled'
    BY <1>8, SMTT(30) DEF Goto, Answer, ClaimDelivery
  <2>6. MovedOnWhenSettled'
    BY <1>8, SMTT(30) DEF Goto, Answer, ClaimDelivery
  <2>7. OnlySkipsStrand'
    BY <1>8, SMTT(30) DEF Goto, Answer, ClaimDelivery
  <2>8. SucceededMeansSettled'
    BY <1>8, SMTT(30) DEF Goto, Answer, ClaimDelivery
  <2>9. CutoffsAreOpen' /\ AllowedBefore' /\ SentWasReached'
    BY <1>8, SMTT(30) DEF Goto, Answer, ClaimDelivery
  <2> QED
    BY <2>1, <2>2, <2>3, <2>4, <2>5, <2>6, <2>7, <2>8, <2>9
<1>9. CASE Classify(w)
  BY <1>9, SMTT(30) DEF Goto, Answer, Classify
<1>10. CASE CallProvider(w)
  BY <1>10, SMTT(30) DEF Goto, Answer, CallProvider
<1>11. CASE FinalizeSent(w)
  <2>1. TypeOK'
    <3>1. delivery' \in [Sends -> Deliveries]
      BY <1>11, SMTT(30) DEF Goto, Answer, FinalizeSent, Advance, Enqueued
    <3>2. pc' \in [Workers -> {"idle"} \cup Calls \cup Verdicts]
      BY <1>11, SMTT(30) DEF Goto, Answer, FinalizeSent, Advance, Enqueued
    <3>3. enrollment' \in [Enrollments -> {"none", "active"} \cup Ended]
      BY <1>11, SMTT(30) DEF Goto, Answer, FinalizeSent, Advance, Enqueued
    <3>4. step' \in [Enrollments -> 0..Steps]
      BY <1>11, SMTT(30) DEF Goto, Answer, FinalizeSent, Advance, Enqueued
    <3>5. jobPhase' \in [Sends -> {"none", "waiting", "taken", "done", "failed"}]
      BY <1>11, SMTT(30) DEF Goto, Answer, FinalizeSent, Advance, Enqueued
    <3> QED
      BY <1>11, <3>1, <3>2, <3>3, <3>4, <3>5, SMTT(30) DEF Goto, Answer, FinalizeSent, Advance, Enqueued
  <2>2. TasksAreSends' /\ WorkIsReached'
    BY <1>11, SMTT(30) DEF Goto, Answer, FinalizeSent, Advance, Enqueued
  <2>3. OwnedIsTaken' /\ NotStarted'
    BY <1>11, SMTT(30) DEF Goto, Answer, FinalizeSent, Advance, Enqueued
  <2>4. Cadence'
    <3> DEFINE k == task[w]
    <3>1. k \in Sends
      BY <1>11, SMTT(30) DEF FinalizeSent
    <3>2. k[2] <= step[k[1]]
      BY <1>11, <3>1, SMTT(30) DEF FinalizeSent
    <3>3. CASE delivery[k] # "sending"
      BY <1>11, <3>3, SMTT(30) DEF FinalizeSent
    <3>4. CASE delivery[k] = "sending" /\ ~(Current(k) /\ k[2] < Steps)
      <4>0. Enqueued(k) = {}
        BY <3>4 DEF Enqueued
      <4>1. /\ \A e \in Enrollments : step'[e] = step[e]
            /\ \A n \in Sends : jobPhase'[n] = jobPhase[n]
        <5>1. step' = [step EXCEPT ![k[1]] = IF Current(k) /\ k[2] < Steps
                                           THEN @ + 1 ELSE @]
          BY <1>11, <3>4, Zenon DEF FinalizeSent, Advance
        <5>2. \A e \in Enrollments : step'[e] = step[e]
          BY <3>1, <3>4, <5>1, SMTT(30)
        <5>3. jobPhase' = [i \in Sends |-> IF i \in Enqueued(k) THEN "waiting"
                                                             ELSE jobPhase[i]]
          BY <1>11, <3>4, Zenon DEF FinalizeSent
        <5> QED
          BY <4>0, <5>2, <5>3, Zenon
      <4>2. delivery' = [delivery EXCEPT ![k] = "sent"]
        BY <1>11, <3>4 DEF FinalizeSent
      <4> QED
        BY <3>1, <3>2, <4>1, <4>2, SMTT(30)
    <3>5. CASE delivery[k] = "sending" /\ Current(k) /\ k[2] < Steps
      <4>1. /\ step' = [step EXCEPT ![k[1]] = @ + 1]
            /\ delivery' = [delivery EXCEPT ![k] = "sent"]
        BY <1>11, <3>1, <3>5, SMTT(30) DEF FinalizeSent, Advance
      <4>2. \A n \in Sends :
              n # <<k[1], k[2] + 1>> => jobPhase'[n] = jobPhase[n]
        <5>1. Enqueued(k) \subseteq {<<k[1], k[2] + 1>>}
          BY Zenon DEF Enqueued
        <5>2. jobPhase' = [i \in Sends |-> IF i \in Enqueued(k) THEN "waiting"
                                                             ELSE jobPhase[i]]
          BY <1>11, <3>5, Zenon DEF FinalizeSent
        <5> QED
          BY <5>1, <5>2, Zenon
      <4>3. ASSUME NEW n \in Sends
            PROVE  /\ n[2] < step'[n[1]] => delivery'[n] = "sent"
                   /\ n[2] > step'[n[1]] => delivery'[n] = "none" /\ jobPhase'[n] = "none"
        <5>1. CASE n[1] # k[1]
          BY <3>1, <4>1, <4>2, <5>1, SMTT(30)
        <5>2. CASE n[1] = k[1]
          <6>1. step[k[1]] = k[2] /\ step'[k[1]] = k[2] + 1
            BY <3>1, <3>5, <4>1
          <6>2. CASE n[2] < k[2]
            BY <3>1, <4>1, <5>2, <6>1, <6>2, SMTT(30)
          <6>3. CASE n[2] = k[2]
            BY <3>1, <4>1, <5>2, <6>1, <6>3, SMTT(30)
          <6>4. CASE n[2] > k[2]
            <7>1. n[2] > k[2] + 1 => n # <<k[1], k[2] + 1>>
              BY <3>1, <3>5, NextSend
            <7>2. (n # k /\ delivery'[n] = "none") \/ n[2] = k[2] + 1
              BY <3>1, <4>1, <5>2, <6>1, <6>4, SMTT(30)
            <7> QED
              BY <3>1, <4>1, <4>2, <5>2, <6>1, <6>4, <7>1, <7>2, SMTT(30)
          <6> QED
            <7>1. n[2] \in Int /\ k[2] \in Int
              BY <3>1
            <7>2. n[2] < k[2] \/ n[2] = k[2] \/ n[2] > k[2]
              BY <7>1, Trichotomy, Zenon
            <7> QED
              BY <6>2, <6>3, <6>4, <7>2, Zenon
        <5> QED
          BY <5>1, <5>2
      <4> QED
        BY <4>3
    <3> QED
      BY <3>3, <3>4, <3>5
  <2>5. OkIsSettled'
    BY <1>11, SMTT(30) DEF Goto, Answer, FinalizeSent, Advance, Enqueued
  <2>6. MovedOnWhenSettled'
    BY <1>11, SMTT(30) DEF Goto, Answer, FinalizeSent, Advance, Enqueued
  <2>7. OnlySkipsStrand'
    BY <1>11, SMTT(30) DEF Goto, Answer, FinalizeSent, Advance, Enqueued
  <2>8. SucceededMeansSettled'
    BY <1>11, SMTT(30) DEF Goto, Answer, FinalizeSent, Advance, Enqueued
  <2>9. CutoffsAreOpen' /\ AllowedBefore' /\ SentWasReached'
    BY <1>11, SMTT(30) DEF Goto, Answer, FinalizeSent, Advance, Enqueued
  <2> QED
    BY <2>1, <2>2, <2>3, <2>4, <2>5, <2>6, <2>7, <2>8, <2>9
<1>12. CASE MarkAfterAttempt(w)
  BY <1>12, SMTT(30) DEF Goto, Answer, MarkAfterAttempt, MarkUncertain
<1>13. CASE CallFails(w)
  BY <1>13, SMTT(30) DEF Goto, Answer, CallFails
<1>14. CASE Settle(w)
  <2> DEFINE k == task[w]
  <2>0. /\ k \in Sends
        /\ skipped' = [skipped EXCEPT ![k] = (pc[w] = "skipped")]
        /\ UNCHANGED <<cadenceVars, delivery>>
    BY <1>14, SMTT(30) DEF Settle
  <2>00. jobPhase'[k] = "done" => pc[w] \in {"ok", "skipped"}
    BY <1>14, <2>0, SMTT(30) DEF Settle
  <2>01. pc[w] = "skipped" => skipped'[k]
    <3>1. skipped'[k] = (pc[w] = "skipped")
      BY <2>0
    <3> QED
      BY <3>1, Zenon
  <2>02. \A n \in Sends : n # k => jobPhase'[n] = jobPhase[n] /\ skipped'[n] = skipped[n]
    BY <1>14, <2>0, SMTT(30) DEF Settle, Queue!Settle
  <2>03. pc[w] = "ok" => delivery[k] \in {"sent", "suppressed"} /\ ~Current(k)
    BY <2>0
  <2>04. jobPhase'[k] \in {"done", "failed", "waiting"}
    BY <1>14, <2>0, SMTT(30) DEF Settle
  <2>1. TypeOK'
    BY <1>14, SMTT(30) DEF Goto, BackToIdle, Settle, Queue!Settle
  <2>2. TasksAreSends' /\ WorkIsReached'
    BY <1>14, SMTT(30) DEF Goto, BackToIdle, Settle, Queue!Settle
  <2>3. OwnedIsTaken' /\ NotStarted'
    BY <1>14, SMTT(30) DEF Goto, BackToIdle, Settle, Queue!Settle
  <2>4. Cadence'
    BY <1>14, SMTT(30) DEF Goto, BackToIdle, Settle, Queue!Settle
  <2>5. OkIsSettled'
    BY <1>14, SMTT(30) DEF Goto, BackToIdle, Settle, Queue!Settle
  <2>6. MovedOnWhenSettled'
    BY <1>14, SMTT(30) DEF Goto, BackToIdle, Settle, Queue!Settle
  <2>7. OnlySkipsStrand'
    BY <2>0, <2>00, <2>01, <2>02, <2>03, <2>04, SMTT(30)
  <2>8. SucceededMeansSettled'
    BY <2>0, <2>00, <2>01, <2>02, <2>03, <2>04, SMTT(30)
  <2>9. CutoffsAreOpen' /\ AllowedBefore' /\ SentWasReached'
    BY <1>14, SMTT(30) DEF Goto, BackToIdle, Settle, Queue!Settle
  <2> QED
    BY <2>1, <2>2, <2>3, <2>4, <2>5, <2>6, <2>7, <2>8, <2>9
<1>15. CASE Disowned(w)
  BY <1>15, SMTT(30) DEF Goto, BackToIdle, Disowned
<1> QED
  BY <1>1, <1>2, <1>3, <1>4, <1>5, <1>6, <1>7, <1>8, <1>9, <1>10, <1>11, <1>12, <1>13, <1>14, <1>15 DEF HandlerStep

\* So do taking a job and leaving it.
LEMMA WorkerPreserves ==
    ASSUME IInv, NEW w \in Workers, (\E k \in Sends : Take(w, k)) \/ Crash(w)
    PROVE  IInv'
<1> USE SendParts, ConstantsAssumption DEF IInv, TypeOK, TasksAreSends, OwnedIsTaken, NotStarted, Cadence,
            WorkIsReached, OkIsSettled, MovedOnWhenSettled, OnlySkipsStrand,
            SucceededMeansSettled, CutoffsAreOpen, AllowedBefore, SentWasReached,
            Current, Calls, Verdicts, Ended, Deliveries, cadenceVars, jobVars,
            workerVars, history
<1>1. CASE \E k \in Sends : Take(w, k)
  BY <1>1, SMTT(30) DEF Goto, Take, Queue!Take
<1>2. CASE Crash(w)
  BY <1>2, SMTT(30) DEF Goto, BackToIdle, Crash, Queue!WalkAway
<1> QED
  BY <1>1, <1>2

\* So do the queue's housekeeping and the administrators.
LEMMA OperatorPreserves ==
    ASSUME IInv, NEW k \in Sends,
           GiveUp(k) \/ Replay(k) \/ ResolveRetry(k) \/ ResolveConfirmed(k)
    PROVE  IInv'
<1> USE SendParts, ConstantsAssumption DEF IInv, TypeOK, TasksAreSends, OwnedIsTaken, NotStarted, Cadence,
            WorkIsReached, OkIsSettled, MovedOnWhenSettled, OnlySkipsStrand,
            SucceededMeansSettled, CutoffsAreOpen, AllowedBefore, SentWasReached,
            Current, Calls, Verdicts, Ended, Deliveries, cadenceVars, jobVars,
            workerVars, history
<1>1. CASE GiveUp(k)
  BY <1>1, SMTT(30) DEF GiveUp, Queue!GiveUp, Queue!Spent
<1>2. CASE Replay(k)
  BY <1>2, SMTT(30) DEF Replay, Queue!Submit
<1>3. CASE ResolveRetry(k)
  BY <1>3, SMTT(30) DEF ResolveRetry, Queue!Submit
<1>4. CASE ResolveConfirmed(k)
  <2>1. TypeOK'
    BY <1>4, SMTT(30) DEF ResolveConfirmed, Advance, Enqueued
  <2>2. TasksAreSends' /\ WorkIsReached'
    BY <1>4, SMTT(30) DEF ResolveConfirmed, Advance, Enqueued
  <2>3. OwnedIsTaken' /\ NotStarted'
    BY <1>4, SMTT(30) DEF ResolveConfirmed, Advance, Enqueued
  <2>4. Cadence'
    BY <1>4, SMTT(30) DEF ResolveConfirmed, Advance, Enqueued
  <2>5. OkIsSettled'
    BY <1>4, SMTT(30) DEF ResolveConfirmed, Advance, Enqueued
  <2>6. MovedOnWhenSettled'
    BY <1>4, SMTT(30) DEF ResolveConfirmed, Advance, Enqueued
  <2>7. OnlySkipsStrand'
    BY <1>4, SMTT(30) DEF ResolveConfirmed, Advance, Enqueued
  <2>8. SucceededMeansSettled'
    BY <1>4, SMTT(30) DEF ResolveConfirmed, Advance, Enqueued
  <2>9. CutoffsAreOpen' /\ AllowedBefore' /\ SentWasReached'
    BY <1>4, SMTT(30) DEF ResolveConfirmed, Advance, Enqueued
  <2> QED
    BY <2>1, <2>2, <2>3, <2>4, <2>5, <2>6, <2>7, <2>8, <2>9
<1> QED
  BY <1>1, <1>2, <1>3, <1>4

\* Every step keeps the invariant, and so does no step.
LEMMA StepPreserves ==
    ASSUME IInv, [Next]_vars
    PROVE  IInv'
<1>1. CASE Pause \/ Approve
  BY <1>1, MembersPreserve
<1>2. CASE \E e \in Enrollments :
             EnrollContact(e) \/ CancelEnrollment(e) \/ Reply(e) \/ Feedback(e)
  BY <1>2, EnrollmentPreserves
<1>3. CASE \E c \in Contacts : Unsubscribe(c) \/ ToggleArchived(c)
  BY <1>3, ContactPreserves
<1>4. CASE \E w \in Workers : (\E k \in Sends : Take(w, k)) \/ Crash(w)
  BY <1>4, WorkerPreserves
<1>5. CASE \E w \in Workers : HandlerStep(w)
  BY <1>5, HandlerPreserves
<1>6. CASE \E k \in Sends :
             GiveUp(k) \/ Replay(k) \/ ResolveRetry(k) \/ ResolveConfirmed(k)
  BY <1>6, OperatorPreserves
<1>7. CASE UNCHANGED vars
  BY <1>7, SMTT(30) DEF vars, IInv, TypeOK, TasksAreSends, OwnedIsTaken, NotStarted, Cadence,
            WorkIsReached, OkIsSettled, MovedOnWhenSettled, OnlySkipsStrand,
            SucceededMeansSettled, CutoffsAreOpen, AllowedBefore, SentWasReached,
            Current, Calls, Verdicts, Ended, Deliveries, cadenceVars, jobVars,
            workerVars, history
<1> QED
  BY <1>1, <1>2, <1>3, <1>4, <1>5, <1>6, <1>7 DEF Next

\* The inductive invariant of a sequence and its workers.
THEOREM Invariance == Spec => []IInv
<1>1. Init => IInv
  BY InitEstablishes
<1>2. IInv /\ [Next]_vars => IInv'
  BY StepPreserves
<1> QED
  BY <1>1, <1>2, PTL DEF Spec

-----------------------------------------------------------------------------
\* Enrollments, delivery rows, jobs and handlers have their types.
THEOREM TypeCorrect == Spec => []TypeOK
<1>1. IInv => TypeOK
  BY DEF IInv
<1> QED
  BY <1>1, Invariance, PTL

\* The cadence is walked step by step, whatever stale workers and operators do.
THEOREM StepsAreInOrder == Spec => []StepsInOrder
<1>1. ASSUME IInv
      PROVE  StepsInOrder
  <2>1. Cadence
    BY <1>1 DEF IInv
  <2>2. ASSUME NEW e \in Enrollments, NEW s \in 1..Steps
        PROVE  /\ s < step[e] => delivery[<<e, s>>] = "sent"
               /\ s > step[e] => /\ delivery[<<e, s>>] = "none"
                                /\ jobPhase[<<e, s>>] = "none"
    <3>1. <<e, s>> \in Sends /\ <<e, s>>[1] = e /\ <<e, s>>[2] = s
      BY DEF Sends
    <3>2. /\ <<e, s>>[2] < step[<<e, s>>[1]] => delivery[<<e, s>>] = "sent"
          /\ <<e, s>>[2] > step[<<e, s>>[1]] => /\ delivery[<<e, s>>] = "none"
                                              /\ jobPhase[<<e, s>>] = "none"
      BY <2>1, <3>1, Zenon DEF Cadence
    <3> QED
      BY <3>1, <3>2, Zenon
  <2> QED
    BY <2>2, Zenon DEF StepsInOrder
<1> QED
  BY <1>1, Invariance, PTL

\* Delivery, enrollment and job agree about what is done and what is left.
THEOREM SendsAreAccountedFor == Spec => []SendsAccountedFor
<1>1. IInv => SendsAccountedFor
  BY DEF IInv, SendsAccountedFor
<1> QED
  BY <1>1, Invariance, PTL

\* No step after the one that was under way when the contact was suppressed is
\* ever sent.
THEOREM SuppressionHolds == Spec => []NothingAfterSuppression
<1>1. ASSUME IInv
      PROVE  NothingAfterSuppression
  <2>1. TypeOK /\ SentWasReached
    BY <1>1 DEF IInv
  <2>2. ASSUME NEW e \in Enrollments, NEW s \in 1..Steps
        PROVE  <<e, s>> \in Sends /\ <<e, s>>[1] = e /\ <<e, s>>[2] = s
    BY DEF Sends
  <2> QED
    BY <2>1, <2>2 DEF SentWasReached, NothingAfterSuppression
<1> QED
  BY <1>1, Invariance, PTL

\* EndedStaysEnded, of one step.
KeepsEndings ==
    \A e \in Enrollments :
        enrollment[e] \in Ended =>
            enrollment'[e] = enrollment[e] /\ step'[e] = step[e]

\* One step changes the position or the ending of no enrollment that ended.
LEMMA StepKeepsEndings ==
    ASSUME IInv, Next
    PROVE  KeepsEndings
<1> USE SendParts DEF KeepsEndings, Ended, IInv, TypeOK, TasksAreSends, Current,
        cadenceVars
<1>1. CASE Pause \/ Approve
  BY <1>1, SMTT(30) DEF Pause, Approve
<1>2. ASSUME NEW e \in Enrollments,
             EnrollContact(e) \/ CancelEnrollment(e) \/ Reply(e) \/ Feedback(e)
      PROVE  KeepsEndings
  BY <1>2, SMTT(30) DEF EnrollContact, CancelEnrollment, Reply, Feedback, Leaves
<1>3. ASSUME NEW c \in Contacts, Unsubscribe(c) \/ ToggleArchived(c)
      PROVE  KeepsEndings
  BY <1>3, SMTT(30) DEF Unsubscribe, ToggleArchived
<1>4. ASSUME NEW w \in Workers, (\E k \in Sends : Take(w, k)) \/ Crash(w)
      PROVE  KeepsEndings
  BY <1>4, SMTT(30) DEF Take, Crash
<1>5. ASSUME NEW w \in Workers, HandlerStep(w)
      PROVE  KeepsEndings
  <2>1. CASE FinalizeSuppressed(w)
    BY <2>1, SMTT(30) DEF FinalizeSuppressed
  <2>2. CASE FinalizeSent(w)
    BY <2>2, SMTT(30) DEF FinalizeSent, Advance
  <2>3. CASE \/ Load(w) \/ LoadWhy(w) \/ Prepare(w) \/ Quarantine(w)
             \/ CheckAllowed(w) \/ CheckRefused(w) \/ ClaimDelivery(w)
             \/ Classify(w) \/ CallProvider(w) \/ MarkAfterAttempt(w)
             \/ CallFails(w) \/ Settle(w) \/ Disowned(w)
    BY <2>3, SMTT(30) DEF Load, LoadWhy, Prepare, Quarantine, CheckAllowed,
       CheckRefused, ClaimDelivery, Classify, CallProvider, MarkAfterAttempt,
       CallFails, Settle, Disowned
  <2> QED
    BY <1>5, <2>1, <2>2, <2>3 DEF HandlerStep
<1>6. ASSUME NEW k \in Sends,
             GiveUp(k) \/ Replay(k) \/ ResolveRetry(k) \/ ResolveConfirmed(k)
      PROVE  KeepsEndings
  BY <1>6, SMTT(30) DEF GiveUp, Replay, ResolveRetry, ResolveConfirmed, Advance
<1> QED
  BY <1>1, <1>2, <1>3, <1>4, <1>5, <1>6 DEF Next

\* An enrollment that ended keeps its ending and its position.
THEOREM EndingsStand == Spec => EndedStaysEnded
<1>1. IInv /\ [Next]_vars => [KeepsEndings]_vars
  BY StepKeepsEndings
<1>2. [][KeepsEndings]_vars => EndedStaysEnded
  BY DEF EndedStaysEnded, KeepsEndings
<1> QED
  BY <1>1, <1>2, Invariance, PTL DEF Spec
-----------------------------------------------------------------------------
(***************************************************************************)
(* SequenceDelivery implements SendPermits.  Delivery rows, guarded        *)
(* transitions and quarantined attempts are how it is done; that no        *)
(* message is handed to the provider more often than somebody decided is   *)
(* what the recipient is promised.                                         *)
(***************************************************************************)

\* The workers about to hand a message to the provider.
Senders(k) == {w \in Workers : pc[w] = "send" /\ task[w] = k}

\* A delivery that waits has used up every permit but the next one; one that
\* was claimed has used up all of them; a suppressed one was waiting.
PermitsTaken ==
    \A k \in Sends :
        /\ delivery[k] \in {"none", "queued", "suppressed"} => claims[k] = rearms[k]
        /\ delivery[k] \in {"sending", "uncertain", "sent"} => claims[k] = rearms[k] + 1

\* Whoever is about to call the provider holds a claim of its own, that no
\* call was made for yet.
CallsInHand ==
    \A k \in Sends :
        /\ IsFiniteSet(Senders(k))
        /\ sends[k] + Cardinality(Senders(k)) <= claims[k]

PermitInv == PermitsTaken /\ CallsInHand

\* Nothing is claimed and nobody is working when a sequence is created.
LEMMA PermitsBegin == Init => PermitInv
<1> SUFFICES ASSUME Init PROVE PermitInv
  OBVIOUS
<1>1. PermitsTaken
  BY DEF Init, PermitsTaken
<1>2. ASSUME NEW k \in Sends
      PROVE  IsFiniteSet(Senders(k)) /\ sends[k] + Cardinality(Senders(k)) <= claims[k]
  <2>1. Senders(k) = {}
    BY DEF Init, Senders
  <2>2. sends[k] = 0 /\ claims[k] = 0
    BY DEF Init
  <2> QED
    BY <2>1, <2>2, FS_EmptySet
<1> QED
  BY <1>1, <1>2 DEF PermitInv, CallsInHand

\* Nobody starts on a call, no call is made and no claim taken.
NoNewSender ==
    /\ sends' = sends
    /\ claims' = claims
    /\ \A w \in Workers : pc'[w] = "send" => pc[w] = "send" /\ task'[w] = task[w]

\* Then whoever is still about to call holds the claim it held.
LEMMA CallsStayInHand ==
    ASSUME CallsInHand, TypeOK, NoNewSender
    PROVE  CallsInHand'
<1>1. ASSUME NEW k \in Sends
      PROVE  /\ IsFiniteSet(Senders(k)')
             /\ sends'[k] + Cardinality(Senders(k)') <= claims'[k]
  <2>1. Senders(k)' \subseteq Senders(k)
    BY DEF NoNewSender, Senders
  <2>2. /\ IsFiniteSet(Senders(k))
        /\ sends[k] + Cardinality(Senders(k)) <= claims[k]
    BY DEF CallsInHand
  <2>3. /\ IsFiniteSet(Senders(k)')
        /\ Cardinality(Senders(k)') <= Cardinality(Senders(k))
    BY <2>1, <2>2, FS_Subset
  <2>4. /\ Cardinality(Senders(k)') \in Nat
        /\ Cardinality(Senders(k)) \in Nat
    BY <2>2, <2>3, FS_CardinalityType
  <2>5. sends'[k] = sends[k] /\ claims'[k] = claims[k] /\ sends[k] \in Nat /\ claims[k] \in Nat
    BY DEF NoNewSender, TypeOK
  <2> QED
    BY <2>2, <2>3, <2>4, <2>5
<1> QED
  BY <1>1 DEF CallsInHand

\* A claim gives its worker, and at most its worker, one more call to make.
LEMMA ClaimKeepsCalls ==
    ASSUME CallsInHand, TypeOK, TasksAreSends, NEW w \in Workers, ClaimDelivery(w)
    PROVE  CallsInHand'
<1> PICK t \in Sends : t = task[w]
  BY DEF TasksAreSends, ClaimDelivery
<1>1. CASE claims' = claims
  <2>1. NoNewSender
    BY <1>1, SMTT(30) DEF ClaimDelivery, Answer, Goto, NoNewSender, history, TypeOK, workerVars
  <2> QED
    BY <2>1, CallsStayInHand
<1>2. CASE claims' # claims
  <2>1. /\ claims' = [claims EXCEPT ![t] = @ + 1]
        /\ sends' = sends
        /\ task' = task
        /\ pc' = [pc EXCEPT ![w] = "send"] \/ pc' = [pc EXCEPT ![w] = "error"]
        /\ pc[w] = "claim"
    BY <1>2, SMTT(30) DEF ClaimDelivery, Answer, Goto
  <2>2. ASSUME NEW k \in Sends
        PROVE  /\ IsFiniteSet(Senders(k)')
               /\ sends'[k] + Cardinality(Senders(k)') <= claims'[k]
    <3>1. /\ IsFiniteSet(Senders(k))
          /\ sends[k] + Cardinality(Senders(k)) <= claims[k]
          /\ Cardinality(Senders(k)) \in Nat
          /\ sends[k] \in Nat /\ claims[k] \in Nat
      BY FS_CardinalityType DEF CallsInHand, TypeOK
    <3>2. CASE Senders(k)' = Senders(k)
      <4>1. claims'[k] \in {claims[k], claims[k] + 1} /\ sends'[k] = sends[k]
        BY <2>1, <3>1 DEF TypeOK
      <4> QED
        BY <3>1, <3>2, <4>1
    <3>3. CASE Senders(k)' # Senders(k)
      <4>1. k = t /\ Senders(k)' = Senders(k) \cup {w} /\ w \notin Senders(k)
        BY <2>1, <3>3 DEF Senders, TypeOK
      <4>2. claims'[k] = claims[k] + 1 /\ sends'[k] = sends[k]
        BY <2>1, <4>1 DEF TypeOK
      <4>3. /\ IsFiniteSet(Senders(k)')
            /\ Cardinality(Senders(k)') = Cardinality(Senders(k)) + 1
        BY <3>1, <4>1, FS_AddElement
      <4> QED
        BY <3>1, <4>2, <4>3
    <3> QED
      BY <3>2, <3>3
  <2> QED
    BY <2>2 DEF CallsInHand
<1> QED
  BY <1>1, <1>2

\* A call is made by one of those about to make it.
LEMMA CallKeepsCalls ==
    ASSUME CallsInHand, TypeOK, TasksAreSends, NEW w \in Workers, CallProvider(w)
    PROVE  CallsInHand' /\ sends[task[w]] < claims[task[w]]
<1> PICK t \in Sends : t = task[w]
  BY DEF TasksAreSends, CallProvider
<1>1. /\ sends' = [sends EXCEPT ![t] = @ + 1]
      /\ claims' = claims
      /\ task' = task
      /\ pc' = [pc EXCEPT ![w] = "finalize"] \/ pc' = [pc EXCEPT ![w] = "mark"]
      /\ pc[w] = "send"
  BY SMTT(30) DEF CallProvider, Answer, Goto
<1>2. ASSUME NEW k \in Sends
      PROVE  /\ IsFiniteSet(Senders(k))
             /\ sends[k] + Cardinality(Senders(k)) <= claims[k]
             /\ Cardinality(Senders(k)) \in Nat
             /\ sends[k] \in Nat /\ claims[k] \in Nat
  BY FS_CardinalityType DEF CallsInHand, TypeOK
<1>3. w \in Senders(t)
  BY <1>1 DEF Senders
<1>4. Cardinality(Senders(t)) # 0
  BY <1>2, <1>3, FS_EmptySet
<1>5. sends[t] < claims[t]
  BY <1>2, <1>4
<1>6. ASSUME NEW k \in Sends
      PROVE  /\ IsFiniteSet(Senders(k)')
             /\ sends'[k] + Cardinality(Senders(k)') <= claims'[k]
  <2>1. CASE k = t
    <3>1. Senders(k)' = Senders(k) \ {w}
      BY <1>1, <2>1 DEF Senders, TypeOK
    <3>2. /\ IsFiniteSet(Senders(k)')
          /\ Cardinality(Senders(k)') = Cardinality(Senders(k)) - 1
      BY <1>2, <1>3, <2>1, <3>1, FS_RemoveElement
    <3>3. sends'[k] = sends[k] + 1 /\ claims'[k] = claims[k]
      BY <1>1, <2>1 DEF TypeOK
    <3> QED
      BY <1>2, <3>2, <3>3
  <2>2. CASE k # t
    <3>1. Senders(k)' = Senders(k)
      BY <1>1, <2>2 DEF Senders, TypeOK
    <3>2. sends'[k] = sends[k] /\ claims'[k] = claims[k]
      BY <1>1, <2>2 DEF TypeOK
    <3> QED
      BY <1>2, <3>1, <3>2
  <2> QED
    BY <2>1, <2>2
<1> QED
  BY <1>5, <1>6 DEF CallsInHand

\* What a step other than a claim or a call does to the workers.
LEMMA OthersStartNoCall ==
    ASSUME IInv, Next,
           ~ \E w \in Workers : ClaimDelivery(w) \/ CallProvider(w)
    PROVE  NoNewSender
<1> USE DEF NoNewSender, Goto, history, workerVars
<1>1. ASSUME sends' = sends, claims' = claims, pc' = pc, task' = task
      PROVE  NoNewSender
  BY <1>1
<1>2. ASSUME NEW w \in Workers, NEW p, p # "send",
             sends' = sends, claims' = claims, task' = task,
             pc' = [pc EXCEPT ![w] = p]
      PROVE  NoNewSender
  BY <1>2 DEF IInv, TypeOK
<1>3. ASSUME NEW w \in Workers, NEW p, p # "send", NEW k,
             sends' = sends, claims' = claims, task' = [task EXCEPT ![w] = k],
             pc' = [pc EXCEPT ![w] = p]
      PROVE  NoNewSender
  BY <1>3 DEF IInv, TypeOK
<1>4. CASE Pause \/ Approve
  BY <1>1, <1>4, Zenon DEF Pause, Approve
<1>5. ASSUME NEW e \in Enrollments,
             EnrollContact(e) \/ CancelEnrollment(e) \/ Reply(e) \/ Feedback(e)
      PROVE  NoNewSender
  BY <1>1, <1>5, Zenon DEF EnrollContact, CancelEnrollment, Reply, Feedback
<1>6. ASSUME NEW c \in Contacts, Unsubscribe(c) \/ ToggleArchived(c)
      PROVE  NoNewSender
  BY <1>1, <1>6, Zenon DEF Unsubscribe, ToggleArchived
<1>7. ASSUME NEW w \in Workers, NEW k \in Sends, Take(w, k)
      PROVE  NoNewSender
  <2>1. "load" # "send"
    OBVIOUS
  <2> QED
    BY <1>3, <1>7, <2>1, Zenon DEF Take
<1>8. ASSUME NEW w \in Workers, Crash(w) \/ Settle(w) \/ Disowned(w)
      PROVE  NoNewSender
  <2>1. "idle" # "send"
    OBVIOUS
  <2> QED
    BY <1>3, <1>8, <2>1, Zenon DEF Crash, Settle, Disowned, BackToIdle
<1>9. ASSUME NEW w \in Workers,
             \/ Load(w) \/ LoadWhy(w) \/ Prepare(w) \/ Quarantine(w)
             \/ CheckAllowed(w) \/ CheckRefused(w) \/ FinalizeSuppressed(w)
             \/ Classify(w) \/ FinalizeSent(w) \/ MarkAfterAttempt(w)
             \/ CallFails(w)
      PROVE  NoNewSender
  <2>1. /\ sends' = sends
        /\ claims' = claims
        /\ task' = task
    BY <1>9, Zenon DEF Load, LoadWhy, Prepare, Quarantine, CheckAllowed, CheckRefused,
       FinalizeSuppressed, Classify, FinalizeSent, MarkAfterAttempt, CallFails
  <2>2. \E p : p # "send" /\ pc' = [pc EXCEPT ![w] = p]
    <3>1. CASE Load(w)
      BY <3>1 DEF Load
    <3>2. CASE LoadWhy(w)
      BY <3>2 DEF LoadWhy
    <3>3. CASE Prepare(w)
      BY <3>3, SMTT(30) DEF Prepare, Answer, IInv, TypeOK, Deliveries, TasksAreSends
    <3>4. CASE Quarantine(w)
      BY <3>4 DEF Quarantine, Answer
    <3>5. CASE CheckAllowed(w) \/ CheckRefused(w)
      BY <3>5 DEF CheckAllowed, CheckRefused
    <3>6. CASE FinalizeSuppressed(w)
      BY <3>6 DEF FinalizeSuppressed, Answer
    <3>7. CASE Classify(w)
      <4>1. PICK k \in Sends : k = task[w]
        BY <3>7 DEF Classify, IInv, TasksAreSends
      <4>2. \/ delivery[k] \in {"sending", "uncertain"}
            \/ delivery[k] \in {"sent", "suppressed"}
            \/ delivery[k] \in {"none", "queued"}
        BY DEF IInv, TypeOK, Deliveries
      <4>3. CASE delivery[k] \in {"sending", "uncertain"}
        BY <3>7, <4>1, <4>3 DEF Classify
      <4>4. CASE delivery[k] \in {"sent", "suppressed"}
        BY <3>7, <4>1, <4>4 DEF Classify
      <4>5. CASE delivery[k] \in {"none", "queued"}
        BY <3>7, <4>1, <4>5 DEF Classify
      <4> QED
        BY <4>2, <4>3, <4>4, <4>5
    <3>8. CASE FinalizeSent(w)
      BY <3>8 DEF FinalizeSent, Answer
    <3>9. CASE MarkAfterAttempt(w)
      BY <3>9 DEF MarkAfterAttempt
    <3>10. CASE CallFails(w)
      <4>1. CASE pc[w] \in {"send", "finalize"}
        BY <3>10, <4>1 DEF CallFails
      <4>2. CASE pc[w] = "mark"
        BY <3>10, <4>2 DEF CallFails
      <4>3. CASE pc[w] \notin {"send", "finalize", "mark"}
        BY <3>10, <4>3 DEF CallFails
      <4> QED
        BY <4>1, <4>2, <4>3
    <3> QED
      BY <1>9, <3>1, <3>2, <3>3, <3>4, <3>5, <3>6, <3>7, <3>8, <3>9, <3>10
  <2> QED
    BY <1>2, <2>1, <2>2
<1>10. ASSUME NEW k \in Sends,
              GiveUp(k) \/ Replay(k) \/ ResolveRetry(k) \/ ResolveConfirmed(k)
       PROVE  NoNewSender
  BY <1>1, <1>10, Zenon DEF GiveUp, Replay, ResolveRetry, ResolveConfirmed
<1> QED
  BY <1>4, <1>5, <1>6, <1>7, <1>8, <1>9, <1>10 DEF Next, HandlerStep

\* One delivery row moves: the permits it stands for move with it.
LEMMA RowMoves ==
    ASSUME PermitsTaken, TypeOK, NEW k \in Sends, NEW d,
           delivery' = [delivery EXCEPT ![k] = d],
           claims' = claims, rearms' = rearms,
           \/ d = delivery[k]
           \/ delivery[k] = "none" /\ d = "queued"
           \/ delivery[k] \in {"sending", "uncertain"} /\ d \in {"uncertain", "sent"}
           \/ delivery[k] = "queued" /\ d = "suppressed"
    PROVE  PermitsTaken'
BY DEF PermitsTaken, TypeOK

\* Every step keeps the delivery rows true to the permits taken.
LEMMA PermitsStayTaken ==
    ASSUME IInv, PermitsTaken, [Next]_vars
    PROVE  PermitsTaken'
<1> USE DEF history
<1>1. ASSUME delivery' = delivery, claims' = claims, rearms' = rearms
      PROVE  PermitsTaken'
  BY <1>1 DEF PermitsTaken
<1>2. CASE Pause \/ Approve
  BY <1>1, <1>2, Zenon DEF Pause, Approve
<1>3. ASSUME NEW e \in Enrollments,
             EnrollContact(e) \/ CancelEnrollment(e) \/ Reply(e) \/ Feedback(e)
      PROVE  PermitsTaken'
  BY <1>1, <1>3, Zenon DEF EnrollContact, CancelEnrollment, Reply, Feedback
<1>4. ASSUME NEW c \in Contacts, Unsubscribe(c) \/ ToggleArchived(c)
      PROVE  PermitsTaken'
  BY <1>1, <1>4, Zenon DEF Unsubscribe, ToggleArchived
<1>5. ASSUME NEW w \in Workers, (\E k \in Sends : Take(w, k)) \/ Crash(w)
      PROVE  PermitsTaken'
  BY <1>1, <1>5, Zenon DEF Take, Crash
<1>6. ASSUME NEW w \in Workers, HandlerStep(w)
      PROVE  PermitsTaken'
  <2>1. CASE \/ Load(w) \/ LoadWhy(w) \/ CheckAllowed(w) \/ CheckRefused(w)
             \/ Classify(w) \/ CallProvider(w) \/ CallFails(w) \/ Settle(w)
             \/ Disowned(w)
    BY <1>1, <2>1, Zenon DEF Load, LoadWhy, CheckAllowed, CheckRefused, Classify,
       CallProvider, CallFails, Settle, Disowned
  <2>2. CASE Prepare(w) \/ Quarantine(w) \/ FinalizeSuppressed(w) \/ FinalizeSent(w)
             \/ MarkAfterAttempt(w)
    <3>1. PICK k \in Sends : k = task[w]
      BY <2>2, Zenon DEF IInv, TasksAreSends, Prepare, Quarantine, FinalizeSuppressed,
         FinalizeSent, MarkAfterAttempt
    <3>2. claims' = claims /\ rearms' = rearms
      BY <2>2, Zenon DEF Prepare, Quarantine, FinalizeSuppressed, FinalizeSent,
         MarkAfterAttempt
    <3>3. TypeOK
      BY DEF IInv
    <3>4. CASE Prepare(w)
      <4>1. delivery' = [delivery EXCEPT ![k] = IF delivery[k] = "none" THEN "queued" ELSE delivery[k]]
        BY <3>1, <3>3, <3>4 DEF Prepare, TypeOK
      <4>2. CASE delivery[k] = "none"
        BY <3>2, <3>3, <4>1, <4>2, RowMoves
      <4>3. CASE delivery[k] # "none"
        BY <3>2, <3>3, <4>1, <4>3, RowMoves
      <4> QED
        BY <4>2, <4>3
    <3>5. CASE Quarantine(w) \/ MarkAfterAttempt(w)
      BY <3>1, <3>2, <3>3, <3>5, RowMoves, SMTT(30) DEF Quarantine, MarkAfterAttempt, MarkUncertain
    <3>6. CASE FinalizeSuppressed(w)
      BY <1>1, <3>1, <3>2, <3>3, <3>6, RowMoves, SMTT(30) DEF FinalizeSuppressed
    <3>7. CASE FinalizeSent(w)
      BY <1>1, <3>1, <3>2, <3>3, <3>7, RowMoves, SMTT(30) DEF FinalizeSent
    <3> QED
      BY <2>2, <3>4, <3>5, <3>6, <3>7
  <2>3. CASE ClaimDelivery(w)
    <3>1. PICK k \in Sends : k = task[w]
      BY <2>3, Zenon DEF IInv, TasksAreSends, ClaimDelivery
    <3> QED
      BY <1>1, <2>3, <3>1, SMTT(30) DEF ClaimDelivery, PermitsTaken, IInv, TypeOK
  <2> QED
    BY <1>6, <2>1, <2>2, <2>3, Zenon DEF HandlerStep
<1>7. ASSUME NEW k \in Sends, GiveUp(k) \/ Replay(k)
      PROVE  PermitsTaken'
  BY <1>1, <1>7, Zenon DEF GiveUp, Replay
<1>8. ASSUME NEW k \in Sends, ResolveRetry(k)
      PROVE  PermitsTaken'
  BY <1>8, SMTT(30) DEF ResolveRetry, PermitsTaken, IInv, TypeOK
<1>9. ASSUME NEW k \in Sends, ResolveConfirmed(k)
      PROVE  PermitsTaken'
  <2>1. /\ delivery' = [delivery EXCEPT ![k] = "sent"]
        /\ delivery[k] = "uncertain"
        /\ claims' = claims
        /\ rearms' = rearms
    BY <1>9, Zenon DEF ResolveConfirmed
  <2> QED
    BY <2>1, RowMoves DEF IInv
<1>10. CASE UNCHANGED vars
  BY <1>1, <1>10, Zenon DEF vars
<1> QED
  BY <1>2, <1>3, <1>4, <1>5, <1>6, <1>7, <1>8, <1>9, <1>10, Zenon DEF Next

\* Every step keeps calls covered by permits.
LEMMA PermitsPreserved ==
    ASSUME IInv, PermitInv, [Next]_vars
    PROVE  PermitInv'
<1> USE DEF IInv, PermitInv
<1>1. PermitsTaken'
  BY PermitsStayTaken
<1>2. CASE \E w \in Workers : ClaimDelivery(w)
  BY <1>1, <1>2, ClaimKeepsCalls
<1>3. CASE \E w \in Workers : CallProvider(w)
  BY <1>1, <1>3, CallKeepsCalls
<1>4. CASE ~ \E w \in Workers : ClaimDelivery(w) \/ CallProvider(w)
  <2>1. CASE Next
    BY <1>1, <1>4, <2>1, OthersStartNoCall, CallsStayInHand
  <2>2. CASE UNCHANGED vars
    <3>1. NoNewSender
      BY <2>2 DEF vars, NoNewSender
    <3> QED
      BY <1>1, <3>1, CallsStayInHand
  <2> QED
    BY <2>1, <2>2
<1> QED
  BY <1>2, <1>3, <1>4

\* No message is handed to the provider without a permit of its own.
THEOREM PermitsHold == Spec => [](IInv /\ PermitInv)
<1>1. Init => IInv /\ PermitInv
  BY InitEstablishes, PermitsBegin
<1>2. IInv /\ PermitInv /\ [Next]_vars => (IInv /\ PermitInv)'
  BY StepPreserves, PermitsPreserved
<1> QED
  BY <1>1, <1>2, PTL DEF Spec

-----------------------------------------------------------------------------
(* The steps of the sequence, as steps of SendPermits.                     *)

\* Which enrollments are live, and how many permits each send may have.
Live == [e \in Enrollments |-> enrollment[e] = "active"]
Permitted == [k \in Sends |-> rearms[k] + 1]

\* One step of SendPermits, or none, through what it sees of the sequence.
PermitsStep == [Permits!Next]_(Permits!vars)

\* A step that changes none of what SendPermits sees is a stutter.
LEMMA PermitStutter ==
    ASSUME UNCHANGED <<seqActive, enrollment, step, rearms, claims, sends>>
    PROVE  PermitsStep
BY DEF PermitsStep, Permits!vars

\* Leaving "active" for good ends the enrollment.
LEMMA PermitEnds ==
    ASSUME TypeOK, NEW e \in Enrollments, NEW how, how # "active",
           enrollment[e] = "active",
           enrollment' = [enrollment EXCEPT ![e] = how],
           UNCHANGED <<seqActive, step, rearms, claims, sends>>
    PROVE  PermitsStep
<1>1. Live[e]
  BY Zenon DEF Live
<1>2. Live' = [Live EXCEPT ![e] = FALSE]
  <2>1. \A f \in Enrollments : (enrollment'[f] = "active") = [Live EXCEPT ![e] = FALSE][f]
    <3> SUFFICES ASSUME NEW f \in Enrollments
                 PROVE  (enrollment'[f] = "active") = [Live EXCEPT ![e] = FALSE][f]
      OBVIOUS
    <3>1. f = e => (enrollment'[f] = "active") = FALSE
      BY DEF TypeOK
    <3>2. f # e => enrollment'[f] = enrollment[f]
      BY DEF TypeOK
    <3> QED
      BY <3>1, <3>2, Zenon DEF Live
  <2> QED
    BY <2>1, Zenon DEF Live
<1>3. Permits!End(e)
  BY <1>1, <1>2, Zenon DEF Permits!End, Live
<1> QED
  BY <1>3, Zenon DEF PermitsStep, Permits!Next

\* Enrolling begins a cadence.
LEMMA PermitBegins ==
    ASSUME TypeOK, NEW e \in Enrollments,
           seqActive, step[e] = 0,
           enrollment' = [enrollment EXCEPT ![e] = "active"],
           step' = [step EXCEPT ![e] = 1],
           UNCHANGED <<seqActive, rearms, claims, sends>>
    PROVE  PermitsStep
<1>1. Live' = [Live EXCEPT ![e] = TRUE]
  <2>1. \A f \in Enrollments : (enrollment'[f] = "active") = [Live EXCEPT ![e] = TRUE][f]
    <3> SUFFICES ASSUME NEW f \in Enrollments
                 PROVE  (enrollment'[f] = "active") = [Live EXCEPT ![e] = TRUE][f]
      OBVIOUS
    <3>1. f = e => (enrollment'[f] = "active") = TRUE
      BY DEF TypeOK
    <3>2. f # e => enrollment'[f] = enrollment[f]
      BY DEF TypeOK
    <3> QED
      BY <3>1, <3>2, Zenon DEF Live
  <2> QED
    BY <2>1, Zenon DEF Live
<1>2. Permits!Begin(e)
  BY <1>1, Zenon DEF Permits!Begin, Live
<1> QED
  BY <1>2, Zenon DEF PermitsStep, Permits!Next

\* Moving on to the next step advances the cadence.
LEMMA PermitAdvances ==
    ASSUME TypeOK, NEW k \in Sends, Current(k), k[2] < Steps, claims[k] > 0,
           step' = [step EXCEPT ![k[1]] = step[k[1]] + 1],
           UNCHANGED <<seqActive, enrollment, rearms, claims, sends>>
    PROVE  PermitsStep
<1> DEFINE e == k[1]
<1>1. e \in Enrollments /\ k = <<e, step[e]>> /\ k[2] \in 1..Steps /\ step[e] = k[2]
  BY SendParts, Zenon DEF Current
<1>2. step[e] \in 1..(Steps - 1)
  BY <1>1, ConstantsAssumption
<1>3. Live[e]
  BY <1>1, Zenon DEF Live, Current
<1>4. claims[<<e, step[e]>>] > 0
  BY <1>1, Zenon
<1>5. Permits!Advance(e)
  BY <1>2, <1>3, <1>4, Zenon DEF Permits!Advance, Live
<1> QED
  BY <1>1, <1>5, Zenon DEF PermitsStep, Permits!Next

\* A claim is a permit granted.
LEMMA PermitGranted ==
    ASSUME TypeOK, NEW k \in Sends, Executable(k), claims[k] = rearms[k],
           claims' = [claims EXCEPT ![k] = claims[k] + 1],
           UNCHANGED <<seqActive, enrollment, step, rearms, sends>>
    PROVE  PermitsStep
<1> DEFINE e == k[1]
<1>1. e \in Enrollments /\ k = <<e, step[e]>>
  BY SendParts, Zenon DEF Current, Executable
<1>2. Live[e] /\ seqActive
  BY <1>1, Zenon DEF Live, Current, Executable
<1>3. claims[k] < rearms[k] + 1
  BY DEF TypeOK
<1>4. claims[k] < Permitted[k]
  BY <1>3, Zenon DEF Permitted
<1>5. Permits!Grant(e)
  BY <1>1, <1>2, <1>4, Zenon DEF Permits!Grant, Live, Permitted
<1> QED
  BY <1>1, <1>5, Zenon DEF PermitsStep, Permits!Next

\* A provider call uses one.
LEMMA PermitUsed ==
    ASSUME TypeOK, NEW k \in Sends, sends[k] < claims[k],
           sends' = [sends EXCEPT ![k] = sends[k] + 1],
           UNCHANGED <<seqActive, enrollment, step, rearms, claims>>
    PROVE  PermitsStep
<1>1. Permits!Use(k)
  BY Zenon DEF Permits!Use
<1>2. k \in Permits!Sends
  BY DEF Permits!Sends, Sends
<1> QED
  BY <1>1, <1>2, Zenon DEF PermitsStep, Permits!Next

\* An administrator's retry allows one more.
LEMMA PermitAllowed ==
    ASSUME TypeOK, NEW k \in Sends, claims[k] = rearms[k] + 1,
           rearms' = [rearms EXCEPT ![k] = rearms[k] + 1],
           UNCHANGED <<seqActive, enrollment, step, claims, sends>>
    PROVE  PermitsStep
<1>1. claims[k] = Permitted[k]
  BY Zenon DEF Permitted
<1>2. Permitted' = [Permitted EXCEPT ![k] = Permitted[k] + 1]
  BY DEF Permitted, TypeOK
<1>3. Permits!Allow(k)
  BY <1>1, <1>2, Zenon DEF Permits!Allow, Permitted
<1>4. k \in Permits!Sends
  BY DEF Permits!Sends, Sends
<1> QED
  BY <1>3, <1>4, Zenon DEF PermitsStep, Permits!Next

\* Advancing moves the enrollment on, ends it, or leaves it alone.
LEMMA AdvancePermitted ==
    ASSUME TypeOK, NEW k \in Sends, claims[k] > 0, Advance(k),
           UNCHANGED <<seqActive, rearms, claims, sends>>
    PROVE  PermitsStep
<1> k[1] \in Enrollments
  BY SendParts, Zenon
<1>1. CASE Current(k) /\ k[2] < Steps
  <2>1. k[2] # Steps
    BY <1>1, SendParts, ConstantsAssumption
  <2>2. /\ step' = [step EXCEPT ![k[1]] = step[k[1]] + 1]
        /\ enrollment' = enrollment
    BY <1>1, <2>1 DEF Advance, TypeOK
  <2> QED
    BY <1>1, <2>2, PermitAdvances
<1>2. CASE Current(k) /\ k[2] = Steps
  <2>1. /\ step' = step
        /\ enrollment' = [enrollment EXCEPT ![k[1]] = "finished"]
    BY <1>2, ConstantsAssumption DEF Advance, TypeOK
  <2> QED
    BY <1>2, <2>1, PermitEnds DEF Current
<1>3. CASE ~Current(k)
  <2>1. step' = step /\ enrollment' = enrollment
    BY <1>3 DEF Advance, TypeOK
  <2> QED
    BY <2>1, PermitStutter
<1> QED
  BY <1>1, <1>2, <1>3, SendParts, ConstantsAssumption

\* A new sequence has no cadence under way and no permit taken.
LEMMA PermitsInit == Init => Permits!Init
<1> SUFFICES ASSUME Init PROVE Permits!Init
  OBVIOUS
<1>1. seqActive = FALSE
  BY Zenon DEF Init
<1>2. Live = [e \in Enrollments |-> FALSE]
  <2>1. \A e \in Enrollments : enrollment[e] # "active"
    <3>1. enrollment = [e \in Enrollments |-> "none"]
      BY Zenon DEF Init
    <3> QED
      BY <3>1
  <2>2. \A e \in Enrollments : (enrollment[e] = "active") = FALSE
    BY <2>1, Zenon
  <2> QED
    BY <2>2, Zenon DEF Live
<1>3. Permitted = [k \in Sends |-> 1]
  <2>1. \A k \in Sends : rearms[k] + 1 = 1
    BY DEF Init
  <2> QED
    BY <2>1, Zenon DEF Permitted
<1>4. Permits!Sends = Sends
  BY DEF Permits!Sends, Sends
<1> QED
  BY <1>1, <1>2, <1>3, <1>4, Zenon DEF Permits!Init, Init, Live, Permitted

\* Every step of the sequence is a step of SendPermits, or a stutter.
LEMMA PermitsNext ==
    ASSUME IInv, PermitInv, [Next]_vars
    PROVE  PermitsStep
<1> USE DEF history, cadenceVars
<1>0. TypeOK
  BY DEF IInv
<1>1. CASE Pause \/ Approve
  <2>1. (seqActive /\ seqActive' = FALSE) \/ (~seqActive /\ seqActive' = TRUE)
    BY <1>1, Zenon DEF Pause, Approve
  <2>2. UNCHANGED <<enrollment, step, rearms, claims, sends>>
    BY <1>1, Zenon DEF Pause, Approve
  <2>3. seqActive' = ~seqActive
    BY <2>1, Zenon
  <2>4. Permits!Switch
    BY <2>2, <2>3, Zenon DEF Permits!Switch
  <2> QED
    BY <2>4, Zenon DEF PermitsStep, Permits!Next
<1>2. ASSUME NEW e \in Enrollments, EnrollContact(e)
      PROVE  PermitsStep
  <2>1. step[e] = 0
    BY <1>2, Zenon DEF EnrollContact, IInv, NotStarted
  <2> QED
    BY <1>0, <1>2, <2>1, PermitBegins, Zenon DEF EnrollContact
<1>3. ASSUME NEW e \in Enrollments, CancelEnrollment(e) \/ Reply(e) \/ Feedback(e)
      PROVE  PermitsStep
  <2>1. UNCHANGED <<seqActive, step, rearms, claims, sends>>
    BY <1>3, Zenon DEF CancelEnrollment, Reply, Feedback
  <2>2. \/ enrollment' = enrollment
        \/ \E how : /\ how # "active"
                    /\ enrollment[e] = "active"
                    /\ enrollment' = [enrollment EXCEPT ![e] = how]
    BY <1>3 DEF CancelEnrollment, Reply, Feedback, Leaves
  <2> QED
    BY <1>0, <2>1, <2>2, PermitStutter, PermitEnds, Zenon
<1>4. ASSUME NEW c \in Contacts, Unsubscribe(c) \/ ToggleArchived(c)
      PROVE  PermitsStep
  BY <1>4, PermitStutter, Zenon DEF Unsubscribe, ToggleArchived
<1>5. ASSUME NEW w \in Workers, (\E k \in Sends : Take(w, k)) \/ Crash(w)
      PROVE  PermitsStep
  BY <1>5, PermitStutter, Zenon DEF Take, Crash
<1>6. ASSUME NEW w \in Workers, HandlerStep(w)
      PROVE  PermitsStep
  <2>1. CASE \/ Load(w) \/ LoadWhy(w) \/ Prepare(w) \/ Quarantine(w)
             \/ CheckAllowed(w) \/ CheckRefused(w) \/ Classify(w)
             \/ MarkAfterAttempt(w) \/ CallFails(w) \/ Settle(w) \/ Disowned(w)
    BY <2>1, PermitStutter, Zenon DEF Load, LoadWhy, Prepare, Quarantine, CheckAllowed,
       CheckRefused, Classify, MarkAfterAttempt, CallFails, Settle, Disowned
  <2>2. CASE FinalizeSuppressed(w)
    <3>1. PICK k \in Sends : k = task[w]
      BY <2>2, Zenon DEF IInv, TasksAreSends, FinalizeSuppressed
    <3>2. UNCHANGED <<seqActive, step, rearms, claims, sends>>
      BY <2>2, Zenon DEF FinalizeSuppressed
    <3>3. \/ enrollment' = enrollment
          \/ enrollment' = [enrollment EXCEPT ![k[1]] = IF Current(k) THEN "suppressed"
                                                        ELSE enrollment[k[1]]]
      BY <2>2, <3>1, SMTT(30) DEF FinalizeSuppressed
    <3>4. CASE enrollment' = enrollment
      BY <3>2, <3>4, PermitStutter, Zenon
    <3>5. CASE enrollment' # enrollment
      <4>1. /\ Current(k)
            /\ enrollment' = [enrollment EXCEPT ![k[1]] = "suppressed"]
        BY <1>0, <3>3, <3>5, SendParts DEF TypeOK
      <4>2. enrollment[k[1]] = "active" /\ k[1] \in Enrollments
        BY <4>1, SendParts, Zenon DEF Current
      <4>3. "suppressed" # "active"
        OBVIOUS
      <4> QED
        BY <1>0, <3>2, <4>1, <4>2, <4>3, PermitEnds, Zenon
    <3> QED
      BY <3>4, <3>5
  <2>3. CASE ClaimDelivery(w)
    <3>1. PICK k \in Sends : k = task[w]
      BY <2>3, Zenon DEF IInv, TasksAreSends, ClaimDelivery
    <3>2. UNCHANGED <<seqActive, enrollment, step, rearms, sends>>
      BY <2>3, Zenon DEF ClaimDelivery
    <3>3. \/ claims' = claims
          \/ /\ Executable(k)
             /\ delivery[k] = "queued"
             /\ claims' = [claims EXCEPT ![k] = claims[k] + 1]
      BY <2>3, <3>1, SMTT(30) DEF ClaimDelivery
    <3>4. delivery[k] = "queued" => claims[k] = rearms[k]
      BY DEF PermitInv, PermitsTaken
    <3> QED
      BY <1>0, <3>2, <3>3, <3>4, PermitStutter, PermitGranted, Zenon
  <2>4. CASE CallProvider(w)
    <3>1. PICK k \in Sends : k = task[w]
      BY <2>4, Zenon DEF IInv, TasksAreSends, CallProvider
    <3>2. UNCHANGED <<seqActive, enrollment, step, rearms, claims>>
      BY <2>4, Zenon DEF CallProvider
    <3>3. sends' = [sends EXCEPT ![k] = sends[k] + 1]
      BY <2>4, <3>1, SMTT(30) DEF CallProvider
    <3>4. sends[k] < claims[k]
      BY <2>4, <3>1, CallKeepsCalls, Zenon DEF IInv, PermitInv
    <3> QED
      BY <1>0, <3>2, <3>3, <3>4, PermitUsed, Zenon
  <2>5. CASE FinalizeSent(w)
    <3>1. PICK k \in Sends : k = task[w]
      BY <2>5, Zenon DEF IInv, TasksAreSends, FinalizeSent
    <3>2. UNCHANGED <<seqActive, rearms, claims, sends>>
      BY <2>5, Zenon DEF FinalizeSent
    <3>3. \/ UNCHANGED <<enrollment, step>>
          \/ delivery[k] = "sending" /\ Advance(k)
      BY <2>5, <3>1, Zenon DEF FinalizeSent
    <3>4. delivery[k] = "sending" => claims[k] > 0
      BY <1>0 DEF PermitInv, PermitsTaken, TypeOK
    <3> QED
      BY <1>0, <3>2, <3>3, <3>4, PermitStutter, AdvancePermitted, Zenon
  <2> QED
    BY <1>6, <2>1, <2>2, <2>3, <2>4, <2>5, Zenon DEF HandlerStep
<1>7. ASSUME NEW k \in Sends, GiveUp(k) \/ Replay(k)
      PROVE  PermitsStep
  BY <1>7, PermitStutter, Zenon DEF GiveUp, Replay
<1>8. ASSUME NEW k \in Sends, ResolveRetry(k)
      PROVE  PermitsStep
  <2>1. /\ UNCHANGED <<seqActive, enrollment, step, claims, sends>>
        /\ rearms' = [rearms EXCEPT ![k] = rearms[k] + 1]
        /\ delivery[k] = "uncertain"
    BY <1>8, SMTT(30) DEF ResolveRetry
  <2>2. claims[k] = rearms[k] + 1
    BY <2>1 DEF PermitInv, PermitsTaken
  <2> QED
    BY <1>0, <2>1, <2>2, PermitAllowed, Zenon
<1>9. ASSUME NEW k \in Sends, ResolveConfirmed(k)
      PROVE  PermitsStep
  <2>1. /\ UNCHANGED <<seqActive, rearms, claims, sends>>
        /\ delivery[k] = "uncertain"
        /\ Advance(k)
    BY <1>9, Zenon DEF ResolveConfirmed
  <2>2. claims[k] > 0
    BY <1>0, <2>1 DEF PermitInv, PermitsTaken, TypeOK
  <2> QED
    BY <1>0, <2>1, <2>2, AdvancePermitted, Zenon
<1>10. CASE UNCHANGED vars
  BY <1>10, PermitStutter, Zenon DEF vars
<1> QED
  BY <1>1, <1>2, <1>3, <1>4, <1>5, <1>6, <1>7, <1>8, <1>9, <1>10, Zenon DEF Next

\* Every provider call was permitted: by a running sequence and an active
\* enrollment at that step, once, and once more per administrator's retry.
THEOREM SequenceImplementsPermits == Spec => ImplementsPermits
<1>1. Init => Permits!Init
  BY PermitsInit
<1>2. IInv /\ PermitInv /\ [Next]_vars => [Permits!Next]_(Permits!vars)
  BY PermitsNext DEF PermitsStep
<1> QED
  BY <1>1, <1>2, PermitsHold, PTL DEF Spec, ImplementsPermits, Permits!Spec

\* The promise in one number: no message is handed to the provider more often
\* than once, and once more for each retry an administrator asked for.
NoUnaskedSend == \A k \in Sends : sends[k] <= 1 + rearms[k]

\* Nobody is sent a step twice unless an administrator decided so.
THEOREM NobodyIsSentTwice == Spec => []NoUnaskedSend
<1>1. ASSUME IInv, PermitInv
      PROVE  NoUnaskedSend
  <2>1. ASSUME NEW k \in Sends
        PROVE  sends[k] <= 1 + rearms[k]
    <3>1. sends[k] \in Nat /\ claims[k] \in Nat /\ rearms[k] \in Nat
      BY <1>1 DEF IInv, TypeOK
    <3>2. Cardinality(Senders(k)) \in Nat /\ sends[k] + Cardinality(Senders(k)) <= claims[k]
      BY <1>1, FS_CardinalityType DEF PermitInv, CallsInHand
    <3>3. sends[k] <= claims[k]
      BY <3>1, <3>2
    <3>4. CASE delivery[k] = "suppressed"
      BY <1>1, <3>1, <3>3, <3>4 DEF PermitInv, PermitsTaken
    <3>5. CASE delivery[k] # "suppressed"
      BY <1>1, <3>1, <3>3, <3>5 DEF PermitInv, PermitsTaken, IInv, TypeOK, Deliveries
    <3> QED
      BY <3>4, <3>5
  <2> QED
    BY <2>1 DEF NoUnaskedSend
<1> QED
  BY <1>1, PermitsHold, PTL
=============================================================================
