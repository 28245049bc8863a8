--------------------------- MODULE JobQueue_proofs --------------------------
(***************************************************************************)
(* Proofs about JobQueue, for every set of jobs, workers and tokens, every *)
(* lease length and every attempt limit.                                   *)
(***************************************************************************)
EXTENDS JobQueue, TLAPS

\* The initial state has the types TypeOK gives.
LEMMA InitTypeOK == Init => TypeOK
<1> SUFFICES ASSUME Init PROVE TypeOK
  OBVIOUS
<1>1. status \in [Jobs -> Statuses] /\ lockToken \in [Jobs -> Tokens \cup {NoToken}]
  BY DEF Init, Statuses
<1>2. /\ attempts \in [Jobs -> Nat] /\ lease \in [Jobs -> Nat]
      /\ age \in [Jobs -> Nat] /\ arrivals \in [Jobs -> Nat]
      /\ runAt \in [Jobs -> Int]
  BY DEF Init
<1>3. pc \in [Workers -> Places]
  BY DEF Init, Places
<1>4. /\ heldJob \in [Workers -> Jobs \cup {NoJob}]
      /\ heldToken \in [Workers -> Tokens \cup {NoToken}]
      /\ blocked \in BOOLEAN
  BY DEF Init
<1> QED
  BY <1>1, <1>2, <1>3, <1>4 DEF TypeOK

\* Every step of the queue keeps the types.
LEMMA NextTypeOK == TypeOK /\ [Next]_vars => TypeOK'
<1> SUFFICES ASSUME TypeOK, [Next]_vars PROVE TypeOK'
  OBVIOUS
<1> USE ConstantsAssumption DEF TypeOK, Statuses, Places, Waiting, Verdicts
<1>1. ASSUME NEW j \in Jobs, NEW d \in Delays, Enqueue(j, d) PROVE TypeOK'
  BY <1>1 DEF Enqueue, workerVars
<1>2. ASSUME NEW j \in Jobs, Replay(j) \/ Confirm(j) PROVE TypeOK'
  BY <1>2 DEF Replay, Confirm, workerVars
<1>3. ASSUME NEW S \in CancelSets, CancelWaiting(S) PROVE TypeOK'
  BY <1>3 DEF CancelWaiting, Cancellable, workerVars
<1>4. ASSUME NEW D \in SUBSET Jobs, ApplyRetention(D) PROVE TypeOK'
  BY <1>4 DEF ApplyRetention, Deletable, workerVars
<1>5. ASSUME NEW w \in Workers, ClaimNothing(w) PROVE TypeOK'
  BY <1>5 DEF ClaimNothing, workerVars
<1>6. ASSUME NEW w \in Workers, NEW j \in Jobs, NEW t \in Tokens,
             Claim(w, j, t)
      PROVE  TypeOK'
  <2>1. status' \in [Jobs -> Statuses] /\ lockToken' \in [Jobs -> Tokens \cup {NoToken}]
    BY <1>6 DEF Claim
  <2>2. attempts' \in [Jobs -> Nat] /\ lease' \in [Jobs -> Nat]
    BY <1>6 DEF Claim
  <2>3. pc' \in [Workers -> Places] /\ heldJob' \in [Workers -> Jobs \cup {NoJob}]
    BY <1>6 DEF Claim
  <2>4. heldToken' \in [Workers -> Tokens \cup {NoToken}]
    BY <1>6 DEF Claim
  <2> QED
    BY <1>6, <2>1, <2>2, <2>3, <2>4 DEF Claim
<1>7. ASSUME NEW w \in Workers, NEW v \in Verdicts, HandlerReturns(w, v)
      PROVE  TypeOK'
  BY <1>7 DEF HandlerReturns, rowVars
<1>8. ASSUME NEW w \in Workers, Complete(w) PROVE TypeOK'
  BY <1>8 DEF Complete, Release, LetGo
<1>9. ASSUME NEW w \in Workers, NEW d \in Delays, Defer(w, d) PROVE TypeOK'
  <2>1. status' \in [Jobs -> Statuses] /\ lockToken' \in [Jobs -> Tokens \cup {NoToken}]
    BY <1>9 DEF Defer, Release
  <2>2. attempts' \in [Jobs -> Nat]
    <3>1. \A a \in Nat : (IF a = 0 THEN 0 ELSE a - 1) \in Nat
      OBVIOUS
    <3>2. attempts' = [attempts EXCEPT ![heldJob[w]] = IF @ = 0 THEN 0 ELSE @ - 1]
      BY <1>9 DEF Defer
    <3>3. attempts \in [Jobs -> Nat]
      OBVIOUS
    <3> QED
      BY <3>1, <3>2, <3>3, Zenon
  <2>3. runAt' \in [Jobs -> Int] /\ lease' \in [Jobs -> Nat]
    BY <1>9 DEF Defer, Release
  <2>4. /\ pc' \in [Workers -> Places] /\ heldJob' \in [Workers -> Jobs \cup {NoJob}]
        /\ heldToken' \in [Workers -> Tokens \cup {NoToken}]
    BY <1>9 DEF Defer, Release, LetGo
  <2> QED
    BY <1>9, <2>1, <2>2, <2>3, <2>4 DEF Defer
<1>10. ASSUME NEW w \in Workers, Fail(w) PROVE TypeOK'
  BY <1>10 DEF Fail, Release, LetGo, RetryDelay
<1>11. ASSUME NEW w \in Workers, DeadLetter(w) PROVE TypeOK'
  BY <1>11 DEF DeadLetter, Release, LetGo
<1>12. ASSUME NEW w \in Workers, ClaimLost(w) \/ LoseContact(w) PROVE TypeOK'
  BY <1>12 DEF ClaimLost, LoseContact, LetGo, rowVars
<1>13. ASSUME NEW w \in Workers, Stop(w) \/ Start(w) PROVE TypeOK'
  BY <1>13 DEF Stop, Start, rowVars
<1>14. CASE Block \/ Unblock
  <2>1. UNCHANGED <<rowVars, arrivals, workerVars>>
    BY <1>14 DEF Block, Unblock
  <2>2. blocked' \in BOOLEAN
    BY <1>14 DEF Block, Unblock
  <2> QED
    BY <2>1, <2>2 DEF rowVars, workerVars
<1>15. CASE Tick
  BY <1>15 DEF Tick, Later, workerVars
<1>16. CASE UNCHANGED vars
  BY <1>16 DEF vars
<1> QED
  BY <1>1, <1>2, <1>3, <1>4, <1>5, <1>6, <1>7, <1>8, <1>9, <1>10, <1>11,
     <1>12, <1>13, <1>14, <1>15, <1>16 DEF Next, Poll, Finish

\* The columns and the workers' copies keep their types (JobQueue!TypeOK).
THEOREM TypeCorrect == Spec => []TypeOK
<1>1. Init => TypeOK
  BY InitTypeOK
<1>2. TypeOK /\ [Next]_vars => TypeOK'
  BY NextTypeOK
<1> QED
  BY <1>1, <1>2, PTL DEF Spec

-----------------------------------------------------------------------------
(* The inductive invariant.  The three properties of JobQueue are not      *)
(* inductive by themselves: SoleHolder needs that no two claims carry the  *)
(* same token, and that in turn needs that tokens are dropped with claims. *)

\* A worker has a job and a token exactly while it is executing.
ClaimShape ==
    \A w \in Workers :
        /\ pc[w] \in {"stopped", "polling"} <=> heldJob[w] = NoJob
        /\ heldJob[w] = NoJob <=> heldToken[w] = NoToken

\* No two workers, and no two rows, carry the same token.
UniqueTokens ==
    /\ \A v, w \in Workers : heldToken[v] = heldToken[w] => v = w \/ heldToken[v] = NoToken
    /\ \A i, j \in Jobs : lockToken[i] = lockToken[j] => i = j \/ lockToken[i] = NoToken

IInv == TypeOK /\ RowConstraints /\ NoStrandedJob /\ ClaimShape /\ UniqueTokens

\* The empty queue satisfies the invariant.
LEMMA InitIInv == Init => IInv
<1> SUFFICES ASSUME Init PROVE IInv
  OBVIOUS
<1>1. TypeOK
  BY InitTypeOK
<1>2. RowConstraints /\ NoStrandedJob
  BY DEF Init, RowConstraints, NoStrandedJob, Waiting
<1>3. ClaimShape /\ UniqueTokens
  BY DEF Init, ClaimShape, UniqueTokens
<1> QED
  BY <1>1, <1>2, <1>3 DEF IInv

\* Every step keeps the row constraints and leaves attempts in range.
LEMMA NextRows == IInv /\ [Next]_vars => (RowConstraints /\ NoStrandedJob)'
<1> DEFINE Rows == RowConstraints /\ NoStrandedJob
<1> SUFFICES ASSUME IInv, [Next]_vars PROVE Rows'
  OBVIOUS
<1> USE ConstantsAssumption
    DEF IInv, TypeOK, RowConstraints, NoStrandedJob, ClaimShape, Waiting, Verdicts, Places
<1>1. ASSUME NEW j \in Jobs, NEW d \in Delays, Enqueue(j, d) PROVE Rows'
  BY <1>1 DEF Enqueue, workerVars
<1>2. ASSUME NEW j \in Jobs, Replay(j) \/ Confirm(j) PROVE Rows'
  BY <1>2 DEF Replay, Confirm, workerVars
<1>3. ASSUME NEW S \in CancelSets, CancelWaiting(S) PROVE Rows'
  BY <1>3 DEF CancelWaiting, Cancellable, workerVars
<1>4. ASSUME NEW D \in SUBSET Jobs, ApplyRetention(D) PROVE Rows'
  BY <1>4 DEF ApplyRetention, Deletable, workerVars
<1>5. ASSUME NEW w \in Workers, ClaimNothing(w) PROVE Rows'
  BY <1>5 DEF ClaimNothing, Exhausted, Expired, workerVars
<1>6. ASSUME NEW w \in Workers, NEW j \in Jobs, NEW t \in Tokens, Claim(w, j, t)
      PROVE  Rows'
  BY <1>6 DEF Claim, First, Claimable, Exhausted, Expired, FreshTokens
<1>7. ASSUME NEW w \in Workers, NEW v \in Verdicts, HandlerReturns(w, v)
      PROVE  Rows'
  BY <1>7 DEF HandlerReturns, rowVars
<1>8. ASSUME NEW w \in Workers, Complete(w) PROVE Rows'
  BY <1>8 DEF Complete, Holds, Release, LetGo
<1>9. ASSUME NEW w \in Workers, NEW d \in Delays, Defer(w, d) PROVE Rows'
  BY <1>9 DEF Defer, Holds, Release, LetGo
<1>10. ASSUME NEW w \in Workers, Fail(w) PROVE Rows'
  BY <1>10 DEF Fail, Holds, Release, LetGo
<1>11. ASSUME NEW w \in Workers, DeadLetter(w) PROVE Rows'
  BY <1>11 DEF DeadLetter, Holds, Release, LetGo
<1>12. ASSUME NEW w \in Workers, ClaimLost(w) \/ LoseContact(w) PROVE Rows'
  BY <1>12 DEF ClaimLost, LoseContact, LetGo, rowVars
<1>13. ASSUME NEW w \in Workers, Stop(w) \/ Start(w) PROVE Rows'
  BY <1>13 DEF Stop, Start, rowVars
<1>14. CASE Block \/ Unblock
  BY <1>14 DEF Block, Unblock, rowVars, workerVars
<1>15. CASE Tick
  BY <1>15 DEF Tick, Later, workerVars
<1>16. CASE UNCHANGED vars
  BY <1>16 DEF vars
<1> QED
  BY <1>1, <1>2, <1>3, <1>4, <1>5, <1>6, <1>7, <1>8, <1>9, <1>10, <1>11, <1>12, <1>13, <1>14, <1>15, <1>16
     DEF Next, Poll, Finish

\* Every step keeps claims well formed and their tokens unique.
LEMMA NextClaims == IInv /\ [Next]_vars => (ClaimShape /\ UniqueTokens)'
<1> DEFINE Claims == ClaimShape /\ UniqueTokens
<1> SUFFICES ASSUME IInv, [Next]_vars PROVE Claims'
  OBVIOUS
<1> USE ConstantsAssumption
    DEF IInv, TypeOK, RowConstraints, ClaimShape, UniqueTokens, Verdicts, Places
<1>1. ASSUME NEW j \in Jobs, NEW d \in Delays, Enqueue(j, d) PROVE Claims'
  BY <1>1 DEF Enqueue, workerVars
<1>2. ASSUME NEW j \in Jobs, Replay(j) \/ Confirm(j) PROVE Claims'
  BY <1>2 DEF Replay, Confirm, workerVars
<1>3. ASSUME NEW S \in CancelSets, CancelWaiting(S) PROVE Claims'
  BY <1>3 DEF CancelWaiting, Cancellable, workerVars
<1>4. ASSUME NEW D \in SUBSET Jobs, ApplyRetention(D) PROVE Claims'
  BY <1>4 DEF ApplyRetention, Deletable, workerVars
<1>5. ASSUME NEW w \in Workers, ClaimNothing(w) PROVE Claims'
  BY <1>5 DEF ClaimNothing, Exhausted, Expired, workerVars
<1>6. ASSUME NEW w \in Workers, NEW j \in Jobs, NEW t \in Tokens, Claim(w, j, t)
      PROVE  Claims'
  BY <1>6 DEF Claim, First, Claimable, Exhausted, Expired, FreshTokens
<1>7. ASSUME NEW w \in Workers, NEW v \in Verdicts, HandlerReturns(w, v)
      PROVE  Claims'
  BY <1>7 DEF HandlerReturns, rowVars
<1>8. ASSUME NEW w \in Workers, Complete(w) PROVE Claims'
  BY <1>8 DEF Complete, Holds, Release, LetGo
<1>9. ASSUME NEW w \in Workers, NEW d \in Delays, Defer(w, d) PROVE Claims'
  BY <1>9 DEF Defer, Holds, Release, LetGo
<1>10. ASSUME NEW w \in Workers, Fail(w) PROVE Claims'
  <2>1. LetGo(w) /\ lockToken' = [lockToken EXCEPT ![heldJob[w]] = NoToken]
    BY <1>10 DEF Fail, Release
  <2> QED
    BY <2>1 DEF LetGo
<1>11. ASSUME NEW w \in Workers, DeadLetter(w) PROVE Claims'
  BY <1>11 DEF DeadLetter, Holds, Release, LetGo
<1>12. ASSUME NEW w \in Workers, ClaimLost(w) \/ LoseContact(w) PROVE Claims'
  BY <1>12 DEF ClaimLost, LoseContact, LetGo, rowVars
<1>13. ASSUME NEW w \in Workers, Stop(w) \/ Start(w) PROVE Claims'
  BY <1>13 DEF Stop, Start, rowVars
<1>14. CASE Block \/ Unblock
  <2>1. UNCHANGED <<lockToken, pc, heldJob, heldToken>>
    BY <1>14 DEF Block, Unblock, rowVars, workerVars
  <2> QED
    BY <2>1
<1>15. CASE Tick
  BY <1>15 DEF Tick, Later, workerVars
<1>16. CASE UNCHANGED vars
  BY <1>16 DEF vars
<1> QED
  BY <1>1, <1>2, <1>3, <1>4, <1>5, <1>6, <1>7, <1>8, <1>9, <1>10, <1>11, <1>12, <1>13, <1>14, <1>15, <1>16
     DEF Next, Poll, Finish

\* The strengthened invariant holds in every reachable state.
THEOREM Invariance == Spec => []IInv
<1>1. Init => IInv
  BY InitIInv
<1>2. IInv /\ [Next]_vars => IInv'
  BY NextTypeOK, NextRows, NextClaims DEF IInv
<1> QED
  BY <1>1, <1>2, PTL DEF Spec

\* A running row is locked by exactly one token (JobQueue!RowConstraints), so
\* no transaction of the queue is ever refused by the table's constraints.
THEOREM RowConstraintsHold == Spec => []RowConstraints
<1>1. IInv => RowConstraints
  BY DEF IInv
<1> QED
  BY <1>1, Invariance, PTL

\* No waiting job has used up its attempts (JobQueue!NoStrandedJob).
THEOREM NothingStranded == Spec => []NoStrandedJob
<1>1. IInv => NoStrandedJob
  BY DEF IInv
<1> QED
  BY <1>1, Invariance, PTL

\* Two workers holding the live claim of a job would carry the same token.
LEMMA SoleHolderFollows == IInv => SoleHolder
<1> SUFFICES ASSUME IInv,
                    NEW v \in Workers, NEW w \in Workers,
                    Holding(v), Holding(w), heldJob[v] = heldJob[w]
             PROVE  v = w
  BY DEF SoleHolder
<1>1. heldToken[v] = heldToken[w]
  BY DEF Holding, Holds
<1>2. heldToken[v] # NoToken
  BY DEF IInv, ClaimShape, Holding
<1> QED
  BY <1>1, <1>2 DEF IInv, UniqueTokens

\* At most one worker can have its verdict accepted (JobQueue!SoleHolder).
THEOREM ClaimsAreExclusive == Spec => []SoleHolder
  <1> QED
  BY SoleHolderFollows, Invariance, PTL

\* A token that stopped matching never matches again.
LEMMA LostStaysLost ==
    ASSUME IInv, IInv', [Next]_vars,
           NEW w \in Workers,
           heldJob[w] # NoJob, ~Holds(w),
           heldJob'[w] = heldJob[w], heldToken'[w] = heldToken[w]
    PROVE  ~Holds(w)'
<1> DEFINE k == heldJob[w]
<1> SUFFICES ASSUME Holds(w)' PROVE FALSE
  OBVIOUS
<1>1. /\ k \in Jobs
      /\ heldToken[w] # NoToken
      /\ status'[k] = "running"
      /\ lockToken'[k] = heldToken[w]
  BY DEF Holds, IInv, ClaimShape, TypeOK
<1>2. lockToken[k] # heldToken[w]
  BY <1>1 DEF Holds, IInv, RowConstraints
<1>3. \E u \in Workers, j \in Jobs, t \in Tokens : Claim(u, j, t)
  BY <1>1, <1>2
     DEF Next, Poll, Finish, vars, IInv, TypeOK, Enqueue, Replay, Confirm, CancelWaiting,
         ApplyRetention, ClaimNothing, HandlerReturns, Complete, Defer, Fail,
         DeadLetter, Release, LetGo, ClaimLost, LoseContact, Stop, Start,
         Block, Unblock, Tick, rowVars, workerVars
<1>4. PICK u \in Workers, j \in Jobs, t \in Tokens : Claim(u, j, t)
  BY <1>3
<1>5. t # heldToken[w] /\ t # lockToken[k]
  BY <1>1, <1>4 DEF Claim, FreshTokens
<1> QED
  BY <1>1, <1>2, <1>4, <1>5 DEF Claim, IInv, TypeOK

\* A lost claim stays lost (JobQueue!LostClaimStaysLost).
THEOREM LostClaimsStayLost == Spec => LostClaimStaysLost
<1> DEFINE Step ==
      \A w \in Workers :
          /\ heldJob[w] # NoJob
          /\ ~Holds(w)
          /\ heldJob'[w] = heldJob[w]
          /\ heldToken'[w] = heldToken[w]
          => ~Holds(w)'
<1>1. IInv /\ IInv' /\ [Next]_vars => Step
  BY LostStaysLost
<1>2. IInv /\ IInv' /\ [Next]_vars => [Step]_vars
  BY <1>1
<1> QED
  BY <1>2, Invariance, PTL DEF LostClaimStaysLost, Spec

\* A live lease is given up by none but the worker whose claim it is: a row
\* whose lease is running is running, cannot be exhausted or expired, and its
\* token leaves it only with a verdict that passed the guard.
LEMMA LeaseOutlastsOthers ==
    ASSUME IInv, [Next]_vars,
           NEW j \in Jobs, lease[j] > 0, lockToken'[j] # lockToken[j]
    PROVE  \E w \in Workers : Holding(w) /\ heldJob[w] = j /\ pc[w] \in Verdicts
<1> USE DEF IInv, TypeOK
<1>1. status[j] = "running" /\ ~Expired(j) /\ j \notin Exhausted
  BY DEF RowConstraints, Expired, Exhausted
<1>2. ASSUME NEW w \in Workers, ClaimNothing(w) PROVE FALSE
  BY <1>1, <1>2 DEF ClaimNothing
<1>3. ASSUME NEW w \in Workers, NEW i \in Jobs, NEW t \in Tokens, Claim(w, i, t)
      PROVE  FALSE
  <2>1. i \in Claimable(w)
    BY <1>3 DEF Claim, First
  <2>2. i # j
    BY <1>1, <2>1 DEF Claimable, Waiting
  <2> QED
    BY <1>1, <1>3, <2>2 DEF Claim
<1>4. ASSUME NEW w \in Workers,
             Complete(w) \/ (\E d \in Delays : Defer(w, d)) \/ Fail(w) \/ DeadLetter(w)
      PROVE  \E v \in Workers : Holding(v) /\ heldJob[v] = j /\ pc[v] \in Verdicts
  <2>1. /\ pc[w] \in Verdicts
        /\ Holds(w)
        /\ lockToken' = [lockToken EXCEPT ![heldJob[w]] = NoToken]
    BY <1>4 DEF Complete, Defer, Fail, DeadLetter, Release, Verdicts
  <2>2. heldJob[w] # NoJob
    BY <2>1 DEF ClaimShape, Verdicts
  <2>3. heldJob[w] = j
    BY <2>1, <2>2
  <2> QED
    BY <2>1, <2>2, <2>3 DEF Holding
<1>5. \/ \E w \in Workers : ClaimNothing(w)
      \/ \E w \in Workers, i \in Jobs, t \in Tokens : Claim(w, i, t)
      \/ \E w \in Workers :
            Complete(w) \/ (\E d \in Delays : Defer(w, d)) \/ Fail(w) \/ DeadLetter(w)
      \/ UNCHANGED lockToken
  BY DEF Next, Poll, Finish, vars, Enqueue, Replay, Confirm, CancelWaiting,
         ApplyRetention, HandlerReturns, LetGo, ClaimLost, LoseContact, Stop, Start,
         Block, Unblock, Tick, rowVars, workerVars
<1> QED
  BY <1>2, <1>3, <1>4, <1>5

\* Until its lease expires a claim ends only by the verdict of its holder
\* (JobQueue!LeaseHonoured): no poll, replay, cancellation or retention pass
\* takes a job away from a worker that is in time.
THEOREM LeasesAreHonoured == Spec => LeaseHonoured
<1> DEFINE Step ==
      \A j \in Jobs :
          lease[j] > 0 /\ lockToken'[j] # lockToken[j] =>
              \E w \in Workers :
                  Holding(w) /\ heldJob[w] = j /\ pc[w] \in Verdicts
<1>1. IInv /\ [Next]_vars => Step
  BY LeaseOutlastsOthers
<1>2. IInv /\ [Next]_vars => [Step]_vars
  BY <1>1
<1> QED
  BY <1>2, Invariance, PTL DEF LeaseHonoured, Spec

-----------------------------------------------------------------------------
(***************************************************************************)
(* JobQueue implements JobLedger: tokens, leases and guarded updates give  *)
(* every job at most one accountable owner.                                *)
(***************************************************************************)
Holder(w, j) == Holding(w) /\ heldJob[w] = j

\* The refinement mapping picks the holder, and NoJob when there is none.
OwnersAreHolders ==
    \A j \in Jobs :
        /\ \A w \in Workers : Holder(w, j) => OwnerOf(j) = w
        /\ (\A w \in Workers : ~Holder(w, j)) => OwnerOf(j) = NoJob

LEMMA OwnerIsHolder == IInv => OwnersAreHolders
<1> SUFFICES ASSUME IInv, NEW j \in Jobs
             PROVE  /\ \A w \in Workers : Holder(w, j) => OwnerOf(j) = w
                    /\ (\A w \in Workers : ~Holder(w, j)) => OwnerOf(j) = NoJob
  BY DEF OwnersAreHolders
<1>1. SoleHolder
  BY SoleHolderFollows
<1>2. ASSUME NEW w \in Workers, Holder(w, j) PROVE OwnerOf(j) = w
  <2>1. \A v \in Workers : Holding(v) /\ heldJob[v] = j => v = w
    BY <1>1, <1>2 DEF SoleHolder, Holder
  <2> QED
    BY <1>2, <2>1 DEF OwnerOf, Holder
<1>3. (\A w \in Workers : ~Holder(w, j)) => OwnerOf(j) = NoJob
  BY DEF OwnerOf, Holder
<1> QED
  BY <1>2, <1>3

LEMMA OwnerIsHolderNext == IInv' => OwnersAreHolders'
<1>1. IInv => OwnersAreHolders
  BY OwnerIsHolder
<1> QED
  BY <1>1, PTL

\* A job whose holder does not change keeps its owner.
LEMMA SameOwner ==
    ASSUME OwnersAreHolders, OwnersAreHolders', NEW j \in Jobs,
           \A w \in Workers : Holder(w, j)' <=> Holder(w, j)
    PROVE  OwnerOf(j)' = OwnerOf(j)
<1>1. CASE \E w \in Workers : Holder(w, j)
  BY <1>1 DEF OwnersAreHolders
<1>2. CASE \A w \in Workers : ~Holder(w, j)
  BY <1>2 DEF OwnersAreHolders
<1> QED
  BY <1>1, <1>2

-----------------------------------------------------------------------------
(* One lemma per kind of step: which ledger step it is.                    *)

\* What every lemma below starts from.
Related == IInv /\ IInv' /\ OwnersAreHolders /\ OwnersAreHolders'

\* Steps that touch neither a row nor a worker's claim are stutters.
LEMMA StutterStep ==
    ASSUME Related, UNCHANGED <<status, attempts, lockToken, heldJob, heldToken>>
    PROVE  UNCHANGED Ledger!vars
<1>1. \A j \in Jobs : OwnerOf(j)' = OwnerOf(j)
  BY SameOwner DEF Related, Holder, Holding, Holds
<1> QED
  BY <1>1 DEF Ledger!vars, ledgerPhase, ledgerOwner

\* Enqueue and Replay submit.
LEMMA SubmitStep ==
    ASSUME Related, NEW j \in Jobs,
           (\E d \in Delays : Enqueue(j, d)) \/ Replay(j)
    PROVE  Ledger!Submit(j)
<1> USE DEF Enqueue, Replay, workerVars, Related, IInv, TypeOK
<1>1. \A i \in Jobs, w \in Workers : Holder(w, i)' <=> Holder(w, i)
  BY DEF Holder, Holding, Holds
<1>2. ledgerOwner' = ledgerOwner
  BY <1>1, SameOwner DEF ledgerOwner
<1>3. ledgerPhase' = [ledgerPhase EXCEPT ![j] = "waiting"]
  BY DEF ledgerPhase, Phase, Waiting, Statuses
<1>4. ledgerPhase[j] \in {"none", "failed"}
  BY DEF ledgerPhase, Phase, Waiting
<1> QED
  BY <1>2, <1>3, <1>4 DEF Ledger!Submit

\* Confirm vouches.
LEMMA VouchStep ==
    ASSUME Related, NEW j \in Jobs, Confirm(j)
    PROVE  Ledger!Vouch(j)
<1> USE DEF Confirm, workerVars, Related, IInv, TypeOK
<1>1. \A i \in Jobs, w \in Workers : Holder(w, i)' <=> Holder(w, i)
  BY DEF Holder, Holding, Holds
<1>2. ledgerOwner' = ledgerOwner
  BY <1>1, SameOwner DEF ledgerOwner
<1>3. ledgerPhase' = [ledgerPhase EXCEPT ![j] = "done"]
  BY DEF ledgerPhase, Phase, Waiting, Statuses
<1>4. ledgerPhase[j] = "failed"
  BY DEF ledgerPhase, Phase, Waiting
<1> QED
  BY <1>2, <1>3, <1>4 DEF Ledger!Vouch

\* Cancelling transactions withdraw.
LEMMA WithdrawStep ==
    ASSUME Related, NEW S \in CancelSets, CancelWaiting(S)
    PROVE  Ledger!Withdraw(Cancellable(S))
<1> USE ConstantsAssumption DEF CancelWaiting, Cancellable, workerVars, Related, IInv, TypeOK
<1>1. \A i \in Jobs, w \in Workers : Holder(w, i)' <=> Holder(w, i)
  BY DEF Holder, Holding, Holds, Waiting
<1>2. ledgerOwner' = ledgerOwner
  BY <1>1, SameOwner DEF ledgerOwner
<1>3. ledgerPhase' = [i \in Jobs |-> IF i \in Cancellable(S) THEN "done"
                                     ELSE ledgerPhase[i]]
  <2>1. \A i \in Jobs : status'[i] = IF i \in Cancellable(S) THEN "succeeded" ELSE status[i]
    OBVIOUS
  <2>2. Phase("succeeded") = "done"
    BY DEF Phase, Waiting
  <2> QED
    BY <2>1, <2>2, Zenon DEF ledgerPhase
<1>4. \A i \in Cancellable(S) : ledgerPhase[i] = "waiting"
  BY DEF ledgerPhase, Phase, Waiting
<1> QED
  BY <1>2, <1>3, <1>4 DEF Ledger!Withdraw

\* Retention forgets.
LEMMA ForgetStep ==
    ASSUME Related, NEW D \in SUBSET Jobs, ApplyRetention(D)
    PROVE  Ledger!Forget(D)
<1> USE DEF ApplyRetention, Deletable, workerVars, Related, IInv, TypeOK
<1>1. \A i \in Jobs, w \in Workers : Holder(w, i)' <=> Holder(w, i)
  BY DEF Holder, Holding, Holds
<1>2. ledgerOwner' = ledgerOwner
  BY <1>1, SameOwner DEF ledgerOwner
<1>3. ledgerPhase' = [i \in Jobs |-> IF i \in D THEN "none" ELSE ledgerPhase[i]]
  <2>1. \A i \in Jobs : status'[i] = IF i \in D THEN "absent" ELSE status[i]
    OBVIOUS
  <2>2. Phase("absent") = "none"
    BY DEF Phase, Waiting
  <2> QED
    BY <2>1, <2>2, Zenon DEF ledgerPhase
<1>4. \A i \in D : ledgerPhase[i] = "done"
  BY DEF ledgerPhase, Phase, Waiting
<1> QED
  BY <1>2, <1>3, <1>4 DEF Ledger!Forget

\* A poll that only dead-letters gives up.
LEMMA GiveUpStep ==
    ASSUME Related, NEW w \in Workers, ClaimNothing(w)
    PROVE  Ledger!GiveUp(Exhausted) /\ Exhausted \subseteq Ledger!Spent
<1> USE DEF ClaimNothing, Exhausted, Expired, workerVars, Related, IInv, TypeOK
<1>1. \A i \in Jobs \ Exhausted, v \in Workers : Holder(v, i)' <=> Holder(v, i)
  BY DEF Holder, Holding, Holds
<1>2. \A i \in Exhausted, v \in Workers : ~Holder(v, i)'
  BY DEF Holder, Holding, Holds
<1>3. ledgerOwner' = [i \in Jobs |-> IF i \in Exhausted THEN NoJob ELSE ledgerOwner[i]]
  BY <1>1, <1>2, SameOwner DEF ledgerOwner, OwnersAreHolders
<1>4. ledgerPhase' = [i \in Jobs |-> IF i \in Exhausted THEN "failed" ELSE ledgerPhase[i]]
  <2>1. \A i \in Jobs : status'[i] = IF i \in Exhausted THEN "dead" ELSE status[i]
    OBVIOUS
  <2>2. Phase("dead") = "failed"
    BY DEF Phase, Waiting
  <2> QED
    BY <2>1, <2>2, Zenon DEF ledgerPhase
<1>5. Exhausted \subseteq Ledger!Spent
  BY DEF ledgerPhase, Phase, Waiting, Ledger!Spent
<1> QED
  BY <1>3, <1>4, <1>5 DEF Ledger!GiveUp

\* A successful claim takes the job, whoever held it, and gives up the rest.
LEMMA TakeStep ==
    ASSUME Related, NEW w \in Workers, NEW j \in Jobs, NEW t \in Tokens,
           Claim(w, j, t)
    PROVE  Ledger!Take(w, j, Exhausted) /\ Exhausted \subseteq Ledger!Spent
<1> USE ConstantsAssumption DEF Claim, Related, IInv, TypeOK
<1>1. /\ status[j] \in Waiting \cup {"running"}
      /\ attempts[j] < MaxAttempts[j]
  BY DEF First, Claimable, Expired
<1>11. j \notin Exhausted
  <2>1. attempts[j] \in Nat /\ MaxAttempts[j] \in Nat
    OBVIOUS
  <2>2. ~(attempts[j] >= MaxAttempts[j])
    BY <1>1, <2>1
  <2> QED
    BY <2>2 DEF Exhausted
<1>2. heldJob[w] = NoJob
  BY DEF ClaimShape
<1>3. Holder(w, j)'
  BY DEF Holder, Holding, Holds
<1>4. \A i \in Jobs \ (Exhausted \cup {j}), v \in Workers :
          Holder(v, i)' <=> Holder(v, i)
  BY <1>2 DEF Holder, Holding, Holds
<1>5. \A i \in Exhausted, v \in Workers : ~Holder(v, i)'
  BY <1>11 DEF Holder, Holding, Holds, Exhausted
<1>6. ledgerOwner' = [i \in Jobs |-> IF i = j THEN w
                                     ELSE IF i \in Exhausted THEN NoJob
                                     ELSE ledgerOwner[i]]
  <2>1. OwnerOf(j)' = w
    BY <1>3 DEF OwnersAreHolders
  <2>2. \A i \in Exhausted : OwnerOf(i)' = NoJob
    BY <1>5 DEF OwnersAreHolders, Exhausted
  <2>3. \A i \in Jobs \ (Exhausted \cup {j}) : OwnerOf(i)' = OwnerOf(i)
    BY <1>4, SameOwner
  <2> QED
    BY <2>1, <2>2, <2>3 DEF ledgerOwner
<1>7. ledgerPhase' = [i \in Jobs |-> IF i = j THEN "taken"
                                     ELSE IF i \in Exhausted THEN "failed"
                                     ELSE ledgerPhase[i]]
  <2>1. \A i \in Jobs : status'[i] = IF i = j THEN "running"
                                     ELSE IF i \in Exhausted THEN "dead"
                                     ELSE status[i]
    OBVIOUS
  <2>2. Phase("running") = "taken" /\ Phase("dead") = "failed"
    BY DEF Phase, Waiting
  <2> QED
    BY <2>1, <2>2, Zenon DEF ledgerPhase
<1>8. ledgerPhase[j] \in {"waiting", "taken"}
  BY <1>1 DEF ledgerPhase, Phase, Waiting
<1>9. \A i \in Jobs : ledgerOwner[i] # w
  <2>1. \A i \in Jobs : ~Holder(w, i)
    BY <1>2 DEF Holder, Holding
  <2>2. \A i \in Jobs : OwnerOf(i) = w => Holder(w, i)
    <3> TAKE i \in Jobs
    <3>1. CASE \E v \in Workers : Holder(v, i)
      BY <3>1 DEF OwnersAreHolders
    <3>2. CASE \A v \in Workers : ~Holder(v, i)
      BY <3>2 DEF OwnersAreHolders
    <3> QED
      BY <3>1, <3>2
  <2> QED
    BY <2>1, <2>2 DEF ledgerOwner
<1>10. Exhausted \subseteq Ledger!Spent
  BY DEF Exhausted, Expired, ledgerPhase, Phase, Waiting, Ledger!Spent
<1> QED
  BY <1>1, <1>6, <1>7, <1>8, <1>9, <1>10 DEF Ledger!Take

\* The end of a claim, seen from the ledger: the holder's job has no owner
\* any more, every other job keeps its own.
LEMMA OwnerLeaves ==
    ASSUME Related, NEW w \in Workers, NEW k \in Jobs,
           Holder(w, k), LetGo(w),
           \A i \in Jobs : i # k =>
               status'[i] = status[i] /\ lockToken'[i] = lockToken[i],
           status'[k] = "running" => lockToken'[k] = lockToken[k]
    PROVE  /\ ledgerOwner[k] = w
           /\ ledgerOwner' = [ledgerOwner EXCEPT ![k] = NoJob]
<1> USE DEF Related, IInv, TypeOK
<1>1. ledgerOwner[k] = w
  BY DEF OwnersAreHolders, ledgerOwner
<1>2. \A v \in Workers : v # w => ~Holder(v, k)
  BY SoleHolderFollows DEF SoleHolder, Holder
<1>3. \A v \in Workers : ~Holder(v, k)'
  <2> SUFFICES ASSUME NEW v \in Workers, Holder(v, k)' PROVE FALSE
    OBVIOUS
  <2>1. CASE v = w
    BY <2>1, ConstantsAssumption DEF LetGo, Holder, Holding
  <2>2. CASE v # w
    BY <2>2, <1>2 DEF LetGo, Holder, Holding, Holds
  <2> QED
    BY <2>1, <2>2
<1>4. \A i \in Jobs, v \in Workers : i # k => (Holder(v, i)' <=> Holder(v, i))
  BY ConstantsAssumption DEF LetGo, Holder, Holding, Holds
<1>5. OwnerOf(k)' = NoJob
  BY <1>3 DEF OwnersAreHolders
<1>6. \A i \in Jobs : i # k => OwnerOf(i)' = OwnerOf(i)
  BY <1>4, SameOwner
<1> QED
  BY <1>1, <1>5, <1>6 DEF ledgerOwner

\* A verdict that is accepted settles the job.
LEMMA SettleStep ==
    ASSUME Related, NEW w \in Workers,
           \/ Complete(w) \/ Fail(w) \/ DeadLetter(w)
           \/ \E d \in Delays : Defer(w, d)
    PROVE  \E j \in Jobs : Ledger!Settle(w, j)
<1> USE ConstantsAssumption DEF Related, IInv, TypeOK
<1>1. heldJob[w] \in Jobs /\ Holding(w)
  BY DEF Complete, Defer, Fail, DeadLetter, Holding, ClaimShape
<1>2. PICK k \in Jobs : k = heldJob[w] /\ Holder(w, k)
  BY <1>1 DEF Holder
<1>3. PICK s \in {"succeeded", "retryable", "dead"} : Release(w, s)
  BY DEF Complete, Defer, Fail, DeadLetter
<1>4. /\ ledgerOwner[k] = w
      /\ ledgerOwner' = [ledgerOwner EXCEPT ![k] = NoJob]
  BY <1>2, <1>3, OwnerLeaves DEF Release
<1>5. ledgerPhase' = [ledgerPhase EXCEPT ![k] = Phase(s)]
  BY <1>2, <1>3 DEF Release, ledgerPhase
<1>6. /\ Phase("succeeded") = "done"
      /\ Phase("retryable") = "waiting"
      /\ Phase("dead") = "failed"
  BY DEF Phase, Waiting
<1>7. attempts[k] \in 1..MaxAttempts[k]
  BY <1>2 DEF Holder, Holding, Holds, NoStrandedJob
<1>8. CASE Complete(w) \/ DeadLetter(w)
  <2>1. s \in {"succeeded", "dead"} /\ attempts' = attempts
    BY <1>2, <1>3, <1>8 DEF Complete, DeadLetter, Release
  <2> QED
    BY <2>1, <1>4, <1>5, <1>6 DEF Ledger!Settle
<1>9. CASE \E d \in Delays : Defer(w, d)
  <2>1. s = "retryable" /\ attempts' = [attempts EXCEPT ![k] = @ - 1]
    <3>1. status'[k] = s
      BY <1>2, <1>3 DEF Release
    <3>2. status'[k] = "retryable"
      BY <1>2, <1>9 DEF Defer, Release
    <3>3. attempts[k] # 0
      BY <1>7
    <3>4. attempts' = [attempts EXCEPT ![k] = IF @ = 0 THEN 0 ELSE @ - 1]
      BY <1>2, <1>9 DEF Defer
    <3> QED
      BY <3>1, <3>2, <3>3, <3>4
  <2> QED
    BY <2>1, <1>4, <1>5, <1>6 DEF Ledger!Settle
<1>10. CASE Fail(w)
  <2>1. attempts' = attempts
    BY <1>10 DEF Fail
  <2>2. \/ s = "dead"
        \/ s = "retryable" /\ attempts[k] < MaxAttempts[k]
    <3>1. status'[k] = s
      BY <1>2, <1>3 DEF Release
    <3>2. \/ status'[k] = "dead"
          \/ status'[k] = "retryable" /\ attempts[k] < MaxAttempts[k]
      BY <1>2, <1>10 DEF Fail, Release
    <3> QED
      BY <3>1, <3>2
  <2> QED
    BY <2>1, <2>2, <1>4, <1>5, <1>6 DEF Ledger!Settle
<1> QED
  BY <1>8, <1>9, <1>10

\* A worker that drops a live claim walks away from the job; one that drops a
\* lost claim does nothing the ledger can see.
LEMMA DropStep ==
    ASSUME Related, NEW w \in Workers, ClaimLost(w) \/ LoseContact(w) \/ Stop(w)
    PROVE  (\E j \in Jobs : Ledger!WalkAway(w, j)) \/ UNCHANGED Ledger!vars
<1> USE ConstantsAssumption DEF Related, IInv, TypeOK
<1>1. /\ UNCHANGED rowVars
      /\ heldJob' = [heldJob EXCEPT ![w] = NoJob]
      /\ heldToken' = [heldToken EXCEPT ![w] = NoToken]
  BY DEF ClaimLost, LoseContact, Stop, LetGo
<1>2. UNCHANGED <<ledgerPhase, attempts>>
  BY <1>1 DEF rowVars, ledgerPhase
<1>3. CASE Holding(w)
  <2>1. PICK k \in Jobs : k = heldJob[w] /\ Holder(w, k)
    BY <1>3 DEF Holder, Holding
  <2>2. LetGo(w) \/ Stop(w)
    BY DEF ClaimLost, LoseContact
  <2>3. \A v \in Workers : ~Holder(v, k)'
    <3>1. \A v \in Workers : v # w => ~Holder(v, k)
      BY <2>1, SoleHolderFollows DEF SoleHolder, Holder
    <3> QED
      BY <1>1, <2>1, <3>1 DEF Holder, Holding, Holds, rowVars
  <2>4. \A i \in Jobs, v \in Workers : i # k => (Holder(v, i)' <=> Holder(v, i))
    BY <1>1, <2>1 DEF Holder, Holding, Holds, rowVars
  <2>5. OwnerOf(k) = w /\ OwnerOf(k)' = NoJob
    BY <2>1, <2>3 DEF OwnersAreHolders
  <2>6. \A i \in Jobs : i # k => OwnerOf(i)' = OwnerOf(i)
    BY <2>4, SameOwner
  <2>7. ledgerOwner[k] = w /\ ledgerOwner' = [ledgerOwner EXCEPT ![k] = NoJob]
    BY <2>5, <2>6 DEF ledgerOwner
  <2> QED
    BY <1>2, <2>7 DEF Ledger!WalkAway
<1>4. CASE ~Holding(w)
  <2>1. \A i \in Jobs, v \in Workers : Holder(v, i)' <=> Holder(v, i)
    BY <1>1, <1>4 DEF Holder, Holding, Holds, rowVars
  <2>2. ledgerOwner' = ledgerOwner
    BY <2>1, SameOwner DEF ledgerOwner
  <2> QED
    BY <1>2, <2>2 DEF Ledger!vars
<1> QED
  BY <1>3, <1>4

-----------------------------------------------------------------------------

\* Initially no key is known to the ledger.
LEMMA LedgerInit == Init => Ledger!Init
<1> SUFFICES ASSUME Init PROVE Ledger!Init
  OBVIOUS
<1>1. ledgerPhase = [j \in Jobs |-> "none"]
  <2>1. \A j \in Jobs : status[j] = "absent"
    BY DEF Init
  <2>2. Phase("absent") = "none"
    BY DEF Phase, Waiting
  <2> QED
    BY <2>1, <2>2, Zenon DEF ledgerPhase
<1>2. ledgerOwner = [j \in Jobs |-> NoJob]
  BY DEF Init, ledgerOwner, OwnerOf, Holding
<1> QED
  BY <1>1, <1>2 DEF Init, Ledger!Init

\* Every step of the queue is a step of the ledger, or a stutter.
LEMMA LedgerNext ==
    ASSUME IInv, IInv', [Next]_vars
    PROVE  [Ledger!Next]_(Ledger!vars)
<1>1. Related
  BY OwnerIsHolder, OwnerIsHolderNext DEF Related
<1>2. ASSUME NEW j \in Jobs, (\E d \in Delays : Enqueue(j, d)) \/ Replay(j)
      PROVE  Ledger!Next
  BY <1>1, <1>2, SubmitStep DEF Ledger!Next
<1>21. ASSUME NEW j \in Jobs, Confirm(j) PROVE Ledger!Next
  BY <1>1, <1>21, VouchStep DEF Ledger!Next
<1>3. ASSUME NEW S \in CancelSets, CancelWaiting(S) PROVE Ledger!Next
  <2>1. Cancellable(S) \in SUBSET Jobs
    BY ConstantsAssumption DEF Cancellable
  <2> QED
    BY <1>1, <1>3, <2>1, WithdrawStep DEF Ledger!Next
<1>4. ASSUME NEW D \in SUBSET Jobs, ApplyRetention(D) PROVE Ledger!Next
  BY <1>1, <1>4, ForgetStep DEF Ledger!Next
<1>5. ASSUME NEW w \in Workers, ClaimNothing(w) PROVE Ledger!Next
  BY <1>1, <1>5, GiveUpStep DEF Ledger!Next
<1>6. ASSUME NEW w \in Workers, NEW j \in Jobs, NEW t \in Tokens, Claim(w, j, t)
      PROVE  Ledger!Next
  BY <1>1, <1>6, TakeStep DEF Ledger!Next
<1>7. ASSUME NEW w \in Workers,
             \/ Complete(w) \/ Fail(w) \/ DeadLetter(w)
             \/ \E d \in Delays : Defer(w, d)
      PROVE  Ledger!Next
  BY <1>1, <1>7, SettleStep DEF Ledger!Next
<1>8. ASSUME NEW w \in Workers, ClaimLost(w) \/ LoseContact(w) \/ Stop(w)
      PROVE  Ledger!Next \/ UNCHANGED Ledger!vars
  BY <1>1, <1>8, DropStep DEF Ledger!Next
<1>9. ASSUME NEW w \in Workers,
              Start(w) \/ \E v \in Verdicts : HandlerReturns(w, v)
       PROVE  UNCHANGED Ledger!vars
  BY <1>1, <1>9, StutterStep DEF Start, HandlerReturns, rowVars
<1>10. CASE Block \/ Unblock \/ Tick \/ UNCHANGED vars
  BY <1>1, <1>10, StutterStep DEF Block, Unblock, Tick, vars, rowVars, workerVars
<1> QED
  BY <1>2, <1>21, <1>3, <1>4, <1>5, <1>6, <1>7, <1>8, <1>9, <1>10
     DEF Next, Poll, Finish

\* The queue implements the ledger (JobQueue!ImplementsLedger).
THEOREM QueueImplementsLedger == Spec => ImplementsLedger
<1>1. Init => Ledger!Init
  BY LedgerInit
<1>2. IInv /\ IInv' /\ [Next]_vars => [Ledger!Next]_(Ledger!vars)
  BY LedgerNext
<1> QED
  BY <1>1, <1>2, Invariance, PTL DEF Spec, ImplementsLedger, Ledger!Spec
=============================================================================
