------------------------------ MODULE JobLedger ------------------------------
(***************************************************************************)
(* What the background queue promises its producers and operators, with no *)
(* table, token, lease or clock: a job has at most one accountable owner,  *)
(* only the owner decides how an execution ends, every execution that is   *)
(* not handed back for policy reasons uses one of a limited number of      *)
(* tries, and finished work stays finished until it is replayed (if it     *)
(* failed), vouched for by an operator, or forgotten (if it is done).      *)
(***************************************************************************)
EXTENDS Naturals

CONSTANTS Jobs, Workers, Nobody,
          Limit   \* [Jobs -> Nat]: tries between two submissions

VARIABLES phase, tries, owner

vars == <<phase, tries, owner>>

Init ==
    /\ phase = [j \in Jobs |-> "none"]
    /\ tries = [j \in Jobs |-> 0]
    /\ owner = [j \in Jobs |-> Nobody]

\* A new key enters, or a failed job is replayed: all tries are available.
Submit(j) ==
    /\ phase[j] \in {"none", "failed"}
    /\ phase' = [phase EXCEPT ![j] = "waiting"]
    /\ tries' = [tries EXCEPT ![j] = 0]
    /\ UNCHANGED owner

\* An operator vouches for the effect of a failed job: it counts as done.
Vouch(j) ==
    /\ phase[j] = "failed"
    /\ phase' = [phase EXCEPT ![j] = "done"]
    /\ UNCHANGED <<tries, owner>>

\* Jobs whose last try never reported are given up.
Spent == {j \in Jobs : phase[j] = "taken" /\ tries[j] >= Limit[j]}

GiveUp(E) ==
    /\ phase' = [j \in Jobs |-> IF j \in E THEN "failed" ELSE phase[j]]
    /\ owner' = [j \in Jobs |-> IF j \in E THEN Nobody ELSE owner[j]]
    /\ UNCHANGED tries

\* A worker takes a job that waits, or one whose owner went silent; whoever
\* owned it before has no say any more.  Spent jobs may be given up with it.
Take(w, j, E) ==
    /\ phase[j] \in {"waiting", "taken"}
    /\ tries[j] < Limit[j]
    /\ \A i \in Jobs : owner[i] # w
    /\ phase' = [i \in Jobs |-> IF i = j THEN "taken"
                                ELSE IF i \in E THEN "failed" ELSE phase[i]]
    /\ owner' = [i \in Jobs |-> IF i = j THEN w
                                ELSE IF i \in E THEN Nobody ELSE owner[i]]
    /\ tries' = [tries EXCEPT ![j] = @ + 1]

\* The owner reports; a try that merely failed comes back while tries remain.
Settle(w, j) ==
    /\ owner[j] = w
    /\ owner' = [owner EXCEPT ![j] = Nobody]
    /\ \/ /\ \E p \in {"done", "failed"} : phase' = [phase EXCEPT ![j] = p]
          /\ UNCHANGED tries
       \/ /\ phase' = [phase EXCEPT ![j] = "waiting"]
          /\ tries[j] < Limit[j]
          /\ UNCHANGED tries
       \/ /\ phase' = [phase EXCEPT ![j] = "waiting"]
          /\ tries' = [tries EXCEPT ![j] = @ - 1]

\* The owner goes silent; the job stays taken.
WalkAway(w, j) ==
    /\ owner[j] = w
    /\ owner' = [owner EXCEPT ![j] = Nobody]
    /\ UNCHANGED <<phase, tries>>

\* Waiting jobs that became pointless are completed without running.
Withdraw(S) ==
    /\ \A j \in S : phase[j] = "waiting"
    /\ phase' = [j \in Jobs |-> IF j \in S THEN "done" ELSE phase[j]]
    /\ UNCHANGED <<tries, owner>>

Forget(S) ==
    /\ \A j \in S : phase[j] = "done"
    /\ phase' = [j \in Jobs |-> IF j \in S THEN "none" ELSE phase[j]]
    /\ tries' = [j \in Jobs |-> IF j \in S THEN 0 ELSE tries[j]]
    /\ UNCHANGED owner

Next ==
    \/ \E j \in Jobs : Submit(j) \/ Vouch(j)
    \/ \E E \in SUBSET Spent : GiveUp(E)
    \/ \E w \in Workers, j \in Jobs :
          \/ \E E \in SUBSET Spent : Take(w, j, E)
          \/ Settle(w, j)
          \/ WalkAway(w, j)
    \/ \E S \in SUBSET Jobs : Withdraw(S) \/ Forget(S)

Spec == Init /\ [][Next]_vars
=============================================================================
