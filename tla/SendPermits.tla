----------------------------- MODULE SendPermits -----------------------------
(***************************************************************************)
(* What a cadence of emails promises the people who receive it, with no    *)
(* job, worker, lease or delivery row.  Every call of the mail provider    *)
(* uses up a permit.  A permit is granted only while the cadence runs and  *)
(* the recipient's enrollment stands at that step; one permit per step is  *)
(* allowed, and one more each time an administrator decides so.  Steps are *)
(* reached one after the other, each after a permit for the one before.    *)
(***************************************************************************)
EXTENDS Naturals

CONSTANTS Enrollments, Steps

VARIABLES
    running,   \* the cadence as a whole is approved and not paused
    live,      \* [Enrollments -> BOOLEAN]
    position,  \* [Enrollments -> 0..Steps]
    allowed,   \* [Enrollments \X 1..Steps -> Nat]: permits that may be granted
    granted,   \* ... that were granted
    used       \* ... that were used: provider calls

vars == <<running, live, position, allowed, granted, used>>

Sends == Enrollments \X (1..Steps)

Init ==
    /\ running = FALSE
    /\ live = [e \in Enrollments |-> FALSE]
    /\ position = [e \in Enrollments |-> 0]
    /\ allowed = [k \in Sends |-> 1]
    /\ granted = [k \in Sends |-> 0]
    /\ used = [k \in Sends |-> 0]

Switch ==
    /\ running' = ~running
    /\ UNCHANGED <<live, position, allowed, granted, used>>

Begin(e) ==
    /\ running
    /\ position[e] = 0
    /\ position' = [position EXCEPT ![e] = 1]
    /\ live' = [live EXCEPT ![e] = TRUE]
    /\ UNCHANGED <<running, allowed, granted, used>>

\* An enrollment that ended stays ended: nothing makes it live again.
End(e) ==
    /\ live[e]
    /\ live' = [live EXCEPT ![e] = FALSE]
    /\ UNCHANGED <<running, position, allowed, granted, used>>

Advance(e) ==
    /\ live[e]
    /\ position[e] \in 1..(Steps - 1)
    /\ granted[<<e, position[e]>>] > 0
    /\ position' = [position EXCEPT ![e] = @ + 1]
    /\ UNCHANGED <<running, live, allowed, granted, used>>

Grant(e) ==
    LET k == <<e, position[e]>> IN
    /\ running
    /\ live[e]
    /\ granted[k] < allowed[k]
    /\ granted' = [granted EXCEPT ![k] = @ + 1]
    /\ UNCHANGED <<running, live, position, allowed, used>>

\* An administrator allows one more call once the granted ones are spoken for.
Allow(k) ==
    /\ granted[k] = allowed[k]
    /\ allowed' = [allowed EXCEPT ![k] = @ + 1]
    /\ UNCHANGED <<running, live, position, granted, used>>

Use(k) ==
    /\ used[k] < granted[k]
    /\ used' = [used EXCEPT ![k] = @ + 1]
    /\ UNCHANGED <<running, live, position, allowed, granted>>

Next ==
    \/ Switch
    \/ \E e \in Enrollments : Begin(e) \/ End(e) \/ Advance(e) \/ Grant(e)
    \/ \E k \in Sends : Allow(k) \/ Use(k)

Spec == Init /\ [][Next]_vars
=============================================================================
