---------------------------- MODULE PlanCapacity -----------------------------
(***************************************************************************)
(* The hosted plan limits of one workspace and one resource (seats,        *)
(* contacts or deals): billing/capacity.go and the operations that grow    *)
(* the resource.  An operation reserves capacity in one transaction, does  *)
(* its work in a second one that deletes the reservation, and cancels the  *)
(* reservation when the work fails.  A contact import lands its rows in    *)
(* transactions of their own before the one that deletes its reservation;  *)
(* they do not ask for the tenant's lock, but their foreign keys wait for  *)
(* it.                                                                     *)
(*                                                                         *)
(* A reservation of amount n is a row that names the n records it is for,  *)
(* so that SUM(amount) is a number of (reservation, record) pairs.  NOW()  *)
(* is the start of a transaction: what has lapsed for a transaction is     *)
(* what had lapsed when it began.                                          *)
(***************************************************************************)
EXTENDS Integers, FiniteSets

CONSTANTS
    Ops,          \* creations, restores, reactivations and imports
    Imports,      \* those of Ops that are contact imports
    Batch,        \* the records each operation would make active
    Ids,          \* reservation ids
    Plans,
    PlanLimit,    \* the limit of each plan, Unlimited or a number
    FirstPlan,
    NoClaim,      \* the no-op reservation, ID 0
    Nobody        \* the organization row is not locked

Unlimited == -1

Records == UNION {Batch[o] : o \in Ops}

ASSUME ConstantsAssumption ==
    /\ Imports \subseteq Ops
    /\ IsFiniteSet(Ids)
    /\ IsFiniteSet(UNION {Batch[o] : o \in Ops})
    /\ \A o \in Imports : \A p \in Ops \ {o} : Batch[o] \cap Batch[p] = {}
    /\ \A o \in Ops : Batch[o] # {}
    /\ \A p \in Plans : PlanLimit[p] \in Nat \cup {Unlimited}
    /\ FirstPlan \in Plans
    /\ NoClaim \notin Ids
    /\ Nobody \notin Ops

VARIABLES
    active,       \* records that count as used
    reserved,     \* billing_capacity_reservations: the records of each row
    lapsed,       \* rows whose expires_at has passed
    plan,         \* organizations.plan
    lock,         \* the operation that holds the organization row
    pc,           \* each operation: its next statement
    ticket,       \* each operation: the reservation it holds
    clock,        \* each operation: the rows lapsed at its transaction's NOW()
    seen,         \* each operation: the usage it counted
    done,         \* each import: its processed rows
    had           \* history: the plans the workspace has had

vars == <<active, reserved, lapsed, plan, lock, pc, ticket, clock, seen, done, had>>

TypeOK ==
    /\ active \in SUBSET Records
    /\ reserved \in [Ids -> SUBSET Records]
    /\ lapsed \in SUBSET Ids
    /\ plan \in Plans
    /\ lock \in Ops \cup {Nobody}
    /\ pc \in [Ops -> {"idle", "reserve", "count", "sum", "claimed", "open",
                       "effect", "cancel", "finished"}]
    /\ ticket \in [Ops -> Ids \cup {NoClaim}]
    /\ clock \in [Ops -> SUBSET Ids]
    /\ seen \in [Ops -> Nat]
    /\ done \in [Ops -> SUBSET Records]
    /\ had \in SUBSET Plans

Init ==
    /\ active = {}
    /\ reserved = [c \in Ids |-> {}]
    /\ lapsed = {}
    /\ plan = FirstPlan
    /\ lock = Nobody
    /\ pc = [o \in Ops |-> "idle"]
    /\ ticket = [o \in Ops |-> NoClaim]
    /\ clock = [o \in Ops |-> {}]
    /\ seen = [o \in Ops |-> 0]
    /\ done = [o \in Ops |-> {}]
    /\ had = {FirstPlan}

-----------------------------------------------------------------------------
Goto(o, p) == pc' = [pc EXCEPT ![o] = p]

Needs(o) == Batch[o] \ done[o]

Rows == {c \in Ids : reserved[c] # {}}

\* SUM(amount) over the reservations of C.
Units(C) == {u \in C \X Records : u[2] \in reserved[u[1]]}

Delete(C) ==
    /\ reserved' = [c \in Ids |-> IF c \in C THEN {} ELSE reserved[c]]
    /\ lapsed' = lapsed \ C

Release(o) == lock' = IF lock = o THEN Nobody ELSE lock

\* The transaction of o is over, and with it what it saw.
Forget(o) ==
    /\ clock' = [clock EXCEPT ![o] = {}]
    /\ seen' = [seen EXCEPT ![o] = 0]

-----------------------------------------------------------------------------
(* ReserveCapacity: lock the tenant, count what is used, add what is       *)
(* reserved, insert.                                                       *)

\* Imports of a workspace take turns on an advisory lock; one whose rows are
\* all processed needs no reservation.
StartReserve(o) ==
    /\ pc[o] = "idle"
    /\ o \in Imports => \A p \in Imports : pc[p] \in {"idle", "finished"}
    /\ Goto(o, IF Needs(o) = {} THEN "claimed" ELSE "reserve")
    /\ clock' = [clock EXCEPT ![o] = IF Needs(o) = {} THEN {} ELSE lapsed]
    /\ UNCHANGED <<active, reserved, lapsed, plan, lock, ticket, seen, done, had>>

LockForReserve(o) ==
    /\ pc[o] = "reserve"
    /\ lock = Nobody
    /\ lock' = o
    /\ Goto(o, "count")
    /\ UNCHANGED <<active, reserved, lapsed, plan, ticket, clock, seen, done, had>>

CountUsed(o) ==
    /\ pc[o] = "count"
    /\ seen' = [seen EXCEPT ![o] = Cardinality(active)]
    /\ Goto(o, "sum")
    /\ UNCHANGED <<active, reserved, lapsed, plan, lock, ticket, clock, done, had>>

Asked(o) == seen[o] + Cardinality(Units(Ids \ clock[o])) + Cardinality(Needs(o))

\* Ids come from a sequence: what a transaction saw lapsed is no new row's.
Fresh == Ids \ (Rows \cup {ticket[p] : p \in Ops} \cup UNION {clock[p] : p \in Ops})

Grant(o) ==
    /\ pc[o] = "sum"
    /\ PlanLimit[plan] # Unlimited
    /\ Asked(o) <= PlanLimit[plan]
    /\ \E c \in Fresh :
          /\ reserved' = [d \in Ids |-> IF d = c THEN Needs(o)
                                        ELSE IF d \in clock[o] THEN {}
                                        ELSE reserved[d]]
          /\ lapsed' = lapsed \ (clock[o] \cup {c})
          /\ \/ Goto(o, "claimed") /\ ticket' = [ticket EXCEPT ![o] = c]
             \/ Goto(o, "idle") /\ UNCHANGED ticket   \* the answer was lost
    /\ Release(o) /\ Forget(o)
    /\ UNCHANGED <<active, plan, done, had>>

GrantUnlimited(o) ==
    /\ pc[o] = "sum"
    /\ PlanLimit[plan] = Unlimited
    /\ Delete(clock[o])
    /\ Goto(o, "claimed")
    /\ Release(o) /\ Forget(o)
    /\ UNCHANGED <<active, plan, ticket, done, had>>

Refuse(o) ==
    /\ pc[o] = "sum"
    /\ PlanLimit[plan] # Unlimited
    /\ Asked(o) > PlanLimit[plan]
    /\ Goto(o, "idle")
    /\ Release(o) /\ Forget(o)
    /\ UNCHANGED <<active, reserved, lapsed, plan, ticket, done, had>>

-----------------------------------------------------------------------------
(* The operation itself: LockCapacityEffect first, ConsumeCapacity last.   *)

BeginEffect(o) ==
    /\ pc[o] = "claimed"
    /\ o \in Imports => Needs(o) = {}
    /\ Goto(o, IF ticket[o] = NoClaim THEN "effect" ELSE "open")
    /\ clock' = [clock EXCEPT ![o] = lapsed]
    /\ UNCHANGED <<active, reserved, lapsed, plan, lock, ticket, seen, done, had>>

LockForEffect(o) ==
    /\ pc[o] = "open"
    /\ lock = Nobody
    /\ lock' = o
    /\ Goto(o, "effect")
    /\ UNCHANGED <<active, reserved, lapsed, plan, ticket, clock, seen, done, had>>

\* The reservation is there and had not expired when the transaction began.
Valid(o) == ticket[o] \in Rows \ clock[o]

\* The records of a bulk rollback that changed since stay as they are.
Effect(o) ==
    IF o \in Imports THEN active' = active
    ELSE \E S \in SUBSET (Batch[o] \ active) : S # {} /\ active' = active \cup S

CommitEffect(o) ==
    /\ pc[o] = "effect"
    /\ ticket[o] # NoClaim => Valid(o)
    /\ Effect(o)
    /\ Delete({ticket[o]})
    /\ ticket' = [ticket EXCEPT ![o] = NoClaim]
    /\ Goto(o, IF o \in Imports THEN "finished" ELSE "idle")
    /\ Release(o) /\ Forget(o)
    /\ UNCHANGED <<plan, done, had>>

\* A check, a statement or the reservation fails: the deferred cancellation is
\* next, or a reactivation tries the transaction again.
RollBack(o) ==
    /\ pc[o] \in {"claimed", "open", "effect"}
    /\ \/ Goto(o, "cancel")
       \/ o \notin Imports /\ pc[o] # "claimed" /\ Goto(o, "claimed")
    /\ Release(o) /\ Forget(o)
    /\ UNCHANGED <<active, reserved, lapsed, plan, ticket, done, had>>

\* Best effort: one DELETE by id, without the tenant's lock.
Cancel(o) ==
    /\ pc[o] = "cancel"
    /\ \/ Delete({ticket[o]})
       \/ UNCHANGED <<reserved, lapsed>>
    /\ ticket' = [ticket EXCEPT ![o] = NoClaim]
    /\ Goto(o, "idle")
    /\ UNCHANGED <<active, plan, lock, clock, seen, done, had>>

\* Were the tenant's row locked in a mode that foreign keys do not wait for.
CheckpointBesideLock(o) ==
    /\ o \in Imports
    /\ pc[o] = "claimed"
    /\ \E S \in (SUBSET Needs(o)) \ {{}} :
          /\ done' = [done EXCEPT ![o] = @ \cup S]
          /\ \E T \in SUBSET S : active' = active \cup T
    /\ UNCHANGED <<reserved, lapsed, plan, lock, pc, ticket, clock, seen, had>>

\* One checkpoint of an import: rows that turn out to be duplicates add nothing.
\* Every row it inserts refers to the organization, whose row it takes FOR KEY
\* SHARE: it waits for whoever holds that row FOR UPDATE.
Checkpoint(o) ==
    /\ o \in Imports
    /\ pc[o] = "claimed"
    /\ lock = Nobody
    /\ \E S \in (SUBSET Needs(o)) \ {{}} :
          /\ done' = [done EXCEPT ![o] = @ \cup S]
          /\ \E T \in SUBSET S : active' = active \cup T
    /\ UNCHANGED <<reserved, lapsed, plan, lock, pc, ticket, clock, seen, had>>

\* The process stops: its transaction rolls back, its reservation stays.
Crash(o) ==
    /\ pc[o] \notin {"idle", "finished"}
    /\ Goto(o, "idle")
    /\ ticket' = [ticket EXCEPT ![o] = NoClaim]
    /\ Release(o) /\ Forget(o)
    /\ UNCHANGED <<active, reserved, lapsed, plan, done, had>>

-----------------------------------------------------------------------------
(* The rest of the program, and time.                                      *)

\* Archiving and deactivation take no lock.
Archive(r) ==
    /\ r \in active
    /\ active' = active \ {r}
    /\ UNCHANGED <<reserved, lapsed, plan, lock, pc, ticket, clock, seen, done, had>>

\* Ten minutes pass.  An import job runs for at most four.
Lapse(c) ==
    /\ c \in Rows \ lapsed
    /\ \A o \in Imports : ticket[o] # c
    /\ lapsed' = lapsed \cup {c}
    /\ UNCHANGED <<active, reserved, plan, lock, pc, ticket, clock, seen, done, had>>

ChangePlan(p) ==
    /\ lock = Nobody
    /\ plan' = p
    /\ had' = had \cup {p}
    /\ UNCHANGED <<active, reserved, lapsed, lock, pc, ticket, clock, seen, done>>

Next ==
    \/ \E o \in Ops :
          \/ StartReserve(o) \/ LockForReserve(o) \/ CountUsed(o)
          \/ Grant(o) \/ GrantUnlimited(o) \/ Refuse(o)
          \/ BeginEffect(o) \/ LockForEffect(o) \/ CommitEffect(o)
          \/ RollBack(o) \/ Cancel(o) \/ Checkpoint(o) \/ Crash(o)
    \/ \E r \in Records : Archive(r)
    \/ \E c \in Ids : Lapse(c)
    \/ \E p \in Plans : ChangePlan(p)

Spec == Init /\ [][Next]_vars

-----------------------------------------------------------------------------
(* Properties.                                                             *)

WithinSomePlan(n) ==
    \E p \in had : PlanLimit[p] = Unlimited \/ n <= PlanLimit[p]

\* What is reserved for records that are not yet processed.
Outstanding ==
    {u \in Ids \X Records : u[2] \in reserved[u[1]] \ UNION {done[o] : o \in Ops}}

\* Two requests never share the last slot: what creations, restores,
\* reactivations and the checkpoints of imports made active, and what is still
\* reserved for records to come, stays within the largest limit the workspace
\* has had, whatever crashes, lapses or is cancelled at any point.
ActiveWithinPlan == WithinSomePlan(Cardinality(active) + Cardinality(Outstanding))
=============================================================================
