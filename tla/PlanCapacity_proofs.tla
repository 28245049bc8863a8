------------------------ MODULE PlanCapacity_proofs --------------------------
(***************************************************************************)
(* Proofs about PlanCapacity, for every set of operations, records and     *)
(* plans.  What ActiveWithinPlan needs to be inductive: a count taken      *)
(* under the tenant's lock stays an upper bound until the lock is          *)
(* released, because a direct operation grows the usage under the same     *)
(* lock and the checkpoint of an import waits for it; and an import's      *)
(* reservation is there, and covers what is left to do, until it ends.     *)
(***************************************************************************)
EXTENDS PlanCapacity, FiniteSetTheorems, TLAPS

\* A plan without a limit was seen: nothing is promised any more.
Unbounded == \E p \in had : PlanLimit[p] = Unlimited

\* Between its lock and its commit a transaction holds the organization row.
LockHeld ==
    \A o \in Ops :
        \/ pc[o] \in {"count", "sum"}
        \/ pc[o] = "effect" /\ ticket[o] # NoClaim
        => lock = o

\* Only imports make progress outside the transaction that ends them.
OnlyImportsProgress == \A o \in Ops \ Imports : done[o] = {}

\* The row a direct operation holds, if it is still there, is for its records.
RowIsBatch ==
    \A o \in Ops \ Imports :
        ticket[o] \in Rows => reserved[ticket[o]] = Batch[o]

\* An import processes rows of its own batch only.
ProgressOfBatch == \A o \in Ops : done[o] \subseteq Batch[o]

\* The reservation of an import covers what the import has yet to do, and no
\* other operation can delete it: it is nobody else's, and has not lapsed for
\* any transaction.
ImportHolds ==
    \A o \in Imports : ticket[o] # NoClaim =>
        /\ Needs(o) \subseteq reserved[ticket[o]]
        /\ ticket[o] \notin lapsed
        /\ \A p \in Ops : ticket[o] \notin clock[p] /\ (p # o => ticket[p] # ticket[o])

\* An operation with work to do goes on without a reservation only when none
\* was needed.
NoFreeEffect ==
    \A o \in Ops :
        pc[o] \in {"claimed", "open", "effect"} /\ ticket[o] = NoClaim /\ Needs(o) # {}
            => Unbounded

\* What was counted still bounds what is used.
CountHolds ==
    \A o \in Ops :
        pc[o] = "sum" => Unbounded \/ Cardinality(active) <= seen[o]

IInv ==
    /\ TypeOK
    /\ plan \in had
    /\ LockHeld
    /\ OnlyImportsProgress
    /\ ProgressOfBatch
    /\ RowIsBatch
    /\ ImportHolds
    /\ NoFreeEffect
    /\ CountHolds
    /\ ActiveWithinPlan

-----------------------------------------------------------------------------
(* Cardinalities.                                                          *)

\* The records and the pairs that stand for amounts are finite.
LEMMA Finiteness == IsFiniteSet(Records) /\ IsFiniteSet(Ids \X Records)
<1>1. IsFiniteSet(Ids) /\ IsFiniteSet(Records)
  BY ConstantsAssumption DEF Records
<1> QED
  BY <1>1, FS_Product

\* A subset of a finite set has at most as many elements.
LEMMA Smaller ==
    ASSUME NEW S, IsFiniteSet(S), NEW T, T \subseteq S
    PROVE  /\ IsFiniteSet(T)
           /\ Cardinality(T) \in Nat /\ Cardinality(S) \in Nat
           /\ Cardinality(T) <= Cardinality(S)
<1>1. IsFiniteSet(T) /\ Cardinality(T) <= Cardinality(S)
  BY FS_Subset
<1> QED
  BY <1>1, FS_CardinalityType

\* A reservation is worth as many pairs as it names records.
LEMMA Worth ==
    ASSUME NEW c, NEW S, IsFiniteSet(S)
    PROVE  /\ IsFiniteSet({c} \X S)
           /\ Cardinality({c} \X S) = Cardinality(S)
           /\ Cardinality(S) \in Nat
<1>1. IsFiniteSet({c}) /\ Cardinality({c}) = 1
  BY FS_Singleton
<1>2. IsFiniteSet({c} \X S) /\ Cardinality({c} \X S) = Cardinality({c}) * Cardinality(S)
  BY <1>1, FS_Product
<1>3. Cardinality(S) \in Nat
  BY FS_CardinalityType
<1> QED
  BY <1>1, <1>2, <1>3

\* The number ActiveWithinPlan bounds is a number.
LEMMA UsageIsNatural ==
    ASSUME TypeOK
    PROVE  /\ IsFiniteSet(active) /\ IsFiniteSet(Outstanding)
           /\ Cardinality(active) \in Nat
           /\ Cardinality(Outstanding) \in Nat
<1>1. active \subseteq Records /\ Outstanding \subseteq Ids \X Records
  BY DEF Outstanding, TypeOK
<1> QED
  BY <1>1, Finiteness, Smaller

\* A step after which no more records are used, and no more reserved, keeps
\* ActiveWithinPlan.
LEMMA NoMore ==
    ASSUME TypeOK, ActiveWithinPlan, had \subseteq had', active' \subseteq active,
           Outstanding' \subseteq Outstanding
    PROVE  ActiveWithinPlan'
<1>1. PICK p \in had : \/ PlanLimit[p] = Unlimited
                       \/ Cardinality(active) + Cardinality(Outstanding) <= PlanLimit[p]
  BY DEF ActiveWithinPlan, WithinSomePlan
<1>2. /\ Cardinality(active') \in Nat
      /\ Cardinality(active') <= Cardinality(active)
  BY UsageIsNatural, Smaller
<1>3. /\ Cardinality(Outstanding') \in Nat
      /\ Cardinality(Outstanding') <= Cardinality(Outstanding)
  BY UsageIsNatural, Smaller
<1>4. p \in had' /\ p \in Plans
  BY DEF TypeOK
<1>5. PlanLimit[p] \in Int
  BY <1>4, ConstantsAssumption DEF Unlimited
<1>6. \/ PlanLimit[p] = Unlimited
      \/ Cardinality(active') + Cardinality(Outstanding') <= PlanLimit[p]
  BY <1>1, <1>2, <1>3, <1>5, UsageIsNatural
<1> QED
  BY <1>4, <1>6 DEF ActiveWithinPlan, WithinSomePlan

-----------------------------------------------------------------------------
(* Type correctness.                                                       *)

\* The initial state has the types TypeOK gives.
LEMMA InitTypeOK == Init => TypeOK
  BY ConstantsAssumption DEF Init, TypeOK

\* Every step keeps the types.
LEMMA NextTypeOK == TypeOK /\ [Next]_vars => TypeOK'
<1> SUFFICES ASSUME TypeOK, [Next]_vars PROVE TypeOK'
  OBVIOUS
<1> USE ConstantsAssumption DEF TypeOK, Goto, Release, Forget, Delete
<1>1. \A o \in Ops : Batch[o] \subseteq Records /\ Needs(o) \subseteq Records
  BY DEF Records, Needs
<1>2. Cardinality(active) \in Nat
  BY Finiteness, Smaller
<1>3. ASSUME NEW o \in Ops, StartReserve(o) PROVE TypeOK'
  <2>1. pc' \in [Ops -> {"idle", "reserve", "count", "sum", "claimed", "open",
                         "effect", "cancel", "finished"}]
    BY <1>3 DEF StartReserve
  <2>2. clock' \in [Ops -> SUBSET Ids]
    BY <1>3 DEF StartReserve
  <2> QED
    BY <1>3, <2>1, <2>2 DEF StartReserve
<1>4. ASSUME NEW o \in Ops, LockForReserve(o) \/ LockForEffect(o) PROVE TypeOK'
  BY <1>4 DEF LockForReserve, LockForEffect
<1>5. ASSUME NEW o \in Ops, CountUsed(o) PROVE TypeOK'
  BY <1>2, <1>5 DEF CountUsed
<1>6. ASSUME NEW o \in Ops, Grant(o) PROVE TypeOK'
  <2>1. PICK c \in Ids :
            /\ reserved' = [d \in Ids |-> IF d = c THEN Needs(o)
                                          ELSE IF d \in clock[o] THEN {}
                                          ELSE reserved[d]]
            /\ lapsed' = lapsed \ (clock[o] \cup {c})
            /\ \/ Goto(o, "claimed") /\ ticket' = [ticket EXCEPT ![o] = c]
               \/ Goto(o, "idle") /\ UNCHANGED ticket
    BY <1>6 DEF Grant, Fresh
  <2>2. reserved' \in [Ids -> SUBSET Records] /\ lapsed' \in SUBSET Ids
    BY <1>1, <2>1
  <2>3. /\ pc' \in [Ops -> {"idle", "reserve", "count", "sum", "claimed", "open",
                            "effect", "cancel", "finished"}]
        /\ ticket' \in [Ops -> Ids \cup {NoClaim}]
    BY <2>1
  <2>4. clock' \in [Ops -> SUBSET Ids] /\ seen' \in [Ops -> Nat]
    BY <1>6 DEF Grant
  <2> QED
    BY <1>6, <2>2, <2>3, <2>4 DEF Grant
<1>7. ASSUME NEW o \in Ops, GrantUnlimited(o) PROVE TypeOK'
  BY <1>7 DEF GrantUnlimited
<1>8. ASSUME NEW o \in Ops, Refuse(o) PROVE TypeOK'
  BY <1>8 DEF Refuse
<1>9. ASSUME NEW o \in Ops, BeginEffect(o) PROVE TypeOK'
  <2>1. pc' \in [Ops -> {"idle", "reserve", "count", "sum", "claimed", "open",
                         "effect", "cancel", "finished"}]
    BY <1>9 DEF BeginEffect
  <2> QED
    BY <1>9, <2>1 DEF BeginEffect
<1>10. ASSUME NEW o \in Ops, CommitEffect(o) PROVE TypeOK'
  <2>1. active' \in SUBSET Records
    BY <1>1, <1>10 DEF CommitEffect, Effect
  <2>2. pc' \in [Ops -> {"idle", "reserve", "count", "sum", "claimed", "open",
                         "effect", "cancel", "finished"}]
    BY <1>10 DEF CommitEffect
  <2> QED
    BY <1>10, <2>1, <2>2 DEF CommitEffect
<1>11. ASSUME NEW o \in Ops, RollBack(o) PROVE TypeOK'
  BY <1>11 DEF RollBack
<1>12. ASSUME NEW o \in Ops, Cancel(o) PROVE TypeOK'
  BY <1>12 DEF Cancel
<1>13. ASSUME NEW o \in Ops, Checkpoint(o) PROVE TypeOK'
  <2>1. PICK S \in SUBSET Needs(o) :
            /\ done' = [done EXCEPT ![o] = @ \cup S]
            /\ \E T \in SUBSET S : active' = active \cup T
    BY <1>13 DEF Checkpoint
  <2>2. done' \in [Ops -> SUBSET Records] /\ active' \in SUBSET Records
    BY <1>1, <2>1
  <2> QED
    BY <1>13, <2>2 DEF Checkpoint
<1>14. ASSUME NEW o \in Ops, Crash(o) PROVE TypeOK'
  BY <1>14 DEF Crash
<1>15. ASSUME NEW r \in Records, Archive(r) PROVE TypeOK'
  BY <1>15 DEF Archive
<1>16. ASSUME NEW c \in Ids, Lapse(c) PROVE TypeOK'
  BY <1>16 DEF Lapse
<1>17. ASSUME NEW p \in Plans, ChangePlan(p) PROVE TypeOK'
  BY <1>17 DEF ChangePlan
<1>18. CASE UNCHANGED vars
  BY <1>18 DEF vars
<1> QED
  BY <1>3, <1>4, <1>5, <1>6, <1>7, <1>8, <1>9, <1>10, <1>11, <1>12, <1>13,
     <1>14, <1>15, <1>16, <1>17, <1>18 DEF Next

\* The tables and the operations' copies keep their types (PlanCapacity!TypeOK).
THEOREM TypeCorrect == Spec => []TypeOK
<1>1. Init => TypeOK
  BY InitTypeOK
<1>2. TypeOK /\ [Next]_vars => TypeOK'
  BY NextTypeOK
<1> QED
  BY <1>1, <1>2, PTL DEF Spec

-----------------------------------------------------------------------------
(* The conjuncts of IInv, each kept by every step.                         *)

\* A reservation or an effect in its transaction has the tenant's row locked.
LEMMA LockHeldStep == IInv /\ [Next]_vars => LockHeld'
<1> SUFFICES ASSUME IInv, [Next]_vars, NEW p \in Ops,
                    \/ pc'[p] \in {"count", "sum"}
                    \/ pc'[p] = "effect" /\ ticket'[p] # NoClaim
             PROVE  lock' = p
  BY DEF LockHeld
<1> USE ConstantsAssumption DEF IInv, TypeOK, LockHeld, Goto, Release, Forget
<1>1. ASSUME NEW o \in Ops, StartReserve(o) PROVE lock' = p
  BY <1>1 DEF StartReserve
<1>2. ASSUME NEW o \in Ops, LockForReserve(o) PROVE lock' = p
  BY <1>2 DEF LockForReserve
<1>3. ASSUME NEW o \in Ops, CountUsed(o) PROVE lock' = p
  BY <1>3 DEF CountUsed
<1>4. ASSUME NEW o \in Ops, Grant(o) PROVE lock' = p
  BY <1>4 DEF Grant
<1>5. ASSUME NEW o \in Ops, GrantUnlimited(o) PROVE lock' = p
  BY <1>5 DEF GrantUnlimited
<1>6. ASSUME NEW o \in Ops, Refuse(o) PROVE lock' = p
  BY <1>6 DEF Refuse
<1>7. ASSUME NEW o \in Ops, BeginEffect(o) PROVE lock' = p
  BY <1>7 DEF BeginEffect
<1>8. ASSUME NEW o \in Ops, LockForEffect(o) PROVE lock' = p
  BY <1>8 DEF LockForEffect
<1>9. ASSUME NEW o \in Ops, CommitEffect(o) PROVE lock' = p
  BY <1>9 DEF CommitEffect
<1>10. ASSUME NEW o \in Ops, RollBack(o) PROVE lock' = p
  BY <1>10 DEF RollBack
<1>11. ASSUME NEW o \in Ops, Cancel(o) PROVE lock' = p
  BY <1>11 DEF Cancel
<1>12. ASSUME NEW o \in Ops, Checkpoint(o) PROVE lock' = p
  BY <1>12 DEF Checkpoint
<1>13. ASSUME NEW o \in Ops, Crash(o) PROVE lock' = p
  BY <1>13 DEF Crash
<1>14. ASSUME NEW r \in Records, Archive(r) PROVE lock' = p
  BY <1>14 DEF Archive
<1>15. ASSUME NEW c \in Ids, Lapse(c) PROVE lock' = p
  BY <1>15 DEF Lapse
<1>16. ASSUME NEW q \in Plans, ChangePlan(q) PROVE lock' = p
  BY <1>16 DEF ChangePlan
<1>17. CASE UNCHANGED vars
  BY <1>17 DEF vars
<1> QED
  BY <1>1, <1>2, <1>3, <1>4, <1>5, <1>6, <1>7, <1>8, <1>9, <1>10, <1>11, <1>12,
     <1>13, <1>14, <1>15, <1>16, <1>17 DEF Next

\* The rows an import processed are the only progress kept between transactions,
\* and they are rows of its batch.
LEMMA ProgressStep == IInv /\ [Next]_vars => OnlyImportsProgress' /\ ProgressOfBatch'
<1> SUFFICES ASSUME IInv, [Next]_vars PROVE OnlyImportsProgress' /\ ProgressOfBatch'
  OBVIOUS
<1> USE DEF IInv, TypeOK, OnlyImportsProgress, ProgressOfBatch
<1>1. ASSUME NEW o \in Ops, Checkpoint(o) PROVE OnlyImportsProgress' /\ ProgressOfBatch'
  <2>1. PICK S \in SUBSET Needs(o) : done' = [done EXCEPT ![o] = @ \cup S]
    BY <1>1 DEF Checkpoint
  <2>2. S \subseteq Batch[o] /\ o \in Imports
    BY <1>1 DEF Needs, Checkpoint
  <2> QED
    BY <2>1, <2>2
<1>2. ASSUME NEW o \in Ops,
             \/ StartReserve(o) \/ LockForReserve(o) \/ CountUsed(o)
             \/ Grant(o) \/ GrantUnlimited(o) \/ Refuse(o)
             \/ BeginEffect(o) \/ LockForEffect(o) \/ CommitEffect(o)
             \/ RollBack(o) \/ Cancel(o) \/ Crash(o)
      PROVE  done' = done
  BY <1>2 DEF StartReserve, LockForReserve, CountUsed, Grant, GrantUnlimited,
              Refuse, BeginEffect, LockForEffect, CommitEffect, RollBack, Cancel, Crash
<1>3. CASE \/ \E r \in Records : Archive(r)
           \/ \E c \in Ids : Lapse(c)
           \/ \E p \in Plans : ChangePlan(p)
           \/ UNCHANGED vars
  BY <1>3 DEF Archive, Lapse, ChangePlan, vars
<1> QED
  BY <1>1, <1>2, <1>3 DEF Next

\* A step that writes no row and hands out no ticket keeps RowIsBatch.
LEMMA RowsKept ==
    ASSUME IInv,
           \A c \in Ids : reserved'[c] \in {{}, reserved[c]},
           \A o \in Ops : ticket'[o] \in {NoClaim, ticket[o]}
    PROVE  RowIsBatch'
  BY ConstantsAssumption DEF IInv, TypeOK, RowIsBatch, Rows

\* The row that a direct operation's ticket names is for that operation.
LEMMA RowStep == IInv /\ [Next]_vars => RowIsBatch'
<1> SUFFICES ASSUME IInv, [Next]_vars PROVE RowIsBatch'
  OBVIOUS
<1> USE DEF IInv, TypeOK
<1>1. ASSUME NEW o \in Ops, Grant(o) PROVE RowIsBatch'
  <2>1. PICK c \in Ids \ (Rows \cup {ticket[p] : p \in Ops}) :
            /\ reserved' = [d \in Ids |-> IF d = c THEN Needs(o)
                                          ELSE IF d \in clock[o] THEN {}
                                          ELSE reserved[d]]
            /\ ticket' = [ticket EXCEPT ![o] = c] \/ ticket' = ticket
    BY <1>1 DEF Grant, Fresh
  <2> SUFFICES ASSUME NEW p \in Ops \ Imports, ticket'[p] \in Rows'
               PROVE  reserved'[ticket'[p]] = Batch[p]
    BY DEF RowIsBatch
  <2>2. CASE ticket'[p] = c
    <3>1. ticket[p] # c
      BY <2>1
    <3>2. p = o
      BY <2>1, <2>2, <3>1
    <3>3. Needs(o) = Batch[o]
      BY <3>2 DEF Needs, OnlyImportsProgress
    <3> QED
      BY <2>1, <2>2, <3>2, <3>3
  <2>3. CASE ticket'[p] # c
    <3>1. ticket'[p] = ticket[p]
      BY <2>1, <2>3
    <3>2. ticket[p] \in Ids /\ reserved'[ticket[p]] # {}
      BY <3>1 DEF Rows
    <3>3. reserved'[ticket[p]] = reserved[ticket[p]]
      BY <2>1, <2>3, <3>1, <3>2
    <3> QED
      BY <3>1, <3>2, <3>3 DEF RowIsBatch, Rows
  <2> QED
    BY <2>2, <2>3
<1>2. ASSUME NEW o \in Ops,
             \/ StartReserve(o) \/ LockForReserve(o) \/ CountUsed(o) \/ Refuse(o)
             \/ BeginEffect(o) \/ LockForEffect(o) \/ RollBack(o) \/ Checkpoint(o)
      PROVE  RowIsBatch'
  <2>1. reserved' = reserved /\ ticket' = ticket
    BY <1>2 DEF StartReserve, LockForReserve, CountUsed, Refuse, BeginEffect,
                LockForEffect, RollBack, Checkpoint
  <2> QED
    BY <2>1, RowsKept
<1>3. ASSUME NEW o \in Ops, GrantUnlimited(o) \/ CommitEffect(o) \/ Cancel(o) \/ Crash(o)
      PROVE  RowIsBatch'
  <2>1. \A c \in Ids : reserved'[c] \in {{}, reserved[c]}
    BY <1>3 DEF GrantUnlimited, CommitEffect, Cancel, Crash, Delete
  <2>2. \A p \in Ops : ticket'[p] \in {NoClaim, ticket[p]}
    BY <1>3 DEF GrantUnlimited, CommitEffect, Cancel, Crash
  <2> QED
    BY <2>1, <2>2, RowsKept
<1>4. CASE \/ \E r \in Records : Archive(r)
           \/ \E c \in Ids : Lapse(c)
           \/ \E p \in Plans : ChangePlan(p)
           \/ UNCHANGED vars
  <2>1. reserved' = reserved /\ ticket' = ticket
    BY <1>4 DEF Archive, Lapse, ChangePlan, vars
  <2> QED
    BY <2>1, RowsKept
<1> QED
  BY <1>1, <1>2, <1>3, <1>4 DEF Next

\* A step that writes no row, begins no transaction and takes no ticket, and
\* after which what is reserved covers what is left, keeps ImportHolds.
LEMMA HoldKept ==
    ASSUME IInv,
           \A o \in Imports : /\ ticket'[o] \in {NoClaim, ticket[o]}
                              /\ done[o] \subseteq done'[o]
                              /\ ticket'[o] # NoClaim =>
                                    /\ reserved'[ticket[o]] = reserved[ticket[o]]
                                    /\ ticket[o] \notin lapsed',
           \A p \in Ops : /\ clock'[p] \subseteq clock[p] \cup lapsed
                          /\ ticket'[p] \in {NoClaim, ticket[p]}
    PROVE  ImportHolds'
<1> SUFFICES ASSUME NEW o \in Imports, ticket'[o] # NoClaim
             PROVE  /\ Batch[o] \ done'[o] \subseteq reserved'[ticket'[o]]
                    /\ ticket'[o] \notin lapsed'
                    /\ \A p \in Ops : /\ ticket'[o] \notin clock'[p]
                                      /\ p # o => ticket'[p] # ticket'[o]
  BY DEF ImportHolds, Needs
<1>1. o \in Ops /\ ticket'[o] = ticket[o] /\ ticket[o] # NoClaim
  BY ConstantsAssumption
<1>2. /\ Batch[o] \ done[o] \subseteq reserved[ticket[o]]
      /\ ticket[o] \notin lapsed
      /\ \A p \in Ops : ticket[o] \notin clock[p] /\ (p # o => ticket[p] # ticket[o])
  BY <1>1 DEF IInv, ImportHolds, Needs
<1>3. \A p \in Ops : ticket'[o] \notin clock'[p]
  BY <1>1, <1>2
<1>4. \A p \in Ops : p # o => ticket'[p] # ticket'[o]
  BY <1>1, <1>2
<1> QED
  BY <1>1, <1>2, <1>3, <1>4

\* A new reservation is for what its import has yet to do, and takes the
\* reservation of no other import away.
LEMMA HoldGranted ==
    ASSUME IInv, NEW q \in Ops, Grant(q)
    PROVE  ImportHolds'
<1>1. PICK c \in Fresh :
          /\ reserved' = [d \in Ids |-> IF d = c THEN Needs(q)
                                        ELSE IF d \in clock[q] THEN {}
                                        ELSE reserved[d]]
          /\ lapsed' = lapsed \ (clock[q] \cup {c})
          /\ ticket' = [ticket EXCEPT ![q] = c] \/ ticket' = ticket
  BY DEF Grant
<1>2. done' = done /\ clock' = [clock EXCEPT ![q] = {}]
  BY DEF Grant, Forget
<1>3. c \in Ids /\ \A p \in Ops : c # ticket[p] /\ c \notin clock[p]
  BY <1>1 DEF Fresh
<1> SUFFICES ASSUME NEW o \in Imports, ticket'[o] # NoClaim
             PROVE  /\ Batch[o] \ done[o] \subseteq reserved'[ticket'[o]]
                    /\ ticket'[o] \notin lapsed'
                    /\ \A p \in Ops : /\ ticket'[o] \notin clock'[p]
                                      /\ p # o => ticket'[p] # ticket'[o]
  BY <1>2 DEF ImportHolds, Needs
<1> USE DEF IInv, TypeOK
<1>4. o \in Ops
  BY ConstantsAssumption
<1>5. \A p \in Ops : clock'[p] \subseteq clock[p]
  BY <1>2
<1>6. CASE ticket'[o] = c
  <2>1. q = o /\ ticket' = [ticket EXCEPT ![q] = c]
    BY <1>1, <1>3, <1>4, <1>6
  <2>2. reserved'[c] = Batch[o] \ done[o]
    BY <1>1, <1>3, <2>1 DEF Needs
  <2>3. \A p \in Ops : p # o => ticket'[p] # c
    BY <1>3, <2>1
  <2> QED
    BY <1>1, <1>3, <1>5, <1>6, <2>2, <2>3
<1>7. CASE ticket'[o] # c
  <2>1. ticket'[o] = ticket[o] /\ ticket[o] \in Ids
    BY <1>1, <1>4, <1>7
  <2>2. /\ Batch[o] \ done[o] \subseteq reserved[ticket[o]]
        /\ ticket[o] \notin lapsed
        /\ \A p \in Ops : ticket[o] \notin clock[p] /\ (p # o => ticket[p] # ticket[o])
    BY <2>1 DEF ImportHolds, Needs
  <2>3. reserved'[ticket[o]] = reserved[ticket[o]]
    BY <1>1, <1>7, <2>1, <2>2
  <2>4. \A p \in Ops : p # o => ticket'[p] # ticket[o]
    BY <1>1, <1>7, <2>1, <2>2
  <2> QED
    BY <1>1, <1>5, <2>1, <2>2, <2>3, <2>4
<1> QED
  BY <1>6, <1>7

\* An import keeps its reservation, for what it has yet to do, until it ends.
LEMMA HoldStep == IInv /\ [Next]_vars => ImportHolds'
<1> SUFFICES ASSUME IInv, [Next]_vars PROVE ImportHolds'
  OBVIOUS
<1> USE ConstantsAssumption DEF Goto, Release, Forget, Delete
<1>1. ASSUME NEW q \in Ops, Grant(q) PROVE ImportHolds'
  BY <1>1, HoldGranted
<1>2. ASSUME NEW q \in Ops,
             \/ StartReserve(q) \/ LockForReserve(q) \/ CountUsed(q) \/ Refuse(q)
             \/ BeginEffect(q) \/ LockForEffect(q) \/ RollBack(q) \/ Checkpoint(q)
      PROVE  ImportHolds'
  <2>1. reserved' = reserved /\ lapsed' = lapsed /\ ticket' = ticket
    BY <1>2 DEF StartReserve, LockForReserve, CountUsed, Refuse, BeginEffect,
                LockForEffect, RollBack, Checkpoint
  <2>2. \A p \in Ops : clock'[p] \subseteq clock[p] \cup lapsed
    BY <1>2 DEF StartReserve, LockForReserve, CountUsed, Refuse, BeginEffect,
                LockForEffect, RollBack, Checkpoint, IInv, TypeOK
  <2>3. \A o \in Ops : done[o] \subseteq done'[o]
    BY <1>2 DEF StartReserve, LockForReserve, CountUsed, Refuse, BeginEffect,
                LockForEffect, RollBack, Checkpoint, IInv, TypeOK
  <2>4. \A o \in Imports : ticket[o] # NoClaim => ticket[o] \notin lapsed
    BY DEF IInv, ImportHolds
  <2> QED
    BY <2>1, <2>2, <2>3, <2>4, HoldKept
<1>3. ASSUME NEW q \in Ops, GrantUnlimited(q) \/ CommitEffect(q) \/ Cancel(q) \/ Crash(q)
      PROVE  ImportHolds'
  <2>1. done' = done /\ lapsed' \subseteq lapsed
    BY <1>3 DEF GrantUnlimited, CommitEffect, Cancel, Crash
  <2>2. \A p \in Ops : /\ clock'[p] \subseteq clock[p]
                       /\ ticket'[p] \in {NoClaim, ticket[p]}
    BY <1>3 DEF GrantUnlimited, CommitEffect, Cancel, Crash, IInv, TypeOK
  <2>3. ASSUME NEW o \in Imports, ticket'[o] # NoClaim
        PROVE  reserved'[ticket[o]] = reserved[ticket[o]] /\ ticket[o] \notin lapsed'
    <3>1. o \in Ops /\ ticket[o] # NoClaim /\ ticket[o] \in Ids
      BY <2>2, <2>3 DEF IInv, TypeOK
    <3>2. /\ ticket[o] \notin lapsed
          /\ ticket[o] \notin clock[q]
          /\ q # o => ticket[q] # ticket[o]
      BY <3>1 DEF IInv, ImportHolds
    <3>3. CASE GrantUnlimited(q)
      BY <2>1, <3>1, <3>2, <3>3 DEF GrantUnlimited
    <3>4. CASE CommitEffect(q) \/ Cancel(q)
      <4>1. ticket' = [ticket EXCEPT ![q] = NoClaim]
        BY <3>4 DEF CommitEffect, Cancel
      <4>2. q # o
        BY <2>3, <3>1, <4>1 DEF IInv, TypeOK
      <4> QED
        BY <2>1, <3>1, <3>2, <3>4, <4>2 DEF CommitEffect, Cancel
    <3>5. CASE Crash(q)
      BY <3>2, <3>5 DEF Crash
    <3> QED
      BY <1>3, <3>3, <3>4, <3>5
  <2> QED
    BY <2>1, <2>2, <2>3, HoldKept
<1>4. ASSUME NEW c \in Ids, Lapse(c) PROVE ImportHolds'
  <2>1. /\ reserved' = reserved /\ ticket' = ticket /\ done' = done /\ clock' = clock
        /\ lapsed' = lapsed \cup {c} /\ \A o \in Imports : ticket[o] # c
    BY <1>4 DEF Lapse
  <2>2. \A o \in Imports : ticket[o] # NoClaim => ticket[o] \notin lapsed
    BY DEF IInv, ImportHolds
  <2> QED
    BY <2>1, <2>2, HoldKept
<1>5. CASE \/ \E r \in Records : Archive(r)
           \/ \E p \in Plans : ChangePlan(p)
           \/ UNCHANGED vars
  <2>1. UNCHANGED <<reserved, lapsed, ticket, done, clock>>
    BY <1>5 DEF Archive, ChangePlan, vars
  <2>2. \A o \in Imports : ticket[o] # NoClaim => ticket[o] \notin lapsed
    BY DEF IInv, ImportHolds
  <2> QED
    BY <2>1, <2>2, HoldKept
<1> QED
  BY <1>1, <1>2, <1>3, <1>4, <1>5 DEF Next

\* An operation with work to do goes on without a reservation only in a
\* workspace that has had a plan without a limit.
LEMMA FreeStep == IInv /\ [Next]_vars => NoFreeEffect'
<1> SUFFICES ASSUME IInv, [Next]_vars, NEW p \in Ops,
                    pc'[p] \in {"claimed", "open", "effect"}, ticket'[p] = NoClaim,
                    Batch[p] \ done'[p] # {}
             PROVE  Unbounded'
  BY DEF NoFreeEffect, Needs
<1> USE ConstantsAssumption DEF IInv, TypeOK, NoFreeEffect, Unbounded, Needs, Goto, Forget, Release
<1>1. ASSUME NEW o \in Ops, StartReserve(o) PROVE Unbounded'
  BY <1>1 DEF StartReserve
<1>2. ASSUME NEW o \in Ops, LockForReserve(o) PROVE Unbounded'
  BY <1>2 DEF LockForReserve
<1>3. ASSUME NEW o \in Ops, CountUsed(o) PROVE Unbounded'
  BY <1>3 DEF CountUsed
<1>4. ASSUME NEW o \in Ops, Grant(o) PROVE Unbounded'
  BY <1>4 DEF Grant, Fresh
<1>5. ASSUME NEW o \in Ops, GrantUnlimited(o) PROVE Unbounded'
  BY <1>5 DEF GrantUnlimited
<1>6. ASSUME NEW o \in Ops, Refuse(o) PROVE Unbounded'
  BY <1>6 DEF Refuse
<1>7. ASSUME NEW o \in Ops, BeginEffect(o) PROVE Unbounded'
  BY <1>7 DEF BeginEffect
<1>8. ASSUME NEW o \in Ops, LockForEffect(o) PROVE Unbounded'
  BY <1>8 DEF LockForEffect
<1>9. ASSUME NEW o \in Ops, CommitEffect(o) PROVE Unbounded'
  BY <1>9 DEF CommitEffect
<1>10. ASSUME NEW o \in Ops, RollBack(o) PROVE Unbounded'
  BY <1>10 DEF RollBack
<1>11. ASSUME NEW o \in Ops, Cancel(o) PROVE Unbounded'
  BY <1>11 DEF Cancel
<1>12. ASSUME NEW o \in Ops, Checkpoint(o) PROVE Unbounded'
  BY <1>12 DEF Checkpoint
<1>13. ASSUME NEW o \in Ops, Crash(o) PROVE Unbounded'
  BY <1>13 DEF Crash
<1>14. ASSUME NEW r \in Records, Archive(r) PROVE Unbounded'
  BY <1>14 DEF Archive
<1>15. ASSUME NEW c \in Ids, Lapse(c) PROVE Unbounded'
  BY <1>15 DEF Lapse
<1>16. ASSUME NEW q \in Plans, ChangePlan(q) PROVE Unbounded'
  BY <1>16 DEF ChangePlan
<1>17. CASE UNCHANGED vars
  BY <1>17 DEF vars
<1> QED
  BY <1>1, <1>2, <1>3, <1>4, <1>5, <1>6, <1>7, <1>8, <1>9, <1>10, <1>11, <1>12,
     <1>13, <1>14, <1>15, <1>16, <1>17 DEF Next

\* The plans a workspace has had are never forgotten, so a bound once given
\* up stays given up, and the current plan is one of them.
LEMMA HadStep == IInv /\ [Next]_vars => had \subseteq had' /\ (plan \in had)'
<1> SUFFICES ASSUME IInv, [Next]_vars PROVE had \subseteq had' /\ plan' \in had'
  OBVIOUS
<1>1. ASSUME NEW p \in Plans, ChangePlan(p) PROVE had \subseteq had' /\ plan' \in had'
  BY <1>1 DEF ChangePlan
<1>2. ASSUME NEW o \in Ops,
             \/ StartReserve(o) \/ LockForReserve(o) \/ CountUsed(o)
             \/ Grant(o) \/ GrantUnlimited(o) \/ Refuse(o)
             \/ BeginEffect(o) \/ LockForEffect(o) \/ CommitEffect(o)
             \/ RollBack(o) \/ Cancel(o) \/ Checkpoint(o) \/ Crash(o)
      PROVE  had' = had /\ plan' = plan
  BY <1>2 DEF StartReserve, LockForReserve, CountUsed, Grant, GrantUnlimited,
              Refuse, BeginEffect, LockForEffect, CommitEffect, RollBack, Cancel,
              Checkpoint, Crash
<1>3. CASE \/ \E r \in Records : Archive(r)
           \/ \E c \in Ids : Lapse(c)
           \/ UNCHANGED vars
  BY <1>3 DEF Archive, Lapse, vars, IInv
<1> QED
  BY <1>1, <1>2, <1>3 DEF Next, IInv

-----------------------------------------------------------------------------
(* Counting: only an operation that holds the lock, one that needed no     *)
(* reservation, or a checkpoint, for which the lock must be free, makes    *)
(* records active.                                                         *)

\* The steps that make no record active.
LEMMA QuietSteps ==
    ASSUME IInv, [Next]_vars,
           \A o \in Ops : (o \in Imports \/ ~ CommitEffect(o)) /\ ~ Checkpoint(o)
    PROVE  active' \subseteq active
<1>1. ASSUME NEW o \in Imports, CommitEffect(o) PROVE active' = active
  BY <1>1 DEF CommitEffect, Effect
<1>2. ASSUME NEW o \in Ops,
             \/ StartReserve(o) \/ LockForReserve(o) \/ CountUsed(o)
             \/ Grant(o) \/ GrantUnlimited(o) \/ Refuse(o)
             \/ BeginEffect(o) \/ LockForEffect(o)
             \/ RollBack(o) \/ Cancel(o) \/ Crash(o)
      PROVE  active' = active
  BY <1>2 DEF StartReserve, LockForReserve, CountUsed, Grant, GrantUnlimited,
              Refuse, BeginEffect, LockForEffect, RollBack, Cancel, Crash
<1>3. ASSUME NEW r \in Records, Archive(r) PROVE active' \subseteq active
  BY <1>3 DEF Archive
<1>4. CASE \/ \E c \in Ids : Lapse(c)
           \/ \E p \in Plans : ChangePlan(p)
           \/ UNCHANGED vars
  BY <1>4 DEF Lapse, ChangePlan, vars
<1> QED
  BY <1>1, <1>2, <1>3, <1>4 DEF Next

\* An operation that is between its two counts either counted in this step
\* or keeps what it counted.
LEMMA SeenStep ==
    ASSUME IInv, [Next]_vars, NEW p \in Ops, pc'[p] = "sum"
    PROVE  \/ CountUsed(p)
           \/ pc[p] = "sum" /\ seen'[p] = seen[p]
<1> USE ConstantsAssumption DEF IInv, TypeOK, Goto, Forget, Release
<1> DEFINE Goal == CountUsed(p) \/ (pc[p] = "sum" /\ seen'[p] = seen[p])
<1>1. ASSUME NEW o \in Ops,
             \/ StartReserve(o) \/ LockForReserve(o)
             \/ BeginEffect(o) \/ LockForEffect(o) \/ Checkpoint(o)
      PROVE  Goal
  <2>1. seen' = seen
    BY <1>1 DEF StartReserve, LockForReserve, BeginEffect, LockForEffect, Checkpoint
  <2>2. pc[p] = "sum"
    BY <1>1 DEF StartReserve, LockForReserve, BeginEffect, LockForEffect, Checkpoint
  <2> QED
    BY <2>1, <2>2
<1>2. ASSUME NEW o \in Ops, CountUsed(o) PROVE Goal
  BY <1>2 DEF CountUsed
<1>3. ASSUME NEW o \in Ops, Grant(o) PROVE Goal
  BY <1>3 DEF Grant
<1>4. ASSUME NEW o \in Ops, GrantUnlimited(o) \/ Refuse(o) PROVE Goal
  BY <1>4 DEF GrantUnlimited, Refuse
<1>5. ASSUME NEW o \in Ops, CommitEffect(o) PROVE Goal
  BY <1>5 DEF CommitEffect
<1>6. ASSUME NEW o \in Ops, RollBack(o) \/ Crash(o) PROVE Goal
  BY <1>6 DEF RollBack, Crash
<1>7. ASSUME NEW o \in Ops, Cancel(o) PROVE Goal
  BY <1>7 DEF Cancel
<1>8. CASE \/ \E r \in Records : Archive(r)
           \/ \E c \in Ids : Lapse(c)
           \/ \E q \in Plans : ChangePlan(q)
           \/ UNCHANGED vars
  BY <1>8 DEF Archive, Lapse, ChangePlan, vars
<1> QED
  BY <1>1, <1>2, <1>3, <1>4, <1>5, <1>6, <1>7, <1>8 DEF Next

\* A count taken under the lock bounds what is used until the lock is released.
LEMMA CountStep == IInv /\ [Next]_vars => CountHolds'
<1> SUFFICES ASSUME IInv, [Next]_vars, NEW p \in Ops, pc'[p] = "sum", ~ Unbounded'
             PROVE  Cardinality(active') <= seen'[p]
  BY DEF CountHolds
<1>1. ~ Unbounded
  BY HadStep DEF Unbounded
<1>2. IsFiniteSet(active) /\ Cardinality(active) \in Nat
  BY UsageIsNatural DEF IInv
<1>3. CASE CountUsed(p)
  <2>1. seen'[p] = Cardinality(active) /\ active' = active
    BY <1>3 DEF CountUsed, IInv, TypeOK
  <2> QED
    BY <1>2, <2>1
<1>4. CASE pc[p] = "sum" /\ seen'[p] = seen[p]
  <2>1. Cardinality(active) <= seen[p] /\ seen[p] \in Nat
    BY <1>1, <1>4 DEF IInv, CountHolds, TypeOK
  <2>2. lock = p
    BY <1>4 DEF IInv, LockHeld
  <2>3. ASSUME NEW o \in Ops \ Imports, CommitEffect(o) PROVE FALSE
    <3>1. pc[o] = "effect"
      BY <2>3 DEF CommitEffect
    <3>2. Needs(o) # {}
      BY ConstantsAssumption DEF IInv, OnlyImportsProgress, Needs
    <3>3. ticket[o] # NoClaim
      BY <1>1, <3>1, <3>2 DEF IInv, NoFreeEffect
    <3>4. lock = o
      BY <3>1, <3>3 DEF IInv, LockHeld
    <3> QED
      BY <1>4, <2>2, <3>1, <3>4
  <2>4. ASSUME NEW o \in Ops, Checkpoint(o) PROVE FALSE
    BY <2>2, <2>4, ConstantsAssumption DEF Checkpoint
  <2>5. active' \subseteq active
    BY <2>3, <2>4, QuietSteps
  <2>6. Cardinality(active') \in Nat /\ Cardinality(active') <= Cardinality(active)
    BY <1>2, <2>5, Smaller
  <2> QED
    BY <1>2, <1>4, <2>1, <2>6
<1> QED
  BY <1>3, <1>4, SeenStep

-----------------------------------------------------------------------------
(* ActiveWithinPlan: granting adds no more than was asked for, and an       *)
(* effect or a checkpoint activates no more than was reserved for it.      *)

\* At most as many records more are used as units fewer are reserved.
LEMMA Exchange ==
    ASSUME TypeOK, ActiveWithinPlan, ~ Unbounded, had' = had,
           NEW S, IsFiniteSet(S), NEW c,
           active' \subseteq active \cup S,
           {c} \X S \subseteq Outstanding,
           Outstanding' \subseteq Outstanding \ ({c} \X S)
    PROVE  ActiveWithinPlan'
<1> DEFINE N == {c} \X S
<1>1. IsFiniteSet(N) /\ Cardinality(N) = Cardinality(S) /\ Cardinality(S) \in Nat
  BY Worth
<1>2. /\ Cardinality(active') \in Nat
      /\ Cardinality(active') <= Cardinality(active) + Cardinality(S)
  <2>1. /\ IsFiniteSet(active \cup S)
        /\ Cardinality(active \cup S)
              = Cardinality(active) + Cardinality(S) - Cardinality(active \cap S)
    BY UsageIsNatural, FS_Union
  <2>2. Cardinality(active \cap S) \in Nat
    BY UsageIsNatural, Smaller
  <2>3. /\ Cardinality(active') \in Nat
        /\ Cardinality(active') <= Cardinality(active \cup S)
        /\ Cardinality(active \cup S) \in Nat
    BY <2>1, Smaller
  <2> QED
    BY <1>1, <2>1, <2>2, <2>3, UsageIsNatural
<1>3. /\ Cardinality(Outstanding') \in Nat
      /\ Cardinality(Outstanding') <= Cardinality(Outstanding) - Cardinality(S)
  <2>1. /\ IsFiniteSet(Outstanding \ N)
        /\ Cardinality(Outstanding \ N)
              = Cardinality(Outstanding) - Cardinality(Outstanding \cap N)
    BY UsageIsNatural, FS_Difference
  <2>2. Outstanding \cap N = N
    OBVIOUS
  <2>3. /\ Cardinality(Outstanding') \in Nat
        /\ Cardinality(Outstanding') <= Cardinality(Outstanding \ N)
        /\ Cardinality(Outstanding \ N) \in Nat
    BY <2>1, Smaller
  <2> QED
    BY <1>1, <2>1, <2>2, <2>3, UsageIsNatural
<1>4. PICK p \in had : Cardinality(active) + Cardinality(Outstanding) <= PlanLimit[p]
  BY DEF ActiveWithinPlan, WithinSomePlan, Unbounded
<1>5. PlanLimit[p] \in Int
  BY ConstantsAssumption DEF TypeOK, Unlimited
<1>6. Cardinality(active') + Cardinality(Outstanding') <= PlanLimit[p]
  BY <1>1, <1>2, <1>3, <1>4, <1>5, UsageIsNatural
<1> QED
  BY <1>4, <1>6 DEF ActiveWithinPlan, WithinSomePlan

\* A reservation within the plan keeps the usage within the plan.
LEMMA GrantStep ==
    ASSUME IInv, [Next]_vars, NEW o \in Ops, Grant(o)
    PROVE  ActiveWithinPlan'
<1>1. PICK c \in Ids :
          reserved' = [d \in Ids |-> IF d = c THEN Needs(o)
                                     ELSE IF d \in clock[o] THEN {}
                                     ELSE reserved[d]]
  BY DEF Grant, Fresh
<1>2. active' = active /\ plan \in had /\ had' = had /\ pc[o] = "sum"
  BY DEF Grant, IInv
<1>3. IsFiniteSet(Needs(o))
  <2>1. Needs(o) \subseteq Records
    BY DEF Needs, Records
  <2> QED
    BY <2>1, Finiteness, Smaller
<1> DEFINE U == Units(Ids \ clock[o])
           N == {c} \X Needs(o)
<1>4. Outstanding' \subseteq U \cup N
  <2> SUFFICES ASSUME NEW u \in Outstanding' PROVE u \in U \cup N
    OBVIOUS
  <2>1. u \in Ids \X Records /\ u[2] \in reserved'[u[1]]
    BY DEF Outstanding
  <2>2. CASE u[1] = c
    <3>1. u[2] \in Needs(o)
      BY <1>1, <2>1, <2>2
    <3> QED
      BY <2>1, <2>2, <3>1
  <2>3. CASE u[1] # c
    <3>1. u[1] \in Ids \ clock[o] /\ u[2] \in reserved[u[1]]
      BY <1>1, <2>1, <2>3
    <3> QED
      BY <2>1, <3>1 DEF Units
  <2> QED
    BY <2>2, <2>3
<1>5. IsFiniteSet(U) /\ Cardinality(U) \in Nat
  <2>1. U \subseteq Ids \X Records
    BY DEF Units
  <2> QED
    BY <2>1, Finiteness, Smaller
<1>6. IsFiniteSet(N) /\ Cardinality(N) = Cardinality(Needs(o)) /\ Cardinality(Needs(o)) \in Nat
  BY <1>3, Worth
<1>7. /\ IsFiniteSet(U \cup N) /\ Cardinality(U \cup N) \in Nat
      /\ Cardinality(U \cup N) <= Cardinality(U) + Cardinality(N)
  <2>1. /\ IsFiniteSet(U \cup N)
        /\ Cardinality(U \cup N)
              = Cardinality(U) + Cardinality(N) - Cardinality(U \cap N)
    BY <1>5, <1>6, FS_Union
  <2>2. Cardinality(U \cap N) \in Nat
    BY <1>5, Smaller
  <2>3. Cardinality(U \cup N) \in Nat
    BY <2>1, FS_CardinalityType
  <2> QED
    BY <1>5, <1>6, <2>1, <2>2, <2>3
<1>8. Cardinality(Outstanding') \in Nat /\ Cardinality(Outstanding') <= Cardinality(U \cup N)
  BY <1>4, <1>7, Smaller
<1>9. CASE Unbounded
  BY <1>2, <1>9 DEF Unbounded, ActiveWithinPlan, WithinSomePlan
<1>10. CASE ~ Unbounded
  <2>1. Cardinality(active) <= seen[o] /\ seen[o] \in Nat
    BY <1>2, <1>10 DEF IInv, CountHolds, TypeOK
  <2>2. seen[o] + Cardinality(U) + Cardinality(Needs(o)) <= PlanLimit[plan]
    BY DEF Grant, Asked
  <2>3. PlanLimit[plan] \in Int
    BY ConstantsAssumption DEF IInv, TypeOK, Unlimited
  <2>4. Cardinality(active) \in Nat
    BY UsageIsNatural DEF IInv
  <2>5. Cardinality(active') + Cardinality(Outstanding') <= PlanLimit[plan]
    BY <1>2, <1>5, <1>6, <1>7, <1>8, <2>1, <2>2, <2>3, <2>4
  <2> QED
    BY <1>2, <2>5 DEF ActiveWithinPlan, WithinSomePlan
<1> QED
  BY <1>9, <1>10

\* A direct operation activates at most the records its reservation names,
\* and gives that reservation back in the same step.
LEMMA EffectStep ==
    ASSUME IInv, [Next]_vars, NEW o \in Ops \ Imports, CommitEffect(o)
    PROVE  ActiveWithinPlan'
<1>1. had' = had /\ done' = done /\ pc[o] = "effect"
  BY DEF CommitEffect
<1>2. CASE Unbounded
  BY <1>1, <1>2 DEF Unbounded, ActiveWithinPlan, WithinSomePlan
<1>3. CASE ~ Unbounded
  <2>1. Needs(o) # {}
    BY ConstantsAssumption DEF IInv, OnlyImportsProgress, Needs
  <2>2. ticket[o] # NoClaim /\ ticket[o] \in Rows /\ ticket[o] \in Ids
    BY <1>1, <1>3, <2>1 DEF IInv, NoFreeEffect, CommitEffect, Valid, Rows
  <2>3. reserved[ticket[o]] = Batch[o]
    BY <2>2 DEF IInv, RowIsBatch
  <2>4. active' \subseteq active \cup Batch[o]
    BY DEF CommitEffect, Effect
  <2>5. Batch[o] \subseteq Records /\ IsFiniteSet(Batch[o])
    <3>1. Batch[o] \subseteq Records
      BY DEF Records
    <3> QED
      BY <3>1, Finiteness, Smaller
  <2>6. \A p \in Ops : done[p] \cap Batch[o] = {}
    BY ConstantsAssumption DEF IInv, OnlyImportsProgress, ProgressOfBatch
  <2>7. {ticket[o]} \X Batch[o] \subseteq Outstanding
    BY <2>2, <2>3, <2>5, <2>6 DEF Outstanding
  <2>8. reserved' = [c \in Ids |-> IF c = ticket[o] THEN {} ELSE reserved[c]]
    BY DEF CommitEffect, Delete
  <2>9. Outstanding' \subseteq Outstanding \ ({ticket[o]} \X Batch[o])
    <3> SUFFICES ASSUME NEW d \in Ids, NEW r \in Records,
                        r \in reserved'[d], \A p \in Ops : r \notin done[p]
                 PROVE  <<d, r>> \in Outstanding \ ({ticket[o]} \X Batch[o])
      BY <1>1 DEF Outstanding
    <3>1. d # ticket[o] /\ r \in reserved[d]
      BY <2>8
    <3> QED
      BY <3>1 DEF Outstanding
  <2> QED
    BY <1>1, <1>3, <2>4, <2>5, <2>7, <2>9, Exchange DEF IInv
<1> QED
  BY <1>2, <1>3

\* A checkpoint activates at most the rows it processes, for which its import
\* has a reservation.
LEMMA CheckpointStep ==
    ASSUME IInv, [Next]_vars, NEW o \in Ops, Checkpoint(o)
    PROVE  ActiveWithinPlan'
<1>1. had' = had /\ reserved' = reserved /\ pc[o] = "claimed" /\ o \in Imports
  BY DEF Checkpoint
<1>2. PICK S \in (SUBSET Needs(o)) \ {{}} :
          /\ done' = [done EXCEPT ![o] = @ \cup S]
          /\ \E T \in SUBSET S : active' = active \cup T
  BY DEF Checkpoint
<1>3. CASE Unbounded
  BY <1>1, <1>3 DEF Unbounded, ActiveWithinPlan, WithinSomePlan
<1>4. CASE ~ Unbounded
  <2>1. S \subseteq Batch[o] /\ S \cap done[o] = {} /\ Needs(o) # {}
    <3>1. \A r \in S : r \in Batch[o] /\ r \notin done[o]
      BY <1>2 DEF Needs
    <3>2. Needs(o) # {}
      BY <1>2
    <3> QED
      BY <3>1, <3>2
  <2>2. ticket[o] # NoClaim /\ ticket[o] \in Ids
    BY <1>1, <1>4, <2>1 DEF IInv, NoFreeEffect, TypeOK
  <2>3. S \subseteq reserved[ticket[o]]
    BY <1>1, <1>2, <2>2 DEF IInv, ImportHolds
  <2>4. S \subseteq Records /\ IsFiniteSet(S)
    <3>1. S \subseteq Records
      BY <2>1 DEF Records
    <3> QED
      BY <3>1, Finiteness, Smaller
  <2>5. \A p \in Ops : done[p] \cap S = {}
    <3> SUFFICES ASSUME NEW p \in Ops, p # o PROVE done[p] \cap S = {}
      BY <2>1
    <3>1. Batch[o] \cap Batch[p] = {} /\ done[p] \subseteq Batch[p]
      BY <1>1, ConstantsAssumption DEF IInv, ProgressOfBatch
    <3> QED
      BY <2>1, <3>1
  <2>6. {ticket[o]} \X S \subseteq Outstanding
    BY <2>2, <2>3, <2>4, <2>5 DEF Outstanding
  <2>7. Outstanding' \subseteq Outstanding \ ({ticket[o]} \X S)
    <3> SUFFICES ASSUME NEW d \in Ids, NEW r \in Records,
                        r \in reserved[d], \A p \in Ops : r \notin done'[p]
                 PROVE  <<d, r>> \in Outstanding \ ({ticket[o]} \X S)
      BY <1>1 DEF Outstanding
    <3>1. r \notin S /\ \A p \in Ops : r \notin done[p]
      BY <1>2 DEF IInv, TypeOK
    <3> QED
      BY <3>1 DEF Outstanding
  <2>8. active' \subseteq active \cup S
    BY <1>2
  <2>9. TypeOK /\ ActiveWithinPlan /\ IsFiniteSet(S)
    BY <2>4 DEF IInv
  <2>10. PICK c : c = ticket[o]
    OBVIOUS
  <2>11. {c} \X S \subseteq Outstanding /\ Outstanding' \subseteq Outstanding \ ({c} \X S)
    BY <2>6, <2>7, <2>10
  <2> QED
    BY <1>1, <1>4, <2>8, <2>9, <2>11, Exchange
<1> QED
  BY <1>3, <1>4

\* Every step keeps the workspace within the plan.
LEMMA PlanStep == IInv /\ [Next]_vars => ActiveWithinPlan'
<1> SUFFICES ASSUME IInv, [Next]_vars PROVE ActiveWithinPlan'
  OBVIOUS
<1>1. CASE \E o \in Ops : Grant(o)
  BY <1>1, GrantStep
<1>2. CASE \E o \in Ops \ Imports : CommitEffect(o)
  BY <1>2, EffectStep
<1>3. CASE \E o \in Ops : Checkpoint(o)
  BY <1>3, CheckpointStep
<1>4. CASE \A o \in Ops : /\ ~ Grant(o) /\ ~ Checkpoint(o)
                          /\ o \in Imports \/ ~ CommitEffect(o)
  <2>1. active' \subseteq active
    BY <1>4, QuietSteps
  <2>2. done' = done /\ \A c \in Ids : reserved'[c] \subseteq reserved[c]
    <3> USE DEF IInv, TypeOK
    <3>1. ASSUME NEW o \in Ops,
                 \/ StartReserve(o) \/ LockForReserve(o) \/ CountUsed(o) \/ Refuse(o)
                 \/ BeginEffect(o) \/ LockForEffect(o) \/ RollBack(o) \/ Crash(o)
          PROVE  done' = done /\ reserved' = reserved
      BY <3>1 DEF StartReserve, LockForReserve, CountUsed, Refuse, BeginEffect,
                  LockForEffect, RollBack, Crash
    <3>2. ASSUME NEW o \in Ops, GrantUnlimited(o) \/ CommitEffect(o) \/ Cancel(o)
          PROVE  done' = done /\ \A c \in Ids : reserved'[c] \subseteq reserved[c]
      BY <3>2 DEF GrantUnlimited, CommitEffect, Cancel, Delete
    <3>3. CASE \/ \E r \in Records : Archive(r)
               \/ \E c \in Ids : Lapse(c)
               \/ \E p \in Plans : ChangePlan(p)
               \/ UNCHANGED vars
      BY <3>3 DEF Archive, Lapse, ChangePlan, vars
    <3> QED
      BY <1>4, <3>1, <3>2, <3>3 DEF Next
  <2>3. Outstanding' \subseteq Outstanding
    BY <2>2 DEF Outstanding
  <2>4. had \subseteq had'
    BY HadStep
  <2> QED
    BY <2>1, <2>3, <2>4, NoMore DEF IInv
<1> QED
  BY <1>1, <1>2, <1>3, <1>4

-----------------------------------------------------------------------------
(* The theorems.                                                           *)

\* Nothing is used, reserved or counted at first.
LEMMA InitIInv == Init => IInv
<1> SUFFICES ASSUME Init PROVE IInv
  OBVIOUS
<1>1. TypeOK
  BY InitTypeOK
<1>2. plan \in had /\ LockHeld /\ OnlyImportsProgress /\ ProgressOfBatch /\ RowIsBatch
      /\ ImportHolds /\ NoFreeEffect /\ CountHolds
  BY ConstantsAssumption
  DEF Init, LockHeld, OnlyImportsProgress, ProgressOfBatch, RowIsBatch, ImportHolds,
      NoFreeEffect, CountHolds, Rows
<1>3. ActiveWithinPlan
  <2>1. active = {} /\ Outstanding = {}
    BY DEF Init, Outstanding
  <2>2. Cardinality({}) = 0
    BY FS_EmptySet
  <2>3. Cardinality(active) + Cardinality(Outstanding) = 0
    BY <2>1, <2>2
  <2>4. FirstPlan \in had /\ (PlanLimit[FirstPlan] = Unlimited \/ 0 <= PlanLimit[FirstPlan])
    BY ConstantsAssumption DEF Init
  <2> QED
    BY <2>3, <2>4 DEF ActiveWithinPlan, WithinSomePlan
<1> QED
  BY <1>1, <1>2, <1>3 DEF IInv

\* The strengthening is inductive: the lock protects the count, the count
\* bounds what is used, and a reservation is worth what is done under it.
THEOREM Invariance == Spec => []IInv
<1>1. Init => IInv
  BY InitIInv
<1>2. IInv /\ [Next]_vars => IInv'
  <2> SUFFICES ASSUME IInv, [Next]_vars PROVE IInv'
    OBVIOUS
  <2>1. TypeOK'
    BY NextTypeOK DEF IInv
  <2>2. /\ (plan \in had)' /\ LockHeld' /\ OnlyImportsProgress' /\ ProgressOfBatch'
        /\ RowIsBatch' /\ ImportHolds'
    BY HadStep, LockHeldStep, ProgressStep, RowStep, HoldStep
  <2>3. NoFreeEffect' /\ CountHolds' /\ ActiveWithinPlan'
    BY FreeStep, CountStep, PlanStep
  <2> QED
    BY <2>1, <2>2, <2>3 DEF IInv
<1> QED
  BY <1>1, <1>2, PTL DEF Spec

\* However many requests, imports, reservations and plans there are, a workspace
\* never uses and reserves more than the largest limit it has had
\* (PlanCapacity!ActiveWithinPlan).
THEOREM NeverOversold == Spec => []ActiveWithinPlan
<1>1. IInv => ActiveWithinPlan
  BY DEF IInv
<1> QED
  BY <1>1, Invariance, PTL
=============================================================================
