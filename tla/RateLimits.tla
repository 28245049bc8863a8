----------------------------- MODULE RateLimits ------------------------------
(***************************************************************************)
(* The shared fixed-window budgets of modules/ratelimits: a caller takes   *)
(* one unit of each of its budgets in one transaction, or none.            *)
(*                                                                         *)
(* The buckets are rows; a statement reads the clock when it is issued and *)
(* may wait for the row afterwards, so that a caller can find the window   *)
(* of somebody whose clock was later.                                      *)
(***************************************************************************)
EXTENDS Integers

CONSTANTS
    Buckets,     \* numbers, in the order the identifiers sort
    Limit,       \* of each bucket
    Window,      \* length of a window, in ticks
    Grace,       \* how long an expired bucket is kept
    Callers,
    NoCaller,
    MaxTime      \* bound of the clock

VARIABLES
    now,
    count, expires,  \* request_count, expires_at; 0 and 0 without a row
    before,          \* the committed value of a row that is being changed
    granted,         \* requests the present window of a bucket admitted
    owner,           \* transaction that holds the row
    asked, left,     \* what a caller asked for, and has not consumed yet
    stamp,           \* its statement_timestamp(), or 0: no statement issued
    denied           \* one of its budgets is exhausted

bucketVars == <<count, expires, before, granted, owner>>
callVars == <<asked, left, stamp, denied>>
vars == <<now, count, expires, before, granted, owner, asked, left, stamp, denied>>

Row == [count : Nat, expires : Nat, granted : Nat]

TypeOK ==
    /\ now \in 1..MaxTime
    /\ {count, expires, granted} \subseteq [Buckets -> Nat]
    /\ before \in [Buckets -> Row]
    /\ owner \in [Buckets -> Callers \cup {NoCaller}]
    /\ asked \in [Callers -> SUBSET Buckets]
    /\ \A c \in Callers : left[c] \subseteq asked[c]
    /\ stamp \in [Callers -> 0..MaxTime]
    /\ denied \in [Callers -> BOOLEAN]

Init ==
    /\ now = 1
    /\ count = [b \in Buckets |-> 0]
    /\ expires = [b \in Buckets |-> 0]
    /\ granted = [b \in Buckets |-> 0]
    /\ before = [b \in Buckets |-> [count |-> 0, expires |-> 0, granted |-> 0]]
    /\ owner = [b \in Buckets |-> NoCaller]
    /\ asked = [c \in Callers |-> {}]
    /\ left = [c \in Callers |-> {}]
    /\ stamp = [c \in Callers |-> 0]
    /\ denied = [c \in Callers |-> FALSE]

-----------------------------------------------------------------------------
Min(m, n) == IF m < n THEN m ELSE n

Holds(c, b) == owner[b] = c

Release(c) == owner' = [b \in Buckets |-> IF Holds(c, b) THEN NoCaller ELSE owner[b]]

Forget(c) ==
    /\ asked' = [asked EXCEPT ![c] = {}]
    /\ left' = [left EXCEPT ![c] = {}]
    /\ stamp' = [stamp EXCEPT ![c] = 0]
    /\ denied' = [denied EXCEPT ![c] = FALSE]

Begin(c, budgets) ==
    /\ asked[c] = {}
    /\ budgets # {}
    /\ asked' = [asked EXCEPT ![c] = budgets]
    /\ left' = [left EXCEPT ![c] = budgets]
    /\ UNCHANGED <<now, bucketVars, stamp, denied>>

\* Every caller takes its rows in the same order.
NextBudgets(c) == {b \in left[c] : \A a \in left[c] : b <= a}

\* The statement is sent, and its clock is read.
Issue(c) ==
    /\ left[c] # {}
    /\ stamp[c] = 0
    /\ stamp' = [stamp EXCEPT ![c] = now]
    /\ UNCHANGED <<now, bucketVars, asked, left, denied>>

\* The row is free: a window that was over is begun anew.
Consume(c) ==
    \E b \in NextBudgets(c) :
        LET over == expires[b] <= stamp[c]
            counted == IF over THEN 1 ELSE Min(count[b] + 1, Limit[b] + 1)
            admits == counted <= Limit[b]
        IN  /\ stamp[c] # 0
            /\ owner[b] = NoCaller
            /\ owner' = [owner EXCEPT ![b] = c]
            /\ before' = [before EXCEPT ![b] =
                 [count |-> count[b], expires |-> expires[b], granted |-> granted[b]]]
            /\ count' = [count EXCEPT ![b] = counted]
            /\ expires' = [expires EXCEPT ![b] = IF over THEN stamp[c] + Window ELSE @]
            /\ granted' = [granted EXCEPT ![b] = IF over THEN 0 ELSE @]
            /\ denied' = [denied EXCEPT ![c] = @ \/ ~admits]
            /\ left' = [left EXCEPT ![c] = @ \ {b}]
            /\ stamp' = [stamp EXCEPT ![c] = 0]
            /\ UNCHANGED <<now, asked>>

Finished(c) == asked[c] # {} /\ left[c] = {}

\* The transaction commits.
Keep(c) ==
    /\ Release(c)
    /\ Forget(c)
    /\ UNCHANGED <<now, count, expires, before>>

\* It rolls back.
Undo(c) ==
    /\ count' = [b \in Buckets |-> IF Holds(c, b) THEN before[b].count ELSE count[b]]
    /\ expires' = [b \in Buckets |-> IF Holds(c, b) THEN before[b].expires ELSE expires[b]]
    /\ granted' = [b \in Buckets |-> IF Holds(c, b) THEN before[b].granted ELSE granted[b]]
    /\ Release(c)
    /\ Forget(c)
    /\ UNCHANGED <<now, before>>

Accept(c) ==
    /\ Finished(c) /\ ~denied[c]
    /\ granted' = [b \in Buckets |-> granted[b] + IF b \in asked[c] THEN 1 ELSE 0]
    /\ Keep(c)

DenyAndKeep(c) == Finished(c) /\ denied[c] /\ Keep(c) /\ UNCHANGED granted

\* A single budget keeps the mark of its rejection, a group leaves nothing.
Deny(c) ==
    /\ Finished(c) /\ denied[c]
    /\ IF \E b \in Buckets : asked[c] = {b} 
       THEN Keep(c) /\ UNCHANGED granted
       ELSE Undo(c)

\* The connection, or the process, is gone.
Lose(c) == asked[c] # {} /\ Undo(c)

\* cleanupExpired: rows whose window ended a while ago.
CleanupExpired(b) ==
    /\ owner[b] = NoCaller
    /\ expires[b] # 0
    /\ expires[b] <= now - Grace
    /\ count' = [count EXCEPT ![b] = 0]
    /\ expires' = [expires EXCEPT ![b] = 0]
    /\ granted' = [granted EXCEPT ![b] = 0]
    /\ UNCHANGED <<now, before, owner, callVars>>

Tick ==
    /\ now < MaxTime
    /\ now' = now + 1
    /\ UNCHANGED <<bucketVars, callVars>>

Next ==
    \/ \E c \in Callers :
        \/ Issue(c) \/ Consume(c) \/ Accept(c) \/ Deny(c) \/ Lose(c)
        \/ \E budgets \in SUBSET Buckets : Begin(c, budgets)
    \/ \E b \in Buckets : CleanupExpired(b)
    \/ Tick

Spec == Init /\ [][Next]_vars

-----------------------------------------------------------------------------
(* Properties.                                                             *)

\* A window has admitted no more requests than its limit, and has counted
\* exactly those: a group that was refused by one budget cost the others
\* nothing, whatever rolled over, crashed or waited in between.  The only
\* further count is the mark of a rejection.
BudgetsExact ==
    \A b \in Buckets : owner[b] = NoCaller =>
        /\ granted[b] = Min(count[b], Limit[b])
        /\ count[b] <= Limit[b] + 1
=============================================================================
