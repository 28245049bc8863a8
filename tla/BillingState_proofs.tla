------------------------- MODULE BillingState_proofs -------------------------
(***************************************************************************)
(* Proofs about BillingState, for every number of invoices, attempts and   *)
(* changes: no event a cursor refuses is news, applying a snapshot never   *)
(* takes a row back, and once every event was handled rows and status are  *)
(* Stripe's.  All rest on what a snapshot is worth: it was                 *)
(* begun at a second (observed) before anything was read, so it has every  *)
(* change of an earlier second; and a row it does not have yet was brought *)
(* by a webhook created at that second or later, whose cursor the          *)
(* watermark, one second older, does not reach.                            *)
(***************************************************************************)
EXTENDS BillingState, SequenceTheorems, WellFoundedInduction, TLAPS

Types ==
    /\ now \in Nat /\ now >= 2
    /\ history \in Seq(ChangeRecords)
    /\ applied \in [Objects -> Nat]
    /\ cursor \in [Objects -> Nat]
    /\ seen \in [Objects -> Nat]
    /\ observed \in Nat
    /\ pc \in {"idle", "retrieve", "list", "apply"}
    /\ pc # "idle" => observed >= 2

\* Stripe's clock does not run backwards.
HistoryOrdered ==
    /\ \A n \in 1..Len(history) : history[n].at <= now
    /\ \A m, n \in 1..Len(history) : m <= n => history[m].at <= history[n].at

\* Rows and snapshots hold changes that happened, of the object they are of.
OfObject(n, o) == n # 0 => n \in 1..Len(history) /\ history[n].of = o

ContentsHappened == \A o \in Objects : OfObject(applied[o], o) /\ OfObject(seen[o], o)

CursorsPast == \A o \in Objects : cursor[o] <= now

\* The objects the snapshot under way has been read for.
ReadOf(o) == pc = "apply" \/ (pc = "list" /\ o = Sub)

\* The snapshot has every change of a second before it was begun...
SnapshotComplete ==
    /\ observed <= now
    /\ \A o \in Objects : ReadOf(o) =>
          \A n \in 1..Len(history) :
             history[n].of = o /\ history[n].at < observed => n <= seen[o]

\* ...and what it lacks of a row came with a cursor its watermark respects.
SnapshotOlder ==
    \A o \in Objects : ReadOf(o) => applied[o] <= seen[o] \/ observed <= cursor[o]

IInv ==
    /\ Types
    /\ HistoryOrdered
    /\ ContentsHappened
    /\ CursorsPast
    /\ SnapshotComplete
    /\ SnapshotOlder
    /\ NothingSkipped

-----------------------------------------------------------------------------
(* Positions in the history.                                               *)

\* A history is a function on its positions to changes.
LEMMA Positions ==
    ASSUME NEW h \in Seq(ChangeRecords)
    PROVE  /\ Len(h) \in Nat
           /\ DOMAIN h = 1..Len(h)
           /\ \A n \in 1..Len(h) : h[n].at \in Nat /\ h[n].of \in Objects
<1>1. Len(h) \in Nat /\ DOMAIN h = 1..Len(h)
  BY LenProperties
<1>2. ASSUME NEW n \in 1..Len(h)
      PROVE  h[n] \in ChangeRecords
  BY <1>2, ElementOfSeq
<1>3. \A c \in ChangeRecords : c.at \in Nat /\ c.of \in Objects
  BY DEF ChangeRecords
<1> QED
  BY <1>1, <1>2, <1>3

\* Appending to a history keeps its positions; a position after them has one
\* of the changes appended.
LEMMA Appending ==
    ASSUME NEW h \in Seq(ChangeRecords), NEW changes \in Seq(ChangeRecords),
           NEW second,
           \A k \in 1..Len(changes) : changes[k].at = second
    PROVE  /\ \A n \in 1..Len(h) :
                 n \in 1..Len(h \o changes) /\ (h \o changes)[n] = h[n]
           /\ \A n \in 1..Len(h \o changes) :
                 n \in 1..Len(h) \/ (h \o changes)[n].at = second
<1> DEFINE both == h \o changes
<1>1. /\ Len(h) \in Nat /\ Len(changes) \in Nat
      /\ Len(both) = Len(h) + Len(changes)
  BY ConcatProperties, LenProperties
<1>2. \A n \in 1..Len(both) :
         both[n] = IF n <= Len(h) THEN h[n] ELSE changes[n - Len(h)]
  BY ConcatProperties
<1> HIDE DEF both
<1>3. ASSUME NEW n \in 1..Len(h)
      PROVE  n \in 1..Len(both) /\ both[n] = h[n]
  <2>1. n \in 1..Len(both) /\ n <= Len(h)
    BY <1>1
  <2> QED
    BY <1>2, <2>1
<1>4. ASSUME NEW n \in 1..Len(both), n \notin 1..Len(h)
      PROVE  both[n].at = second
  <2>1. ~ (n <= Len(h)) /\ n - Len(h) \in 1..Len(changes)
    BY <1>1, <1>4
  <2>2. both[n] = changes[n - Len(h)]
    BY <1>2, <2>1
  <2> QED
    BY <2>1, <2>2
<1> QED
  BY <1>3, <1>4 DEF both

\* A set of positions of a sequence that is not empty has a greatest one.
LEMMA GreatestPosition ==
    ASSUME NEW k \in Nat, NEW S, S \subseteq 1..k, S # {}
    PROVE  \E n \in S : \A m \in S : m <= n
<1> DEFINE T == {k - n : n \in S}
<1>1. T \subseteq Nat /\ T # {}
  <2>1. \A n \in S : k - n \in Nat
    OBVIOUS
  <2>2. PICK n \in S : TRUE
    OBVIOUS
  <2>3. k - n \in T
    BY <2>2
  <2> QED
    BY <2>1, <2>3
<1>2. PICK x \in T : \A y \in T : ~ (<<y, x>> \in OpToRel(<, Nat))
  <2> HIDE DEF T
  <2> QED
    BY <1>1, NatLessThanWellFounded, WFMin
<1>3. \A y \in T : ~ (y < x)
  BY <1>1, <1>2 DEF OpToRel
<1>4. PICK n \in S : x = k - n
  OBVIOUS
<1>5. \A m \in S : m <= n
  <2> TAKE m \in S
  <2>1. k - m \in T
    OBVIOUS
  <2>2. ~ (k - m < k - n)
    BY <1>3, <1>4, <2>1
  <2> QED
    BY <2>2
<1> QED
  BY <1>5

\* The latest change of an object is one of its changes, and none is later.
LEMMA LatestIsLast ==
    ASSUME history \in Seq(ChangeRecords), NEW o \in Objects
    PROVE  /\ Latest(o) \in Nat
           /\ OfObject(Latest(o), o)
           /\ \A n \in 1..Len(history) : history[n].of = o => n <= Latest(o)
<1> DEFINE S == ChangesOf({o})
<1>1. DOMAIN history = 1..Len(history) /\ Len(history) \in Nat
  BY LenProperties
<1>2. S = {n \in 1..Len(history) : history[n].of = o}
  BY <1>1 DEF ChangesOf
<1>3. CASE S = {}
  BY <1>2, <1>3 DEF Latest, LastOf, OfObject
<1>4. CASE S # {}
  <2>1. \E n \in S : \A m \in S : m <= n
    BY <1>1, <1>2, <1>4, GreatestPosition
  <2>2. Latest(o) \in S /\ \A m \in S : m <= Latest(o)
    BY <1>4, <2>1 DEF Latest, LastOf
  <2>3. Latest(o) \in 1..Len(history) /\ history[Latest(o)].of = o
    BY <1>2, <2>2
  <2>4. \A n \in 1..Len(history) : history[n].of = o => n <= Latest(o)
    BY <1>2, <2>2
  <2> HIDE DEF S
  <2> QED
    BY <1>1, <2>3, <2>4 DEF OfObject
<1> QED
  BY <1>3, <1>4

\* A step of Stripe appends changes of the present second.
LEMMA StripeAppends ==
    ASSUME Types, Stripe
    PROVE  \E changes \in Seq(ChangeRecords) :
              /\ \A k \in 1..Len(changes) : changes[k].at = now
              /\ Happens(changes)
<1>1. ASSUME NEW o \in Objects,
             NEW state \in {"incomplete", "active", "past_due", "canceled",
                            "failed", "paid"}
      PROVE  Change(o, state) \in ChangeRecords /\ Change(o, state).at = now
  BY <1>1 DEF Change, ChangeRecords, Types
<1>2. Sub \in Objects /\ Invoices \subseteq Objects
  BY DEF Objects
<1>3. ASSUME NEW c \in ChangeRecords, c.at = now, Happens(<<c>>)
      PROVE  \E changes \in Seq(ChangeRecords) :
                /\ \A k \in 1..Len(changes) : changes[k].at = now
                /\ Happens(changes)
  <2>1. <<c>> \in Seq(ChangeRecords) /\ \A k \in 1..Len(<<c>>) : <<c>>[k].at = now
    BY <1>3
  <2> QED
    BY <1>3, <2>1
<1>4. ASSUME NEW c \in ChangeRecords, NEW d \in ChangeRecords, c.at = now,
             d.at = now, Happens(<<c, d>>)
      PROVE  \E changes \in Seq(ChangeRecords) :
                /\ \A k \in 1..Len(changes) : changes[k].at = now
                /\ Happens(changes)
  <2>1. /\ <<c, d>> \in Seq(ChangeRecords)
        /\ \A k \in 1..Len(<<c, d>>) : <<c, d>>[k].at = now
    BY <1>4
  <2> QED
    BY <1>4, <2>1
<1>5. CASE Subscribe
  BY <1>1, <1>2, <1>3, <1>5 DEF Subscribe
<1>6. CASE CancelSubscription
  BY <1>1, <1>2, <1>3, <1>6 DEF CancelSubscription
<1>7. ASSUME NEW i \in Invoices, PaymentFails(i)
      PROVE  \E changes \in Seq(ChangeRecords) :
                /\ \A k \in 1..Len(changes) : changes[k].at = now
                /\ Happens(changes)
  BY <1>1, <1>2, <1>3, <1>4, <1>7 DEF PaymentFails
<1>8. ASSUME NEW i \in Invoices, PaymentSucceeds(i)
      PROVE  \E changes \in Seq(ChangeRecords) :
                /\ \A k \in 1..Len(changes) : changes[k].at = now
                /\ Happens(changes)
  BY <1>1, <1>2, <1>3, <1>4, <1>8 DEF PaymentSucceeds
<1> QED
  BY <1>5, <1>6, <1>7, <1>8 DEF Stripe

-----------------------------------------------------------------------------
(* The inductive invariant, step by step.                                  *)

coreVars == <<now, history, applied, cursor, pc, observed, seen>>

LEMMA InitInductive == Init => IInv
<1> SUFFICES ASSUME Init PROVE IInv
  OBVIOUS
<1>1. history = <<>> /\ history \in Seq(ChangeRecords) /\ Len(history) = 0
  BY DEF Init
<1>2. Types
  BY <1>1 DEF Init, Types, NoSnapshot, Never
<1>3. /\ HistoryOrdered /\ ContentsHappened /\ CursorsPast
      /\ SnapshotOlder /\ NothingSkipped
  BY <1>1 DEF Init, HistoryOrdered, CursorsPast, Never, ContentsHappened, OfObject, SnapshotOlder,
              ReadOf, NothingSkipped, NoSnapshot
<1>4. SnapshotComplete
  BY <1>1 DEF Init, SnapshotComplete, ReadOf, Never
<1> QED
  BY <1>2, <1>3, <1>4 DEF IInv

\* Steps that change neither rows, snapshot nor history.
LEMMA UntouchedInductive ==
    ASSUME IInv, UNCHANGED coreVars
    PROVE  IInv'
BY DEF IInv, coreVars, Types, HistoryOrdered, ContentsHappened, OfObject,
       CursorsPast, SnapshotComplete, SnapshotOlder, ReadOf, NothingSkipped

LEMMA TickInductive ==
    ASSUME IInv, Tick
    PROVE  IInv'
<1>1. /\ now' = now + 1
      /\ UNCHANGED <<history, applied, cursor, pc, observed, seen>>
  BY DEF Tick, rowVars, workerVars
<1>2. now \in Nat /\ now >= 2 /\ observed \in Nat /\ observed <= now
  BY DEF IInv, Types, SnapshotComplete
<1>3. Types'
  BY <1>1, <1>2 DEF IInv, Types
<1>4. HistoryOrdered'
  <2>1. \A n \in 1..Len(history) : history[n].at \in Nat
    BY Positions DEF IInv, Types
  <2> QED
    BY <1>1, <1>2, <2>1 DEF IInv, HistoryOrdered
<1>5. SnapshotComplete' /\ CursorsPast'
  BY <1>1, <1>2 DEF IInv, Types, SnapshotComplete, CursorsPast, ReadOf
<1>6. ContentsHappened' /\ SnapshotOlder' /\ NothingSkipped'
  BY <1>1 DEF IInv, ContentsHappened, OfObject, SnapshotOlder, ReadOf, NothingSkipped
<1> QED
  BY <1>3, <1>4, <1>5, <1>6 DEF IInv

\* What Stripe changes now is of no second before now.
LEMMA StripeInductive ==
    ASSUME IInv, Stripe
    PROVE  IInv'
<1>1. PICK changes \in Seq(ChangeRecords) :
         /\ \A k \in 1..Len(changes) : changes[k].at = now
         /\ Happens(changes)
  BY StripeAppends DEF IInv
<1>2. /\ history' = history \o changes
      /\ UNCHANGED <<now, applied, cursor, pc, observed, seen>>
  BY <1>1 DEF Happens, rowVars, workerVars
<1>3. /\ history \in Seq(ChangeRecords) /\ now \in Nat /\ observed \in Nat
      /\ cursor \in [Objects -> Nat] /\ observed <= now
  BY DEF IInv, Types, SnapshotComplete
<1>4. history' \in Seq(ChangeRecords) /\ Len(history) \in Nat /\ Len(history') \in Nat
  BY <1>2, <1>3, ConcatProperties, LenProperties
<1>5. /\ \A n \in 1..Len(history) : n \in 1..Len(history') /\ history'[n] = history[n]
      /\ \A n \in 1..Len(history') :
            n \in 1..Len(history) \/ history'[n].at = now
  BY <1>1, <1>2, <1>3, Appending
<1>6. /\ \A n \in 1..Len(history) : history[n].at \in Nat
      /\ DOMAIN history' = 1..Len(history') /\ DOMAIN history = 1..Len(history)
  BY <1>3, <1>4, Positions
<1>7. Types' /\ CursorsPast'
  BY <1>2, <1>4 DEF IInv, Types, CursorsPast
<1>8. HistoryOrdered'
  <2>1. \A n \in 1..Len(history') : history'[n].at <= now
    BY <1>3, <1>5 DEF IInv, HistoryOrdered
  <2>2. ASSUME NEW m \in 1..Len(history'), NEW n \in 1..Len(history'), m <= n
        PROVE  history'[m].at <= history'[n].at
    <3>1. CASE n \in 1..Len(history)
      <4>1. m \in 1..Len(history)
        BY <1>4, <2>2, <3>1
      <4> QED
        BY <1>5, <2>2, <3>1, <4>1 DEF IInv, HistoryOrdered
    <3>2. CASE history'[n].at = now
      BY <2>1, <3>2
    <3> QED
      BY <1>5, <3>1, <3>2
  <2> QED
    BY <1>2, <2>1, <2>2 DEF HistoryOrdered
<1>9. ContentsHappened'
  BY <1>2, <1>5 DEF IInv, ContentsHappened, OfObject
<1>10. SnapshotComplete'
  <2>1. ASSUME NEW o \in Objects, ReadOf(o), NEW n \in 1..Len(history'),
               history'[n].of = o, history'[n].at < observed
        PROVE  n <= seen[o]
    <3>1. n \in 1..Len(history)
      BY <1>3, <1>5, <2>1
    <3> QED
      BY <1>5, <2>1, <3>1 DEF IInv, SnapshotComplete
  <2> QED
    BY <1>2, <1>3, <2>1 DEF SnapshotComplete, ReadOf
<1>11. SnapshotOlder'
  BY <1>2 DEF IInv, SnapshotOlder, ReadOf
<1>12. NothingSkipped'
  <2>1. ASSUME NEW n \in 1..Len(history'),
               history'[n].at < cursor[history'[n].of]
        PROVE  n <= applied[history'[n].of]
    <3>1. history'[n].of \in Objects
      BY <1>4, Positions
    <3>2. n \in 1..Len(history)
      BY <1>3, <1>5, <2>1, <3>1 DEF IInv, CursorsPast
    <3> QED
      BY <1>5, <1>6, <2>1, <3>2 DEF IInv, NothingSkipped
  <2> QED
    BY <1>2, <1>6, <2>1 DEF NothingSkipped
<1> QED
  BY <1>7, <1>8, <1>9, <1>10, <1>11, <1>12 DEF IInv

\* A webhook that supersedes a row: the row moves to the event, its cursor to
\* the event's second.  If the snapshot under way does not have the event, the
\* event is not older than the snapshot.
LEMMA WebhookInductive ==
    ASSUME IInv,
           NEW n \in 1..Len(history), NEW o \in Objects, history[n].of = o,
           applied' = [applied EXCEPT ![o] = n],
           cursor' = [cursor EXCEPT ![o] = history[n].at],
           UNCHANGED <<now, history, pc, observed, seen>>
    PROVE  IInv'
<1>1. history \in Seq(ChangeRecords)
  BY DEF IInv, Types
<1>2. /\ history[n].at \in Nat /\ history[n].at <= now
      /\ n \in Nat /\ Len(history) \in Nat /\ DOMAIN history = 1..Len(history)
  BY <1>1, Positions DEF IInv, HistoryOrdered
<1>3. Types'
  BY <1>2 DEF IInv, Types
<1>4. HistoryOrdered' /\ SnapshotComplete'
  BY DEF IInv, HistoryOrdered, SnapshotComplete, ReadOf
<1>5. ContentsHappened'
  BY DEF IInv, Types, ContentsHappened, OfObject
<1>6. CursorsPast'
  BY <1>2 DEF IInv, Types, CursorsPast
<1>7. SnapshotOlder'
  <2>1. ASSUME ReadOf(o)
        PROVE  n <= seen[o] \/ observed <= history[n].at
    BY <1>2, <2>1 DEF IInv, Types, SnapshotComplete
  <2> QED
    BY <2>1 DEF IInv, Types, SnapshotOlder, ReadOf
<1>8. NothingSkipped'
  <2>1. ASSUME NEW m \in 1..Len(history), history[m].of = o,
               history[m].at < history[n].at
        PROVE  m <= n
    <3>1. history[m].at \in Nat
      BY <1>1, Positions
    <3> QED
      BY <1>2, <2>1, <3>1 DEF IInv, HistoryOrdered
  <2>2. ASSUME NEW m \in 1..Len(history),
               history[m].at < cursor'[history[m].of]
        PROVE  m <= applied'[history[m].of]
    <3>1. history[m].of \in Objects
      BY <1>1, Positions
    <3>2. CASE history[m].of = o
      BY <2>1, <2>2, <3>2 DEF IInv, Types
    <3>3. CASE history[m].of # o
      BY <1>2, <2>2, <3>1, <3>3 DEF IInv, Types, NothingSkipped
    <3> QED
      BY <3>2, <3>3
  <2> QED
    BY <1>2, <2>2 DEF NothingSkipped
<1> QED
  BY <1>3, <1>4, <1>5, <1>6, <1>7, <1>8 DEF IInv

\* Reading the subscription, or the invoices, at any later moment: what was
\* changed before the snapshot was begun is seen, and whatever a row has is
\* seen too, since Stripe had it first.
LEMMA ReadInductive ==
    ASSUME IInv,
           NEW S \in SUBSET Objects,
           \A o \in S : seen'[o] = Latest(o),
           \A o \in Objects \ S : seen'[o] = 0 \/ seen'[o] = seen[o],
           \A o \in Objects : ReadOf(o)' => o \in S \/ (ReadOf(o) /\ seen'[o] = seen[o]),
           seen' \in [Objects -> Nat],
           pc # "idle", pc' \in {"list", "apply"},
           UNCHANGED <<now, history, applied, cursor, observed>>
    PROVE  IInv'
<1>1. Types'
  BY DEF IInv, Types
<1>2. \A o \in S : /\ Latest(o) \in Nat
                   /\ OfObject(Latest(o), o)
                   /\ \A n \in 1..Len(history) : history[n].of = o => n <= Latest(o)
  BY LatestIsLast DEF IInv, Types
<1>3. HistoryOrdered' /\ CursorsPast' /\ NothingSkipped'
  BY DEF IInv, HistoryOrdered, CursorsPast, NothingSkipped
<1>4. ContentsHappened'
  BY <1>2 DEF IInv, ContentsHappened, OfObject
<1>5. SnapshotComplete'
  BY <1>2 DEF IInv, SnapshotComplete
<1>6. SnapshotOlder'
  <2>1. ASSUME NEW o \in S
        PROVE  applied[o] <= Latest(o)
    <3>1. applied[o] \in Nat /\ OfObject(applied[o], o)
      BY DEF IInv, Types, ContentsHappened
    <3> QED
      BY <1>2, <3>1 DEF OfObject
  <2> QED
    BY <2>1 DEF IInv, SnapshotOlder
<1> QED
  BY <1>1, <1>3, <1>4, <1>5, <1>6 DEF IInv

LEMMA LeaveInductive ==
    ASSUME IInv,
           pc' = "idle", observed' = Never, seen' = NoSnapshot,
           UNCHANGED <<now, history, applied, cursor>>
    PROVE  IInv'
BY DEF IInv, Types, HistoryOrdered, ContentsHappened, OfObject, CursorsPast,
       SnapshotComplete, SnapshotOlder, ReadOf, NothingSkipped, Never, NoSnapshot

LEMMA BeginInductive ==
    ASSUME IInv, BeginReconciliation
    PROVE  IInv'
<1>1. /\ pc' = "retrieve" /\ observed' = now
      /\ UNCHANGED <<now, history, applied, cursor, seen>>
  BY DEF BeginReconciliation, stripeVars, rowVars
<1>2. Types'
  BY <1>1 DEF IInv, Types
<1>3. HistoryOrdered' /\ ContentsHappened' /\ CursorsPast' /\ NothingSkipped'
  BY <1>1 DEF IInv, HistoryOrdered, ContentsHappened, OfObject, CursorsPast,
              NothingSkipped
<1>4. SnapshotComplete' /\ SnapshotOlder'
  BY <1>1 DEF IInv, Types, SnapshotComplete, SnapshotOlder, ReadOf
<1> QED
  BY <1>2, <1>3, <1>4 DEF IInv

\* Applying a snapshot moves rows forward, because a row it may replace holds
\* nothing the snapshot lacks.
LEMMA ApplyMovesForward ==
    ASSUME IInv, ApplySnapshot
    PROVE  \A o \in Objects : applied'[o] >= applied[o]
<1>1. ASSUME NEW o \in Replaced
      PROVE  o \in Objects /\ applied[o] <= seen[o]
  <2>1. o \in Objects /\ cursor[o] <= observed - 1
    BY DEF Replaced, Supersedes, Watermark
  <2>2. ReadOf(o)
    BY DEF ApplySnapshot, ReadOf
  <2> QED
    BY <2>1, <2>2 DEF IInv, Types, SnapshotOlder
<1> QED
  BY <1>1 DEF IInv, Types, ApplySnapshot

LEMMA ApplyInductive ==
    ASSUME IInv, ApplySnapshot
    PROVE  IInv'
<1>1. /\ pc' = "idle" /\ observed' = Never /\ seen' = NoSnapshot
      /\ UNCHANGED <<now, history>>
      /\ applied' = [o \in Objects |-> IF o \in Replaced THEN seen[o] ELSE applied[o]]
      /\ cursor' = [o \in Objects |-> IF o \in Replaced THEN observed - 1 ELSE cursor[o]]
      /\ pc = "apply"
  BY DEF ApplySnapshot, Leave, Watermark, stripeVars
<1>2. observed \in Nat /\ observed >= 2 /\ observed <= now /\ now \in Nat
  BY <1>1 DEF IInv, Types, SnapshotComplete
<1>3. Types'
  BY <1>1, <1>2 DEF IInv, Types, Never, NoSnapshot
<1>4. HistoryOrdered'
  BY <1>1 DEF IInv, HistoryOrdered
<1>5. ContentsHappened' /\ CursorsPast'
  BY <1>1, <1>2 DEF IInv, Types, ContentsHappened, OfObject, CursorsPast, NoSnapshot
<1>6. SnapshotComplete' /\ SnapshotOlder'
  BY <1>1, <1>2 DEF SnapshotComplete, SnapshotOlder, ReadOf, Never
<1>7. NothingSkipped'
  <2>1. ASSUME NEW n \in 1..Len(history),
               history[n].at < cursor'[history[n].of]
        PROVE  n <= applied'[history[n].of]
    <3> DEFINE o == history[n].of
    <3>1. /\ o \in Objects /\ history[n].at \in Nat
          /\ DOMAIN history = 1..Len(history)
      BY Positions DEF IInv, Types
    <3>2. CASE o \in Replaced
      <4>1. history[n].at < observed
        BY <1>1, <1>2, <2>1, <3>1, <3>2
      <4>2. n <= seen[o]
        BY <1>1, <3>1, <4>1 DEF IInv, SnapshotComplete, ReadOf
      <4> QED
        BY <1>1, <3>1, <3>2, <4>2
    <3>3. CASE o \notin Replaced
      BY <1>1, <2>1, <3>1, <3>3 DEF IInv, NothingSkipped
    <3> QED
      BY <3>2, <3>3
  <2>2. DOMAIN history' = 1..Len(history)
    BY <1>1, Positions DEF IInv, Types
  <2> QED
    BY <1>1, <2>1, <2>2 DEF NothingSkipped
<1> QED
  BY <1>3, <1>4, <1>5, <1>6, <1>7 DEF IInv

\* Every step keeps the invariant; one that concludes a snapshot moves rows
\* forward.
LEMMA StepInductive ==
    ASSUME IInv, [Next]_vars
    PROVE  /\ IInv'
           /\ pc = "apply" /\ pc' = "idle" =>
                 \A o \in Objects : applied'[o] >= applied[o]
<1> DEFINE Forward == \A o \in Objects : applied'[o] >= applied[o]
<1>1. ASSUME UNCHANGED applied PROVE Forward
  BY <1>1 DEF IInv, Types
<1>2. CASE Tick
  BY <1>1, <1>2, TickInductive DEF Tick, rowVars
<1>3. CASE Stripe
  <2>1. UNCHANGED applied
    BY <1>3, StripeAppends DEF IInv, Happens, rowVars
  <2> QED
    BY <1>1, <1>3, <2>1, StripeInductive
<1>4. CASE Webhook
  <2>1. CASE CheckoutWebhook
    BY <1>1, <2>1, UntouchedInductive
       DEF CheckoutWebhook, coreVars, stripeVars, workerVars
  <2>2. ASSUME NEW n \in DOMAIN history \ receipts,
               \/ SubscriptionWebhook(n) \/ InvoiceWebhook(n)
               \/ InvoiceWebhookUnknown(n)
        PROVE  IInv' /\ UNCHANGED pc
    <3> DEFINE o == history[n].of
    <3>1. n \in 1..Len(history) /\ o \in Objects
      BY Positions DEF IInv, Types
    <3>2. \/ UNCHANGED coreVars
          \/ /\ applied' = [applied EXCEPT ![o] = n]
             /\ cursor' = [cursor EXCEPT ![o] = history[n].at]
             /\ UNCHANGED <<now, history, pc, observed, seen>>
      BY <2>2 DEF SubscriptionWebhook, InvoiceWebhook, InvoiceWebhookUnknown,
                  coreVars, stripeVars, rowVars, workerVars
    <3>3. IInv'
      <4> HIDE DEF o
      <4>1. history[n].of = o
        BY DEF o
      <4> QED
        BY <3>1, <3>2, <4>1, UntouchedInductive, WebhookInductive
    <3> QED
      BY <3>2, <3>3 DEF coreVars
  <2> QED
    BY <1>1, <1>4, <2>1, <2>2 DEF Webhook, CheckoutWebhook, workerVars
<1>5. CASE GrowStale \/ ScheduleReconciliation \/ ReplayDead \/ GiveUp
  <2>1. UNCHANGED coreVars
    BY <1>5 DEF GrowStale, ScheduleReconciliation, ReplayDead, GiveUp, coreVars,
                stripeVars, rowVars, workerVars
  <2> QED
    BY <1>1, <2>1, UntouchedInductive DEF coreVars
<1>6. CASE BeginReconciliation
  BY <1>1, <1>6, BeginInductive DEF BeginReconciliation, rowVars
<1>7. CASE RetrieveSubscription
  <2> DEFINE S == {Sub}
  <2>1. /\ pc = "retrieve" /\ pc' = "list"
        /\ seen' = [o \in Objects |-> IF o = Sub THEN Latest(Sub) ELSE 0]
        /\ UNCHANGED <<now, history, applied, cursor, observed>>
    BY <1>7 DEF RetrieveSubscription, stripeVars, rowVars
  <2>2. Sub \in Objects /\ Latest(Sub) \in Nat
    BY LatestIsLast DEF Objects, IInv, Types
  <2>3. /\ S \in SUBSET Objects
        /\ \A o \in S : seen'[o] = Latest(o)
        /\ \A o \in Objects \ S : seen'[o] = 0 \/ seen'[o] = seen[o]
        /\ seen' \in [Objects -> Nat]
        /\ \A o \in Objects :
              ReadOf(o)' => o \in S \/ (ReadOf(o) /\ seen'[o] = seen[o])
    BY <2>1, <2>2 DEF ReadOf
  <2> HIDE DEF S
  <2>4. IInv'
    BY <2>1, <2>3, ReadInductive
  <2> QED
    BY <2>1, <2>4
<1>8. CASE ListInvoices
  <2> DEFINE S == Objects \ {Sub}
  <2>1. /\ pc = "list" /\ pc' = "apply"
        /\ seen' = [o \in Objects |-> IF o = Sub THEN seen[Sub] ELSE Latest(o)]
        /\ UNCHANGED <<now, history, applied, cursor, observed>>
    BY <1>8 DEF ListInvoices, stripeVars, rowVars
  <2>2. Sub \in Objects /\ \A o \in Objects : Latest(o) \in Nat
    BY LatestIsLast DEF Objects, IInv, Types
  <2>3. /\ S \in SUBSET Objects
        /\ \A o \in S : seen'[o] = Latest(o)
        /\ \A o \in Objects \ S : seen'[o] = 0 \/ seen'[o] = seen[o]
        /\ seen' \in [Objects -> Nat]
        /\ \A o \in Objects :
              ReadOf(o)' => o \in S \/ (ReadOf(o) /\ seen'[o] = seen[o])
    BY <2>1, <2>2 DEF ReadOf, IInv, Types
  <2> HIDE DEF S
  <2>4. IInv'
    BY <2>1, <2>3, ReadInductive
  <2> QED
    BY <2>1, <2>4
<1>9. CASE ApplySnapshot
  BY <1>9, ApplyInductive, ApplyMovesForward
<1>10. CASE ReconciliationFails \/ WorkerDies
  <2>1. /\ pc' = "idle" /\ observed' = Never /\ seen' = NoSnapshot
        /\ UNCHANGED <<now, history, applied, cursor>>
    BY <1>10 DEF ReconciliationFails, WorkerDies, Leave, stripeVars, rowVars
  <2> QED
    BY <1>1, <2>1, LeaveInductive
<1>11. CASE UNCHANGED vars
  BY <1>1, <1>11, UntouchedInductive
     DEF vars, coreVars, stripeVars, rowVars, workerVars
<1> QED
  BY <1>2, <1>3, <1>4, <1>5, <1>6, <1>7, <1>8, <1>9, <1>10, <1>11
     DEF Next, Reconciliation

-----------------------------------------------------------------------------
(* The type invariant.  What IInv leaves out of it no argument above needs. *)

SubStates == {"incomplete", "active", "past_due", "canceled"}

\* What a subscription event says is a state of a subscription.
SubChanges ==
    \A n \in 1..Len(history) : history[n].of = Sub => history[n].is \in SubStates

\* The rest of TypeOK.
RestTypes ==
    /\ receipts \subseteq 1..Len(history)
    /\ standing \in Standings
    /\ paymentCursor \in Nat /\ tries \in Nat /\ replays \in Nat
    /\ missed \in BOOLEAN /\ linked \in BOOLEAN
    /\ fresh \in BOOLEAN /\ keyed \in BOOLEAN
    /\ phase \in {"none", "waiting", "taken", "done", "failed"}
    /\ SubChanges

\* Appending changes of which those of the subscription are states of it keeps
\* them that.
LEMMA HappensKeepsTypes ==
    ASSUME Types, RestTypes, NEW changes \in Seq(ChangeRecords), Happens(changes),
           \A k \in 1..Len(changes) : changes[k].of = Sub => changes[k].is \in SubStates
    PROVE  RestTypes'
<1>1. /\ history' = history \o changes
      /\ UNCHANGED <<receipts, missed, linked, standing, paymentCursor, fresh, phase,
                     tries, keyed, replays>>
  BY DEF Happens, rowVars, jobVars
<1>2. /\ history \in Seq(ChangeRecords) /\ Len(history) \in Nat /\ Len(changes) \in Nat
      /\ Len(history') = Len(history) + Len(changes)
      /\ \A n \in 1..Len(history') :
            history'[n] = IF n <= Len(history) THEN history[n]
                          ELSE changes[n - Len(history)]
  BY <1>1, ConcatProperties, LenProperties DEF Types
<1>3. receipts' \subseteq 1..Len(history')
  BY <1>1, <1>2 DEF RestTypes
<1>4. SubChanges'
  <2>1. SUFFICES ASSUME NEW n \in 1..Len(history'), history'[n].of = Sub
                 PROVE  history'[n].is \in SubStates
    BY DEF SubChanges
  <2>2. CASE n <= Len(history)
    BY <1>2, <2>1, <2>2 DEF RestTypes, SubChanges
  <2>3. CASE n > Len(history)
    <3>1. n - Len(history) \in 1..Len(changes)
      BY <1>2, <2>1, <2>3
    <3>2. history'[n] = changes[n - Len(history)]
      BY <1>2, <2>1, <2>3
    <3> QED
      BY <2>1, <3>1, <3>2
  <2> QED
    BY <1>2, <2>1, <2>2, <2>3
<1> QED
  BY <1>1, <1>3, <1>4, Zenon DEF RestTypes

\* So does whatever happens at Stripe.
LEMMA StripeKeepsTypes ==
    ASSUME Types, RestTypes, Stripe
    PROVE  RestTypes'
<1>1. ASSUME NEW o \in Objects, NEW state \in SubStates \cup {"failed", "paid"},
             o = Sub => state \in SubStates
      PROVE  Change(o, state) \in ChangeRecords /\ Change(o, state).of = o
             /\ Change(o, state).is = state
  BY <1>1 DEF Change, ChangeRecords, Types, SubStates
<1>2. Sub \in Objects /\ \A i \in Invoices : i \in Objects /\ i # Sub
  BY DEF Objects, Invoices, Sub
<1>3. ASSUME NEW c \in ChangeRecords, c.of = Sub => c.is \in SubStates, Happens(<<c>>)
      PROVE  RestTypes'
  <2>1. /\ <<c>> \in Seq(ChangeRecords)
        /\ \A k \in 1..Len(<<c>>) : <<c>>[k] = c
    OBVIOUS
  <2> QED
    BY <1>3, <2>1, HappensKeepsTypes
<1>4. ASSUME NEW c \in ChangeRecords, NEW d \in ChangeRecords,
             c.of = Sub => c.is \in SubStates, d.of = Sub => d.is \in SubStates,
             Happens(<<c, d>>)
      PROVE  RestTypes'
  <2>1. /\ <<c, d>> \in Seq(ChangeRecords)
        /\ \A k \in 1..Len(<<c, d>>) : <<c, d>>[k] = c \/ <<c, d>>[k] = d
    OBVIOUS
  <2> QED
    BY <1>4, <2>1, HappensKeepsTypes
<1>5. CASE Subscribe
  BY <1>1, <1>2, <1>3, <1>5 DEF Subscribe, SubStates
<1>6. CASE CancelSubscription
  BY <1>1, <1>2, <1>3, <1>6 DEF CancelSubscription, SubStates
<1>7. ASSUME NEW i \in Invoices, PaymentFails(i)
      PROVE  RestTypes'
  <2>1. \/ Happens(<<Change(i, "failed"), Change(Sub, "past_due")>>)
        \/ Happens(<<Change(i, "failed")>>)
    BY <1>7 DEF PaymentFails
  <2>2. /\ Change(i, "failed") \in ChangeRecords /\ Change(i, "failed").of # Sub
        /\ Change(Sub, "past_due") \in ChangeRecords
        /\ Change(Sub, "past_due").is \in SubStates
    BY <1>1, <1>2 DEF SubStates
  <2> QED
    BY <1>3, <1>4, <2>1, <2>2
<1>8. ASSUME NEW i \in Invoices, PaymentSucceeds(i)
      PROVE  RestTypes'
  <2>1. \/ Happens(<<Change(i, "paid"), Change(Sub, "active")>>)
        \/ Happens(<<Change(i, "paid")>>)
    BY <1>8 DEF PaymentSucceeds
  <2>2. /\ Change(i, "paid") \in ChangeRecords /\ Change(i, "paid").of # Sub
        /\ Change(Sub, "active") \in ChangeRecords
        /\ Change(Sub, "active").is \in SubStates
    BY <1>1, <1>2 DEF SubStates
  <2> QED
    BY <1>3, <1>4, <2>1, <2>2
<1> QED
  BY <1>5, <1>6, <1>7, <1>8 DEF Stripe

\* A subscription state stands for a status.
LEMMA StandingTypes ==
    ASSUME RestTypes, NEW state \in SubStates
    PROVE  Standing(state) \in Standings
BY DEF RestTypes, Standing, SubStates, Standings

\* Deliveries keep the types.
LEMMA WebhookKeepsTypes ==
    ASSUME Types, RestTypes, Webhook
    PROVE  RestTypes'
<1>1. CASE CheckoutWebhook
  <2>1. /\ linked' = TRUE
        /\ UNCHANGED <<history, receipts, missed, standing, paymentCursor, fresh, phase,
                       tries, keyed, replays>>
    BY <1>1 DEF CheckoutWebhook, stripeVars, jobVars
  <2> QED
    BY <2>1, Zenon DEF RestTypes, SubChanges
<1>2. ASSUME NEW n \in DOMAIN history,
             SubscriptionWebhook(n) \/ InvoiceWebhook(n) \/ InvoiceWebhookUnknown(n)
      PROVE  RestTypes'
  <2>1. n \in 1..Len(history) /\ history[n] \in ChangeRecords
    BY LenProperties DEF Types
  <2>2. /\ receipts' = receipts \cup {n}
        /\ UNCHANGED <<history, fresh, phase, tries, keyed, replays>>
    BY <1>2 DEF SubscriptionWebhook, InvoiceWebhook, InvoiceWebhookUnknown, stripeVars,
       jobVars
  <2>3. receipts' \subseteq 1..Len(history')
    BY <2>1, <2>2 DEF RestTypes
  <2>4. standing' \in Standings
    <3>1. CASE SubscriptionWebhook(n)
      <4>1. Standing(history[n].is) \in Standings
        BY <2>1, <3>1, StandingTypes DEF SubscriptionWebhook, RestTypes, SubChanges
      <4> QED
        BY <3>1, <4>1 DEF SubscriptionWebhook, RestTypes
    <3>2. CASE InvoiceWebhook(n)
      BY <3>2 DEF InvoiceWebhook, AfterPayment, RestTypes, Standings
    <3>3. CASE InvoiceWebhookUnknown(n)
      BY <3>3 DEF InvoiceWebhookUnknown, rowVars, RestTypes
    <3> QED
      BY <1>2, <3>1, <3>2, <3>3
  <2>5. paymentCursor' \in Nat
    BY <1>2, <2>1 DEF SubscriptionWebhook, InvoiceWebhook, InvoiceWebhookUnknown,
       rowVars, RestTypes, ChangeRecords
  <2>6. (missed' = TRUE \/ UNCHANGED missed) /\ (linked' = TRUE \/ UNCHANGED linked)
    BY <1>2, Zenon DEF SubscriptionWebhook, InvoiceWebhook, InvoiceWebhookUnknown, rowVars
  <2>7. missed' \in BOOLEAN /\ linked' \in BOOLEAN
    BY <2>6, Zenon DEF RestTypes
  <2> QED
    BY <2>2, <2>3, <2>4, <2>5, <2>7, Zenon DEF RestTypes, SubChanges
<1> QED
  BY <1>1, <1>2 DEF Webhook

\* The job and its operator keep the types.
LEMMA JobKeepsTypes ==
    ASSUME IInv, RestTypes, Reconciliation \/ ReplayDead \/ ReconciliationFails \/ WorkerDies
    PROVE  RestTypes'
<1>1. UNCHANGED <<history, receipts, missed, linked, paymentCursor>>
  BY DEF Reconciliation, GrowStale, ScheduleReconciliation, BeginReconciliation,
     RetrieveSubscription, ListInvoices, ApplySnapshot, GiveUp, ReplayDead,
     ReconciliationFails, WorkerDies, stripeVars, rowVars
<1>2. standing' \in Standings
  <2>1. CASE ApplySnapshot
    <3>1. CASE Sub \in Replaced
      <4>1. /\ seen[Sub] \in 1..Len(history) /\ history[seen[Sub]].of = Sub
        BY <3>1 DEF Replaced, IInv, ContentsHappened, OfObject
      <4>2. Standing(history[seen[Sub]].is) \in Standings
        BY <4>1, StandingTypes DEF RestTypes, SubChanges
      <4> QED
        BY <2>1, <3>1, <4>2 DEF ApplySnapshot
    <3>2. CASE Sub \notin Replaced
      BY <2>1, <3>2 DEF ApplySnapshot, RestTypes
    <3> QED
      BY <3>1, <3>2
  <2>2. CASE ~ApplySnapshot
    BY <2>2 DEF Reconciliation, GrowStale, ScheduleReconciliation, BeginReconciliation,
       RetrieveSubscription, ListInvoices, GiveUp, ReplayDead, ReconciliationFails,
       WorkerDies, rowVars, RestTypes
  <2> QED
    BY <2>1, <2>2
<1>3. tries' \in Nat /\ replays' \in Nat
  BY DEF Reconciliation, GrowStale, ScheduleReconciliation, BeginReconciliation,
     RetrieveSubscription, ListInvoices, ApplySnapshot, GiveUp, ReplayDead,
     ReconciliationFails, WorkerDies, jobVars, RestTypes
<1>4. phase' \in {"none", "waiting", "taken", "done", "failed"}
  BY DEF Reconciliation, GrowStale, ScheduleReconciliation, BeginReconciliation,
     RetrieveSubscription, ListInvoices, ApplySnapshot, GiveUp, ReplayDead,
     ReconciliationFails, WorkerDies, Leave, jobVars, RestTypes
<1>5. /\ fresh' = TRUE \/ fresh' = FALSE \/ fresh' = fresh
      /\ keyed' = TRUE \/ keyed' = FALSE \/ keyed' = keyed
  BY DEF Reconciliation, GrowStale, ScheduleReconciliation, BeginReconciliation,
     RetrieveSubscription, ListInvoices, ApplySnapshot, RecordEvidence, GiveUp,
     ReplayDead, ReconciliationFails, WorkerDies, jobVars
<1>6. fresh' \in BOOLEAN /\ keyed' \in BOOLEAN
  BY <1>5, Zenon DEF RestTypes
<1> QED
  BY <1>1, <1>2, <1>3, <1>4, <1>6, Zenon DEF RestTypes, SubChanges

\* Every initial state has the types, and every step keeps them.
LEMMA TypesInductive ==
    /\ Init => RestTypes
    /\ IInv /\ RestTypes /\ [Next]_vars => RestTypes'
<1>1. ASSUME Init PROVE RestTypes
  <2>1. missed \in BOOLEAN /\ linked \in BOOLEAN /\ fresh \in BOOLEAN /\ keyed \in BOOLEAN
    BY <1>1, Zenon DEF Init
  <2>2. Len(history) = 0
    BY <1>1 DEF Init
  <2> QED
    BY <1>1, <2>1, <2>2 DEF Init, RestTypes, SubChanges, Standings, Never
<1>2. ASSUME IInv, RestTypes, [Next]_vars PROVE RestTypes'
  <2>1. CASE Tick
    <3>1. UNCHANGED <<history, receipts, missed, linked, standing, paymentCursor, fresh,
                      phase, tries, keyed, replays>>
      BY <2>1 DEF Tick, rowVars, jobVars
    <3> QED
      BY <1>2, <3>1 DEF RestTypes, SubChanges
  <2>2. CASE UNCHANGED vars
    <3>1. UNCHANGED <<history, receipts, missed, linked, standing, paymentCursor, fresh,
                      phase, tries, keyed, replays>>
      BY <2>2 DEF vars, stripeVars, rowVars, jobVars
    <3> QED
      BY <1>2, <3>1 DEF RestTypes, SubChanges
  <2> QED
    BY <1>2, <2>1, <2>2, StripeKeepsTypes, WebhookKeepsTypes, JobKeepsTypes
       DEF Next, IInv
<1> QED
  BY <1>1, <1>2

-----------------------------------------------------------------------------
(***************************************************************************)
(* Rows and status end up right (StateConverges).  What an event leaves    *)
(* behind is never undone: no later step moves a cursor or a row behind a  *)
(* handled event, unless two changes of one second tie.  The status is     *)
(* written from two sides; each write is the right one because an older    *)
(* payment is refused and Stripe never calls a subscription active after a *)
(* payment that failed.                                                    *)
(***************************************************************************)

\* The position of the latest payment, 0 before the first.
Payment == LastOf(ChangesOf(Invoices))

\* What Stripe's own rules say of its changes: the events of invoices are
\* payments, there are none before the subscription, a subscription is active
\* only while its last payment succeeded, and past due only after a payment.
StripeTruth ==
    /\ \A n \in 1..Len(history) :
          history[n].of \in Invoices => history[n].is \in {"failed", "paid"}
    /\ Latest(Sub) = 0 => Payment = 0
    /\ State(Sub) = "active" => Payment = 0 \/ history[Payment].is = "paid"
    /\ State(Sub) = "past_due" => Payment # 0

\* A handled event leaves a cursor at its second or later and a row that has
\* the event, unless two changes tie or its workspace was not known.
RowsFollow ==
    Tied \/ \A n \in receipts :
               history[n].of = Sub \/ ~missed =>
                  /\ history[n].at <= cursor[history[n].of]
                  /\ n <= applied[history[n].of]

\* The payment cursor is the second of a payment, and no handled one is later.
PaymentsFollow ==
    /\ \/ paymentCursor = Never
       \/ \E m \in 1..Len(history) :
             history[m].of \in Invoices /\ history[m].at = paymentCursor
    /\ missed \/ \A n \in receipts :
                    history[n].of \in Invoices => history[n].at <= paymentCursor

\* What the status may be while the row has the subscription's latest change,
\* and what it is once the latest payment was handled too.
StatusOfRow ==
    /\ State(Sub) = "canceled" => standing = "canceled"
    /\ State(Sub) \in {"active", "past_due"} => standing \in {"active", "past_due"}

StatusOfPayment ==
    Payment = 0 \/ Payment \in receipts =>
        /\ State(Sub) = "active" => standing = "active"
        /\ State(Sub) = "past_due" /\ history[Payment].is = "failed" => standing = "past_due"

StatusFollows ==
    Tied \/ missed \/ applied[Sub] # Latest(Sub) \/ (StatusOfRow /\ StatusOfPayment)

ConvInv == StripeTruth /\ RowsFollow /\ PaymentsFollow /\ StatusFollows

-----------------------------------------------------------------------------
(* The latest change of some objects.                                      *)

\* LastOf picks the greatest position, and 0 when there is none.
LEMMA LastIs ==
    ASSUME NEW k \in Nat, NEW S, S \subseteq 1..k
    PROVE  /\ S = {} => LastOf(S) = 0
           /\ S # {} => LastOf(S) \in S /\ \A m \in S : m <= LastOf(S)
<1>1. S = {} => LastOf(S) = 0
  BY DEF LastOf
<1>2. ASSUME S # {} PROVE LastOf(S) \in S /\ \A m \in S : m <= LastOf(S)
  <2>1. \E n \in S : \A m \in S : m <= n
    BY <1>2, GreatestPosition
  <2> QED
    BY <1>2, <2>1 DEF LastOf
<1> QED
  BY <1>1, <1>2

\* There is only one greatest position.
LEMMA LastIsThis ==
    ASSUME NEW k \in Nat, NEW S, S \subseteq 1..k, NEW n \in S, \A m \in S : m <= n
    PROVE  LastOf(S) = n
<1>1. LastOf(S) \in S /\ n <= LastOf(S)
  BY LastIs
<1>2. PICK l \in S : l = LastOf(S)
  BY <1>1
<1>3. l <= n /\ l \in 1..k /\ n \in 1..k
  BY <1>2
<1> QED
  BY <1>1, <1>2, <1>3

\* The latest change of the objects in O is one of theirs, and none is later.
LEMMA LastChange ==
    ASSUME history \in Seq(ChangeRecords), NEW O
    PROVE  /\ LastOf(ChangesOf(O)) \in Nat
           /\ LastOf(ChangesOf(O)) # 0 =>
                 /\ LastOf(ChangesOf(O)) \in 1..Len(history)
                 /\ history[LastOf(ChangesOf(O))].of \in O
           /\ \A n \in 1..Len(history) :
                 history[n].of \in O => n <= LastOf(ChangesOf(O)) /\ LastOf(ChangesOf(O)) # 0
<1> DEFINE S == ChangesOf(O)
<1>1. DOMAIN history = 1..Len(history) /\ Len(history) \in Nat
  BY LenProperties
<1>2. S = {n \in 1..Len(history) : history[n].of \in O}
  BY <1>1 DEF ChangesOf
<1>3. /\ S = {} => LastOf(S) = 0
      /\ S # {} => LastOf(S) \in S /\ \A m \in S : m <= LastOf(S)
  <2>1. S \subseteq 1..Len(history)
    BY <1>2
  <2> HIDE DEF S
  <2> QED
    BY <1>1, <2>1, LastIs
<1>4. CASE S = {}
  BY <1>2, <1>3, <1>4
<1>5. CASE S # {}
  <2> DEFINE l == LastOf(S)
  <2>1. l \in 1..Len(history) /\ history[l].of \in O /\ \A m \in S : m <= l
    BY <1>2, <1>3, <1>5
  <2>2. \A n \in 1..Len(history) : history[n].of \in O => n <= l
    BY <1>2, <2>1
  <2> HIDE DEF S, l
  <2> QED
    BY <1>1, <2>1, <2>2 DEF S, l
<1> QED
  BY <1>4, <1>5

\* The history was continued.
Continued ==
    /\ history' \in Seq(ChangeRecords)
    /\ Len(history) <= Len(history')
    /\ \A n \in 1..Len(history) : history'[n] = history[n]

\* Changes of other objects leave the latest one of these where it was...
LEMMA LastStays ==
    ASSUME history \in Seq(ChangeRecords), Continued, NEW O,
           \A n \in 1..Len(history') : n > Len(history) => history'[n].of \notin O
    PROVE  LastOf(ChangesOf(O))' = LastOf(ChangesOf(O))
<1>1. /\ DOMAIN history = 1..Len(history) /\ Len(history) \in Nat
      /\ DOMAIN history' = 1..Len(history') /\ Len(history') \in Nat
  BY LenProperties DEF Continued
<1>2. ChangesOf(O)' = ChangesOf(O)
  BY <1>1 DEF ChangesOf, Continued
<1> QED
  BY <1>2 DEF LastOf

\* ...and a new change of theirs, with none after it, is the latest one.
LEMMA LastMoves ==
    ASSUME Continued, NEW O, NEW n \in 1..Len(history'), history'[n].of \in O,
           \A m \in 1..Len(history') : m > n => history'[m].of \notin O
    PROVE  LastOf(ChangesOf(O))' = n
<1> DEFINE S == {m \in 1..Len(history') : history'[m].of \in O}
<1>1. DOMAIN history' = 1..Len(history') /\ Len(history') \in Nat
  BY LenProperties DEF Continued
<1>2. ChangesOf(O)' = S
  BY <1>1 DEF ChangesOf
<1>3. S \subseteq 1..Len(history') /\ n \in S /\ \A m \in S : m <= n
  BY <1>1
<1> HIDE DEF S
<1>4. LastOf(S) = n
  BY <1>1, <1>3, LastIsThis
<1> QED
  BY <1>2, <1>4 DEF LastOf

\* What is tied stays tied.
LEMMA TiedStays ==
    ASSUME history \in Seq(ChangeRecords), Continued, Tied
    PROVE  Tied'
<1>1. /\ DOMAIN history = 1..Len(history) /\ Len(history) \in Nat
      /\ DOMAIN history' = 1..Len(history') /\ Len(history') \in Nat
  BY LenProperties DEF Continued
<1>2. PICK m \in 1..Len(history), n \in 1..Len(history) :
         /\ m # n
         /\ history[m].at = history[n].at
         /\ \/ history[m].of = history[n].of
            \/ {history[m].of, history[n].of} \subseteq Invoices
  BY <1>1 DEF Tied
<1>3. m \in DOMAIN history' /\ n \in DOMAIN history'
  BY <1>1 DEF Continued
<1>4. history'[m] = history[m] /\ history'[n] = history[n]
  BY DEF Continued
<1>5. /\ history'[m].at = history'[n].at
      /\ \/ history'[m].of = history'[n].of
         \/ {history'[m].of, history'[n].of} \subseteq Invoices
  BY <1>2, <1>4
<1> QED
  BY <1>2, <1>3, <1>5, Zenon DEF Tied

\* Without ties a change of the same object, or another payment, that is older
\* by position is older by the second.
LEMMA OlderIsEarlier ==
    ASSUME IInv, ~Tied, NEW m \in 1..Len(history), NEW n \in 1..Len(history), m < n,
           \/ history[m].of = history[n].of
           \/ history[m].of \in Invoices /\ history[n].of \in Invoices
    PROVE  history[m].at < history[n].at
<1>1. /\ DOMAIN history = 1..Len(history) /\ Len(history) \in Nat
      /\ history[m].at \in Nat /\ history[n].at \in Nat
  BY Positions DEF IInv, Types
<1>2. history[m].at <= history[n].at
  BY DEF IInv, HistoryOrdered
<1>3. history[m].at # history[n].at
  <2> SUFFICES ASSUME history[m].at = history[n].at PROVE FALSE
    OBVIOUS
  <2>1. m # n /\ m \in DOMAIN history /\ n \in DOMAIN history
    BY <1>1
  <2>2. \/ history[m].of = history[n].of
        \/ {history[m].of, history[n].of} \subseteq Invoices
    OBVIOUS
  <2> QED
    BY <2>1, <2>2, Zenon DEF Tied
<1> QED
  BY <1>1, <1>2, <1>3

\* While nothing happens at Stripe, what is said of its changes stays true.
LEMMA SameHistory ==
    ASSUME history' = history
    PROVE  /\ Tied' <=> Tied
           /\ Latest(Sub)' = Latest(Sub)
           /\ State(Sub)' = State(Sub)
           /\ Payment' = Payment
           /\ StripeTruth' <=> StripeTruth
<1>1. Tied' <=> Tied
  BY DEF Tied
<1>2. Latest(Sub)' = Latest(Sub)
  BY Zenon DEF Latest, ChangesOf
<1>3. State(Sub)' = State(Sub)
  BY <1>2, Zenon DEF State
<1>4. Payment' = Payment
  BY Zenon DEF Payment, ChangesOf
<1>5. StripeTruth' <=> StripeTruth
  BY <1>2, <1>3, <1>4, Zenon DEF StripeTruth
<1> QED
  BY <1>1, <1>2, <1>3, <1>4, <1>5

-----------------------------------------------------------------------------
(* Deliveries and snapshots keep rows and payments.                        *)

\* Rows and cursors that only move forward keep what events left behind.
LEMMA ForwardKeepsRows ==
    ASSUME IInv, RestTypes, RowsFollow,
           UNCHANGED <<history, receipts, missed>>,
           \A o \in Objects : /\ applied'[o] \in Nat /\ applied'[o] >= applied[o]
                              /\ cursor'[o] \in Nat /\ cursor'[o] >= cursor[o]
    PROVE  RowsFollow'
<1> SUFFICES ASSUME ~Tied,
                    NEW n \in receipts, history[n].of = Sub \/ ~missed
             PROVE  /\ history[n].at <= cursor'[history[n].of]
                    /\ n <= applied'[history[n].of]
  BY SameHistory DEF RowsFollow
<1>1. n \in 1..Len(history) /\ Len(history) \in Nat
  BY LenProperties DEF RestTypes, IInv, Types
<1>2. history[n].at \in Nat /\ history[n].of \in Objects
  BY <1>1, Positions DEF IInv, Types
<1>3. history[n].at <= cursor[history[n].of] /\ n <= applied[history[n].of]
  BY DEF RowsFollow
<1>4. cursor[history[n].of] \in Nat /\ applied[history[n].of] \in Nat
  BY <1>2 DEF IInv, Types
<1> QED
  BY <1>1, <1>2, <1>3, <1>4

\* An event supersedes its row, or is one the cursor knows to be no news.
LEMMA EventKeepsRows ==
    ASSUME IInv, RestTypes, RowsFollow,
           NEW n \in 1..Len(history), NEW o \in Objects, history[n].of = o,
           UNCHANGED <<history, missed>>,
           receipts' = receipts \cup {n},
           \/ /\ cursor[o] <= history[n].at
              /\ applied' = [applied EXCEPT ![o] = n]
              /\ cursor' = [cursor EXCEPT ![o] = history[n].at]
           \/ /\ ~ (cursor[o] <= history[n].at)
              /\ UNCHANGED <<applied, cursor>>
    PROVE  RowsFollow'
<1> SUFFICES ASSUME ~Tied,
                    NEW m \in receipts \cup {n}, history[m].of = Sub \/ ~missed
             PROVE  /\ history[m].at <= cursor'[history[m].of]
                    /\ m <= applied'[history[m].of]
  BY SameHistory DEF RowsFollow
<1>1. /\ m \in 1..Len(history) /\ Len(history) \in Nat
      /\ DOMAIN history = 1..Len(history)
  BY LenProperties DEF RestTypes, IInv, Types
<1>2. /\ history[m].at \in Nat /\ history[m].of \in Objects
      /\ history[n].at \in Nat
  BY <1>1, Positions DEF IInv, Types
<1>3. cursor \in [Objects -> Nat] /\ applied \in [Objects -> Nat]
  BY DEF IInv, Types
<1>4. m \in receipts =>
         history[m].at <= cursor[history[m].of] /\ m <= applied[history[m].of]
  BY DEF RowsFollow
<1>5. CASE ~ (cursor[o] <= history[n].at) /\ UNCHANGED <<applied, cursor>>
  <2>1. CASE m = n
    <3>1. history[n].at < cursor[history[n].of]
      BY <1>2, <1>3, <1>5
    <3>2. n <= applied[history[n].of]
      BY <1>1, <3>1 DEF IInv, NothingSkipped
    <3> QED
      BY <1>2, <1>3, <1>5, <2>1, <3>1, <3>2
  <2>2. CASE m # n
    BY <1>4, <1>5, <2>2
  <2> QED
    BY <2>1, <2>2
<1>6. CASE /\ cursor[o] <= history[n].at
           /\ applied' = [applied EXCEPT ![o] = n]
           /\ cursor' = [cursor EXCEPT ![o] = history[n].at]
  <2>1. CASE m = n
    BY <1>1, <1>2, <1>3, <1>6, <2>1
  <2>2. CASE m # n /\ history[m].of # o
    BY <1>2, <1>3, <1>4, <1>6, <2>2
  <2>3. CASE m # n /\ history[m].of = o
    <3>1. history[m].at <= history[n].at
      BY <1>2, <1>3, <1>4, <1>6, <2>3
    <3>2. ~ (n < m)
      BY <1>1, <1>2, <2>3, <3>1, OlderIsEarlier
    <3>3. m <= n
      BY <1>1, <3>2
    <3> QED
      BY <1>3, <1>6, <2>3, <3>1, <3>3
  <2> QED
    BY <2>1, <2>2, <2>3
<1> QED
  BY <1>5, <1>6

\* The status a subscription state stands for agrees with it.
LEMMA StatusSettles ==
    ASSUME history' = history, RestTypes,
           standing' = Standing(State(Sub))
    PROVE  StatusOfRow' /\ StatusOfPayment'
<1>1. State(Sub)' = State(Sub) /\ Payment' = Payment
  BY SameHistory
<1>2. State(Sub) # "incomplete" => standing' = State(Sub)
  BY DEF Standing
<1> QED
  BY <1>1, <1>2 DEF StatusOfRow, StatusOfPayment

\* A subscription that changed is in one of its states.
LEMMA StateOfSub ==
    ASSUME IInv, RestTypes
    PROVE  /\ Latest(Sub) # 0 => /\ Latest(Sub) \in 1..Len(history)
                                 /\ State(Sub) = history[Latest(Sub)].is
                                 /\ State(Sub) \in SubStates
           /\ Latest(Sub) = 0 => State(Sub) = "none"
<1>1. Latest(Sub) # 0 => Latest(Sub) \in 1..Len(history) /\ history[Latest(Sub)].of = Sub
  BY LatestIsLast DEF OfObject, IInv, Types, Objects
<1> QED
  BY <1>1 DEF State, RestTypes, SubChanges

\* A delivered subscription event keeps the status in line.
LEMMA SubscriptionEventKeepsStatus ==
    ASSUME IInv, RestTypes, ConvInv, NEW n \in 1..Len(history), SubscriptionWebhook(n)
    PROVE  StatusFollows'
<1> USE DEF ConvInv
<1>1. /\ history' = history /\ missed' = missed /\ history[n].of = Sub
      /\ receipts' = receipts \cup {n}
  BY DEF SubscriptionWebhook, stripeVars
<1>2. /\ Tied' <=> Tied
      /\ Latest(Sub)' = Latest(Sub) /\ State(Sub)' = State(Sub) /\ Payment' = Payment
  BY <1>1, SameHistory
<1>3. Len(history) \in Nat /\ Sub \in Objects /\ applied \in [Objects -> Nat] /\ n # 0
  BY LenProperties DEF IInv, Types, Objects
<1>4. CASE Supersedes(Sub, history[n].at)
  <2>1. applied'[Sub] = n /\ standing' = Standing(history[n].is)
    BY <1>3, <1>4 DEF SubscriptionWebhook
  <2>2. CASE n = Latest(Sub)
    <3>1. standing' = Standing(State(Sub))
      BY <1>3, <2>1, <2>2 DEF State
    <3> QED
      BY <1>1, <3>1, StatusSettles DEF StatusFollows
  <2>3. CASE n # Latest(Sub)
    BY <1>2, <2>1, <2>3 DEF StatusFollows
  <2> QED
    BY <2>2, <2>3
<1>5. CASE ~Supersedes(Sub, history[n].at)
  <2>1. applied' = applied /\ standing' = standing
    BY <1>5 DEF SubscriptionWebhook
  <2>2. Payment # n
    <3>1. Payment # 0 => history[Payment].of \in Invoices
      BY LastChange DEF Payment, IInv, Types
    <3> QED
      BY <1>1, <1>3, <3>1 DEF Sub, Invoices
  <2>3. StatusOfRow => StatusOfRow'
    BY <1>2, <2>1 DEF StatusOfRow
  <2>4. StatusOfPayment => StatusOfPayment'
    BY <1>1, <1>2, <2>1, <2>2 DEF StatusOfPayment
  <2> QED
    BY <1>1, <1>2, <2>1, <2>3, <2>4, Zenon DEF StatusFollows
<1> QED
  BY <1>4, <1>5

\* A delivered payment keeps the status in line: the latest one is never
\* refused, and one that is not the latest is refused once the latest was
\* handled.
LEMMA PaymentEventKeepsStatus ==
    ASSUME IInv, RestTypes, ConvInv, NEW n \in 1..Len(history), InvoiceWebhook(n)
    PROVE  StatusFollows'
<1> USE DEF ConvInv
<1>1. /\ history' = history /\ missed' = missed /\ history[n].of \in Invoices
      /\ receipts' = receipts \cup {n}
      /\ IF paymentCursor <= history[n].at THEN standing' = AfterPayment(history[n].is)
                                           ELSE standing' = standing
  BY DEF InvoiceWebhook, stripeVars
<1>2. /\ Tied' <=> Tied
      /\ Latest(Sub)' = Latest(Sub) /\ State(Sub)' = State(Sub) /\ Payment' = Payment
  BY <1>1, SameHistory
<1>3. applied'[Sub] = applied[Sub]
  <2>1. /\ history[n].of # Sub
        /\ \/ applied' = applied
           \/ applied' = [applied EXCEPT ![history[n].of] = n]
    BY <1>1 DEF InvoiceWebhook, Sub, Invoices
  <2> QED
    BY <2>1 DEF IInv, Types, Objects
<1>4. /\ Len(history) \in Nat
      /\ Payment \in 1..Len(history) /\ history[Payment].of \in Invoices
      /\ n <= Payment
  BY <1>1, LenProperties, LastChange DEF Payment, IInv, Types
<1>5. history[n].is \in {"failed", "paid"} /\ history[Payment].is \in {"failed", "paid"}
  BY <1>1, <1>4 DEF StripeTruth
<1> SUFFICES ASSUME ~Tied, ~missed, applied[Sub] = Latest(Sub)
             PROVE  StatusOfRow' /\ StatusOfPayment'
  BY <1>1, <1>2, <1>3 DEF StatusFollows
<1>6. StatusOfRow /\ StatusOfPayment
  BY DEF StatusFollows
<1>7. StatusOfRow'
  <2>1. standing = "canceled" => standing' = "canceled"
    BY <1>1, <1>5 DEF AfterPayment
  <2>2. standing \in {"active", "past_due"} => standing' \in {"active", "past_due"}
    BY <1>1, <1>5 DEF AfterPayment
  <2> QED
    BY <1>2, <1>6, <2>1, <2>2 DEF StatusOfRow
<1>8. CASE n = Payment
  <2>1. paymentCursor <= history[n].at
    <3>1. history[n].at \in Nat
      BY Positions DEF IInv, Types
    <3>2. CASE paymentCursor = Never
      BY <3>1, <3>2 DEF Never
    <3>3. ASSUME NEW m \in 1..Len(history), history[m].of \in Invoices,
                 history[m].at = paymentCursor
          PROVE  paymentCursor <= history[n].at
      <4>1. m <= n
        BY <1>8, <3>3, LastChange DEF Payment, IInv, Types
      <4> QED
        BY <3>3, <4>1 DEF IInv, HistoryOrdered
    <3> QED
      BY <3>2, <3>3 DEF PaymentsFollow
  <2>2. standing' = AfterPayment(history[n].is)
    BY <1>1, <2>1
  <2>3. State(Sub) = "active" => standing' = "active"
    <3> SUFFICES ASSUME State(Sub) = "active" PROVE standing' = "active"
      OBVIOUS
    <3>1. history[n].is = "paid"
      BY <1>4, <1>8 DEF StripeTruth
    <3>2. standing \in {"active", "past_due"}
      BY <1>6 DEF StatusOfRow
    <3> QED
      BY <2>2, <3>1, <3>2 DEF AfterPayment
  <2>4. State(Sub) = "past_due" /\ history[n].is = "failed" => standing' = "past_due"
    <3> SUFFICES ASSUME State(Sub) = "past_due", history[n].is = "failed"
                 PROVE  standing' = "past_due"
      OBVIOUS
    <3>1. standing \in {"active", "past_due"}
      BY <1>6 DEF StatusOfRow
    <3> QED
      BY <2>2, <3>1 DEF AfterPayment
  <2>5. history'[Payment'] = history[n]
    BY <1>1, <1>2, <1>8
  <2> QED
    BY <1>2, <1>7, <2>3, <2>4, <2>5 DEF StatusOfPayment
<1>9. CASE n # Payment
  <2>1. CASE Payment \notin receipts
    BY <1>1, <1>2, <1>4, <1>7, <1>9, <2>1 DEF StatusOfPayment
  <2>2. CASE Payment \in receipts
    <3>1. history[n].at < history[Payment].at
      BY <1>1, <1>4, <1>9, OlderIsEarlier
    <3>2. history[Payment].at <= paymentCursor
      BY <1>4, <2>2 DEF PaymentsFollow
    <3>3. history[n].at \in Nat /\ history[Payment].at \in Nat /\ paymentCursor \in Nat
      BY <1>4, Positions DEF IInv, Types, RestTypes
    <3>4. standing' = standing
      BY <1>1, <3>1, <3>2, <3>3
    <3> QED
      BY <1>1, <1>2, <1>6, <1>7, <2>2, <3>4 DEF StatusOfPayment
  <2> QED
    BY <2>1, <2>2
<1> QED
  BY <1>8, <1>9

\* The payment cursor follows the payments that were handled.
LEMMA EventKeepsPayments ==
    ASSUME IInv, RestTypes, PaymentsFollow, NEW n \in 1..Len(history),
           SubscriptionWebhook(n) \/ InvoiceWebhook(n) \/ InvoiceWebhookUnknown(n)
    PROVE  PaymentsFollow'
<1>1. history' = history /\ receipts' = receipts \cup {n}
  BY DEF SubscriptionWebhook, InvoiceWebhook, InvoiceWebhookUnknown, stripeVars
<1>2. /\ \A m \in 1..Len(history) : history[m].at \in Nat
      /\ paymentCursor \in Nat /\ receipts \subseteq 1..Len(history)
  BY Positions DEF IInv, Types, RestTypes
<1>3. CASE SubscriptionWebhook(n)
  <2>1. paymentCursor' = paymentCursor /\ missed' = missed /\ history[n].of \notin Invoices
    BY <1>3 DEF SubscriptionWebhook, Sub, Invoices
  <2> QED
    BY <1>1, <2>1 DEF PaymentsFollow
<1>4. CASE InvoiceWebhookUnknown(n)
  <2>1. paymentCursor' = paymentCursor /\ missed' = TRUE
    BY <1>4 DEF InvoiceWebhookUnknown, rowVars
  <2> QED
    BY <1>1, <2>1 DEF PaymentsFollow
<1>5. CASE InvoiceWebhook(n)
  <2>1. /\ missed' = missed /\ history[n].of \in Invoices
        /\ paymentCursor' = IF paymentCursor <= history[n].at THEN history[n].at
                                                              ELSE paymentCursor
    BY <1>5 DEF InvoiceWebhook
  <2>2. paymentCursor <= paymentCursor' /\ history[n].at <= paymentCursor'
    BY <1>2, <2>1
  <2>3. \/ paymentCursor' = Never
        \/ \E m \in 1..Len(history) :
              history[m].of \in Invoices /\ history[m].at = paymentCursor'
    BY <2>1 DEF PaymentsFollow
  <2>4. paymentCursor' \in Nat
    BY <1>2, <2>1
  <2>5. ASSUME ~missed, NEW m \in receipts \cup {n}, history[m].of \in Invoices
        PROVE  history[m].at <= paymentCursor'
    BY <1>2, <2>2, <2>4, <2>5 DEF PaymentsFollow
  <2> QED
    BY <1>1, <2>1, <2>3, <2>5, Zenon DEF PaymentsFollow
<1> QED
  BY <1>3, <1>4, <1>5

\* An event keeps all of it.
LEMMA EventConverges ==
    ASSUME IInv, RestTypes, ConvInv, NEW n \in 1..Len(history),
           SubscriptionWebhook(n) \/ InvoiceWebhook(n) \/ InvoiceWebhookUnknown(n)
    PROVE  ConvInv'
<1> DEFINE o == history[n].of
<1>1. history' = history
  BY DEF SubscriptionWebhook, InvoiceWebhook, InvoiceWebhookUnknown, stripeVars
<1>2. StripeTruth'
  BY <1>1, SameHistory DEF ConvInv
<1>3. PaymentsFollow'
  BY EventKeepsPayments DEF ConvInv
<1>4. o \in Objects
  BY Positions DEF IInv, Types
<1>5. RowsFollow'
  <2>1. CASE SubscriptionWebhook(n) \/ InvoiceWebhook(n)
    <3>1. /\ UNCHANGED <<history, missed>>
          /\ receipts' = receipts \cup {n}
          /\ \/ /\ cursor[o] <= history[n].at
                /\ applied' = [applied EXCEPT ![o] = n]
                /\ cursor' = [cursor EXCEPT ![o] = history[n].at]
             \/ /\ ~ (cursor[o] <= history[n].at)
                /\ UNCHANGED <<applied, cursor>>
      BY <2>1 DEF SubscriptionWebhook, InvoiceWebhook, Supersedes, stripeVars
    <3> HIDE DEF o
    <3>2. history[n].of = o
      BY DEF o
    <3> QED
      BY <1>4, <3>1, <3>2, EventKeepsRows DEF ConvInv
  <2>2. CASE InvoiceWebhookUnknown(n)
    <3>1. /\ missed' /\ receipts' = receipts \cup {n}
          /\ UNCHANGED <<applied, cursor>>
          /\ history[n].of # Sub
      BY <2>2 DEF InvoiceWebhookUnknown, rowVars, Sub, Invoices
    <3>2. Tied' <=> Tied
      BY <1>1, SameHistory
    <3> QED
      BY <1>1, <3>1, <3>2 DEF RowsFollow, ConvInv
  <2> QED
    BY <2>1, <2>2
<1>6. StatusFollows'
  <2>1. CASE InvoiceWebhookUnknown(n)
    <3>1. missed' = TRUE
      BY <2>1 DEF InvoiceWebhookUnknown
    <3> QED
      BY <3>1, Zenon DEF StatusFollows
  <2> QED
    BY <2>1, SubscriptionEventKeepsStatus, PaymentEventKeepsStatus
<1> QED
  BY <1>2, <1>3, <1>5, <1>6 DEF ConvInv

\* A snapshot replaces the subscription's row by one at least as new, and
\* sets the status to match.
LEMMA SnapshotConverges ==
    ASSUME IInv, RestTypes, ConvInv, ApplySnapshot
    PROVE  ConvInv'
<1>1. /\ UNCHANGED <<history, receipts, missed, paymentCursor>>
      /\ applied' = [o \in Objects |-> IF o \in Replaced THEN seen[o] ELSE applied[o]]
      /\ cursor' = [o \in Objects |-> IF o \in Replaced THEN observed - 1 ELSE cursor[o]]
      /\ standing' = IF Sub \in Replaced THEN Standing(history[seen[Sub]].is) ELSE standing
      /\ pc = "apply"
  BY DEF ApplySnapshot, Watermark, stripeVars
<1>2. /\ Tied' <=> Tied
      /\ Latest(Sub)' = Latest(Sub) /\ State(Sub)' = State(Sub) /\ Payment' = Payment
      /\ StripeTruth' <=> StripeTruth
  BY <1>1, SameHistory
<1>3. Sub \in Objects
  BY DEF Objects
<1>4. RowsFollow'
  <2>1. ASSUME NEW o \in Objects
        PROVE  /\ applied'[o] \in Nat /\ applied'[o] >= applied[o]
               /\ cursor'[o] \in Nat /\ cursor'[o] >= cursor[o]
    <3>1. applied'[o] >= applied[o]
      BY ApplyMovesForward
    <3>2. applied'[o] \in Nat
      BY <1>1 DEF IInv, Types
    <3>3. /\ cursor[o] \in Nat /\ observed \in Nat /\ observed >= 2
      BY <1>1 DEF IInv, Types
    <3>4. o \in Replaced => cursor[o] <= observed - 1
      BY DEF Replaced, Supersedes, Watermark
    <3>5. cursor'[o] = IF o \in Replaced THEN observed - 1 ELSE cursor[o]
      BY <1>1
    <3> QED
      BY <3>1, <3>2, <3>3, <3>4, <3>5
  <2> QED
    BY <1>1, <2>1, ForwardKeepsRows DEF ConvInv
<1>5. PaymentsFollow'
  BY <1>1 DEF PaymentsFollow, ConvInv
<1>6. StatusFollows'
  <2>1. CASE Sub \in Replaced
    <3>1. applied'[Sub] = seen[Sub] /\ seen[Sub] # 0
      BY <1>1, <1>3, <2>1 DEF Replaced
    <3>2. CASE seen[Sub] = Latest(Sub)
      <4>1. standing' = Standing(State(Sub))
        BY <1>1, <2>1, <3>1, <3>2 DEF State
      <4> QED
        BY <1>1, <4>1, StatusSettles DEF StatusFollows
    <3>3. CASE seen[Sub] # Latest(Sub)
      BY <1>2, <3>1, <3>3 DEF StatusFollows
    <3> QED
      BY <3>2, <3>3
  <2>2. CASE Sub \notin Replaced
    <3>1. applied'[Sub] = applied[Sub] /\ standing' = standing
      BY <1>1, <1>3, <2>2
    <3>2. (StatusOfRow => StatusOfRow') /\ (StatusOfPayment => StatusOfPayment')
      BY <1>1, <1>2, <3>1 DEF StatusOfRow, StatusOfPayment
    <3> QED
      BY <1>1, <1>2, <3>1, <3>2, Zenon DEF StatusFollows, ConvInv
  <2> QED
    BY <2>1, <2>2
<1> QED
  BY <1>2, <1>4, <1>5, <1>6 DEF ConvInv

-----------------------------------------------------------------------------
(* Changes at Stripe.                                                      *)

\* One change more.
LEMMA OneChange ==
    ASSUME history \in Seq(ChangeRecords), NEW c \in ChangeRecords,
           history' = history \o <<c>>
    PROVE  /\ Continued
           /\ Len(history') = Len(history) + 1
           /\ history'[Len(history) + 1] = c
<1>1. <<c>> \in Seq(ChangeRecords) /\ Len(<<c>>) = 1 /\ <<c>>[1] = c
  OBVIOUS
<1>2. Len(history) \in Nat
  BY LenProperties
<1> DEFINE d == <<c>>
<1>3. d \in Seq(ChangeRecords) /\ Len(d) = 1 /\ d[1] = c
  BY <1>1
<1> HIDE DEF d
<1>4. /\ history \o d \in Seq(ChangeRecords)
      /\ Len(history \o d) = Len(history) + Len(d)
      /\ \A n \in 1..Len(history) + Len(d) :
            (history \o d)[n] = IF n <= Len(history) THEN history[n] ELSE d[n - Len(history)]
  BY <1>3, ConcatProperties
<1>5. history' = history \o d
  BY DEF d
<1>6. /\ Len(history') = Len(history) + 1
      /\ \A n \in 1..Len(history) : history'[n] = history[n]
      /\ history'[Len(history) + 1] = c
  BY <1>2, <1>3, <1>4, <1>5
<1> QED
  BY <1>2, <1>4, <1>5, <1>6 DEF Continued

\* Two changes more.
LEMMA TwoChanges ==
    ASSUME history \in Seq(ChangeRecords),
           NEW b \in ChangeRecords, NEW c \in ChangeRecords,
           history' = history \o <<b, c>>
    PROVE  /\ Continued
           /\ Len(history') = Len(history) + 2
           /\ history'[Len(history) + 1] = b
           /\ history'[Len(history) + 2] = c
<1>1. /\ <<b, c>> \in Seq(ChangeRecords) /\ Len(<<b, c>>) = 2
      /\ <<b, c>>[1] = b /\ <<b, c>>[2] = c
  OBVIOUS
<1>2. Len(history) \in Nat
  BY LenProperties
<1> DEFINE d == <<b, c>>
<1>3. d \in Seq(ChangeRecords) /\ Len(d) = 2 /\ d[1] = b /\ d[2] = c
  BY <1>1
<1> HIDE DEF d
<1>4. /\ history \o d \in Seq(ChangeRecords)
      /\ Len(history \o d) = Len(history) + Len(d)
      /\ \A n \in 1..Len(history) + Len(d) :
            (history \o d)[n] = IF n <= Len(history) THEN history[n] ELSE d[n - Len(history)]
  BY <1>3, ConcatProperties
<1>5. history' = history \o d
  BY DEF d
<1>6. /\ Len(history') = Len(history) + 2
      /\ \A n \in 1..Len(history) : history'[n] = history[n]
      /\ history'[Len(history) + 1] = b
      /\ history'[Len(history) + 2] = c
  BY <1>2, <1>3, <1>4, <1>5
<1> QED
  BY <1>2, <1>4, <1>5, <1>6 DEF Continued

\* What a change at Stripe does: the subscription has a new latest change
\* that no row has, or there is a new payment, not delivered yet.
StripeNews ==
    /\ Continued
    /\ StripeTruth'
    /\ \/ Latest(Sub)' \notin 0..Len(history)
       \/ /\ Latest(Sub)' = Latest(Sub)
          /\ Payment' \notin 0..Len(history)

\* Both are news to the workspace, which stays as it was.
LEMMA NewsConverges ==
    ASSUME IInv, RestTypes, ConvInv, StripeNews,
           UNCHANGED <<receipts, missed, applied, cursor, standing, paymentCursor>>
    PROVE  ConvInv'
<1>1. /\ history \in Seq(ChangeRecords) /\ Len(history) \in Nat /\ Len(history') \in Nat
      /\ receipts \subseteq 1..Len(history)
  BY LenProperties DEF IInv, Types, RestTypes, StripeNews, Continued
<1>2. \A n \in 1..Len(history) : n \in 1..Len(history') /\ history'[n] = history[n]
  BY <1>1 DEF StripeNews, Continued
<1>3. Tied => Tied'
  BY <1>1, TiedStays DEF StripeNews
<1>4. RowsFollow'
  BY <1>1, <1>2, <1>3 DEF RowsFollow, ConvInv
<1>5. PaymentsFollow'
  <2>1. PaymentsFollow
    BY DEF ConvInv
  <2> QED
    BY <1>1, <1>2, <2>1 DEF PaymentsFollow
<1>6. StatusFollows'
  <2>1. CASE Latest(Sub)' \notin 0..Len(history)
    <3>1. applied[Sub] \in 0..Len(history)
      <4>1. OfObject(applied[Sub], Sub) /\ applied[Sub] \in Nat
        BY DEF IInv, Types, ContentsHappened, Objects
      <4> QED
        BY <1>1, <4>1 DEF OfObject
    <3>2. applied'[Sub] # Latest(Sub)'
      BY <2>1, <3>1
    <3> QED
      BY <3>2, Zenon DEF StatusFollows
  <2>2. CASE Latest(Sub)' = Latest(Sub) /\ Payment' \notin 0..Len(history)
    <3>1. State(Sub)' = State(Sub)
      <4>1. Latest(Sub) # 0 => Latest(Sub) \in 1..Len(history)
        BY StateOfSub
      <4> QED
        BY <1>2, <2>2, <4>1 DEF State
    <3>2. StatusOfRow => StatusOfRow'
      BY <3>1 DEF StatusOfRow
    <3>3. StatusOfPayment'
      <4>1. receipts \subseteq 0..Len(history) /\ 0 \in 0..Len(history)
        BY <1>1
      <4>2. Payment' # 0 /\ Payment' \notin receipts'
        BY <2>2, <4>1
      <4> QED
        BY <4>2 DEF StatusOfPayment
    <3> QED
      BY <1>3, <2>2, <3>2, <3>3, Zenon DEF StatusFollows, ConvInv
  <2> QED
    BY <2>1, <2>2 DEF StripeNews
<1> QED
  BY <1>4, <1>5, <1>6 DEF ConvInv, StripeNews

\* The subscription alone changes: it begins, when there was no payment yet,
\* or it is canceled.
LEMMA SubscriptionNews ==
    ASSUME IInv, RestTypes, ConvInv, NEW c \in ChangeRecords, history' = history \o <<c>>,
           c.of = Sub,
           \/ c.is \in {"incomplete", "canceled"}
           \/ c.is = "active" /\ Latest(Sub) = 0
    PROVE  StripeNews
<1> DEFINE n == Len(history) + 1
<1>1. history \in Seq(ChangeRecords) /\ Len(history) \in Nat
  BY LenProperties DEF IInv, Types
<1>2. Continued /\ Len(history') = n /\ history'[n] = c
  BY <1>1, OneChange
<1>3. c.of \in {Sub} /\ c.of \notin Invoices
  BY DEF Sub, Invoices
<1> HIDE DEF n
<1>4. \A m \in 1..Len(history') : m <= n /\ (m > Len(history) => m = n)
  BY <1>1, <1>2 DEF n
<1>5. Latest(Sub)' = n
  <2>1. n \in 1..Len(history') /\ history'[n].of \in {Sub}
    BY <1>1, <1>2, <1>3 DEF n
  <2>2. \A m \in 1..Len(history') : m > n => history'[m].of \notin {Sub}
    BY <1>1, <1>2
  <2> QED
    BY <1>2, <2>1, <2>2, LastMoves DEF Latest
<1>6. Payment' = Payment
  <2>1. \A m \in 1..Len(history') : m > Len(history) => history'[m].of \notin Invoices
    BY <1>2, <1>3, <1>4
  <2> QED
    BY <1>1, <1>2, <2>1, LastStays DEF Payment
<1>7. State(Sub)' = c.is
  BY <1>1, <1>2, <1>5 DEF State, n
<1>8. StripeTruth'
  <2>1. \A m \in 1..Len(history') :
           history'[m].of \in Invoices => history'[m].is \in {"failed", "paid"}
    <3> SUFFICES ASSUME NEW m \in 1..Len(history'), history'[m].of \in Invoices
                 PROVE  history'[m].is \in {"failed", "paid"}
      OBVIOUS
    <3>1. m \in 1..Len(history)
      BY <1>1, <1>2, <1>3, <1>4
    <3> QED
      BY <1>2, <3>1 DEF Continued, ConvInv, StripeTruth
  <2>2. Latest(Sub)' # 0
    BY <1>1, <1>5 DEF n
  <2>3. State(Sub)' = "active" => Payment' = 0
    BY <1>6, <1>7 DEF ConvInv, StripeTruth
  <2>4. State(Sub)' # "past_due"
    BY <1>7
  <2> QED
    BY <2>1, <2>2, <2>3, <2>4 DEF StripeTruth
<1> QED
  BY <1>1, <1>2, <1>5, <1>8 DEF StripeNews, n

\* A payment alone: it may only fail while the subscription is not active.
LEMMA PaymentNews ==
    ASSUME IInv, RestTypes, ConvInv, NEW c \in ChangeRecords, history' = history \o <<c>>,
           c.of \in Invoices, c.is \in {"failed", "paid"},
           State(Sub) \in {"incomplete", "active", "past_due"},
           c.is = "failed" => State(Sub) # "active"
    PROVE  StripeNews
<1> DEFINE n == Len(history) + 1
<1>1. history \in Seq(ChangeRecords) /\ Len(history) \in Nat
  BY LenProperties DEF IInv, Types
<1>2. Continued /\ Len(history') = n /\ history'[n] = c
  BY <1>1, OneChange
<1>3. c.of \notin {Sub}
  BY DEF Sub, Invoices
<1> HIDE DEF n
<1>4. \A m \in 1..Len(history') : m <= n /\ (m > Len(history) => m = n)
  BY <1>1, <1>2 DEF n
<1>5. Payment' = n
  <2>1. n \in 1..Len(history') /\ history'[n].of \in Invoices
    BY <1>1, <1>2 DEF n
  <2>2. \A m \in 1..Len(history') : m > n => history'[m].of \notin Invoices
    BY <1>1, <1>2
  <2> QED
    BY <1>2, <2>1, <2>2, LastMoves DEF Payment
<1>6. Latest(Sub)' = Latest(Sub)
  <2>1. \A m \in 1..Len(history') : m > Len(history) => history'[m].of \notin {Sub}
    BY <1>2, <1>3, <1>4
  <2> QED
    BY <1>1, <1>2, <2>1, LastStays DEF Latest
<1>7. State(Sub)' = State(Sub) /\ Latest(Sub) # 0
  <2>1. Latest(Sub) # 0 /\ Latest(Sub) \in 1..Len(history)
    BY StateOfSub
  <2> QED
    BY <1>2, <1>6, <2>1 DEF State, Continued
<1>8. StripeTruth'
  <2>1. \A m \in 1..Len(history') :
           history'[m].of \in Invoices => history'[m].is \in {"failed", "paid"}
    <3> SUFFICES ASSUME NEW m \in 1..Len(history')
                 PROVE  history'[m].of \in Invoices => history'[m].is \in {"failed", "paid"}
      OBVIOUS
    <3>1. CASE m = n
      BY <1>2, <3>1
    <3>2. CASE m # n
      <4>1. m \in 1..Len(history)
        BY <1>1, <1>4, <3>2
      <4> QED
        BY <1>2, <4>1 DEF Continued, ConvInv, StripeTruth
    <3> QED
      BY <3>1, <3>2
  <2>2. history'[Payment'].is = c.is
    BY <1>2, <1>5
  <2>3. Payment' # 0
    BY <1>1, <1>5 DEF n
  <2> QED
    BY <1>6, <1>7, <2>1, <2>2, <2>3 DEF StripeTruth
<1> QED
  BY <1>1, <1>2, <1>5, <1>6, <1>8 DEF StripeNews, n

\* A payment that takes the subscription with it.
LEMMA PaymentMovesSubscription ==
    ASSUME IInv, RestTypes, ConvInv, NEW b \in ChangeRecords, NEW c \in ChangeRecords,
           history' = history \o <<b, c>>,
           b.of \in Invoices, c.of = Sub,
           \/ b.is = "failed" /\ c.is = "past_due"
           \/ b.is = "paid" /\ c.is = "active"
    PROVE  StripeNews
<1> DEFINE n == Len(history) + 1
<1>1. history \in Seq(ChangeRecords) /\ Len(history) \in Nat
  BY LenProperties DEF IInv, Types
<1>2. /\ Continued /\ Len(history') = n + 1
      /\ history'[n] = b /\ history'[n + 1] = c
  <2>1. n + 1 = Len(history) + 2
    BY <1>1
  <2> QED
    BY <1>1, <2>1, TwoChanges
<1>3. b.of \notin {Sub} /\ c.of \notin Invoices /\ c.of \in {Sub}
  BY DEF Sub, Invoices
<1>4. n \in Nat /\ n # 0 /\ n > Len(history)
  BY <1>1
<1>5. \A m \in 1..Len(history') : /\ m <= n + 1 /\ (m > n => m = n + 1)
                                  /\ (m \notin 1..Len(history) => m = n \/ m = n + 1)
  BY <1>1, <1>2
<1>6. n \in 1..Len(history') /\ n + 1 \in 1..Len(history')
  BY <1>1, <1>2
<1> HIDE DEF n
<1>7. Payment' = n
  <2>1. history'[n].of \in Invoices
    BY <1>2
  <2>2. \A m \in 1..Len(history') : m > n => history'[m].of \notin Invoices
    BY <1>2, <1>3, <1>5
  <2> QED
    BY <1>2, <1>6, <2>1, <2>2, LastMoves DEF Payment
<1>8. Latest(Sub)' = n + 1
  <2>1. history'[n + 1].of \in {Sub}
    BY <1>2, <1>3
  <2>2. \A m \in 1..Len(history') : m > n + 1 => history'[m].of \notin {Sub}
    BY <1>2, <1>4
  <2> QED
    BY <1>2, <1>6, <2>1, <2>2, LastMoves DEF Latest
<1>9. State(Sub)' = c.is
  BY <1>2, <1>4, <1>8 DEF State
<1>10. StripeTruth'
  <2>1. \A m \in 1..Len(history') :
           history'[m].of \in Invoices => history'[m].is \in {"failed", "paid"}
    <3> SUFFICES ASSUME NEW m \in 1..Len(history')
                 PROVE  history'[m].of \in Invoices => history'[m].is \in {"failed", "paid"}
      OBVIOUS
    <3>1. CASE m = n \/ m = n + 1
      BY <1>2, <1>3, <3>1
    <3>2. CASE m \in 1..Len(history)
      BY <1>2, <3>2 DEF Continued, ConvInv, StripeTruth
    <3> QED
      BY <1>5, <3>1, <3>2
  <2>2. history'[Payment'].is = b.is
    BY <1>2, <1>7
  <2>3. Payment' # 0 /\ Latest(Sub)' # 0
    BY <1>4, <1>7, <1>8
  <2> QED
    BY <1>9, <2>1, <2>2, <2>3 DEF StripeTruth
<1> QED
  BY <1>2, <1>4, <1>8, <1>10 DEF StripeNews

\* Whatever happens at Stripe keeps all of it.
LEMMA StripeConverges ==
    ASSUME IInv, RestTypes, ConvInv, Stripe
    PROVE  ConvInv'
<1>1. ASSUME NEW o \in Objects,
             NEW state \in {"incomplete", "active", "past_due", "canceled",
                            "failed", "paid"}
      PROVE  /\ Change(o, state) \in ChangeRecords
             /\ Change(o, state).of = o /\ Change(o, state).is = state
  BY <1>1 DEF Change, ChangeRecords, IInv, Types
<1>2. Sub \in Objects /\ Invoices \subseteq Objects
  BY DEF Objects
<1>3. ASSUME NEW changes, Happens(changes)
      PROVE  /\ history' = history \o changes
             /\ UNCHANGED <<receipts, missed, applied, cursor, standing, paymentCursor>>
  BY <1>3 DEF Happens, rowVars
<1>4. CASE Subscribe
  <2>1. PICK state \in {"incomplete", "active"} : Happens(<<Change(Sub, state)>>)
    BY <1>4 DEF Subscribe
  <2>2. Latest(Sub) = 0
    BY <1>4, StateOfSub DEF Subscribe, SubStates
  <2>3. StripeNews
    <3> PICK c \in ChangeRecords : c = Change(Sub, state) /\ c.of = Sub /\ c.is = state
      BY <1>1, <1>2
    <3>1. history' = history \o <<c>>
      BY <1>3, <2>1
    <3> QED
      BY <2>2, <3>1, SubscriptionNews
  <2> QED
    BY <1>3, <2>1, <2>3, NewsConverges
<1>5. CASE CancelSubscription
  <2>1. Happens(<<Change(Sub, "canceled")>>)
    BY <1>5 DEF CancelSubscription
  <2>2. StripeNews
    <3> PICK c \in ChangeRecords : c = Change(Sub, "canceled") /\ c.of = Sub /\ c.is = "canceled"
      BY <1>1, <1>2
    <3>1. history' = history \o <<c>>
      BY <1>3, <2>1
    <3> QED
      BY <3>1, SubscriptionNews
  <2> QED
    BY <1>3, <2>1, <2>2, NewsConverges
<1>6. ASSUME NEW i \in Invoices, PaymentFails(i)
      PROVE  ConvInv'
  <2>1. CASE State(Sub) = "active"
    <3>1. Happens(<<Change(i, "failed"), Change(Sub, "past_due")>>)
      BY <1>6, <2>1 DEF PaymentFails
    <3>2. StripeNews
      <4> PICK b \in ChangeRecords : b = Change(i, "failed") /\ b.of = i /\ b.is = "failed"
        BY <1>1, <1>2
      <4> PICK c \in ChangeRecords : c = Change(Sub, "past_due") /\ c.of = Sub /\ c.is = "past_due"
        BY <1>1, <1>2
      <4>1. history' = history \o <<b, c>>
        BY <1>3, <3>1
      <4> QED
        BY <4>1, PaymentMovesSubscription
    <3> QED
      BY <1>3, <3>1, <3>2, NewsConverges
  <2>2. CASE State(Sub) # "active"
    <3>1. Happens(<<Change(i, "failed")>>) /\ State(Sub) \in {"incomplete", "active", "past_due"}
      BY <1>6, <2>2 DEF PaymentFails
    <3>2. StripeNews
      <4> PICK c \in ChangeRecords : c = Change(i, "failed") /\ c.of = i /\ c.is = "failed"
        BY <1>1, <1>2
      <4>1. history' = history \o <<c>>
        BY <1>3, <3>1
      <4> QED
        BY <2>2, <3>1, <4>1, PaymentNews
    <3> QED
      BY <1>3, <3>1, <3>2, NewsConverges
  <2> QED
    BY <2>1, <2>2
<1>7. ASSUME NEW i \in Invoices, PaymentSucceeds(i)
      PROVE  ConvInv'
  <2>1. CASE Happens(<<Change(i, "paid"), Change(Sub, "active")>>)
    <3>1. StripeNews
      <4> PICK b \in ChangeRecords : b = Change(i, "paid") /\ b.of = i /\ b.is = "paid"
        BY <1>1, <1>2
      <4> PICK c \in ChangeRecords : c = Change(Sub, "active") /\ c.of = Sub /\ c.is = "active"
        BY <1>1, <1>2
      <4>1. history' = history \o <<b, c>>
        BY <1>3, <2>1
      <4> QED
        BY <4>1, PaymentMovesSubscription
    <3> QED
      BY <1>3, <2>1, <3>1, NewsConverges
  <2>2. CASE Happens(<<Change(i, "paid")>>)
    <3>1. State(Sub) \in {"incomplete", "active", "past_due"}
      BY <1>7 DEF PaymentSucceeds
    <3>2. StripeNews
      <4> PICK c \in ChangeRecords : c = Change(i, "paid") /\ c.of = i /\ c.is = "paid"
        BY <1>1, <1>2
      <4>1. history' = history \o <<c>>
        BY <1>3, <2>2
      <4> QED
        BY <3>1, <4>1, PaymentNews
    <3> QED
      BY <1>3, <2>2, <3>2, NewsConverges
  <2>3. \/ Happens(<<Change(i, "paid"), Change(Sub, "active")>>)
        \/ Happens(<<Change(i, "paid")>>)
    BY <1>7 DEF PaymentSucceeds
  <2> QED
    BY <2>1, <2>2, <2>3
<1> QED
  BY <1>4, <1>5, <1>6, <1>7 DEF Stripe

-----------------------------------------------------------------------------
(* Every step.                                                             *)

\* Nothing of this speaks of the clock, the job or its worker.
LEMMA OthersConverge ==
    ASSUME ConvInv,
           UNCHANGED <<history, receipts, missed, applied, cursor, standing, paymentCursor>>
    PROVE  ConvInv'
<1>1. /\ Tied' <=> Tied
      /\ Latest(Sub)' = Latest(Sub) /\ State(Sub)' = State(Sub) /\ Payment' = Payment
      /\ StripeTruth' <=> StripeTruth
  BY SameHistory
<1>2. RowsFollow'
  BY <1>1 DEF ConvInv, RowsFollow
<1>3. PaymentsFollow'
  BY DEF ConvInv, PaymentsFollow
<1>4. (StatusOfRow => StatusOfRow') /\ (StatusOfPayment => StatusOfPayment')
  BY <1>1 DEF StatusOfRow, StatusOfPayment
<1>5. StatusFollows'
  BY <1>1, <1>4, Zenon DEF ConvInv, StatusFollows
<1> QED
  BY <1>1, <1>2, <1>3, <1>5 DEF ConvInv

\* Before anything happened there is nothing to follow.
LEMMA InitConverges == Init => ConvInv
<1> SUFFICES ASSUME Init PROVE ConvInv
  OBVIOUS
<1>1. history = <<>> /\ history \in Seq(ChangeRecords) /\ Len(history) = 0 /\ receipts = {}
  BY DEF Init
<1>2. Latest(Sub) = 0 /\ Payment = 0
  BY <1>1, LastChange DEF Latest, Payment
<1>3. State(Sub) = "none"
  BY <1>2 DEF State
<1>4. StripeTruth
  BY <1>1, <1>2, <1>3 DEF StripeTruth
<1>5. RowsFollow /\ PaymentsFollow
  BY <1>1 DEF RowsFollow, PaymentsFollow, Init
<1>6. StatusFollows
  BY <1>3 DEF StatusFollows, StatusOfRow, StatusOfPayment
<1> QED
  BY <1>4, <1>5, <1>6 DEF ConvInv

\* Every step keeps all of it.
LEMMA StepConverges ==
    ASSUME IInv, RestTypes, ConvInv, [Next]_vars
    PROVE  ConvInv'
<1>1. CASE Stripe
  BY <1>1, StripeConverges
<1>2. CASE Webhook
  <2>1. CASE CheckoutWebhook
    <3>1. UNCHANGED <<history, receipts, missed, applied, cursor, standing, paymentCursor>>
      BY <2>1 DEF CheckoutWebhook, stripeVars
    <3> QED
      BY <3>1, OthersConverge
  <2>2. ASSUME NEW n \in DOMAIN history \ receipts,
               SubscriptionWebhook(n) \/ InvoiceWebhook(n) \/ InvoiceWebhookUnknown(n)
        PROVE  ConvInv'
    <3>1. n \in 1..Len(history)
      BY LenProperties DEF IInv, Types
    <3> QED
      BY <2>2, <3>1, EventConverges
  <2> QED
    BY <1>2, <2>1, <2>2 DEF Webhook
<1>3. CASE ApplySnapshot
  BY <1>3, SnapshotConverges
<1>4. CASE \/ Tick \/ GrowStale \/ ScheduleReconciliation \/ BeginReconciliation
           \/ RetrieveSubscription \/ ListInvoices \/ GiveUp \/ ReplayDead
           \/ ReconciliationFails \/ WorkerDies
  <2>1. UNCHANGED <<history, receipts, missed, applied, cursor, standing, paymentCursor>>
    BY <1>4 DEF Tick, GrowStale, ScheduleReconciliation, BeginReconciliation,
       RetrieveSubscription, ListInvoices, GiveUp, ReplayDead, ReconciliationFails,
       WorkerDies, stripeVars, rowVars
  <2> QED
    BY <2>1, OthersConverge
<1>5. CASE UNCHANGED vars
  <2>1. UNCHANGED <<history, receipts, missed, applied, cursor, standing, paymentCursor>>
    BY <1>5 DEF vars, stripeVars, rowVars
  <2> QED
    BY <2>1, OthersConverge
<1> QED
  BY <1>1, <1>2, <1>3, <1>4, <1>5 DEF Next, Reconciliation

\* Once everything was handled the rows are Stripe's present ones.
LEMMA RowsConverge ==
    ASSUME IInv, RestTypes, ConvInv, AllHandled, ~Tied
    PROVE  \A o \in Objects : applied[o] = Latest(o)
<1> SUFFICES ASSUME NEW o \in Objects PROVE applied[o] = Latest(o)
  OBVIOUS
<1>1. /\ Latest(o) \in Nat /\ OfObject(Latest(o), o)
      /\ \A n \in 1..Len(history) : history[n].of = o => n <= Latest(o)
  BY LatestIsLast DEF IInv, Types
<1>2. applied[o] \in Nat /\ OfObject(applied[o], o)
  BY DEF IInv, Types, ContentsHappened
<1>3. applied[o] <= Latest(o)
  BY <1>1, <1>2 DEF OfObject
<1>4. Latest(o) <= applied[o]
  <2>1. CASE Latest(o) = 0
    BY <1>2, <2>1
  <2>2. CASE Latest(o) # 0
    <3>1. Latest(o) \in 1..Len(history) /\ history[Latest(o)].of = o
      BY <1>1, <2>2 DEF OfObject
    <3>2. Latest(o) \in receipts /\ ~missed
      BY <3>1, LenProperties DEF AllHandled, IInv, Types
    <3> QED
      BY <3>1, <3>2 DEF ConvInv, RowsFollow
  <2> QED
    BY <2>1, <2>2
<1> QED
  BY <1>1, <1>2, <1>3, <1>4

\* So is the status, unless the provider's last word was about a payment only.
LEMMA StatusConverges ==
    ASSUME IInv, RestTypes, ConvInv, AllHandled, ~Tied,
           ~(State(Sub) = "past_due" /\ LastPayment = "paid")
    PROVE  StandingAgrees
<1>1. StatusOfRow /\ StatusOfPayment
  <2>1. applied[Sub] = Latest(Sub)
    BY RowsConverge DEF Objects
  <2> QED
    BY <2>1 DEF ConvInv, StatusFollows, AllHandled
<1>2. State(Sub) \in {"none"} \cup SubStates
  BY StateOfSub
<1>3. Payment = 0 \/ Payment \in receipts
  <2>1. Payment # 0 => Payment \in 1..Len(history)
    BY LastChange DEF Payment, IInv, Types
  <2> QED
    BY <2>1, LenProperties DEF AllHandled, IInv, Types
<1>4. CASE State(Sub) \in {"none", "incomplete"}
  BY <1>4 DEF StandingAgrees
<1>5. CASE State(Sub) = "canceled"
  BY <1>1, <1>5 DEF StatusOfRow, StandingAgrees
<1>6. CASE State(Sub) = "active"
  BY <1>1, <1>3, <1>6 DEF StatusOfPayment, StandingAgrees
<1>7. CASE State(Sub) = "past_due"
  <2>1. Payment # 0
    BY <1>7 DEF ConvInv, StripeTruth
  <2>2. Payment \in 1..Len(history) /\ history[Payment].of \in Invoices
    BY <2>1, LastChange DEF Payment, IInv, Types
  <2>3. LastPayment = history[Payment].is
    <3>1. ChangesOf(Invoices) # {}
      BY <2>2, LenProperties DEF ChangesOf, IInv, Types
    <3> QED
      BY <3>1 DEF LastPayment, Payment
  <2>4. history[Payment].is = "failed"
    BY <1>7, <2>2, <2>3 DEF ConvInv, StripeTruth
  <2> QED
    BY <1>1, <1>3, <1>7, <2>4 DEF StatusOfPayment, StandingAgrees
<1> QED
  BY <1>2, <1>4, <1>5, <1>6, <1>7 DEF SubStates

-----------------------------------------------------------------------------
(* Theorems.                                                               *)

\* The strengthening behind both theorems.
THEOREM Inductive == Spec => []IInv
<1>1. IInv /\ [Next]_vars => IInv'
  BY StepInductive
<1> QED
  BY <1>1, InitInductive, PTL DEF Spec

\* Clock, history, rows, job and snapshot have their types.
THEOREM TypeCorrect == Spec => []TypeOK
<1>1. IInv /\ RestTypes => TypeOK
  <2> SUFFICES ASSUME IInv, RestTypes PROVE TypeOK
    OBVIOUS
  <2>1. DOMAIN history = 1..Len(history)
    BY LenProperties DEF IInv, Types
  <2>2. {missed, linked, fresh, keyed} \subseteq BOOLEAN
    BY Zenon DEF RestTypes
  <2> QED
    BY <2>1, <2>2 DEF IInv, Types, RestTypes, TypeOK
<1> QED
  BY <1>1, Inductive, TypesInductive, PTL DEF Spec

\* applyStripeSubscription, upsertStripeInvoice and applyReconciliationSnapshot
\* never move a cursor past a change the row does not have, so what the cursor
\* makes a webhook refuse was never news.
THEOREM NothingIsSkipped == Spec => []NothingSkipped
<1>1. IInv => NothingSkipped
  BY DEF IInv
<1> QED
  BY <1>1, Inductive, PTL

\* applyReconciliationSnapshot never replaces a row by an older state of it,
\* whatever was delivered between the retrieval and the transaction.
THEOREM SnapshotsNeverGoBack == Spec => SnapshotsMoveForward
<1>1. IInv /\ [Next]_vars =>
        [pc = "apply" /\ pc' = "idle" =>
            \A o \in Objects : applied'[o] >= applied[o]]_vars
  BY StepInductive
<1> QED
  BY <1>1, Inductive, PTL DEF Spec, SnapshotsMoveForward

\* However deliveries and snapshots interleave, once every event was handled
\* rows and status are Stripe's, unless two changes tie.
THEOREM StatesConverge == Spec => []StateConverges
<1>1. ASSUME IInv, RestTypes, ConvInv
      PROVE  StateConverges
  <2>1. WebhooksConverge
    BY <1>1, RowsConverge DEF WebhooksConverge
  <2>2. StandingConverges
    BY <1>1, StatusConverges DEF StandingConverges
  <2> QED
    BY <2>1, <2>2 DEF StateConverges
<1>2. IInv /\ RestTypes /\ ConvInv /\ [Next]_vars => ConvInv'
  BY StepConverges
<1> QED
  BY <1>1, <1>2, InitConverges, Inductive, TypesInductive, PTL DEF Spec
=============================================================================
