----------------------- MODULE MessageRuntime_proofs -----------------------
(***************************************************************************)
(* Theorems about OrderedMessageQueue and about MessageRuntime, which      *)
(* extends it.                                                             *)
(*                                                                         *)
(* Those about the queue come first and use nothing of the runtime.  They  *)
(* hold for every set of keys and items and every concurrency limit.  The  *)
(* invariants are proved together: the wakeup argument needs to know that  *)
(* a lane is active exactly while its worker runs, and the order argument  *)
(* that lanes are sorted.                                                  *)
(*                                                                         *)
(* Those about the runtime hold for any messages, channels, retry limit,   *)
(* number of overlapping drains, failures and switches.  Four arguments,   *)
(* each over the actions of the runtime:                                   *)
(*   - a pending row and its job stay together, as each step changes rows  *)
(*     and jobs by one store operation or a crash in the middle of one     *)
(*     (StepsAreStoreEffects, EffectsKeepJobs);                            *)
(*   - memory keeps its shape: lanes, queue, drains and recovery agree on  *)
(*     what is in hand (RuntimeInv);                                       *)
(*   - answers have causes: what is answered, owed to the run in hand and  *)
(*     promised by reruns and retries is a balance that only faults,       *)
(*     switches and crashes raise (Charge, ChargesCovered);                *)
(*   - until the process first dies, each message is accounted for (Sound, *)
(*     LiveInv), which is FirstLife when crashes follow.                   *)
(***************************************************************************)
EXTENDS MessageRuntime, FiniteSetTheorems, TLAPS

-----------------------------------------------------------------------------
(***************************************************************************)
(* The queue.                                                              *)
(***************************************************************************)

\* Lemmas about the operators on lanes.

\* Inserting an item yields a lane of items, one longer.
LEMMA InsertAfterType ==
    ASSUME NEW lane \in Seq(Items), NEW n \in 0..Len(lane), NEW item \in Items
    PROVE  /\ InsertAfter(lane, n, item) \in Seq(Items)
           /\ Len(InsertAfter(lane, n, item)) = Len(lane) + 1
BY DEF InsertAfter

\* Inserting at a sorted position keeps a sorted lane sorted.
LEMMA InsertAfterSorted ==
    ASSUME NEW lane \in Seq(Items), NEW item \in Items,
           NEW n \in SortedPositions(lane, item),
           \A i, j \in 1..Len(lane) : i < j => ~Before(lane[j], lane[i])
    PROVE  LET longer == InsertAfter(lane, n, item)
           IN  \A i, j \in 1..Len(longer) : i < j => ~Before(longer[j], longer[i])
<1> DEFINE longer == InsertAfter(lane, n, item)
<1>1. n \in 0..Len(lane) /\ Len(longer) = Len(lane) + 1
  BY InsertAfterType DEF SortedPositions
<1>2. \A i \in 1..Len(lane) : lane[i].messageId \in Nat
  BY ItemsAssumption
<1>3. item.messageId \in Nat
  BY ItemsAssumption
<1>4. \A i \in 1..Len(lane) : i <= n <=> ~Before(item, lane[i])
  BY DEF SortedPositions
<1>5. ASSUME NEW i \in 1..Len(longer), NEW j \in 1..Len(longer), i < j
      PROVE  ~Before(longer[j], longer[i])
  <2>1. CASE j <= n
    BY <2>1, <1>1, <1>5 DEF InsertAfter
  <2>2. CASE j = n + 1
    BY <2>2, <1>1, <1>4, <1>5 DEF InsertAfter
  <2>3. CASE j > n + 1 /\ i = n + 1
    BY <2>3, <1>1, <1>2, <1>3, <1>4, <1>5 DEF InsertAfter, Before
  <2>4. CASE j > n + 1 /\ i # n + 1
    BY <2>4, <1>1, <1>5 DEF InsertAfter
  <2>5. QED
    BY <2>1, <2>2, <2>3, <2>4, <1>1, <1>5
<1>6. QED
  BY <1>5

\* A non-empty sorted lane gives its head and keeps a sorted tail whose items
\* are not older than the head.
LEMMA TakeHead ==
    ASSUME NEW lane \in Seq(Items), lane # <<>>,
           \A i, j \in 1..Len(lane) : i < j => ~Before(lane[j], lane[i])
    PROVE  /\ Head(lane) \in Items
           /\ Tail(lane) \in Seq(Items)
           /\ \A i, j \in 1..Len(Tail(lane)) :
                 i < j => ~Before(Tail(lane)[j], Tail(lane)[i])
           /\ \A i \in 1..Len(Tail(lane)) : ~Before(Tail(lane)[i], Head(lane))
<1>1. Len(lane) > 0
  OBVIOUS
<1>2. Head(lane) = lane[1] /\ Len(Tail(lane)) = Len(lane) - 1
  BY <1>1
<1>3. \A i \in 1..Len(Tail(lane)) : Tail(lane)[i] = lane[i + 1]
  BY <1>1, <1>2
<1>4. QED
  BY <1>1, <1>2, <1>3

\* Releasing an id keeps the counts natural numbers.
LEMMA ReleaseSeenType ==
    ASSUME seen \in [MessageIds -> Nat], NEW id, ReleaseSeen(id)
    PROVE  seen' \in [MessageIds -> Nat]
<1>1. \A n \in Nat : (IF n <= 1 THEN 0 ELSE n - 1) \in Nat
  OBVIOUS
<1>2. QED
  BY <1>1 DEF ReleaseSeen

-----------------------------------------------------------------------------
\* One lemma per action.

\* The empty queue satisfies the invariant.
LEMMA InitQueueInv == QueueInit => QueueInv
<1> SUFFICES ASSUME QueueInit PROVE QueueInv
  OBVIOUS
<1>1. QueueTypeOK
  <2>1. seen \in [MessageIds -> Nat] /\ running \in [Keys -> Items \cup {None}]
    BY DEF QueueInit
  <2>2. lanes \in [Keys -> Seq(Items)]
    <3>1. <<>> \in Seq(Items)
      OBVIOUS
    <3>2. QED
      BY <3>1 DEF QueueInit
  <2>3. QED
    BY <2>1, <2>2 DEF QueueInit, QueueTypeOK
<1>2. ActiveIffRunning /\ NoLostWakeup /\ LanesSorted
  BY DEF QueueInit, ActiveIffRunning, NoLostWakeup, LanesSorted
<1>3. ConcurrencyBound
  BY FS_EmptySet, ConcurrencyAssumption DEF QueueInit, ConcurrencyBound
<1>4. QED
  BY <1>1, <1>2, <1>3 DEF QueueInv

\* A new item joins the end of its lane, and a drain is due if it may start.
LEMMA EnqueueKeepsInv ==
    ASSUME QueueInv, NEW item \in Items, Enqueue(item)
    PROVE  QueueInv'
<1> DEFINE key == item.orderingKey
<1> USE DEF QueueInv
<1>1. key \in Keys /\ item.messageId \in MessageIds
  BY ItemsAssumption DEF MessageIds
<1>2. lanes[key] \in Seq(Items)
  BY <1>1 DEF QueueTypeOK
<1>3. PICK n \in SortedPositions(lanes[key], item) :
         lanes' = [lanes EXCEPT ![key] = InsertAfter(@, n, item)]
  BY DEF Enqueue
<1>4. n \in 0..Len(lanes[key])
  BY DEF SortedPositions
<1>5. InsertAfter(lanes[key], n, item) \in Seq(Items)
  BY <1>2, <1>4, InsertAfterType
<1>6. QueueTypeOK'
  BY <1>1, <1>3, <1>5 DEF QueueTypeOK, Enqueue
<1>7. ActiveIffRunning' /\ ConcurrencyBound'
  BY DEF Enqueue, ActiveIffRunning, ConcurrencyBound
<1>8. NoLostWakeup'
  BY DEF Enqueue, NoLostWakeup
<1>9. LanesSorted'
  <2> SUFFICES ASSUME NEW k \in Keys
               PROVE  \A i, j \in 1..Len(lanes'[k]) :
                         i < j => ~Before(lanes'[k][j], lanes'[k][i])
    BY DEF LanesSorted, Before
  <2>1. CASE k = key
    <3>1. lanes'[k] = InsertAfter(lanes[key], n, item)
      BY <1>1, <1>3, <2>1 DEF QueueTypeOK
    <3>2. \A i, j \in 1..Len(lanes[key]) :
             i < j => ~Before(lanes[key][j], lanes[key][i])
      BY <1>1 DEF LanesSorted
    <3>3. QED
      BY <1>2, <3>1, <3>2, InsertAfterSorted
  <2>2. CASE k # key
    BY <1>3, <2>2 DEF LanesSorted, QueueTypeOK
  <2>3. QED
    BY <2>1, <2>2
<1>10. QED
  BY <1>6, <1>7, <1>8, <1>9

\* A drain fills the free slots with lanes that wait.
LEMMA DrainKeepsInv ==
    ASSUME QueueInv, Drain
    PROVE  QueueInv'
<1> USE DEF QueueInv
<1>1. PICK S \in Selections :
         /\ activeKeys' = activeKeys \cup S
         /\ running' = [key \in Keys |->
               IF key \in S THEN Head(lanes[key]) ELSE running[key]]
         /\ lanes' = [key \in Keys |->
               IF key \in S THEN Tail(lanes[key]) ELSE lanes[key]]
  BY DEF Drain
<1>2. /\ S \subseteq Keys
      /\ S \cap activeKeys = {}
      /\ \A key \in S : lanes[key] # <<>>
  BY DEF Selections, Waiting
<1>3. \A key \in S :
         /\ Head(lanes[key]) \in Items
         /\ Tail(lanes[key]) \in Seq(Items)
         /\ \A i, j \in 1..Len(Tail(lanes[key])) :
               i < j => ~Before(Tail(lanes[key])[j], Tail(lanes[key])[i])
  BY <1>2, TakeHead DEF QueueTypeOK, LanesSorted
<1>4. QueueTypeOK'
  BY <1>1, <1>2, <1>3 DEF QueueTypeOK, Drain
<1>5. ActiveIffRunning'
  BY <1>1, <1>2, <1>3, NoneAssumption DEF ActiveIffRunning
<1>6. Cardinality(activeKeys') = Cardinality(activeKeys) + Cardinality(S)
  <2>1. IsFiniteSet(S) /\ IsFiniteSet(activeKeys)
    BY <1>2, KeysAssumption, FS_Subset DEF QueueTypeOK
  <2>2. Cardinality(activeKeys \cap S) = 0
    BY <1>2, FS_EmptySet
  <2>3. Cardinality(activeKeys) \in Nat /\ Cardinality(S) \in Nat
    BY <2>1, FS_CardinalityType
  <2>4. Cardinality(activeKeys \cup S)
           = Cardinality(activeKeys) + Cardinality(S) - Cardinality(activeKeys \cap S)
    BY <2>1, FS_Union
  <2>5. QED
    BY <1>1, <2>2, <2>3, <2>4
<1>7. Cardinality(activeKeys) \in Nat /\ Cardinality(S) \in Nat
  BY <1>2, KeysAssumption, FS_Subset, FS_CardinalityType DEF QueueTypeOK
<1>8. ConcurrencyBound'
  BY <1>6, <1>7, ConcurrencyAssumption DEF ConcurrencyBound, Selections, FreeSlots
<1>9. NoLostWakeup'
  <2>1. CASE S = Waiting
    BY <1>1, <2>1 DEF NoLostWakeup, Waiting
  <2>2. CASE Cardinality(S) = FreeSlots
    BY <1>6, <1>7, <2>2, ConcurrencyAssumption DEF NoLostWakeup, FreeSlots
  <2>3. QED
    BY <2>1, <2>2 DEF Selections
<1>10. LanesSorted'
  BY <1>1, <1>3 DEF LanesSorted, Before
<1>11. QED
  BY <1>4, <1>5, <1>8, <1>9, <1>10

\* A lane that has more goes on with its next item.
LEMMA ContinueKeepsInv ==
    ASSUME QueueInv, NEW key \in Keys, SettleAndContinue(key)
    PROVE  QueueInv'
<1> USE DEF QueueInv
<1>1. /\ Head(lanes[key]) \in Items
      /\ Tail(lanes[key]) \in Seq(Items)
      /\ \A i, j \in 1..Len(Tail(lanes[key])) :
            i < j => ~Before(Tail(lanes[key])[j], Tail(lanes[key])[i])
  BY TakeHead DEF SettleAndContinue, QueueTypeOK, LanesSorted
<1>2. QueueTypeOK'
  <2>1. seen' \in [MessageIds -> Nat]
    BY ReleaseSeenType DEF SettleAndContinue, QueueTypeOK
  <2>2. QED
    BY <1>1, <2>1 DEF SettleAndContinue, QueueTypeOK
<1>3. ActiveIffRunning'
  BY <1>1, NoneAssumption DEF SettleAndContinue, ActiveIffRunning, QueueTypeOK
<1>4. ConcurrencyBound'
  BY DEF SettleAndContinue, ConcurrencyBound
<1>5. NoLostWakeup'
  BY DEF SettleAndContinue, NoLostWakeup, ActiveIffRunning, QueueTypeOK
<1>6. LanesSorted'
  BY <1>1 DEF SettleAndContinue, LanesSorted, QueueTypeOK, Before
<1>7. QED
  BY <1>2, <1>3, <1>4, <1>5, <1>6

\* A lane that is empty gives its slot back, and a drain is due.
LEMMA ExitKeepsInv ==
    ASSUME QueueInv, NEW key \in Keys, SettleAndExit(key)
    PROVE  QueueInv'
<1> USE DEF QueueInv
<1>1. QueueTypeOK'
  <2>1. seen' \in [MessageIds -> Nat]
    BY ReleaseSeenType DEF LeaveActive, SettleAndExit, QueueTypeOK
  <2>2. QED
    BY <2>1 DEF LeaveActive, SettleAndExit, QueueTypeOK
<1>2. ActiveIffRunning'
  BY DEF LeaveActive, SettleAndExit, ActiveIffRunning, QueueTypeOK
<1>3. ConcurrencyBound'
  <2>1. IsFiniteSet(activeKeys) /\ Cardinality(activeKeys) \in Nat
    BY KeysAssumption, FS_Subset, FS_CardinalityType DEF QueueTypeOK
  <2>2. Cardinality(activeKeys \ {key}) <= Cardinality(activeKeys)
    BY <2>1, FS_RemoveElement
  <2>3. Cardinality(activeKeys \ {key}) \in Nat
    BY <2>1, FS_RemoveElement, FS_CardinalityType
  <2>4. QED
    BY <2>1, <2>2, <2>3, ConcurrencyAssumption DEF LeaveActive, SettleAndExit, ConcurrencyBound
<1>4. NoLostWakeup'
  BY DEF LeaveActive, SettleAndExit, NoLostWakeup, OtherLaneQueued
<1>5. LanesSorted'
  BY DEF LeaveActive, SettleAndExit, LanesSorted
<1>6. QED
  BY <1>1, <1>2, <1>3, <1>4, <1>5

\* Every operation of the queue keeps the invariant.
LEMMA QueueNextKeepsInv == QueueInv /\ [QueueNext]_queueVars => QueueInv'
<1> SUFFICES ASSUME QueueInv, [QueueNext]_queueVars PROVE QueueInv'
  OBVIOUS
<1>1. ASSUME NEW item \in Items, Enqueue(item)
      PROVE  QueueInv'
  BY <1>1, EnqueueKeepsInv
<1>2. CASE Drain
  BY <1>2, DrainKeepsInv
<1>3. ASSUME NEW key \in Keys, WorkerSettles(key)
      PROVE  QueueInv'
  BY <1>3, ContinueKeepsInv, ExitKeepsInv DEF WorkerSettles
<1>4. CASE UNCHANGED queueVars
  BY <1>4 DEF queueVars, QueueInv, QueueTypeOK, ActiveIffRunning,
              ConcurrencyBound, NoLostWakeup, LanesSorted, Before
<1>5. QED
  BY <1>1, <1>2, <1>3, <1>4 DEF QueueNext

-----------------------------------------------------------------------------
\* The inductive invariant holds in every reachable state.
THEOREM QueueInvariant == QueueSpec => []QueueInv
<1>1. QED
  BY InitQueueInv, QueueNextKeepsInv, PTL DEF QueueSpec

\* Type correctness, for any keys, items and concurrency limit.
THEOREM QueueTypeCorrect == QueueSpec => []QueueTypeOK
<1>1. QueueInv => QueueTypeOK
  BY DEF QueueInv
<1>2. QED
  BY <1>1, QueueInvariant, PTL

\* scheduleDrain is called often enough: queued work always has a pending
\* drain, a running loop, or every slot taken ahead of it.
THEOREM NoWakeupIsLost == QueueSpec => []NoLostWakeup
<1>1. QueueInv => NoLostWakeup
  BY DEF QueueInv
<1>2. QED
  BY <1>1, QueueInvariant, PTL

\* drain never starts more lanes than the constructor allows.
THEOREM ConcurrencyIsBounded == QueueSpec => []ConcurrencyBound
<1>1. QueueInv => ConcurrencyBound
  BY DEF QueueInv
<1>2. QED
  BY <1>1, QueueInvariant, PTL

\* A lane loop takes the oldest item its lane holds, although retries and
\* reruns of old messages arrive behind newer ones.
THEOREM LanesStartInOrder == QueueSpec => StartsInOrder
<1> DEFINE InOrder ==
       \A key \in Keys :
          running'[key] # running[key] /\ running'[key] # None =>
            \A i \in 1..Len(lanes'[key]) : ~Before(lanes'[key][i], running'[key])
<1>1. QueueInv /\ [QueueNext]_queueVars => [InOrder]_queueVars
  <2> SUFFICES ASSUME QueueInv, QueueNext, NEW key \in Keys,
                      running'[key] # running[key], running'[key] # None
               PROVE  \A i \in 1..Len(lanes'[key]) :
                         ~Before(lanes'[key][i], running'[key])
    OBVIOUS
  <2> USE DEF QueueInv
  <2>1. lanes[key] # <<>> => \A i \in 1..Len(Tail(lanes[key])) :
           ~Before(Tail(lanes[key])[i], Head(lanes[key]))
    BY TakeHead DEF QueueTypeOK, LanesSorted
  <2>2. lanes[key] # <<>> /\ running'[key] = Head(lanes[key])
           /\ lanes'[key] = Tail(lanes[key])
    <3>1. ASSUME NEW item \in Items, Enqueue(item)
          PROVE  FALSE
      BY <3>1 DEF Enqueue
    <3>2. CASE Drain
      BY <3>2 DEF Drain, Selections, Waiting
    <3>3. ASSUME NEW other \in Keys, SettleAndContinue(other)
          PROVE  lanes[key] # <<>> /\ running'[key] = Head(lanes[key])
                    /\ lanes'[key] = Tail(lanes[key])
      BY <3>3 DEF SettleAndContinue, QueueTypeOK
    <3>4. ASSUME NEW other \in Keys, SettleAndExit(other)
          PROVE  FALSE
      BY <3>4 DEF SettleAndExit, QueueTypeOK
    <3>5. QED
      BY <3>1, <3>2, <3>3, <3>4 DEF QueueNext, WorkerSettles
  <2>3. QED
    BY <2>1, <2>2
<1>2. QED
  BY <1>1, QueueInvariant, PTL DEF QueueSpec, StartsInOrder

-----------------------------------------------------------------------------
\* Counting.

\* Sets with a one-to-one map between them have as many elements.
LEMMA SameSize ==
    ASSUME NEW S, NEW T, IsFiniteSet(S), NEW f \in [S -> T],
           \A x, y \in S : f[x] = f[y] => x = y,
           \A t \in T : \E x \in S : f[x] = t
    PROVE  IsFiniteSet(T) /\ Cardinality(T) = Cardinality(S)
<1>1. f \in Bijection(S, T)
  BY DEF Bijection, Injection, Surjection, IsInjective
<1>2. QED
  BY <1>1, FS_Bijection DEF ExistsBijection

\* Where a lane holds items of a set.
Positions(lane, T) == {i \in 1..Len(lane) : lane[i] \in T}

Count(lane, T) == Cardinality(Positions(lane, T))

\* The items of an id in a lane are finitely many.
LEMMA CountType ==
    ASSUME NEW lane \in Seq(Items), NEW T
    PROVE  IsFiniteSet(Positions(lane, T)) /\ Count(lane, T) \in Nat
<1>1. Positions(lane, T) \subseteq 1..Len(lane)
  BY DEF Positions
<1>2. IsFiniteSet(1..Len(lane))
  BY FS_Interval
<1>3. QED
  BY <1>1, <1>2, FS_Subset, FS_CardinalityType DEF Count

\* An inserted item counts once.
LEMMA CountAfterInsert ==
    ASSUME NEW lane \in Seq(Items), NEW n \in 0..Len(lane), NEW item \in Items, NEW T
    PROVE  Count(InsertAfter(lane, n, item), T) = Count(lane, T) + (IF item \in T THEN 1 ELSE 0)
<1> DEFINE longer == InsertAfter(lane, n, item)
           old == Positions(lane, T)
           moved == {i \in 1..Len(longer) : i # n + 1 /\ longer[i] \in T}
           f == [i \in old |-> IF i <= n THEN i ELSE i + 1]
<1>1. /\ Len(longer) = Len(lane) + 1 /\ n + 1 \in 1..Len(longer) /\ longer[n + 1] = item
      /\ \A i \in 1..Len(lane) : longer[IF i <= n THEN i ELSE i + 1] = lane[i]
      /\ \A i \in 1..Len(longer) : i <= n => i \in 1..Len(lane) /\ longer[i] = lane[i]
      /\ \A i \in 1..Len(longer) : i > n + 1 => i - 1 \in 1..Len(lane) /\ longer[i] = lane[i - 1]
  BY InsertAfterType DEF InsertAfter
<1> HIDE DEF longer
<1>2. f \in [old -> moved]
  BY <1>1 DEF Positions
<1>3. \A i, j \in old : f[i] = f[j] => i = j
  BY DEF Positions
<1>4. \A j \in moved : \E i \in old : f[i] = j
  <2> SUFFICES ASSUME NEW j \in moved
               PROVE  \E i \in old : f[i] = j
    OBVIOUS
  <2>1. CASE j <= n
    BY <1>1, <2>1 DEF Positions
  <2>2. CASE j > n + 1
    BY <1>1, <2>2 DEF Positions
  <2>3. QED
    BY <1>1, <2>1, <2>2
<1>5. IsFiniteSet(old)
  BY CountType
<1> HIDE DEF f
<1>6. IsFiniteSet(moved) /\ Cardinality(moved) = Cardinality(old)
  BY <1>2, <1>3, <1>4, <1>5, SameSize
<1>7. CASE item \in T
  <2>1. Positions(longer, T) = moved \cup {n + 1} /\ n + 1 \notin moved
    BY <1>1, <1>7 DEF Positions
  <2>2. QED
    BY <1>6, <1>7, <2>1, FS_AddElement DEF Count, longer
<1>8. CASE item \notin T
  <2>1. Positions(longer, T) = moved
    BY <1>1, <1>8 DEF Positions
  <2>2. Count(lane, T) \in Nat
    BY CountType
  <2>3. QED
    BY <1>6, <1>8, <2>1, <2>2 DEF Count, longer
<1>9. QED
  BY <1>7, <1>8

\* A head that leaves its lane counts no more.
LEMMA CountAfterTail ==
    ASSUME NEW lane \in Seq(Items), lane # <<>>, NEW T
    PROVE  Count(lane, T) = Count(Tail(lane), T) + (IF Head(lane) \in T THEN 1 ELSE 0)
<1> DEFINE rest == Tail(lane)
           old == Positions(rest, T)
           moved == {i \in 1..Len(lane) : i # 1 /\ lane[i] \in T}
           f == [i \in old |-> i + 1]
<1>1. /\ rest \in Seq(Items) /\ Len(lane) = Len(rest) + 1 /\ Len(rest) \in Nat
      /\ Head(lane) = lane[1]
      /\ \A i \in 1..Len(rest) : rest[i] = lane[i + 1]
  OBVIOUS
<1> HIDE DEF rest
<1>2. f \in [old -> moved]
  BY <1>1 DEF Positions
<1>3. \A i, j \in old : f[i] = f[j] => i = j
  BY <1>1 DEF Positions
<1>4. \A j \in moved : \E i \in old : f[i] = j
  <2> SUFFICES ASSUME NEW j \in moved
               PROVE  j - 1 \in old /\ f[j - 1] = j
    OBVIOUS
  <2>1. j \in 2..Len(lane) /\ lane[j] \in T
    BY <1>1
  <2>2. QED
    BY <1>1, <2>1 DEF Positions
<1>5. IsFiniteSet(old) /\ Count(rest, T) \in Nat
  BY <1>1, CountType
<1> HIDE DEF f
<1>6. IsFiniteSet(moved) /\ Cardinality(moved) = Cardinality(old)
  BY <1>2, <1>3, <1>4, <1>5, SameSize
<1>7. CASE Head(lane) \in T
  <2>1. Positions(lane, T) = moved \cup {1} /\ 1 \notin moved
    BY <1>1, <1>7 DEF Positions
  <2>2. QED
    BY <1>6, <1>7, <2>1, FS_AddElement DEF Count, rest
<1>8. CASE Head(lane) \notin T
  <2>1. Positions(lane, T) = moved
    BY <1>1, <1>8 DEF Positions
  <2>2. QED
    BY <1>5, <1>6, <1>8, <2>1 DEF Count, rest
<1>9. QED
  BY <1>7, <1>8

-----------------------------------------------------------------------------
\* The duplicate filter.

QueuedSetsAreFinite == \A id : IsFiniteSet(QueuedWith(id)) /\ IsFiniteSet(RunningWith(id))

\* Finitely many ids are queued or running.
LEMMA QueuedIsFinite == QueueTypeOK => QueuedSetsAreFinite
<1> SUFFICES ASSUME QueueTypeOK, NEW id
             PROVE  IsFiniteSet(QueuedWith(id)) /\ IsFiniteSet(RunningWith(id))
  BY DEF QueuedSetsAreFinite
<1> DEFINE ofKey(key) == {<<key, i>> : i \in {j \in 1..Len(lanes[key]) : lanes[key][j].messageId = id}}
           all == {ofKey(key) : key \in Keys}
           f == [key \in Keys |-> ofKey(key)]
           g(key) == [i \in {j \in 1..Len(lanes[key]) : lanes[key][j].messageId = id} |-> <<key, i>>]
<1>1. f \in Surjection(Keys, all)
  BY DEF Surjection
<1>2. IsFiniteSet(all)
  BY <1>1, KeysAssumption, FS_Surjection
<1>3. ASSUME NEW key \in Keys
      PROVE  IsFiniteSet(ofKey(key))
  <2> DEFINE places == {j \in 1..Len(lanes[key]) : lanes[key][j].messageId = id}
  <2>1. IsFiniteSet(1..Len(lanes[key])) /\ places \subseteq 1..Len(lanes[key])
    BY FS_Interval DEF QueueTypeOK
  <2>2. IsFiniteSet(places)
    BY <2>1, FS_Subset
  <2>3. g(key) \in Surjection(places, ofKey(key))
    BY DEF Surjection
  <2>4. QED
    BY <2>2, <2>3, FS_Surjection
<1>4. IsFiniteSet(UNION all)
  BY <1>2, <1>3, FS_UNION
<1>5. IsFiniteSet(RunningWith(id))
  BY KeysAssumption, FS_Subset DEF RunningWith
<1>6. QED
  BY <1>4, <1>5 DEF QueuedWith

\* The pairs of QueuedWith, before and after a step.
LEMMA QueuedPairs ==
    ASSUME NEW id
    PROVE  /\ \A p : p \in QueuedWith(id) <=>
                 \E key \in Keys : \E i \in 1..Len(lanes[key]) :
                     p = <<key, i>> /\ lanes[key][i].messageId = id
           /\ \A p : p \in QueuedWith(id)' <=>
                 \E key \in Keys : \E i \in 1..Len(lanes'[key]) :
                     p = <<key, i>> /\ lanes'[key][i].messageId = id
BY DEF QueuedWith

\* The heads that some keys take leave the lanes, and nothing else does.
LEMMA HeadsLeaveLanes ==
    ASSUME QueueTypeOK, NEW S \in SUBSET Keys, \A key \in S : lanes[key] # <<>>,
           lanes' = [key \in Keys |-> IF key \in S THEN Tail(lanes[key]) ELSE lanes[key]],
           NEW id
    PROVE  /\ IsFiniteSet(QueuedWith(id)')
           /\ Cardinality(QueuedWith(id)) = Cardinality(QueuedWith(id)')
                 + Cardinality({key \in S : Head(lanes[key]).messageId = id})
<1> DEFINE heads == {key \in S : Head(lanes[key]).messageId = id}
           taken == {<<key, 1>> : key \in heads}
           stays == QueuedWith(id) \ taken
           after == QueuedWith(id)'
           f == [p \in stays |-> <<p[1], IF p[1] \in S THEN p[2] - 1 ELSE p[2]>>]
           h == [key \in heads |-> <<key, 1>>]
<1>1. \A key \in S : /\ Len(lanes[key]) \in Nat \ {0} /\ Head(lanes[key]) = lanes[key][1]
                     /\ Len(lanes'[key]) = Len(lanes[key]) - 1
                     /\ \A i \in 1..Len(lanes'[key]) : lanes'[key][i] = lanes[key][i + 1]
  BY DEF QueueTypeOK
<1>2. \A key \in Keys \ S : lanes'[key] = lanes[key]
  OBVIOUS
<1>3. \A key \in Keys : Len(lanes[key]) \in Nat
  BY DEF QueueTypeOK
<1>4. taken \subseteq QueuedWith(id)
  BY <1>1, QueuedPairs
<1>5. IsFiniteSet(QueuedWith(id)) /\ IsFiniteSet(heads)
  BY QueuedIsFinite, KeysAssumption, FS_Subset DEF QueuedSetsAreFinite
<1>6. IsFiniteSet(taken) /\ Cardinality(taken) = Cardinality(heads)
  <2>1. h \in [heads -> taken]
    OBVIOUS
  <2>2. \A x, y \in heads : h[x] = h[y] => x = y
    OBVIOUS
  <2>3. \A t \in taken : \E x \in heads : h[x] = t
    OBVIOUS
  <2> HIDE DEF h
  <2>4. QED
    BY <1>5, <2>1, <2>2, <2>3, SameSize
<1>7. IsFiniteSet(stays) /\ Cardinality(QueuedWith(id)) = Cardinality(stays) + Cardinality(taken)
  <2>1. IsFiniteSet(stays)
    BY <1>5, FS_Subset
  <2>2. stays \cup taken = QueuedWith(id) /\ stays \cap taken = {}
    BY <1>4
  <2>3. Cardinality(stays \cap taken) = 0
    BY <2>2, FS_EmptySet
  <2> HIDE DEF stays, taken
  <2>4. Cardinality(stays) \in Nat /\ Cardinality(taken) \in Nat
    BY <2>1, <1>6, FS_CardinalityType
  <2>5. Cardinality(stays \cup taken)
            = Cardinality(stays) + Cardinality(taken) - Cardinality(stays \cap taken)
    BY <2>1, <1>6, FS_Union
  <2>6. Cardinality(stays \cup taken) = Cardinality(QueuedWith(id))
    BY <2>2
  <2>7. QED
    BY <2>1, <2>3, <2>4, <2>5, <2>6
<1>8. ASSUME NEW p \in stays
      PROVE  \E key \in Keys : \E i \in 1..Len(lanes[key]) :
                /\ p = <<key, i>> /\ lanes[key][i].messageId = id
                /\ key \in S => i > 1
  <2>1. p \in QueuedWith(id) /\ p \notin taken
    OBVIOUS
  <2>2. PICK key \in Keys : \E i \in 1..Len(lanes[key]) :
           p = <<key, i>> /\ lanes[key][i].messageId = id
    BY <2>1, QueuedPairs
  <2>3. PICK i \in 1..Len(lanes[key]) : p = <<key, i>> /\ lanes[key][i].messageId = id
    BY <2>2
  <2>4. key \in S => i # 1
    BY <1>1, <2>1, <2>3
  <2>5. key \in S => i > 1
    BY <1>3, <2>4
  <2>6. QED
    BY <2>3, <2>5
<1>9. f \in [stays -> after]
  <2> SUFFICES ASSUME NEW p \in stays
               PROVE  f[p] \in after
    OBVIOUS
  <2>0. PICK key \in Keys : \E i \in 1..Len(lanes[key]) :
           /\ p = <<key, i>> /\ lanes[key][i].messageId = id
           /\ key \in S => i > 1
    BY <1>8
  <2>1. PICK i \in 1..Len(lanes[key]) :
           /\ p = <<key, i>> /\ lanes[key][i].messageId = id
           /\ key \in S => i > 1
    BY <2>0
  <2>2. f[p] = <<key, IF key \in S THEN i - 1 ELSE i>>
    BY <2>1
  <2>3. CASE key \in S
    <3>1. i - 1 \in 1..Len(lanes'[key]) /\ lanes'[key][i - 1].messageId = id
      BY <1>1, <2>1, <2>3
    <3>2. QED
      BY <2>2, <2>3, <3>1, QueuedPairs
  <2>4. CASE key \notin S
    BY <1>2, <2>1, <2>2, <2>4, QueuedPairs
  <2>5. QED
    BY <2>3, <2>4
<1>10. \A p, q \in stays : f[p] = f[q] => p = q
  <2> SUFFICES ASSUME NEW p \in stays, NEW q \in stays, f[p] = f[q]
               PROVE  p = q
    OBVIOUS
  <2>1. PICK k1 \in Keys, i1 \in Nat : p = <<k1, i1>>
    BY <1>3, <1>8
  <2>2. PICK k2 \in Keys, i2 \in Nat : q = <<k2, i2>>
    BY <1>3, <1>8
  <2>3. /\ f[p] = <<k1, IF k1 \in S THEN i1 - 1 ELSE i1>>
        /\ f[q] = <<k2, IF k2 \in S THEN i2 - 1 ELSE i2>>
    BY <2>1, <2>2
  <2>4. k1 = k2 /\ i1 = i2
    BY <2>3, <1>3
  <2>5. QED
    BY <2>1, <2>2, <2>4
<1>11. \A q \in after : \E p \in stays : f[p] = q
  <2> SUFFICES ASSUME NEW q \in after
               PROVE  \E p \in stays : f[p] = q
    OBVIOUS
  <2>0. PICK key \in Keys : \E i \in 1..Len(lanes'[key]) :
           q = <<key, i>> /\ lanes'[key][i].messageId = id
    BY QueuedPairs
  <2>1. PICK i \in 1..Len(lanes'[key]) :
           q = <<key, i>> /\ lanes'[key][i].messageId = id
    BY <2>0
  <2> DEFINE j == IF key \in S THEN i + 1 ELSE i
  <2>2. /\ j \in 1..Len(lanes[key]) /\ lanes[key][j].messageId = id
        /\ key \in S => j > 1
    BY <1>1, <1>2, <1>3, <2>1
  <2>3. <<key, j>> \in QueuedWith(id) /\ <<key, j>> \notin taken
    BY <2>2, QueuedPairs
  <2>4. <<key, j>> \in stays
    BY <2>3
  <2>5. f[<<key, j>>] = q
    BY <1>3, <2>1, <2>4
  <2>6. QED
    BY <2>4, <2>5
<1> HIDE DEF f, stays, taken, after, heads
<1>12. IsFiniteSet(after) /\ Cardinality(after) = Cardinality(stays)
  BY <1>7, <1>9, <1>10, <1>11, SameSize
<1>13. QED
  BY <1>6, <1>7, <1>12 DEF after, heads

\* An item that enters its lane is one pair more for its own id.
LEMMA ItemEntersLane ==
    ASSUME QueueTypeOK, NEW item \in Items, NEW key \in Keys,
           NEW n \in 0..Len(lanes[key]),
           lanes' = [lanes EXCEPT ![key] = InsertAfter(lanes[key], n, item)],
           NEW id
    PROVE  Cardinality(QueuedWith(id)') = Cardinality(QueuedWith(id))
               + (IF item.messageId = id THEN 1 ELSE 0)
<1> DEFINE old == QueuedWith(id)
           place == <<key, n + 1>>
           moved == QueuedWith(id)' \ {place}
           f == [p \in old |-> <<p[1], IF p[1] = key /\ p[2] > n THEN p[2] + 1 ELSE p[2]>>]
<1>1. /\ Len(lanes[key]) \in Nat /\ n \in Nat /\ n <= Len(lanes[key])
      /\ Len(lanes'[key]) = Len(lanes[key]) + 1
      /\ \A i \in 1..Len(lanes[key]) + 1 :
            lanes'[key][i] = IF i <= n THEN lanes[key][i]
                             ELSE IF i = n + 1 THEN item ELSE lanes[key][i - 1]
  <2>1. lanes[key] \in Seq(Items)
    BY DEF QueueTypeOK
  <2>2. lanes'[key] = InsertAfter(lanes[key], n, item)
    BY DEF QueueTypeOK
  <2>3. Len(InsertAfter(lanes[key], n, item)) = Len(lanes[key]) + 1
    BY <2>1, InsertAfterType
  <2>4. QED
    BY <2>1, <2>2, <2>3 DEF InsertAfter
<1>2. \A other \in Keys \ {key} : lanes'[other] = lanes[other]
  BY DEF QueueTypeOK
<1>3. \A other \in Keys : Len(lanes[other]) \in Nat
  BY DEF QueueTypeOK
<1>4. IsFiniteSet(old)
  BY QueuedIsFinite DEF QueuedSetsAreFinite
<1>5. \A p \in old : \E k \in Keys : \E i \in 1..Len(lanes[k]) :
          p = <<k, i>> /\ lanes[k][i].messageId = id
  BY QueuedPairs
<1>6. \A q \in moved : \E k \in Keys : \E i \in 1..Len(lanes'[k]) :
          /\ q = <<k, i>> /\ lanes'[k][i].messageId = id
          /\ ~(k = key /\ i = n + 1)
  BY QueuedPairs
<1>7. f \in [old -> moved]
  <2> SUFFICES ASSUME NEW p \in old
               PROVE  f[p] \in moved
    OBVIOUS
  <2>1. PICK k \in Keys : \E i \in 1..Len(lanes[k]) :
           p = <<k, i>> /\ lanes[k][i].messageId = id
    BY <1>5
  <2>2. PICK i \in 1..Len(lanes[k]) : p = <<k, i>> /\ lanes[k][i].messageId = id
    BY <2>1
  <2> DEFINE j == IF k = key /\ i > n THEN i + 1 ELSE i
  <2>3. f[p] = <<k, j>>
    BY <2>2
  <2>4. j \in 1..Len(lanes'[k]) /\ lanes'[k][j].messageId = id /\ ~(k = key /\ j = n + 1)
    <3>1. CASE k # key
      BY <1>2, <2>2, <3>1
    <3>2. CASE k = key /\ i > n
      BY <1>1, <2>2, <3>2
    <3>3. CASE k = key /\ ~(i > n)
      BY <1>1, <2>2, <3>3
    <3>4. QED
      BY <3>1, <3>2, <3>3
  <2> HIDE DEF j
  <2>5. <<k, j>> \in QueuedWith(id)' /\ <<k, j>> # place
    BY <2>4, QueuedPairs
  <2>6. QED
    BY <2>3, <2>5
<1>8. \A p, q \in old : f[p] = f[q] => p = q
  <2> SUFFICES ASSUME NEW p \in old, NEW q \in old, f[p] = f[q]
               PROVE  p = q
    OBVIOUS
  <2>1. PICK k1 \in Keys, i1 \in Nat : p = <<k1, i1>>
    BY <1>3, <1>5
  <2>2. PICK k2 \in Keys, i2 \in Nat : q = <<k2, i2>>
    BY <1>3, <1>5
  <2>3. /\ f[p] = <<k1, IF k1 = key /\ i1 > n THEN i1 + 1 ELSE i1>>
        /\ f[q] = <<k2, IF k2 = key /\ i2 > n THEN i2 + 1 ELSE i2>>
    BY <2>1, <2>2
  <2>4. k1 = k2 /\ i1 = i2
    BY <1>1, <2>3
  <2>5. QED
    BY <2>1, <2>2, <2>4
<1>9. \A q \in moved : \E p \in old : f[p] = q
  <2> SUFFICES ASSUME NEW q \in moved
               PROVE  \E p \in old : f[p] = q
    OBVIOUS
  <2>1. PICK k \in Keys : \E i \in 1..Len(lanes'[k]) :
          /\ q = <<k, i>> /\ lanes'[k][i].messageId = id
          /\ ~(k = key /\ i = n + 1)
    BY <1>6
  <2>2. PICK i \in 1..Len(lanes'[k]) :
          /\ q = <<k, i>> /\ lanes'[k][i].messageId = id
          /\ ~(k = key /\ i = n + 1)
    BY <2>1
  <2> DEFINE j == IF k = key /\ i > n THEN i - 1 ELSE i
  <2>3. /\ j \in 1..Len(lanes[k]) /\ lanes[k][j].messageId = id
        /\ i = IF k = key /\ j > n THEN j + 1 ELSE j
    <3>1. CASE k # key
      BY <1>2, <1>3, <2>2, <3>1
    <3>2. CASE k = key /\ i > n
      BY <1>1, <2>2, <3>2
    <3>3. CASE k = key /\ ~(i > n)
      BY <1>1, <2>2, <3>3
    <3>4. QED
      BY <3>1, <3>2, <3>3
  <2> HIDE DEF j
  <2>4. <<k, j>> \in old
    BY <2>3, QueuedPairs
  <2>5. f[<<k, j>>] = q
    BY <2>2, <2>3, <2>4
  <2>6. QED
    BY <2>4, <2>5
<1> HIDE DEF f
<1>10. IsFiniteSet(moved) /\ Cardinality(moved) = Cardinality(old)
  BY <1>4, <1>7, <1>8, <1>9, SameSize
<1>11. place \in QueuedWith(id)' <=> item.messageId = id
  <2>1. n + 1 \in 1..Len(lanes'[key]) /\ lanes'[key][n + 1] = item
    BY <1>1
  <2>2. QED
    BY <2>1, QueuedPairs
<1>12. Cardinality(old) \in Nat
  BY <1>4, FS_CardinalityType
<1>13. CASE item.messageId = id
  <2>1. QueuedWith(id)' = moved \cup {place} /\ place \notin moved
    BY <1>11, <1>13
  <2> HIDE DEF moved, place
  <2>2. Cardinality(QueuedWith(id)') = Cardinality(moved) + 1
    BY <1>10, <2>1, FS_AddElement
  <2>3. QED
    BY <1>10, <1>13, <2>2
<1>14. CASE item.messageId # id
  <2>1. QueuedWith(id)' = moved
    BY <1>11, <1>14
  <2> HIDE DEF moved
  <2>2. Cardinality(QueuedWith(id)') = Cardinality(old)
    BY <1>10, <2>1
  <2> HIDE DEF old
  <2>3. QED
    BY <1>12, <1>14, <2>2 DEF old
<1>15. QED
  BY <1>13, <1>14

\* Both counts of an id are natural numbers.
LEMMA InFlightIsNat ==
    ASSUME QueueTypeOK, NEW id
    PROVE  Cardinality(QueuedWith(id)) \in Nat /\ Cardinality(RunningWith(id)) \in Nat
BY QueuedIsFinite, FS_CardinalityType DEF QueuedSetsAreFinite

\* Initially nothing is in flight and nothing is counted.
LEMMA InitSeen == QueueInit => SeenCountsInFlight
<1> SUFFICES ASSUME QueueInit, NEW id \in MessageIds
             PROVE  seen[id] = Cardinality(QueuedWith(id)) + Cardinality(RunningWith(id))
  BY DEF SeenCountsInFlight
<1>1. QueuedWith(id) = {} /\ RunningWith(id) = {}
  BY DEF QueueInit, QueuedWith, RunningWith
<1>2. Cardinality({}) = 0
  BY FS_EmptySet
<1>3. QED
  BY <1>1, <1>2 DEF QueueInit

\* An accepted item is counted once and is queued once.
LEMMA EnqueueCounts ==
    ASSUME QueueInv, SeenCountsInFlight, NEW item \in Items, Enqueue(item)
    PROVE  SeenCountsInFlight'
<1> DEFINE key == item.orderingKey
<1> SUFFICES ASSUME NEW id \in MessageIds
             PROVE  seen'[id] = Cardinality(QueuedWith(id)') + Cardinality(RunningWith(id)')
  BY DEF SeenCountsInFlight, MessageIds
<1>1. QueueTypeOK
  BY DEF QueueInv
<1>2. key \in Keys /\ item.messageId \in MessageIds
  BY ItemsAssumption DEF MessageIds
<1>3. PICK n \in SortedPositions(lanes[key], item) :
         lanes' = [lanes EXCEPT ![key] = InsertAfter(lanes[key], n, item)]
  BY DEF Enqueue
<1>4. n \in 0..Len(lanes[key])
  BY DEF SortedPositions
<1>5. Cardinality(QueuedWith(id)') = Cardinality(QueuedWith(id))
          + (IF item.messageId = id THEN 1 ELSE 0)
  BY <1>1, <1>2, <1>3, <1>4, ItemEntersLane
<1>6. RunningWith(id)' = RunningWith(id)
  BY DEF Enqueue, RunningWith
<1>7. seen'[id] = seen[id] + (IF item.messageId = id THEN 1 ELSE 0)
  BY <1>1, <1>2 DEF Enqueue, QueueTypeOK
<1>8. seen[id] = Cardinality(QueuedWith(id)) + Cardinality(RunningWith(id))
  BY DEF SeenCountsInFlight
<1>9. QED
  BY <1>1, <1>5, <1>6, <1>7, <1>8, InFlightIsNat

\* What a drain starts moves from its lane to its worker.
LEMMA DrainCounts ==
    ASSUME QueueInv, SeenCountsInFlight, Drain
    PROVE  SeenCountsInFlight'
<1> SUFFICES ASSUME NEW id \in MessageIds
             PROVE  seen'[id] = Cardinality(QueuedWith(id)') + Cardinality(RunningWith(id)')
  BY DEF SeenCountsInFlight, MessageIds
<1>1. QueueTypeOK /\ ActiveIffRunning
  BY DEF QueueInv
<1>2. PICK S \in Selections :
         /\ running' = [key \in Keys |->
               IF key \in S THEN Head(lanes[key]) ELSE running[key]]
         /\ lanes' = [key \in Keys |->
               IF key \in S THEN Tail(lanes[key]) ELSE lanes[key]]
  BY DEF Drain
<1>3. /\ S \subseteq Keys
      /\ \A key \in S : lanes[key] # <<>> /\ running[key] = None
  BY <1>1 DEF Selections, Waiting, ActiveIffRunning
<1>4. \A key \in S : Head(lanes[key]) \in Items
  BY <1>1, <1>3 DEF QueueTypeOK
<1> DEFINE heads == {key \in S : Head(lanes[key]).messageId = id}
<1>5. Cardinality(QueuedWith(id)) = Cardinality(QueuedWith(id)') + Cardinality(heads)
      /\ IsFiniteSet(QueuedWith(id)')
  BY <1>1, <1>2, <1>3, HeadsLeaveLanes
<1>6. /\ RunningWith(id)' = RunningWith(id) \cup heads
      /\ RunningWith(id) \cap heads = {}
  BY <1>2, <1>3, <1>4, NoneAssumption DEF RunningWith
<1>7. IsFiniteSet(RunningWith(id)) /\ IsFiniteSet(heads)
  BY <1>3, KeysAssumption, FS_Subset DEF RunningWith
<1> HIDE DEF heads
<1>8. /\ Cardinality(RunningWith(id)) \in Nat /\ Cardinality(heads) \in Nat
      /\ Cardinality(QueuedWith(id)') \in Nat
  BY <1>5, <1>7, FS_CardinalityType
<1>9. Cardinality(RunningWith(id)') = Cardinality(RunningWith(id)) + Cardinality(heads)
  <2>1. Cardinality(RunningWith(id) \cap heads) = 0
    BY <1>6, FS_EmptySet
  <2>2. Cardinality(RunningWith(id) \cup heads) = Cardinality(RunningWith(id))
            + Cardinality(heads) - Cardinality(RunningWith(id) \cap heads)
    BY <1>7, FS_Union
  <2>3. Cardinality(RunningWith(id) \cup heads) = Cardinality(RunningWith(id)')
    BY <1>6
  <2>4. QED
    BY <1>8, <2>1, <2>2, <2>3
<1>10. seen'[id] = Cardinality(QueuedWith(id)) + Cardinality(RunningWith(id))
  BY DEF SeenCountsInFlight, Drain
<1>11. QED
  BY <1>5, <1>8, <1>9, <1>10

\* What the count of an id loses when a worker settles.
LEMMA ReleaseCounts ==
    ASSUME QueueInv, SeenCountsInFlight, NEW key \in Keys, running[key] # None,
           ReleaseSeen(running[key].messageId), NEW id \in MessageIds
    PROVE  /\ Cardinality(RunningWith(id) \ {key}) \in Nat
           /\ seen'[id] = Cardinality(QueuedWith(id)) + Cardinality(RunningWith(id) \ {key})
<1> DEFINE over == running[key].messageId
           rest == RunningWith(id) \ {key}
<1>1. QueueTypeOK /\ over \in MessageIds
  BY DEF QueueInv, QueueTypeOK, MessageIds
<1>2. IsFiniteSet(RunningWith(id)) /\ IsFiniteSet(rest)
  BY KeysAssumption, FS_Subset DEF RunningWith
<1>3. /\ Cardinality(QueuedWith(id)) \in Nat /\ Cardinality(RunningWith(id)) \in Nat
      /\ Cardinality(rest) \in Nat
  BY <1>1, <1>2, InFlightIsNat, FS_CardinalityType
<1>4. seen[id] = Cardinality(QueuedWith(id)) + Cardinality(RunningWith(id))
  BY DEF SeenCountsInFlight
<1>5. CASE over = id
  <2>1. key \in RunningWith(id)
    BY <1>5 DEF RunningWith
  <2>2. Cardinality(rest) = Cardinality(RunningWith(id)) - 1
    BY <1>2, <2>1, FS_RemoveElement
  <2>3. seen'[id] = IF seen[id] <= 1 THEN 0 ELSE seen[id] - 1
    BY <1>1, <1>5 DEF ReleaseSeen, QueueTypeOK
  <2>4. QED
    BY <1>3, <1>4, <2>2, <2>3
<1>6. CASE over # id
  <2>1. rest = RunningWith(id)
    BY <1>6 DEF RunningWith
  <2>2. seen'[id] = seen[id]
    BY <1>1, <1>6 DEF ReleaseSeen, QueueTypeOK
  <2>3. QED
    BY <1>3, <1>4, <2>1, <2>2
<1>7. QED
  BY <1>5, <1>6

\* The next item of the lane takes the place of the one that settled.
LEMMA ContinueCounts ==
    ASSUME QueueInv, SeenCountsInFlight, NEW key \in Keys, SettleAndContinue(key)
    PROVE  SeenCountsInFlight'
<1> SUFFICES ASSUME NEW id \in MessageIds
             PROVE  seen'[id] = Cardinality(QueuedWith(id)') + Cardinality(RunningWith(id)')
  BY DEF SeenCountsInFlight, MessageIds
<1> DEFINE head == Head(lanes[key])
           heads == {k \in {key} : Head(lanes[k]).messageId = id}
           rest == RunningWith(id) \ {key}
<1>1. QueueTypeOK
  BY DEF QueueInv
<1>2. /\ lanes' = [k \in Keys |-> IF k \in {key} THEN Tail(lanes[k]) ELSE lanes[k]]
      /\ running' = [running EXCEPT ![key] = head]
      /\ lanes[key] # <<>> /\ head \in Items /\ running[key] # None
  <2>1. lanes \in [Keys -> Seq(Items)] /\ lanes[key] \in Seq(Items)
    BY <1>1 DEF QueueTypeOK
  <2>2. lanes' = [lanes EXCEPT ![key] = Tail(lanes[key])]
    BY DEF SettleAndContinue
  <2>3. lanes' = [k \in Keys |-> IF k \in {key} THEN Tail(lanes[k]) ELSE lanes[k]]
    BY <2>1, <2>2
  <2>4. lanes[key] # <<>> /\ running[key] # None
        /\ running' = [running EXCEPT ![key] = head]
    BY DEF SettleAndContinue
  <2>5. head \in Items
    BY <2>1, <2>4
  <2>6. QED
    BY <2>3, <2>4, <2>5
<1>3. Cardinality(QueuedWith(id)) = Cardinality(QueuedWith(id)') + Cardinality(heads)
      /\ IsFiniteSet(QueuedWith(id)')
  <2>1. {key} \in SUBSET Keys /\ \A k \in {key} : lanes[k] # <<>>
    BY <1>2
  <2>2. QED
    BY <1>1, <1>2, <2>1, HeadsLeaveLanes
<1>4. /\ Cardinality(rest) \in Nat
      /\ seen'[id] = Cardinality(QueuedWith(id)) + Cardinality(rest)
  BY <1>2, ReleaseCounts DEF SettleAndContinue
<1>5. IsFiniteSet(rest) /\ key \notin rest
  BY KeysAssumption, FS_Subset DEF RunningWith
<1>6. Cardinality(QueuedWith(id)') \in Nat
  BY <1>3, FS_CardinalityType
<1>7. Cardinality({}) = 0 /\ Cardinality({key}) = 1
  BY FS_EmptySet, FS_Singleton
<1>8. CASE head.messageId = id
  <2>1. heads = {key} /\ RunningWith(id)' = rest \cup {key}
    BY <1>1, <1>2, <1>8, NoneAssumption DEF RunningWith, QueueTypeOK
  <2> HIDE DEF rest, heads
  <2>2. Cardinality(RunningWith(id)') = Cardinality(rest) + 1
    BY <1>5, <2>1, FS_AddElement
  <2>3. Cardinality(heads) = 1
    BY <1>7, <2>1
  <2>4. QED
    BY <1>3, <1>4, <1>6, <2>2, <2>3
<1>9. CASE head.messageId # id
  <2>1. heads = {} /\ RunningWith(id)' = rest
    BY <1>1, <1>2, <1>9, NoneAssumption DEF RunningWith, QueueTypeOK
  <2> HIDE DEF rest, heads
  <2>2. Cardinality(heads) = 0
    BY <1>7, <2>1
  <2>3. Cardinality(RunningWith(id)') = Cardinality(rest)
    BY <2>1
  <2>4. QED
    BY <1>3, <1>4, <1>6, <2>2, <2>3
<1>10. QED
  BY <1>8, <1>9

\* The last item of a lane leaves the worker and the count.
LEMMA ExitCounts ==
    ASSUME QueueInv, SeenCountsInFlight, NEW key \in Keys, SettleAndExit(key)
    PROVE  SeenCountsInFlight'
<1> SUFFICES ASSUME NEW id \in MessageIds
             PROVE  seen'[id] = Cardinality(QueuedWith(id)') + Cardinality(RunningWith(id)')
  BY DEF SeenCountsInFlight, MessageIds
<1>1. QueuedWith(id)' = QueuedWith(id)
  BY DEF SettleAndExit, QueuedWith
<1>2. RunningWith(id)' = RunningWith(id) \ {key}
  BY DEF SettleAndExit, RunningWith, QueueInv, QueueTypeOK
<1>3. seen'[id] = Cardinality(QueuedWith(id)) + Cardinality(RunningWith(id) \ {key})
  BY ReleaseCounts DEF SettleAndExit
<1>4. QED
  BY <1>1, <1>2, <1>3

\* Every step of the queue keeps the count.
LEMMA QueueNextKeepsCounts ==
    QueueInv /\ SeenCountsInFlight /\ [QueueNext]_queueVars => SeenCountsInFlight'
<1> SUFFICES ASSUME QueueInv, SeenCountsInFlight, [QueueNext]_queueVars
             PROVE  SeenCountsInFlight'
  OBVIOUS
<1>1. ASSUME NEW item \in Items, Enqueue(item)
      PROVE  SeenCountsInFlight'
  BY <1>1, EnqueueCounts
<1>2. CASE Drain
  BY <1>2, DrainCounts
<1>3. ASSUME NEW key \in Keys, WorkerSettles(key)
      PROVE  SeenCountsInFlight'
  BY <1>3, ContinueCounts, ExitCounts DEF WorkerSettles
<1>4. CASE UNCHANGED queueVars
  <2>1. \A id : QueuedWith(id)' = QueuedWith(id) /\ RunningWith(id)' = RunningWith(id)
    BY <1>4 DEF queueVars, QueuedWith, RunningWith
  <2>2. seen' = seen
    BY <1>4 DEF queueVars
  <2>3. QED
    BY <2>1, <2>2 DEF SeenCountsInFlight, MessageIds
<1>5. QED
  BY <1>1, <1>2, <1>3, <1>4 DEF QueueNext

\* The duplicate filter of enqueue is exact: an id is refused exactly while an
\* item of it is queued or running, and its entry goes with the last of them.
THEOREM DuplicateFilterIsExact == QueueSpec => []SeenCountsInFlight
<1>1. QED
  BY InitQueueInv, InitSeen, QueueNextKeepsInv, QueueNextKeepsCounts, PTL DEF QueueSpec

-----------------------------------------------------------------------------
\* The queue implements SerialExecutor.

\* How often each item waits: what waiting of SerialExecutor stands for.
Waits == [item \in Items |->
    Cardinality({i \in 1..Len(lanes[item.orderingKey]) :
                    lanes[item.orderingKey][i] = item})]

\* Items stay in the lane of their own key.
LanesOwnTheirItems ==
    \A key \in Keys :
        /\ \A i \in 1..Len(lanes[key]) : lanes[key][i].orderingKey = key
        /\ running[key] # None => running[key].orderingKey = key

\* Waits counts the positions of an item.
LEMMA WaitsCount ==
    Waits = [item \in Items |-> Count(lanes[item.orderingKey], {item})]
BY DEF Waits, Count, Positions

\* An item waits while its lane holds it.
LEMMA WaitsPositive ==
    ASSUME QueueTypeOK, NEW item \in Items
    PROVE  /\ Waits[item] \in Nat
           /\ Waits[item] > 0 <=>
                \E i \in 1..Len(lanes[item.orderingKey]) : lanes[item.orderingKey][i] = item
<1> DEFINE lane == lanes[item.orderingKey]
<1>1. lane \in Seq(Items)
  BY ItemsAssumption DEF QueueTypeOK
<1>2. IsFiniteSet(Positions(lane, {item})) /\ Count(lane, {item}) \in Nat
  BY <1>1, CountType
<1>3. Waits[item] = Count(lane, {item})
  BY WaitsCount
<1>4. Count(lane, {item}) = 0 <=> Positions(lane, {item}) = {}
  BY <1>2, FS_EmptySet DEF Count
<1>5. Positions(lane, {item}) # {} <=> \E i \in 1..Len(lane) : lane[i] = item
  BY DEF Positions
<1>6. Count(lane, {item}) > 0 <=> Count(lane, {item}) # 0
  BY <1>2
<1> HIDE DEF lane
<1>7. QED
  BY <1>2, <1>3, <1>4, <1>5, <1>6 DEF lane

\* Items enter their own lane and are taken from it.
LEMMA LanesOwnStep ==
    QueueTypeOK /\ LanesOwnTheirItems /\ [QueueNext]_queueVars => LanesOwnTheirItems'
<1> SUFFICES ASSUME QueueTypeOK, LanesOwnTheirItems, [QueueNext]_queueVars
             PROVE  LanesOwnTheirItems'
  OBVIOUS
<1>1. ASSUME NEW lane \in Seq(Items), NEW key, lane # <<>>,
             \A i \in 1..Len(lane) : lane[i].orderingKey = key
      PROVE  /\ Head(lane).orderingKey = key
             /\ \A i \in 1..Len(Tail(lane)) : Tail(lane)[i].orderingKey = key
  <2>1. /\ Len(lane) \in Nat \ {0} /\ Head(lane) = lane[1] /\ Len(Tail(lane)) = Len(lane) - 1
        /\ \A i \in 1..Len(Tail(lane)) : Tail(lane)[i] = lane[i + 1]
    BY <1>1
  <2>2. QED
    BY <1>1, <2>1
<1>2. \A key \in Keys : lanes[key] \in Seq(Items)
  BY DEF QueueTypeOK
<1>3. ASSUME NEW item \in Items, Enqueue(item)
      PROVE  LanesOwnTheirItems'
  <2> DEFINE own == item.orderingKey
  <2>1. PICK n \in 0..Len(lanes[own]) :
           lanes' = [lanes EXCEPT ![own] = InsertAfter(lanes[own], n, item)]
    BY <1>3 DEF Enqueue, SortedPositions
  <2>2. own \in Keys /\ lanes[own] \in Seq(Items)
    BY <1>2, ItemsAssumption
  <2>3. /\ Len(lanes[own]) \in Nat
        /\ lanes'[own] = InsertAfter(lanes[own], n, item)
        /\ Len(lanes'[own]) = Len(lanes[own]) + 1
    <3>1. Len(lanes[own]) \in Nat /\ lanes'[own] = InsertAfter(lanes[own], n, item)
      BY <2>1, <2>2 DEF QueueTypeOK
    <3>2. Len(InsertAfter(lanes[own], n, item)) = Len(lanes[own]) + 1
      BY <2>2, InsertAfterType
    <3>3. QED
      BY <3>1, <3>2
  <2>4. \A i \in 1..Len(lanes'[own]) : lanes'[own][i].orderingKey = own
    BY <2>2, <2>3 DEF InsertAfter, LanesOwnTheirItems
  <2>5. \A key \in Keys \ {own} : lanes'[key] = lanes[key]
    BY <2>1 DEF QueueTypeOK
  <2>6. running' = running
    BY <1>3 DEF Enqueue
  <2>7. QED
    BY <2>4, <2>5, <2>6 DEF LanesOwnTheirItems
<1>4. CASE Drain
  <2>1. PICK S \in Selections :
         /\ running' = [key \in Keys |->
               IF key \in S THEN Head(lanes[key]) ELSE running[key]]
         /\ lanes' = [key \in Keys |->
               IF key \in S THEN Tail(lanes[key]) ELSE lanes[key]]
    BY <1>4 DEF Drain
  <2>2. \A key \in S : lanes[key] # <<>>
    BY DEF Selections, Waiting
  <2>3. QED
    BY <1>1, <1>2, <2>1, <2>2 DEF LanesOwnTheirItems
<1>5. ASSUME NEW key \in Keys, SettleAndContinue(key)
      PROVE  LanesOwnTheirItems'
  <2>1. /\ lanes[key] # <<>> /\ running' = [running EXCEPT ![key] = Head(lanes[key])]
        /\ lanes' = [lanes EXCEPT ![key] = Tail(lanes[key])]
    BY <1>5 DEF SettleAndContinue
  <2>2. QED
    BY <1>1, <1>2, <2>1 DEF LanesOwnTheirItems, QueueTypeOK
<1>6. ASSUME NEW key \in Keys, SettleAndExit(key)
      PROVE  LanesOwnTheirItems'
  BY <1>6 DEF SettleAndExit, LanesOwnTheirItems, QueueTypeOK
<1>7. CASE UNCHANGED queueVars
  BY <1>7 DEF queueVars, LanesOwnTheirItems
<1>8. QED
  BY <1>3, <1>4, <1>5, <1>6, <1>7 DEF QueueNext, WorkerSettles

\* The head of a sorted lane is the oldest item that waits for its key.
LEMMA HeadIsOldest ==
    ASSUME QueueTypeOK, LanesSorted, LanesOwnTheirItems,
           NEW key \in Keys, lanes[key] # <<>>
    PROVE  /\ Head(lanes[key]) \in Items
           /\ Head(lanes[key]).orderingKey = key
           /\ Waits[Head(lanes[key])] > 0
           /\ \A other \in Items : other.orderingKey = key /\ Waits[other] > 0
                  => Head(lanes[key]).messageId <= other.messageId
<1> DEFINE head == Head(lanes[key])
<1>1. lanes[key] \in Seq(Items) /\ Len(lanes[key]) \in Nat \ {0} /\ head = lanes[key][1]
  BY DEF QueueTypeOK
<1>2. head \in Items /\ head.orderingKey = key
  BY <1>1 DEF LanesOwnTheirItems
<1>3. Waits[head] > 0
  BY <1>1, <1>2, WaitsPositive
<1>4. ASSUME NEW other \in Items, other.orderingKey = key, Waits[other] > 0
      PROVE  head.messageId <= other.messageId
  <2>1. PICK i \in 1..Len(lanes[key]) : lanes[key][i] = other
    BY <1>4, WaitsPositive
  <2>2. i = 1 \/ 1 < i
    BY <1>1
  <2>3. head = other \/ ~Before(other, head)
    BY <1>1, <2>1, <2>2 DEF LanesSorted
  <2>4. head.messageId \in Nat /\ other.messageId \in Nat
    BY <1>2, ItemsAssumption
  <2>5. QED
    BY <2>3, <2>4 DEF Before
<1>5. QED
  BY <1>2, <1>3, <1>4

\* The actions of SerialExecutor, in terms of Waits.
LEMMA ExecutorActions ==
    /\ Executor!Init <=> /\ Waits = [item \in Items |-> 0]
                         /\ running = [key \in Keys |-> None]
    /\ \A item : Executor!Submit(item) <=>
          /\ \/ item \in Repeatable
             \/ ~\E it \in Items :
                   it.messageId = item.messageId
                   /\ (Waits[it] > 0 \/ running[it.orderingKey] = it)
          /\ Waits' = [Waits EXCEPT ![item] = @ + 1]
          /\ running' = running
    /\ \A key : Executor!Oldest(key) =
          {item \in Items :
              /\ item.orderingKey = key
              /\ Waits[item] > 0
              /\ \A other \in Items :
                    other.orderingKey = key /\ Waits[other] > 0
                        => item.messageId <= other.messageId}
    /\ \A S : Executor!Begin(S) <=>
          /\ S # {}
          /\ \A key \in S :
                /\ running[key] = None
                /\ \E item \in Items : item.orderingKey = key /\ Waits[item] > 0
          /\ Cardinality({key \in Keys : running[key] # None}) + Cardinality(S)
                <= MaxConcurrentKeys
          /\ \E choice \in [S -> Items] :
                /\ \A key \in S : choice[key] \in Executor!Oldest(key)
                /\ running' = [key \in Keys |->
                      IF key \in S THEN choice[key] ELSE running[key]]
          /\ Waits' = [item \in Items |->
                IF item.orderingKey \in S /\ running'[item.orderingKey] = item
                THEN Waits[item] - 1 ELSE Waits[item]]
    /\ \A key : Executor!Finish(key) <=>
          /\ running[key] # None
          /\ \E next \in Executor!Oldest(key) \cup {None} :
                /\ running' = [running EXCEPT ![key] = next]
                /\ Waits' = [item \in Items |->
                      IF item = next THEN Waits[item] - 1 ELSE Waits[item]]
<1>1. Executor!Init <=> /\ Waits = [item \in Items |-> 0]
                        /\ running = [key \in Keys |-> None]
  BY DEF Executor!Init, Waits
<1>2. ASSUME NEW item
      PROVE  Executor!Submit(item) <=>
          /\ \/ item \in Repeatable
             \/ ~\E it \in Items :
                   it.messageId = item.messageId
                   /\ (Waits[it] > 0 \/ running[it.orderingKey] = it)
          /\ Waits' = [Waits EXCEPT ![item] = @ + 1]
          /\ running' = running
  BY DEF Executor!Submit, Executor!MessageInFlight, Waits
<1>3. ASSUME NEW key
      PROVE  Executor!Oldest(key) =
          {item \in Items :
              /\ item.orderingKey = key
              /\ Waits[item] > 0
              /\ \A other \in Items :
                    other.orderingKey = key /\ Waits[other] > 0
                        => item.messageId <= other.messageId}
  BY DEF Executor!Oldest, Waits
<1>4. ASSUME NEW S
      PROVE  Executor!Begin(S) <=>
          /\ S # {}
          /\ \A key \in S :
                /\ running[key] = None
                /\ \E item \in Items : item.orderingKey = key /\ Waits[item] > 0
          /\ Cardinality({key \in Keys : running[key] # None}) + Cardinality(S)
                <= MaxConcurrentKeys
          /\ \E choice \in [S -> Items] :
                /\ \A key \in S : choice[key] \in Executor!Oldest(key)
                /\ running' = [key \in Keys |->
                      IF key \in S THEN choice[key] ELSE running[key]]
          /\ Waits' = [item \in Items |->
                IF item.orderingKey \in S /\ running'[item.orderingKey] = item
                THEN Waits[item] - 1 ELSE Waits[item]]
  <2>1. \A key : Executor!Idle(key) <=> running[key] = None
    BY DEF Executor!Idle
  <2>2. \A key : Executor!HasWork(key) <=>
           \E item \in Items : item.orderingKey = key /\ Waits[item] > 0
    BY DEF Executor!HasWork, Waits
  <2>3. Executor!Busy(running) = {key \in Keys : running[key] # None}
    BY DEF Executor!Busy
  <2>4. Executor!Taken(S) = [item \in Items |->
                IF item.orderingKey \in S /\ running'[item.orderingKey] = item
                THEN Waits[item] - 1 ELSE Waits[item]]
    BY DEF Executor!Taken, Waits
  <2>5. /\ Executor!Cardinality(Executor!Busy(running)) = Cardinality(Executor!Busy(running))
        /\ Executor!Cardinality(S) = Cardinality(S)
    BY DEF Executor!Cardinality, Cardinality
  <2>6. Executor!Begin(S) <=>
          /\ S # {}
          /\ \A key \in S : Executor!Idle(key) /\ Executor!HasWork(key)
          /\ Executor!Cardinality(Executor!Busy(running)) + Executor!Cardinality(S)
                <= MaxConcurrentKeys
          /\ \E choice \in [S -> Items] :
                /\ \A key \in S : choice[key] \in Executor!Oldest(key)
                /\ running' = [key \in Keys |->
                      IF key \in S THEN choice[key] ELSE running[key]]
          /\ Waits' = Executor!Taken(S)
    BY DEF Executor!Begin, Waits
  <2>7. QED
    BY <2>1, <2>2, <2>3, <2>4, <2>5, <2>6
<1>5. ASSUME NEW key
      PROVE  Executor!Finish(key) <=>
          /\ running[key] # None
          /\ \E next \in Executor!Oldest(key) \cup {None} :
                /\ running' = [running EXCEPT ![key] = next]
                /\ Waits' = [item \in Items |->
                      IF item = next THEN Waits[item] - 1 ELSE Waits[item]]
  BY DEF Executor!Finish, Executor!Idle, Waits
<1>6. QED
  BY <1>1, <1>2, <1>3, <1>4, <1>5

\* What the refinement rests on.
ExecutorInv == QueueInv /\ SeenCountsInFlight /\ LanesOwnTheirItems

\* Waits is a function of the items, before and after a step.
LEMMA WaitsType == ExecutorInv => Waits \in [Items -> Nat]
<1> SUFFICES ASSUME ExecutorInv PROVE Waits \in [Items -> Nat]
  OBVIOUS
<1>1. QueueTypeOK
  BY DEF ExecutorInv, QueueInv
<1>2. \A item \in Items : Waits[item] \in Nat
  BY <1>1, WaitsPositive
<1>3. QED
  BY <1>2 DEF Waits

\* A queue that starts empty starts as an executor with nothing to do.
LEMMA InitImplements == QueueInit => Executor!Init /\ LanesOwnTheirItems
<1> SUFFICES ASSUME QueueInit PROVE Executor!Init /\ LanesOwnTheirItems
  OBVIOUS
<1>1. LanesOwnTheirItems
  BY DEF QueueInit, LanesOwnTheirItems
<1>2. ASSUME NEW item \in Items
      PROVE  Count(lanes[item.orderingKey], {item}) = 0
  <2>1. Positions(lanes[item.orderingKey], {item}) = {}
    BY ItemsAssumption DEF QueueInit, Positions
  <2>2. QED
    BY <2>1, FS_EmptySet DEF Count
<1>3. Waits = [item \in Items |-> 0]
  BY <1>2, WaitsCount
<1>4. QED
  BY <1>1, <1>3, ExecutorActions DEF QueueInit

\* An accepted item is submitted: the executor would not have refused it.
LEMMA EnqueueImplements ==
    ASSUME ExecutorInv, NEW item \in Items, Enqueue(item)
    PROVE  Executor!Submit(item)
<1> DEFINE own == item.orderingKey
<1>1. QueueTypeOK /\ own \in Keys /\ lanes[own] \in Seq(Items) /\ item.messageId \in MessageIds
  BY ItemsAssumption DEF ExecutorInv, QueueInv, QueueTypeOK, MessageIds
<1>2. PICK n \in 0..Len(lanes[own]) :
         lanes' = [lanes EXCEPT ![own] = InsertAfter(lanes[own], n, item)]
  BY DEF Enqueue, SortedPositions
<1>3. ASSUME item \notin Repeatable, NEW it \in Items, it.messageId = item.messageId,
             Waits[it] > 0 \/ running[it.orderingKey] = it
      PROVE  FALSE
  <2> DEFINE id == item.messageId
  <2>1. seen[id] = 0
    BY <1>1, <1>3 DEF Enqueue, Refused, QueueTypeOK
  <2>2. seen[id] = Cardinality(QueuedWith(id)) + Cardinality(RunningWith(id))
    BY <1>1 DEF ExecutorInv, SeenCountsInFlight
  <2>3. Cardinality(QueuedWith(id)) = 0 /\ Cardinality(RunningWith(id)) = 0
    BY <1>1, <2>1, <2>2, InFlightIsNat
  <2>4. IsFiniteSet(QueuedWith(id)) /\ IsFiniteSet(RunningWith(id))
    BY <1>1, QueuedIsFinite DEF QueuedSetsAreFinite
  <2>5. QueuedWith(id) = {} /\ RunningWith(id) = {}
    BY <2>3, <2>4, FS_EmptySet
  <2>6. it.orderingKey \in Keys
    BY ItemsAssumption
  <2>7. CASE Waits[it] > 0
    <3>1. PICK i \in 1..Len(lanes[it.orderingKey]) : lanes[it.orderingKey][i] = it
      BY <1>1, <2>7, WaitsPositive
    <3>2. <<it.orderingKey, i>> \in QueuedWith(id)
      BY <1>3, <2>6, <3>1, QueuedPairs
    <3>3. QED
      BY <2>5, <3>2
  <2>8. CASE running[it.orderingKey] = it
    BY <1>3, <2>5, <2>6, <2>8, NoneAssumption DEF RunningWith
  <2>9. QED
    BY <1>3, <2>7, <2>8
<1>4. ASSUME NEW it \in Items
      PROVE  Waits'[it] = IF it = item THEN Waits[it] + 1 ELSE Waits[it]
  <2>1. Waits[it] = Count(lanes[it.orderingKey], {it})
        /\ Waits'[it] = Count(lanes'[it.orderingKey], {it})
    BY WaitsCount DEF Waits, Count, Positions
  <2>2. Waits[it] \in Nat
    BY <1>1, WaitsPositive
  <2>3. CASE it.orderingKey = own
    <3>1. lanes'[own] = InsertAfter(lanes[own], n, item)
      BY <1>1, <1>2 DEF QueueTypeOK
    <3>2. Count(lanes'[own], {it}) = Count(lanes[own], {it}) + (IF item \in {it} THEN 1 ELSE 0)
      BY <1>1, <3>1, CountAfterInsert
    <3>3. QED
      BY <2>1, <2>2, <2>3, <3>2
  <2>4. CASE it.orderingKey # own
    <3>1. lanes'[it.orderingKey] = lanes[it.orderingKey]
      BY <1>1, <1>2, <2>4, ItemsAssumption DEF QueueTypeOK
    <3>2. QED
      BY <2>1, <2>4, <3>1
  <2>5. QED
    BY <2>3, <2>4
<1>5. Waits' = [Waits EXCEPT ![item] = @ + 1]
  <2>1. Waits \in [Items -> Nat]
    BY WaitsType
  <2>2. Waits' = [it \in Items |-> Waits'[it]]
    BY DEF Waits
  <2>3. QED
    BY <1>4, <2>1, <2>2
<1>6. running' = running
  BY DEF Enqueue
<1>7. QED
  BY <1>3, <1>5, <1>6, ExecutorActions

\* Taking the head of a lane is what the executor does with its oldest item.
LEMMA TakenHead ==
    ASSUME QueueTypeOK, LanesOwnTheirItems, NEW S \in SUBSET Keys,
           \A key \in S : lanes[key] # <<>>,
           lanes' = [key \in Keys |-> IF key \in S THEN Tail(lanes[key]) ELSE lanes[key]],
           NEW it \in Items
    PROVE  Waits'[it] = IF it.orderingKey \in S /\ Head(lanes[it.orderingKey]) = it
                        THEN Waits[it] - 1 ELSE Waits[it]
<1> DEFINE own == it.orderingKey
<1>1. own \in Keys /\ lanes[own] \in Seq(Items)
  BY ItemsAssumption DEF QueueTypeOK
<1>2. Waits[it] = Count(lanes[own], {it}) /\ Waits'[it] = Count(lanes'[own], {it})
  BY WaitsCount DEF Waits, Count, Positions
<1>3. Waits[it] \in Nat
  BY WaitsPositive
<1>4. CASE own \in S
  <2>1. lanes'[own] = Tail(lanes[own]) /\ lanes[own] # <<>>
    BY <1>1, <1>4
  <2>2. Tail(lanes[own]) \in Seq(Items)
    BY <1>1, <2>1
  <2>3. Count(Tail(lanes[own]), {it}) \in Nat
    BY <2>2, CountType
  <2>4. Count(lanes[own], {it})
            = Count(Tail(lanes[own]), {it}) + (IF Head(lanes[own]) \in {it} THEN 1 ELSE 0)
    BY <1>1, <2>1, CountAfterTail
  <2>5. QED
    BY <1>2, <1>4, <2>1, <2>3, <2>4
<1>5. CASE own \notin S
  <2>1. lanes'[own] = lanes[own]
    BY <1>1, <1>5
  <2>2. QED
    BY <1>2, <1>5, <2>1
<1>6. QED
  BY <1>4, <1>5

\* A drain begins the oldest items of some idle keys, or starts nothing.
LEMMA DrainImplements ==
    ASSUME ExecutorInv, Drain
    PROVE  \/ \E S \in SUBSET Keys : Executor!Begin(S)
           \/ UNCHANGED <<lanes, running>>
<1>1. /\ QueueTypeOK /\ ActiveIffRunning /\ ConcurrencyBound
      /\ LanesSorted /\ LanesOwnTheirItems
  BY DEF ExecutorInv, QueueInv
<1>2. PICK S \in Selections :
         /\ running' = [key \in Keys |->
               IF key \in S THEN Head(lanes[key]) ELSE running[key]]
         /\ lanes' = [key \in Keys |->
               IF key \in S THEN Tail(lanes[key]) ELSE lanes[key]]
  BY DEF Drain
<1>3. /\ S \in SUBSET Keys /\ Cardinality(S) <= FreeSlots
      /\ \A key \in S : lanes[key] # <<>> /\ running[key] = None
  BY <1>1 DEF Selections, Waiting, ActiveIffRunning
<1>4. CASE S = {}
  BY <1>1, <1>2, <1>4 DEF QueueTypeOK
<1>5. CASE S # {}
  <2> DEFINE choice == [key \in S |-> Head(lanes[key])]
  <2>1. \A key \in S :
           /\ Head(lanes[key]) \in Items /\ Head(lanes[key]).orderingKey = key
           /\ Waits[Head(lanes[key])] > 0
           /\ Head(lanes[key]) \in Executor!Oldest(key)
    <3> SUFFICES ASSUME NEW key \in S
                 PROVE  /\ Head(lanes[key]) \in Items /\ Head(lanes[key]).orderingKey = key
                        /\ Waits[Head(lanes[key])] > 0
                        /\ Head(lanes[key]) \in Executor!Oldest(key)
      OBVIOUS
    <3>1. /\ Head(lanes[key]) \in Items
          /\ Head(lanes[key]).orderingKey = key
          /\ Waits[Head(lanes[key])] > 0
          /\ \A other \in Items : other.orderingKey = key /\ Waits[other] > 0
                => Head(lanes[key]).messageId <= other.messageId
      BY <1>1, <1>3, HeadIsOldest
    <3>2. QED
      BY <3>1, ExecutorActions
  <2>2. choice \in [S -> Items] /\ \A key \in S : choice[key] \in Executor!Oldest(key)
    BY <2>1
  <2>3. running' = [key \in Keys |-> IF key \in S THEN choice[key] ELSE running[key]]
    BY <1>2
  <2>4. Cardinality({key \in Keys : running[key] # None}) + Cardinality(S)
            <= MaxConcurrentKeys
    <3>1. {key \in Keys : running[key] # None} = activeKeys
      BY <1>1 DEF ActiveIffRunning, QueueTypeOK
    <3>2. IsFiniteSet(S) /\ IsFiniteSet(activeKeys)
      BY <1>1, <1>3, KeysAssumption, FS_Subset DEF QueueTypeOK
    <3>3. Cardinality(S) \in Nat /\ Cardinality(activeKeys) \in Nat
      BY <3>2, FS_CardinalityType
    <3>4. Cardinality({key \in Keys : running[key] # None}) = Cardinality(activeKeys)
      BY <3>1
    <3>5. Cardinality(activeKeys) + Cardinality(S) <= MaxConcurrentKeys
      BY <1>3, <3>3, ConcurrencyAssumption DEF FreeSlots
    <3>6. QED
      BY <3>4, <3>5
  <2>5. ASSUME NEW it \in Items
        PROVE  Waits'[it] = IF it.orderingKey \in S /\ running'[it.orderingKey] = it
                            THEN Waits[it] - 1 ELSE Waits[it]
    <3>1. Waits'[it] = IF it.orderingKey \in S /\ Head(lanes[it.orderingKey]) = it
                       THEN Waits[it] - 1 ELSE Waits[it]
      BY <1>1, <1>2, <1>3, TakenHead
    <3>2. it.orderingKey \in S => running'[it.orderingKey] = Head(lanes[it.orderingKey])
      BY <1>2, <1>3
    <3>3. QED
      BY <3>1, <3>2
  <2>6. Waits' = [it \in Items |->
           IF it.orderingKey \in S /\ running'[it.orderingKey] = it
           THEN Waits[it] - 1 ELSE Waits[it]]
    <3>1. Waits' = [it \in Items |-> Waits'[it]]
      BY DEF Waits
    <3>2. QED
      BY <2>5, <3>1
  <2>7. \A key \in S :
           /\ running[key] = None
           /\ \E item \in Items : item.orderingKey = key /\ Waits[item] > 0
    BY <1>3, <2>1
  <2>8. Executor!Begin(S)
    <3>1. \E c \in [S -> Items] :
             /\ \A key \in S : c[key] \in Executor!Oldest(key)
             /\ running' = [key \in Keys |-> IF key \in S THEN c[key] ELSE running[key]]
      BY <2>2, <2>3
    <3>2. QED
      BY <1>5, <2>4, <2>6, <2>7, <3>1, ExecutorActions
  <2>9. QED
    BY <1>3, <2>8
<1>6. QED
  BY <1>4, <1>5

\* A worker that settles finishes its item, and the loop goes on or ends.
LEMMA SettleImplements ==
    ASSUME ExecutorInv, NEW key \in Keys, WorkerSettles(key)
    PROVE  Executor!Finish(key)
<1>1. QueueTypeOK /\ LanesSorted /\ LanesOwnTheirItems
  BY DEF ExecutorInv, QueueInv
<1>2. Waits' = [it \in Items |-> Waits'[it]] /\ Waits = [it \in Items |-> Waits[it]]
  BY DEF Waits
<1>3. CASE SettleAndContinue(key)
  <2> DEFINE head == Head(lanes[key])
  <2>1. /\ running[key] # None /\ lanes[key] # <<>>
        /\ running' = [running EXCEPT ![key] = head]
        /\ lanes' = [lanes EXCEPT ![key] = Tail(lanes[key])]
    BY <1>3 DEF SettleAndContinue
  <2>2. lanes' = [k \in Keys |-> IF k \in {key} THEN Tail(lanes[k]) ELSE lanes[k]]
    BY <1>1, <2>1 DEF QueueTypeOK
  <2>3. {key} \in SUBSET Keys /\ \A k \in {key} : lanes[k] # <<>>
    BY <2>1
  <2>4. /\ head \in Items /\ head.orderingKey = key /\ Waits[head] > 0
        /\ \A other \in Items : other.orderingKey = key /\ Waits[other] > 0
              => head.messageId <= other.messageId
    BY <1>1, <2>1, HeadIsOldest
  <2>5. head \in Executor!Oldest(key)
    BY <2>4, ExecutorActions
  <2>6. ASSUME NEW it \in Items
        PROVE  Waits'[it] = IF it = head THEN Waits[it] - 1 ELSE Waits[it]
    <3>1. Waits'[it] = IF it.orderingKey \in {key} /\ Head(lanes[it.orderingKey]) = it
                       THEN Waits[it] - 1 ELSE Waits[it]
      BY <1>1, <2>2, <2>3, TakenHead
    <3>2. it = head <=> (it.orderingKey \in {key} /\ Head(lanes[it.orderingKey]) = it)
      BY <2>4
    <3>3. QED
      BY <3>1, <3>2
  <2>7. Waits' = [it \in Items |-> IF it = head THEN Waits[it] - 1 ELSE Waits[it]]
    BY <1>2, <2>6
  <2>8. \E next \in Executor!Oldest(key) \cup {None} :
           /\ running' = [running EXCEPT ![key] = next]
           /\ Waits' = [it \in Items |-> IF it = next THEN Waits[it] - 1 ELSE Waits[it]]
    BY <2>1, <2>5, <2>7
  <2>9. QED
    BY <2>1, <2>8, ExecutorActions
<1>4. CASE SettleAndExit(key)
  <2>1. running[key] # None /\ running' = [running EXCEPT ![key] = None] /\ lanes' = lanes
    BY <1>4 DEF SettleAndExit
  <2>2. Waits' = Waits
    BY <2>1 DEF Waits
  <2>3. Waits' = [it \in Items |-> IF it = None THEN Waits[it] - 1 ELSE Waits[it]]
    BY <1>2, <2>2, NoneAssumption
  <2>4. None \in Executor!Oldest(key) \cup {None}
    OBVIOUS
  <2>5. \E next \in Executor!Oldest(key) \cup {None} :
           /\ running' = [running EXCEPT ![key] = next]
           /\ Waits' = [it \in Items |-> IF it = next THEN Waits[it] - 1 ELSE Waits[it]]
    BY <2>1, <2>3, <2>4
  <2>6. QED
    BY <2>1, <2>5, ExecutorActions
<1>5. QED
  BY <1>3, <1>4 DEF WorkerSettles

\* Every step of the queue is a step of the executor or none.
LEMMA NextImplements ==
    ExecutorInv /\ [QueueNext]_queueVars => [Executor!Next]_(Executor!vars)
<1> SUFFICES ASSUME ExecutorInv, [QueueNext]_queueVars
             PROVE  [Executor!Next]_(Executor!vars)
  OBVIOUS
<1>1. ASSUME UNCHANGED <<lanes, running>>
      PROVE  UNCHANGED Executor!vars
  <2>1. Waits' = Waits
    BY <1>1 DEF Waits
  <2>2. Executor!vars = <<Waits, running>>
    BY DEF Executor!vars, Waits
  <2>3. QED
    BY <1>1, <2>1, <2>2 DEF Executor!vars, Waits
<1>2. ASSUME NEW item \in Items, Enqueue(item)
      PROVE  Executor!Next
  BY <1>2, EnqueueImplements DEF Executor!Next
<1>3. CASE Drain
  BY <1>1, <1>3, DrainImplements DEF Executor!Next
<1>4. ASSUME NEW key \in Keys, WorkerSettles(key)
      PROVE  Executor!Next
  BY <1>4, SettleImplements DEF Executor!Next
<1>5. CASE UNCHANGED queueVars
  BY <1>1, <1>5 DEF queueVars
<1>6. QED
  BY <1>2, <1>3, <1>4, <1>5 DEF QueueNext

\* The queue implements the executor, step by step, for any keys, items and
\* concurrency limit: what is refused, started and finished, and in which
\* order, is what SerialExecutor says.
THEOREM QueueImplementsExecutor ==
    QueueSpec => Executor!Init /\ [][Executor!Next]_(Executor!vars)
<1>1. QueueInit => ExecutorInv /\ Executor!Init
  BY InitQueueInv, InitSeen, InitImplements DEF ExecutorInv
<1>2. ExecutorInv /\ [QueueNext]_queueVars => ExecutorInv'
  <2> SUFFICES ASSUME ExecutorInv, [QueueNext]_queueVars PROVE ExecutorInv'
    OBVIOUS
  <2>1. QueueInv' /\ SeenCountsInFlight'
    BY QueueNextKeepsInv, QueueNextKeepsCounts DEF ExecutorInv
  <2>2. LanesOwnTheirItems'
    BY LanesOwnStep DEF ExecutorInv, QueueInv
  <2>3. QED
    BY <2>1, <2>2 DEF ExecutorInv
<1>3. QED
  BY <1>1, <1>2, NextImplements, PTL DEF QueueSpec

-----------------------------------------------------------------------------
(***************************************************************************)
(* The runtime.                                                            *)
(***************************************************************************)

\* The tables message_processing and retry_job.
RowsAndJobs == <<rowState, retryJob>>

JobsTypeOK ==
    /\ rowState \in [Messages -> RowStates]
    /\ retryJob \in [Messages -> Nat]

\* What a handler that runs to its next await may do to the two tables.
StoreEffect ==
    \/ UNCHANGED RowsAndJobs
    \/ \E m : Acquire(m) /\ UNCHANGED retryJob
    \/ \E m : rowState[m] \in Resolved /\ DeleteRetryJob(m) /\ UNCHANGED rowState
    \/ \E m : MarkRow(m, "rerun_requested") /\ UNCHANGED retryJob
    \/ \E m : ScheduleRetry(m)
    \/ \E m : \E state \in Resolved : ResolveAs(m, state)

\* What a crash may do to them on top of that.
CutShortEffect ==
    /\ phase' = "down"
    /\ (\E key \in Keys : CutShort(key)) \/ (\E d \in Drains : RunnerCutShort(d))

-----------------------------------------------------------------------------
\* The two early answers of tryAcquire name resolved rows.
LEMMA SkippedRowsAreResolved ==
    ASSUME NEW m, NEW allowPendingRetryAcquire,
           AcquireStatus(m, allowPendingRetryAcquire) \in
               {"already_completed", "already_terminal_failure_notified"}
    PROVE  rowState[m] \in Resolved
BY DEF AcquireStatus, Resolved

\* Each handler of a queue item amounts to one store operation.
LEMMA ProcessIsStoreEffect ==
    ASSUME NEW key, Process(key)
    PROVE  StoreEffect /\ UNCHANGED crashes
<1>1. CASE Begin(key)
  BY <1>1, SkippedRowsAreResolved
     DEF Begin, StoreEffect, RowsAndJobs, storeVars, boundVars
<1>2. CASE Gate(key)
  BY <1>2 DEF Gate, GatePasses, GateConcludes, GateThrows, WorkerThrows, Continue,
              Complete, Fault, StoreEffect, RowsAndJobs, storeVars, boundVars, Resolved
<1>3. CASE Work(key)
  <2>1. CASE WorkSucceeds(key) /\ UNCHANGED boundVars
    BY <2>1 DEF WorkSucceeds, Stop, Continue, Complete, StoreEffect, RowsAndJobs,
                storeVars, boundVars, Resolved
  <2>2. CASE WorkFails(key) /\ Fault
    BY <2>2 DEF WorkFails, Catch, HandleFailure, Fault, StoreEffect, RowsAndJobs,
                storeVars
  <2>3. QED
    BY <1>3, <2>1, <2>2 DEF Work
<1>4. CASE FailurePath(key)
  <2>1. CASE NoticeSettles(key)
    BY <2>1 DEF NoticeSettles, Continue, StoreEffect, RowsAndJobs, storeVars, boundVars
  <2>2. CASE TerminalNoticeSettles(key)
    BY <2>2 DEF TerminalNoticeSettles, StoreEffect, boundVars, Resolved
  <2>3. CASE PermanentNoticeThrows(key)
    BY <2>3 DEF PermanentNoticeThrows, Stop, HandleFailure, WorkerThrows, Fault,
                StoreEffect, RowsAndJobs, storeVars
  <2>4. QED
    BY <1>4, <2>1, <2>2, <2>3 DEF FailurePath
<1>5. QED
  BY <1>1, <1>2, <1>3, <1>4 DEF Process

\* So does each step of the retry runner.
LEMMA RunnerIsStoreEffect ==
    ASSUME NEW d, RetryRunner(d)
    PROVE  StoreEffect /\ UNCHANGED crashes
BY DEF RetryRunner, FetchSucceeds, FetchFails, RunnerNoticeSettles,
       RunnerTerminalNoticeSettles, RunnerPermanentNoticeThrows, Fault, StoreEffect,
       RowsAndJobs, storeVars, boundVars, Resolved

\* Every step but a crash in mid-handler is one store operation or none, and
\* only Crash counts a crash.
LEMMA StepsAreStoreEffects ==
    ASSUME [Next]_vars
    PROVE  \/ StoreEffect /\ (UNCHANGED crashes \/ Crash)
           \/ CutShortEffect /\ Crash
<1>1. CASE DrainQueue
  BY <1>1 DEF DrainQueue, StoreEffect, RowsAndJobs, storeVars, boundVars
<1>2. CASE \E key \in Keys : Process(key) \/ SwitchWorkflow(key)
  BY <1>2, ProcessIsStoreEffect DEF SwitchWorkflow, StoreEffect
<1>3. CASE \E d \in Drains : Poll(d) \/ RetryRunner(d) \/ StartupFails(d)
  BY <1>3, RunnerIsStoreEffect
     DEF Poll, StartupFails, Fault, StoreEffect, RowsAndJobs, storeVars, boundVars
<1>4. CASE \E m \in Messages : Post(m) \/ IntakeEnds(m) \/ Clock(m)
  BY <1>4 DEF Post, IntakeEnds, Clock, LeaseExpires, JobFallsDue, StoreEffect,
              RowsAndJobs, storeVars, boundVars
<1>5. CASE Startup \/ Restart
  BY <1>5 DEF Startup, RecoverChannel, FetchBacklog, ReplayNext, StartupDrain, StartupEnds, Restart,
              Fault, StoreEffect, RowsAndJobs, storeVars, boundVars
<1>6. CASE Crash
  BY <1>6 DEF Crash, CutShortEffect, LoseMemory, StoreEffect, RowsAndJobs, storeVars
<1>7. CASE UNCHANGED vars
  BY <1>7 DEF vars, StoreEffect, RowsAndJobs, storeVars, boundVars
<1>8. QED
  BY <1>1, <1>2, <1>3, <1>4, <1>5, <1>6, <1>7 DEF Next

-----------------------------------------------------------------------------
\* What is left on disk by a handler cut short, and of which message.
LEMMA CutShortCases ==
    ASSUME CutShortEffect
    PROVE  \E m : \/ DuplicateCutShort(m)
                  \/ \E state \in Resolved : ResolveCutShort(m, state)
                  \/ ScheduleCutShort(m)
<1>1. "completed" \in Resolved /\ "terminal_failure_notified" \in Resolved
  BY DEF Resolved
<1>2. ASSUME NEW key \in Keys, CutShort(key)
      PROVE  \/ DuplicateCutShort(Current(key))
             \/ \E state \in Resolved : ResolveCutShort(Current(key), state)
             \/ ScheduleCutShort(Current(key))
  BY <1>1, <1>2 DEF CutShort
<1>3. ASSUME NEW d \in Drains, RunnerCutShort(d)
      PROVE  \/ \E state \in Resolved : ResolveCutShort(Job(d).message, state)
             \/ ScheduleCutShort(Job(d).message)
  BY <1>1, <1>3 DEF RunnerCutShort
<1>4. QED
  BY <1>2, <1>3 DEF CutShortEffect

\* The store operations keep the two tables well typed.
LEMMA EffectsKeepTypes ==
    ASSUME JobsTypeOK, StoreEffect \/ CutShortEffect
    PROVE  JobsTypeOK'
<1> USE DEF JobsTypeOK, RowStates, Resolved, MarkRow, UpsertRetryJob, DeleteRetryJob
<1>1. CASE StoreEffect
  BY <1>1 DEF StoreEffect, RowsAndJobs, Acquire, ScheduleRetry, ResolveAs
<1>2. ASSUME NEW m, \/ DuplicateCutShort(m)
                    \/ \E state \in Resolved : ResolveCutShort(m, state)
                    \/ ScheduleCutShort(m)
      PROVE  JobsTypeOK'
  BY <1>2 DEF DuplicateCutShort, ResolveCutShort, ScheduleCutShort
<1>3. CASE CutShortEffect
  BY <1>2, <1>3, CutShortCases
<1>4. QED
  BY <1>1, <1>3

\* A store operation that runs to its end strands no row: schedule() writes
\* the job and the row, and a job is deleted only with a resolved row.
LEMMA EffectsKeepJobs ==
    ASSUME JobsTypeOK, StoreEffect, NEW m \in Messages,
           rowState'[m] = "pending_retry", retryJob'[m] = 0
    PROVE  rowState[m] = "pending_retry" /\ retryJob[m] = 0
<1> USE DEF JobsTypeOK, Resolved, MarkRow, UpsertRetryJob, DeleteRetryJob
<1>1. CASE UNCHANGED RowsAndJobs
  BY <1>1 DEF RowsAndJobs
<1>2. ASSUME NEW n, Acquire(n) /\ UNCHANGED retryJob
      PROVE  rowState[m] = "pending_retry" /\ retryJob[m] = 0
  BY <1>2 DEF Acquire
<1>3. ASSUME NEW n, rowState[n] \in Resolved, DeleteRetryJob(n), UNCHANGED rowState
      PROVE  rowState[m] = "pending_retry" /\ retryJob[m] = 0
  BY <1>3
<1>4. ASSUME NEW n, MarkRow(n, "rerun_requested") /\ UNCHANGED retryJob
      PROVE  rowState[m] = "pending_retry" /\ retryJob[m] = 0
  BY <1>4
<1>5. ASSUME NEW n, ScheduleRetry(n)
      PROVE  rowState[m] = "pending_retry" /\ retryJob[m] = 0
  BY <1>5 DEF ScheduleRetry
<1>6. ASSUME NEW n, NEW state \in Resolved, ResolveAs(n, state)
      PROVE  rowState[m] = "pending_retry" /\ retryJob[m] = 0
  BY <1>6 DEF ResolveAs
<1>7. QED
  BY <1>1, <1>2, <1>3, <1>4, <1>5, <1>6 DEF StoreEffect

\* A handler cut short strands a row only while it concludes that message and
\* the row was, or had been put back to, pending_retry.
LEMMA CutShortStrandsOnlyConclusions ==
    ASSUME JobsTypeOK, CutShortEffect, NEW m \in Messages,
           rowState'[m] = "pending_retry", retryJob'[m] = 0,
           rowState[m] # "pending_retry" \/ retryJob[m] > 0
    PROVE  phase' = "down" /\ rowState[m] = "pending_retry" /\ BeingConcluded(m)
<1> USE DEF JobsTypeOK, MarkRow, UpsertRetryJob, DeleteRetryJob
<1>1. ASSUME NEW n, NEW state \in Resolved, ResolveCutShort(n, state)
      PROVE  rowState[m] = "pending_retry" /\ n = m
  BY <1>1 DEF ResolveCutShort, Resolved
<1>2. ASSUME NEW n, ScheduleCutShort(n)
      PROVE  FALSE
  BY <1>2 DEF ScheduleCutShort
<1>3. ASSUME NEW n, DuplicateCutShort(n)
      PROVE  FALSE
  BY <1>3 DEF DuplicateCutShort
<1>4. "completed" \in Resolved /\ "terminal_failure_notified" \in Resolved
  BY DEF Resolved
<1>5. ASSUME NEW key \in Keys, CutShort(key)
      PROVE  rowState[m] = "pending_retry" /\ BeingConcluded(m)
  <2>1. rowState[m] = "pending_retry" /\ Current(key) = m
    BY <1>1, <1>2, <1>3, <1>4, <1>5 DEF CutShort
  <2>2. run[key].phase \in InHand
    BY <1>2, <1>3, <1>5 DEF CutShort, InHand, GatePhases, WorkPhases, FailurePhases
  <2>3. QED
    BY <2>1, <2>2 DEF BeingConcluded, InProcess
<1>6. ASSUME NEW d \in Drains, RunnerCutShort(d)
      PROVE  rowState[m] = "pending_retry" /\ BeingConcluded(m)
  <2>1. runner[d].step \in {"permanent", "forum_notify"}
        /\ ResolveCutShort(Job(d).message, "terminal_failure_notified")
    BY <1>2, <1>6 DEF RunnerCutShort
  <2>2. rowState[m] = "pending_retry" /\ Job(d).message = m
    BY <1>1, <1>4, <2>1
  <2>3. QED
    BY <2>1, <2>2 DEF BeingConcluded
<1>7. QED
  BY <1>5, <1>6 DEF CutShortEffect

-----------------------------------------------------------------------------
\* The tables stay well typed.
THEOREM JobsTypeCorrect == Spec => []JobsTypeOK
<1>1. Init => JobsTypeOK
  BY DEF Init, StoreInit, JobsTypeOK, RowStates
<1>2. JobsTypeOK /\ [Next]_vars => JobsTypeOK'
  BY StepsAreStoreEffects, EffectsKeepTypes
<1>3. QED
  BY <1>1, <1>2, PTL DEF Spec

\* Wherever the process dies, in a lane or in a drain of the retry runner, the order of
\* the statements in schedule(), the acquisition and a switch strand no row; only a
\* conclusion cut short does, of a message whose row is in pending_retry already.
THEOREM CrashesStrandOnlyCutConclusions == Spec => OnlyCutConclusionStrands
<1> DEFINE CutOnly ==
       \A m \in Messages :
          /\ rowState'[m] = "pending_retry" /\ retryJob'[m] = 0
          /\ rowState[m] # "pending_retry" \/ retryJob[m] > 0
          => phase' = "down" /\ rowState[m] = "pending_retry" /\ BeingConcluded(m)
<1>1. JobsTypeOK /\ [Next]_vars => [CutOnly]_vars
  <2> SUFFICES ASSUME JobsTypeOK, Next, NEW m \in Messages,
                      rowState'[m] = "pending_retry", retryJob'[m] = 0,
                      rowState[m] # "pending_retry" \/ retryJob[m] > 0
               PROVE  phase' = "down" /\ rowState[m] = "pending_retry" /\ BeingConcluded(m)
    OBVIOUS
  <2>1. CASE StoreEffect
    <3>1. rowState[m] = "pending_retry" /\ retryJob[m] = 0
      BY <2>1, EffectsKeepJobs
    <3>2. QED
      BY <3>1
  <2>2. CASE CutShortEffect
    BY <2>2, CutShortStrandsOnlyConclusions
  <2>3. QED
    BY <2>1, <2>2, StepsAreStoreEffects
<1>2. QED
  BY <1>1, JobsTypeCorrect, PTL DEF Spec, OnlyCutConclusionStrands

-----------------------------------------------------------------------------
(***************************************************************************)
(* The shape of the memory.                                                *)
(***************************************************************************)

\* The items of a message, its channel, and the sets they belong to.
LEMMA MessageItems ==
    ASSUME NEW m \in Messages
    PROVE  /\ ChannelOf[m] \in Keys /\ m \in Nat \ {0}
           /\ \A source \in Sources :
                 /\ QueueItem(m, source) \in Items
                 /\ QueueItem(m, source).messageId = m
                 /\ QueueItem(m, source).orderingKey = ChannelOf[m]
                 /\ QueueItem(m, source).source = source
BY RuntimeItems, PlaceAssumption, ChannelAssumption, MessagesAssumption
   DEF Channels, QueueItem, Sources

\* An item is the item of a message.
LEMMA ItemsOfMessages ==
    ASSUME NEW item \in Items
    PROVE  /\ item.messageId \in Messages /\ item.source \in Sources
           /\ item.orderingKey = ChannelOf[item.messageId]
           /\ item = QueueItem(item.messageId, item.source)
BY RuntimeItems DEF QueueItem, Sources

\* The ids of the queue are the messages.
LEMMA IdsAreMessages == MessageIds = Messages
<1>1. "live" \in Sources
  BY DEF Sources
<1>2. \A m \in Messages : m \in MessageIds
  BY <1>1, MessageItems DEF MessageIds
<1>3. \A id \in MessageIds : id \in Messages
  BY ItemsOfMessages DEF MessageIds
<1>4. QED
  BY <1>2, <1>3

\* process() is under way for a key exactly while the queue runs an item of it.
RunShape == \A key \in Keys : run[key].phase = "idle" <=> running[key] = None

\* A drain is under way exactly while it has jobs left.
RunnerShape == \A d \in Drains : runner[d].step = "idle" <=> runner[d].jobs = <<>>

\* The queue, the types and the shape of the handlers, inductive together.
RuntimeInv ==
    /\ TypeOK
    /\ QueueInv
    /\ SeenCountsInFlight
    /\ LanesOwnTheirItems
    /\ RunShape
    /\ RunnerShape

\* The run of a key, with its item.
LEMMA RunOfKey ==
    ASSUME RuntimeInv, NEW key \in Keys, run[key].phase # "idle"
    PROVE  /\ running[key] \in Items /\ running[key] # None
           /\ Current(key) \in Messages /\ running[key].source \in Sources
           /\ ChannelOf[Current(key)] = key
           /\ running[key] = QueueItem(Current(key), running[key].source)
           /\ run[key] \in Runs
<1>1. running[key] # None
  BY DEF RuntimeInv, RunShape
<1>2. running[key] \in Items /\ run[key] \in Runs
  BY <1>1 DEF RuntimeInv, TypeOK, QueueTypeOK
<1>3. running[key].orderingKey = key
  BY <1>1 DEF RuntimeInv, LanesOwnTheirItems
<1>4. QED
  BY <1>1, <1>2, <1>3, ItemsOfMessages DEF Current

\* What the run of a key is replaced by: a started one, or one further on.
LEMMA RunRecords ==
    /\ NoRun \in Runs /\ NoRun.phase = "idle"
    /\ [NoRun EXCEPT !.phase = "start"] \in Runs
    /\ [NoRun EXCEPT !.phase = "start"].phase = "start"
    /\ \A r \in Runs : \A step \in InHand :
          /\ [r EXCEPT !.phase = step] \in Runs
          /\ [r EXCEPT !.phase = step].phase = step
          /\ [r EXCEPT !.phase = step].retryable = r.retryable
    /\ "idle" \notin InHand /\ "start" \notin InHand
BY DEF Runs, NoRun, InHand, GatePhases, WorkPhases, FailurePhases

-----------------------------------------------------------------------------
(***************************************************************************)
(* What process() may do in one step.                                      *)
(***************************************************************************)

\* The answer of a step, and the failed call it may end with.
Speaks(key) ==
    \/ answers' = answers /\ faults' = faults
    \/ answers' = answers /\ faults' = faults + 1
    \/ /\ run[key].phase = "dispatch"
       /\ answers' = [answers EXCEPT ![Current(key)] = @ + 1]
       /\ faults' \in {faults, faults + 1}

Silent == answers' = answers /\ faults' = faults

\* May the run still answer?
MayAnswer(r) ==
    \/ r.phase \in {"admission", "preflight", "route",
                    "redirect", "bootstrap", "resolve", "dispatch"}
    \/ r.phase = "notify" /\ r.retryable

Takes(key) ==
    /\ run[key].phase = "start"
    /\ AcquireStatus(Current(key), running[key].source = "retry") = "acquired"
    /\ Acquire(Current(key))
    /\ rerunRequested' = IF running[key].source = "workflow_switch_rerun"
                         THEN rerunRequested \ {Current(key)} ELSE rerunRequested
    /\ run' = [run EXCEPT ![key] = [run[key] EXCEPT !.phase = "admission"]]
    /\ UNCHANGED <<queueVars, retryJob, due, cursor, lost>>
    /\ Silent

Skips(key) ==
    /\ run[key].phase = "start"
    /\ rowState[Current(key)] \in Resolved
    /\ DeleteRetryJob(Current(key))
    /\ AdvanceCursor(Current(key))
    /\ Settle(key)
    /\ UNCHANGED <<rowState, leaseLive, rerunRequested, lost>>
    /\ Silent

Refuses(key) ==
    /\ run[key].phase = "start"
    /\ rowState[Current(key)] \in {"processing", "pending_retry"}
    /\ Settle(key)
    /\ UNCHANGED <<storeVars, rerunRequested, lost>>
    /\ Silent

GoesOn(key) ==
    /\ run[key].phase \in InHand
    /\ \E r \in Runs :
          /\ r.phase \in InHand
          /\ run' = [run EXCEPT ![key] = r]
          /\ \/ /\ Silent
                /\ MayAnswer(r) => MayAnswer(run[key])
                /\ r.phase = "dispatch" => ~MustStop(key)
             \/ /\ run[key].phase = "dispatch"
                /\ answers' = [answers EXCEPT ![Current(key)] = @ + 1]
                /\ r.phase = "moderation"
                /\ faults' = faults
             \/ /\ faults' = faults + 1
                /\ \/ answers' = answers
                   \/ /\ run[key].phase = "dispatch"
                      /\ answers' = [answers EXCEPT ![Current(key)] = @ + 1]
    /\ UNCHANGED <<queueVars, storeVars, rerunRequested, lost>>

Concludes(key) ==
    /\ run[key].phase \in InHand
    /\ \E state \in Resolved : ResolveAs(Current(key), state)
    /\ Settle(key)
    /\ UNCHANGED <<rerunRequested, lost>>
    /\ Silent

GivesUp(key) ==
    /\ run[key].phase \in InHand
    /\ lost' = lost \cup {Current(key)}
    /\ Settle(key)
    /\ UNCHANGED <<storeVars, rerunRequested>>
    /\ answers' = answers /\ faults' = faults + 1

Stops(key) ==
    /\ run[key].phase \in InHand
    /\ MustStop(key)
    /\ Settle(key)
    /\ UNCHANGED <<storeVars, rerunRequested, lost>>
    /\ Speaks(key)

Postpones(key) ==
    /\ run[key].phase = "notify" /\ run[key].retryable
    /\ ScheduleRetry(Current(key))
    /\ Settle(key)
    /\ UNCHANGED <<rerunRequested, lost>>
    /\ Silent

ProcessStep(key) ==
    \/ Takes(key) \/ Skips(key) \/ Refuses(key) \/ GoesOn(key)
    \/ Concludes(key) \/ GivesUp(key) \/ Stops(key) \/ Postpones(key)

\* What process() leaves alone.
ElsewhereUnchanged ==
    UNCHANGED <<runner, intake, replay, unrecovered, phase, posted, switches, crashes>>

\* The first await of process() goes on with its message or ends with it.
LEMMA BeginCases ==
    ASSUME RuntimeInv, NEW key \in Keys, Begin(key)
    PROVE  ProcessStep(key) /\ ElsewhereUnchanged /\ phase # "down"
<1> DEFINE m == Current(key)
           status == AcquireStatus(m, running[key].source = "retry")
<1>1. ElsewhereUnchanged /\ phase # "down" /\ Silent /\ run[key].phase = "start"
      /\ lost' = lost
  BY DEF Begin, At, ElsewhereUnchanged, boundVars, historyVars, Silent
<1>2. \/ /\ status = "acquired"
         /\ Acquire(m)
         /\ rerunRequested' = IF running[key].source = "workflow_switch_rerun"
                              THEN rerunRequested \ {m} ELSE rerunRequested
         /\ GoTo(key, "admission")
         /\ UNCHANGED <<queueVars, retryJob, due, cursor>>
      \/ /\ status \in {"already_completed", "already_terminal_failure_notified"}
         /\ AdvanceCursor(m)
         /\ DeleteRetryJob(m)
         /\ Settle(key)
         /\ UNCHANGED <<rowState, leaseLive, rerunRequested>>
      \/ /\ status \in {"in_flight", "pending_retry"}
         /\ Settle(key)
         /\ UNCHANGED <<storeVars, rerunRequested>>
  BY DEF Begin
<1>3. status \in {"already_completed", "already_terminal_failure_notified"}
         => rowState[m] \in Resolved
  BY SkippedRowsAreResolved
<1>4. status \in {"in_flight", "pending_retry"}
         => rowState[m] \in {"processing", "pending_retry"}
  BY DEF AcquireStatus
<1>5. CASE status = "acquired" /\ GoTo(key, "admission")
  BY <1>1, <1>2, <1>5 DEF ProcessStep, Takes, GoTo, TypeOK, RuntimeInv
<1>6. CASE status \in {"already_completed", "already_terminal_failure_notified"}
  BY <1>1, <1>2, <1>3, <1>6 DEF ProcessStep, Skips
<1>7. CASE status \in {"in_flight", "pending_retry"}
  BY <1>1, <1>2, <1>4, <1>7 DEF ProcessStep, Refuses
<1>8. QED
  BY <1>2, <1>5, <1>6, <1>7

\* The run of a key goes on at a phase in hand.
LEMMA GoToRun ==
    ASSUME RuntimeInv, NEW key \in Keys, run[key] \in Runs, NEW step \in InHand,
           GoTo(key, step)
    PROVE  \E r \in Runs :
              /\ r.phase = step
              /\ run' = [run EXCEPT ![key] = r]
<1> DEFINE r == [run[key] EXCEPT !.phase = step]
<1>1. r \in Runs /\ r.phase = step
  BY RunRecords
<1>2. run' = [run EXCEPT ![key] = r]
  BY DEF GoTo, RuntimeInv, TypeOK
<1> HIDE DEF r
<1>3. QED
  BY <1>1, <1>2

\* A run that goes on without an answer or a failure.
LEMMA ContinueGoesOn ==
    ASSUME RuntimeInv, NEW key \in Keys, run[key].phase \in InHand, NEW step \in InHand,
           Continue(key, step), UNCHANGED boundVars,
           step \in {"preflight", "route", "bootstrap", "resolve", "dispatch"}
               => MayAnswer(run[key]),
           step = "dispatch" => ~MustStop(key),
           step \notin {"admission", "redirect", "notify"}
    PROVE  GoesOn(key)
<1>1. run[key] \in Runs
  BY RunOfKey, RunRecords
<1>2. PICK r \in Runs : r.phase = step /\ run' = [run EXCEPT ![key] = r]
  BY <1>1, GoToRun DEF Continue
<1>3. MayAnswer(r) => MayAnswer(run[key])
  BY <1>2 DEF MayAnswer
<1>4. Silent
  BY DEF Continue, Silent, historyVars, boundVars
<1>5. /\ r.phase \in InHand
      /\ run' = [run EXCEPT ![key] = r]
      /\ Silent /\ (MayAnswer(r) => MayAnswer(run[key])) /\ (r.phase = "dispatch" => ~MustStop(key))
  BY <1>2, <1>3, <1>4
<1>6. UNCHANGED <<queueVars, storeVars, rerunRequested, lost>>
  BY DEF Continue, historyVars
<1>7. QED
  BY <1>5, <1>6 DEF GoesOn

\* Completing the row of a message concludes its run.
LEMMA CompleteConcludes ==
    ASSUME NEW key, run[key].phase \in InHand, Complete(key), UNCHANGED boundVars
    PROVE  Concludes(key)
BY DEF Complete, Concludes, Resolved, Silent, historyVars, boundVars

\* The gates of process() hand the message on, answer it, or give it up.
LEMMA GateCases ==
    ASSUME RuntimeInv, NEW key \in Keys, Gate(key)
    PROVE  ProcessStep(key) /\ ElsewhereUnchanged /\ phase # "down"
<1>1. ElsewhereUnchanged /\ phase # "down"
  BY DEF Gate, ElsewhereUnchanged, boundVars, Fault
<1> SUFFICES ProcessStep(key)
  BY <1>1
<1>2. CASE GatePasses(key) /\ UNCHANGED boundVars
  <2>1. CASE At(key, "admission") /\ Continue(key, "preflight")
    BY <1>2, <2>1, ContinueGoesOn
       DEF At, InHand, GatePhases, WorkPhases, FailurePhases, MayAnswer, ProcessStep
  <2>2. CASE At(key, "preflight") /\ Continue(key, "route")
    BY <1>2, <2>2, ContinueGoesOn
       DEF At, InHand, GatePhases, WorkPhases, FailurePhases, MayAnswer, ProcessStep
  <2>3. ASSUME At(key, "route"), NEW forum \in BOOLEAN,
               run' = [run EXCEPT ![key] =
                         [NoRun EXCEPT !.phase = "redirect", !.forum = forum]],
               UNCHANGED <<queueVars, storeVars, rerunRequested, historyVars>>
        PROVE  GoesOn(key)
    <3> DEFINE r == [NoRun EXCEPT !.phase = "redirect", !.forum = forum]
    <3>1. r \in Runs /\ r.phase = "redirect" /\ "redirect" \in InHand
      BY DEF NoRun, Runs, InHand, GatePhases, WorkPhases, FailurePhases
    <3>2. run' = [run EXCEPT ![key] = r]
      BY <2>3
    <3> HIDE DEF r
    <3>3. run[key].phase \in InHand /\ MayAnswer(run[key])
      BY <2>3 DEF At, InHand, GatePhases, MayAnswer
    <3>4. Silent /\ UNCHANGED <<queueVars, storeVars, rerunRequested, lost>>
      BY <1>2, <2>3 DEF Silent, historyVars, boundVars
    <3>5. QED
      BY <3>1, <3>2, <3>3, <3>4 DEF GoesOn
  <2>4. \A forum \in IF key \in GatewayKeys THEN BOOLEAN ELSE {key \in ForumKeys} :
           forum \in BOOLEAN
    OBVIOUS
  <2>5. QED
    BY <1>2, <2>1, <2>2, <2>3, <2>4 DEF GatePasses, ProcessStep
<1>3. CASE GateConcludes(key) /\ UNCHANGED boundVars
  BY <1>3, CompleteConcludes DEF GateConcludes, InHand, ProcessStep
<1>4. CASE GateThrows(key) /\ Fault
  BY <1>4 DEF GateThrows, WorkerThrows, Fault, GivesUp, InHand, ProcessStep
<1>5. QED
  BY <1>2, <1>3, <1>4 DEF Gate

\* A failure that is handled goes on with a notice.
LEMMA HandledGoesOn ==
    ASSUME RuntimeInv, NEW key \in Keys, run[key].phase \in InHand,
           NEW kind \in ErrorKinds, NEW stage \in Stages, NEW nested \in BOOLEAN,
           HandleFailure(key, kind, stage, nested), faults' = faults + 1,
           \/ answers' = answers
           \/ /\ run[key].phase = "dispatch"
              /\ answers' = [answers EXCEPT ![Current(key)] = @ + 1]
    PROVE  GoesOn(key)
<1> DEFINE r == [phase |-> IF run[key].forum THEN "forum_notify" ELSE "notify",
                 forum |-> run[key].forum,
                 retryable |-> Retryable(kind, stage, retryJob[Current(key)]),
                 nested |-> nested]
<1>1. run[key] \in Runs
  BY RunOfKey, RunRecords
<1>2. run[key].forum \in BOOLEAN
  BY <1>1 DEF Runs
<1>3. r \in Runs /\ r.phase \in InHand
  BY <1>2 DEF Runs, InHand, FailurePhases, Retryable
<1>4. run' = [run EXCEPT ![key] = r] /\ UNCHANGED <<queueVars, storeVars, rerunRequested, lost>>
  BY DEF HandleFailure
<1> HIDE DEF r
<1>5. QED
  BY <1>3, <1>4 DEF GoesOn

\* A caught error stops the run or is taken on by the failure path.
LEMMA CatchCases ==
    ASSUME RuntimeInv, NEW key \in Keys, run[key].phase \in InHand,
           NEW kind \in ErrorKinds, NEW stage \in Stages,
           Catch(key, kind, stage), faults' = faults + 1,
           \/ answers' = answers
           \/ /\ run[key].phase = "dispatch"
              /\ answers' = [answers EXCEPT ![Current(key)] = @ + 1]
    PROVE  Stops(key) \/ GoesOn(key)
<1>1. CASE MustStop(key) /\ Settle(key) /\ UNCHANGED <<storeVars, rerunRequested, lost>>
  BY <1>1 DEF Stops, Speaks
<1>2. CASE HandleFailure(key, kind, stage, FALSE)
  BY <1>2, HandledGoesOn
<1>3. QED
  BY <1>1, <1>2 DEF Catch

\* The harness and the dispatch go on, conclude, or end in the failure path.
LEMMA WorkCases ==
    ASSUME RuntimeInv, NEW key \in Keys, Work(key)
    PROVE  ProcessStep(key) /\ ElsewhereUnchanged /\ phase # "down"
<1>1. ElsewhereUnchanged /\ phase # "down"
  BY DEF Work, ElsewhereUnchanged, boundVars, Fault
<1> SUFFICES ProcessStep(key)
  BY <1>1
<1>2. WorkPhases \subseteq InHand
  BY DEF InHand
<1>3. CASE WorkSucceeds(key) /\ UNCHANGED boundVars
  <2>1. CASE /\ At(key, "redirect")
             /\ \/ MustStop(key) /\ Stop(key)
                \/ ~MustStop(key) /\ (Complete(key) \/ Continue(key, "bootstrap"))
    <3>1. run[key].phase \in InHand /\ MayAnswer(run[key]) /\ "bootstrap" \in InHand
      BY <1>2, <2>1 DEF At, WorkPhases, MayAnswer
    <3>2. CASE MustStop(key) /\ Stop(key)
      BY <1>3, <3>1, <3>2 DEF Stop, Stops, Speaks, historyVars, boundVars, ProcessStep
    <3>3. CASE Complete(key)
      BY <1>3, <3>1, <3>3, CompleteConcludes DEF ProcessStep
    <3>4. CASE Continue(key, "bootstrap")
      BY <1>3, <3>1, <3>4, ContinueGoesOn DEF ProcessStep
    <3>5. QED
      BY <2>1, <3>2, <3>3, <3>4
  <2>2. CASE At(key, "bootstrap") /\ Continue(key, "resolve")
    <3>1. run[key].phase \in InHand /\ MayAnswer(run[key]) /\ "resolve" \in InHand
      BY <1>2, <2>2 DEF At, WorkPhases, MayAnswer
    <3>2. QED
      BY <1>3, <2>2, <3>1, ContinueGoesOn DEF ProcessStep
  <2>3. CASE /\ At(key, "resolve")
             /\ \/ MustStop(key) /\ Stop(key)
                \/ ~MustStop(key) /\ Continue(key, "dispatch")
    <3>1. run[key].phase \in InHand /\ MayAnswer(run[key]) /\ "dispatch" \in InHand
      BY <1>2, <2>3 DEF At, WorkPhases, MayAnswer
    <3>2. CASE MustStop(key) /\ Stop(key)
      BY <1>3, <3>1, <3>2 DEF Stop, Stops, Speaks, historyVars, boundVars, ProcessStep
    <3>3. CASE ~MustStop(key) /\ Continue(key, "dispatch")
      BY <1>3, <3>1, <3>3, ContinueGoesOn DEF ProcessStep
    <3>4. QED
      BY <2>3, <3>2, <3>3
  <2>4. CASE /\ At(key, "dispatch")
             /\ answers' = [answers EXCEPT ![Current(key)] = @ + 1]
             /\ \/ MustStop(key) /\ Settle(key)
                \/ ~MustStop(key) /\ GoTo(key, "moderation") /\ UNCHANGED queueVars
             /\ UNCHANGED <<storeVars, rerunRequested, lost>>
    <3>1. run[key].phase = "dispatch" /\ "moderation" \in InHand /\ run[key].phase \in InHand
          /\ faults' = faults
      BY <1>2, <1>3, <2>4 DEF At, WorkPhases, boundVars
    <3>2. CASE MustStop(key) /\ Settle(key)
      BY <2>4, <3>1, <3>2 DEF Stops, Speaks, ProcessStep
    <3>3. CASE GoTo(key, "moderation") /\ UNCHANGED queueVars
      <4>1. run[key] \in Runs
        BY <3>1, RunOfKey, RunRecords
      <4>2. PICK r \in Runs : r.phase = "moderation" /\ run' = [run EXCEPT ![key] = r]
        BY <3>1, <3>3, <4>1, GoToRun
      <4>3. QED
        BY <2>4, <3>1, <3>3, <4>2 DEF GoesOn, ProcessStep
    <3>4. QED
      BY <2>4, <3>2, <3>3
  <2>5. CASE At(key, "moderation") /\ Complete(key)
    BY <1>2, <1>3, <2>5, CompleteConcludes DEF At, WorkPhases, ProcessStep
  <2>6. QED
    BY <1>3, <2>1, <2>2, <2>3, <2>4, <2>5 DEF WorkSucceeds
<1>4. CASE WorkFails(key) /\ Fault
  <2>1. faults' = faults + 1 /\ Stages = {"fetch_or_resolve", "dispatch", "post_response"}
    BY <1>4 DEF Fault, Stages
  <2>2. PICK kind \in ErrorKinds :
          \/ /\ run[key].phase \in {"redirect", "bootstrap", "resolve"}
             /\ Catch(key, kind, "fetch_or_resolve")
             /\ UNCHANGED answers
          \/ /\ At(key, "dispatch")
             /\ Catch(key, kind, "dispatch")
             /\ \/ answers' = [answers EXCEPT ![Current(key)] = @ + 1]
                \/ UNCHANGED answers
          \/ /\ At(key, "moderation")
             /\ Catch(key, kind, "post_response")
             /\ UNCHANGED answers
    BY <1>4 DEF WorkFails
  <2>3. run[key].phase \in InHand
    BY <1>2, <2>2 DEF At, WorkPhases
  <2>4. PICK stage \in Stages :
          /\ Catch(key, kind, stage)
          /\ \/ answers' = answers
             \/ /\ run[key].phase = "dispatch"
                /\ answers' = [answers EXCEPT ![Current(key)] = @ + 1]
    BY <2>1, <2>2 DEF At
  <2>5. QED
    BY <2>1, <2>3, <2>4, CatchCases DEF ProcessStep
<1>5. QED
  BY <1>3, <1>4 DEF Work

\* The failure path ends its run: it reports, schedules, or gives up.
LEMMA FailurePathCases ==
    ASSUME RuntimeInv, NEW key \in Keys, FailurePath(key)
    PROVE  ProcessStep(key) /\ ElsewhereUnchanged /\ phase # "down"
<1>1. phase # "down"
  BY DEF FailurePath, NoticeSettles, TerminalNoticeSettles, PermanentNoticeThrows, At
<1>2. ElsewhereUnchanged
  BY DEF FailurePath, NoticeSettles, TerminalNoticeSettles, PermanentNoticeThrows,
         ElsewhereUnchanged, boundVars, Fault
<1> SUFFICES ProcessStep(key)
  BY <1>1, <1>2
<1>3. FailurePhases \subseteq InHand
  BY DEF InHand
<1>4. CASE NoticeSettles(key)
  <2>1. CASE run[key].retryable /\ ScheduleRetry(Current(key)) /\ Settle(key)
             /\ UNCHANGED <<rerunRequested, historyVars>>
    BY <1>4, <2>1 DEF NoticeSettles, At, Postpones, ProcessStep, Silent, historyVars, boundVars
  <2>2. CASE Continue(key, "permanent")
    <3>1. run[key].phase \in InHand /\ "permanent" \in InHand
      BY <1>3, <1>4 DEF NoticeSettles, At, FailurePhases
    <3>2. QED
      BY <1>4, <2>2, <3>1, ContinueGoesOn DEF NoticeSettles, ProcessStep
  <2>3. QED
    BY <1>4, <2>1, <2>2 DEF NoticeSettles
<1>5. CASE TerminalNoticeSettles(key)
  <2>1. run[key].phase \in InHand
    BY <1>3, <1>5 DEF TerminalNoticeSettles, At, FailurePhases
  <2>2. QED
    BY <1>5, <2>1 DEF TerminalNoticeSettles, Concludes, ProcessStep, Resolved, Silent,
                      historyVars, boundVars
<1>6. CASE PermanentNoticeThrows(key)
  <2>1. run[key].phase \in InHand /\ faults' = faults + 1
    BY <1>3, <1>6 DEF PermanentNoticeThrows, At, FailurePhases, Fault
  <2>2. CASE MustStop(key) /\ Stop(key)
    BY <2>1, <2>2 DEF Stop, Stops, Speaks, historyVars, ProcessStep
  <2>3. ASSUME NEW kind \in ErrorKinds,
               HandleFailure(key, kind, "fetch_or_resolve", TRUE), UNCHANGED answers
        PROVE  ProcessStep(key)
    BY <2>1, <2>3, HandledGoesOn DEF Stages, ProcessStep
  <2>4. CASE WorkerThrows(key)
    BY <2>1, <2>4 DEF WorkerThrows, GivesUp, ProcessStep
  <2>5. QED
    BY <1>6, <2>2, <2>3, <2>4 DEF PermanentNoticeThrows
<1>7. QED
  BY <1>4, <1>5, <1>6 DEF FailurePath

\* Every step of process() is of one of eight kinds.
LEMMA ProcessCases ==
    ASSUME RuntimeInv, NEW key \in Keys, Process(key)
    PROVE  ProcessStep(key) /\ ElsewhereUnchanged /\ phase # "down"
BY BeginCases, GateCases, WorkCases, FailurePathCases DEF Process

-----------------------------------------------------------------------------
(***************************************************************************)
(* What the steps do to the queue, the store and the bounds.               *)
(***************************************************************************)

\* A settled worker leaves its key idle or about to begin the next item.
LEMMA SettleEffect ==
    ASSUME RuntimeInv, NEW key \in Keys, Settle(key)
    PROVE  /\ WorkerSettles(key)
           /\ \A other \in Keys \ {key} :
                 running'[other] = running[other] /\ lanes'[other] = lanes[other]
           /\ \/ /\ lanes[key] # <<>>
                 /\ lanes'[key] = Tail(lanes[key])
                 /\ running'[key] = Head(lanes[key])
                 /\ Head(lanes[key]) \in Items /\ running'[key] # None
              \/ /\ lanes[key] = <<>> /\ lanes'[key] = <<>>
                 /\ running'[key] = None
           /\ \E r \in Runs :
                 /\ run' = [run EXCEPT ![key] = r]
                 /\ r.phase \in {"idle", "start"}
                 /\ r.phase = "idle" <=> running'[key] = None
<1> DEFINE started == [NoRun EXCEPT !.phase = "start"]
<1>1. /\ WorkerSettles(key)
      /\ run' = [run EXCEPT ![key] = IF lanes[key] = <<>> THEN NoRun ELSE started]
  BY DEF Settle
<1>2. lanes \in [Keys -> Seq(Items)] /\ running \in [Keys -> Items \cup {None}]
      /\ lanes[key] \in Seq(Items)
  BY DEF RuntimeInv, TypeOK, QueueTypeOK
<1>3. /\ NoRun \in Runs /\ NoRun.phase = "idle"
      /\ started \in Runs /\ started.phase = "start"
  BY RunRecords
<1> HIDE DEF started
<1>4. CASE SettleAndContinue(key)
  <2>1. /\ lanes[key] # <<>>
        /\ running' = [running EXCEPT ![key] = Head(lanes[key])]
        /\ lanes' = [lanes EXCEPT ![key] = Tail(lanes[key])]
    BY <1>4 DEF SettleAndContinue
  <2>2. Head(lanes[key]) \in Items
    BY <1>2, <2>1
  <2>3. /\ running'[key] = Head(lanes[key]) /\ lanes'[key] = Tail(lanes[key])
        /\ running'[key] # None
        /\ \A other \in Keys \ {key} :
              running'[other] = running[other] /\ lanes'[other] = lanes[other]
    BY <1>2, <2>1, <2>2, NoneAssumption
  <2>4. run' = [run EXCEPT ![key] = started]
    BY <1>1, <2>1
  <2>5. QED
    BY <1>1, <1>3, <2>1, <2>2, <2>3, <2>4
<1>5. CASE SettleAndExit(key)
  <2>1. /\ lanes[key] = <<>> /\ lanes' = lanes
        /\ running' = [running EXCEPT ![key] = None]
    BY <1>5 DEF SettleAndExit
  <2>2. run' = [run EXCEPT ![key] = NoRun]
    BY <1>1, <2>1
  <2>3. QED
    BY <1>1, <1>2, <1>3, <2>1, <2>2
<1>6. QED
  BY <1>1, <1>4, <1>5 DEF WorkerSettles

\* The job a drain works at.
LEMMA JobOfRunner ==
    ASSUME RuntimeInv, NEW d \in Drains, runner[d].step # "idle"
    PROVE  /\ runner[d].jobs \in Seq(Jobs) /\ runner[d].jobs # <<>>
           /\ Job(d) = runner[d].jobs[1] /\ Job(d) \in Jobs /\ Job(d).message \in Messages
           /\ Len(runner[d].jobs) \in Nat \ {0}
           /\ Tail(runner[d].jobs) \in Seq(Jobs)
           /\ Len(Tail(runner[d].jobs)) = Len(runner[d].jobs) - 1
           /\ \A i \in 1..Len(Tail(runner[d].jobs)) :
                 Tail(runner[d].jobs)[i] = runner[d].jobs[i + 1]
<1>1. runner[d] \in Runners
  BY DEF RuntimeInv, TypeOK
<1>2. runner[d].jobs \in Seq(Jobs)
  BY <1>1 DEF Runners
<1>3. runner[d].jobs # <<>>
  BY DEF RuntimeInv, RunnerShape
<1> DEFINE jobs == runner[d].jobs
<1> HIDE DEF jobs
<1>4. jobs \in Seq(Jobs) /\ jobs # <<>>
  BY <1>2, <1>3 DEF jobs
<1>5. /\ Head(jobs) = jobs[1] /\ Head(jobs) \in Jobs /\ Len(jobs) \in Nat \ {0}
      /\ Tail(jobs) \in Seq(Jobs) /\ Len(Tail(jobs)) = Len(jobs) - 1
      /\ \A i \in 1..Len(Tail(jobs)) : Tail(jobs)[i] = jobs[i + 1]
  BY <1>4
<1>6. Head(jobs).message \in Messages
  BY <1>5 DEF Jobs
<1>7. QED
  BY <1>4, <1>5, <1>6 DEF Job, jobs

\* A drain goes on with the rest of its jobs.
LEMMA NextJobRunner ==
    ASSUME RuntimeInv, NEW d \in Drains, runner[d].step # "idle", NextJob(d)
    PROVE  \E r \in Runners :
              /\ runner' = [runner EXCEPT ![d] = r]
              /\ r.jobs = Tail(runner[d].jobs)
              /\ r.step \in {"idle", "fetch"}
              /\ r.step = "idle" <=> r.jobs = <<>>
<1> DEFINE jobs == Tail(runner[d].jobs)
           r == [IdleRunner EXCEPT !.jobs = jobs,
                                   !.step = IF jobs = <<>> THEN "idle" ELSE "fetch"]
<1>1. jobs \in Seq(Jobs)
  BY JobOfRunner
<1>2. runner' = [runner EXCEPT ![d] = r]
  BY DEF NextJob
<1> HIDE DEF jobs
<1>3. r \in Runners /\ r.jobs = jobs /\ r.step = (IF jobs = <<>> THEN "idle" ELSE "fetch")
  BY <1>1 DEF IdleRunner, Runners
<1> HIDE DEF r
<1>4. QED
  BY <1>2, <1>3 DEF jobs

\* A drain starts with the rows that are due.
LEMMA SnapshotRunner ==
    ASSUME RuntimeInv, NEW d \in Drains, Snapshot(d)
    PROVE  \E r \in Runners :
              /\ runner' = [runner EXCEPT ![d] = r]
              /\ r.step \in {"idle", "fetch"}
              /\ r.step = "idle" <=> r.jobs = <<>>
              /\ \A i \in 1..Len(r.jobs) : retryJob[r.jobs[i].message] > 0
<1>1. PICK seq \in SetToSeqs(DueJobs) :
        runner' = [runner EXCEPT ![d] =
            [IdleRunner EXCEPT
                !.jobs = [i \in DOMAIN seq |->
                            [message |-> seq[i], attempt |-> retryJob[seq[i]]]],
                !.step = IF seq = <<>> THEN "idle" ELSE "fetch"]]
  BY DEF Snapshot
<1>2. IsFiniteSet(DueJobs) /\ Cardinality(DueJobs) \in Nat
  BY MessagesAssumption, FS_Subset, FS_CardinalityType DEF DueJobs
<1>3. seq \in [1..Cardinality(DueJobs) -> DueJobs]
  BY DEF SetToSeqs
<1> DEFINE jobs == [i \in DOMAIN seq |-> [message |-> seq[i], attempt |-> retryJob[seq[i]]]]
           r == [IdleRunner EXCEPT !.jobs = jobs,
                                   !.step = IF seq = <<>> THEN "idle" ELSE "fetch"]
<1>4. \A m \in DueJobs : m \in Messages /\ retryJob[m] > 0 /\ retryJob[m] \in Nat
  BY DEF DueJobs, RuntimeInv, TypeOK, StoreTypeOK
<1>5. jobs \in Seq(Jobs) /\ Len(jobs) = Cardinality(DueJobs) /\ DOMAIN seq = 1..Len(jobs)
  <2> DEFINE n == Cardinality(DueJobs)
  <2>1. DOMAIN seq = 1..n /\ n \in Nat
    BY <1>2, <1>3
  <2>2. \A i \in 1..n : [message |-> seq[i], attempt |-> retryJob[seq[i]]] \in Jobs
    BY <1>3, <1>4 DEF Jobs
  <2>3. jobs = [i \in 1..n |-> [message |-> seq[i], attempt |-> retryJob[seq[i]]]]
    BY <2>1
  <2> HIDE DEF jobs, n
  <2>4. jobs \in [1..n -> Jobs]
    BY <2>2, <2>3
  <2>5. jobs \in Seq(Jobs) /\ Len(jobs) = n
    BY <2>1, <2>4
  <2>6. QED
    BY <2>1, <2>5 DEF n
<1>6. seq = <<>> <=> jobs = <<>>
  BY <1>2, <1>3, <1>5
<1>7. \A i \in 1..Len(jobs) : retryJob[jobs[i].message] > 0
  BY <1>3, <1>4, <1>5
<1>8. runner' = [runner EXCEPT ![d] = r]
  BY <1>1
<1> HIDE DEF jobs
<1>9. r \in Runners /\ r.jobs = jobs /\ r.step = (IF seq = <<>> THEN "idle" ELSE "fetch")
  BY <1>5 DEF IdleRunner, Runners
<1> HIDE DEF r
<1>10. QED
  BY <1>6, <1>7, <1>8, <1>9

\* What is submitted is an item of a message.
LEMMA SubmitQueues ==
    ASSUME NEW m \in Messages, Submit(m)
    PROVE  [QueueNext]_queueVars
<1>1. QueueItem(m, "live") \in Items
  BY MessageItems DEF Sources
<1>2. QED
  BY <1>1 DEF Submit, QueueNext

\* Every step of the runtime is a step of the queue, or loses the memory.
LEMMA QueueSteps ==
    ASSUME RuntimeInv, [Next]_vars
    PROVE  [QueueNext]_queueVars \/ LoseMemory
<1>1. CASE DrainQueue
  BY <1>1 DEF DrainQueue, QueueNext
<1>2. ASSUME NEW key \in Keys, Process(key)
      PROVE  [QueueNext]_queueVars
  BY <1>2, ProcessCases, SettleEffect
     DEF ProcessStep, Takes, Skips, Refuses, GoesOn, Concludes, GivesUp, Stops, Postpones,
         QueueNext
<1>3. ASSUME NEW key \in Keys, SwitchWorkflow(key)
      PROVE  [QueueNext]_queueVars
  <2>1. run[key].phase # "idle" /\ SubmitRerun(Current(key))
    BY <1>3 DEF SwitchWorkflow, WorkPhases, FailurePhases
  <2>2. Current(key) \in Messages
    BY <2>1, RunOfKey
  <2>3. QueueItem(Current(key), "workflow_switch_rerun") \in Items
    BY <2>2, MessageItems DEF Sources
  <2>4. QED
    BY <2>1, <2>3 DEF SubmitRerun, QueueNext
<1>4. ASSUME NEW d \in Drains, RetryRunner(d)
      PROVE  [QueueNext]_queueVars
  <2>1. CASE FetchSucceeds(d)
    <3>1. Job(d).message \in Messages
      BY <2>1, JobOfRunner DEF FetchSucceeds, RunnerAt
    <3>2. QueueItem(Job(d).message, "retry") \in Items
      BY <3>1, MessageItems DEF Sources
    <3>3. QED
      BY <2>1, <3>2 DEF FetchSucceeds, QueueNext
  <2>2. CASE FetchFails(d) \/ RunnerNoticeSettles(d) \/ RunnerTerminalNoticeSettles(d)
             \/ RunnerPermanentNoticeThrows(d)
    BY <2>2 DEF FetchFails, RunnerNoticeSettles, RunnerTerminalNoticeSettles,
                RunnerPermanentNoticeThrows
  <2>3. QED
    BY <1>4, <2>1, <2>2 DEF RetryRunner
<1>5. ASSUME NEW m \in Messages, IntakeEnds(m)
      PROVE  [QueueNext]_queueVars
  BY <1>5, SubmitQueues DEF IntakeEnds
<1>6. CASE ReplayNext
  <2>1. Head(replay) \in Messages
    BY <1>6 DEF ReplayNext, RuntimeInv, TypeOK
  <2>2. QED
    BY <1>6, <2>1, SubmitQueues DEF ReplayNext
<1>7. CASE \/ \E d \in Drains : Poll(d) \/ StartupDrain(d)
           \/ \E m \in Messages : Post(m) \/ Clock(m)
           \/ \E key \in Keys : RecoverChannel(key)
           \/ StartupEnds \/ Restart \/ UNCHANGED vars
  BY <1>7 DEF Poll, StartupDrain, Post, Clock, RecoverChannel, FetchBacklog, StartupEnds,
              Restart, vars
<1>8. CASE \E d \in Drains : StartupFails(d)
  BY <1>8 DEF StartupFails
<1>9. CASE Crash
  BY <1>9 DEF Crash
<1>10. QED
  BY <1>1, <1>2, <1>3, <1>4, <1>5, <1>6, <1>7, <1>8, <1>9 DEF Next, Startup

\* A queue that starts empty satisfies what is known of queues.
LEMMA InitQueuePart ==
    QueueInit => QueueInv /\ SeenCountsInFlight /\ LanesOwnTheirItems
BY InitQueueInv, InitSeen, InitImplements

\* The three parts of RuntimeInv about the queue.
LEMMA QueuePartStep ==
    ASSUME RuntimeInv, [Next]_vars
    PROVE  (QueueInv /\ SeenCountsInFlight /\ LanesOwnTheirItems)'
<1>1. QueueInv /\ SeenCountsInFlight /\ LanesOwnTheirItems /\ QueueTypeOK
  BY DEF RuntimeInv, QueueInv
<1>2. CASE [QueueNext]_queueVars
  BY <1>1, <1>2, QueueNextKeepsInv, QueueNextKeepsCounts, LanesOwnStep
<1>3. CASE LoseMemory
  <2>1. QueueInit'
    BY <1>3, IdsAreMessages DEF LoseMemory, QueueInit, MessageIds
  <2>2. QED
    BY <2>1, InitQueuePart, PTL
<1>4. QED
  BY <1>2, <1>3, QueueSteps

-----------------------------------------------------------------------------
(***************************************************************************)
(* Type correctness, with the shape of the handlers.                       *)
(***************************************************************************)

\* The store operations keep the tables well typed.
LEMMA StoreOperations ==
    ASSUME StoreTypeOK, NEW m \in Messages
    PROVE  /\ UNCHANGED storeVars => StoreTypeOK'
           /\ Acquire(m) /\ UNCHANGED <<retryJob, due, cursor>> => StoreTypeOK'
           /\ DeleteRetryJob(m) /\ AdvanceCursor(m) /\ UNCHANGED <<rowState, leaseLive>>
                => StoreTypeOK'
           /\ \A state \in Resolved : ResolveAs(m, state) => StoreTypeOK'
           /\ ScheduleRetry(m) => StoreTypeOK'
           /\ MarkRow(m, "rerun_requested") /\ UNCHANGED <<retryJob, due, cursor>>
                => StoreTypeOK'
           /\ LeaseExpires(m) \/ JobFallsDue(m) => StoreTypeOK'
           /\ AdvanceCursor(m) /\ UNCHANGED <<rowState, leaseLive, retryJob, due>>
                => StoreTypeOK'
           /\ \A state \in Resolved : ResolveCutShort(m, state) => StoreTypeOK'
           /\ ScheduleCutShort(m) => StoreTypeOK'
           /\ DuplicateCutShort(m) => StoreTypeOK'
<1>1. m \in Nat /\ ChannelOf[m] \in Channels
  BY MessagesAssumption, ChannelAssumption DEF Channels
<1>2. AdvanceCursor(m) => cursor' \in [Channels -> Nat]
  BY <1>1 DEF AdvanceCursor, StoreTypeOK
<1>3. \A state \in RowStates : MarkRow(m, state) =>
         rowState' \in [Messages -> RowStates] /\ leaseLive' \in [Messages -> BOOLEAN]
  BY DEF MarkRow, StoreTypeOK
<1>4. \A n \in Nat : UpsertRetryJob(m, n) =>
         retryJob' \in [Messages -> Nat] /\ due' \in [Messages -> BOOLEAN]
  BY DEF UpsertRetryJob, StoreTypeOK
<1>5. DeleteRetryJob(m) => retryJob' \in [Messages -> Nat] /\ due' \in [Messages -> BOOLEAN]
  BY <1>4 DEF DeleteRetryJob
<1>6. UpsertRetryJob(m, retryJob[m] + 1) =>
         retryJob' \in [Messages -> Nat] /\ due' \in [Messages -> BOOLEAN]
  BY <1>4 DEF StoreTypeOK
<1>7. Resolved \subseteq RowStates /\ "pending_retry" \in RowStates
      /\ "rerun_requested" \in RowStates /\ "processing" \in RowStates
  BY DEF RowStates, Resolved
<1>8. UNCHANGED storeVars => StoreTypeOK'
  BY DEF storeVars, StoreTypeOK
<1>9. Acquire(m) /\ UNCHANGED <<retryJob, due, cursor>> => StoreTypeOK'
  BY <1>7 DEF Acquire, StoreTypeOK
<1>10. DeleteRetryJob(m) /\ AdvanceCursor(m) /\ UNCHANGED <<rowState, leaseLive>>
          => StoreTypeOK'
  BY <1>2, <1>5 DEF StoreTypeOK
<1>11. \A state \in Resolved : ResolveAs(m, state) => StoreTypeOK'
  BY <1>2, <1>3, <1>5, <1>7 DEF ResolveAs, StoreTypeOK
<1>12. ScheduleRetry(m) => StoreTypeOK'
  BY <1>3, <1>6, <1>7 DEF ScheduleRetry, StoreTypeOK
<1>13. MarkRow(m, "rerun_requested") /\ UNCHANGED <<retryJob, due, cursor>> => StoreTypeOK'
  BY <1>3, <1>7 DEF StoreTypeOK
<1>14. LeaseExpires(m) \/ JobFallsDue(m) => StoreTypeOK'
  BY DEF LeaseExpires, JobFallsDue, StoreTypeOK
<1>15. AdvanceCursor(m) /\ UNCHANGED <<rowState, leaseLive, retryJob, due>> => StoreTypeOK'
  BY <1>2 DEF StoreTypeOK
<1>16. \A state \in Resolved : ResolveCutShort(m, state) => StoreTypeOK'
  BY <1>3, <1>5, <1>7 DEF ResolveCutShort, StoreTypeOK
<1>17. ScheduleCutShort(m) => StoreTypeOK'
  BY <1>6 DEF ScheduleCutShort, StoreTypeOK
<1>18. DuplicateCutShort(m) => StoreTypeOK'
  BY <1>15 DEF DuplicateCutShort
<1>19. QED
  BY <1>8, <1>9, <1>10, <1>11, <1>12, <1>13, <1>14, <1>15, <1>16, <1>17, <1>18

\* The types of what the handlers remember, the queue and the bounds apart.
MemoryTypeOK ==
    /\ run \in [Keys -> Runs]
    /\ rerunRequested \in SUBSET Messages
    /\ runner \in [Drains -> Runners]
    /\ intake \in SUBSET Messages
    /\ replay \in Seq(Messages)
    /\ unrecovered \in SUBSET Keys
    /\ phase \in LivePhases \cup {"down"}
    /\ posted \in SUBSET Messages
    /\ answers \in [Messages -> Nat]
    /\ lost \in SUBSET Messages

BoundsOK == <<faults, switches, crashes>> \in (0..MaxFaults) \X (0..MaxSwitches) \X (0..MaxCrashes)

\* TypeOK is the sum of its parts.
LEMMA TypeParts == TypeOK <=> QueueTypeOK /\ StoreTypeOK /\ MemoryTypeOK /\ BoundsOK
BY DEF TypeOK, MemoryTypeOK, BoundsOK

\* What changes besides the queue: tables, memory and shape.
HandlersOK == StoreTypeOK /\ MemoryTypeOK /\ RunShape /\ RunnerShape

\* The parts of the invariant the steps below need.
LEMMA RuntimeParts ==
    RuntimeInv => QueueTypeOK /\ HandlersOK /\ BoundsOK
BY TypeParts DEF RuntimeInv, HandlersOK

\* An answer counts in the history of its message.
LEMMA AnswersTyped ==
    ASSUME MemoryTypeOK, NEW m \in Messages,
           answers' = answers \/ answers' = [answers EXCEPT ![m] = @ + 1]
    PROVE  answers' \in [Messages -> Nat]
BY DEF MemoryTypeOK

\* A run that is replaced by one that agrees with the queue keeps the shape.
LEMMA RunReplaced ==
    ASSUME RuntimeInv, NEW key \in Keys, NEW r \in Runs, run' = [run EXCEPT ![key] = r],
           r.phase = "idle" <=> running'[key] = None,
           \A other \in Keys \ {key} : running'[other] = running[other]
    PROVE  run' \in [Keys -> Runs] /\ RunShape'
<1>1. run \in [Keys -> Runs] /\ RunShape
  BY DEF RuntimeInv, TypeOK
<1>2. run' \in [Keys -> Runs] /\ run'[key] = r
      /\ \A other \in Keys \ {key} : run'[other] = run[other]
  BY <1>1
<1>3. QED
  BY <1>1, <1>2 DEF RunShape

\* process() leaves the other lanes, the drains and recovery as they are.
LEMMA ProcessHandlers ==
    ASSUME RuntimeInv, NEW key \in Keys, Process(key)
    PROVE  HandlersOK'
<1> DEFINE m == Current(key)
<1>1. ProcessStep(key) /\ ElsewhereUnchanged
  BY ProcessCases
<1>2. HandlersOK
  BY RuntimeParts
<1>3. RunnerShape' /\ runner' \in [Drains -> Runners] /\ intake' \in SUBSET Messages
      /\ replay' \in Seq(Messages) /\ unrecovered' \in SUBSET Keys
      /\ phase' \in LivePhases \cup {"down"} /\ posted' \in SUBSET Messages
  BY <1>1, <1>2 DEF ElsewhereUnchanged, HandlersOK, MemoryTypeOK, RunnerShape
<1>4. m \in Messages /\ run[key] \in Runs /\ running[key] # None /\ run[key].phase # "idle"
  <2>1. run[key].phase = "start" \/ run[key].phase \in InHand
    BY <1>1 DEF ProcessStep, Takes, Skips, Refuses, GoesOn, Concludes, GivesUp, Stops,
                Postpones, InHand, FailurePhases
  <2>2. run[key].phase # "idle"
    BY <2>1, RunRecords
  <2>3. QED
    BY <2>2, RunOfKey
<1>5. answers' = answers \/ answers' = [answers EXCEPT ![m] = @ + 1]
  BY <1>1 DEF ProcessStep, Takes, Skips, Refuses, GoesOn, Concludes, GivesUp, Stops,
              Postpones, Silent, Speaks
<1>6. answers' \in [Messages -> Nat]
  BY <1>2, <1>4, <1>5, AnswersTyped DEF HandlersOK
<1>7. lost' \in SUBSET Messages /\ rerunRequested' \in SUBSET Messages
  <2>1. lost \in SUBSET Messages /\ rerunRequested \in SUBSET Messages
    BY <1>2 DEF HandlersOK, MemoryTypeOK
  <2>2. lost' = lost \/ lost' = lost \cup {m}
    BY <1>1 DEF ProcessStep, Takes, Skips, Refuses, GoesOn, Concludes, GivesUp, Stops,
                Postpones
  <2>3. rerunRequested' = rerunRequested \/ rerunRequested' = rerunRequested \ {m}
    BY <1>1 DEF ProcessStep, Takes, Skips, Refuses, GoesOn, Concludes, GivesUp, Stops,
                Postpones
  <2>4. QED
    BY <1>4, <2>1, <2>2, <2>3
<1>8. StoreTypeOK'
  <2>1. StoreTypeOK
    BY <1>2 DEF HandlersOK
  <2>2. \/ UNCHANGED storeVars
        \/ Acquire(m) /\ UNCHANGED <<retryJob, due, cursor>>
        \/ DeleteRetryJob(m) /\ AdvanceCursor(m) /\ UNCHANGED <<rowState, leaseLive>>
        \/ \E state \in Resolved : ResolveAs(m, state)
        \/ ScheduleRetry(m)
    BY <1>1 DEF ProcessStep, Takes, Skips, Refuses, GoesOn, Concludes, GivesUp, Stops,
                Postpones
  <2>3. QED
    BY <1>4, <2>1, <2>2, StoreOperations
<1>9. run' \in [Keys -> Runs] /\ RunShape'
  <2>1. CASE Settle(key)
    <3>1. PICK r \in Runs :
             /\ run' = [run EXCEPT ![key] = r]
             /\ r.phase = "idle" <=> running'[key] = None
      BY <2>1, SettleEffect
    <3>2. \A other \in Keys \ {key} : running'[other] = running[other]
      BY <2>1, SettleEffect
    <3>3. QED
      BY <3>1, <3>2, RunReplaced
  <2>2. ASSUME NEW r \in Runs, run' = [run EXCEPT ![key] = r], r.phase \in InHand,
               UNCHANGED queueVars
        PROVE  run' \in [Keys -> Runs] /\ RunShape'
    <3>1. running' = running
      BY <2>2 DEF queueVars
    <3>2. r.phase # "idle"
      BY <2>2, RunRecords
    <3>3. QED
      BY <1>4, <2>2, <3>1, <3>2, RunReplaced
  <2>3. CASE Takes(key)
    <3>1. "admission" \in InHand
      BY DEF InHand, GatePhases
    <3>2. [run[key] EXCEPT !.phase = "admission"] \in Runs
          /\ [run[key] EXCEPT !.phase = "admission"].phase = "admission"
      BY <1>4, <3>1, RunRecords
    <3>3. QED
      BY <2>2, <2>3, <3>1, <3>2 DEF Takes
  <2>4. CASE GoesOn(key)
    BY <2>2, <2>4 DEF GoesOn
  <2>5. QED
    BY <1>1, <2>1, <2>3, <2>4
       DEF ProcessStep, Skips, Refuses, Concludes, GivesUp, Stops, Postpones
<1>10. QED
  BY <1>3, <1>6, <1>7, <1>8, <1>9 DEF HandlersOK, MemoryTypeOK

\* A drain that is replaced by one of the right shape.
LEMMA RunnerReplaced ==
    ASSUME RuntimeInv, NEW d \in Drains, NEW r \in Runners,
           runner' = [runner EXCEPT ![d] = r], r.step = "idle" <=> r.jobs = <<>>
    PROVE  runner' \in [Drains -> Runners] /\ RunnerShape'
<1>1. runner \in [Drains -> Runners] /\ RunnerShape
  BY DEF RuntimeInv, TypeOK
<1>2. runner' \in [Drains -> Runners] /\ runner'[d] = r
      /\ \A other \in Drains \ {d} : runner'[other] = runner[other]
  BY <1>1
<1>3. QED
  BY <1>1, <1>2 DEF RunnerShape

\* What a drain becomes in one step: the rest of its jobs, another step of the
\* same job, or nothing.
LEMMA RunnerCases ==
    ASSUME RuntimeInv, NEW d \in Drains, RetryRunner(d)
    PROVE  /\ phase # "down" /\ runner[d].step # "idle"
           /\ \E r \in Runners :
                 /\ runner' = [runner EXCEPT ![d] = r]
                 /\ r.step = "idle" <=> r.jobs = <<>>
                 /\ \/ /\ r.jobs = Tail(runner[d].jobs) /\ r.step \in {"idle", "fetch"}
                       /\ FetchSucceeds(d) \/ RunnerTerminalNoticeSettles(d)
                          \/ (runner[d].step = "notify" /\ runner[d].retryable
                                /\ RunnerNoticeSettles(d) /\ ScheduleRetry(Job(d).message))
                    \/ r.jobs = runner[d].jobs /\ FetchFails(d)
                    \/ /\ r.jobs = runner[d].jobs /\ r.step = "permanent"
                       /\ RunnerNoticeSettles(d) /\ UNCHANGED storeVars
                    \/ r.jobs = <<>> /\ RunnerPermanentNoticeThrows(d)
<1>1. phase # "down" /\ runner[d].step # "idle"
  BY DEF RetryRunner, FetchSucceeds, FetchFails, RunnerNoticeSettles,
         RunnerTerminalNoticeSettles, RunnerPermanentNoticeThrows, RunnerAt
<1>2. runner[d] \in Runners /\ runner[d].jobs # <<>>
  BY <1>1 DEF RuntimeInv, TypeOK, RunnerShape
<1> SUFFICES \E r \in Runners :
                 /\ runner' = [runner EXCEPT ![d] = r]
                 /\ r.step = "idle" <=> r.jobs = <<>>
                 /\ \/ /\ r.jobs = Tail(runner[d].jobs) /\ r.step \in {"idle", "fetch"}
                       /\ FetchSucceeds(d) \/ RunnerTerminalNoticeSettles(d)
                          \/ (runner[d].step = "notify" /\ runner[d].retryable
                                /\ RunnerNoticeSettles(d) /\ ScheduleRetry(Job(d).message))
                    \/ r.jobs = runner[d].jobs /\ FetchFails(d)
                    \/ /\ r.jobs = runner[d].jobs /\ r.step = "permanent"
                       /\ RunnerNoticeSettles(d) /\ UNCHANGED storeVars
                    \/ r.jobs = <<>> /\ RunnerPermanentNoticeThrows(d)
  BY <1>1
<1>3. CASE FetchSucceeds(d)
  BY <1>1, <1>3, NextJobRunner DEF FetchSucceeds
<1>4. CASE FetchFails(d)
  <2>1. PICK kind \in ErrorKinds :
          runner' = [runner EXCEPT
              ![d].step = IF ChannelOf[Job(d).message] \in ForumKeys
                          THEN "forum_notify" ELSE "notify",
              ![d].retryable = Retryable(kind, "fetch_or_resolve", Job(d).attempt)]
    BY <1>4 DEF FetchFails
  <2> DEFINE r == [runner[d] EXCEPT
              !.step = IF ChannelOf[Job(d).message] \in ForumKeys
                       THEN "forum_notify" ELSE "notify",
              !.retryable = Retryable(kind, "fetch_or_resolve", Job(d).attempt)]
  <2>2. runner' = [runner EXCEPT ![d] = r]
    BY <1>2, <2>1 DEF RuntimeInv, TypeOK
  <2>3. r \in Runners /\ r.jobs = runner[d].jobs /\ r.step # "idle"
    BY <1>2 DEF Runners, Retryable
  <2> HIDE DEF r
  <2>4. QED
    BY <1>2, <1>4, <2>2, <2>3
<1>5. CASE RunnerNoticeSettles(d)
  <2>1. runner[d].step = "notify"
    BY <1>5 DEF RunnerNoticeSettles, RunnerAt
  <2>2. CASE runner[d].retryable /\ ScheduleRetry(Job(d).message) /\ NextJob(d)
    BY <1>1, <1>5, <2>1, <2>2, NextJobRunner
  <2>3. CASE runner' = [runner EXCEPT ![d].step = "permanent"] /\ UNCHANGED storeVars
    <3> DEFINE r == [runner[d] EXCEPT !.step = "permanent"]
    <3>1. runner' = [runner EXCEPT ![d] = r]
      BY <1>2, <2>3 DEF RuntimeInv, TypeOK
    <3>2. r \in Runners /\ r.jobs = runner[d].jobs /\ r.step = "permanent"
      BY <1>2 DEF Runners
    <3> HIDE DEF r
    <3>3. QED
      BY <1>2, <1>5, <2>3, <3>1, <3>2
  <2>4. QED
    BY <1>5, <2>2, <2>3 DEF RunnerNoticeSettles
<1>6. CASE RunnerTerminalNoticeSettles(d)
  BY <1>1, <1>6, NextJobRunner DEF RunnerTerminalNoticeSettles
<1>7. CASE RunnerPermanentNoticeThrows(d)
  <2>1. IdleRunner \in Runners /\ IdleRunner.jobs = <<>> /\ IdleRunner.step = "idle"
    BY DEF IdleRunner, Runners
  <2>2. runner' = [runner EXCEPT ![d] = IdleRunner]
    BY <1>7 DEF RunnerPermanentNoticeThrows
  <2>3. QED
    BY <1>7, <2>1, <2>2
<1>8. QED
  BY <1>3, <1>4, <1>5, <1>6, <1>7 DEF RetryRunner

\* A drain opens with its jobs, takes them one by one, and closes.
LEMMA RunnerHandlers ==
    ASSUME RuntimeInv, NEW d \in Drains, RetryRunner(d)
    PROVE  HandlersOK'
<1>1. HandlersOK
  BY RuntimeParts
<1>2. runner[d].step # "idle" /\ runner' \in [Drains -> Runners] /\ RunnerShape'
  <2>1. PICK r \in Runners :
           runner' = [runner EXCEPT ![d] = r] /\ (r.step = "idle" <=> r.jobs = <<>>)
    BY RunnerCases
  <2>2. QED
    BY <2>1, RunnerCases, RunnerReplaced
<1>3. Job(d).message \in Messages
  BY <1>2, JobOfRunner
<1>4. UNCHANGED <<run, rerunRequested, intake, replay, unrecovered, phase, posted>>
  BY DEF RetryRunner
<1>5. UNCHANGED historyVars
  BY DEF RetryRunner, FetchSucceeds, FetchFails, RunnerNoticeSettles,
         RunnerTerminalNoticeSettles, RunnerPermanentNoticeThrows
<1>6. StoreTypeOK'
  <2>1. \/ UNCHANGED storeVars
        \/ ScheduleRetry(Job(d).message)
        \/ \E state \in Resolved : ResolveAs(Job(d).message, state)
    BY DEF RetryRunner, FetchSucceeds, FetchFails, RunnerNoticeSettles, Resolved,
           RunnerTerminalNoticeSettles, RunnerPermanentNoticeThrows
  <2>2. QED
    BY <1>1, <1>3, <2>1, StoreOperations DEF HandlersOK
<1>7. RunShape'
  <2>1. \A key \in Keys : running'[key] = None <=> running[key] = None
    <3>1. running' = running
      BY DEF RetryRunner, FetchSucceeds, FetchFails, RunnerNoticeSettles, Enqueue,
             RunnerTerminalNoticeSettles, RunnerPermanentNoticeThrows, queueVars
    <3>2. QED
      BY <3>1
  <2>2. QED
    BY <1>1, <1>4, <2>1 DEF HandlersOK, RunShape
<1>8. QED
  BY <1>1, <1>2, <1>4, <1>5, <1>6, <1>7 DEF HandlersOK, MemoryTypeOK, historyVars

\* A drain starts the runs of the keys whose worker it starts.
LEMMA DrainHandlers ==
    ASSUME RuntimeInv, DrainQueue
    PROVE  HandlersOK'
<1> DEFINE started == [NoRun EXCEPT !.phase = "start"]
<1>1. HandlersOK /\ QueueTypeOK /\ ActiveIffRunning
  BY RuntimeParts DEF RuntimeInv, QueueInv
<1>2. PICK S \in Selections :
        /\ running' = [key \in Keys |-> IF key \in S THEN Head(lanes[key]) ELSE running[key]]
        /\ run' = [key \in Keys |-> IF running'[key] # running[key] THEN started ELSE run[key]]
  BY DEF DrainQueue, Drain
<1>3. \A key \in S : key \in Keys /\ Head(lanes[key]) \in Items /\ running[key] = None
  BY <1>1 DEF Selections, Waiting, QueueTypeOK, ActiveIffRunning
<1>4. started \in Runs /\ started.phase = "start"
  BY RunRecords
<1> HIDE DEF started
<1>5. run' \in [Keys -> Runs]
  BY <1>1, <1>2, <1>4 DEF HandlersOK, MemoryTypeOK
<1>6. \A key \in Keys : run'[key].phase = "idle" <=> running'[key] = None
  BY <1>1, <1>2, <1>3, <1>4, NoneAssumption DEF HandlersOK, RunShape
<1>7. UNCHANGED <<storeVars, rerunRequested, runner, intake, replay, unrecovered,
                  phase, posted, historyVars>>
  BY DEF DrainQueue
<1>8. QED
  BY <1>1, <1>5, <1>6, <1>7
     DEF HandlersOK, MemoryTypeOK, RunShape, RunnerShape, StoreTypeOK, storeVars, historyVars

\* A switch meets a lane that runs, and marks what it runs.
LEMMA SwitchHandlers ==
    ASSUME RuntimeInv, NEW key \in Keys, SwitchWorkflow(key)
    PROVE  HandlersOK' /\ Current(key) \in Messages /\ run[key].phase # "idle"
<1>1. HandlersOK
  BY RuntimeParts
<1>2. run[key].phase # "idle"
  BY DEF SwitchWorkflow, WorkPhases, FailurePhases
<1>3. Current(key) \in Messages
  BY <1>2, RunOfKey
<1>4. StoreTypeOK'
  BY <1>1, <1>3, StoreOperations DEF SwitchWorkflow, HandlersOK
<1>5. UNCHANGED <<run, runner, intake, replay, unrecovered, phase, posted, historyVars, running>>
      /\ rerunRequested' = rerunRequested \cup {Current(key)}
  BY DEF SwitchWorkflow, SubmitRerun, Enqueue
<1>6. QED
  BY <1>1, <1>2, <1>3, <1>4, <1>5
     DEF HandlersOK, MemoryTypeOK, RunShape, RunnerShape, historyVars

\* Submitting changes at most the lanes and what was given up.
LEMMA SubmitEffect ==
    ASSUME NEW m \in Messages, Submit(m)
    PROVE  /\ running' = running
           /\ \/ lost' = lost /\ Enqueue(QueueItem(m, "live"))
              \/ lost' = lost /\ Refused(QueueItem(m, "live")) /\ UNCHANGED queueVars
              \/ lost' = lost \cup {m} /\ UNCHANGED queueVars
BY DEF Submit, Enqueue, queueVars

\* Whoever loses the memory starts from an empty one.
LEMMA LoseMemoryHandlers ==
    ASSUME RuntimeInv, LoseMemory, StoreTypeOK'
    PROVE  HandlersOK'
<1>1. HandlersOK
  BY RuntimeParts
<1>2. NoRun \in Runs /\ NoRun.phase = "idle"
      /\ IdleRunner \in Runners /\ IdleRunner.step = "idle" /\ IdleRunner.jobs = <<>>
  BY RunRecords DEF IdleRunner, Runners
<1>3. <<>> \in Seq(Messages)
  OBVIOUS
<1>4. QED
  BY <1>1, <1>2, <1>3
     DEF LoseMemory, HandlersOK, MemoryTypeOK, RunShape, RunnerShape, historyVars

\* Startup recovery replays a batch or only moves the cursor.
LEMMA RecoveryHandlers ==
    ASSUME RuntimeInv, NEW key \in Keys, RecoverChannel(key)
    PROVE  HandlersOK'
<1>1. HandlersOK
  BY RuntimeParts
<1>2. /\ UNCHANGED <<queueVars, rowState, leaseLive, retryJob, due, run, rerunRequested,
                     runner, intake, phase, posted, answers>>
      /\ unrecovered' = unrecovered \ {key}
  BY DEF RecoverChannel, FetchBacklog
<1>3. Backlog(key) \subseteq Messages
  BY <1>1 DEF Backlog, HandlersOK, MemoryTypeOK
<1>4. \/ UNCHANGED <<cursor, lost>> /\ replay' \in OldestFirst(Backlog(key))
      \/ /\ \E latest \in Backlog(key) : AdvanceCursor(latest)
         /\ lost' = lost \cup Backlog(key) /\ replay' = replay
      \/ UNCHANGED <<cursor, lost, replay>>
  BY DEF RecoverChannel
<1>5. replay' \in Seq(Messages)
  <2>1. ASSUME replay' \in OldestFirst(Backlog(key))
        PROVE  replay' \in Seq(Messages)
    <3>1. Cardinality(Backlog(key)) \in Nat
      BY <1>3, MessagesAssumption, FS_Subset, FS_CardinalityType
    <3>2. replay' \in [1..Cardinality(Backlog(key)) -> Backlog(key)]
      BY <2>1 DEF OldestFirst, SetToSeqs
    <3>3. QED
      BY <1>3, <3>1, <3>2
  <2>2. QED
    BY <1>1, <1>4, <2>1 DEF HandlersOK, MemoryTypeOK
<1>6. StoreTypeOK'
  <2>1. StoreTypeOK
    BY <1>1 DEF HandlersOK
  <2>2. CASE cursor' = cursor
    BY <1>2, <2>1, <2>2 DEF StoreTypeOK
  <2>3. ASSUME NEW latest \in Backlog(key), AdvanceCursor(latest)
        PROVE  StoreTypeOK'
    BY <1>2, <1>3, <2>1, <2>3, StoreOperations
  <2>4. QED
    BY <1>4, <2>2, <2>3
<1>7. lost' \in SUBSET Messages
  BY <1>1, <1>3, <1>4 DEF HandlersOK, MemoryTypeOK
<1>8. QED
  BY <1>1, <1>2, <1>5, <1>6, <1>7
     DEF HandlersOK, MemoryTypeOK, RunShape, RunnerShape, queueVars

\* Every step keeps tables, memory and shape.
LEMMA HandlersStep ==
    ASSUME RuntimeInv, [Next]_vars
    PROVE  HandlersOK'
<1>1. HandlersOK
  BY RuntimeParts
<1>2. CASE DrainQueue
  BY <1>2, DrainHandlers
<1>3. ASSUME NEW key \in Keys, Process(key) \/ SwitchWorkflow(key)
      PROVE  HandlersOK'
  BY <1>3, ProcessHandlers, SwitchHandlers
<1>4. ASSUME NEW d \in Drains, RetryRunner(d)
      PROVE  HandlersOK'
  BY <1>4, RunnerHandlers
<1>5. ASSUME NEW d \in Drains, Poll(d) \/ StartupDrain(d)
      PROVE  HandlersOK'
  <2>1. runner' \in [Drains -> Runners] /\ RunnerShape'
    <3>1. PICK r \in Runners :
             runner' = [runner EXCEPT ![d] = r] /\ (r.step = "idle" <=> r.jobs = <<>>)
      BY <1>5, SnapshotRunner DEF Poll, StartupDrain
    <3>2. QED
      BY <3>1, RunnerReplaced
  <2>2. UNCHANGED <<queueVars, storeVars, run, rerunRequested, intake, replay, unrecovered,
                    posted, historyVars>>
        /\ phase' \in {phase, "draining"}
    BY <1>5 DEF Poll, StartupDrain
  <2>3. QED
    BY <1>1, <2>1, <2>2
       DEF HandlersOK, MemoryTypeOK, RunShape, StoreTypeOK, queueVars, storeVars, historyVars,
           LivePhases
<1>6. ASSUME NEW m \in Messages, Post(m) \/ IntakeEnds(m)
      PROVE  HandlersOK'
  <2>1. /\ running' = running /\ lost' \in {lost, lost \cup {m}}
        /\ posted' \in {posted, posted \cup {m}}
        /\ intake' \in {intake, intake \cup {m}, intake \ {m}}
    BY <1>6, SubmitEffect DEF Post, IntakeEnds, queueVars, historyVars
  <2>2. UNCHANGED <<storeVars, run, rerunRequested, runner, replay, unrecovered, phase, answers>>
    BY <1>6 DEF Post, IntakeEnds, historyVars
  <2>3. QED
    BY <1>1, <2>1, <2>2
       DEF HandlersOK, MemoryTypeOK, RunShape, RunnerShape, StoreTypeOK, storeVars
<1>7. ASSUME NEW m \in Messages, Clock(m)
      PROVE  HandlersOK'
  <2>1. StoreTypeOK'
    BY <1>1, <1>7, StoreOperations DEF Clock, HandlersOK
  <2>2. UNCHANGED <<running, volatileVars, posted, historyVars>>
    BY <1>7 DEF Clock, queueVars
  <2>3. QED
    BY <1>1, <2>1, <2>2
       DEF HandlersOK, MemoryTypeOK, RunShape, RunnerShape, volatileVars, historyVars
<1>8. ASSUME NEW key \in Keys, RecoverChannel(key)
      PROVE  HandlersOK'
  BY <1>8, RecoveryHandlers
<1>9. CASE ReplayNext
  <2>1. Head(replay) \in Messages /\ Tail(replay) \in Seq(Messages)
    BY <1>9 DEF ReplayNext, RuntimeInv, TypeOK
  <2>2. running' = running /\ lost' \in {lost, lost \cup {Head(replay)}}
    BY <1>9, <2>1, SubmitEffect DEF ReplayNext
  <2>3. UNCHANGED <<storeVars, run, rerunRequested, runner, intake, unrecovered, phase,
                    posted, answers>> /\ replay' = Tail(replay)
    BY <1>9 DEF ReplayNext
  <2>4. QED
    BY <1>1, <2>1, <2>2, <2>3
       DEF HandlersOK, MemoryTypeOK, RunShape, RunnerShape, StoreTypeOK, storeVars
<1>10. CASE StartupEnds \/ Restart
  <2>1. /\ phase' \in LivePhases /\ unrecovered' \in {unrecovered, Keys}
        /\ UNCHANGED <<queueVars, storeVars, run, rerunRequested, runner, intake, replay,
                       posted, historyVars>>
    BY <1>10 DEF StartupEnds, Restart, LivePhases
  <2>2. QED
    BY <1>1, <2>1
       DEF HandlersOK, MemoryTypeOK, RunShape, RunnerShape, StoreTypeOK, queueVars, storeVars,
           historyVars
<1>11. ASSUME NEW d \in Drains, StartupFails(d)
       PROVE  HandlersOK'
  <2>1. StoreTypeOK'
    BY <1>1, <1>11 DEF StartupFails, HandlersOK, StoreTypeOK, storeVars
  <2>2. QED
    BY <1>11, <2>1, LoseMemoryHandlers DEF StartupFails
<1>12. CASE Crash
  <2>1. StoreTypeOK
    BY <1>1 DEF HandlersOK
  <2>2. CASE UNCHANGED storeVars
    BY <2>1, <2>2, <1>12, LoseMemoryHandlers DEF Crash, StoreTypeOK, storeVars
  <2>3. ASSUME NEW key \in Keys, CutShort(key)
        PROVE  HandlersOK'
    <3>1. run[key].phase # "idle"
      BY <2>3 DEF CutShort, GatePhases
    <3>2. Current(key) \in Messages
      BY <3>1, RunOfKey
    <3>3. StoreTypeOK'
      BY <2>1, <2>3, <3>2, StoreOperations DEF CutShort, Resolved
    <3>4. QED
      BY <1>12, <3>3, LoseMemoryHandlers DEF Crash
  <2>4. ASSUME NEW d \in Drains, RunnerCutShort(d)
        PROVE  HandlersOK'
    <3>1. runner[d].step # "idle"
      BY <2>4 DEF RunnerCutShort
    <3>2. Job(d).message \in Messages
      BY <3>1, JobOfRunner
    <3>3. StoreTypeOK'
      BY <2>1, <2>4, <3>2, StoreOperations DEF RunnerCutShort, Resolved
    <3>4. QED
      BY <1>12, <3>3, LoseMemoryHandlers DEF Crash
  <2>5. QED
    BY <1>12, <2>2, <2>3, <2>4 DEF Crash
<1>13. CASE UNCHANGED vars
  BY <1>1, <1>13
     DEF vars, HandlersOK, MemoryTypeOK, RunShape, RunnerShape, StoreTypeOK, queueVars,
         storeVars, volatileVars, historyVars
<1>14. QED
  BY <1>2, <1>3, <1>4, <1>5, <1>6, <1>7, <1>8, <1>9, <1>10, <1>11, <1>12, <1>13
     DEF Next, Startup

\* The bounds of the model are kept.
LEMMA BoundsStep ==
    ASSUME BoundsOK, [Next]_vars
    PROVE  BoundsOK'
<1>1. /\ faults \in 0..MaxFaults /\ switches \in 0..MaxSwitches /\ crashes \in 0..MaxCrashes
      /\ MaxFaults \in Nat /\ MaxSwitches \in Nat /\ MaxCrashes \in Nat
  BY BoundsAssumption DEF BoundsOK
<1>2. \/ UNCHANGED boundVars
      \/ Fault
      \/ switches < MaxSwitches /\ switches' = switches + 1 /\ UNCHANGED <<faults, crashes>>
      \/ crashes < MaxCrashes /\ crashes' = crashes + 1 /\ UNCHANGED <<faults, switches>>
  <2>1. ASSUME NEW key \in Keys, Process(key)
        PROVE  UNCHANGED boundVars \/ Fault
    BY <2>1 DEF Process, Begin, Gate, Work, FailurePath, NoticeSettles,
                TerminalNoticeSettles, PermanentNoticeThrows
  <2>2. ASSUME NEW d \in Drains, Poll(d) \/ RetryRunner(d) \/ StartupFails(d) \/ StartupDrain(d)
        PROVE  UNCHANGED boundVars \/ Fault
    BY <2>2 DEF Poll, RetryRunner, StartupFails, StartupDrain, FetchSucceeds, FetchFails,
                RunnerNoticeSettles, RunnerTerminalNoticeSettles, RunnerPermanentNoticeThrows
  <2>3. ASSUME NEW m \in Messages, Post(m) \/ IntakeEnds(m) \/ Clock(m)
        PROVE  UNCHANGED boundVars
    BY <2>3 DEF Post, IntakeEnds, Clock
  <2>4. ASSUME NEW key \in Keys, RecoverChannel(key)
        PROVE  UNCHANGED boundVars \/ Fault
    BY <2>4 DEF RecoverChannel
  <2>5. CASE DrainQueue \/ ReplayNext \/ StartupEnds \/ Restart \/ UNCHANGED vars
    BY <2>5 DEF DrainQueue, ReplayNext, StartupEnds, Restart, vars
  <2>6. ASSUME NEW key \in Keys, SwitchWorkflow(key)
        PROVE  switches < MaxSwitches /\ switches' = switches + 1 /\ UNCHANGED <<faults, crashes>>
    BY <2>6 DEF SwitchWorkflow
  <2>7. CASE Crash
    BY <2>7 DEF Crash
  <2>8. QED
    BY <2>1, <2>2, <2>3, <2>4, <2>5, <2>6, <2>7 DEF Next, Startup
<1>3. faults' \in 0..MaxFaults /\ switches' \in 0..MaxSwitches /\ crashes' \in 0..MaxCrashes
  BY <1>1, <1>2 DEF boundVars, Fault
<1>4. QED
  BY <1>3 DEF BoundsOK

\* Initially nothing is under way.
LEMMA InitRuntime == Init => RuntimeInv
<1> SUFFICES ASSUME Init PROVE RuntimeInv
  OBVIOUS
<1>1. QueueInv /\ SeenCountsInFlight /\ LanesOwnTheirItems
  BY InitQueuePart DEF Init
<1>2. RunShape /\ RunnerShape
  BY RunRecords DEF Init, QueueInit, RunShape, RunnerShape, IdleRunner
<1>3. StoreTypeOK
  BY ChannelAssumption DEF Init, StoreInit, StoreTypeOK, RowStates
<1>4. MemoryTypeOK
  <2>1. IdleRunner \in Runners /\ <<>> \in Seq(Messages) /\ NoRun \in Runs
    BY RunRecords DEF IdleRunner, Runners
  <2>2. QED
    BY <2>1 DEF Init, MemoryTypeOK, LivePhases
<1>5. BoundsOK
  BY BoundsAssumption DEF Init, BoundsOK
<1>6. QED
  BY <1>1, <1>2, <1>3, <1>4, <1>5, TypeParts DEF RuntimeInv, QueueInv

\* Types, queue and shape are inductive together.
LEMMA RuntimeStep == RuntimeInv /\ [Next]_vars => RuntimeInv'
<1> SUFFICES ASSUME RuntimeInv, [Next]_vars PROVE RuntimeInv'
  OBVIOUS
<1>1. (QueueInv /\ SeenCountsInFlight /\ LanesOwnTheirItems)'
  BY QueuePartStep
<1>2. HandlersOK'
  BY HandlersStep
<1>3. BoundsOK'
  BY BoundsStep, RuntimeParts
<1>4. TypeOK'
  BY <1>1, <1>2, <1>3 DEF TypeOK, QueueInv, HandlersOK, MemoryTypeOK, BoundsOK
<1>5. QED
  BY <1>1, <1>2, <1>4 DEF RuntimeInv, HandlersOK

\* Types, queue and handlers agree in every behaviour of the runtime, crashes
\* and recovery included, for any messages, channels, drains and bounds.
THEOREM RuntimeIsWellFormed == Spec => []RuntimeInv
<1>1. QED
  BY InitRuntime, RuntimeStep, PTL DEF Spec

-----------------------------------------------------------------------------
(***************************************************************************)
(* Who works on a message, and which reruns of it are on their way.        *)
(***************************************************************************)

\* The run of the channel is at work on the message.
Working(m) == run[ChannelOf[m]].phase \in InHand /\ Current(ChannelOf[m]) = m

Rerun(m) == QueueItem(m, "workflow_switch_rerun")

\* A rerun of the message is about to acquire it.
Starting(m) == running[ChannelOf[m]] = Rerun(m) /\ run[ChannelOf[m]].phase = "start"

\* The reruns of the message that are queued or about to acquire it.
Reruns(m) ==
    Count(lanes[ChannelOf[m]], {Rerun(m)}) + (IF Starting(m) THEN 1 ELSE 0)

\* A run at work on a message is that of its channel.
LEMMA WorkingIsInProcess ==
    ASSUME RuntimeInv, NEW m \in Messages
    PROVE  InProcess(m) <=> Working(m)
<1>1. ASSUME NEW key \in Keys, run[key].phase \in InHand, Current(key) = m
      PROVE  key = ChannelOf[m]
  BY <1>1, RunOfKey, RunRecords
<1>2. ChannelOf[m] \in Keys
  BY MessageItems
<1>3. QED
  BY <1>1, <1>2 DEF InProcess, Working

\* The item of m and this source is about to acquire it.
Begins(m, source) ==
    running[ChannelOf[m]] = QueueItem(m, source) /\ run[ChannelOf[m]].phase = "start"

\* How often the item of m and this source is queued or about to acquire it.
Pending(m, source) ==
    Count(lanes[ChannelOf[m]], {QueueItem(m, source)}) + (IF Begins(m, source) THEN 1 ELSE 0)

\* The items of a message differ from those of all others.
LEMMA ItemOf ==
    ASSUME NEW m \in Messages, NEW source \in Sources
    PROVE  /\ QueueItem(m, source) \in Items /\ QueueItem(m, source).messageId = m
           /\ QueueItem(m, source).orderingKey = ChannelOf[m]
           /\ QueueItem(m, source).source = source
           /\ ChannelOf[m] \in Keys
           /\ \A n \in Messages : \A s \in Sources :
                 QueueItem(n, s) = QueueItem(m, source) => n = m /\ s = source
BY MessageItems

\* Counts of what is pending are numbers.
LEMMA PendingType ==
    ASSUME RuntimeInv, NEW m \in Messages, NEW source \in Sources
    PROVE  /\ Pending(m, source) \in Nat /\ Count(lanes[ChannelOf[m]], {QueueItem(m, source)}) \in Nat
           /\ lanes[ChannelOf[m]] \in Seq(Items)
<1>1. lanes[ChannelOf[m]] \in Seq(Items)
  BY MessageItems DEF RuntimeInv, TypeOK, QueueTypeOK
<1>2. Count(lanes[ChannelOf[m]], {QueueItem(m, source)}) \in Nat
  BY <1>1, CountType
<1>3. QED
  BY <1>1, <1>2 DEF Pending

\* Where neither lane nor run of a channel change, nothing changes for m.
LEMMA PendingUntouched ==
    ASSUME NEW m \in Messages, NEW source \in Sources,
           run'[ChannelOf[m]] = run[ChannelOf[m]],
           running'[ChannelOf[m]] = running[ChannelOf[m]]
    PROVE  /\ Working(m)' <=> Working(m)
           /\ lanes'[ChannelOf[m]] = lanes[ChannelOf[m]] => Pending(m, source)' = Pending(m, source)
BY DEF Working, Current, Pending, Begins

\* A settled key works on nothing, and what begins of m comes from the lane.
LEMMA PendingSettles ==
    ASSUME RuntimeInv, NEW key \in Keys, Settle(key), NEW m \in Messages, NEW source \in Sources
    PROVE  /\ ChannelOf[m] = key =>
                ~Working(m)' /\ Pending(m, source)' = Count(lanes[key], {QueueItem(m, source)})
           /\ ChannelOf[m] # key =>
                (Working(m)' <=> Working(m)) /\ Pending(m, source)' = Pending(m, source)
<1>1. PICK r \in Runs :
          /\ run' = [run EXCEPT ![key] = r]
          /\ r.phase \in {"idle", "start"}
          /\ r.phase = "idle" <=> running'[key] = None
  BY SettleEffect
<1>2. run \in [Keys -> Runs] /\ lanes[key] \in Seq(Items)
  BY DEF RuntimeInv, TypeOK, QueueTypeOK
<1>3. run'[key] = r /\ \A other \in Keys \ {key} : run'[other] = run[other]
  BY <1>1, <1>2
<1>4. CASE ChannelOf[m] = key
  <2>1. ~Working(m)'
    BY <1>1, <1>3, <1>4, RunRecords DEF Working
  <2>2. QueueItem(m, source) # None
    BY ItemOf, NoneAssumption
  <2>3. CASE lanes[key] # <<>>
    <3>1. /\ lanes'[key] = Tail(lanes[key]) /\ running'[key] = Head(lanes[key])
          /\ running'[key] # None
      BY <2>3, SettleEffect
    <3>2. r.phase = "start"
      BY <1>1, <3>1
    <3>3. Begins(m, source)' <=> Head(lanes[key]) = QueueItem(m, source)
      BY <1>3, <1>4, <3>1, <3>2 DEF Begins
    <3>4. Count(lanes[key], {QueueItem(m, source)}) = Count(Tail(lanes[key]), {QueueItem(m, source)})
              + (IF Head(lanes[key]) \in {QueueItem(m, source)} THEN 1 ELSE 0)
      BY <1>2, <2>3, CountAfterTail
    <3>5. Pending(m, source)' = Count(Tail(lanes[key]), {QueueItem(m, source)}) + (IF Begins(m, source)' THEN 1 ELSE 0)
      BY <1>4, <3>1 DEF Pending, Count, Positions
    <3>6. QED
      BY <1>4, <2>1, <3>3, <3>4, <3>5
  <2>4. CASE lanes[key] = <<>>
    <3>1. lanes'[key] = lanes[key] /\ running'[key] = None
      BY <2>4, SettleEffect
    <3>2. ~Begins(m, source)'
      BY <1>4, <2>2, <3>1 DEF Begins
    <3>3. Pending(m, source)' = Count(lanes[key], {QueueItem(m, source)}) + 0
      BY <1>4, <3>1, <3>2 DEF Pending, Count, Positions
    <3>4. Count(lanes[key], {QueueItem(m, source)}) \in Nat
      BY <1>2, CountType
    <3>5. QED
      BY <1>4, <2>1, <3>3, <3>4
  <2>5. QED
    BY <2>3, <2>4
<1>5. CASE ChannelOf[m] # key
  <2>1. ChannelOf[m] \in Keys \ {key}
    BY <1>5, MessageItems
  <2>2. /\ run'[ChannelOf[m]] = run[ChannelOf[m]]
        /\ running'[ChannelOf[m]] = running[ChannelOf[m]]
        /\ lanes'[ChannelOf[m]] = lanes[ChannelOf[m]]
    BY <1>3, <2>1, SettleEffect
  <2>3. QED
    BY <1>5, <2>2, PendingUntouched
<1>6. QED
  BY <1>4, <1>5

\* A run that goes on works on the same message.
LEMMA PendingGoesOn ==
    ASSUME RuntimeInv, NEW key \in Keys, run[key].phase \in InHand, NEW r \in Runs,
           r.phase \in InHand, run' = [run EXCEPT ![key] = r], UNCHANGED queueVars,
           NEW m \in Messages, NEW source \in Sources
    PROVE  (Working(m)' <=> Working(m)) /\ Pending(m, source)' = Pending(m, source)
<1>1. /\ run'[key] = r /\ \A other \in Keys \ {key} : run'[other] = run[other]
      /\ running' = running /\ lanes' = lanes
  BY DEF RuntimeInv, TypeOK, queueVars
<1>2. ChannelOf[m] \in Keys
  BY MessageItems
<1>3. CASE ChannelOf[m] = key
  <2>1. Working(m)' <=> Working(m)
    BY <1>1, <1>3 DEF Working, Current
  <2>2. ~Begins(m, source) /\ ~Begins(m, source)'
    BY <1>1, <1>3, RunRecords DEF Begins
  <2>3. QED
    BY <1>1, <2>1, <2>2 DEF Pending, Count, Positions
<1>4. CASE ChannelOf[m] # key
  BY <1>1, <1>2, <1>4, PendingUntouched
<1>5. QED
  BY <1>3, <1>4

\* What begins works on its message, and is pending no more.
LEMMA PendingBegins ==
    ASSUME RuntimeInv, NEW key \in Keys, Takes(key), NEW m \in Messages, NEW source \in Sources
    PROVE  /\ Working(m)' <=> Working(m) \/ m = Current(key)
           /\ ChannelOf[m] = key => ~Working(m)
           /\ ChannelOf[m] = key => Pending(m, source)' = Count(lanes[key], {QueueItem(m, source)})
           /\ ChannelOf[m] # key => Pending(m, source)' = Pending(m, source)
<1>1. "admission" \in InHand /\ "admission" # "start" /\ run[key] \in Runs
      /\ Current(key) \in Messages /\ ChannelOf[Current(key)] = key
  BY RunOfKey DEF Takes, InHand, GatePhases
<1>2. /\ run'[key].phase = "admission" /\ \A other \in Keys \ {key} : run'[other] = run[other]
      /\ running' = running /\ lanes' = lanes /\ run[key].phase = "start"
  BY <1>1, RunRecords DEF Takes, RuntimeInv, TypeOK, queueVars
<1>3. ChannelOf[m] \in Keys
  BY MessageItems
<1>4. CASE ChannelOf[m] = key
  <2>1. ~Working(m) /\ (Working(m)' <=> m = Current(key))
    BY <1>1, <1>2, <1>4, RunRecords DEF Working, Current
  <2>2. ~Begins(m, source)'
    BY <1>2, <1>4 DEF Begins
  <2>3. Pending(m, source)' = Count(lanes[key], {QueueItem(m, source)}) + 0
    BY <1>2, <1>4, <2>2 DEF Pending, Count, Positions
  <2>4. lanes[key] \in Seq(Items)
    BY DEF RuntimeInv, TypeOK, QueueTypeOK
  <2>5. Count(lanes[key], {QueueItem(m, source)}) \in Nat
    BY <2>4, CountType
  <2>6. QED
    BY <1>4, <2>1, <2>3, <2>5
<1>5. CASE ChannelOf[m] # key
  <2>1. m # Current(key)
    BY <1>1, <1>5
  <2>2. QED
    BY <1>2, <1>3, <1>5, <2>1, PendingUntouched
<1>6. QED
  BY <1>4, <1>5

\* A drain moves items from lanes to workers.
LEMMA PendingDrains ==
    ASSUME RuntimeInv, DrainQueue, NEW m \in Messages, NEW source \in Sources
    PROVE  /\ Working(m)' <=> Working(m)
           /\ Working(m) => run'[ChannelOf[m]] = run[ChannelOf[m]]
                            /\ running'[ChannelOf[m]] = running[ChannelOf[m]]
           /\ Pending(m, source)' = Pending(m, source)
<1> DEFINE key == ChannelOf[m]
           started == [NoRun EXCEPT !.phase = "start"]
<1>1. QueueTypeOK /\ ActiveIffRunning /\ RunShape /\ key \in Keys
  BY MessageItems DEF RuntimeInv, QueueInv
<1>2. PICK S \in Selections :
        /\ running' = [k \in Keys |-> IF k \in S THEN Head(lanes[k]) ELSE running[k]]
        /\ lanes' = [k \in Keys |-> IF k \in S THEN Tail(lanes[k]) ELSE lanes[k]]
        /\ run' = [k \in Keys |-> IF running'[k] # running[k] THEN started ELSE run[k]]
  BY DEF DrainQueue, Drain
<1>3. started.phase = "start"
  BY RunRecords
<1> HIDE DEF started
<1>4. CASE key \in S
  <2>1. lanes[key] # <<>> /\ running[key] = None /\ lanes[key] \in Seq(Items)
        /\ Head(lanes[key]) \in Items
    BY <1>1, <1>4 DEF Selections, Waiting, ActiveIffRunning, QueueTypeOK
  <2>2. run[key].phase = "idle"
    BY <1>1, <2>1 DEF RunShape
  <2>3. /\ running'[key] = Head(lanes[key]) /\ lanes'[key] = Tail(lanes[key])
        /\ run'[key] = started
    BY <1>1, <1>2, <1>4, <2>1, NoneAssumption
  <2>4. ~Working(m) /\ ~Working(m)'
    BY <1>3, <2>2, <2>3, RunRecords DEF Working
  <2>5. ~Begins(m, source) /\ (Begins(m, source)' <=> Head(lanes[key]) = QueueItem(m, source))
    BY <1>3, <2>2, <2>3 DEF Begins
  <2>6. Count(lanes[key], {QueueItem(m, source)}) = Count(Tail(lanes[key]), {QueueItem(m, source)})
            + (IF Head(lanes[key]) \in {QueueItem(m, source)} THEN 1 ELSE 0)
    BY <2>1, CountAfterTail
  <2>7. Pending(m, source)' = Count(Tail(lanes[key]), {QueueItem(m, source)}) + (IF Begins(m, source)' THEN 1 ELSE 0)
    BY <2>3 DEF Pending, Count, Positions
  <2>8. Pending(m, source) = Count(lanes[key], {QueueItem(m, source)}) + 0 /\ Count(lanes[key], {QueueItem(m, source)}) \in Nat
    BY <2>5, PendingType DEF Pending
  <2>9. QED
    BY <2>4, <2>5, <2>6, <2>7, <2>8
<1>5. CASE key \notin S
  <2>1. running'[key] = running[key] /\ lanes'[key] = lanes[key] /\ run'[key] = run[key]
    BY <1>1, <1>2, <1>5
  <2>2. QED
    BY <2>1, PendingUntouched
<1>6. QED
  BY <1>4, <1>5

\* An item that enters its lane is one more of its own message and source.
LEMMA PendingEnqueues ==
    ASSUME RuntimeInv, NEW item \in Items, Enqueue(item), run' = run, NEW m \in Messages, NEW source \in Sources
    PROVE  /\ Working(m)' <=> Working(m)
           /\ Pending(m, source)' = Pending(m, source) + (IF item = QueueItem(m, source) THEN 1 ELSE 0)
<1> DEFINE key == ChannelOf[m]
           own == item.orderingKey
<1>1. /\ running' = running /\ key \in Keys /\ own \in Keys
      /\ lanes \in [Keys -> Seq(Items)] /\ lanes[own] \in Seq(Items)
  BY MessageItems, ItemsAssumption DEF Enqueue, RuntimeInv, TypeOK, QueueTypeOK
<1>2. PICK n \in 0..Len(lanes[own]) :
         lanes' = [lanes EXCEPT ![own] = InsertAfter(lanes[own], n, item)]
  BY DEF Enqueue, SortedPositions
<1>3. (Working(m)' <=> Working(m)) /\ (Begins(m, source)' <=> Begins(m, source))
  BY <1>1 DEF Working, Current, Begins
<1>4. Pending(m, source) \in Nat /\ Count(lanes[key], {QueueItem(m, source)}) \in Nat
  BY PendingType
<1>5. CASE own = key
  <2>1. lanes'[key] = InsertAfter(lanes[own], n, item)
    BY <1>1, <1>2, <1>5
  <2>2. Count(lanes'[key], {QueueItem(m, source)})
           = Count(lanes[key], {QueueItem(m, source)}) + (IF item \in {QueueItem(m, source)} THEN 1 ELSE 0)
    BY <1>1, <1>5, <2>1, CountAfterInsert
  <2>3. Pending(m, source)' = Count(lanes'[key], {QueueItem(m, source)}) + (IF Begins(m, source) THEN 1 ELSE 0)
    BY <1>3 DEF Pending, Count, Positions
  <2>4. Pending(m, source) = Count(lanes[key], {QueueItem(m, source)}) + (IF Begins(m, source) THEN 1 ELSE 0)
    BY DEF Pending
  <2>5. QED
    BY <1>3, <1>4, <2>2, <2>3, <2>4
<1>6. CASE own # key
  <2>1. lanes'[key] = lanes[key] /\ item # QueueItem(m, source)
    BY <1>1, <1>2, <1>6, ItemOf
  <2>2. Pending(m, source)' = Pending(m, source)
    BY <1>1, <2>1, PendingUntouched
  <2>3. QED
    BY <1>3, <1>4, <2>1, <2>2
<1>7. QED
  BY <1>5, <1>6
-----------------------------------------------------------------------------
(***************************************************************************)
(* The same of the reruns.                                                 *)
(***************************************************************************)

\* Reruns(m) counts the pending reruns.
LEMMA RerunsArePending ==
    ASSUME NEW m
    PROVE  /\ "workflow_switch_rerun" \in Sources
           /\ Rerun(m) = QueueItem(m, "workflow_switch_rerun")
           /\ Reruns(m) = Pending(m, "workflow_switch_rerun")
           /\ Reruns(m)' = Pending(m, "workflow_switch_rerun")'
BY DEF Sources, Rerun, Reruns, Pending, Starting, Begins

\* Rerun(m) is an item of the channel of m.
LEMMA RerunItem ==
    ASSUME NEW m \in Messages
    PROVE  /\ Rerun(m) \in Items /\ Rerun(m).messageId = m
           /\ Rerun(m).orderingKey = ChannelOf[m]
           /\ Rerun(m).source = "workflow_switch_rerun"
           /\ ChannelOf[m] \in Keys
           /\ \A n \in Messages : Rerun(n) = Rerun(m) => n = m
BY MessageItems DEF Rerun, Sources

\* The reruns of a message, queued and asked for, are numbers.
LEMMA RerunsType ==
    ASSUME RuntimeInv, NEW m \in Messages
    PROVE  /\ Reruns(m) \in Nat /\ Count(lanes[ChannelOf[m]], {Rerun(m)}) \in Nat
           /\ lanes[ChannelOf[m]] \in Seq(Items)
BY PendingType, RerunsArePending DEF Rerun

\* Where neither lane nor run of a channel change, nothing changes for m.
LEMMA ChannelUntouched ==
    ASSUME NEW m \in Messages,
           run'[ChannelOf[m]] = run[ChannelOf[m]],
           running'[ChannelOf[m]] = running[ChannelOf[m]]
    PROVE  /\ Working(m)' <=> Working(m)
           /\ lanes'[ChannelOf[m]] = lanes[ChannelOf[m]] => Reruns(m)' = Reruns(m)
BY PendingUntouched, RerunsArePending DEF Rerun

\* A settled key works on nothing, and its queued reruns are those of the lane.
LEMMA SettleOn ==
    ASSUME RuntimeInv, NEW key \in Keys, Settle(key), NEW m \in Messages
    PROVE  /\ ChannelOf[m] = key =>
                ~Working(m)' /\ Reruns(m)' = Count(lanes[key], {Rerun(m)})
           /\ ChannelOf[m] # key =>
                (Working(m)' <=> Working(m)) /\ Reruns(m)' = Reruns(m)
BY PendingSettles, RerunsArePending DEF Rerun

\* A run that goes on works on the same message.
LEMMA RunGoesOn ==
    ASSUME RuntimeInv, NEW key \in Keys, run[key].phase \in InHand, NEW r \in Runs,
           r.phase \in InHand, run' = [run EXCEPT ![key] = r], UNCHANGED queueVars,
           NEW m \in Messages
    PROVE  (Working(m)' <=> Working(m)) /\ Reruns(m)' = Reruns(m)
BY PendingGoesOn, RerunsArePending DEF Rerun

\* What begins works on its message, and is a rerun on its way no more.
LEMMA RunBegins ==
    ASSUME RuntimeInv, NEW key \in Keys, Takes(key), NEW m \in Messages
    PROVE  /\ Working(m)' <=> Working(m) \/ m = Current(key)
           /\ ChannelOf[m] = key => ~Working(m)
           /\ ChannelOf[m] = key => Reruns(m)' = Count(lanes[key], {Rerun(m)})
           /\ ChannelOf[m] # key => Reruns(m)' = Reruns(m)
BY PendingBegins, RerunsArePending DEF Rerun

\* A drain moves reruns from lanes to workers.
LEMMA DrainOn ==
    ASSUME RuntimeInv, DrainQueue, NEW m \in Messages
    PROVE  /\ Working(m)' <=> Working(m)
           /\ Working(m) => run'[ChannelOf[m]] = run[ChannelOf[m]]
                            /\ running'[ChannelOf[m]] = running[ChannelOf[m]]
           /\ Reruns(m)' = Reruns(m)
BY PendingDrains, RerunsArePending DEF Rerun

\* An item that enters its lane is a rerun more of its own message, if it is one.
LEMMA EnqueueOn ==
    ASSUME RuntimeInv, NEW item \in Items, Enqueue(item), run' = run, NEW m \in Messages
    PROVE  /\ Working(m)' <=> Working(m)
           /\ Reruns(m)' = Reruns(m) + (IF item = Rerun(m) THEN 1 ELSE 0)
BY PendingEnqueues, RerunsArePending DEF Rerun

-----------------------------------------------------------------------------
(***************************************************************************)
(* Answers have causes.                                                    *)
(***************************************************************************)

\* What the store operations do to the row and the job of a message.
LEMMA RowsAfter ==
    ASSUME StoreTypeOK, NEW n \in Messages, NEW m \in Messages
    PROVE  /\ Acquire(n) => rowState'[m] = IF m = n THEN "processing" ELSE rowState[m]
           /\ \A state : MarkRow(n, state) =>
                 rowState'[m] = IF m = n /\ rowState[m] # "none" THEN state ELSE rowState[m]
           /\ \A attempt : UpsertRetryJob(n, attempt) =>
                 retryJob'[m] = IF m = n THEN attempt ELSE retryJob[m]
BY DEF StoreTypeOK, Acquire, MarkRow, UpsertRetryJob

\* The same for whole handlers, message by message.
LEMMA OperationsAfter ==
    ASSUME StoreTypeOK, NEW n \in Messages, NEW m \in Messages
    PROVE  /\ DeleteRetryJob(n) => retryJob'[m] = IF m = n THEN 0 ELSE retryJob[m]
           /\ ScheduleRetry(n) =>
                 /\ rowState'[m] = IF m = n /\ rowState[m] # "none"
                                   THEN "pending_retry" ELSE rowState[m]
                 /\ retryJob'[m] = IF m = n THEN retryJob[m] + 1 ELSE retryJob[m]
           /\ \A state : ResolveAs(n, state) =>
                 /\ rowState'[m] = IF m = n /\ rowState[m] # "none"
                                   THEN state ELSE rowState[m]
                 /\ retryJob'[m] = IF m = n THEN 0 ELSE retryJob[m]
           /\ \A state : ResolveCutShort(n, state) =>
                 /\ rowState'[m] \in {rowState[m], IF m = n /\ rowState[m] # "none"
                                                   THEN state ELSE rowState[m]}
                 /\ retryJob'[m] = IF m = n THEN 0 ELSE retryJob[m]
           /\ ScheduleCutShort(n) =>
                 /\ rowState'[m] = rowState[m]
                 /\ retryJob'[m] = IF m = n THEN retryJob[m] + 1 ELSE retryJob[m]
           /\ DuplicateCutShort(n) => rowState'[m] = rowState[m] /\ retryJob'[m] = retryJob[m]
BY RowsAfter DEF DeleteRetryJob, ScheduleRetry, ResolveAs, ResolveCutShort,
                 ScheduleCutShort, DuplicateCutShort

\* The steps that concern neither tables nor handlers: they may submit a live
\* message and count a failure.
Quiet ==
    /\ UNCHANGED <<rowState, retryJob, run, rerunRequested, runner, answers,
                   switches, crashes>>
    /\ faults' \in {faults, faults + 1}
    /\ UNCHANGED queueVars \/ \E m \in Messages : Enqueue(QueueItem(m, "live"))

\* The process dies or does not come up.
Dies ==
    /\ LoseMemory
    /\ \/ UNCHANGED storeVars
       \/ \E key \in Keys : CutShort(key)
       \/ \E d \in Drains : RunnerCutShort(d)
    /\ \/ faults' = faults + 1 /\ UNCHANGED <<switches, crashes>>
       \/ crashes' = crashes + 1 /\ UNCHANGED <<faults, switches>>

\* The kinds of steps the runtime takes.
LEMMA StepKinds ==
    ASSUME RuntimeInv, [Next]_vars
    PROVE  \/ DrainQueue
           \/ \E key \in Keys : ProcessStep(key) /\ ElsewhereUnchanged
           \/ \E key \in Keys : SwitchWorkflow(key)
           \/ \E d \in Drains : RetryRunner(d)
           \/ \E d \in Drains : Poll(d) \/ StartupDrain(d)
           \/ Quiet
           \/ Dies
<1>1. ASSUME NEW m \in Messages, Submit(m)
      PROVE  UNCHANGED queueVars \/ Enqueue(QueueItem(m, "live"))
  BY <1>1 DEF Submit
<1>2. ASSUME NEW m \in Messages, IntakeEnds(m)
      PROVE  Quiet
  BY <1>1, <1>2 DEF IntakeEnds, Quiet, storeVars, boundVars
<1>3. ASSUME ReplayNext
      PROVE  Quiet
  <2>1. Head(replay) \in Messages
    BY <1>3 DEF ReplayNext, RuntimeInv, TypeOK
  <2>2. QED
    BY <1>1, <1>3, <2>1 DEF ReplayNext, Quiet, storeVars, boundVars
<1>4. CASE \/ \E m \in Messages : Post(m) \/ Clock(m)
           \/ \E key \in Keys : RecoverChannel(key)
           \/ StartupEnds \/ Restart \/ UNCHANGED vars
  BY <1>4 DEF Post, Clock, RecoverChannel, FetchBacklog, StartupEnds, Restart, vars, Quiet,
              LeaseExpires, JobFallsDue, Fault, storeVars, volatileVars, boundVars, historyVars
<1>5. CASE \E d \in Drains : StartupFails(d)
  BY <1>5 DEF StartupFails, Dies, Fault
<1>6. CASE Crash
  BY <1>6 DEF Crash, Dies
<1>7. ASSUME NEW key \in Keys, Process(key)
      PROVE  ProcessStep(key) /\ ElsewhereUnchanged
  BY <1>7, ProcessCases
<1>8. QED
  BY <1>2, <1>3, <1>4, <1>5, <1>6, <1>7 DEF Next, Startup
-----------------------------------------------------------------------------
\* A message without a row has no job, no run at work on it, no rerun request
\* and no drain that holds a job of it.
RowsBegun ==
    \A m \in Messages : rowState[m] = "none" =>
        /\ retryJob[m] = 0 /\ m \notin rerunRequested /\ ~Working(m)
        /\ \A d \in Drains : \A i \in 1..Len(runner[d].jobs) : runner[d].jobs[i].message # m

\* What RowsBegun says of one message, with the memory that lives in the drains apart.
Untouched(m) == retryJob[m] = 0 /\ m \notin rerunRequested /\ ~Working(m)
NoJobOf(m, d) == \A i \in 1..Len(runner[d].jobs) : runner[d].jobs[i].message # m

\* A row stays, once written.
LEMMA RowsStay ==
    ASSUME RuntimeInv, [Next]_vars, NEW m \in Messages, rowState'[m] = "none"
    PROVE  rowState[m] = "none"
<1>1. JobsTypeOK
  BY DEF RuntimeInv, TypeOK, StoreTypeOK, JobsTypeOK
<1> USE DEF JobsTypeOK, Resolved, MarkRow, UpsertRetryJob, DeleteRetryJob
<1>2. CASE StoreEffect
  BY <1>1, <1>2 DEF StoreEffect, RowsAndJobs, Acquire, ScheduleRetry, ResolveAs
<1>3. CASE CutShortEffect
  BY <1>1, <1>3, CutShortCases DEF DuplicateCutShort, ResolveCutShort, ScheduleCutShort
<1>4. QED
  BY <1>2, <1>3, StepsAreStoreEffects

\* A step of process() touches the message it works on, and no other.
LEMMA ProcessLeavesUntouched ==
    ASSUME RuntimeInv, NEW key \in Keys, ProcessStep(key), NEW m \in Messages, Untouched(m),
           rowState'[m] = "none", rowState[m] = "none"
    PROVE  Untouched(m)'
<1> DEFINE c == Current(key)
<1>1. run[key].phase = "start" \/ run[key].phase \in InHand
  BY DEF ProcessStep, Takes, Skips, Refuses, GoesOn, Concludes, GivesUp, Stops,
         Postpones, InHand, FailurePhases
<1>2. c \in Messages /\ ChannelOf[c] = key /\ run[key] \in Runs
  BY <1>1, RunOfKey, RunRecords
<1>3. run[key].phase \in InHand => c # m
  BY <1>2 DEF Untouched, Working
<1>4. StoreTypeOK
  BY DEF RuntimeInv, TypeOK
<1> HIDE DEF c
<1>5. CASE Takes(key)
  <2>1. m # c
    BY <1>2, <1>4, <1>5, RowsAfter DEF Takes, c
  <2>2. ~Working(m)'
    BY <1>5, <2>1, RunBegins DEF Untouched, c
  <2>3. QED
    BY <1>5, <2>2 DEF Takes, Untouched, c
<1>6. CASE Settle(key) /\ retryJob'[m] = 0 /\ rerunRequested' = rerunRequested
  BY <1>6, SettleOn DEF Untouched
<1>7. CASE GoesOn(key)
  <2>1. PICK r \in Runs : r.phase \in InHand /\ run' = [run EXCEPT ![key] = r]
    BY <1>7 DEF GoesOn
  <2>2. ~Working(m)'
    BY <1>7, <2>1, RunGoesOn DEF GoesOn, Untouched
  <2>3. QED
    BY <1>7, <2>2 DEF GoesOn, Untouched, storeVars
<1>8. CASE Skips(key) \/ Refuses(key) \/ GivesUp(key) \/ Stops(key)
  <2>1. retryJob'[m] = 0
    BY <1>2, <1>4, <1>8, OperationsAfter
       DEF Skips, Refuses, GivesUp, Stops, Untouched, storeVars, c
  <2>2. QED
    BY <1>6, <1>8, <2>1 DEF Skips, Refuses, GivesUp, Stops
<1>9. CASE Concludes(key) \/ Postpones(key)
  <2>1. run[key].phase \in InHand
    BY <1>9 DEF Concludes, Postpones, InHand, FailurePhases
  <2>2. m # c
    BY <1>3, <2>1
  <2>3. retryJob'[m] = 0
    BY <1>2, <1>4, <1>9, <2>2, OperationsAfter DEF Concludes, Postpones, Untouched, c
  <2>4. QED
    BY <1>6, <1>9, <2>3 DEF Concludes, Postpones
<1>10. QED
  BY <1>5, <1>7, <1>8, <1>9 DEF ProcessStep

\* A drain that is replaced by one without jobs of the message.
LEMMA NoJobReplaced ==
    ASSUME RuntimeInv, NEW d \in Drains, NEW r \in Runners, runner' = [runner EXCEPT ![d] = r],
           NEW m \in Messages, \A i \in 1..Len(r.jobs) : r.jobs[i].message # m,
           \A other \in Drains : NoJobOf(m, other)
    PROVE  \A other \in Drains : NoJobOf(m, other)'
<1>1. runner'[d] = r /\ \A other \in Drains \ {d} : runner'[other] = runner[other]
  BY DEF RuntimeInv, TypeOK
<1>2. QED
  BY <1>1 DEF NoJobOf

\* A message nobody has begun stays so until its row is written.
LEMMA RowsBegunStep ==
    RuntimeInv /\ RowsBegun /\ [Next]_vars => RowsBegun'
<1> SUFFICES ASSUME RuntimeInv, RowsBegun, [Next]_vars, NEW m \in Messages,
                    rowState'[m] = "none"
             PROVE  Untouched(m)' /\ \A d \in Drains : NoJobOf(m, d)'
  BY DEF RowsBegun, Untouched, NoJobOf
<1>1. rowState[m] = "none"
  BY RowsStay
<1>2. Untouched(m) /\ \A d \in Drains : NoJobOf(m, d)
  BY <1>1 DEF RowsBegun, Untouched, NoJobOf
<1>3. StoreTypeOK /\ ChannelOf[m] \in Keys
  BY MessageItems DEF RuntimeInv, TypeOK
<1>4. CASE DrainQueue
  <2>1. ~Working(m)'
    BY <1>2, <1>4, DrainOn DEF Untouched
  <2>2. UNCHANGED <<retryJob, rerunRequested, runner>>
    BY <1>4 DEF DrainQueue, storeVars
  <2>3. QED
    BY <1>2, <2>1, <2>2 DEF Untouched, NoJobOf
<1>5. ASSUME NEW key \in Keys, ProcessStep(key), ElsewhereUnchanged
      PROVE  Untouched(m)' /\ \A d \in Drains : NoJobOf(m, d)'
  BY <1>1, <1>2, <1>5, ProcessLeavesUntouched DEF ElsewhereUnchanged, NoJobOf
<1>6. ASSUME NEW key \in Keys, SwitchWorkflow(key)
      PROVE  Untouched(m)' /\ \A d \in Drains : NoJobOf(m, d)'
  <2>1. /\ rerunRequested' = rerunRequested \cup {Current(key)}
        /\ rowState[Current(key)] = "processing"
        /\ UNCHANGED <<run, running, runner, retryJob>>
    BY <1>6 DEF SwitchWorkflow, RerunMarkable, SubmitRerun, Enqueue
  <2>2. QED
    BY <1>1, <1>2, <2>1 DEF Untouched, NoJobOf, Working, Current
<1>7. ASSUME NEW d \in Drains, RetryRunner(d)
      PROVE  Untouched(m)' /\ \A other \in Drains : NoJobOf(m, other)'
  <2>1. runner[d].step # "idle" /\ \A i \in 1..Len(runner[d].jobs) : runner[d].jobs[i].message # m
    BY <1>2, <1>7, RunnerCases DEF NoJobOf
  <2>2. /\ Job(d) = runner[d].jobs[1] /\ Job(d).message \in Messages
        /\ Len(runner[d].jobs) \in Nat \ {0}
        /\ Len(Tail(runner[d].jobs)) = Len(runner[d].jobs) - 1
        /\ \A i \in 1..Len(Tail(runner[d].jobs)) : Tail(runner[d].jobs)[i] = runner[d].jobs[i + 1]
    BY <2>1, JobOfRunner
  <2>3. Job(d).message # m
    BY <2>1, <2>2
  <2>4. PICK r \in Runners : runner' = [runner EXCEPT ![d] = r]
                             /\ r.jobs \in {Tail(runner[d].jobs), runner[d].jobs, <<>>}
    BY <1>7, RunnerCases
  <2>5. \A i \in 1..Len(r.jobs) : r.jobs[i].message # m
    <3>1. CASE r.jobs = Tail(runner[d].jobs)
      <4>1. \A i \in 1..Len(r.jobs) : i + 1 \in 1..Len(runner[d].jobs)
                                      /\ r.jobs[i] = runner[d].jobs[i + 1]
        BY <2>2, <3>1
      <4>2. QED
        BY <2>1, <4>1
    <3>2. CASE r.jobs = runner[d].jobs
      BY <2>1, <3>2
    <3>3. CASE r.jobs = <<>>
      BY <3>3
    <3>4. QED
      BY <2>4, <3>1, <3>2, <3>3
  <2>6. \A other \in Drains : NoJobOf(m, other)'
    BY <1>2, <2>4, <2>5, NoJobReplaced
  <2>7. \/ UNCHANGED storeVars
        \/ ScheduleRetry(Job(d).message)
        \/ \E state \in Resolved : ResolveAs(Job(d).message, state)
    BY <1>7 DEF RetryRunner, FetchSucceeds, FetchFails, RunnerNoticeSettles, Resolved,
           RunnerTerminalNoticeSettles, RunnerPermanentNoticeThrows
  <2>8. retryJob'[m] = 0
    BY <1>2, <1>3, <2>2, <2>3, <2>7, OperationsAfter DEF storeVars, Untouched
  <2>9. UNCHANGED <<run, rerunRequested, running>>
    BY <1>7 DEF RetryRunner, FetchSucceeds, FetchFails, RunnerNoticeSettles, Enqueue,
             RunnerTerminalNoticeSettles, RunnerPermanentNoticeThrows, queueVars
  <2>10. QED
    BY <1>2, <2>6, <2>8, <2>9 DEF Untouched, Working, Current
<1>8. ASSUME NEW d \in Drains, Poll(d) \/ StartupDrain(d)
      PROVE  Untouched(m)' /\ \A other \in Drains : NoJobOf(m, other)'
  <2>1. Snapshot(d) /\ UNCHANGED <<run, rerunRequested, running, retryJob>>
    BY <1>8 DEF Poll, StartupDrain, queueVars, storeVars
  <2>2. PICK r \in Runners : /\ runner' = [runner EXCEPT ![d] = r]
                             /\ \A i \in 1..Len(r.jobs) : retryJob[r.jobs[i].message] > 0
    BY <2>1, SnapshotRunner
  <2>3. \A i \in 1..Len(r.jobs) : r.jobs[i].message # m
    BY <1>2, <2>2 DEF Untouched
  <2>4. \A other \in Drains : NoJobOf(m, other)'
    BY <1>2, <2>2, <2>3, NoJobReplaced
  <2>5. QED
    BY <1>2, <2>1, <2>4 DEF Untouched, Working, Current
<1>9. CASE Quiet
  <2>1. running' = running
    BY <1>9 DEF Quiet, Enqueue, queueVars
  <2>2. QED
    BY <1>2, <1>9, <2>1 DEF Quiet, Untouched, NoJobOf, Working, Current
<1>10. CASE Dies
  <2>1. ~Working(m)'
    BY <1>3, <1>10, RunRecords DEF Dies, LoseMemory, Working
  <2>2. \A d \in Drains : NoJobOf(m, d)'
    BY <1>10 DEF Dies, LoseMemory, NoJobOf, IdleRunner
  <2>3. retryJob'[m] = 0
    <3>1. CASE UNCHANGED storeVars
      BY <1>2, <3>1 DEF storeVars, Untouched
    <3>2. ASSUME NEW key \in Keys, CutShort(key)
          PROVE  retryJob'[m] = 0
      <4>1. run[key].phase # "idle"
        BY <3>2 DEF CutShort, GatePhases
      <4>2. Current(key) \in Messages /\ ChannelOf[Current(key)] = key
        BY <4>1, RunOfKey, RunRecords
      <4>3. run[key].phase = "start" \/ Current(key) # m
        BY <1>2, <3>2, <4>2 DEF CutShort, InHand, GatePhases, WorkPhases, FailurePhases,
                                Untouched, Working
      <4>4. QED
        BY <1>2, <1>3, <3>2, <4>2, <4>3, OperationsAfter DEF CutShort, Untouched, GatePhases
    <3>3. ASSUME NEW d \in Drains, RunnerCutShort(d)
          PROVE  retryJob'[m] = 0
      <4>1. runner[d].step # "idle"
        BY <3>3 DEF RunnerCutShort
      <4>2. /\ Job(d) = runner[d].jobs[1] /\ Job(d).message \in Messages
            /\ 1 \in 1..Len(runner[d].jobs)
        BY <4>1, JobOfRunner
      <4>3. Job(d).message # m
        BY <1>2, <4>2 DEF NoJobOf
      <4>4. QED
        BY <1>2, <1>3, <3>3, <4>2, <4>3, OperationsAfter DEF RunnerCutShort, Untouched
    <3>4. QED
      BY <1>10, <3>1, <3>2, <3>3 DEF Dies
  <2>4. QED
    BY <1>10, <2>1, <2>2, <2>3 DEF Dies, LoseMemory, Untouched
<1>11. QED
  BY <1>4, <1>5, <1>6, <1>7, <1>8, <1>9, <1>10, StepKinds
-----------------------------------------------------------------------------
\* The run of a key will still answer, unless a failure ends it.
Answering(key) ==
    \/ run[key].phase = "dispatch"
    \/ MayAnswer(run[key]) /\ ~MustStop(key)

\* The message is owed an answer: by the run at work on it, or else because its
\* row is not resolved and no rerun was asked for, which is counted by Reruns.
Owed(m) ==
    IF Working(m)
    THEN IF Answering(ChannelOf[m]) THEN 1 ELSE 0
    ELSE IF rowState[m] \notin Resolved /\ m \notin rerunRequested THEN 1 ELSE 0

\* The drains about to put the message back to pending_retry.
Postponing(m) ==
    {d \in Drains : runner[d].step = "notify" /\ runner[d].retryable /\ Job(d).message = m}

Causes == 1 + faults + switches + crashes

\* The answers given and those still to come.
Charge(m) == answers[m] + Owed(m) + Reruns(m) + Cardinality(Postponing(m))

\* Every answer, given or to come, has its own cause.
ChargesCovered == \A m \in Messages : Charge(m) <= Causes

\* The charges are sums of natural numbers.
LEMMA ChargeTypes ==
    ASSUME RuntimeInv, NEW m \in Messages
    PROVE  /\ answers[m] \in Nat /\ Owed(m) \in 0..1 /\ Reruns(m) \in Nat
           /\ IsFiniteSet(Postponing(m)) /\ Cardinality(Postponing(m)) \in Nat
           /\ faults \in Nat /\ switches \in Nat /\ crashes \in Nat
<1>1. faults \in Nat /\ switches \in Nat /\ crashes \in Nat
  BY RuntimeParts, BoundsAssumption DEF BoundsOK
<1>2. answers[m] \in Nat
  BY DEF RuntimeInv, TypeOK
<1>3. Owed(m) \in 0..1
  BY DEF Owed
<1>4. Postponing(m) \subseteq Drains
  BY DEF Postponing
<1>5. IsFiniteSet(Postponing(m)) /\ Cardinality(Postponing(m)) \in Nat
  BY <1>4, DrainsAssumption, FS_Subset, FS_CardinalityType
<1>6. QED
  BY <1>1, <1>2, <1>3, <1>5, RerunsType

\* What is left of a message's charge when its run does not change.
LEMMA OwedElsewhere ==
    ASSUME NEW m \in Messages, run'[ChannelOf[m]] = run[ChannelOf[m]],
           running'[ChannelOf[m]] = running[ChannelOf[m]],
           m \in rerunRequested' <=> m \in rerunRequested,
           rowState'[m] = rowState[m] \/ Working(m)
    PROVE  Owed(m)' = Owed(m)
<1>1. Working(m)' <=> Working(m)
  BY ChannelUntouched
<1>2. ASSUME Working(m)
      PROVE  Answering(ChannelOf[m])' <=> Answering(ChannelOf[m])
  BY <1>2 DEF Answering, MayAnswer, MustStop, Working, Current
<1>3. QED
  BY <1>1, <1>2 DEF Owed

\* A drain that is replaced postpones at most one message more, or one less.
LEMMA PostponingReplaced ==
    ASSUME RuntimeInv, NEW d \in Drains, NEW r \in Runners, runner' = [runner EXCEPT ![d] = r],
           NEW m \in Messages
    PROVE  /\ Cardinality(Postponing(m)') \in Nat
           /\ Cardinality(Postponing(m)') <= Cardinality(Postponing(m)) + 1
           /\ r.step # "notify" =>
                Cardinality(Postponing(m)')
                    = Cardinality(Postponing(m)) - (IF d \in Postponing(m) THEN 1 ELSE 0)
<1>1. runner'[d] = r /\ \A other \in Drains \ {d} : runner'[other] = runner[other]
  BY DEF RuntimeInv, TypeOK
<1>2. Postponing(m)' \ {d} = Postponing(m) \ {d}
  BY <1>1 DEF Postponing, Job
<1>3. IsFiniteSet(Postponing(m)) /\ Cardinality(Postponing(m)) \in Nat
  BY ChargeTypes
<1>4. Postponing(m)' \subseteq Postponing(m) \cup {d}
  BY <1>2
<1>5. /\ IsFiniteSet(Postponing(m) \cup {d})
      /\ Cardinality(Postponing(m) \cup {d}) <= Cardinality(Postponing(m)) + 1
  <2> DEFINE S == Postponing(m)
  <2> HIDE DEF S
  <2>1. IsFiniteSet(S) /\ Cardinality(S) \in Nat
    BY <1>3 DEF S
  <2>2. /\ IsFiniteSet(S \cup {d})
        /\ Cardinality(S \cup {d}) = IF d \in S THEN Cardinality(S) ELSE Cardinality(S) + 1
    BY <2>1, FS_AddElement
  <2>3. QED
    BY <2>1, <2>2 DEF S
<1>6. /\ IsFiniteSet(Postponing(m)')
      /\ Cardinality(Postponing(m)') <= Cardinality(Postponing(m) \cup {d})
  BY <1>4, <1>5, FS_Subset
<1>7. Cardinality(Postponing(m)') \in Nat /\ Cardinality(Postponing(m) \cup {d}) \in Nat
  BY <1>5, <1>6, FS_CardinalityType
<1>8. ASSUME r.step # "notify"
      PROVE  Cardinality(Postponing(m)')
                 = Cardinality(Postponing(m)) - (IF d \in Postponing(m) THEN 1 ELSE 0)
  <2>1. d \notin Postponing(m)'
    BY <1>1, <1>8 DEF Postponing
  <2>2. Postponing(m)' = Postponing(m) \ {d}
    BY <1>2, <2>1
  <2>3. Cardinality(Postponing(m)') = Cardinality(Postponing(m) \ {d})
    BY <2>2
  <2>4. Cardinality(Postponing(m) \ {d})
            = IF d \in Postponing(m) THEN Cardinality(Postponing(m)) - 1 ELSE Cardinality(Postponing(m))
    BY <1>3, FS_RemoveElement
  <2>5. QED
    BY <1>3, <2>3, <2>4
<1>9. QED
  BY <1>3, <1>5, <1>6, <1>7, <1>8

\* Drains that stay postpone what they postponed.
LEMMA PostponingKept ==
    ASSUME runner' = runner, NEW m
    PROVE  Cardinality(Postponing(m)') = Cardinality(Postponing(m))
<1>1. Postponing(m)' = Postponing(m)
  BY DEF Postponing, Job
<1>2. QED
  BY <1>1

\* A settled run leaves an unresolved message owed, unless a rerun was asked for.
LEMMA OwedSettled ==
    ASSUME RuntimeInv, NEW key \in Keys, Settle(key), NEW m \in Messages, ChannelOf[m] = key
    PROVE  /\ Owed(m)' = IF rowState'[m] \notin Resolved /\ m \notin rerunRequested' THEN 1 ELSE 0
           /\ Reruns(m)' = Count(lanes[key], {Rerun(m)})
           /\ Count(lanes[key], {Rerun(m)}) \in Nat
           /\ Count(lanes[key], {Rerun(m)}) <= Reruns(m)
<1>1. ~Working(m)' /\ Reruns(m)' = Count(lanes[key], {Rerun(m)})
  BY SettleOn
<1>2. Count(lanes[key], {Rerun(m)}) \in Nat /\ Count(lanes[key], {Rerun(m)}) <= Reruns(m)
  <2>1. Count(lanes[key], {Rerun(m)}) = Count(lanes[ChannelOf[m]], {Rerun(m)})
    OBVIOUS
  <2>2. Count(lanes[ChannelOf[m]], {Rerun(m)}) \in Nat
    BY RerunsType
  <2>3. Reruns(m) = Count(lanes[ChannelOf[m]], {Rerun(m)}) + (IF Starting(m) THEN 1 ELSE 0)
    BY DEF Reruns
  <2>4. QED
    BY <2>1, <2>2, <2>3
<1>3. Owed(m)' = IF rowState'[m] \notin Resolved /\ m \notin rerunRequested' THEN 1 ELSE 0
  BY <1>1 DEF Owed
<1>4. QED
  BY <1>1, <1>2, <1>3
\* The part of the charge that does not lie with the drains.
Spoken(m) == answers[m] + Owed(m) + Reruns(m)

\* A step of process() on another channel leaves the charge alone.
LEMMA ProcessChargesElsewhere ==
    ASSUME RuntimeInv, NEW key \in Keys, ProcessStep(key), NEW m \in Messages,
           ChannelOf[m] # key
    PROVE  Spoken(m)' = Spoken(m)
<1> DEFINE c == Current(key)
<1>1. run[key].phase = "start" \/ run[key].phase \in InHand
  BY DEF ProcessStep, Takes, Skips, Refuses, GoesOn, Concludes, GivesUp, Stops,
         Postpones, InHand, FailurePhases
<1>2. c \in Messages /\ c # m
  BY <1>1, RunOfKey, RunRecords
<1>3. StoreTypeOK /\ ChannelOf[m] \in Keys /\ answers \in [Messages -> Nat]
      /\ run \in [Keys -> Runs]
  BY MessageItems DEF RuntimeInv, TypeOK
<1>4. /\ run'[ChannelOf[m]] = run[ChannelOf[m]]
      /\ running'[ChannelOf[m]] = running[ChannelOf[m]]
      /\ lanes'[ChannelOf[m]] = lanes[ChannelOf[m]]
  <2>1. CASE Settle(key)
    BY <1>3, <2>1, SettleEffect
  <2>2. CASE Takes(key) \/ GoesOn(key)
    BY <1>3, <2>2 DEF Takes, GoesOn, queueVars
  <2>3. QED
    BY <2>1, <2>2 DEF ProcessStep, Skips, Refuses, Concludes, GivesUp, Stops, Postpones
<1>5. rowState'[m] = rowState[m]
  BY <1>2, <1>3, RowsAfter, OperationsAfter
     DEF ProcessStep, Takes, Skips, Refuses, GoesOn, Concludes, GivesUp, Stops, Postpones,
         storeVars
<1>6. m \in rerunRequested' <=> m \in rerunRequested
  BY <1>2 DEF ProcessStep, Takes, Skips, Refuses, GoesOn, Concludes, GivesUp, Stops, Postpones
<1>7. answers'[m] = answers[m]
  BY <1>2, <1>3 DEF ProcessStep, Takes, Skips, Refuses, GoesOn, Concludes, GivesUp, Stops,
                    Postpones, Silent, Speaks
<1>8. Owed(m)' = Owed(m)
  BY <1>4, <1>5, <1>6, OwedElsewhere
<1>9. Reruns(m)' = Reruns(m)
  BY <1>4, ChannelUntouched
<1>10. QED
  BY <1>7, <1>8, <1>9 DEF Spoken

\* A worker that settles without an answer: what was owed stays owed at most,
\* or a failure was counted.
LEMMA SettledCharges ==
    ASSUME RuntimeInv, NEW key \in Keys, Settle(key), NEW m \in Messages, ChannelOf[m] = key,
           answers'[m] = answers[m], faults' \in {faults, faults + 1},
           \/ faults' = faults + 1
           \/ m \in rerunRequested' \/ rowState'[m] \in Resolved
           \/ Owed(m) = 1
    PROVE  Spoken(m)' <= Spoken(m) + (faults' - faults)
<1>1. /\ answers[m] \in Nat /\ Owed(m) \in 0..1 /\ Reruns(m) \in Nat /\ faults \in Nat
  BY ChargeTypes
<1>2. /\ Owed(m)' = IF rowState'[m] \notin Resolved /\ m \notin rerunRequested' THEN 1 ELSE 0
      /\ Reruns(m)' \in Nat /\ Reruns(m)' <= Reruns(m)
  BY OwedSettled
<1>3. Owed(m)' <= Owed(m) + (faults' - faults)
  BY <1>1, <1>2
<1>4. Owed(m)' \in 0..1
  BY <1>2
<1>5. QED
  BY <1>1, <1>2, <1>3, <1>4 DEF Spoken

\* A message that its channel does not work on is owed what it was.
LEMMA OwedBystander ==
    ASSUME RuntimeInv, NEW m \in Messages, ~Working(m), ~Working(m)',
           rowState'[m] = rowState[m], m \in rerunRequested' <=> m \in rerunRequested
    PROVE  Owed(m)' = Owed(m)
BY DEF Owed

\* The acquisition of a message uses up the rerun or the row it was owed.
LEMMA TakesCharges ==
    ASSUME RuntimeInv, NEW key \in Keys, Takes(key), NEW m \in Messages, ChannelOf[m] = key
    PROVE  Spoken(m)' <= Spoken(m)
<1> DEFINE c == Current(key)
           waiting == Count(lanes[key], {Rerun(m)})
<1>1. /\ answers[m] \in Nat /\ Owed(m) \in 0..1 /\ Reruns(m) \in Nat /\ answers'[m] = answers[m]
  BY ChargeTypes DEF Takes, Silent
<1>2. /\ c \in Messages /\ run[key].phase = "start" /\ run[key] \in Runs
      /\ running[key] = QueueItem(c, running[key].source) /\ running[key].source \in Sources
  BY RunOfKey DEF Takes
<1>3. /\ Working(m)' <=> m = c
      /\ ~Working(m)
      /\ Reruns(m)' = waiting
  BY RunBegins
<1>4. /\ Reruns(m) = waiting + (IF Starting(m) THEN 1 ELSE 0) /\ waiting \in Nat
  <2>1. waiting = Count(lanes[ChannelOf[m]], {Rerun(m)})
    OBVIOUS
  <2>2. QED
    BY <2>1, RerunsType DEF Reruns
<1>5. StoreTypeOK /\ run \in [Keys -> Runs] /\ "admission" \in InHand
  BY DEF RuntimeInv, TypeOK, InHand, GatePhases
<1>6. CASE m # c
  <2>1. rowState'[m] = rowState[m]
    BY <1>2, <1>5, <1>6, RowsAfter DEF Takes
  <2>2. m \in rerunRequested' <=> m \in rerunRequested
    BY <1>6 DEF Takes
  <2>3. Owed(m)' = Owed(m)
    BY <1>3, <1>6, <2>1, <2>2, OwedBystander
  <2>4. QED
    BY <1>1, <1>3, <1>4, <2>3 DEF Spoken
<1>7. CASE m = c
  <2>1. Working(m)' /\ Owed(m)' \in 0..1
    BY <1>3, <1>7 DEF Owed
  <2>2. CASE running[key].source = "workflow_switch_rerun"
    <3>1. Starting(m)
      BY <1>2, <1>7, <2>2 DEF Starting, Rerun
    <3>2. QED
      BY <1>1, <1>3, <1>4, <2>1, <3>1 DEF Spoken
  <2>3. CASE running[key].source # "workflow_switch_rerun"
    <3>1. rerunRequested' = rerunRequested /\ running' = running
      BY <2>3 DEF Takes, queueVars
    <3>2. run'[key].phase = "admission"
      BY <1>2, <1>5, RunRecords DEF Takes
    <3>3. rowState[m] \notin Resolved
      BY <1>7 DEF Takes, AcquireStatus, Resolved
    <3>4. MustStop(key)' <=> m \in rerunRequested
      BY <1>7, <2>3, <3>1 DEF MustStop, Current
    <3>5. Answering(key)' <=> m \notin rerunRequested
      BY <3>2, <3>4 DEF Answering, MayAnswer
    <3>6. Owed(m)' = Owed(m)
      BY <1>3, <2>1, <3>3, <3>5 DEF Owed
    <3>7. QED
      BY <1>1, <1>3, <1>4, <3>6 DEF Spoken
  <2>4. QED
    BY <2>2, <2>3
<1>8. QED
  BY <1>6, <1>7

\* A run that goes on owes no more than before, unless a failure was counted.
LEMMA GoesOnCharges ==
    ASSUME RuntimeInv, NEW key \in Keys, GoesOn(key), NEW m \in Messages, ChannelOf[m] = key
    PROVE  Spoken(m)' <= Spoken(m) + (faults' - faults)
<1> DEFINE c == Current(key)
<1>1. /\ answers[m] \in Nat /\ Owed(m) \in 0..1 /\ Reruns(m) \in Nat /\ faults \in Nat
      /\ answers \in [Messages -> Nat] /\ run \in [Keys -> Runs]
  BY ChargeTypes DEF RuntimeInv, TypeOK
<1>2. PICK r \in Runs :
        /\ r.phase \in InHand
        /\ run' = [run EXCEPT ![key] = r]
        /\ \/ /\ Silent
              /\ MayAnswer(r) => MayAnswer(run[key])
              /\ r.phase = "dispatch" => ~MustStop(key)
           \/ /\ run[key].phase = "dispatch"
              /\ answers' = [answers EXCEPT ![c] = @ + 1]
              /\ r.phase = "moderation"
              /\ faults' = faults
           \/ /\ faults' = faults + 1
              /\ \/ answers' = answers
                 \/ /\ run[key].phase = "dispatch"
                    /\ answers' = [answers EXCEPT ![c] = @ + 1]
  BY DEF GoesOn
<1>3. UNCHANGED <<queueVars, storeVars, rerunRequested>> /\ run[key].phase \in InHand
  BY DEF GoesOn
<1>4. (Working(m)' <=> Working(m)) /\ Reruns(m)' = Reruns(m)
  BY <1>2, <1>3, RunGoesOn
<1>5. c \in Messages /\ (Working(m) <=> c = m)
  BY <1>3, RunOfKey, RunRecords DEF Working
<1>6. Owed(m)' \in 0..1
  BY DEF Owed
<1>7. CASE c # m
  <2>1. Owed(m)' = Owed(m)
    BY <1>3, <1>4, <1>5, <1>7, OwedBystander DEF storeVars
  <2>2. answers'[m] = answers[m] /\ faults' >= faults
    BY <1>1, <1>2, <1>5, <1>7 DEF Silent
  <2>3. faults' \in Nat
    BY <1>1, <1>2 DEF Silent
  <2>4. QED
    BY <1>1, <1>4, <2>1, <2>2, <2>3 DEF Spoken
<1>8. CASE c = m
  <2>1. run'[key] = r /\ (MustStop(key)' <=> MustStop(key))
    BY <1>1, <1>2, <1>3 DEF MustStop, Current, queueVars
  <2>2. Owed(m) = (IF Answering(key) THEN 1 ELSE 0) /\ Owed(m)' = (IF Answering(key)' THEN 1 ELSE 0)
    BY <1>4, <1>5, <1>8 DEF Owed
  <2>3. CASE Silent /\ (MayAnswer(r) => MayAnswer(run[key])) /\ (r.phase = "dispatch" => ~MustStop(key))
    <3>1. Answering(key)' => Answering(key)
      BY <2>1, <2>3 DEF Answering, MayAnswer
    <3>2. Owed(m)' <= Owed(m) /\ answers'[m] = answers[m] /\ faults' = faults
      BY <2>2, <2>3, <3>1 DEF Silent
    <3>3. QED
      BY <1>1, <1>4, <1>6, <3>2 DEF Spoken
  <2>4. CASE /\ run[key].phase = "dispatch"
             /\ answers' = [answers EXCEPT ![c] = @ + 1]
             /\ r.phase = "moderation"
             /\ faults' = faults
    <3>1. Answering(key) /\ ~Answering(key)'
      BY <2>1, <2>4 DEF Answering, MayAnswer
    <3>2. Owed(m) = 1 /\ Owed(m)' = 0 /\ answers'[m] = answers[m] + 1
      BY <1>1, <1>8, <2>2, <2>4, <3>1
    <3>3. QED
      BY <1>1, <1>4, <2>4, <3>2 DEF Spoken
  <2>5. CASE /\ faults' = faults + 1
             /\ \/ answers' = answers
                \/ /\ run[key].phase = "dispatch"
                   /\ answers' = [answers EXCEPT ![c] = @ + 1]
    <3>1. answers'[m] \in Nat /\ (answers'[m] = answers[m] \/ (answers'[m] = answers[m] + 1 /\ Owed(m) = 1))
      <4>1. run[key].phase = "dispatch" => Owed(m) = 1
        BY <2>2 DEF Answering
      <4>2. QED
        BY <1>1, <1>8, <2>5, <4>1
    <3>2. QED
      BY <1>1, <1>4, <1>6, <2>5, <3>1 DEF Spoken
  <2>6. QED
    BY <1>2, <2>3, <2>4, <2>5
<1>9. QED
  BY <1>7, <1>8
\* A worker that settles leaves what the other messages of its channel are owed.
LEMMA BystanderCharges ==
    ASSUME RuntimeInv, NEW key \in Keys, Settle(key), NEW m \in Messages, ChannelOf[m] = key,
           ~Working(m), rowState'[m] = rowState[m], answers'[m] = answers[m],
           m \in rerunRequested' <=> m \in rerunRequested, faults' \in {faults, faults + 1}
    PROVE  Spoken(m)' <= Spoken(m) + (faults' - faults)
<1>1. /\ answers[m] \in Nat /\ Owed(m) \in 0..1 /\ Reruns(m) \in Nat /\ faults \in Nat
  BY ChargeTypes
<1>2. ~Working(m)' /\ Reruns(m)' \in Nat /\ Reruns(m)' <= Reruns(m)
  BY SettleOn, OwedSettled
<1>3. Owed(m)' = Owed(m)
  BY <1>2, OwedBystander
<1>4. QED
  BY <1>1, <1>2, <1>3 DEF Spoken

\* A step of process() spends no more than it is owed and the failures it counts.
LEMMA ProcessCharges ==
    ASSUME RuntimeInv, RowsBegun, NEW key \in Keys, ProcessStep(key), NEW m \in Messages
    PROVE  /\ faults' \in {faults, faults + 1}
           /\ Spoken(m)' <= Spoken(m) + (faults' - faults)
<1> DEFINE c == Current(key)
<1>1. /\ answers[m] \in Nat /\ Owed(m) \in 0..1 /\ Reruns(m) \in Nat /\ faults \in Nat
      /\ answers \in [Messages -> Nat] /\ StoreTypeOK /\ Spoken(m) \in Nat
  BY ChargeTypes DEF RuntimeInv, TypeOK, Spoken
<1>2. faults' \in {faults, faults + 1}
  BY DEF ProcessStep, Takes, Skips, Refuses, GoesOn, Concludes, GivesUp, Stops,
         Postpones, Silent, Speaks
<1>3. run[key].phase = "start" \/ run[key].phase \in InHand
  BY DEF ProcessStep, Takes, Skips, Refuses, GoesOn, Concludes, GivesUp, Stops,
         Postpones, InHand, FailurePhases
<1>4. c \in Messages /\ ChannelOf[c] = key /\ (ChannelOf[m] = key =>
         (Working(m) <=> run[key].phase \in InHand /\ m = c))
  BY <1>3, RunOfKey, RunRecords DEF Working
<1> SUFFICES Spoken(m)' <= Spoken(m) + (faults' - faults)
  BY <1>2
<1>5. CASE ChannelOf[m] # key
  BY <1>1, <1>2, <1>5, ProcessChargesElsewhere
<1>6. CASE ChannelOf[m] = key /\ Takes(key)
  <2>1. Spoken(m)' <= Spoken(m)
    BY <1>6, TakesCharges
  <2>2. faults' = faults
    BY <1>6 DEF Takes, Silent
  <2>3. QED
    BY <1>1, <2>1, <2>2
<1>7. CASE ChannelOf[m] = key /\ GoesOn(key)
  BY <1>7, GoesOnCharges
<1>8. CASE ChannelOf[m] = key /\ (Skips(key) \/ Refuses(key))
  <2>1. ~Working(m)
    BY <1>4, <1>8, RunRecords DEF Skips, Refuses
  <2>2. QED
    BY <1>2, <1>8, <2>1, BystanderCharges DEF Skips, Refuses, storeVars, Silent
<1>9. CASE /\ ChannelOf[m] = key /\ m # c
           /\ Concludes(key) \/ GivesUp(key) \/ Stops(key) \/ Postpones(key)
  <2>1. ~Working(m) /\ Settle(key) /\ rerunRequested' = rerunRequested
    BY <1>4, <1>9 DEF Concludes, GivesUp, Stops, Postpones
  <2>2. rowState'[m] = rowState[m]
    BY <1>1, <1>4, <1>9, OperationsAfter DEF Concludes, GivesUp, Stops, Postpones, storeVars
  <2>3. answers'[m] = answers[m]
    BY <1>1, <1>4, <1>9 DEF Concludes, GivesUp, Stops, Postpones, Silent, Speaks
  <2>4. QED
    BY <1>2, <1>9, <2>1, <2>2, <2>3, BystanderCharges
<1>10. CASE ChannelOf[m] = key /\ m = c /\ Concludes(key)
  <2>1. Working(m)
    BY <1>4, <1>10 DEF Concludes
  <2>2. rowState[m] # "none"
    BY <2>1 DEF RowsBegun
  <2>3. rowState'[m] \in Resolved
    BY <1>1, <1>10, <2>2, OperationsAfter DEF Concludes
  <2>4. QED
    BY <1>2, <1>10, <2>3, SettledCharges DEF Concludes, Silent
<1>11. CASE ChannelOf[m] = key /\ m = c /\ GivesUp(key)
  BY <1>11, SettledCharges DEF GivesUp
<1>12. CASE ChannelOf[m] = key /\ m = c /\ Stops(key)
  <2>1. m \in rerunRequested' /\ Working(m) /\ Settle(key)
    BY <1>4, <1>12 DEF Stops, MustStop
  <2>2. CASE answers' = answers
    BY <1>2, <1>12, <2>1, <2>2, SettledCharges
  <2>3. CASE run[key].phase = "dispatch" /\ answers' = [answers EXCEPT ![c] = @ + 1]
    <3>1. Owed(m) = 1
      BY <1>12, <2>1, <2>3 DEF Owed, Answering
    <3>2. Owed(m)' = 0 /\ Reruns(m)' \in Nat /\ Reruns(m)' <= Reruns(m)
      BY <1>12, <2>1, OwedSettled
    <3>3. answers'[m] = answers[m] + 1
      BY <1>1, <1>12, <2>3
    <3>4. QED
      BY <1>1, <1>2, <3>1, <3>2, <3>3 DEF Spoken
  <2>4. QED
    BY <1>12, <2>2, <2>3 DEF Stops, Speaks
<1>13. CASE ChannelOf[m] = key /\ m = c /\ Postpones(key)
  <2>1. run[key].phase \in InHand /\ rerunRequested' = rerunRequested /\ Settle(key)
        /\ MayAnswer(run[key])
    BY <1>13 DEF Postpones, InHand, FailurePhases, MayAnswer
  <2>2. m \in rerunRequested' \/ Owed(m) = 1
    BY <1>4, <1>13, <2>1 DEF Owed, Answering, MustStop
  <2>3. QED
    BY <1>2, <1>13, <2>1, <2>2, SettledCharges DEF Postpones, Silent
<1>14. QED
  BY <1>5, <1>6, <1>7, <1>8, <1>9, <1>10, <1>11, <1>12, <1>13 DEF ProcessStep

\* An accepted switch pays for the rerun it submits.
LEMMA SwitchCharges ==
    ASSUME RuntimeInv, NEW key \in Keys, SwitchWorkflow(key), NEW m \in Messages
    PROVE  Spoken(m)' <= Spoken(m) + 1
<1> DEFINE c == Current(key)
<1>1. /\ answers[m] \in Nat /\ Owed(m) \in 0..1 /\ Reruns(m) \in Nat /\ answers' = answers
      /\ StoreTypeOK /\ run' = run
  BY ChargeTypes DEF SwitchWorkflow, historyVars, RuntimeInv, TypeOK
<1>2. c \in Messages /\ ChannelOf[c] = key /\ Working(c)
  BY RunOfKey, RunRecords DEF SwitchWorkflow, InHand, Working
<1>3. /\ Rerun(c) \in Items /\ Enqueue(Rerun(c)) /\ running' = running
  BY <1>2, RerunItem DEF SwitchWorkflow, SubmitRerun, Rerun, Enqueue
<1>4. /\ Working(m)' <=> Working(m)
      /\ Reruns(m)' = Reruns(m) + (IF Rerun(c) = Rerun(m) THEN 1 ELSE 0)
  BY <1>1, <1>3, EnqueueOn
<1>5. rerunRequested' = rerunRequested \cup {c}
  BY DEF SwitchWorkflow
<1>6. CASE m = c
  <2>1. Answering(key)' => Answering(key)
    BY <1>1, <1>3, <1>5 DEF Answering, MustStop, MayAnswer, Current
  <2>2. Owed(m)' <= Owed(m) /\ Owed(m)' \in 0..1
    BY <1>2, <1>4, <1>6, <2>1 DEF Owed
  <2>3. QED
    BY <1>1, <1>4, <2>2 DEF Spoken
<1>7. CASE m # c
  <2>1. rowState'[m] = rowState[m]
    BY <1>1, <1>2, <1>7, RowsAfter DEF SwitchWorkflow
  <2>2. Owed(m)' = Owed(m)
    BY <1>1, <1>3, <1>5, <1>7, <2>1, OwedElsewhere
  <2>3. Rerun(c) # Rerun(m)
    BY <1>2, <1>7, RerunItem
  <2>4. QED
    BY <1>1, <1>4, <2>2, <2>3 DEF Spoken
<1>8. QED
  BY <1>6, <1>7
\* ChargeTypes in the form that can be used of the next state.
ChargesTyped ==
    \A m \in Messages :
        /\ answers[m] \in Nat /\ Owed(m) \in 0..1 /\ Reruns(m) \in Nat
        /\ Cardinality(Postponing(m)) \in Nat /\ faults \in Nat

\* The counters the balance of answers is made of are numbers.
LEMMA ChargeTypesLater == RuntimeInv => ChargesTyped
BY ChargeTypes DEF ChargesTyped

\* What a step of a drain leaves alone.
LEMMA RunnerLeaves ==
    ASSUME RuntimeInv, NEW d \in Drains, RetryRunner(d), NEW m \in Messages
    PROVE  /\ run' = run /\ running' = running /\ rerunRequested' = rerunRequested
           /\ answers' = answers /\ faults' \in {faults, faults + 1}
           /\ (Working(m)' <=> Working(m)) /\ Reruns(m)' = Reruns(m)
<1>1. /\ run' = run /\ running' = running /\ rerunRequested' = rerunRequested
      /\ answers' = answers /\ faults' \in {faults, faults + 1}
  BY DEF RetryRunner, FetchSucceeds, FetchFails, RunnerNoticeSettles, Enqueue, Fault,
         RunnerTerminalNoticeSettles, RunnerPermanentNoticeThrows, queueVars, boundVars,
         historyVars
<1>2. CASE UNCHANGED queueVars
  <2>1. lanes' = lanes
    BY <1>2 DEF queueVars
  <2>2. QED
    BY <1>1, <2>1, ChannelUntouched
<1>3. ASSUME Enqueue(QueueItem(Job(d).message, "retry")), runner[d].step # "idle"
      PROVE  (Working(m)' <=> Working(m)) /\ Reruns(m)' = Reruns(m)
  <2> DEFINE item == QueueItem(Job(d).message, "retry")
  <2>1. Job(d).message \in Messages
    BY <1>3, JobOfRunner
  <2>2. item \in Items /\ item.source = "retry"
    BY <2>1, MessageItems DEF Sources
  <2>3. item # Rerun(m)
    BY <2>2, RerunItem
  <2> HIDE DEF item
  <2>4. Enqueue(item)
    BY <1>3 DEF item
  <2>5. Reruns(m)' = Reruns(m) + 0
    BY <1>1, <2>2, <2>3, <2>4, EnqueueOn
  <2>6. Reruns(m) \in Nat
    BY RerunsType
  <2>7. QED
    BY <1>1, <2>2, <2>4, <2>5, <2>6, EnqueueOn
<1>4. UNCHANGED queueVars \/ (runner[d].step # "idle" /\ Enqueue(QueueItem(Job(d).message, "retry")))
  BY DEF RetryRunner, FetchSucceeds, FetchFails, RunnerNoticeSettles, RunnerAt,
         RunnerTerminalNoticeSettles, RunnerPermanentNoticeThrows
<1>5. QED
  BY <1>1, <1>2, <1>3, <1>4

\* A drain that puts a message back spends its own postponement, and takes on
\* a new one only with a failure.
LEMMA RunnerCharges ==
    ASSUME RuntimeInv, NEW d \in Drains, RetryRunner(d), NEW m \in Messages
    PROVE  /\ faults' \in {faults, faults + 1}
           /\ Spoken(m)' + Cardinality(Postponing(m)')
                 <= Spoken(m) + Cardinality(Postponing(m)) + (faults' - faults)
<1> DEFINE j == Job(d).message
           old == Cardinality(Postponing(m))
           new == Cardinality(Postponing(m)')
<1>1. /\ answers[m] \in Nat /\ Owed(m) \in 0..1 /\ Reruns(m) \in Nat /\ faults \in Nat
      /\ old \in Nat /\ StoreTypeOK
  BY ChargeTypes DEF RuntimeInv, TypeOK
<1>2. /\ run' = run /\ running' = running /\ rerunRequested' = rerunRequested
      /\ answers' = answers /\ faults' \in {faults, faults + 1}
      /\ (Working(m)' <=> Working(m)) /\ Reruns(m)' = Reruns(m)
  BY RunnerLeaves
<1>3. j \in Messages /\ runner[d].step # "idle"
  BY RunnerCases, JobOfRunner
<1>4. PICK r \in Runners :
         /\ runner' = [runner EXCEPT ![d] = r]
         /\ \/ /\ r.step \in {"idle", "fetch"}
               /\ FetchSucceeds(d) \/ RunnerTerminalNoticeSettles(d)
                  \/ (runner[d].step = "notify" /\ runner[d].retryable
                        /\ RunnerNoticeSettles(d) /\ ScheduleRetry(j))
            \/ FetchFails(d)
            \/ r.step = "permanent" /\ RunnerNoticeSettles(d) /\ UNCHANGED storeVars
            \/ /\ r.jobs = <<>> /\ (r.step = "idle" <=> r.jobs = <<>>)
               /\ RunnerPermanentNoticeThrows(d)
  BY RunnerCases
<1>5. /\ new \in Nat /\ new <= old + 1
      /\ r.step # "notify" => new = old - (IF d \in Postponing(m) THEN 1 ELSE 0)
  BY <1>4, PostponingReplaced
<1>6. Owed(m)' \in 0..1 /\ (Owed(m)' <= Owed(m) => Spoken(m)' <= Spoken(m))
      /\ Spoken(m) \in Nat /\ Spoken(m)' \in Nat
      /\ (Owed(m)' <= Owed(m) + 1 => Spoken(m)' <= Spoken(m) + 1)
  <2>1. Owed(m)' \in 0..1
    BY DEF Owed
  <2>2. QED
    BY <1>1, <1>2, <2>1 DEF Spoken
<1>7. rowState'[m] = rowState[m] \/ Working(m) => Owed(m)' = Owed(m)
  BY <1>2, OwedElsewhere
<1> HIDE DEF old, new, j
<1>8. CASE FetchSucceeds(d) /\ r.step \in {"idle", "fetch"}
  <2>1. rowState' = rowState
    BY <1>8 DEF FetchSucceeds, storeVars
  <2>2. Spoken(m)' <= Spoken(m)
    BY <1>1, <1>6, <1>7, <2>1
  <2>3. QED
    BY <1>1, <1>2, <1>5, <1>6, <1>8, <2>2 DEF old, new
<1>9. CASE RunnerTerminalNoticeSettles(d) /\ r.step \in {"idle", "fetch"}
  <2>1. ResolveAs(j, "terminal_failure_notified") /\ "terminal_failure_notified" \in Resolved
    BY <1>9 DEF RunnerTerminalNoticeSettles, Resolved, j
  <2>2. rowState'[m] = rowState[m] \/ rowState'[m] \in Resolved
    BY <1>1, <1>3, <2>1, OperationsAfter
  <2>3. Owed(m)' <= Owed(m)
    <3>1. CASE rowState'[m] = rowState[m] \/ Working(m)
      BY <1>1, <1>7, <3>1
    <3>2. CASE rowState'[m] \in Resolved /\ ~Working(m)
      <4>1. Owed(m)' = 0
        BY <1>2, <3>2 DEF Owed
      <4>2. QED
        BY <1>1, <4>1
    <3>3. QED
      BY <2>2, <3>1, <3>2
  <2>4. QED
    BY <1>1, <1>2, <1>5, <1>6, <1>9, <2>3 DEF old, new
<1>10. CASE /\ runner[d].step = "notify" /\ runner[d].retryable
            /\ ScheduleRetry(j) /\ r.step \in {"idle", "fetch"}
  <2>1. CASE m = j
    <3>1. d \in Postponing(m)
      BY <1>10, <2>1 DEF Postponing, j
    <3>2. new = old - 1
      BY <1>5, <1>10, <3>1
    <3>3. Spoken(m)' <= Spoken(m) + 1
      BY <1>1, <1>6
    <3>4. QED
      BY <1>1, <1>2, <1>5, <1>6, <3>2, <3>3 DEF old, new
  <2>2. CASE m # j
    <3>1. rowState'[m] = rowState[m]
      BY <1>1, <1>3, <1>10, <2>2, OperationsAfter
    <3>2. Owed(m)' <= Owed(m)
      BY <1>1, <1>7, <3>1
    <3>3. QED
      BY <1>1, <1>2, <1>5, <1>6, <1>10, <3>2 DEF old, new
  <2>3. QED
    BY <2>1, <2>2
<1>11. CASE FetchFails(d)
  <2>1. rowState' = rowState /\ faults' = faults + 1
    BY <1>11 DEF FetchFails, Fault, storeVars
  <2>2. Spoken(m)' <= Spoken(m)
    BY <1>1, <1>6, <1>7, <2>1
  <2>3. QED
    BY <1>1, <1>5, <1>6, <2>1, <2>2 DEF old, new
<1>12. CASE UNCHANGED storeVars /\ r.step # "notify"
  <2>1. rowState' = rowState
    BY <1>12 DEF storeVars
  <2>2. Spoken(m)' <= Spoken(m)
    BY <1>1, <1>6, <1>7, <2>1
  <2>3. QED
    BY <1>1, <1>2, <1>5, <1>6, <1>12, <2>2 DEF old, new
<1>13. CASE RunnerPermanentNoticeThrows(d) /\ r.step = "idle"
  BY <1>12, <1>13 DEF RunnerPermanentNoticeThrows
<1>14. QED
  BY <1>2, <1>4, <1>8, <1>9, <1>10, <1>11, <1>12, <1>13 DEF old, new

\* Every step keeps the charges covered.
LEMMA ChargesStep ==
    RuntimeInv /\ RowsBegun /\ ChargesCovered /\ [Next]_vars => ChargesCovered'
<1> SUFFICES ASSUME RuntimeInv, RowsBegun, ChargesCovered, [Next]_vars, NEW m \in Messages
             PROVE  Charge(m)' <= Causes'
  BY DEF ChargesCovered
<1> DEFINE old == Cardinality(Postponing(m))
           new == Cardinality(Postponing(m)')
<1>1. /\ answers[m] \in Nat /\ Owed(m) \in 0..1 /\ Reruns(m) \in Nat /\ old \in Nat
      /\ faults \in Nat /\ switches \in Nat /\ crashes \in Nat /\ Spoken(m) \in Nat
  BY ChargeTypes DEF Spoken
<1>2. RuntimeInv'
  BY RuntimeStep
<1>3. Spoken(m)' \in Nat /\ new \in Nat /\ faults' \in Nat
  <2>1. /\ answers'[m] \in Nat /\ Owed(m)' \in 0..1 /\ Reruns(m)' \in Nat /\ new \in Nat
        /\ faults' \in Nat
    <3>1. ChargesTyped'
      BY <1>2, ChargeTypesLater, PTL
    <3>2. QED
      BY <3>1 DEF ChargesTyped
  <2>2. QED
    BY <2>1 DEF Spoken
<1>4. Spoken(m) + old <= Causes
  BY <1>1 DEF ChargesCovered, Charge, Spoken
<1> SUFFICES Spoken(m)' + new <= Causes'
  BY DEF Charge, Spoken
<1>5. CASE DrainQueue
  <2>1. /\ (Working(m)' <=> Working(m)) /\ Reruns(m)' = Reruns(m)
        /\ Working(m) => run'[ChannelOf[m]] = run[ChannelOf[m]]
                         /\ running'[ChannelOf[m]] = running[ChannelOf[m]]
    BY <1>5, DrainOn
  <2>2. UNCHANGED <<rowState, rerunRequested, runner, answers, boundVars>>
    BY <1>5 DEF DrainQueue, storeVars, historyVars
  <2>3. Owed(m)' = Owed(m)
    <3>1. CASE Working(m)
      BY <2>1, <2>2, <3>1, OwedElsewhere
    <3>2. CASE ~Working(m)
      BY <2>1, <2>2, <3>2, OwedBystander
    <3>3. QED
      BY <3>1, <3>2
  <2>4. new = old
    BY <2>2, PostponingKept
  <2>5. QED
    BY <1>1, <1>4, <2>1, <2>2, <2>3, <2>4 DEF Spoken, Causes, boundVars
<1>6. ASSUME NEW key \in Keys, ProcessStep(key), ElsewhereUnchanged
      PROVE  Spoken(m)' + new <= Causes'
  <2>1. Spoken(m)' <= Spoken(m) + (faults' - faults) /\ faults' \in {faults, faults + 1}
    BY <1>6, ProcessCharges
  <2>2. new = old
    BY <1>6, PostponingKept DEF ElsewhereUnchanged
  <2>3. switches' = switches /\ crashes' = crashes
    BY <1>6 DEF ElsewhereUnchanged
  <2> HIDE DEF new, old
  <2>4. QED
    BY <1>1, <1>3, <1>4, <2>1, <2>2, <2>3 DEF Causes
<1>7. ASSUME NEW key \in Keys, SwitchWorkflow(key)
      PROVE  Spoken(m)' + new <= Causes'
  <2>1. Spoken(m)' <= Spoken(m) + 1
    BY <1>7, SwitchCharges
  <2>2. new = old
    BY <1>7, PostponingKept DEF SwitchWorkflow
  <2>3. switches' = switches + 1 /\ crashes' = crashes /\ faults' = faults
    BY <1>7 DEF SwitchWorkflow
  <2> HIDE DEF new, old
  <2>4. QED
    BY <1>1, <1>3, <1>4, <2>1, <2>2, <2>3 DEF Causes
<1>8. ASSUME NEW d \in Drains, RetryRunner(d)
      PROVE  Spoken(m)' + new <= Causes'
  <2>1. /\ faults' \in {faults, faults + 1}
        /\ Spoken(m)' + new <= Spoken(m) + old + (faults' - faults)
    BY <1>8, RunnerCharges
  <2>2. switches' = switches /\ crashes' = crashes
    BY <1>8 DEF RetryRunner, FetchSucceeds, FetchFails, RunnerNoticeSettles, Fault,
                RunnerTerminalNoticeSettles, RunnerPermanentNoticeThrows, boundVars
  <2> HIDE DEF new, old
  <2>3. QED
    BY <1>1, <1>3, <1>4, <2>1, <2>2 DEF Causes
<1>9. ASSUME NEW d \in Drains, Poll(d) \/ StartupDrain(d)
      PROVE  Spoken(m)' + new <= Causes'
  <2>1. Snapshot(d) /\ UNCHANGED <<run, rerunRequested, queueVars, rowState, answers, boundVars>>
    BY <1>9 DEF Poll, StartupDrain, storeVars, historyVars
  <2>2. PICK r \in Runners : runner' = [runner EXCEPT ![d] = r] /\ r.step \in {"idle", "fetch"}
    BY <2>1, SnapshotRunner
  <2>3. new = old - (IF d \in Postponing(m) THEN 1 ELSE 0)
    BY <2>2, PostponingReplaced
  <2>4. Owed(m)' = Owed(m) /\ Reruns(m)' = Reruns(m)
    BY <2>1, OwedElsewhere, ChannelUntouched DEF queueVars
  <2>5. Spoken(m)' = Spoken(m) /\ Causes' = Causes
    BY <2>1, <2>4 DEF Spoken, Causes, boundVars
  <2> HIDE DEF new, old
  <2>6. QED
    BY <1>1, <1>3, <1>4, <2>3, <2>5 DEF Causes
<1>10. CASE Quiet
  <2>1. Reruns(m)' = Reruns(m) /\ running' = running
    <3>1. CASE UNCHANGED queueVars
      BY <1>10, <3>1, ChannelUntouched DEF Quiet, queueVars
    <3>2. ASSUME NEW n \in Messages, Enqueue(QueueItem(n, "live"))
          PROVE  Reruns(m)' = Reruns(m) /\ running' = running
      <4> DEFINE item == QueueItem(n, "live")
      <4>1. item \in Items /\ item.source = "live"
        BY MessageItems DEF Sources
      <4>2. item # Rerun(m)
        BY <4>1, RerunItem
      <4> HIDE DEF item
      <4>3. Enqueue(item) /\ run' = run
        BY <1>10, <3>2 DEF item, Quiet
      <4>4. Reruns(m)' = Reruns(m) + 0
        BY <4>1, <4>2, <4>3, EnqueueOn
      <4>5. QED
        BY <1>1, <4>3, <4>4 DEF Enqueue
    <3>3. QED
      BY <1>10, <3>1, <3>2 DEF Quiet
  <2>2. Owed(m)' = Owed(m)
    BY <1>10, <2>1, OwedElsewhere DEF Quiet
  <2>3. new = old
    BY <1>10, PostponingKept DEF Quiet
  <2>4. Spoken(m)' = Spoken(m)
    BY <1>10, <2>1, <2>2 DEF Quiet, Spoken
  <2> HIDE DEF new, old
  <2>5. QED
    BY <1>1, <1>4, <1>10, <2>3, <2>4 DEF Quiet, Causes
<1>11. CASE Dies
  <2>1. ~Working(m)' /\ ~Starting(m)' /\ lanes'[ChannelOf[m]] = <<>>
    BY <1>11, MessageItems, RunRecords DEF Dies, LoseMemory, Working, Starting
  <2>2. Reruns(m)' = 0
    <3>1. Positions(lanes'[ChannelOf[m]], {Rerun(m)}) = {}
      BY <2>1 DEF Positions
    <3>2. Count(lanes'[ChannelOf[m]], {Rerun(m)}) = 0
      BY <3>1, FS_EmptySet DEF Count
    <3>3. Reruns(m)' = Count(lanes'[ChannelOf[m]], {Rerun(m)}) + 0
      BY <2>1 DEF Reruns, Count, Positions
    <3>4. QED
      BY <3>2, <3>3
  <2>3. new = 0
    <3>1. Postponing(m)' = {}
      BY <1>11 DEF Dies, LoseMemory, Postponing, IdleRunner
    <3>2. QED
      BY <3>1, FS_EmptySet
  <2>4. Owed(m)' \in 0..1 /\ answers' = answers
    BY <1>11 DEF Dies, LoseMemory, historyVars, Owed
  <2>5. Causes' = Causes + 1
    BY <1>1, <1>11 DEF Dies, Causes
  <2>6. answers[m] <= Causes
    BY <1>1, <1>4 DEF Spoken, Causes
  <2>7. QED
    BY <1>1, <2>2, <2>3, <2>4, <2>5, <2>6 DEF Spoken, Causes
<1>12. QED
  BY <1>5, <1>6, <1>7, <1>8, <1>9, <1>10, <1>11, StepKinds

\* At first every message is owed one answer.
LEMMA InitCharges == Init => RowsBegun /\ ChargesCovered
<1> SUFFICES ASSUME Init, NEW m \in Messages
             PROVE  /\ retryJob[m] = 0 /\ m \notin rerunRequested /\ ~Working(m)
                    /\ \A d \in Drains : \A i \in 1..Len(runner[d].jobs) :
                          runner[d].jobs[i].message # m
                    /\ Charge(m) <= Causes
  BY DEF RowsBegun, ChargesCovered
<1>1. ChannelOf[m] \in Keys
  BY MessageItems
<1>2. ~Working(m) /\ ~Starting(m) /\ lanes[ChannelOf[m]] = <<>>
  BY <1>1, RunRecords DEF Init, QueueInit, Working, Starting
<1>3. Positions(lanes[ChannelOf[m]], {Rerun(m)}) = {}
  BY <1>2 DEF Positions
<1>4. Reruns(m) = 0
  <2>1. Count(lanes[ChannelOf[m]], {Rerun(m)}) = 0
    BY <1>3, FS_EmptySet DEF Count
  <2>2. QED
    BY <1>2, <2>1 DEF Reruns
<1>5. Postponing(m) = {}
  BY DEF Init, Postponing, IdleRunner
<1>6. Cardinality(Postponing(m)) = 0
  BY <1>5, FS_EmptySet
<1>7. Owed(m) <= 1 /\ Owed(m) \in Nat
  BY DEF Owed
<1>8. answers[m] = 0 /\ Causes = 1
  BY DEF Init, Causes
<1>9. Charge(m) <= Causes
  BY <1>4, <1>6, <1>7, <1>8 DEF Charge
<1>10. retryJob[m] = 0 /\ m \notin rerunRequested
  BY DEF Init, StoreInit
<1>11. \A d \in Drains : runner[d].jobs = <<>>
  BY DEF Init, IdleRunner
<1>12. QED
  BY <1>2, <1>9, <1>10, <1>11

\* Public answers have causes, whatever queue, drains, reruns, crashes and
\* recovery do: one for the message, and one for each failed call, accepted
\* switch and process death.
THEOREM EveryAnswerHasACause == Spec => []AnswersHaveCauses
<1>1. RuntimeInv /\ ChargesCovered => AnswersHaveCauses
  <2> SUFFICES ASSUME RuntimeInv, ChargesCovered, NEW m \in Messages
               PROVE  answers[m] <= 1 + faults + switches + crashes
    BY DEF AnswersHaveCauses
  <2>1. answers[m] \in Nat /\ Owed(m) \in 0..1 /\ Reruns(m) \in Nat
        /\ Cardinality(Postponing(m)) \in Nat
        /\ faults \in Nat /\ switches \in Nat /\ crashes \in Nat
    BY ChargeTypes
  <2>2. QED
    BY <2>1 DEF ChargesCovered, Charge, Causes
<1>2. QED
  BY <1>1, InitRuntime, InitCharges, RuntimeStep, RowsBegunStep, ChargesStep, PTL DEF Spec
-----------------------------------------------------------------------------
(***************************************************************************)
(* While the process lives: who takes care of a message.                   *)
(***************************************************************************)

\* The started bot, which has not died.
Up == phase = "up" /\ replay = <<>> /\ unrecovered = {} /\ crashes = 0

\* A lane holds an item, if it counts it.
LEMMA CountPositive ==
    ASSUME NEW lane \in Seq(Items), NEW item
    PROVE  Count(lane, {item}) > 0 <=> \E i \in 1..Len(lane) : lane[i] = item
<1>1. IsFiniteSet(Positions(lane, {item})) /\ Count(lane, {item}) \in Nat
  BY CountType
<1>2. Positions(lane, {item}) = {} <=> Cardinality(Positions(lane, {item})) = 0
  BY <1>1, FS_EmptySet
<1>3. Count(lane, {item}) > 0 <=> Positions(lane, {item}) # {}
  <2> DEFINE P == Positions(lane, {item})
  <2>1. Count(lane, {item}) = Cardinality(P)
    BY DEF Count
  <2> HIDE DEF P
  <2>2. Cardinality(P) > 0 <=> P # {}
    <3>1. Cardinality(P) \in Nat /\ (P = {} <=> Cardinality(P) = 0)
      BY <1>1, <1>2, <2>1 DEF P
    <3>2. QED
      BY <3>1
  <2>3. QED
    BY <2>1, <2>2 DEF P
<1>4. Positions(lane, {item}) # {} <=> \E i \in 1..Len(lane) : lane[i] = item
  BY DEF Positions
<1>5. QED
  BY <1>3, <1>4

\* What is pending was submitted and has not been acquired.
LEMMA PendingIsSubmitted ==
    ASSUME RuntimeInv, NEW m \in Messages, NEW source \in Sources
    PROVE  Pending(m, source) > 0 <=> Submitted(m, source)
<1> DEFINE item == QueueItem(m, source)
           n == Count(lanes[ChannelOf[m]], {item})
<1>1. lanes[ChannelOf[m]] \in Seq(Items) /\ n \in Nat
  BY PendingType
<1>2. n > 0 <=> Queued(item)
  <2>1. n > 0 <=> \E i \in 1..Len(lanes[ChannelOf[m]]) : lanes[ChannelOf[m]][i] = item
    BY <1>1, CountPositive
  <2>2. item.orderingKey = ChannelOf[m]
    BY ItemOf
  <2>3. QED
    BY <2>1, <2>2 DEF Queued
<1>3. Pending(m, source) = n + (IF Begins(m, source) THEN 1 ELSE 0)
  BY DEF Pending
<1> HIDE DEF n
<1>4. Pending(m, source) > 0 <=> n > 0 \/ Begins(m, source)
  BY <1>1, <1>3
<1>5. QED
  BY <1>2, <1>4 DEF Submitted, Begins

\* An id in flight is that of a run at work or of something pending.
LEMMA InFlightIsHeld ==
    ASSUME RuntimeInv, NEW m \in Messages, seen[m] > 0
    PROVE  Working(m) \/ \E source \in Sources : Pending(m, source) > 0
<1>1. /\ m \in MessageIds /\ QueueTypeOK /\ LanesOwnTheirItems
      /\ seen[m] = Cardinality(QueuedWith(m)) + Cardinality(RunningWith(m))
  BY IdsAreMessages DEF RuntimeInv, SeenCountsInFlight, TypeOK
<1>2. QueuedWith(m) # {} \/ RunningWith(m) # {}
  <2>1. CASE QueuedWith(m) = {} /\ RunningWith(m) = {}
    <3>1. Cardinality(QueuedWith(m)) = 0 /\ Cardinality(RunningWith(m)) = 0
      BY <2>1, FS_EmptySet
    <3>2. QED
      BY <1>1, <3>1
  <2>2. QED
    BY <2>1
<1>3. ASSUME NEW p \in QueuedWith(m)
      PROVE  \E source \in Sources : Pending(m, source) > 0
  <2>1. PICK key \in Keys : \E i \in 1..Len(lanes[key]) :
           p = <<key, i>> /\ lanes[key][i].messageId = m
    BY QueuedPairs
  <2>2. PICK i \in 1..Len(lanes[key]) : lanes[key][i].messageId = m
    BY <2>1
  <2>3. lanes[key] \in Seq(Items) /\ lanes[key][i] \in Items /\ lanes[key][i].orderingKey = key
    BY <1>1 DEF QueueTypeOK, LanesOwnTheirItems
  <2>4. /\ lanes[key][i] = QueueItem(m, lanes[key][i].source)
        /\ lanes[key][i].source \in Sources /\ ChannelOf[m] = key
    BY <2>2, <2>3, ItemsOfMessages
  <2>5. Queued(QueueItem(m, lanes[key][i].source))
    BY <2>3, <2>4 DEF Queued
  <2>6. QED
    BY <2>4, <2>5, PendingIsSubmitted DEF Submitted
<1>4. ASSUME NEW key \in RunningWith(m)
      PROVE  Working(m) \/ \E source \in Sources : Pending(m, source) > 0
  <2>1. key \in Keys /\ running[key] # None /\ Current(key) = m
    BY DEF RunningWith, Current
  <2>2. run[key].phase # "idle"
    BY <2>1 DEF RuntimeInv, RunShape
  <2>3. /\ ChannelOf[m] = key /\ running[key] = QueueItem(m, running[key].source)
        /\ running[key].source \in Sources /\ run[key] \in Runs
    BY <2>1, <2>2, RunOfKey
  <2>4. CASE run[key].phase \in InHand
    BY <2>1, <2>3, <2>4 DEF Working
  <2>5. CASE run[key].phase = "start"
    BY <2>3, <2>5, PendingIsSubmitted DEF Submitted
  <2>6. QED
    BY <2>2, <2>3, <2>4, <2>5 DEF Runs
<1>5. QED
  BY <1>2, <1>3, <1>4

\* A message that is running and queued besides is in flight twice.
LEMMA InFlightTwice ==
    ASSUME RuntimeInv, NEW m \in Messages, NEW source \in Sources,
           running[ChannelOf[m]] # None, Current(ChannelOf[m]) = m,
           Count(lanes[ChannelOf[m]], {QueueItem(m, source)}) > 0
    PROVE  seen[m] > 1
<1> DEFINE key == ChannelOf[m]
           q == QueuedWith(m)
           r == RunningWith(m)
<1>1. /\ m \in MessageIds /\ QueueTypeOK /\ key \in Keys
      /\ seen[m] = Cardinality(q) + Cardinality(r)
  BY IdsAreMessages, MessageItems DEF RuntimeInv, SeenCountsInFlight, TypeOK
<1>2. /\ IsFiniteSet(q) /\ IsFiniteSet(r) /\ Cardinality(q) \in Nat /\ Cardinality(r) \in Nat
  BY <1>1, QueuedIsFinite, FS_CardinalityType DEF QueuedSetsAreFinite
<1>3. key \in r
  BY <1>1 DEF RunningWith, Current
<1>4. PICK i \in 1..Len(lanes[key]) : lanes[key][i] = QueueItem(m, source)
  BY PendingType, CountPositive
<1>5. <<key, i>> \in q
  BY <1>1, <1>4, ItemOf, QueuedPairs
<1> HIDE DEF q, r
<1>6. Cardinality(q) # 0 /\ Cardinality(r) # 0
  BY <1>2, <1>3, <1>5, FS_EmptySet
<1>7. QED
  BY <1>1, <1>2, <1>6

-----------------------------------------------------------------------------
\* Somebody takes care of the message, now or later, or has.
Held(m) ==
    \/ rowState[m] \in Resolved \/ retryJob[m] > 0
    \/ m \in intake \/ m \in lost
    \/ Working(m) \/ \E source \in Sources : Pending(m, source) > 0

\* Rows in hand and waiting rows, each with what will take them on.
RowHeld(m) ==
    /\ rowState[m] = "processing" =>
          /\ Working(m) \/ m \in lost \/ m \in rerunRequested
          /\ Working(m) \/ m \in lost \/ retryJob[m] > 0
    /\ rowState[m] = "rerun_requested" => Reruns(m) > 0
    /\ rowState[m] = "pending_retry" => retryJob[m] > 0

\* A run that will stop for a rerun has handed its row on.
RunHeld(m) ==
    Working(m) /\ MustStop(ChannelOf[m]) /\ rowState[m] = "processing"
        => m \in lost \/ retryJob[m] > 0

\* An unacquired live or retry item is the only one of its message in flight.
OneInFlight(m) ==
    \A source \in {"live", "retry"} : Pending(m, source) > 0 => seen[m] = 1

Sound(m) ==
    /\ RowHeld(m)
    /\ RunHeld(m)
    /\ OneInFlight(m)
    /\ m \in intake => m \in posted
    /\ m \in posted => Held(m)

LiveInv == RuntimeInv /\ RowsBegun /\ Up /\ \A m \in Messages : Sound(m)

\* A message that a step does not concern stays as sound as it was.
LEMMA SoundKept ==
    ASSUME NEW m \in Messages, Sound(m),
           rowState'[m] = rowState[m], retryJob'[m] = retryJob[m],
           Working(m)' <=> Working(m),
           Working(m) => running'[ChannelOf[m]] = running[ChannelOf[m]],
           \A source \in Sources : Pending(m, source)' = Pending(m, source),
           seen'[m] = seen[m], m \in rerunRequested' <=> m \in rerunRequested,
           m \in lost => m \in lost', m \in intake' <=> m \in intake,
           m \in posted' <=> m \in posted
    PROVE  Sound(m)'
<1>1. Reruns(m)' = Reruns(m)
  BY RerunsArePending
<1>2. RowHeld(m)'
  BY <1>1 DEF Sound, RowHeld
<1>3. Working(m) => (MustStop(ChannelOf[m])' <=> MustStop(ChannelOf[m]))
  BY DEF MustStop, Current, Working
<1>4. RunHeld(m)'
  BY <1>3 DEF Sound, RunHeld
<1>5. OneInFlight(m)'
  BY DEF Sound, OneInFlight, Sources
<1>6. Held(m) => Held(m)'
  BY DEF Held
<1>7. QED
  BY <1>2, <1>4, <1>5, <1>6 DEF Sound

\* A settled worker leaves the other messages as sound as they were.
LEMMA SoundAfterSettle ==
    ASSUME RuntimeInv, NEW key \in Keys, run[key].phase # "idle", Settle(key),
           NEW m \in Messages, m # Current(key), Sound(m),
           rowState'[m] = rowState[m], retryJob'[m] = retryJob[m],
           m \in rerunRequested' <=> m \in rerunRequested,
           m \in lost => m \in lost', intake' = intake, posted' = posted
    PROVE  Sound(m)'
<1>1. /\ Current(key) \in Messages /\ running[key] \in Items /\ running[key] # None
      /\ running[key] = QueueItem(Current(key), running[key].source)
      /\ running[key].source \in Sources
  BY RunOfKey
<1>2. seen'[m] = seen[m]
  <2>1. ReleaseSeen(Current(key))
    BY SettleEffect DEF WorkerSettles, SettleAndContinue, SettleAndExit, Current
  <2>2. seen \in [MessageIds -> Nat] /\ m \in MessageIds /\ Current(key) \in MessageIds
    BY <1>1, IdsAreMessages DEF RuntimeInv, TypeOK, QueueTypeOK
  <2>3. QED
    BY <2>1, <2>2 DEF ReleaseSeen
<1>3. /\ Working(m)' <=> Working(m)
      /\ \A source \in Sources : Pending(m, source)' = Pending(m, source)
      /\ Working(m) => running'[ChannelOf[m]] = running[ChannelOf[m]]
  <2>1. CASE ChannelOf[m] = key
    <3>1. ~Working(m) /\ ~Working(m)'
      BY <2>1, SettleOn DEF Working
    <3>2. ASSUME NEW source \in Sources
          PROVE  Pending(m, source)' = Pending(m, source)
      <4>1. ~Begins(m, source)
        BY <1>1, <2>1, <3>2, ItemOf DEF Begins
      <4>2. Pending(m, source)' = Count(lanes[key], {QueueItem(m, source)})
        BY <2>1, <3>2, PendingSettles
      <4>3. Count(lanes[key], {QueueItem(m, source)}) = Count(lanes[ChannelOf[m]], {QueueItem(m, source)})
        BY <2>1
      <4>4. Count(lanes[ChannelOf[m]], {QueueItem(m, source)}) \in Nat
        BY <3>2, PendingType
      <4>5. Pending(m, source) = Count(lanes[ChannelOf[m]], {QueueItem(m, source)}) + 0
        BY <4>1 DEF Pending
      <4>6. QED
        BY <4>2, <4>3, <4>4, <4>5
    <3>3. QED
      BY <3>1, <3>2
  <2>2. CASE ChannelOf[m] # key
    <3>1. ChannelOf[m] \in Keys \ {key}
      BY <2>2, MessageItems
    <3>2. "live" \in Sources
      BY DEF Sources
    <3>3. QED
      BY <2>2, <3>1, <3>2, PendingSettles, SettleEffect
  <2>3. QED
    BY <2>1, <2>2
<1>4. QED
  BY <1>2, <1>3, SoundKept

\* The message of a worker that settles: no other of its live or retry items
\* was waiting, and nobody works on it any more.
LEMMA SettledOnce ==
    ASSUME RuntimeInv, NEW key \in Keys, run[key].phase # "idle", Settle(key),
           NEW c \in Messages, c = Current(key), OneInFlight(c)
    PROVE  OneInFlight(c)' /\ ~Working(c)'
<1>1. ChannelOf[c] = key /\ running[key] # None
  BY RunOfKey
<1>2. ASSUME NEW source \in {"live", "retry"}
      PROVE  ~(Pending(c, source)' > 0)
  <2>1. source \in Sources
    BY <1>2 DEF Sources
  <2>2. Pending(c, source)' = Count(lanes[key], {QueueItem(c, source)})
    BY <1>1, <2>1, PendingSettles
  <2>3. Count(lanes[key], {QueueItem(c, source)}) = Count(lanes[ChannelOf[c]], {QueueItem(c, source)})
    BY <1>1
  <2>4. Count(lanes[ChannelOf[c]], {QueueItem(c, source)}) \in Nat
    BY <2>1, PendingType
  <2>5. ASSUME Count(lanes[ChannelOf[c]], {QueueItem(c, source)}) > 0
        PROVE  FALSE
    <3>1. Current(ChannelOf[c]) = c /\ running[ChannelOf[c]] # None
      BY <1>1
    <3>2. seen[c] > 1
      BY <2>1, <2>5, <3>1, InFlightTwice
    <3>3. Pending(c, source) > 0
      BY <2>4, <2>5 DEF Pending
    <3>4. seen[c] = 1
      BY <1>2, <3>3 DEF OneInFlight
    <3>5. QED
      BY <3>2, <3>4
  <2>6. QED
    BY <2>2, <2>3, <2>5
<1>3. ~Working(c)'
  BY <1>1, SettleOn
<1>4. \A source \in {"live", "retry"} : Pending(c, source)' > 0 => seen'[c] = 1
  BY <1>2
<1>5. QED
  BY <1>3, <1>4 DEF OneInFlight
\* A settled worker keeps all messages sound if it leaves the row of its own
\* message to somebody.
LEMMA SettledSound ==
    ASSUME RuntimeInv, \A m \in Messages : Sound(m),
           NEW key \in Keys, run[key].phase # "idle", Settle(key),
           NEW c \in Messages, c = Current(key),
           rerunRequested' = rerunRequested, lost \subseteq lost',
           intake' = intake, posted' = posted,
           \A m \in Messages \ {c} : rowState'[m] = rowState[m] /\ retryJob'[m] = retryJob[m],
           rowState'[c] = "processing" =>
               c \in lost' \/ (c \in rerunRequested /\ retryJob'[c] > 0),
           rowState'[c] = "pending_retry" => retryJob'[c] > 0,
           rowState'[c] = "rerun_requested" => rowState[c] = "rerun_requested" /\ ~Starting(c),
           c \in posted =>
               \/ rowState'[c] \in Resolved \cup {"rerun_requested"}
               \/ retryJob'[c] > 0 \/ c \in lost'
    PROVE  \A m \in Messages : Sound(m)'
<1>1. ASSUME NEW m \in Messages, m # c
      PROVE  Sound(m)'
  BY <1>1, SoundAfterSettle
<1>2. OneInFlight(c)' /\ ~Working(c)'
  BY SettledOnce DEF Sound
<1>3. ASSUME rowState'[c] = "rerun_requested"
      PROVE  Reruns(c)' > 0
  <2>1. ChannelOf[c] = key
    BY RunOfKey
  <2>2. Reruns(c)' = Count(lanes[key], {Rerun(c)})
    BY <2>1, SettleOn
  <2>3. Reruns(c) > 0
    BY <1>3 DEF Sound, RowHeld
  <2>4. Reruns(c) = Count(lanes[ChannelOf[c]], {Rerun(c)}) + 0
    BY <1>3 DEF Reruns
  <2>5. Count(lanes[ChannelOf[c]], {Rerun(c)}) \in Nat
    BY RerunsType
  <2>6. Count(lanes[ChannelOf[c]], {Rerun(c)}) = Count(lanes[key], {Rerun(c)})
    BY <2>1
  <2>7. QED
    BY <2>2, <2>3, <2>4, <2>5, <2>6
<1>4. RowHeld(c)' /\ RunHeld(c)'
  BY <1>2, <1>3 DEF RowHeld, RunHeld
<1>5. c \in posted => Held(c)'
  <2>1. rowState'[c] = "rerun_requested" => \E source \in Sources : Pending(c, source)' > 0
    BY <1>3, RerunsArePending
  <2>2. QED
    BY <2>1 DEF Held
<1>6. c \in intake' => c \in posted'
  BY DEF Sound
<1>7. Sound(c)'
  BY <1>2, <1>4, <1>5, <1>6 DEF Sound
<1>8. QED
  BY <1>1, <1>7

\* A run that takes its message has it in hand: if it will stop for a rerun at
\* once, a job or somebody's error stands for the row.
LEMMA TakesSound ==
    ASSUME RuntimeInv, RowsBegun, \A m \in Messages : Sound(m),
           NEW key \in Keys, Takes(key), ElsewhereUnchanged, NEW m \in Messages
    PROVE  Sound(m)'
<1>0. run[key].phase = "start"
  BY DEF Takes
<1> PICK c \in Messages : c = Current(key)
  BY <1>0, RunOfKey
<1> PICK source \in Sources : source = running[key].source
  BY <1>0, RunOfKey
<1>1. /\ running[key] # None /\ ChannelOf[c] = key
      /\ running[key] = QueueItem(c, source)
  BY <1>0, RunOfKey
<1>2. StoreTypeOK
  BY DEF RuntimeInv, TypeOK
<1>3. /\ rowState'[m] = IF m = c THEN "processing" ELSE rowState[m]
      /\ retryJob' = retryJob
  BY <1>1, <1>2, RowsAfter DEF Takes
<1>4. /\ UNCHANGED <<seen, lanes, running, lost, intake, posted>>
      /\ rerunRequested' = IF source = "workflow_switch_rerun"
                           THEN rerunRequested \ {c} ELSE rerunRequested
  BY DEF Takes, ElsewhereUnchanged, queueVars
<1>5. CASE m # c
  <2>1. ASSUME NEW s \in Sources
        PROVE  Pending(m, s)' = Pending(m, s)
    <3>1. CASE ChannelOf[m] = key
      <4>1. ~Begins(m, s)
        <5>1. QueueItem(c, source) # QueueItem(m, s)
          BY <1>5, <2>1, ItemOf
        <5>2. QED
          BY <1>1, <3>1, <5>1 DEF Begins
      <4>2. Pending(m, s)' = Count(lanes[key], {QueueItem(m, s)})
        BY <2>1, <3>1, PendingBegins
      <4>3. Count(lanes[key], {QueueItem(m, s)}) = Count(lanes[ChannelOf[m]], {QueueItem(m, s)})
        BY <3>1
      <4>4. Count(lanes[ChannelOf[m]], {QueueItem(m, s)}) \in Nat
        BY <2>1, PendingType
      <4>5. Pending(m, s) = Count(lanes[ChannelOf[m]], {QueueItem(m, s)}) + 0
        BY <4>1 DEF Pending
      <4>6. QED
        BY <4>2, <4>3, <4>4, <4>5
    <3>2. CASE ChannelOf[m] # key
      BY <2>1, <3>2, PendingBegins
    <3>3. QED
      BY <3>1, <3>2
  <2>2. Working(m)' <=> Working(m)
    BY <1>5, RunBegins
  <2>3. QED
    BY <1>3, <1>4, <1>5, <2>1, <2>2, SoundKept
<1>6. CASE m = c
  <2>1. Working(c)'
    BY <1>1, RunBegins
  <2>2. ~Working(c)
    BY <1>1, RunBegins
  <2>3. RowHeld(c)'
    BY <1>3, <1>6, <2>1 DEF RowHeld
  <2>4. ASSUME MustStop(key)'
        PROVE  c \in lost' \/ retryJob'[c] > 0
    <3>1. source # "workflow_switch_rerun" /\ c \in rerunRequested
      BY <1>1, <1>4, <2>4 DEF MustStop, Current
    <3>2. source \in {"live", "retry"}
      BY <1>1, <3>1 DEF Sources
    <3>3. Begins(c, source)
      BY <1>0, <1>1 DEF Begins
    <3>4. Pending(c, source) > 0
      <4>1. Pending(c, source) = Count(lanes[ChannelOf[c]], {QueueItem(c, source)}) + 1
        BY <3>3 DEF Pending
      <4>2. Count(lanes[ChannelOf[c]], {QueueItem(c, source)}) \in Nat
        BY PendingType
      <4>3. QED
        BY <4>1, <4>2
    <3>5. seen[c] = 1
      BY <1>1, <3>2, <3>4 DEF Sound, OneInFlight
    <3>6. ~(Reruns(c) > 0)
      <4>1. ~Starting(c)
        BY <1>1, <3>1, RerunItem, ItemOf DEF Starting
      <4>2. Reruns(c) = Count(lanes[ChannelOf[c]], {Rerun(c)}) + 0
        BY <4>1 DEF Reruns
      <4>3. Count(lanes[ChannelOf[c]], {Rerun(c)}) \in Nat
        BY <1>1, RerunsType
      <4>4. ~(Count(lanes[ChannelOf[c]], {QueueItem(c, "workflow_switch_rerun")}) > 0)
        <5>1. Current(ChannelOf[c]) = c /\ running[ChannelOf[c]] # None
          BY <1>1
        <5>2. "workflow_switch_rerun" \in Sources
          BY DEF Sources
        <5>3. ASSUME Count(lanes[ChannelOf[c]], {QueueItem(c, "workflow_switch_rerun")}) > 0
              PROVE  seen[c] > 1
          BY <5>1, <5>2, <5>3, InFlightTwice
        <5>4. QED
          BY <3>5, <5>3
      <4>5. QED
        BY <4>2, <4>3, <4>4 DEF Rerun
    <3>7. rowState[c] \in RowStates \ Resolved
      <4>1. rowState[c] \notin Resolved
        BY <1>0 DEF Takes, AcquireStatus, Resolved
      <4>2. QED
        BY <1>1, <1>2, <4>1 DEF StoreTypeOK
    <3>8. rowState[c] # "none"
      BY <1>1, <3>1 DEF RowsBegun
    <3>9. rowState[c] \in {"processing", "pending_retry"}
      BY <1>1, <3>6, <3>7, <3>8 DEF RowStates, Resolved, Sound, RowHeld
    <3>10. QED
      BY <1>1, <1>3, <1>4, <2>2, <3>9 DEF Sound, RowHeld
  <2>5. RunHeld(c)'
    BY <1>1, <2>4 DEF RunHeld
  <2>6. ASSUME NEW s \in {"live", "retry"}, Pending(c, s)' > 0
        PROVE  seen'[c] = 1
    <3>1. s \in Sources
      BY <2>6 DEF Sources
    <3>2. Pending(c, s)' = Count(lanes[key], {QueueItem(c, s)})
      BY <1>1, <3>1, PendingBegins
    <3>3. Count(lanes[key], {QueueItem(c, s)}) = Count(lanes[ChannelOf[c]], {QueueItem(c, s)})
      BY <1>1
    <3>4. Count(lanes[ChannelOf[c]], {QueueItem(c, s)}) \in Nat
      BY <1>1, <3>1, PendingType
    <3>5. Pending(c, s) > 0
      BY <2>6, <3>2, <3>3, <3>4 DEF Pending
    <3>6. QED
      BY <1>1, <1>4, <2>6, <3>5 DEF Sound, OneInFlight
  <2>7. OneInFlight(c)' /\ Held(c)' /\ (c \in intake' => c \in posted')
    BY <1>1, <1>4, <2>1, <2>6 DEF OneInFlight, Held, Sound
  <2>8. QED
    BY <1>6, <2>3, <2>5, <2>7 DEF Sound
<1>7. QED
  BY <1>5, <1>6
\* process() keeps every message sound.
LEMMA ProcessSound ==
    ASSUME RuntimeInv, RowsBegun, \A m \in Messages : Sound(m),
           NEW key \in Keys, ProcessStep(key), ElsewhereUnchanged
    PROVE  \A m \in Messages : Sound(m)'
<1>1. intake' = intake /\ posted' = posted /\ StoreTypeOK
  BY DEF ElsewhereUnchanged, RuntimeInv, TypeOK
<1>2. CASE Takes(key)
  BY <1>2, TakesSound
<1>3. CASE GoesOn(key)
  <2>1. PICK r \in Runs : r.phase \in InHand /\ run' = [run EXCEPT ![key] = r]
    BY <1>3 DEF GoesOn
  <2>2. /\ run[key].phase \in InHand
        /\ UNCHANGED <<rowState, retryJob, seen, lanes, running, rerunRequested, lost>>
        /\ UNCHANGED queueVars
    BY <1>3 DEF GoesOn, queueVars, storeVars
  <2>3. ASSUME NEW m \in Messages
        PROVE  Sound(m)'
    <3>1. \A source \in Sources : (Working(m)' <=> Working(m)) /\ Pending(m, source)' = Pending(m, source)
      BY <2>1, <2>2, PendingGoesOn
    <3>2. "live" \in Sources
      BY DEF Sources
    <3>3. QED
      BY <1>1, <2>2, <3>1, <3>2, SoundKept
  <2>4. QED
    BY <2>3
<1>4. ASSUME ~Takes(key), ~GoesOn(key)
      PROVE  \A m \in Messages : Sound(m)'
  <2>1. PICK c \in Messages : c = Current(key)
    BY <1>4, RunOfKey, RunRecords
       DEF ProcessStep, Skips, Refuses, Concludes, GivesUp, Stops, Postpones
  <2>2. run[key].phase # "idle"
    BY <1>4, RunRecords
       DEF ProcessStep, Skips, Refuses, Concludes, GivesUp, Stops, Postpones
  <2>3. ChannelOf[c] = key
    BY <2>1, <2>2, RunOfKey
  <2>4. /\ run[key].phase = "start" => ~Working(c)
        /\ run[key].phase \in InHand => Working(c) /\ ~Starting(c) /\ rowState[c] # "none"
    BY <2>1, <2>3, RunRecords DEF Working, Starting, RowsBegun
  <2>5. /\ "notify" \in InHand /\ Sound(c) /\ rowState[c] \in RowStates /\ retryJob[c] \in Nat
        /\ \A m \in Messages \ {c} :
              /\ DeleteRetryJob(c) => retryJob'[m] = retryJob[m]
              /\ ScheduleRetry(c) \/ (\E state : ResolveAs(c, state))
                   => rowState'[m] = rowState[m] /\ retryJob'[m] = retryJob[m]
    <3>1. "notify" \in InHand /\ Sound(c) /\ rowState[c] \in RowStates /\ retryJob[c] \in Nat
      BY <1>1 DEF InHand, FailurePhases, StoreTypeOK
    <3>2. QED
      BY <1>1, <3>1, OperationsAfter
  <2>6. CASE Skips(key)
    <3>1. /\ rowState' = rowState /\ rowState[c] \in Resolved /\ Settle(key)
          /\ DeleteRetryJob(c) /\ rerunRequested' = rerunRequested /\ lost' = lost
      BY <2>1, <2>6 DEF Skips
    <3>2. rowState'[c] \notin {"processing", "pending_retry", "rerun_requested"}
      BY <3>1 DEF Resolved
    <3>3. QED
      BY <1>1, <2>1, <2>2, <2>5, <3>1, <3>2, SettledSound
  <2>7. CASE Refuses(key)
    <3>1. /\ rowState' = rowState /\ retryJob' = retryJob /\ Settle(key)
          /\ rowState[c] \in {"processing", "pending_retry"} /\ ~Working(c)
          /\ rerunRequested' = rerunRequested /\ lost' = lost
      BY <2>1, <2>4, <2>7 DEF Refuses, storeVars
    <3>2. /\ rowState[c] = "processing" => c \in lost \/ (c \in rerunRequested /\ retryJob[c] > 0)
          /\ rowState[c] = "pending_retry" => retryJob[c] > 0
      BY <2>5, <3>1 DEF Sound, RowHeld
    <3>3. QED
      BY <1>1, <2>1, <2>2, <3>1, <3>2, SettledSound
  <2>8. CASE Concludes(key)
    <3>1. PICK state \in Resolved : ResolveAs(c, state)
      BY <2>1, <2>8 DEF Concludes
    <3>2. Settle(key) /\ rerunRequested' = rerunRequested /\ lost' = lost /\ rowState[c] # "none"
      BY <2>4, <2>8 DEF Concludes
    <3>3. rowState'[c] = state
      BY <1>1, <3>1, <3>2, OperationsAfter
    <3>4. rowState'[c] \in Resolved /\ rowState'[c] \notin {"processing", "pending_retry", "rerun_requested"}
      BY <3>1, <3>3 DEF Resolved
    <3>5. QED
      BY <1>1, <2>1, <2>2, <2>5, <3>1, <3>2, <3>4, SettledSound
  <2>9. CASE GivesUp(key)
    <3>1. /\ rowState' = rowState /\ retryJob' = retryJob /\ Settle(key) /\ ~Starting(c)
          /\ rerunRequested' = rerunRequested /\ lost' = lost \cup {c}
      BY <2>1, <2>4, <2>9 DEF GivesUp, storeVars
    <3>2. rowState[c] = "pending_retry" => retryJob[c] > 0
      BY <2>5 DEF Sound, RowHeld
    <3>3. QED
      BY <1>1, <2>1, <2>2, <3>1, <3>2, SettledSound
  <2>10. CASE Stops(key)
    <3>1. /\ rowState' = rowState /\ retryJob' = retryJob /\ Settle(key) /\ ~Starting(c)
          /\ rerunRequested' = rerunRequested /\ lost' = lost
          /\ Working(c) /\ rowState[c] # "none" /\ MustStop(key)
      BY <2>1, <2>4, <2>10 DEF Stops, storeVars
    <3>2. c \in rerunRequested
      BY <2>1, <3>1 DEF MustStop
    <3>3. rowState[c] = "processing" => c \in lost \/ retryJob[c] > 0
      BY <2>3, <2>5, <3>1 DEF Sound, RunHeld
    <3>4. rowState[c] = "pending_retry" => retryJob[c] > 0
      BY <2>5 DEF Sound, RowHeld
    <3>5. rowState[c] \in Resolved \cup {"rerun_requested", "processing", "pending_retry"}
      BY <2>5, <3>1 DEF RowStates, Resolved
    <3>6. QED
      BY <1>1, <2>1, <2>2, <3>1, <3>2, <3>3, <3>4, <3>5, SettledSound
  <2>11. CASE Postpones(key)
    <3>1. /\ ScheduleRetry(c) /\ Settle(key)
          /\ rerunRequested' = rerunRequested /\ lost' = lost /\ rowState[c] # "none"
      BY <2>1, <2>4, <2>5, <2>11 DEF Postpones
    <3>2. rowState'[c] = "pending_retry" /\ retryJob'[c] = retryJob[c] + 1
      BY <1>1, <3>1, OperationsAfter
    <3>3. retryJob'[c] > 0
      BY <2>5, <3>2
    <3>4. QED
      BY <1>1, <2>1, <2>2, <2>5, <3>1, <3>2, <3>3, SettledSound
  <2>12. QED
    BY <1>4, <2>6, <2>7, <2>8, <2>9, <2>10, <2>11 DEF ProcessStep
<1>5. QED
  BY <1>2, <1>3, <1>4

\* An accepted submission concerns its own message only: one more item of its source
\* is pending, and nobody starts to work on it yet.
LEMMA EnqueueSound ==
    ASSUME RuntimeInv, NEW m \in Messages, NEW source \in Sources,
           Enqueue(QueueItem(m, source)), run' = run,
           UNCHANGED <<rerunRequested, posted>>, lost \subseteq lost',
           \A n \in Messages \ {m} : Sound(n) /\ rowState'[n] = rowState[n]
               /\ retryJob'[n] = retryJob[n] /\ (n \in intake' <=> n \in intake)
    PROVE  /\ \A n \in Messages \ {m} : Sound(n)'
           /\ Working(m)' <=> Working(m)
           /\ running' = running
           /\ seen'[m] = seen[m] + 1
           /\ source # "workflow_switch_rerun" => seen[m] = 0
           /\ \A s \in Sources :
                 Pending(m, s)' = Pending(m, s) + (IF s = source THEN 1 ELSE 0)
<1> DEFINE item == QueueItem(m, source)
<1>1. item \in Items /\ item.messageId = m /\ item.source = source
  BY ItemOf
<1>2. \A n \in Messages : \A s \in Sources : item = QueueItem(n, s) <=> n = m /\ s = source
  BY ItemOf
<1>3. /\ seen' = [seen EXCEPT ![m] = @ + 1] /\ running' = running /\ Enqueue(item)
      /\ ~Refused(item)
  BY <1>1 DEF Enqueue
<1>4. seen \in [MessageIds -> Nat] /\ MessageIds = Messages
  BY IdsAreMessages DEF RuntimeInv, TypeOK, QueueTypeOK
<1> HIDE DEF item
<1>5. ASSUME NEW n \in Messages, NEW s \in Sources
      PROVE  /\ Working(n)' <=> Working(n)
             /\ Pending(n, s)' = Pending(n, s) + (IF n = m /\ s = source THEN 1 ELSE 0)
  BY <1>1, <1>2, <1>3, <1>5, PendingEnqueues
<1>6. "live" \in Sources
  BY DEF Sources
<1>7. ASSUME NEW n \in Messages \ {m}
      PROVE  Sound(n)'
  <2>1. ASSUME NEW s \in Sources
        PROVE  Pending(n, s)' = Pending(n, s)
    <3>1. Pending(n, s)' = Pending(n, s) + 0
      BY <1>5, <1>7, <2>1
    <3>2. Pending(n, s) \in Nat
      BY <2>1, PendingType
    <3>3. QED
      BY <3>1, <3>2
  <2>2. seen'[n] = seen[n]
    BY <1>3, <1>4
  <2>3. QED
    BY <1>3, <1>5, <1>6, <1>7, <2>1, <2>2, SoundKept
<1>8. Working(m)' <=> Working(m)
  BY <1>5, <1>6
<1>9. seen'[m] = seen[m] + 1
  BY <1>3, <1>4
<1>10. source # "workflow_switch_rerun" => seen[m] = 0
  <2>1. ASSUME item \in Repeatable
        PROVE  source = "workflow_switch_rerun"
    <3>1. PICK n \in Messages : item = QueueItem(n, "workflow_switch_rerun")
      BY <2>1, RuntimeItems
    <3>2. QED
      BY <1>2, <3>1 DEF Sources
  <2>2. seen[m] \in Nat
    BY <1>4
  <2>3. QED
    BY <1>1, <1>3, <2>1, <2>2 DEF Refused
<1>11. QED
  BY <1>3, <1>5, <1>7, <1>8, <1>9, <1>10
\* A switch hands the row of its run to the rerun it submits.
LEMMA SwitchSound ==
    ASSUME RuntimeInv, \A m \in Messages : Sound(m), NEW key \in Keys, SwitchWorkflow(key)
    PROVE  \A m \in Messages : Sound(m)'
<1>1. run[key].phase \in InHand /\ run[key].phase # "idle"
  BY DEF SwitchWorkflow, InHand, WorkPhases, FailurePhases
<1>2. PICK c \in Messages : c = Current(key) /\ ChannelOf[c] = key /\ running[key] # None
  BY <1>1, RunOfKey
<1>3. /\ rowState[c] = "processing" /\ MarkRow(c, "rerun_requested")
      /\ rerunRequested' = rerunRequested \cup {c}
      /\ Enqueue(QueueItem(c, "workflow_switch_rerun"))
      /\ UNCHANGED <<retryJob, run, intake, posted, lost>>
  BY <1>2 DEF SwitchWorkflow, RerunMarkable, SubmitRerun, historyVars
<1>4. StoreTypeOK /\ rowState[c] # "none"
  BY <1>3 DEF RuntimeInv, TypeOK
<1>5. \A n \in Messages : rowState'[n] = IF n = c THEN "rerun_requested" ELSE rowState[n]
  BY <1>3, <1>4, RowsAfter
<1>6. "workflow_switch_rerun" \in Sources
  BY DEF Sources
<1>7. ASSUME NEW n \in Messages \ {c}
      PROVE  Sound(n)'
  <2>1. \A s \in Sources : /\ Working(n)' <=> Working(n)
                           /\ Pending(n, s)' = Pending(n, s)
    <3>1. ASSUME NEW s \in Sources
          PROVE  /\ Working(n)' <=> Working(n)
                 /\ Pending(n, s)' = Pending(n, s)
      <4>1. QueueItem(c, "workflow_switch_rerun") # QueueItem(n, s)
        BY <1>6, <1>7, ItemOf
      <4>2. Pending(n, s) \in Nat
        BY PendingType
      <4>3. QueueItem(c, "workflow_switch_rerun") \in Items
        BY <1>6, ItemOf
      <4>4. QED
        BY <1>3, <4>1, <4>2, <4>3, PendingEnqueues
    <3>2. QED
      BY <3>1
  <2>2. seen'[n] = seen[n] /\ running' = running
    <3>1. seen' = [seen EXCEPT ![c] = @ + 1] /\ running' = running
      BY <1>3, <1>6, ItemOf DEF Enqueue
    <3>2. seen \in [MessageIds -> Nat] /\ n \in MessageIds
      BY IdsAreMessages DEF RuntimeInv, TypeOK, QueueTypeOK
    <3>3. QED
      BY <3>1, <3>2
  <2>3. n \in rerunRequested' <=> n \in rerunRequested
    BY <1>3
  <2>4. QED
    BY <1>3, <1>5, <1>6, <2>1, <2>2, <2>3, SoundKept
<1>8. /\ Working(c)' /\ Working(c)
      /\ Reruns(c)' = Reruns(c) + 1
  <2>1. QueueItem(c, "workflow_switch_rerun") = Rerun(c) /\ Rerun(c) \in Items
    BY RerunItem DEF Rerun
  <2>2. Working(c)
    BY <1>1, <1>2 DEF Working
  <2>3. QED
    BY <1>3, <2>1, <2>2, EnqueueOn
<1>9. Reruns(c)' > 0
  <2>1. Reruns(c) \in Nat
    BY RerunsType
  <2>2. QED
    BY <1>8, <2>1
<1>10. ASSUME NEW s \in {"live", "retry"}
       PROVE  ~(Pending(c, s)' > 0)
  <2>1. s \in Sources /\ s # "workflow_switch_rerun"
    BY <1>10 DEF Sources
  <2>2. Pending(c, s)' = Pending(c, s) + 0
    <3>1. QueueItem(c, "workflow_switch_rerun") # QueueItem(c, s)
      BY <1>6, <2>1, ItemOf
    <3>2. QueueItem(c, "workflow_switch_rerun") \in Items
      BY <1>6, ItemOf
    <3>3. QED
      BY <1>3, <2>1, <3>1, <3>2, PendingEnqueues
  <2>3. Pending(c, s) \in Nat
    BY <2>1, PendingType
  <2>4. ASSUME Pending(c, s) > 0
        PROVE  FALSE
    <3>1. seen[c] = 1
      BY <1>10, <2>4 DEF Sound, OneInFlight
    <3>2. ~Begins(c, s)
      BY <1>1, <1>2, RunRecords DEF Begins
    <3>3. Count(lanes[ChannelOf[c]], {QueueItem(c, s)}) > 0
      <4>1. Pending(c, s) = Count(lanes[ChannelOf[c]], {QueueItem(c, s)}) + 0
        BY <3>2 DEF Pending
      <4>2. Count(lanes[ChannelOf[c]], {QueueItem(c, s)}) \in Nat
        BY <2>1, PendingType
      <4>3. QED
        BY <2>4, <4>1, <4>2
    <3>4. Current(ChannelOf[c]) = c /\ running[ChannelOf[c]] # None
      BY <1>2
    <3>5. QED
      BY <2>1, <3>1, <3>3, <3>4, InFlightTwice
  <2>5. QED
    BY <2>2, <2>3, <2>4
<1>11. Sound(c)'
  <2>1. rowState'[c] = "rerun_requested"
    BY <1>5
  <2>2. RowHeld(c)' /\ RunHeld(c)'
    BY <1>9, <2>1 DEF RowHeld, RunHeld
  <2>3. OneInFlight(c)'
    BY <1>10 DEF OneInFlight
  <2>4. Held(c)' /\ (c \in intake' => c \in posted')
    BY <1>3, <1>8 DEF Held, Sound
  <2>5. QED
    BY <2>2, <2>3, <2>4 DEF Sound
<1>12. QED
  BY <1>7, <1>11

\* A drain of the queue keeps every message sound.
LEMMA DrainSound ==
    ASSUME RuntimeInv, \A m \in Messages : Sound(m), DrainQueue
    PROVE  \A m \in Messages : Sound(m)'
<1>1. UNCHANGED <<rowState, retryJob, seen, rerunRequested, lost, intake, posted>>
  BY DEF DrainQueue, Drain, storeVars, historyVars
<1>2. "live" \in Sources
  BY DEF Sources
<1>3. ASSUME NEW m \in Messages
      PROVE  Sound(m)'
  <2>1. \A s \in Sources : /\ Working(m)' <=> Working(m)
                           /\ Working(m) => running'[ChannelOf[m]] = running[ChannelOf[m]]
                           /\ Pending(m, s)' = Pending(m, s)
    BY PendingDrains
  <2>2. QED
    BY <1>1, <1>2, <2>1, SoundKept
<1>4. QED
  BY <1>3

\* Where neither queue nor handlers move, the messages stay sound.
LEMMA StillSound ==
    ASSUME UNCHANGED <<run, running, lanes, seen>>, NEW m \in Messages, Sound(m),
           rowState'[m] = rowState[m], retryJob'[m] = retryJob[m],
           UNCHANGED <<rerunRequested, lost>>,
           m \in intake' <=> m \in intake, m \in posted' <=> m \in posted
    PROVE  Sound(m)'
<1>1. \A s \in Sources : (Working(m)' <=> Working(m)) /\ Pending(m, s)' = Pending(m, s)
  BY PendingUntouched
<1>2. "live" \in Sources
  BY DEF Sources
<1>3. QED
  BY <1>1, <1>2, SoundKept
\* A live or retry submission keeps every message sound, its own included.
LEMMA SubmittedSound ==
    ASSUME RuntimeInv, NEW m \in Messages, \A n \in Messages \ {m} : Sound(n),
           NEW source \in {"live", "retry"},
           Enqueue(QueueItem(m, source)), UNCHANGED <<run, rowState, retryJob, rerunRequested, posted, lost>>,
           \A n \in Messages \ {m} : n \in intake' <=> n \in intake,
           RowHeld(m), RunHeld(m), m \in intake' => m \in posted'
    PROVE  \A n \in Messages : Sound(n)'
<1>1. source \in Sources /\ source # "workflow_switch_rerun"
  BY DEF Sources
<1>2. /\ \A n \in Messages \ {m} : Sound(n)'
      /\ Working(m)' <=> Working(m)
      /\ running' = running
      /\ seen'[m] = seen[m] + 1
      /\ seen[m] = 0
      /\ \A s \in Sources :
            Pending(m, s)' = Pending(m, s) + (IF s = source THEN 1 ELSE 0)
  BY <1>1, EnqueueSound
<1>3. Reruns(m)' = Reruns(m)
  <2>1. Pending(m, "workflow_switch_rerun")' = Pending(m, "workflow_switch_rerun") + 0
    BY <1>1, <1>2, RerunsArePending
  <2>2. Reruns(m) \in Nat /\ Reruns(m) = Pending(m, "workflow_switch_rerun")
    BY RerunsArePending, RerunsType
  <2>3. QED
    BY <2>1, <2>2, RerunsArePending
<1>4. Pending(m, source)' > 0
  <2>1. Pending(m, source)' = Pending(m, source) + 1
    BY <1>1, <1>2
  <2>2. Pending(m, source) \in Nat
    BY <1>1, PendingType
  <2>3. QED
    BY <2>1, <2>2
<1>5. RowHeld(m)'
  BY <1>2, <1>3 DEF RowHeld
<1>6. RunHeld(m)'
  BY <1>2 DEF RunHeld, MustStop, Current
<1>7. OneInFlight(m)' /\ Held(m)'
  BY <1>1, <1>2, <1>4 DEF OneInFlight, Held
<1>8. Sound(m)'
  BY <1>5, <1>6, <1>7 DEF Sound
<1>9. QED
  BY <1>2, <1>8

\* The decisions of the retry runner give a row a job or a resolved state.
LEMMA RunnerSound ==
    ASSUME RuntimeInv, RowsBegun, \A m \in Messages : Sound(m),
           NEW d \in Drains, RetryRunner(d)
    PROVE  \A m \in Messages : Sound(m)'
<1> PICK c \in Messages : c = Job(d).message
  BY RunnerCases, JobOfRunner
<1>1. UNCHANGED <<run, rerunRequested, intake, posted, lost>> /\ StoreTypeOK
  BY DEF RetryRunner, FetchSucceeds, FetchFails, RunnerNoticeSettles,
         RunnerTerminalNoticeSettles, RunnerPermanentNoticeThrows, historyVars,
         RuntimeInv, TypeOK
<1>2. /\ runner[d].jobs[1] = Job(d) /\ 1 \in 1..Len(runner[d].jobs)
  BY RunnerCases, JobOfRunner
<1>3. rowState[c] # "none"
  BY <1>2 DEF RowsBegun
<1>4. ASSUME UNCHANGED queueVars, \A m \in Messages \ {c} : rowState'[m] = rowState[m] /\ retryJob'[m] = retryJob[m],
             \/ rowState'[c] = rowState[c] /\ retryJob'[c] = retryJob[c]
             \/ rowState'[c] = "pending_retry" /\ retryJob'[c] > 0
             \/ rowState'[c] \in Resolved
      PROVE  \A m \in Messages : Sound(m)'
  <2>1. UNCHANGED <<running, lanes, seen>>
    BY <1>4 DEF queueVars
  <2>2. ASSUME NEW m \in Messages, rowState'[m] = rowState[m] /\ retryJob'[m] = retryJob[m]
        PROVE  Sound(m)'
    BY <1>1, <2>1, <2>2, StillSound
  <2>3. CASE rowState'[c] \in Resolved \/ (rowState'[c] = "pending_retry" /\ retryJob'[c] > 0)
    <3>1. rowState'[c] \notin {"processing", "rerun_requested"}
      BY <2>3 DEF Resolved
    <3>2. rowState'[c] = "pending_retry" => retryJob'[c] > 0
      BY <2>3 DEF Resolved
    <3>3. RowHeld(c)' /\ RunHeld(c)' /\ Held(c)'
      BY <2>3, <3>1, <3>2 DEF RowHeld, RunHeld, Held
    <3>4. \A s \in Sources : Pending(c, s)' = Pending(c, s)
      BY <1>1, <1>2, <2>1, PendingUntouched
    <3>5. OneInFlight(c)'
      BY <1>2, <2>1, <3>4 DEF OneInFlight, Sound, Sources
    <3>6. Sound(c)'
      BY <1>1, <1>2, <3>3, <3>5 DEF Sound
    <3>7. QED
      BY <1>4, <2>2, <3>6
  <2>4. QED
    BY <1>4, <2>2, <2>3
<1>5. CASE FetchSucceeds(d)
  <2>1. UNCHANGED <<rowState, retryJob>> /\
        (Enqueue(QueueItem(c, "retry")) \/ UNCHANGED queueVars)
    BY <1>5 DEF FetchSucceeds, storeVars
  <2>2. CASE Enqueue(QueueItem(c, "retry"))
    <3>1. RowHeld(c) /\ RunHeld(c) /\ (c \in intake' => c \in posted')
      BY <1>1, <1>2 DEF Sound
    <3>2. QED
      BY <1>1, <1>2, <2>1, <2>2, <3>1, SubmittedSound
  <2>3. QED
    BY <1>4, <2>1, <2>2
<1>6. CASE RunnerNoticeSettles(d)
  <2>1. UNCHANGED queueVars /\ (UNCHANGED storeVars \/ ScheduleRetry(c))
    BY <1>6 DEF RunnerNoticeSettles
  <2>2. CASE ScheduleRetry(c)
    <3>1. rowState'[c] = "pending_retry" /\ retryJob'[c] = retryJob[c] + 1
      BY <1>1, <1>2, <1>3, <2>2, OperationsAfter
    <3>2. retryJob'[c] > 0
      BY <1>1, <1>2, <3>1 DEF StoreTypeOK
    <3>3. \A m \in Messages \ {c} : rowState'[m] = rowState[m] /\ retryJob'[m] = retryJob[m]
      BY <1>1, <1>2, <2>2, OperationsAfter
    <3>4. QED
      BY <1>4, <2>1, <3>1, <3>2, <3>3
  <2>3. CASE UNCHANGED storeVars
    BY <1>4, <2>1, <2>3 DEF storeVars
  <2>4. QED
    BY <2>1, <2>2, <2>3
<1>7. CASE RunnerTerminalNoticeSettles(d)
  <2>1. UNCHANGED queueVars /\ ResolveAs(c, "terminal_failure_notified")
    BY <1>7 DEF RunnerTerminalNoticeSettles
  <2>2. rowState'[c] = "terminal_failure_notified"
    BY <1>1, <1>2, <1>3, <2>1, OperationsAfter
  <2>3. \A m \in Messages \ {c} : rowState'[m] = rowState[m] /\ retryJob'[m] = retryJob[m]
    BY <1>1, <1>2, <2>1, OperationsAfter
  <2>4. "terminal_failure_notified" \in Resolved
    BY DEF Resolved
  <2>5. QED
    BY <1>4, <2>1, <2>2, <2>3, <2>4
<1>8. CASE FetchFails(d) \/ RunnerPermanentNoticeThrows(d)
  <2>1. UNCHANGED queueVars /\ UNCHANGED <<rowState, retryJob>>
    BY <1>8 DEF FetchFails, RunnerPermanentNoticeThrows, storeVars
  <2>2. QED
    BY <1>4, <2>1
<1>9. QED
  BY <1>5, <1>6, <1>7, <1>8 DEF RetryRunner

\* A posted message is in intake; when intake ends, it is in flight or given up.
LEMMA IntakeSound ==
    ASSUME RuntimeInv, Up, \A n \in Messages : Sound(n), NEW m \in Messages,
           Post(m) \/ IntakeEnds(m) \/ Clock(m)
    PROVE  \A n \in Messages : Sound(n)'
<1>1. CASE Post(m)
  <2>1. /\ UNCHANGED <<run, running, lanes, seen, rowState, retryJob, rerunRequested, lost>>
        /\ posted' = posted \cup {m} /\ intake' = intake \cup {m}
    BY <1>1 DEF Post, Up, queueVars, storeVars, historyVars
  <2>2. \A n \in Messages \ {m} : Sound(n)'
    BY <2>1, StillSound
  <2>3. /\ \A s \in Sources : (Working(m)' <=> Working(m)) /\ Pending(m, s)' = Pending(m, s)
        /\ Reruns(m)' = Reruns(m)
    BY <2>1, PendingUntouched, RerunsArePending
  <2>4. Working(m)' <=> Working(m)
    BY <2>3 DEF Sources
  <2>5. RowHeld(m)' /\ RunHeld(m)' /\ OneInFlight(m)'
    BY <2>1, <2>3, <2>4 DEF Sound, RowHeld, RunHeld, OneInFlight, MustStop, Current, Sources
  <2>6. Held(m)' /\ m \in posted'
    BY <2>1 DEF Held
  <2>7. QED
    BY <2>2, <2>5, <2>6 DEF Sound
<1>2. CASE IntakeEnds(m)
  <2>1. /\ UNCHANGED <<run, rowState, retryJob, rerunRequested, posted>> /\ m \in intake
        /\ intake' = intake \ {m} /\ Submit(m)
    BY <1>2 DEF IntakeEnds, storeVars
  <2>2. CASE Enqueue(QueueItem(m, "live")) /\ UNCHANGED lost
    <3>1. RowHeld(m) /\ RunHeld(m)
      BY DEF Sound
    <3>2. QED
      BY <2>1, <2>2, <3>1, SubmittedSound
  <2>3. ASSUME UNCHANGED queueVars,
               \/ lost' = lost /\ Refused(QueueItem(m, "live"))
               \/ lost' = lost \cup {m}
        PROVE  \A n \in Messages : Sound(n)'
    <3>1. UNCHANGED <<running, lanes, seen>>
      BY <2>3 DEF queueVars
    <3>2. ASSUME NEW n \in Messages
          PROVE  \A s \in Sources : (Working(n)' <=> Working(n)) /\ Pending(n, s)' = Pending(n, s)
      BY <2>1, <3>1, <3>2, PendingUntouched
    <3>3. "live" \in Sources
      BY DEF Sources
    <3>4. ASSUME NEW n \in Messages \ {m}
          PROVE  Sound(n)'
      BY <2>1, <2>3, <3>1, <3>2, <3>3, <3>4, SoundKept
    <3>5. Reruns(m)' = Reruns(m) /\ (Working(m)' <=> Working(m))
      BY <3>2, <3>3, RerunsArePending
    <3>6. RowHeld(m)' /\ RunHeld(m)' /\ OneInFlight(m)'
      BY <2>1, <2>3, <3>1, <3>2, <3>5
         DEF Sound, RowHeld, RunHeld, OneInFlight, MustStop, Current, Sources
    <3>7. Held(m)'
      <4>1. CASE lost' = lost \cup {m}
        BY <4>1 DEF Held
      <4>2. CASE Refused(QueueItem(m, "live"))
        <5>1. seen[m] > 0
          BY <3>3, <4>2, ItemOf DEF Refused
        <5>2. Working(m) \/ \E s \in Sources : Pending(m, s) > 0
          BY <5>1, InFlightIsHeld
        <5>3. QED
          BY <3>2, <3>5, <5>2 DEF Held
      <4>3. QED
        BY <2>3, <4>1, <4>2
    <3>8. Sound(m)'
      BY <2>1, <3>6, <3>7 DEF Sound
    <3>9. QED
      BY <3>4, <3>8
  <2>4. QED
    BY <2>1, <2>2, <2>3 DEF Submit
<1>3. CASE Clock(m)
  <2>1. UNCHANGED <<run, running, lanes, seen, rowState, retryJob, rerunRequested, lost,
                    intake, posted>>
    BY <1>3 DEF Clock, LeaseExpires, JobFallsDue, queueVars, volatileVars, historyVars
  <2>2. QED
    BY <2>1, StillSound
<1>4. QED
  BY <1>1, <1>2, <1>3
\* Without crashes the process that started stays up.
LEMMA StaysUp ==
    ASSUME RuntimeInv, Up, [Next]_vars, crashes' = 0
    PROVE  /\ Up'
           /\ \/ DrainQueue
              \/ \E key \in Keys : ProcessStep(key) /\ ElsewhereUnchanged
              \/ \E key \in Keys : SwitchWorkflow(key)
              \/ \E d \in Drains : RetryRunner(d)
              \/ \E m \in Messages : Post(m) \/ IntakeEnds(m) \/ Clock(m)
              \/ UNCHANGED <<queueVars, rowState, retryJob, run, rerunRequested,
                             intake, posted, lost>>
<1>1. phase = "up" /\ replay = <<>> /\ unrecovered = {} /\ crashes = 0
  BY DEF Up
<1>2. ~Startup /\ ~Restart /\ ~Crash /\ \A d \in Drains : ~StartupFails(d)
  BY <1>1 DEF Startup, RecoverChannel, FetchBacklog, ReplayNext, StartupDrain, StartupEnds,
              Restart, Crash, StartupFails
<1>3. CASE DrainQueue
  BY <1>1, <1>3 DEF DrainQueue, boundVars, Up
<1>4. ASSUME NEW key \in Keys, Process(key)
      PROVE  Up' /\ ProcessStep(key) /\ ElsewhereUnchanged
  BY <1>1, <1>4, ProcessCases DEF ElsewhereUnchanged, Up
<1>5. ASSUME NEW key \in Keys, SwitchWorkflow(key)
      PROVE  Up'
  BY <1>1, <1>5 DEF SwitchWorkflow, Up
<1>6. ASSUME NEW d \in Drains, RetryRunner(d)
      PROVE  Up'
  BY <1>1, <1>6 DEF RetryRunner, FetchSucceeds, FetchFails, RunnerNoticeSettles, Fault,
         RunnerTerminalNoticeSettles, RunnerPermanentNoticeThrows, boundVars, Up
<1>7. CASE (\E d \in Drains : Poll(d)) \/ UNCHANGED vars
  BY <1>1, <1>7 DEF Poll, vars, storeVars, volatileVars, boundVars, historyVars, Up
<1>8. ASSUME NEW m \in Messages, Post(m) \/ IntakeEnds(m) \/ Clock(m)
      PROVE  Up'
  BY <1>1, <1>8 DEF Post, IntakeEnds, Clock, volatileVars, boundVars, Up
<1>9. QED
  BY <1>2, <1>3, <1>4, <1>5, <1>6, <1>7, <1>8 DEF Next

\* While the process lives, every step keeps every message sound.
LEMMA LiveStep ==
    LiveInv /\ [Next]_vars /\ crashes' = 0 => LiveInv'
<1> SUFFICES ASSUME LiveInv, [Next]_vars, crashes' = 0
             PROVE  LiveInv'
  OBVIOUS
<1>1. RuntimeInv /\ RowsBegun /\ Up /\ \A m \in Messages : Sound(m)
  BY DEF LiveInv
<1>2. RuntimeInv' /\ RowsBegun'
  BY <1>1, RuntimeStep, RowsBegunStep
<1>3. CASE UNCHANGED <<queueVars, rowState, retryJob, run, rerunRequested, intake, posted, lost>>
  <2>1. UNCHANGED <<run, running, lanes, seen>>
    BY <1>3 DEF queueVars
  <2>2. ASSUME NEW m \in Messages
        PROVE  Sound(m)'
    <3>1. /\ Sound(m) /\ UNCHANGED <<rerunRequested, lost>>
          /\ rowState'[m] = rowState[m] /\ retryJob'[m] = retryJob[m]
          /\ (m \in intake' <=> m \in intake) /\ (m \in posted' <=> m \in posted)
      BY <1>1, <1>3
    <3>2. QED
      BY <2>1, <3>1, StillSound
  <2>3. QED
    BY <1>1, <1>2, <2>2, StaysUp DEF LiveInv
<1>4. ASSUME \A m \in Messages : Sound(m)'
      PROVE  LiveInv'
  BY <1>1, <1>2, <1>4, StaysUp DEF LiveInv
<1>5. CASE DrainQueue
  BY <1>1, <1>4, <1>5, DrainSound
<1>6. CASE \E key \in Keys : ProcessStep(key) /\ ElsewhereUnchanged
  BY <1>1, <1>4, <1>6, ProcessSound
<1>7. CASE \E key \in Keys : SwitchWorkflow(key)
  BY <1>1, <1>4, <1>7, SwitchSound
<1>8. CASE \E d \in Drains : RetryRunner(d)
  BY <1>1, <1>4, <1>8, RunnerSound
<1>9. CASE \E m \in Messages : Post(m) \/ IntakeEnds(m) \/ Clock(m)
  BY <1>1, <1>4, <1>9, IntakeSound
<1>10. QED
  BY <1>1, <1>3, <1>5, <1>6, <1>7, <1>8, <1>9, StaysUp

\* A started bot on a quiet server is sound.
LEMMA InitLive == Init => LiveInv
<1> SUFFICES ASSUME Init
             PROVE  LiveInv
  OBVIOUS
<1>1. RuntimeInv /\ RowsBegun
  BY InitRuntime, InitCharges
<1>2. Up
  BY DEF Init, Up
<1>3. ASSUME NEW m \in Messages
      PROVE  Sound(m)
  <2>1. rowState[m] = "none" /\ seen[m] = 0 /\ m \notin intake /\ m \notin posted
    BY IdsAreMessages DEF Init, StoreInit, QueueInit
  <2>2. ASSUME NEW source \in Sources
        PROVE  ~(Pending(m, source) > 0)
    <3>1. ChannelOf[m] \in Keys
      BY MessageItems
    <3>2. lanes[ChannelOf[m]] = <<>> /\ run[ChannelOf[m]].phase = "idle"
      BY <3>1 DEF Init, QueueInit, NoRun
    <3>3. ~Submitted(m, source)
      BY <2>2, <3>2, ItemOf DEF Submitted, Queued
    <3>4. QED
      BY <1>1, <2>2, <3>3, PendingIsSubmitted
  <2>3. OneInFlight(m)
    BY <2>2 DEF OneInFlight, Sources
  <2>4. QED
    BY <2>1, <2>3 DEF Sound, RowHeld, RunHeld
<1>4. QED
  BY <1>1, <1>2, <1>3 DEF LiveInv

\* Until the process first dies, the invariant of a living process holds.
FirstLife == RuntimeInv /\ (crashes = 0 => LiveInv)

\* No step takes a crash back.
LEMMA FirstLifeStep == FirstLife /\ [Next]_vars => FirstLife'
<1> SUFFICES ASSUME FirstLife, [Next]_vars
             PROVE  FirstLife'
  OBVIOUS
<1>1. RuntimeInv /\ RuntimeInv'
  BY RuntimeStep DEF FirstLife
<1>2. ASSUME crashes' = 0
      PROVE  LiveInv'
  <2>1. crashes \in Nat
    BY <1>1, BoundsAssumption DEF RuntimeInv, TypeOK
  <2>2. ~Crash
    BY <1>2, <2>1 DEF Crash
  <2>3. crashes = 0
    BY <1>2, <2>2, StepsAreStoreEffects
  <2>4. QED
    BY <1>2, <2>3, LiveStep DEF FirstLife
<1>3. QED
  BY <1>1, <1>2 DEF FirstLife

\* In every behaviour of the runtime.
THEOREM FirstLifeIsSound == Spec => []FirstLife
<1>1. Init => FirstLife
  BY InitRuntime, InitLive DEF FirstLife
<1>2. QED
  BY <1>1, FirstLifeStep, PTL DEF Spec

\* Until the process first dies, a row waiting for a retry has its job: no
\* interleaving of runs, drains, reruns and submissions loses one.
THEOREM PendingRetriesKeepTheirJob == Spec => [](crashes = 0 => PendingRetryHasJob)
<1>1. FirstLife => (crashes = 0 => PendingRetryHasJob)
  BY DEF FirstLife, LiveInv, Sound, RowHeld, PendingRetryHasJob
<1>2. QED
  BY <1>1, FirstLifeIsSound, PTL

\* Until the process first dies, no row is left in one of the states processing,
\* rerun_requested and pending_retry (for the last, PendingRetriesKeepTheirJob)
\* without somebody who works on it or will: whatever the timing of lanes,
\* overlapping drains, switches, duplicate submissions and failing calls.
THEOREM EveryRowHasAnOwner == Spec => [](crashes = 0 => UnfinishedRowsHaveOwners)
<1>1. LiveInv => UnfinishedRowsHaveOwners
  <2> SUFFICES ASSUME LiveInv
               PROVE  UnfinishedRowsHaveOwners
    OBVIOUS
  <2>1. RuntimeInv /\ \A m \in Messages : Sound(m)
    BY DEF LiveInv
  <2>2. ProcessingIsWorkedOn
    BY <2>1, WorkingIsInProcess DEF ProcessingIsWorkedOn, Sound, RowHeld
  <2>3. RerunRequestedIsQueued
    <3>1. ASSUME NEW m \in Messages, rowState[m] = "rerun_requested"
          PROVE  Submitted(m, "workflow_switch_rerun")
      <4>1. Pending(m, "workflow_switch_rerun") > 0
        BY <2>1, <3>1, RerunsArePending DEF Sound, RowHeld
      <4>2. QED
        BY <2>1, <4>1, RerunsArePending, PendingIsSubmitted
    <3>2. QED
      BY <3>1 DEF RerunRequestedIsQueued
  <2>4. QED
    BY <2>1, <2>2, <2>3 DEF UnfinishedRowsHaveOwners, RuntimeInv
<1>2. FirstLife => (crashes = 0 => UnfinishedRowsHaveOwners)
  BY <1>1 DEF FirstLife
<1>3. QED
  BY <1>2, FirstLifeIsSound, PTL

\* Until the process first dies, the cursor of a channel passes no posted
\* message that nobody takes care of, so that a restart may skip what lies
\* before it but for what memory alone held.
THEOREM CursorsSkipNobody == Spec => [](crashes = 0 => CursorCoversOnlyOwned)
<1>1. LiveInv => CursorCoversOnlyOwned
  <2> SUFFICES ASSUME LiveInv, NEW m \in posted
               PROVE  Owned(m)
    BY DEF CursorCoversOnlyOwned
  <2>1. RuntimeInv /\ m \in Messages /\ Held(m)
    BY DEF LiveInv, RuntimeInv, TypeOK, Sound
  <2>2. QED
    BY <2>1, WorkingIsInProcess, PendingIsSubmitted DEF Held, Owned
<1>2. FirstLife => (crashes = 0 => CursorCoversOnlyOwned)
  BY <1>1 DEF FirstLife
<1>3. QED
  BY <1>2, FirstLifeIsSound, PTL

=============================================================================
