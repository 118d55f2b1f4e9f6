------------------------ MODULE OrderedMessageQueue ------------------------
(***************************************************************************)
(* The in-memory work queue of the bot (queue/ordered-message-queue.ts).   *)
(* Items are kept in one lane per ordering key (a Discord channel), each   *)
(* lane sorted by message snowflake.  At most MaxConcurrentKeys lanes are  *)
(* worked at a time, each by one asynchronous loop.  JavaScript runs one   *)
(* callback at a time, so every action below is the code between two       *)
(* awaits: enqueue, the drain microtask, and the rest of runLane after the *)
(* promise of the worker settles.                                          *)
(***************************************************************************)
EXTENDS Integers, Sequences, FiniteSets

CONSTANTS Keys,               \* ordering keys
          Items,              \* the items callers may submit
          Repeatable,         \* those submitted with allowDuplicateMessageId
          MaxConcurrentKeys,  \* constructor argument, 4 by default
          None                \* no item

MessageIds == {it.messageId : it \in Items}

ASSUME KeysAssumption ==
    IsFiniteSet(Keys)
ASSUME ItemsAssumption ==
    \A it \in Items : it.messageId \in Nat /\ it.orderingKey \in Keys
ASSUME RepeatableAssumption ==
    Repeatable \subseteq Items
ASSUME ConcurrencyAssumption ==
    MaxConcurrentKeys \in Nat \ {0}
ASSUME NoneAssumption ==
    None \notin Items

VARIABLES seen,            \* id -> accepted items of that id not yet settled
          lanes,           \* key -> queued items, the head is next
          activeKeys,      \* keys whose lane loop is running
          running,         \* key -> the item its worker awaits, or None
          drainScheduled   \* a drain microtask is pending

queueVars == <<seen, lanes, activeKeys, running, drainScheduled>>

QueueTypeOK ==
    /\ seen \in [MessageIds -> Nat]
    /\ lanes \in [Keys -> Seq(Items)]
    /\ activeKeys \in SUBSET Keys
    /\ running \in [Keys -> Items \cup {None}]
    /\ drainScheduled \in BOOLEAN

QueueInit ==
    /\ seen = [id \in MessageIds |-> 0]
    /\ lanes = [key \in Keys |-> <<>>]
    /\ activeKeys = {}
    /\ running = [key \in Keys |-> None]
    /\ drainScheduled = FALSE

-----------------------------------------------------------------------------
\* Snowflakes are compared as integers (BigInt), never as strings.
Before(left, right) == left.messageId < right.messageId

\* Mutant of SortedPositions: push without sort.
PushedPositions(lane, item) == {Len(lane)}

\* Where push-then-stable-sort leaves a new item of a sorted lane: after n
\* items, all those that do not compare greater.
SortedPositions(lane, item) ==
    {n \in 0..Len(lane) :
        \A i \in 1..Len(lane) : (i <= n) <=> ~Before(item, lane[i])}

InsertAfter(lane, n, item) ==
    [i \in 1..Len(lane) + 1 |->
        IF i <= n THEN lane[i] ELSE IF i = n + 1 THEN item ELSE lane[i - 1]]

\* Mutant of Refused: the running item is forgotten, only queued ones count.
RefusedIfQueued(item) ==
    /\ \E i \in 1..Len(lanes[item.orderingKey]) :
          lanes[item.orderingKey][i].messageId = item.messageId
    /\ item \notin Repeatable

Refused(item) == seen[item.messageId] > 0 /\ item \notin Repeatable

\* enqueue returning true; a refused item leaves the queue as it is.
Enqueue(item) ==
    /\ ~Refused(item)
    /\ seen' = [seen EXCEPT ![item.messageId] = @ + 1]
    /\ \E n \in SortedPositions(lanes[item.orderingKey], item) :
          lanes' = [lanes EXCEPT ![item.orderingKey] = InsertAfter(@, n, item)]
    /\ drainScheduled' = TRUE
    /\ UNCHANGED <<activeKeys, running>>

-----------------------------------------------------------------------------
\* Keys selectNextKey may return: work queued and no loop running.
Waiting == {key \in Keys \ activeKeys : lanes[key] # <<>>}

FreeSlots == MaxConcurrentKeys - Cardinality(activeKeys)

\* The keys the while loop of drain starts: as many waiting keys as there are
\* free slots, those with the smallest heads first.
Selections ==
    {S \in SUBSET Waiting :
        /\ Cardinality(S) <= FreeSlots
        /\ S = Waiting \/ Cardinality(S) = FreeSlots
        /\ \A chosen \in S, other \in Waiting \ S :
              ~Before(Head(lanes[other]), Head(lanes[chosen]))}

\* The drain microtask.  runLane shifts the head and calls the worker before
\* it first awaits, so the started items run at the end of the step.
Drain ==
    /\ drainScheduled
    /\ drainScheduled' = FALSE
    /\ \E S \in Selections :
          /\ activeKeys' = activeKeys \cup S
          /\ running' = [key \in Keys |->
                IF key \in S THEN Head(lanes[key]) ELSE running[key]]
          /\ lanes' = [key \in Keys |->
                IF key \in S THEN Tail(lanes[key]) ELSE lanes[key]]
    /\ UNCHANGED seen

-----------------------------------------------------------------------------
\* Mutant of ReleaseSeen: the entry is deleted whatever its count.
ForgetSeen(id) == seen' = [seen EXCEPT ![id] = 0]

\* releaseSeen: the count, or the deletion of an entry that reached one.
ReleaseSeen(id) ==
    seen' = [seen EXCEPT ![id] = IF @ <= 1 THEN 0 ELSE @ - 1]

\* Mutant of OtherLaneQueued: only the lane that ends is looked at.
OwnLaneQueued(key) == lanes[key] # <<>>

\* size > 0 once this lane is empty.
OtherLaneQueued(key) == \E other \in Keys \ {key} : lanes[other] # <<>>

LeaveActive(key) == activeKeys' = activeKeys \ {key}

\* The worker of key settles (resolved or rejected, the catch is empty), its
\* lane holds more work: the loop takes the next item.
SettleAndContinue(key) ==
    /\ running[key] # None
    /\ lanes[key] # <<>>
    /\ ReleaseSeen(running[key].messageId)
    /\ running' = [running EXCEPT ![key] = Head(lanes[key])]
    /\ lanes' = [lanes EXCEPT ![key] = Tail(@)]
    /\ UNCHANGED <<activeKeys, drainScheduled>>

\* The worker of key settles and its lane is empty: the loop ends, and a drain
\* is scheduled if any lane still holds work.
SettleAndExit(key) ==
    /\ running[key] # None
    /\ lanes[key] = <<>>
    /\ ReleaseSeen(running[key].messageId)
    /\ running' = [running EXCEPT ![key] = None]
    /\ LeaveActive(key)
    /\ drainScheduled' = (drainScheduled \/ OtherLaneQueued(key))
    /\ UNCHANGED lanes

WorkerSettles(key) == SettleAndContinue(key) \/ SettleAndExit(key)

QueueNext ==
    \/ \E item \in Items : Enqueue(item)
    \/ Drain
    \/ \E key \in Keys : WorkerSettles(key)

QueueSpec == QueueInit /\ [][QueueNext]_queueVars

\* The microtask queue runs, and every worker promise settles.
QueueFairness ==
    /\ WF_queueVars(Drain)
    /\ \A key \in Keys : WF_queueVars(WorkerSettles(key))

-----------------------------------------------------------------------------
(***************************************************************************)
(* Properties.                                                             *)
(***************************************************************************)

\* A lane is active exactly while its loop awaits a worker: no slot leaks and
\* no worker runs outside the accounting of drain.
ActiveIffRunning == \A key \in Keys : key \in activeKeys <=> running[key] # None

\* At most maxConcurrentKeys workers run at once.
ConcurrencyBound == Cardinality(activeKeys) <= MaxConcurrentKeys

\* No lost wakeup: whenever a lane holds work and no loop runs it, a drain is
\* pending, or every slot is taken, so that a loop that ends will schedule one.
NoLostWakeup ==
    \A key \in Keys :
        lanes[key] # <<>> /\ key \notin activeKeys
            => drainScheduled \/ Cardinality(activeKeys) = MaxConcurrentKeys

\* Lanes stay sorted by snowflake, whatever order items were submitted in.
LanesSorted ==
    \A key \in Keys : \A i, j \in 1..Len(lanes[key]) :
        i < j => ~Before(lanes[key][j], lanes[key][i])

(***************************************************************************)
(* The invariant of the queue: types, slots, wakeups and order together.   *)
(* NoLostWakeup is inductive only with ActiveIffRunning: a lane that exits *)
(* leaves a pending drain or another active lane behind.                   *)
(***************************************************************************)
QueueInv ==
    /\ QueueTypeOK
    /\ ActiveIffRunning
    /\ ConcurrencyBound
    /\ NoLostWakeup
    /\ LanesSorted

Queued(item) ==
    \E i \in 1..Len(lanes[item.orderingKey]) : lanes[item.orderingKey][i] = item

\* The two places an item of this id can be in flight: queued and running.
QueuedWith(id) ==
    UNION {{<<key, i>> : i \in {j \in 1..Len(lanes[key]) :
                                   lanes[key][j].messageId = id}} : key \in Keys}

RunningWith(id) ==
    {key \in Keys : running[key] # None /\ running[key].messageId = id}

\* The duplicate filter is exact: seen counts the items of an id that are
\* queued or running, so an id is refused exactly while one is in flight, and
\* the entry of an id disappears with its last item (no leak).
SeenCountsInFlight ==
    \A id \in MessageIds :
        seen[id] = Cardinality(QueuedWith(id)) + Cardinality(RunningWith(id))

\* A loop never starts an item while its lane holds an older one.
StartsInOrder ==
    [][\A key \in Keys :
          running'[key] # running[key] /\ running'[key] # None =>
            \A i \in 1..Len(lanes'[key]) : ~Before(lanes'[key][i], running'[key])
      ]_queueVars

-----------------------------------------------------------------------------
\* What the queue promises to its callers: see SerialExecutor.
Executor == INSTANCE SerialExecutor WITH
    waiting <- [item \in Items |->
        Cardinality({i \in 1..Len(lanes[item.orderingKey]) :
                        lanes[item.orderingKey][i] = item})],
    executing <- running

ImplementsExecutor == Executor!ExecutorSpec
=============================================================================
