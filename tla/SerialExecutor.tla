--------------------------- MODULE SerialExecutor ---------------------------
(***************************************************************************)
(* What OrderedMessageQueue promises, without its data structures: a bag   *)
(* of accepted items; one item of a key executes at a time, at most        *)
(* MaxConcurrentKeys in all; a key executes its oldest accepted item next; *)
(* an item whose message is in flight is refused unless it is repeatable;  *)
(* and no accepted item waits for ever.                        *)
(***************************************************************************)
EXTENDS Integers, FiniteSets

CONSTANTS Keys, Items, Repeatable, MaxConcurrentKeys, None

VARIABLES waiting,     \* how many times each item is accepted and not started
          executing    \* key -> the item that executes, or None

vars == <<waiting, executing>>

Idle(key) == executing[key] = None
HasWork(key) == \E item \in Items : item.orderingKey = key /\ waiting[item] > 0

MessageInFlight(id) ==
    \E item \in Items :
        item.messageId = id /\ (waiting[item] > 0 \/ executing[item.orderingKey] = item)

Oldest(key) ==
    {item \in Items :
        /\ item.orderingKey = key
        /\ waiting[item] > 0
        /\ \A other \in Items :
              other.orderingKey = key /\ waiting[other] > 0
                  => item.messageId <= other.messageId}

Busy(assignment) == {key \in Keys : assignment[key] # None}

Taken(S) == [item \in Items |->
    IF item.orderingKey \in S /\ executing'[item.orderingKey] = item
    THEN waiting[item] - 1 ELSE waiting[item]]

Init ==
    /\ waiting = [item \in Items |-> 0]
    /\ executing = [key \in Keys |-> None]

Submit(item) ==
    /\ item \in Repeatable \/ ~MessageInFlight(item.messageId)
    /\ waiting' = [waiting EXCEPT ![item] = @ + 1]
    /\ UNCHANGED executing

\* Some idle keys with work start their oldest item.
Begin(S) ==
    /\ S # {}
    /\ \A key \in S : Idle(key) /\ HasWork(key)
    /\ Cardinality(Busy(executing)) + Cardinality(S) <= MaxConcurrentKeys
    /\ \E choice \in [S -> Items] :
          /\ \A key \in S : choice[key] \in Oldest(key)
          /\ executing' = [key \in Keys |->
                IF key \in S THEN choice[key] ELSE executing[key]]
    /\ waiting' = Taken(S)

\* The item of a key ends; the key goes on with its oldest item or turns idle.
Finish(key) ==
    /\ ~Idle(key)
    /\ \E next \in Oldest(key) \cup {None} :
          /\ executing' = [executing EXCEPT ![key] = next]
          /\ waiting' = [item \in Items |->
                IF item = next THEN waiting[item] - 1 ELSE waiting[item]]

Next ==
    \/ \E item \in Items : Submit(item)
    \/ \E S \in SUBSET Keys : Begin(S)
    \/ \E key \in Keys : Finish(key)

ExecutorSpec ==
    /\ Init /\ [][Next]_vars
    /\ WF_vars(\E S \in SUBSET Keys : Begin(S))
    /\ \A key \in Keys : WF_vars(Finish(key))
=============================================================================
