----------------------- MODULE MCOrderedMessageQueue -----------------------
(***************************************************************************)
(* Instance of OrderedMessageQueue for TLC.  Three keys compete for two    *)
(* slots; the first key owns two messages, so that lanes are sorted and    *)
(* extended while their loop runs; every item may be submitted again, the  *)
(* rerun also while its message is in flight.  The number of submissions   *)
(* is the only bound.                                                      *)
(***************************************************************************)
EXTENDS OrderedMessageQueue

CONSTANT MaxSubmissions

VARIABLE submissions

MCItems ==
    {[messageId |-> 1, orderingKey |-> "a", source |-> "live"],
     [messageId |-> 3, orderingKey |-> "a", source |-> "live"],
     [messageId |-> 3, orderingKey |-> "a", source |-> "workflow_switch_rerun"],
     [messageId |-> 2, orderingKey |-> "b", source |-> "live"],
     [messageId |-> 2, orderingKey |-> "b", source |-> "workflow_switch_rerun"],
     [messageId |-> 4, orderingKey |-> "c", source |-> "live"]}

MCRepeatable == {item \in MCItems : item.source = "workflow_switch_rerun"}

MCInit == QueueInit /\ submissions = 0

MCNext ==
    \/ /\ submissions < MaxSubmissions
       /\ submissions' = submissions + 1
       /\ \E item \in Items : Enqueue(item)
    \/ Drain /\ UNCHANGED submissions
    \/ \E key \in Keys : WorkerSettles(key) /\ UNCHANGED submissions

MCSpec == MCInit /\ [][MCNext]_<<queueVars, submissions>> /\ QueueFairness
=============================================================================
