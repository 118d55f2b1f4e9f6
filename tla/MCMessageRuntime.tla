-------------------------- MODULE MCMessageRuntime --------------------------
(***************************************************************************)
(* Instances of MessageRuntime for TLC; the cfg files choose the number of *)
(* messages, channels and drains, and how much may go wrong.               *)
(***************************************************************************)
EXTENDS MessageRuntime

MCItems == {QueueItem(m, s) : m \in Messages, s \in Sources}

MCRepeatable == {item \in MCItems : item.source = "workflow_switch_rerun"}

\* All messages in one channel, or the second one in a channel of its own.
OneChannel == [m \in Messages |-> "c1"]
TwoChannels == [m \in Messages |-> IF m = 2 THEN "c2" ELSE "c1"]
=============================================================================
