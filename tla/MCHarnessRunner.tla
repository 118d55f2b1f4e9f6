--------------------------- MODULE MCHarnessRunner ---------------------------
EXTENDS HarnessRunner

CONSTANTS root, follow, a

\* A shared link and a message in the thread it opens; what is stored for the first is
\* visible in the thread by its link only.
MCHome == [m \in Messages |-> IF m = follow THEN root ELSE None]
MCChannel == [m \in Messages |-> "knowledge"]
MCScope == [m \in Messages |-> "conversation_only"]
MCUrls == [m \in Messages |-> IF m = root THEN {a} ELSE {}]
=============================================================================
