--------------------------- MODULE MCCodexClient ---------------------------
\* Two turns, on one thread or on two.
EXTENDS CodexAppServerClient

CONSTANTS t1, t2, th, uh

MCTurns == {t1, t2}
MCThreads == {th, uh}
MCSessions == {[t \in MCTurns |-> th], [t \in MCTurns |-> IF t = t1 THEN th ELSE uh]}
=============================================================================
