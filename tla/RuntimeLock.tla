---------------------------- MODULE RuntimeLock ----------------------------
(***************************************************************************)
(* The lock that keeps a second bot process from running on the same       *)
(* database (AppRuntimeLockRepository, and its use in BotApplication).     *)
(* One row names its holder and the holder's pid and carries a lease that  *)
(* a timer renews.  A process that finds the row taken gives up; the       *)
(* supervisor starts it again.  The processes share one host: the code     *)
(* tests with kill(pid, 0) whether the holder lives.                       *)
(***************************************************************************)
EXTENDS Integers, FiniteSets

CONSTANTS Processes,     \* node processes, each with its runtimeInstanceId
          Pids,          \* process ids of the host
          NoRow,
          MaxStrangers   \* bound: other programs that get a pid

VARIABLES row,        \* app_runtime_lock: its holder, pid and live lease, or NoRow
          step,       \* process -> "new", "active", "stopping" or "gone"
          pid,        \* process -> the pid it was last started with
          strangers,  \* pids of other programs of the host
          lapsed      \* history: processes whose lease ran out unrenewed

vars == <<row, step, pid, strangers, lapsed>>

Rows == [holder : Processes, pid : Pids, live : BOOLEAN]

ASSUME NoRowAssumption == NoRow \notin Rows

TypeOK ==
    /\ row \in Rows \cup {NoRow}
    /\ step \in [Processes -> {"new", "active", "stopping", "gone"}]
    /\ pid \in [Processes -> Pids]
    /\ strangers \in SUBSET Pids
    /\ lapsed \in SUBSET Processes

Init ==
    /\ row = NoRow
    /\ step = [p \in Processes |-> "new"]
    /\ pid \in [Processes -> Pids]
    /\ strangers = {}
    /\ lapsed = {}

-----------------------------------------------------------------------------
Alive(p) == step[p] \in {"active", "stopping"}

Used(k) == k \in strangers \/ \E p \in Processes : Alive(p) /\ pid[p] = k

\* Mutant of HeldByOther: a holder whose pid lives keeps the row for ever.
HeldByLiving(k) == row # NoRow /\ row.pid # k /\ Used(row.pid)

\* tryAcquire returns false: the lease is live and so is the process with the
\* holder's pid, as far as kill(pid, 0) can tell.
HeldByOther(k) == row # NoRow /\ row.pid # k /\ row.live /\ Used(row.pid)

\* start(): the process has a fresh pid; tryAcquire takes the row, or start()
\* fails, nothing has changed, and the supervisor starts a process again.
Start(p) ==
    /\ step[p] = "new"
    /\ \E k \in Pids :
          /\ ~Used(k)
          /\ ~HeldByOther(k)
          /\ pid' = [pid EXCEPT ![p] = k]
          /\ row' = [holder |-> p, pid |-> k, live |-> TRUE]
    /\ step' = [step EXCEPT ![p] = "active"]
    /\ UNCHANGED <<strangers, lapsed>>

\* Another program of the host gets a pid, perhaps that of a dead holder.
StrangerStarts(k) ==
    /\ ~Used(k)
    /\ Cardinality(strangers) < MaxStrangers
    /\ strangers' = strangers \cup {k}
    /\ UNCHANGED <<row, step, pid, lapsed>>

\* Mutant of Renewable: the UPDATE without "AND instance_id = ?".
AnyRenewable(p) == row # NoRow

Renewable(p) == row # NoRow /\ row.holder = p

\* The heartbeat timer.  When the row is another's, renew changes nothing and
\* its result is not looked at: the process goes on.
Heartbeat(p) ==
    /\ step[p] = "active"
    /\ Renewable(p)
    /\ row' = [row EXCEPT !.pid = pid[p], !.live = TRUE]
    /\ lapsed' = lapsed \ {p}
    /\ UNCHANGED <<step, pid, strangers>>

\* Thirty seconds pass without a renewal: a stalled event loop, a failing
\* database, or a holder that is gone.
LeaseLapses ==
    /\ row # NoRow
    /\ row.live
    /\ row' = [row EXCEPT !.live = FALSE]
    /\ lapsed' = lapsed \cup {row.holder}
    /\ UNCHANGED <<step, pid, strangers>>

\* Mutants of Release: the DELETE without "AND instance_id = ?"; the row is
\* emptied instead of deleted.
ReleaseAny(p) == row' = NoRow

Release(p) == row' = IF row # NoRow /\ row.holder = p THEN NoRow ELSE row

\* stop() releases the row first, an error of which it swallows, and then
\* closes the Codex client, the Discord client and the database.
BeginStop(p) ==
    /\ step[p] = "active"
    /\ step' = [step EXCEPT ![p] = "stopping"]
    /\ Release(p) \/ UNCHANGED row
    /\ UNCHANGED <<pid, strangers, lapsed>>

EndStop(p) ==
    /\ step[p] = "stopping"
    /\ step' = [step EXCEPT ![p] = "gone"]
    /\ UNCHANGED <<row, pid, strangers, lapsed>>

\* The process dies; its row stays.
Die(p) ==
    /\ Alive(p)
    /\ step' = [step EXCEPT ![p] = "gone"]
    /\ UNCHANGED <<row, pid, strangers, lapsed>>

Next ==
    \/ \E p \in Processes :
          Start(p) \/ Heartbeat(p) \/ BeginStop(p) \/ EndStop(p) \/ Die(p)
    \/ \E k \in Pids : StrangerStarts(k)
    \/ LeaseLapses

\* The supervisor keeps starting processes, a stop ends, and a lease nobody
\* renews runs out.  Heartbeats may be late.
Fairness ==
    /\ \A p \in Processes : WF_vars(Start(p)) /\ WF_vars(EndStop(p))
    /\ WF_vars(LeaseLapses /\ step[row.holder] = "gone")

Spec == Init /\ [][Next]_vars

FairSpec == Spec /\ Fairness

-----------------------------------------------------------------------------
(***************************************************************************)
(* Properties.                                                             *)
(***************************************************************************)

\* A process that renews in time keeps the row, with its own pid, whatever
\* other processes start, stop, die or renew late.
InTimeKeepsRow ==
    \A p \in Processes :
        step[p] = "active" /\ p \notin lapsed =>
            row = [holder |-> p, pid |-> pid[p], live |-> TRUE]

\* The invariant of the lock, inductive as it stands.
LockInv == TypeOK /\ InTimeKeepsRow

\* Two processes are active together only while one of them is late: the lock
\* excludes as long as heartbeats are in time.
ExclusiveWhileInTime ==
    \A p, q \in Processes :
        step[p] = "active" /\ step[q] = "active" /\ p # q => p \in lapsed \/ q \in lapsed

\* A process that died with the row does not keep the bot down: the next one
\* gets in once the lease has run out, at once if the pid is free.
DeadHolderIsReplaced ==
    (\A p \in Processes : step[p] \in {"new", "gone"}) /\ (\E p \in Processes : step[p] = "new")
        ~> (\E p \in Processes : step[p] = "active")
=============================================================================
