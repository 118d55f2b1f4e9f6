---------------------------- MODULE ForumResearch ----------------------------
(***************************************************************************)
(* The research pipeline of one forum thread: the prompt is refined, a     *)
(* supervisor launches rounds of parallel workers, their packets go into   *)
(* the persisted source catalog, a final turn writes the answer.           *)
(*                                                                         *)
(* The messages of the thread take turns in the ordered queue; a failed    *)
(* run is tried again.  The supervisor, the workers and Discord are        *)
(* external; what they may do wrong is charged to MaxFaults.               *)
(***************************************************************************)
EXTENDS Integers, FiniteSets, Sequences, SequencesExt

CONSTANTS Messages, Directed, \* messages of the thread, and those addressed to the bot
          WorkerIds, Urls,    \* ids the supervisor gives its tasks, sources
          Slots, None,        \* ephemeral threads of workers
          MaxWorkers,         \* FORUM_RESEARCH_MAX_WORKERS
          MaxRounds, MaxFaults \* bounds

ASSUME ForumAssumption ==
    /\ Directed \subseteq Messages /\ None \notin Messages \cup WorkerIds
    /\ MaxWorkers \in Nat \ {0} /\ MaxRounds \in Nat /\ MaxFaults \in Nat
    /\ IsFiniteSet(Slots)

VARIABLES
    catalog,   \* forum_research_state.source_catalog: its order numbers the citations
    artifact,  \* the message the stored prompt artifact was refined from
    status,    \* message -> waiting, answered or ended
    run,       \* the run of the pipeline that is on its way
    worker,    \* ephemeral thread -> its worker
    collected, \* history: sources of the packets a run has taken in
    answered,  \* history: message -> the catalog its answer was written with
    faults

vars == <<catalog, artifact, status, run, worker, collected, answered, faults>>

Phases == {"idle", "refine", "decide", "launch", "collect", "final", "recover"}

Runs == [at : Phases, msg : Messages \cup {None}, prompt : Messages \cup {None},
         known : Seq(Urls), used : SUBSET WorkerIds, rounds : 0..MaxRounds]

Workers == [at : {"free", "opening", "starting", "running", "packet", "failed", "leaked"},
            id : WorkerIds \cup {None}, mine : BOOLEAN]

TypeOK ==
    /\ catalog \in Seq(Urls) /\ Cardinality(ToSet(catalog)) = Len(catalog)
    /\ artifact \in Messages \cup {None}
    /\ status \in [Messages -> {"waiting", "answered", "ended"}]
    /\ run \in Runs
    /\ worker \in [Slots -> Workers]
    /\ collected \subseteq Urls
    /\ answered \in [Messages -> Seq(Urls)]
    /\ faults \in 0..MaxFaults

Idle == [at |-> "idle", msg |-> None, prompt |-> None, known |-> <<>>, used |-> {}, rounds |-> 0]
Free == [at |-> "free", id |-> None, mine |-> FALSE]

Init ==
    /\ catalog = <<>> /\ artifact = None
    /\ status = [m \in Messages |-> "waiting"]
    /\ run = Idle
    /\ worker = [w \in Slots |-> Free]
    /\ collected = {}
    /\ answered = [m \in Messages |-> <<>>]
    /\ faults = 0

-----------------------------------------------------------------------------
Fault == faults < MaxFaults /\ faults' = faults + 1

Mine == {w \in Slots : worker[w].mine}
FreeSlots == {w \in Slots : worker[w].at = "free"}

\* A run that throws leaves its workers to themselves; the message is tried again.
Disowned == [w \in Slots |->
               IF worker[w].at \in {"packet", "failed"} THEN Free
               ELSE [worker[w] EXCEPT !.mine = FALSE]]
Throws == run' = Idle /\ UNCHANGED <<status, answered>>

Concludes(how) ==
    /\ run' = Idle
    /\ status' = [status EXCEPT ![run.msg] = how]

Begin(m) ==
    /\ run.at = "idle" /\ status[m] = "waiting"
    /\ run' = [Idle EXCEPT !.at = "refine", !.msg = m]
    /\ UNCHANGED <<catalog, artifact, status, worker, collected, answered, faults>>

\* shouldRefreshForumPromptArtifact.
Refresh(m) == m \in Directed

\* ForumResearchPromptRefiner: a prompt for this message.
Refined(m) == m

\* loadPersistedState: the stored catalog, or an empty one.
Loaded == catalog

\* loadOrCreatePromptArtifact and loadPersistedState; the artifact is stored before
\* the progress notice that may throw.
RefinePrompt ==
    /\ run.at = "refine"
    /\ LET reuse == artifact # None /\ ~Refresh(run.msg)
           next == IF reuse THEN artifact ELSE Refined(run.msg) IN
       \/ /\ artifact' = next
          /\ run' = [run EXCEPT !.at = "decide", !.prompt = next, !.known = Loaded]
          /\ UNCHANGED <<status, answered, faults>>
       \/ Fault /\ artifact' \in {artifact, next} /\ Throws
    /\ UNCHANGED <<catalog, worker, collected>>

Finalize ==
    /\ run.at = "decide"
    /\ run' = [run EXCEPT !.at = "final"]
    /\ UNCHANGED <<catalog, artifact, status, worker, collected, answered, faults>>

\* The tasks of a decision, each on a slot of its own; which slots does not matter.
Batches ==
    {S \in SUBSET FreeSlots :
        /\ Cardinality(S) \in 1..MaxWorkers
        /\ S = CHOOSE T \in SUBSET FreeSlots : Cardinality(T) = Cardinality(S)}

Launched(ids, mine) ==
    [w \in Slots |-> IF w \in DOMAIN ids THEN [at |-> "opening", id |-> ids[w], mine |-> mine]
                     ELSE worker[w]]

\* applySupervisorDecision with launch_workers: the tasks start in parallel.  A task
\* with an id of an earlier round throws, and those beside it start all the same.
LaunchWorkers ==
    /\ run.at = "decide" /\ run.rounds < MaxRounds
    /\ \E S \in Batches : \E ids \in [S -> WorkerIds] :
         LET fresh == {w \in S : ids[w] \notin run.used} IN
         \/ /\ fresh = S
            /\ IF IsInjective(ids) THEN UNCHANGED faults ELSE Fault
            /\ worker' = Launched(ids, TRUE)
            /\ run' = [run EXCEPT !.at = "launch", !.rounds = @ + 1]
            /\ UNCHANGED <<status, answered>>
         \/ /\ fresh # S
            /\ Fault
            /\ worker' = Launched([w \in fresh |-> ids[w]], FALSE)
            /\ Throws
    /\ UNCHANGED <<catalog, artifact, collected>>

\* The supervisor's turn fails, or its decision is refused: too many tasks, none,
\* some while finalizing, or an interrupt, as no worker is active when it is asked.
DecisionFails ==
    /\ run.at = "decide"
    /\ Fault
    /\ Throws
    /\ UNCHANGED <<catalog, artifact, worker, collected>>

Becomes(w, at) == [worker EXCEPT ![w].at = at]

OpenThread(w) ==
    /\ worker[w].at = "opening"
    /\ worker' = Becomes(w, "starting")
    /\ UNCHANGED <<catalog, artifact, status, run, collected, answered, faults>>

\* The map of active workers has one entry for an id: the last one set.
Kept == {w \in Mine : w = CHOOSE v \in Mine : worker[v].id = worker[w].id}

\* When the last one runs, Promise.all resolves and the workers are registered.
StartTurn(w) ==
    /\ worker[w].at = "starting"
    /\ IF worker[w].mine /\ \A v \in Mine \ {w} : worker[v].at \notin {"opening", "starting"}
       THEN /\ run' = [run EXCEPT !.at = "collect",
                                  !.used = @ \cup {worker[v].id : v \in Mine}]
            /\ worker' = [v \in Slots |->
                            [worker[v] EXCEPT !.at = IF v = w THEN "running" ELSE @,
                                              !.mine = v \in Kept]]
       ELSE worker' = Becomes(w, "running") /\ UNCHANGED run
    /\ UNCHANGED <<catalog, artifact, status, collected, answered, faults>>

\* startWorker throws, and with it the run that waits for it.  A thread whose turn
\* could not start is never closed.
StartFails(w) ==
    LET left == IF worker[w].at = "opening" THEN Free
                ELSE [at |-> "leaked", id |-> worker[w].id, mine |-> FALSE] IN
    /\ worker[w].at \in {"opening", "starting"}
    /\ Fault
    /\ IF worker[w].mine THEN Throws /\ worker' = [Disowned EXCEPT ![w] = left]
                         ELSE worker' = [worker EXCEPT ![w] = left]
                              /\ UNCHANGED <<run, status, answered>>
    /\ UNCHANGED <<catalog, artifact, collected>>

\* The completion of a worker: its turn has ended one way or another and its thread
\* is closed.
EndTurn(w) ==
    /\ worker[w].at = "running"
    /\ worker' = [worker EXCEPT
                    ![w] = IF @.mine THEN [@ EXCEPT !.at = "packet"] ELSE Free]
    /\ UNCHANGED <<catalog, artifact, status, run, collected, answered, faults>>

FailTurn(w) ==
    /\ worker[w].at = "running" /\ worker[w].mine
    /\ Fault
    /\ worker' = Becomes(w, "failed")
    /\ UNCHANGED <<catalog, artifact, status, run, collected, answered>>

\* What a worker cites: nothing, or one source.
Packets == {<<>>} \cup {<<u>> : u \in Urls}

\* Mutant of Merge: the sources are sorted by the latest packet.
MergeFirst(known, packet) ==
    packet \o SelectSeq(known, LAMBDA u : u \notin ToSet(packet))

\* buildSourceCatalog: what is new in a packet is added behind what is known.
Merge(known, packet) ==
    IF ToSet(packet) \subseteq ToSet(known) THEN known ELSE known \o packet

\* Mutant of Saved: the state is written when the run is through with its workers.
SavedLater(next) == IF Cardinality(Mine) = 1 THEN next ELSE catalog

\* persistCurrentResearchState, after each packet.
Saved(next) == next

\* Mutant of StillAwaited: the supervisor is asked after the first outcome.
AwaitedOnce(w) == {}

\* Mutant of StillAwaited: what has settled stays in the map.
AwaitedForEver(w) == Mine

StillAwaited(w) == Mine \ {w}

\* collectResearchState: the next worker of the round that has settled.
CollectNext(w) ==
    /\ run.at = "collect"
    /\ worker[w].mine /\ worker[w].at \in {"packet", "failed"}
    /\ worker' = [worker EXCEPT ![w] = Free]
    /\ LET at == IF StillAwaited(w) = {} THEN "decide" ELSE "collect" IN
       \/ /\ worker[w].at = "packet"
          /\ \E packet \in Packets :
               LET next == Merge(run.known, packet) IN
               /\ run' = [run EXCEPT !.at = at, !.known = next]
               /\ catalog' = Saved(next)
               /\ collected' = collected \cup ToSet(packet)
       \/ /\ worker[w].at = "failed"
          /\ run' = [run EXCEPT !.at = at]
          /\ UNCHANGED <<catalog, collected>>
    /\ UNCHANGED <<artifact, status, answered, faults>>

\* The answer is written with the numbered catalog and sent.
Answer ==
    /\ answered' = [answered EXCEPT ![run.msg] = run.known]
    /\ Concludes("answered")

\* runFinalStreamingTurn: an answer, an error that a second turn may mend, another one.
FinalTurn ==
    /\ run.at = "final"
    /\ \/ Answer /\ UNCHANGED faults
       \/ Fault /\ run' = [run EXCEPT !.at = "recover"] /\ UNCHANGED <<status, answered>>
       \/ Fault /\ Throws
    /\ UNCHANGED <<catalog, artifact, worker, collected>>

\* runVisibleStreamingRecovery: an answer, or a reply that says there is none; only
\* the status notice before it throws.
RecoverTurn ==
    /\ run.at = "recover"
    /\ \/ Answer /\ UNCHANGED faults
       \/ Fault /\ Concludes("ended") /\ UNCHANGED answered
       \/ Fault /\ Throws
    /\ UNCHANGED <<catalog, artifact, worker, collected>>

\* The process dies, its child and the threads with it; startup recovery submits the
\* message again.
Crash ==
    /\ Fault
    /\ run' = Idle
    /\ worker' = [w \in Slots |-> Free]
    /\ UNCHANGED <<catalog, artifact, status, collected, answered>>

WorkerStep(w) == OpenThread(w) \/ StartTurn(w) \/ EndTurn(w)
RunStep == RefinePrompt \/ Finalize \/ FinalTurn \/ RecoverTurn \/ \E w \in Slots : CollectNext(w)

Next ==
    \/ \E m \in Messages : Begin(m)
    \/ RunStep \/ LaunchWorkers \/ DecisionFails
    \/ \E w \in Slots : WorkerStep(w) \/ StartFails(w) \/ FailTurn(w)
    \/ Crash

\* Every turn ends, and a supervisor that has had its rounds finalizes: the rounds
\* are bounded here, the code does not bound them.
Fairness ==
    /\ WF_vars(\E m \in Messages : Begin(m))
    /\ WF_vars(RunStep)
    /\ \A w \in Slots : WF_vars(WorkerStep(w))

Spec == Init /\ [][Next]_vars /\ Fairness

-----------------------------------------------------------------------------
\* A citation number of an answer names the same source for ever: later runs,
\* retries and restarts only add behind it (persistCurrentResearchState).
NumbersKeepTheirMeaning == \A m \in Messages : IsPrefix(answered[m], catalog)

\* What a run has taken in is stored, whatever becomes of the run.
CollectedIsKept == collected \subseteq ToSet(catalog)

\* When the supervisor is asked and when the answer is written, no worker of the run
\* is left behind, unless a decision gave two tasks one id (the map of workers).
NobodyIsLeftBehind ==
    run.at \in {"decide", "final", "recover"} => Mine = {}

\* Each worker of a round that is awaited works for the run that launched it, and
\* there are never more than the limit.
AwaitedAreFew ==
    /\ Cardinality(Mine) <= MaxWorkers
    /\ run.at \in {"launch", "collect"} <=> Mine # {}

\* Who addresses the bot is answered with a prompt refined from the own message; the
\* stored one may be about an earlier message (loadOrCreatePromptArtifact).
DirectedPromptIsOwn ==
    run.at \notin {"idle", "refine"} /\ run.msg \in Directed => run.prompt = run.msg

\* The run and its workers: who is awaited, for which message, with which prompt.
RunInv == TypeOK /\ NobodyIsLeftBehind /\ AwaitedAreFew /\ DirectedPromptIsOwn

\* The catalog a run writes its answer with is the stored one.
KnownIsStored == run.at \notin {"idle", "refine"} => run.known = catalog

\* Who is awaited has been given an id.
AwaitedHaveIds == \A w \in Mine : worker[w].id \in WorkerIds

\* The inductive invariant of the pipeline.
ForumInv ==
    /\ RunInv /\ KnownIsStored /\ AwaitedHaveIds
    /\ NumbersKeepTheirMeaning /\ CollectedIsKept

\* Every message is answered or told that there is no answer: neither a failing or
\* lost worker nor a failed run holds the thread up.
EveryMessageConcludes == \A m \in Messages : <>(status[m] # "waiting")
=============================================================================
