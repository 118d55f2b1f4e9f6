------------------------ MODULE ForumResearch_proofs ------------------------
(***************************************************************************)
(* The research pipeline keeps its catalog and its workers together, for   *)
(* any messages, sources, worker ids, limit of workers, rounds and faults. *)
(*                                                                         *)
(* The argument has two halves.  A run that has loaded the catalog knows   *)
(* exactly the stored one, as it writes after each packet and the thread   *)
(* has one run at a time; so whatever it answers with is a prefix of all   *)
(* catalogs to come.  And the workers of a run are awaited in two phases   *)
(* only, which it leaves with none of them or by giving all of them up.    *)
(***************************************************************************)
EXTENDS ForumResearch, FiniteSetTheorems, TLAPS

USE ForumAssumption DEF Phases

\* A run that is over is well formed.
LEMMA IdleIsRun == Idle \in Runs /\ Idle.at = "idle" /\ Idle.known \in Seq(Urls)
  BY DEF Idle, Runs

-----------------------------------------------------------------------------
(* The catalog *)

\* What adding one source does to a list.
LEMMA Appended ==
    ASSUME NEW s \in Seq(Urls), NEW u \in Urls
    PROVE  /\ s \o <<u>> \in Seq(Urls) /\ Len(s \o <<u>>) = Len(s) + 1
           /\ ToSet(s \o <<u>>) = ToSet(s) \cup {u}
           /\ IsPrefix(s, s \o <<u>>)
<1>1. /\ s \o <<u>> \in Seq(Urls) /\ Len(s \o <<u>>) = Len(s) + 1
      /\ (s \o <<u>>)[Len(s) + 1] = u /\ \A i \in 1..Len(s) : (s \o <<u>>)[i] = s[i]
  OBVIOUS
<1>2. ToSet(s \o <<u>>) = ToSet(s) \cup {u}
  BY <1>1 DEF ToSet
<1>3. IsPrefix(s, s \o <<u>>)
  BY <1>1 DEF IsPrefix
<1>4. QED
  BY <1>1, <1>2, <1>3

\* Prefixes of prefixes are prefixes.
LEMMA PrefixTransitive ==
    ASSUME NEW s \in Seq(Urls), NEW t \in Seq(Urls), NEW v \in Seq(Urls),
           IsPrefix(s, t), IsPrefix(t, v)
    PROVE  IsPrefix(s, v)
<1>1. ASSUME NEW i \in 1..Len(s)
      PROVE  s[i] = v[i]
  <2>1. Len(s) <= Len(t) /\ SubSeq(s, 1, Len(s))[i] = SubSeq(t, 1, Len(s))[i]
    BY DEF IsPrefix
  <2>2. i \in 1..Len(t) /\ SubSeq(t, 1, Len(t))[i] = SubSeq(v, 1, Len(t))[i] /\ Len(t) <= Len(v)
    BY <2>1 DEF IsPrefix
  <2>3. QED
    BY <2>1, <2>2
<1>2. Len(s) <= Len(v)
  BY DEF IsPrefix
<1>3. QED
  BY <1>1, <1>2 DEF IsPrefix

\* A list is a prefix of itself, and the empty list of every one.
LEMMA PrefixReflexive ==
    ASSUME NEW s \in Seq(Urls)
    PROVE  IsPrefix(s, s) /\ IsPrefix(<<>>, s)
  BY DEF IsPrefix

\* A list names finitely many sources.
LEMMA ToSetIsFinite ==
    ASSUME NEW s \in Seq(Urls)
    PROVE  IsFiniteSet(ToSet(s))
<1>1. IsFiniteSet(1..Len(s))
  BY FS_Interval
<1>2. s \in Surjection(1..Len(s), ToSet(s))
  BY DEF Surjection, ToSet
<1>3. QED
  BY <1>1, <1>2, FS_Surjection

\* A packet adds at most its one source behind the catalog, and never twice.
LEMMA MergeAppends ==
    ASSUME NEW known \in Seq(Urls), Cardinality(ToSet(known)) = Len(known),
           NEW packet \in Packets
    PROVE  LET next == Merge(known, packet) IN
           /\ next \in Seq(Urls) /\ Cardinality(ToSet(next)) = Len(next)
           /\ ToSet(next) = ToSet(known) \cup ToSet(packet)
           /\ IsPrefix(known, next)
<1>1. CASE ToSet(packet) \subseteq ToSet(known)
  BY <1>1, PrefixReflexive DEF Merge
<1>2. CASE ~(ToSet(packet) \subseteq ToSet(known))
  <2>1. PICK u \in Urls : packet = <<u>>
    BY <1>2 DEF Packets, ToSet
  <2>2. ToSet(packet) = {u} /\ u \notin ToSet(known)
    BY <1>2, <2>1 DEF ToSet
  <2>3. Merge(known, packet) = known \o <<u>>
    BY <1>2, <2>1 DEF Merge
  <2>4. Cardinality(ToSet(known) \cup {u}) = Cardinality(ToSet(known)) + 1
    BY <2>2, ToSetIsFinite, FS_AddElement
  <2>5. QED
    BY <2>2, <2>3, <2>4, Appended
<1>3. QED
  BY <1>1, <1>2

\* No step disturbs the stored catalog: what a run knows is what is stored, and what was
\* answered or collected stays in it.
CatalogInv ==
    /\ catalog \in Seq(Urls) /\ Cardinality(ToSet(catalog)) = Len(catalog)
    /\ run.known \in Seq(Urls) /\ KnownIsStored
    /\ answered \in [Messages -> Seq(Urls)] /\ NumbersKeepTheirMeaning
    /\ collected \subseteq Urls /\ CollectedIsKept

\* Steps that leave the catalog alone and at most give the run up.
LEMMA CatalogKept ==
    ASSUME CatalogInv, UNCHANGED <<catalog, answered, collected>>,
           \/ run' = Idle
           \/ /\ run'.known = run.known
              /\ run'.at \notin {"idle", "refine"} => run.at \notin {"idle", "refine"}
    PROVE  CatalogInv'
<1>1. run'.known \in Seq(Urls)
  BY IdleIsRun DEF CatalogInv
<1>2. KnownIsStored'
  BY IdleIsRun DEF CatalogInv, KnownIsStored
<1>3. NumbersKeepTheirMeaning' /\ CollectedIsKept'
  BY DEF CatalogInv, NumbersKeepTheirMeaning, CollectedIsKept
<1>4. QED
  BY <1>1, <1>2, <1>3 DEF CatalogInv

\* The catalog lists each source once, keeps its numbers, and is what the run knows.
LEMMA CatalogStep ==
    ASSUME CatalogInv, run \in Runs, AwaitedAreFew, [Next]_vars
    PROVE  CatalogInv'
<1>1. ASSUME NEW m \in Messages, Begin(m)
      PROVE  CatalogInv'
  BY <1>1 DEF Begin, Idle, CatalogInv, KnownIsStored, NumbersKeepTheirMeaning, CollectedIsKept
<1>2. CASE RefinePrompt
  <2>1. UNCHANGED <<catalog, answered, collected>>
    BY <1>2 DEF RefinePrompt, Throws
  <2>2. CASE run' = Idle
    BY <2>1, <2>2, CatalogKept
  <2>3. ASSUME NEW next, run' = [run EXCEPT !.at = "decide", !.prompt = next, !.known = catalog]
        PROVE  CatalogInv'
    <3>1. run'.known = catalog
      BY <2>3 DEF Runs
    <3>2. QED
      BY <2>1, <3>1 DEF CatalogInv, KnownIsStored, NumbersKeepTheirMeaning, CollectedIsKept
  <2>4. QED
    BY <1>2, <2>2, <2>3 DEF RefinePrompt, Throws, Loaded
<1>3. CASE Finalize
  BY <1>3, CatalogKept DEF Finalize, Runs
<1>4. CASE LaunchWorkers
  <2>1. run.at = "decide" /\ UNCHANGED <<catalog, answered, collected>>
    BY <1>4 DEF LaunchWorkers, Throws
  <2>2. run' = Idle \/ run' = [run EXCEPT !.at = "launch", !.rounds = @ + 1]
    BY <1>4 DEF LaunchWorkers, Throws
  <2>3. QED
    BY <2>1, <2>2, CatalogKept DEF Runs
<1>5. CASE DecisionFails
  BY <1>5, CatalogKept DEF DecisionFails, Throws
<1>6. ASSUME NEW w \in Slots, CollectNext(w)
      PROVE  CatalogInv'
  <2>1. run.at = "collect" /\ run.known = catalog /\ UNCHANGED answered
    BY <1>6 DEF CollectNext, CatalogInv, KnownIsStored
  <2>2. CASE UNCHANGED <<catalog, collected>> /\ \E at \in Phases : run' = [run EXCEPT !.at = at]
    BY <2>1, <2>2, CatalogKept DEF Runs
  <2>3. ASSUME NEW packet \in Packets, NEW at \in Phases,
               run' = [run EXCEPT !.at = at, !.known = Merge(run.known, packet)],
               catalog' = Merge(run.known, packet), collected' = collected \cup ToSet(packet)
        PROVE  CatalogInv'
    <3>1. /\ catalog' \in Seq(Urls) /\ Cardinality(ToSet(catalog')) = Len(catalog')
          /\ ToSet(catalog') = ToSet(catalog) \cup ToSet(packet)
          /\ IsPrefix(catalog, catalog')
      BY <2>1, <2>3, MergeAppends DEF CatalogInv
    <3>2. run'.known = catalog'
      BY <2>3 DEF Runs
    <3>3. ASSUME NEW m \in Messages
          PROVE  IsPrefix(answered'[m], catalog')
      <4>1. answered'[m] = answered[m] /\ answered[m] \in Seq(Urls)
            /\ IsPrefix(answered[m], catalog) /\ catalog \in Seq(Urls)
        BY <2>1 DEF CatalogInv, NumbersKeepTheirMeaning
      <4>2. QED
        BY <3>1, <4>1, PrefixTransitive
    <3>4. ToSet(packet) \subseteq Urls
      BY DEF Packets, ToSet
    <3>5. QED
      BY <2>1, <2>3, <3>1, <3>2, <3>3, <3>4
      DEF CatalogInv, KnownIsStored, NumbersKeepTheirMeaning, CollectedIsKept
  <2>4. QED
    BY <1>6, <2>2, <2>3 DEF CollectNext, Saved
<1>7. CASE FinalTurn \/ RecoverTurn
  <2>1. run.at \in {"final", "recover"} /\ run.known = catalog /\ UNCHANGED <<catalog, collected>>
    BY <1>7 DEF FinalTurn, RecoverTurn, CatalogInv, KnownIsStored
  <2>2. CASE UNCHANGED answered /\ (run' = Idle \/ run' = [run EXCEPT !.at = "recover"])
    BY <2>1, <2>2, CatalogKept DEF Runs
  <2>3. CASE answered' = [answered EXCEPT ![run.msg] = catalog] /\ run' = Idle
    <3>1. answered' \in [Messages -> Seq(Urls)] /\ NumbersKeepTheirMeaning'
      BY <2>1, <2>3, PrefixReflexive DEF CatalogInv, NumbersKeepTheirMeaning
    <3>2. QED
      BY <2>1, <2>3, <3>1 DEF CatalogInv, KnownIsStored, CollectedIsKept, Idle
  <2>4. QED
    BY <1>7, <2>1, <2>2, <2>3 DEF FinalTurn, RecoverTurn, Answer, Concludes, Throws
<1>8. ASSUME NEW w \in Slots, OpenThread(w) \/ EndTurn(w) \/ FailTurn(w)
      PROVE  CatalogInv'
  BY <1>8, CatalogKept DEF OpenThread, EndTurn, FailTurn
<1>9. ASSUME NEW w \in Slots, StartTurn(w)
      PROVE  CatalogInv'
  <2>1. UNCHANGED <<catalog, answered, collected>>
    BY <1>9 DEF StartTurn
  <2>2. CASE UNCHANGED run
    BY <2>1, <2>2, CatalogKept
  <2>3. ASSUME worker[w].mine, NEW used, run' = [run EXCEPT !.at = "collect", !.used = used]
        PROVE  CatalogInv'
    <3>1. run.at \in {"launch", "collect"}
      BY <2>3 DEF AwaitedAreFew, Mine
    <3>2. QED
      BY <2>1, <2>3, <3>1, CatalogKept DEF Runs
  <2>4. QED
    BY <1>9, <2>2, <2>3 DEF StartTurn
<1>10. ASSUME NEW w \in Slots, StartFails(w)
      PROVE  CatalogInv'
  BY <1>10, CatalogKept DEF StartFails, Throws
<1>11. CASE Crash
  BY <1>11, CatalogKept DEF Crash
<1>12. CASE UNCHANGED vars
  BY <1>12, CatalogKept DEF vars
<1>13. QED
  BY <1>1, <1>2, <1>3, <1>4, <1>5, <1>6, <1>7, <1>8, <1>9, <1>10, <1>11, <1>12
  DEF Next, RunStep, WorkerStep

-----------------------------------------------------------------------------
(* The workers *)

WorkersInv ==
    /\ run \in Runs /\ worker \in [Slots -> Workers]
    /\ NobodyIsLeftBehind /\ AwaitedAreFew /\ AwaitedHaveIds

\* Nobody is awaited any more, and the run is in a phase without workers.
LEMMA NobodyAwaited ==
    ASSUME run' \in Runs, worker' \in [Slots -> Workers],
           \A w \in Slots : ~worker'[w].mine, run'.at \notin {"launch", "collect"}
    PROVE  WorkersInv'
<1>1. Mine' = {}
  BY DEF Mine
<1>2. Cardinality(Mine') <= MaxWorkers
  BY <1>1, FS_EmptySet
<1>3. QED
  BY <1>1, <1>2 DEF WorkersInv, NobodyIsLeftBehind, AwaitedAreFew, AwaitedHaveIds

\* Some are awaited, no more than before, in one of the two phases.
LEMMA FewerAwaited ==
    ASSUME WorkersInv, run' \in Runs, worker' \in [Slots -> Workers],
           Mine' \subseteq Mine, Mine' # {}, \A w \in Mine' : worker'[w].id = worker[w].id,
           run'.at \in {"launch", "collect"}
    PROVE  WorkersInv'
<1>1. IsFiniteSet(Mine)
  BY FS_Subset DEF Mine
<1>2. Cardinality(Mine') <= Cardinality(Mine) /\ Cardinality(Mine') \in Nat
      /\ Cardinality(Mine) \in Nat
  BY <1>1, FS_Subset, FS_CardinalityType
<1>3. QED
  BY <1>2 DEF WorkersInv, NobodyIsLeftBehind, AwaitedAreFew, AwaitedHaveIds

\* Steps of workers and of the run that leave open who is awaited.
LEMMA SameAwaited ==
    ASSUME WorkersInv, run' \in Runs, worker' \in [Slots -> Workers],
           \A w \in Slots : /\ worker'[w].mine = worker[w].mine
                            /\ worker[w].mine => worker'[w].id = worker[w].id,
           run'.at \in {"launch", "collect"} <=> run.at \in {"launch", "collect"}
    PROVE  WorkersInv'
<1>1. Mine' = Mine /\ \A w \in Mine : worker'[w].id = worker[w].id
  BY DEF Mine
<1>2. QED
  BY <1>1 DEF WorkersInv, NobodyIsLeftBehind, AwaitedAreFew, AwaitedHaveIds

\* A slot nobody uses is a worker.
LEMMA FreeIsWorker == Free \in Workers /\ Free.mine = FALSE
  BY DEF Free, Workers

\* A round takes slots for its workers, or throws and leaves them to themselves.
LEMMA LaunchStep ==
    ASSUME WorkersInv, LaunchWorkers
    PROVE  WorkersInv'
<1>1. run.at = "decide" /\ run.rounds < MaxRounds /\ \A w \in Slots : ~worker[w].mine
  BY DEF LaunchWorkers, WorkersInv, NobodyIsLeftBehind, Mine
<1>2. ASSUME NEW S \in Batches, NEW ids \in [S -> WorkerIds],
             worker' = Launched(ids, TRUE),
             run' = [run EXCEPT !.at = "launch", !.rounds = @ + 1]
      PROVE  WorkersInv'
  <2>1. S \subseteq Slots /\ Cardinality(S) \in 1..MaxWorkers
    BY DEF Batches, FreeSlots
  <2>2. run' \in Runs /\ run'.at = "launch"
    <3>1. run \in Runs /\ run.rounds + 1 \in 0..MaxRounds
      <4>1. run \in Runs /\ run.rounds \in 0..MaxRounds
        BY DEF WorkersInv, Runs
      <4>2. QED
        BY <1>1, <4>1
    <3>2. QED
      BY <1>2, <3>1 DEF Runs
  <2>3. worker' \in [Slots -> Workers]
        /\ \A w \in Slots : /\ worker'[w].mine <=> w \in S
                            /\ w \in S => worker'[w].id \in WorkerIds
    BY <1>1, <1>2, <2>1 DEF Launched, Workers, WorkersInv
  <2>4. Mine' = S
    BY <2>1, <2>3 DEF Mine
  <2>5. S # {}
    BY <2>1, FS_EmptySet
  <2>6. QED
    BY <2>1, <2>2, <2>3, <2>4, <2>5
    DEF WorkersInv, NobodyIsLeftBehind, AwaitedAreFew, AwaitedHaveIds
<1>3. ASSUME NEW S \in Batches, NEW ids \in [S -> WorkerIds], NEW fresh \in SUBSET S,
             worker' = Launched([w \in fresh |-> ids[w]], FALSE), run' = Idle
      PROVE  WorkersInv'
  <2>1. worker' \in [Slots -> Workers] /\ \A w \in Slots : ~worker'[w].mine
    BY <1>1, <1>3 DEF Launched, Workers, WorkersInv
  <2>2. QED
    BY <1>3, <2>1, IdleIsRun, NobodyAwaited
<1>4. QED
  <2>1. PICK S \in Batches : \E ids \in [S -> WorkerIds] :
          \/ worker' = Launched(ids, TRUE) /\ run' = [run EXCEPT !.at = "launch", !.rounds = @ + 1]
          \/ /\ worker' = Launched([w \in {v \in S : ids[v] \notin run.used} |-> ids[w]], FALSE)
             /\ run' = Idle
    BY DEF LaunchWorkers, Throws
  <2>2. PICK ids \in [S -> WorkerIds] :
          \/ worker' = Launched(ids, TRUE) /\ run' = [run EXCEPT !.at = "launch", !.rounds = @ + 1]
          \/ /\ worker' = Launched([w \in {v \in S : ids[v] \notin run.used} |-> ids[w]], FALSE)
             /\ run' = Idle
    BY <2>1
  <2>3. CASE worker' = Launched(ids, TRUE) /\ run' = [run EXCEPT !.at = "launch", !.rounds = @ + 1]
    BY <1>2, <2>3
  <2>4. CASE /\ worker' = Launched([w \in {v \in S : ids[v] \notin run.used} |-> ids[w]], FALSE)
             /\ run' = Idle
    <3> DEFINE fresh == {v \in S : ids[v] \notin run.used}
    <3>1. fresh \in SUBSET S
      OBVIOUS
    <3> HIDE DEF fresh
    <3>2. worker' = Launched([w \in fresh |-> ids[w]], FALSE)
      BY <2>4 DEF fresh
    <3>3. QED
      BY <1>3, <2>4, <3>1, <3>2
  <2>5. QED
    BY <2>2, <2>3, <2>4

\* A worker's turn starts, and with the last one the run turns to collecting.
LEMMA StartStep ==
    ASSUME WorkersInv, NEW w \in Slots, StartTurn(w)
    PROVE  WorkersInv'
<1>1. worker[w] \in Workers /\ run \in Runs
  BY DEF WorkersInv
<1>2. CASE worker' = Becomes(w, "running") /\ UNCHANGED run
  BY <1>1, <1>2, SameAwaited DEF Becomes, Workers, WorkersInv
<1>3. CASE /\ worker[w].mine
           /\ run' = [run EXCEPT !.at = "collect", !.used = @ \cup {worker[v].id : v \in Mine}]
           /\ worker' = [v \in Slots |->
                            [worker[v] EXCEPT !.at = IF v = w THEN "running" ELSE @,
                                              !.mine = v \in Kept]]
  <2>1. ASSUME NEW v \in Slots
        PROVE  /\ worker'[v] \in Workers /\ worker'[v].id = worker[v].id
               /\ worker'[v].mine <=> v \in Kept
    <3>1. worker[v] \in Workers
      BY DEF WorkersInv
    <3>2. CASE v \in Kept
      <4>1. worker'[v] = [worker[v] EXCEPT !.at = IF v = w THEN "running" ELSE @, !.mine = TRUE]
        <5>1. (v \in Kept) = TRUE
          BY <3>2
        <5>2. worker'[v] = [worker[v] EXCEPT !.at = IF v = w THEN "running" ELSE @,
                                             !.mine = v \in Kept]
          BY <1>3
        <5>3. QED
          BY <5>1, <5>2, Zenon
      <4>2. QED
        BY <3>1, <3>2, <4>1 DEF Workers
    <3>3. CASE v \notin Kept
      <4>1. worker'[v] = [worker[v] EXCEPT !.at = IF v = w THEN "running" ELSE @, !.mine = FALSE]
        <5>1. (v \in Kept) = FALSE
          BY <3>3
        <5>2. worker'[v] = [worker[v] EXCEPT !.at = IF v = w THEN "running" ELSE @,
                                             !.mine = v \in Kept]
          BY <1>3
        <5>3. QED
          BY <5>1, <5>2, Zenon
      <4>2. QED
        BY <3>1, <3>3, <4>1 DEF Workers
    <3>4. QED
      BY <3>2, <3>3
  <2>2. Mine' = Kept
    BY <2>1 DEF Mine, Kept
  <2>3. Kept # {}
    <3> DEFINE last == CHOOSE v \in Mine : worker[v].id = worker[w].id
    <3>1. last \in Mine /\ worker[last].id = worker[w].id
      BY <1>3 DEF Mine
    <3>2. last = CHOOSE v \in Mine : worker[v].id = worker[last].id
      BY <3>1
    <3>3. QED
      BY <3>1, <3>2 DEF Kept
  <2>4. run' \in Runs /\ run'.at = "collect"
    <3>1. {worker[v].id : v \in Mine} \subseteq WorkerIds
      BY DEF WorkersInv, AwaitedHaveIds
    <3>2. QED
      BY <1>1, <1>3, <3>1 DEF Runs
  <2>5. worker' \in [Slots -> Workers]
    BY <1>3, <2>1
  <2>6. QED
    BY <2>1, <2>2, <2>3, <2>4, <2>5, FewerAwaited DEF Kept, Mine
<1>4. QED
  BY <1>2, <1>3 DEF StartTurn

\* A settled worker is collected, and its slot is free again.
LEMMA CollectStep ==
    ASSUME WorkersInv, CatalogInv', NEW w \in Slots, CollectNext(w)
    PROVE  WorkersInv'
<1>1. run \in Runs /\ worker \in [Slots -> Workers] /\ run.at = "collect" /\ w \in Mine
  BY DEF WorkersInv, CollectNext, Mine
<1>2. worker' = [worker EXCEPT ![w] = Free]
  BY DEF CollectNext
<1>3. /\ worker' \in [Slots -> Workers] /\ ~worker'[w].mine
      /\ \A v \in Slots \ {w} : worker'[v] = worker[v]
  BY <1>1, <1>2, FreeIsWorker
<1>4. Mine' = Mine \ {w}
  BY <1>3 DEF Mine
<1>5. /\ run' \in Runs
      /\ run'.at = IF Mine \ {w} = {} THEN "decide" ELSE "collect"
  <2> DEFINE at == IF Mine \ {w} = {} THEN "decide" ELSE "collect"
  <2>1. at \in Phases
    OBVIOUS
  <2> HIDE DEF at
  <2>2. CASE run' = [run EXCEPT !.at = at]
    BY <1>1, <2>1, <2>2 DEF Runs, at
  <2>3. ASSUME NEW next, run' = [run EXCEPT !.at = at, !.known = next]
        PROVE  run' \in Runs /\ run'.at = at
    <3>1. run'.known = next /\ next \in Seq(Urls)
      BY <1>1, <2>3 DEF Runs, CatalogInv
    <3>2. QED
      BY <1>1, <2>1, <2>3, <3>1 DEF Runs
  <2>4. QED
    BY <2>2, <2>3 DEF CollectNext, StillAwaited, at
<1>6. CASE Mine \ {w} = {}
  <2>1. \A v \in Slots : ~worker'[v].mine
    BY <1>4, <1>6 DEF Mine
  <2>2. QED
    BY <1>3, <1>5, <1>6, <2>1, NobodyAwaited
<1>7. CASE Mine \ {w} # {}
  <2>1. \A v \in Mine' : worker'[v].id = worker[v].id
    BY <1>3, <1>4 DEF Mine
  <2>2. Mine' \subseteq Mine /\ Mine' # {} /\ run'.at \in {"launch", "collect"}
    BY <1>4, <1>5, <1>7
  <2>3. QED
    BY <1>3, <1>5, <2>1, <2>2, FewerAwaited
<1>8. QED
  BY <1>6, <1>7

\* startWorker throws, and the run that awaited the worker disowns the others.
LEMMA StartFailsStep ==
    ASSUME WorkersInv, NEW w \in Slots, StartFails(w)
    PROVE  WorkersInv'
<1> DEFINE left == IF worker[w].at = "opening" THEN Free
                   ELSE [at |-> "leaked", id |-> worker[w].id, mine |-> FALSE]
<1>1. run \in Runs /\ worker \in [Slots -> Workers] /\ worker[w] \in Workers
  BY DEF WorkersInv
<1>2. left \in Workers /\ left.mine = FALSE
  BY <1>1 DEF Workers, Free
<1> HIDE DEF left
<1>3. CASE worker[w].mine
  <2>1. worker' = [Disowned EXCEPT ![w] = left] /\ run' = Idle
    BY <1>3 DEF StartFails, Throws, left
  <2>2. Disowned \in [Slots -> Workers] /\ \A v \in Slots : Disowned[v].mine = FALSE
    BY <1>1 DEF Disowned, Free, Workers
  <2>3. worker' \in [Slots -> Workers] /\ \A v \in Slots : ~worker'[v].mine
    BY <1>2, <2>1, <2>2
  <2>4. QED
    BY <2>1, <2>3, IdleIsRun, NobodyAwaited
<1>4. CASE ~worker[w].mine
  <2>1. worker' = [worker EXCEPT ![w] = left] /\ UNCHANGED run
    BY <1>4 DEF StartFails, left
  <2>2. worker[w].mine = FALSE
    BY <1>1, <1>4 DEF Workers
  <2>3. QED
    BY <1>1, <1>2, <2>1, <2>2, SameAwaited
<1>5. QED
  BY <1>3, <1>4

\* Steps of the run while nobody is awaited.
LEMMA AloneStep ==
    ASSUME WorkersInv, run.at \notin {"launch", "collect"}, UNCHANGED worker,
           run' \in Runs, run'.at \notin {"launch", "collect"}
    PROVE  WorkersInv'
<1>1. \A w \in Slots : ~worker'[w].mine
  BY DEF WorkersInv, AwaitedAreFew, Mine
<1>2. QED
  BY <1>1, NobodyAwaited DEF WorkersInv

\* No step breaks what is known of the workers.
LEMMA WorkersStep ==
    ASSUME WorkersInv, CatalogInv', artifact \in Messages \cup {None}, [Next]_vars
    PROVE  WorkersInv'
<1>0. run \in Runs /\ worker \in [Slots -> Workers]
  BY DEF WorkersInv
<1>1. ASSUME NEW m \in Messages, Begin(m)
      PROVE  WorkersInv'
  <2>1. run' \in Runs /\ run'.at = "refine" /\ run.at = "idle" /\ UNCHANGED worker
    BY <1>1, IdleIsRun DEF Begin, Runs
  <2>2. QED
    BY <2>1, AloneStep
<1>2. CASE RefinePrompt
  <2>1. run.at = "refine" /\ UNCHANGED worker
    BY <1>2 DEF RefinePrompt
  <2>2. CASE run' = Idle
    BY <2>1, <2>2, IdleIsRun, AloneStep
  <2>3. ASSUME NEW next \in Messages \cup {None}, NEW known,
               run' = [run EXCEPT !.at = "decide", !.prompt = next, !.known = known]
        PROVE  WorkersInv'
    <3>1. run'.known = known /\ known \in Seq(Urls)
      BY <1>0, <2>3 DEF Runs, CatalogInv
    <3>2. run' \in Runs /\ run'.at = "decide"
      BY <1>0, <2>3, <3>1 DEF Runs
    <3>3. QED
      BY <2>1, <3>2, AloneStep
  <2>4. run.msg \in Messages \cup {None}
    BY <1>0 DEF Runs
  <2>5. QED
    BY <1>2, <2>2, <2>3, <2>4 DEF RefinePrompt, Throws, Refined
<1>3. CASE Finalize
  <2>1. run' \in Runs /\ run'.at = "final" /\ run.at = "decide" /\ UNCHANGED worker
    BY <1>0, <1>3 DEF Finalize, Runs
  <2>2. QED
    BY <2>1, AloneStep
<1>4. CASE DecisionFails
  BY <1>4, IdleIsRun, AloneStep DEF DecisionFails, Throws
<1>5. CASE FinalTurn \/ RecoverTurn
  <2>1. run.at \in {"final", "recover"} /\ UNCHANGED worker
    BY <1>5 DEF FinalTurn, RecoverTurn
  <2>2. run' = Idle \/ run' = [run EXCEPT !.at = "recover"]
    BY <1>5 DEF FinalTurn, RecoverTurn, Answer, Concludes, Throws
  <2>3. run' \in Runs /\ run'.at \in {"idle", "recover"}
    BY <1>0, <2>2, IdleIsRun DEF Runs
  <2>4. QED
    BY <2>1, <2>3, AloneStep
<1>6. ASSUME NEW w \in Slots, NEW at \in {"starting", "running", "packet", "failed"},
             worker' = Becomes(w, at), UNCHANGED run
      PROVE  WorkersInv'
  <2>1. worker[w] \in Workers
    BY <1>0
  <2>2. QED
    BY <1>0, <1>6, <2>1, SameAwaited DEF Becomes, Workers
<1>7. ASSUME NEW w \in Slots, EndTurn(w)
      PROVE  WorkersInv'
  <2>1. worker[w] \in Workers
    BY <1>0
  <2>2. CASE worker[w].mine
    BY <1>6, <1>7, <2>2 DEF EndTurn, Becomes
  <2>3. CASE ~worker[w].mine
    <3>1. worker' = [worker EXCEPT ![w] = Free] /\ UNCHANGED run
      BY <1>7, <2>3 DEF EndTurn
    <3>2. worker[w].mine = FALSE
      BY <2>1, <2>3 DEF Workers
    <3>3. QED
      BY <1>0, <3>1, <3>2, FreeIsWorker, SameAwaited
  <2>4. QED
    BY <2>2, <2>3
<1>8. CASE Crash
  <2>1. /\ run' = Idle /\ worker' \in [Slots -> Workers]
        /\ \A w \in Slots : ~worker'[w].mine
    BY <1>8, FreeIsWorker DEF Crash
  <2>2. QED
    BY <2>1, IdleIsRun, NobodyAwaited
<1>9. CASE UNCHANGED vars
  BY <1>0, <1>9, SameAwaited DEF vars
<1>10. QED
  BY <1>1, <1>2, <1>3, <1>4, <1>5, <1>6, <1>7, <1>8, <1>9,
     LaunchStep, StartStep, CollectStep, StartFailsStep
  DEF Next, RunStep, WorkerStep, OpenThread, FailTurn

-----------------------------------------------------------------------------
(* The prompt, and the whole *)

\* A directed prompt is only ever the one of the run's own message.
LEMMA PromptStep ==
    ASSUME run \in Runs, AwaitedAreFew, DirectedPromptIsOwn, [Next]_vars
    PROVE  DirectedPromptIsOwn'
<1>1. CASE run'.at \in {"idle", "refine"}
  BY <1>1 DEF DirectedPromptIsOwn
<1>2. CASE /\ run.at \notin {"idle", "refine"}
           /\ run'.msg = run.msg /\ run'.prompt = run.prompt
  BY <1>2 DEF DirectedPromptIsOwn
<1>3. CASE RefinePrompt
  <2>1. CASE run' = Idle
    BY <1>1, <2>1, IdleIsRun
  <2>2. CASE run' # Idle
    BY <1>3, <2>2 DEF RefinePrompt, Throws, DirectedPromptIsOwn, Refresh, Refined, Runs
  <2>3. QED
    BY <2>1, <2>2
<1>4. ASSUME NEW m \in Messages, Begin(m)
      PROVE  DirectedPromptIsOwn'
  <2>1. run'.at = "refine"
    BY <1>4, IdleIsRun DEF Begin, Runs
  <2>2. QED
    BY <1>1, <2>1
<1>5. CASE Finalize \/ FinalTurn \/ RecoverTurn \/ \E w \in Slots : CollectNext(w)
  <2>1. run.at \notin {"idle", "refine"}
    BY <1>5 DEF Finalize, FinalTurn, RecoverTurn, CollectNext
  <2>2. CASE run' = Idle
    BY <1>1, <2>2, IdleIsRun
  <2>3. CASE run' # Idle
    <3>1. run'.msg = run.msg /\ run'.prompt = run.prompt
      BY <1>5, <2>3 DEF Finalize, FinalTurn, RecoverTurn, Answer, Concludes, Throws,
                        CollectNext, Runs
    <3>2. QED
      BY <1>2, <2>1, <3>1
  <2>4. QED
    BY <2>2, <2>3
<1>6. CASE LaunchWorkers
  <2>1. run.at = "decide"
    BY <1>6 DEF LaunchWorkers
  <2>2. run' = Idle \/ run' = [run EXCEPT !.at = "launch", !.rounds = @ + 1]
    BY <1>6 DEF LaunchWorkers, Throws
  <2>3. QED
    BY <1>1, <1>2, <2>1, <2>2, IdleIsRun DEF Runs
<1>7. CASE DecisionFails \/ Crash
  BY <1>1, <1>7, IdleIsRun DEF DecisionFails, Crash, Throws
<1>8. CASE UNCHANGED run
  BY <1>8 DEF DirectedPromptIsOwn
<1>9. ASSUME NEW w \in Slots, StartTurn(w), run' # run
      PROVE  DirectedPromptIsOwn'
  <2>1. /\ worker[w].mine
        /\ run' = [run EXCEPT !.at = "collect", !.used = @ \cup {worker[v].id : v \in Mine}]
    BY <1>9 DEF StartTurn
  <2>2. run.at \in {"launch", "collect"}
    BY <2>1 DEF AwaitedAreFew, Mine
  <2>3. QED
    BY <1>2, <2>1, <2>2 DEF Runs
<1>10. ASSUME NEW w \in Slots, StartFails(w), run' # run
      PROVE  DirectedPromptIsOwn'
  <2>1. run' = Idle
    BY <1>10 DEF StartFails, Throws
  <2>2. QED
    BY <1>1, <2>1, IdleIsRun
<1>11. QED
  BY <1>3, <1>4, <1>5, <1>6, <1>7, <1>8, <1>9, <1>10
  DEF Next, RunStep, WorkerStep, OpenThread, EndTurn, FailTurn, vars

\* The artifact, the states of the messages and the faults keep their types.
LEMMA RestStep ==
    ASSUME TypeOK, [Next]_vars
    PROVE  /\ artifact' \in Messages \cup {None}
           /\ status' \in [Messages -> {"waiting", "answered", "ended"}]
           /\ faults' \in 0..MaxFaults
<1>1. faults' \in 0..MaxFaults
  <2>1. UNCHANGED faults \/ Fault
    <3>1. LaunchWorkers => UNCHANGED faults \/ Fault
      BY DEF LaunchWorkers
    <3>2. RunStep => UNCHANGED faults \/ Fault
      BY DEF RunStep, RefinePrompt, Finalize, FinalTurn, RecoverTurn, CollectNext
    <3>3. \A w \in Slots : WorkerStep(w) \/ StartFails(w) \/ FailTurn(w) =>
             UNCHANGED faults \/ Fault
      BY DEF WorkerStep, OpenThread, StartTurn, EndTurn, StartFails, FailTurn
    <3>4. QED
      BY <3>1, <3>2, <3>3 DEF Next, Begin, DecisionFails, Crash, vars
  <2>2. faults \in 0..MaxFaults
    BY DEF TypeOK
  <2>3. QED
    BY <2>1, <2>2 DEF Fault
<1>2. status' \in [Messages -> {"waiting", "answered", "ended"}]
  BY DEF TypeOK, Next, RunStep, WorkerStep, vars, Begin, RefinePrompt, Finalize, FinalTurn,
      RecoverTurn, CollectNext, LaunchWorkers, DecisionFails, OpenThread, StartTurn,
      EndTurn, StartFails, FailTurn, Crash, Answer, Concludes, Throws
<1>3. artifact' \in Messages \cup {None}
  <2>1. run.msg \in Messages \cup {None} /\ artifact \in Messages \cup {None}
    BY DEF TypeOK, Runs
  <2>2. CASE UNCHANGED artifact
    BY <2>1, <2>2
  <2>3. CASE RefinePrompt
    BY <2>1, <2>3 DEF RefinePrompt, Refined
  <2>4. QED
    BY <2>2, <2>3 DEF Next, RunStep, WorkerStep, vars, Begin, Finalize, FinalTurn,
      RecoverTurn, CollectNext, LaunchWorkers, DecisionFails, OpenThread, StartTurn,
      EndTurn, StartFails, FailTurn, Crash
<1>4. QED
  BY <1>1, <1>2, <1>3

\* The parts together are the invariant.
LEMMA ForumInvParts ==
    ForumInv <=>
        /\ CatalogInv /\ WorkersInv /\ DirectedPromptIsOwn
        /\ artifact \in Messages \cup {None}
        /\ status \in [Messages -> {"waiting", "answered", "ended"}]
        /\ faults \in 0..MaxFaults
  BY DEF ForumInv, RunInv, TypeOK, CatalogInv, WorkersInv, Runs

\* Nothing runs and nothing is collected at first.
LEMMA ForumInit == Init => ForumInv
<1> SUFFICES ASSUME Init
             PROVE  ForumInv
  OBVIOUS
<1>1. CatalogInv
  <2>1. ToSet(<<>>) = {} /\ <<>> \in Seq(Urls)
    BY DEF ToSet
  <2>2. Cardinality(ToSet(catalog)) = Len(catalog)
    BY <2>1, FS_EmptySet DEF Init
  <2>3. NumbersKeepTheirMeaning
    BY <2>1, PrefixReflexive DEF Init, NumbersKeepTheirMeaning
  <2>4. QED
    BY <2>1, <2>2, <2>3, IdleIsRun DEF Init, CatalogInv, KnownIsStored, CollectedIsKept
<1>2. WorkersInv
  <2>1. Mine = {}
    BY FreeIsWorker DEF Init, Mine
  <2>2. QED
    BY <2>1, FS_EmptySet, IdleIsRun, FreeIsWorker
    DEF Init, WorkersInv, NobodyIsLeftBehind, AwaitedAreFew, AwaitedHaveIds
<1>3. QED
  BY <1>1, <1>2, ForumInvParts, IdleIsRun DEF Init, DirectedPromptIsOwn

\* The parts of the invariant carry each other over every step.
LEMMA ForumStep ==
    ASSUME ForumInv, [Next]_vars
    PROVE  ForumInv'
<1>1. /\ CatalogInv /\ WorkersInv /\ DirectedPromptIsOwn /\ TypeOK
      /\ artifact \in Messages \cup {None} /\ run \in Runs /\ AwaitedAreFew
  BY ForumInvParts DEF WorkersInv, ForumInv, RunInv
<1>2. CatalogInv'
  BY <1>1, CatalogStep
<1>3. WorkersInv'
  BY <1>1, <1>2, WorkersStep
<1>4. DirectedPromptIsOwn'
  BY <1>1, PromptStep
<1>5. /\ artifact' \in Messages \cup {None}
      /\ status' \in [Messages -> {"waiting", "answered", "ended"}]
      /\ faults' \in 0..MaxFaults
  BY <1>1, RestStep
<1>6. QED
  BY <1>2, <1>3, <1>4, <1>5
  DEF ForumInv, RunInv, TypeOK, CatalogInv, WorkersInv

\* The inductive invariant of the pipeline, for any messages, sources, worker ids, limits
\* and faults; the fairness of the specification is not needed.
THEOREM ForumInvariant == Spec => []ForumInv
  BY ForumInit, ForumStep, PTL DEF Spec

\* A run is well formed, awaits at most maxWorkers, leaves nobody behind when the supervisor
\* is asked or the answer is written, and answers who addresses it with their own prompt.
THEOREM RunsAreWhole == Spec => []RunInv
  BY ForumInvariant, PTL DEF ForumInv

\* A citation number of an answer means the same source for ever, over retries, rounds and
\* restarts.
THEOREM CitationsAreStable == Spec => []NumbersKeepTheirMeaning
  BY ForumInvariant, PTL DEF ForumInv

\* What a packet brought in is in the stored catalog, whatever becomes of its run.
THEOREM NothingCollectedIsLost == Spec => []CollectedIsKept
  BY ForumInvariant, PTL DEF ForumInv
=============================================================================
