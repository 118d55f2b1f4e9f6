--------------------------- MODULE MessageRuntime ---------------------------
(***************************************************************************)
(* The message runtime of the bot: intake of Discord messages, the ordered *)
(* queue, MessageProcessingService.process with its failure handling, the  *)
(* retry runner, workflow-switch reruns, crash and startup recovery.       *)
(*                                                                         *)
(* The asynchronous handlers are split at their awaits.  run[key] is the   *)
(* continuation of process() for the item the lane loop of key awaits;     *)
(* runner[d] is one (possibly overlapping) drainDueJobs() call.            *)
(***************************************************************************)
EXTENDS OrderedMessageQueue, MessageStore, SequencesExt

CONSTANTS Drains,       \* drainDueJobs() calls that may be open at once
          ForumKeys,    \* channels with the forum_research feature
          GatewayKeys,  \* channels whose workflow is chosen by the route step
          CursorOnlyKeys, \* plain chat: recovery moves the cursor, replays nothing
          MaxFaults,    \* bound: failing Discord, Codex and moderation calls
          MaxSwitches,  \* bound: accepted workflow switches
          MaxCrashes    \* bound: process deaths

Sources == {"live", "retry", "workflow_switch_rerun"}

QueueItem(m, source) ==
    [messageId |-> m, orderingKey |-> ChannelOf[m], source |-> source]

ASSUME RuntimeItems ==
    /\ Items = {QueueItem(m, s) : m \in Messages, s \in Sources}
    /\ Repeatable = {QueueItem(m, "workflow_switch_rerun") : m \in Messages}
ASSUME PlaceAssumption ==
    /\ Keys = Channels
    /\ ForumKeys \subseteq Keys
    /\ GatewayKeys \subseteq Keys
    /\ CursorOnlyKeys \subseteq Keys \ (ForumKeys \cup GatewayKeys)
ASSUME BoundsAssumption ==
    MaxFaults \in Nat /\ MaxSwitches \in Nat /\ MaxCrashes \in Nat
ASSUME DrainsAssumption ==
    IsFiniteSet(Drains)

VARIABLES run,             \* key -> where process() is, and its locals
          rerunRequested,  \* WorkflowSwitchRerunService.requestedMessageIds
          runner,          \* drain -> jobs left of its snapshot, and its step
          intake,          \* messages between the awaits of handle()
          replay,          \* messages startup recovery has fetched, not handled
          unrecovered,     \* channels startup recovery has not fetched yet
          phase,           \* "down", "recovering", "draining" or "up"
          posted,          \* messages users have posted
          faults, switches, crashes,  \* counters of the three bounds
          answers,         \* history: public answers per message
          lost             \* history: ignored, or left by an error nobody handles

volatileVars == <<run, rerunRequested, runner, intake, replay, unrecovered, phase>>
boundVars == <<faults, switches, crashes>>
historyVars == <<answers, lost>>
vars == <<queueVars, storeVars, volatileVars, posted, boundVars, historyVars>>

NoRun == [phase |-> "idle", forum |-> FALSE, retryable |-> FALSE, nested |-> FALSE]
IdleRunner == [jobs |-> <<>>, step |-> "idle", retryable |-> FALSE]

LivePhases == {"recovering", "draining", "up"}
\* Awaits before the try block, awaits inside it, awaits of the failure path.
GatePhases == {"admission", "preflight", "route"}
WorkPhases == {"redirect", "bootstrap", "resolve", "dispatch", "moderation"}
FailurePhases == {"notify", "permanent", "forum_notify"}

\* The phases in which process() has acquired its message.
InHand == GatePhases \cup WorkPhases \cup FailurePhases

Runs == [phase : {"idle", "start"} \cup InHand,
         forum : BOOLEAN, retryable : BOOLEAN, nested : BOOLEAN]

Jobs == [message : Messages, attempt : Nat]

Runners == [jobs : Seq(Jobs),
            step : {"idle", "fetch", "notify", "permanent", "forum_notify"},
            retryable : BOOLEAN]

TypeOK ==
    /\ QueueTypeOK
    /\ StoreTypeOK
    /\ run \in [Keys -> Runs]
    /\ rerunRequested \in SUBSET Messages
    /\ runner \in [Drains -> Runners]
    /\ intake \in SUBSET Messages
    /\ replay \in Seq(Messages)
    /\ unrecovered \in SUBSET Keys
    /\ phase \in LivePhases \cup {"down"}
    /\ posted \in SUBSET Messages
    /\ <<faults, switches, crashes>> \in (0..MaxFaults) \X (0..MaxSwitches) \X (0..MaxCrashes)
    /\ answers \in [Messages -> Nat]
    /\ lost \in SUBSET Messages

\* A started bot on a quiet server.
Init ==
    /\ QueueInit
    /\ StoreInit
    /\ run = [key \in Keys |-> NoRun]
    /\ rerunRequested = {}
    /\ runner = [d \in Drains |-> IdleRunner]
    /\ intake = {} /\ replay = <<>> /\ unrecovered = {}
    /\ phase = "up"
    /\ posted = {}
    /\ faults = 0 /\ switches = 0 /\ crashes = 0
    /\ answers = [m \in Messages |-> 0]
    /\ lost = {}

-----------------------------------------------------------------------------
\* Environment: one more call of Discord, Codex or moderation fails.
Fault == faults < MaxFaults /\ faults' = faults + 1 /\ UNCHANGED <<switches, crashes>>

ErrorKinds == {"transient", "permanent"}
Stages == {"fetch_or_resolve", "dispatch", "post_response"}

\* FailureClassifier.classify, as far as the runtime tells decisions apart: a
\* transient failure is retried while RETRY_DELAYS_MS has an entry left and
\* the answer is not out yet.
Retryable(kind, stage, attempt) ==
    kind = "transient" /\ attempt < RetryLimit /\ stage # "post_response"

-----------------------------------------------------------------------------
(***************************************************************************)
(* process(): the lane loop of the queue calls it and awaits it.           *)
(***************************************************************************)
Current(key) == running[key].messageId

At(key, step) == phase # "down" /\ run[key].phase = step
GoTo(key, step) == run' = [run EXCEPT ![key].phase = step]

\* The drain microtask calls process() for the items it starts.
DrainQueue ==
    /\ Drain
    /\ run' = [key \in Keys |->
          IF running'[key] # running[key] THEN [NoRun EXCEPT !.phase = "start"] ELSE run[key]]
    /\ UNCHANGED <<storeVars, rerunRequested, runner, intake, replay, unrecovered,
                   phase, posted, boundVars, historyVars>>

\* process() returns or throws; runLane takes the next item or ends.
Settle(key) ==
    /\ WorkerSettles(key)
    /\ run' = [run EXCEPT ![key] =
          IF lanes[key] = <<>> THEN NoRun ELSE [NoRun EXCEPT !.phase = "start"]]

\* Until its first await: acquisition.  Only a resolved duplicate has effects.
Begin(key) ==
    /\ At(key, "start")
    /\ LET m == Current(key)
           source == running[key].source
           status == AcquireStatus(m, source = "retry")
       IN  \/ /\ status = "acquired"
              /\ Acquire(m)
              /\ rerunRequested' = IF source = "workflow_switch_rerun"
                                   THEN rerunRequested \ {m} ELSE rerunRequested
              /\ GoTo(key, "admission")
              /\ UNCHANGED <<queueVars, retryJob, due, cursor>>
           \/ /\ status \in {"already_completed", "already_terminal_failure_notified"}
              /\ AdvanceCursor(m)
              /\ DeleteRetryJob(m)
              /\ Settle(key)
              /\ UNCHANGED <<rowState, leaseLive, rerunRequested>>
           \/ /\ status \in {"in_flight", "pending_retry"}
              /\ Settle(key)
              /\ UNCHANGED <<storeVars, rerunRequested>>
    /\ UNCHANGED <<runner, intake, replay, unrecovered, phase, posted, boundVars, historyVars>>

\* markMessageCompleted, then return.
Complete(key) ==
    /\ ResolveAs(Current(key), "completed")
    /\ Settle(key)
    /\ UNCHANGED <<rerunRequested, historyVars>>

\* shouldStopForWorkflowSwitchRerun: the rerun item has taken over.
MustStop(key) ==
    /\ running[key].source # "workflow_switch_rerun"
    /\ Current(key) \in rerunRequested

Stop(key) ==
    /\ Settle(key)
    /\ UNCHANGED <<storeVars, rerunRequested, historyVars>>

\* The await of this phase resolves and process() goes on.
Continue(key, step) ==
    /\ GoTo(key, step)
    /\ UNCHANGED <<queueVars, storeVars, rerunRequested, historyVars>>

\* Admission, soft-block preflight and workflow route, awaited one after the
\* other before the try block.  Each may conclude the message (ignored,
\* blocked, route notice sent); the last one decides whether this run is a
\* forum research run.
GatePasses(key) ==
    \/ At(key, "admission") /\ Continue(key, "preflight")
    \/ At(key, "preflight") /\ Continue(key, "route")
    \/ /\ At(key, "route")
       /\ \E forum \in IF key \in GatewayKeys THEN BOOLEAN ELSE {key \in ForumKeys} :
             run' = [run EXCEPT ![key] =
                       [NoRun EXCEPT !.phase = "redirect", !.forum = forum]]
       /\ UNCHANGED <<queueVars, storeVars, rerunRequested, historyVars>>

GateConcludes(key) == run[key].phase \in GatePhases /\ Complete(key)

\* The worker promise rejects and the queue swallows the error.
WorkerThrows(key) ==
    /\ lost' = lost \cup {Current(key)}
    /\ Settle(key)
    /\ UNCHANGED <<storeVars, rerunRequested, answers>>

\* An error of these awaits is outside the try block.
GateThrows(key) == run[key].phase \in GatePhases /\ WorkerThrows(key)

Gate(key) ==
    /\ phase # "down"
    /\ \/ (GatePasses(key) \/ GateConcludes(key)) /\ UNCHANGED boundVars
       \/ GateThrows(key) /\ Fault
    /\ UNCHANGED <<runner, intake, replay, unrecovered, phase, posted>>

\* handleRuntimeFailure until its first await: the decision is taken here.
HandleFailure(key, kind, stage, nested) ==
    /\ run' = [run EXCEPT ![key] =
          [phase |-> IF run[key].forum THEN "forum_notify" ELSE "notify",
           forum |-> run[key].forum,
           retryable |-> Retryable(kind, stage, retryJob[Current(key)]),
           nested |-> nested]]
    /\ UNCHANGED <<queueVars, storeVars, rerunRequested, lost>>

\* The catch blocks: stop for a rerun, or handle the failure.
Catch(key, kind, stage) ==
    \/ MustStop(key) /\ Settle(key) /\ UNCHANGED <<storeVars, rerunRequested, lost>>
    \/ ~MustStop(key) /\ HandleFailure(key, kind, stage, FALSE)

\* The awaits of the try block resolve.
WorkSucceeds(key) ==
    \/ /\ At(key, "redirect")
       /\ \/ MustStop(key) /\ Stop(key)
          \/ ~MustStop(key) /\ (Complete(key) \/ Continue(key, "bootstrap"))
    \/ At(key, "bootstrap") /\ Continue(key, "resolve")
    \/ /\ At(key, "resolve")
       /\ \/ MustStop(key) /\ Stop(key)
          \/ ~MustStop(key) /\ Continue(key, "dispatch")
    \/ /\ At(key, "dispatch")
       /\ answers' = [answers EXCEPT ![Current(key)] = @ + 1]
       /\ \/ MustStop(key) /\ Settle(key)
          \/ ~MustStop(key) /\ GoTo(key, "moderation") /\ UNCHANGED queueVars
       /\ UNCHANGED <<storeVars, rerunRequested, lost>>
    \/ At(key, "moderation") /\ Complete(key)

\* An await of the try block rejects.  The dispatch may have published the
\* reply before it fails on an appendix or an image.
WorkFails(key) ==
    \E kind \in ErrorKinds :
        \/ /\ run[key].phase \in {"redirect", "bootstrap", "resolve"}
           /\ Catch(key, kind, "fetch_or_resolve")
           /\ UNCHANGED answers
        \/ /\ At(key, "dispatch")
           /\ Catch(key, kind, "dispatch")
           /\ \/ answers' = [answers EXCEPT ![Current(key)] = @ + 1]
              \/ UNCHANGED answers
        \/ /\ At(key, "moderation")
           /\ Catch(key, kind, "post_response")
           /\ UNCHANGED answers

Work(key) ==
    /\ phase # "down"
    /\ \/ WorkSucceeds(key) /\ UNCHANGED boundVars
       \/ WorkFails(key) /\ Fault
    /\ UNCHANGED <<runner, intake, replay, unrecovered, phase, posted>>

\* The public failure notice settles; its error is caught and changes nothing.
NoticeSettles(key) ==
    /\ At(key, "notify")
    /\ \/ /\ run[key].retryable
          /\ ScheduleRetry(Current(key))
          /\ Settle(key)
          /\ UNCHANGED <<rerunRequested, historyVars>>
       \/ /\ ~run[key].retryable
          /\ Continue(key, "permanent")
    /\ UNCHANGED boundVars

\* The administrators are told, or the forum notice settled: terminal.
TerminalNoticeSettles(key) ==
    /\ At(key, "permanent") \/ At(key, "forum_notify")
    /\ ResolveAs(Current(key), "terminal_failure_notified")
    /\ Settle(key)
    /\ UNCHANGED <<rerunRequested, historyVars, boundVars>>

\* notifyPermanentFailure rejects: the outer catch of process() handles that
\* error as a failure of its own; a second time it leaves process().
PermanentNoticeThrows(key) ==
    /\ At(key, "permanent")
    /\ Fault
    /\ \/ /\ ~run[key].nested
          /\ \/ MustStop(key) /\ Stop(key)
             \/ /\ ~MustStop(key)
                /\ \E kind \in ErrorKinds :
                      HandleFailure(key, kind, "fetch_or_resolve", TRUE)
                /\ UNCHANGED answers
       \/ /\ run[key].nested
          /\ WorkerThrows(key)

FailurePath(key) ==
    /\ \/ NoticeSettles(key)
       \/ TerminalNoticeSettles(key)
       \/ PermanentNoticeThrows(key)
    /\ UNCHANGED <<runner, intake, replay, unrecovered, phase, posted>>

Process(key) == Begin(key) \/ Gate(key) \/ Work(key) \/ FailurePath(key)

-----------------------------------------------------------------------------
\* Mutant of SubmitRerun: allowDuplicateMessageId is not passed.
SubmitRerunOnce(m) ==
    LET item == QueueItem(m, "workflow_switch_rerun")
    IN  \/ Enqueue(item) /\ seen[m] = 0
        \/ seen[m] > 0 /\ UNCHANGED queueVars

SubmitRerun(m) == Enqueue(QueueItem(m, "workflow_switch_rerun"))

\* /workflow switch in the thread of an active run: the message is marked and
\* submitted again while its first run goes on.  Nothing happens when the row
\* is no longer 'processing'.
SwitchWorkflow(key) ==
    /\ key \in GatewayKeys
    /\ phase # "down"
    /\ run[key].phase \in WorkPhases \cup FailurePhases
    /\ RerunMarkable(Current(key))
    /\ switches < MaxSwitches
    /\ switches' = switches + 1
    /\ MarkRow(Current(key), "rerun_requested")
    /\ rerunRequested' = rerunRequested \cup {Current(key)}
    /\ SubmitRerun(Current(key))
    /\ UNCHANGED <<retryJob, due, cursor, run, runner, intake, replay, unrecovered,
                   phase, posted, faults, crashes, historyVars>>

-----------------------------------------------------------------------------
(***************************************************************************)
(* RetryJobRunner: the timer starts a drainDueJobs() every interval,       *)
(* whether or not the last one has ended.  Each works through the rows it  *)
(* read at its start.                                                      *)
(***************************************************************************)
Snapshot(d) ==
    \E jobs \in SetToSeqs(DueJobs) :
        runner' = [runner EXCEPT ![d] =
            [IdleRunner EXCEPT
                !.jobs = [i \in DOMAIN jobs |->
                            [message |-> jobs[i], attempt |-> retryJob[jobs[i]]]],
                !.step = IF jobs = <<>> THEN "idle" ELSE "fetch"]]

Poll(d) ==
    /\ phase = "up"
    /\ runner[d].step = "idle"
    /\ DueJobs # {}
    /\ Snapshot(d)
    /\ UNCHANGED <<queueVars, storeVars, run, rerunRequested, intake, replay,
                   unrecovered, phase, posted, boundVars, historyVars>>

Job(d) == Head(runner[d].jobs)

RunnerAt(d, step) == phase # "down" /\ runner[d].step = step

\* Mutant of NextJob: the loop restarts at the first row.
SameJob(d) == runner' = [runner EXCEPT ![d].step = "fetch"]

NextJob(d) ==
    LET jobs == Tail(runner[d].jobs)
    IN  runner' = [runner EXCEPT ![d] =
            [IdleRunner EXCEPT !.jobs = jobs,
                               !.step = IF jobs = <<>> THEN "idle" ELSE "fetch"]]

\* The channel and the message were fetched; a refused item is only logged.
FetchSucceeds(d) ==
    /\ RunnerAt(d, "fetch")
    /\ LET item == QueueItem(Job(d).message, "retry")
       IN  \/ Enqueue(item)
           \/ Refused(item) /\ UNCHANGED queueVars
    /\ NextJob(d)
    /\ UNCHANGED <<storeVars, boundVars, historyVars>>

\* handleRetryJobFailure until its first await: it decides on the attempt
\* count of the snapshot.
FetchFails(d) ==
    /\ RunnerAt(d, "fetch")
    /\ Fault
    /\ \E kind \in ErrorKinds :
          runner' = [runner EXCEPT
              ![d].step = IF ChannelOf[Job(d).message] \in ForumKeys
                          THEN "forum_notify" ELSE "notify",
              ![d].retryable = Retryable(kind, "fetch_or_resolve", Job(d).attempt)]
    /\ UNCHANGED <<queueVars, storeVars, historyVars>>

RunnerNoticeSettles(d) ==
    /\ RunnerAt(d, "notify")
    /\ \/ /\ runner[d].retryable
          /\ ScheduleRetry(Job(d).message)
          /\ NextJob(d)
       \/ /\ ~runner[d].retryable
          /\ runner' = [runner EXCEPT ![d].step = "permanent"]
          /\ UNCHANGED storeVars
    /\ UNCHANGED <<queueVars, boundVars, historyVars>>

RunnerTerminalNoticeSettles(d) ==
    /\ RunnerAt(d, "permanent") \/ RunnerAt(d, "forum_notify")
    /\ ResolveAs(Job(d).message, "terminal_failure_notified")
    /\ NextJob(d)
    /\ UNCHANGED <<queueVars, boundVars, historyVars>>

\* The error leaves drainDueJobs and drops the rest of the snapshot.
RunnerPermanentNoticeThrows(d) ==
    /\ RunnerAt(d, "permanent")
    /\ phase = "up"
    /\ Fault
    /\ runner' = [runner EXCEPT ![d] = IdleRunner]
    /\ UNCHANGED <<queueVars, storeVars, historyVars>>

RetryRunner(d) ==
    /\ \/ FetchSucceeds(d)
       \/ FetchFails(d)
       \/ RunnerNoticeSettles(d)
       \/ RunnerTerminalNoticeSettles(d)
       \/ RunnerPermanentNoticeThrows(d)
    /\ UNCHANGED <<run, rerunRequested, intake, replay, unrecovered, phase, posted>>

-----------------------------------------------------------------------------
(***************************************************************************)
(* Intake and startup recovery.                                            *)
(***************************************************************************)
Unposted == Messages \ posted

\* A user posts the next message; while the process is down nobody sees it.
Post(m) ==
    /\ m \in Unposted
    /\ \A other \in Unposted : m <= other
    /\ posted' = posted \cup {m}
    /\ intake' = IF phase = "down" THEN intake ELSE intake \cup {m}
    /\ UNCHANGED <<queueVars, storeVars, run, rerunRequested, runner, replay,
                   unrecovered, phase, boundVars, historyVars>>

\* The end of handle(): the message is submitted (a duplicate is refused), or
\* it was ignored on the way.
Submit(m) ==
    \/ Enqueue(QueueItem(m, "live")) /\ UNCHANGED lost
    \/ Refused(QueueItem(m, "live")) /\ UNCHANGED <<queueVars, lost>>
    \/ lost' = lost \cup {m} /\ UNCHANGED queueVars

IntakeEnds(m) ==
    /\ m \in intake
    /\ intake' = intake \ {m}
    /\ Submit(m)
    /\ UNCHANGED <<storeVars, run, rerunRequested, runner, replay, unrecovered, phase,
                   posted, boundVars, answers>>

\* start() after a restart: the client is logged in, so live events arrive,
\* and recovery has not read any cursor yet.
Restart ==
    /\ phase = "down"
    /\ phase' = "recovering"
    /\ unrecovered' = Keys
    /\ UNCHANGED <<queueVars, storeVars, run, rerunRequested, runner, intake, replay,
                   posted, boundVars, historyVars>>

Backlog(key) == {m \in posted : ChannelOf[m] = key /\ m > cursor[key]}

\* The messages of a set, oldest first.
OldestFirst(S) ==
    {seq \in SetToSeqs(S) : \A i, j \in DOMAIN seq : i < j => seq[i] < seq[j]}

\* recoverChannelMessages reads the cursor and fetches what lies after it,
\* oldest first; a failing fetch skips the channel.
FetchBacklog(key) ==
    /\ phase = "recovering"
    /\ replay = <<>>
    /\ key \in unrecovered
    /\ unrecovered' = unrecovered \ {key}
    /\ UNCHANGED <<queueVars, rowState, leaseLive, retryJob, due, run, rerunRequested,
                   runner, intake, phase, posted, answers>>

RecoverChannel(key) ==
    /\ FetchBacklog(key)
    /\ \/ /\ key \notin CursorOnlyKeys
          /\ replay' \in OldestFirst(Backlog(key))
          /\ UNCHANGED <<cursor, lost, boundVars>>
       \/ /\ key \in CursorOnlyKeys
          /\ \E latest \in Backlog(key) :
                /\ \A m \in Backlog(key) : m <= latest
                /\ AdvanceCursor(latest)
          /\ lost' = lost \cup Backlog(key)
          /\ UNCHANGED <<replay, boundVars>>
       \/ /\ key \in CursorOnlyKeys /\ Backlog(key) = {}
          /\ UNCHANGED <<replay, cursor, lost, boundVars>>
       \/ Fault /\ UNCHANGED <<replay, cursor, lost>>

\* handle() is awaited for each fetched message.
ReplayNext ==
    /\ phase = "recovering"
    /\ replay # <<>>
    /\ replay' = Tail(replay)
    /\ Submit(Head(replay))
    /\ UNCHANGED <<storeVars, run, rerunRequested, runner, intake, unrecovered, phase,
                   posted, boundVars, answers>>

\* start() goes on with a drain of the due jobs, which it awaits.
StartupDrain(d) ==
    /\ phase = "recovering"
    /\ unrecovered = {} /\ replay = <<>>
    /\ phase' = "draining"
    /\ Snapshot(d)
    /\ UNCHANGED <<queueVars, storeVars, run, rerunRequested, intake, replay,
                   unrecovered, posted, boundVars, historyVars>>

StartupEnds ==
    /\ phase = "draining"
    /\ \A d \in Drains : runner[d].step = "idle"
    /\ phase' = "up"
    /\ UNCHANGED <<queueVars, storeVars, run, rerunRequested, runner, intake, replay,
                   unrecovered, posted, boundVars, historyVars>>

-----------------------------------------------------------------------------
(***************************************************************************)
(* The process dies (crash, signal, or start() failing after login): the   *)
(* memory is gone, the store stays as committed.                           *)
(***************************************************************************)
LoseMemory ==
    /\ seen' = [id \in MessageIds |-> 0]
    /\ lanes' = [key \in Keys |-> <<>>]
    /\ activeKeys' = {}
    /\ running' = [key \in Keys |-> None]
    /\ drainScheduled' = FALSE
    /\ run' = [key \in Keys |-> NoRun]
    /\ rerunRequested' = {}
    /\ runner' = [d \in Drains |-> IdleRunner]
    /\ intake' = {} /\ replay' = <<>> /\ unrecovered' = {}
    /\ phase' = "down"
    /\ UNCHANGED <<posted, historyVars>>

\* ... between the statements of the handler a lane is about to run: a resolved
\* duplicate, a conclusion, or the scheduling of a retry.
CutShort(key) ==
    LET m == Current(key)
    IN  \/ /\ run[key].phase = "start"
           /\ rowState[m] \in Resolved
           /\ DuplicateCutShort(m)
        \/ /\ run[key].phase \in GatePhases \cup {"redirect", "moderation"}
           /\ ResolveCutShort(m, "completed")
        \/ /\ run[key].phase \in {"permanent", "forum_notify"}
           /\ ResolveCutShort(m, "terminal_failure_notified")
        \/ /\ run[key].phase = "notify" /\ run[key].retryable
           /\ ScheduleCutShort(m)

\* ... or between those of handleRetryJobFailure.
RunnerCutShort(d) ==
    \/ /\ runner[d].step \in {"permanent", "forum_notify"}
       /\ ResolveCutShort(Job(d).message, "terminal_failure_notified")
    \/ /\ runner[d].step = "notify" /\ runner[d].retryable
       /\ ScheduleCutShort(Job(d).message)

Crash ==
    /\ phase # "down"
    /\ crashes < MaxCrashes
    /\ crashes' = crashes + 1
    /\ UNCHANGED <<faults, switches>>
    /\ \/ UNCHANGED storeVars
       \/ \E key \in Keys : CutShort(key)
       \/ \E d \in Drains : RunnerCutShort(d)
    /\ LoseMemory

\* drainDueJobs rejects inside start(): the bot does not come up.
StartupFails(d) ==
    /\ phase = "draining"
    /\ runner[d].step = "permanent"
    /\ Fault
    /\ UNCHANGED storeVars
    /\ LoseMemory

-----------------------------------------------------------------------------
Clock(m) ==
    /\ LeaseExpires(m) \/ JobFallsDue(m)
    /\ UNCHANGED <<queueVars, volatileVars, posted, boundVars, historyVars>>

Startup == \/ \E key \in Keys : RecoverChannel(key)
           \/ ReplayNext
           \/ \E d \in Drains : StartupDrain(d)
           \/ StartupEnds

Next ==
    \/ DrainQueue
    \/ \E key \in Keys : Process(key) \/ SwitchWorkflow(key)
    \/ \E d \in Drains : Poll(d) \/ RetryRunner(d) \/ StartupFails(d)
    \/ \E m \in Messages : Post(m) \/ IntakeEnds(m) \/ Clock(m)
    \/ Startup
    \/ Restart
    \/ Crash

\* Every await settles, timers fire and microtasks run.  Nothing is assumed of
\* users, administrators, failures and crashes.
Fairness ==
    /\ WF_vars(DrainQueue)
    /\ \A key \in Keys : WF_vars(Process(key))
    /\ \A d \in Drains : WF_vars(Poll(d)) /\ WF_vars(RetryRunner(d))
    /\ \A m \in Messages : WF_vars(IntakeEnds(m)) /\ WF_vars(Clock(m))
    /\ WF_vars(Startup)
    /\ WF_vars(Restart)

Spec == Init /\ [][Next]_vars

FairSpec == Spec /\ Fairness

-----------------------------------------------------------------------------
(***************************************************************************)
(* Properties.                                                             *)
(***************************************************************************)

\* The item of this message and source is in the queue or about to acquire.
Submitted(m, source) ==
    \/ Queued(QueueItem(m, source))
    \/ /\ running[ChannelOf[m]] = QueueItem(m, source)
       /\ run[ChannelOf[m]].phase = "start"

\* A process() that has acquired the message is under way.
InProcess(m) ==
    \E key \in Keys :
        /\ run[key].phase \in InHand
        /\ Current(key) = m

Owned(m) ==
    \/ rowState[m] \in Resolved
    \/ retryJob[m] > 0
    \/ m \in intake \/ m \in ToSet(replay) \/ m \in lost
    \/ InProcess(m)
    \/ \E source \in Sources : Submitted(m, source)

\* A row waiting for a retry has the job that will retry it: the notice has
\* promised one, and neither another submission nor startup recovery takes
\* such a row.  Holds while the process lives.
PendingRetryHasJob ==
    \A m \in Messages : rowState[m] = "pending_retry" => retryJob[m] > 0

\* The message is about to be concluded: by a run of process() that has acquired it,
\* or by a drain whose last notice for its job is out.
BeingConcluded(m) ==
    \/ InProcess(m)
    \/ \E d \in Drains :
          /\ runner[d].step \in {"permanent", "forum_notify"}
          /\ Job(d).message = m

\* A row is left in pending_retry without its job only when the process dies between
\* the statements that conclude it, and then by one of two conclusions: the runner's
\* own terminal failure, or a run of process() whose message the runner has meanwhile
\* put back to pending_retry.  schedule(), the acquisition and a switch never do it,
\* wherever the process dies; so says the order of the statements of schedule().
OnlyCutConclusionStrands ==
    [][\A m \in Messages :
          /\ rowState'[m] = "pending_retry" /\ retryJob'[m] = 0
          /\ rowState[m] # "pending_retry" \/ retryJob[m] > 0
          => phase' = "down" /\ rowState[m] = "pending_retry" /\ BeingConcluded(m)]_vars

\* A row is 'processing' only while process() works on it.  There are two ways out: an
\* error of an await before its try block, of which nobody hears, and a switch whose
\* rerun was refused, so that every later run of the message stops for it.
ProcessingIsWorkedOn ==
    \A m \in Messages :
        rowState[m] = "processing" => InProcess(m) \/ m \in lost \/ m \in rerunRequested

\* A row waiting for its rerun has the rerun in the queue: a row of this state
\* has no lease and no timer, only the queued item takes it on.
RerunRequestedIsQueued ==
    \A m \in Messages :
        rowState[m] = "rerun_requested" => Submitted(m, "workflow_switch_rerun")

\* Every unfinished row has somebody who works on it or will: with PendingRetryHasJob,
\* none of the states processing, rerun_requested and pending_retry is a dead end.
UnfinishedRowsHaveOwners == TypeOK /\ ProcessingIsWorkedOn /\ RerunRequestedIsQueued

\* The cursor of a channel, where recovery starts after a restart, never
\* passes a message that nothing will take care of any more.
CursorCoversOnlyOwned ==
    \A m \in posted : m <= cursor[ChannelOf[m]] => Owned(m)

\* Public answers have causes: the message itself, and for each further one a
\* failed call, an accepted switch or a crash.  Queue, acquisition and retry
\* bookkeeping alone never answer a message twice.
AnswersHaveCauses ==
    \A m \in Messages : answers[m] <= 1 + faults + switches + crashes

\* A rerun of the message was requested and is not on its way, because it was refused:
\* the switch came during a failure notice, and its rerun met a row that the retry had
\* put to pending_retry.  The request stays, so every retry stops for a rerun that
\* never comes (shouldStopForWorkflowSwitchRerun), until another switch or a restart.
RerunRefused(m) ==
    m \in rerunRequested /\ ~Submitted(m, "workflow_switch_rerun")

\* Once calls stop failing, every message that reaches a running bot is
\* resolved and stays so, or was given up by handle() or by an error that
\* leaves process(), with no retry job remaining; unless the process dies first or
\* a switch overtook a failure notice of the message (RerunRefused).
EventuallyResolved ==
    \A m \in Messages :
        m \in intake ~>
            \/ phase = "down" \/ RerunRefused(m)
            \/ [](rowState[m] \in Resolved \/ (m \in lost /\ retryJob[m] = 0))

\* A retry job is worked off, across restarts: its row is retried until the
\* message is resolved or its job replaced by a decision; unless a switch overtook a
\* failure notice of the message, and then only until the next restart.
RetryJobsAreWorkedOff ==
    \A m \in Messages : (retryJob[m] > 0) ~> (retryJob[m] = 0 \/ RerunRefused(m))

\* The bot comes up again, although start() awaits recovery and a drain of
\* jobs whose failure notices may fail.
ComesUpAgain == (phase = "down") ~> (phase = "up")

=============================================================================
