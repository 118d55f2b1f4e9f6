# VRC-AI-Bot in TLA+

A Discord bot (TypeScript, Node, better-sqlite3) that answers messages with the
help of the Codex app server. This directory models how it keeps track of the
messages it owes an answer (queue, retries, reruns, crashes, startup recovery),
the client and the sessions through which it talks to Codex, what a message
goes through in the harness and in forum research, the gates in front of a
thread, moderation, override threads, and the lock and the weekly announcement
of the process.

Paths below are relative to `src/implementation/src/`.

## The system

Node runs the program on one thread. Handlers interleave only at `await`;
better-sqlite3 is synchronous, so repository calls between two awaits form one
step, except that each statement is committed by itself: a dying process may
leave the first ones only.

| Part | Code | State it keeps | Operations | What must hold | Hard because |
|---|---|---|---|---|---|
| Ordered queue | `queue/ordered-message-queue.ts` | lanes, seen counts, active lanes, drain flag | enqueue, drain, runLane, releaseSeen | per-channel order, concurrency limit, no lost wakeup, duplicate guard | microtasks, worker promises, reruns with the same id |
| Message processing | `runtime/message/message-processing-service.ts` | continuations of `process()` | process, failure handling, conclusions | each message answered or given up once, promises of a retry kept | every await may fail; two actors on one row |
| Tables | `storage/repositories/{runtime,config}-repositories.ts` | message_processing, retry_job, channel_cursor | tryAcquire, mark*, upsert, delete, listDue | rows, jobs and cursors agree | unconditional updates, no transaction around them |
| Retry runner | `runtime/scheduling/*` | timer, snapshots of due jobs | schedule, poll, drain | jobs end, attempts are bounded | overlapping drains, stale snapshots |
| Reruns | `runtime/thread/workflow-switch-rerun-service.ts` | active runs, requested ids | trackActive, requestRerun, clear | a promised rerun happens | a run that is already past its last check |
| Intake | `runtime/message/message-intake-service.ts` | handlers between awaits | handle | messages reach the queue once | awaits before the enqueue |
| Startup recovery | `runtime/message/startup-message-recovery-service.ts` | backlog being replayed | recoverPendingMessages | nothing posted while down is missed | runs while live events arrive |
| Lifecycle | `app/bot-app.ts`, `main.ts` | started flag, timers, runtime lock | start, stop, heartbeat | one instance, a start that ends | a start that fails half way |
| Runtime lock | `AppRuntimeLockRepository` | one row | tryAcquire, renew, release | one live instance | lapsed leases, pid reuse |
| Weekly meetup | `runtime/scheduling/weekly-meetup-announcement-service.ts` | delivery row, timer | poll, sendAnnouncement | one announcement a week | crash between send and row; two clocks in `start()` |
| Sessions | `codex/session-manager.ts`, `CodexSessionBindingRepository` | live cache, bindings | getOrStart, bind, archive, invalidate | cache, binding and server agree | awaits between read and write |
| Codex client | `codex/app-server-client.ts` | pending requests, turns, child process | request, runTurn, interrupt, close | every caller gets its own answer | pairing by thread, dying child, idle close |
| Admin, overrides | `runtime/admin/*`, `override-repository.ts` | override_session | start, bootstrap, end, /workflow | only the opener writes, nothing open after the end | bootstrap and commands run beside the queue |
| Workflow gates | `runtime/thread/*`, `runtime/clear-explanation/*` | route rows, gate rows, ephemeral threads | resolve, decide, switch, rerun | answers follow the stored route | switch at every await |
| Chat engagement | `runtime/chat/*` | counters | evaluate, derive again on a retry | a mention is never passed over | the fact is not stored with the job |
| Harness | `harness/*` | one run of a message | routeMessage, runAnswerFlow, retries, guard | only visible sources, bounded turns | nested budgets, state kept between runs |
| Knowledge | `knowledge/*`, `reply-dispatch-service.ts` | records, texts, links, threads | persist, link, visibility | links point to something whole | three inserts without a transaction |
| Forum research | `harness/forum-research-pipeline.ts` | catalog, prompt artifact, workers | refine, rounds, collect, final turn | citation numbers are stable, evidence survives | workers end in any order or never start |
| Moderation | `runtime/moderation/*`, `discord/moderation-executor.ts` | violations, sanctions, notices | checkSoftBlock, recordAndEvaluate | one sanction per crossing | exact threshold, failing Discord calls |

A message posted on Discord reaches `handle()`, which awaits a few calls and
enqueues it. The queue calls `process()` for the head of a free lane. It
acquires the row, passes three gates, resolves a reply with Codex, publishes it
and concludes. A failure is announced and either scheduled in `retry_job` or
made terminal. The retry runner polls due jobs and enqueues them again. A
workflow switch marks the active row and enqueues a rerun. After a restart,
recovery replays what lies after the channel cursors. The reply is made by the
harness (two turns and up to two retries) or, in a forum thread, by the
research pipeline; both take a session from the session manager, whose threads
live in the app server behind the client.

## Modules

Each part is a module of its own that takes from its neighbours what their
properties promise: ThreadWorkflow takes the queue as SerialExecutor describes
one key, HarnessRunner and ForumResearch are the `resolve` and `dispatch` awaits
of MessageRuntime seen from inside, and their retries are bounded by what
MessageRuntime says about jobs. Three modules compose by EXTENDS: MessageRuntime
(OrderedMessageQueue, MessageStore), AdminOverride (SessionManager) and
WeeklyMeetup (RuntimeLock).

`OrderedMessageQueue` - the queue. `seen`, `lanes`, `activeKeys` and
`drainScheduled` are the fields of the class; `running[key]` is the item
`runLane(key)` awaits. `Enqueue`, `Drain` and `WorkerSettles` are the three
moments control enters the class. `Array.sort` is stable, hence
`SortedPositions`; the head of a lane is shifted in the step of `Drain` because
`runLane` runs synchronously up to its first await. The last conjunct of
`Selections` is the order in which the loop of `drain` picks lanes.

`SerialExecutor` - what the queue promises, without lanes, counts or drains: a
bag of accepted items, started oldest first per key, one per key and
`MaxConcurrentKeys` in all, each started in the end. The queue implements it
under the mapping in `Executor`, liveness included.

`MessageStore` - the tables. `retryJob[m]` is the attempt count (0: no row),
`leaseLive` and `due` say whether a stored time lies in the future or past;
`LeaseExpires` and `JobFallsDue` let it pass at any moment. The `...CutShort`
operators are what a handler leaves when the process dies between its
statements; MessageRuntime takes them for the handlers of lanes (`CutShort`,
the skipping of a resolved duplicate included) and for those of the runner
(`RunnerCutShort`).

`MessageRuntime` - composes the queue and the tables with everything that acts
on them. `run[key].phase` is the await where `process()` stands:

| phase | await in `process()` |
|---|---|
| `start` | none yet: called, about to acquire |
| `admission`, `preflight`, `route` | the three awaits before the try block |
| `redirect`, `bootstrap`, `resolve`, `dispatch`, `moderation` | the awaits of the try block |
| `notify`, `permanent` | public notice and notice to administrators |
| `forum_notify` | notice of a forum research failure |

`runner[d]` is one `drainDueJobs()` call: the rest of its snapshot and the
await it stands at. `phase` is the life of the process: down, recovering
(events bound, recovery not finished), draining (`start()` awaits the drain),
up. `answers` and `lost` are history variables that only properties read.

Abstractions. A message is a number, its channel fixed. Replies and notices are
events; errors are transient or permanent (`FailureClassifier` retries the
first only). What the admission, gates and engagement decide is a free choice
here; ThreadWorkflow decides it. `bootstrap` covers the forum first-turn
preparation. A dispatch that fails may or may not have published its reply.
Public failure notices are taken as sent; their errors are caught and change
nothing. The order of due jobs is arbitrary, which includes the order of
`next_attempt_at`. The early return of `process()` for clear-explanation places
outside threads is left out: intake never submits such messages. Recovery
fetches one batch, of channels that have a cursor. `Crash` also stands for
`stop()` on a signal and for a `start()` that fails (a replayed `handle()` that
throws, the weekly poll); `StartupFails` is the failing drain, named because a
job causes it.

`RuntimeLock` - the row that keeps a second process off the database, next to
the life of several processes (MessageRuntime has one process at a time, which
is what this module is about). `Start` is `tryAcquire`, `Heartbeat` the timer
with `renew`, `BeginStop` and `EndStop` the two halves of `stop()` around the
release of the row. A pid belongs to a process, to another program or to
nobody; `Used` is what `kill(pid, 0)` sees. `lapsed` is history: who let a
lease run out. A `renew` that finds the row taken changes nothing and nobody
looks at its result, so a late process goes on beside its successor; the
properties say what holds nevertheless. `stop()` releases before the clients
are closed, so the exclusion is between `active` processes.

`WeeklyMeetup` - one occurrence of the announcement on top of the lock.
`time` is before 18:00, in the window, or after the event; `task[p]` is the
poll of a process at its awaits; `booting` has not set its timer yet, because
`start()` polls first and schedules afterwards, each with a clock of its own.
`stop()` clears the timer but lets a poll in flight go on. The clock waits for
timers: no timer or startup is three hours late. A timer that fires early sets
itself again and is a stutter.

`CodexAppServerClient` - the JSON-RPC client with its child process. `client`
holds the fields of the class: the process, the shared start, the pending
requests, the completions queued by thread and those bound to a turn id. A
caller resumes its thread, starts a turn, waits and reads the answer with
`ReadAttempts`. `out[c]` is the stdout of child c, line by line, also when the
client has gone on to the next child. The server is external: it may refuse,
fail a turn, die, or answer late. `strayed` marks threads on which a refused
start or the output of a replaced child has left a completion behind; the
properties are about the others and say so. Not modelled: steering
(2005-2077) and the timed wait (1246-1309), which nothing in the program calls.

`SessionManager` - `live` is the cache, `bound` the table, `generation` the
client's count of skill changes and `cached` the manager's. A call stands at
one await (resume, start, archive, unsubscribe) and knows what it had read.
What the server does for a resume or a start and what the caller makes of the
answer are two steps (`StartSettles`, `BindStarted`), since an announcement of
changed skills may be read in between. Two variables are history: `overlapped`,
the identities on which two callers worked at once, and `overtaken`, the threads
whose skills changed before they were cached.

`AdminOverride` - one override thread on top of the sessions: the command, its
bootstrap prompt, messages of the opener and of others, `/override-end`, and a
restart. Messages take turns, as the queue has it; commands do not.

`ThreadWorkflow` - engagement at intake and again at admission, the question
gateway, the clear-explanation gate, and `/workflow` with its rerun and
interrupts, for one place of any kind. `run.at` is the await of `process()`;
`open` and `leaked` count ephemeral threads.

`HarnessRunner` - a message through `routeMessage`, `runAnswerFlow` with the
follow-up and the output-safety retries, the guard, and the dispatch that opens
a knowledge thread, binds it and stores records. `evidence[m]` is
`approvedKnowledgeEvidenceByMessageId`, which outlives a run. What the model
behind the turns answers is free. Crash and failure leave a prefix of the
inserts. `Place` is where a message may read, `ScopedPlace` where what it leaves
is stored: a shared link belongs to its message, not to the channel. A follow-up
resumes the session its thread is bound to, or starts one and binds it, as the
opening of the thread does with the session of the ingest; the last call wins,
and `estranged` is the history of threads for which that, or a session that
could not be resumed, took the ingest's away.

`ForumResearch` - one forum thread: the prompt artifact, rounds of workers in
`Slots` (ephemeral threads), the catalog whose order numbers the citations, the
final turn and its one recovery. Rounds are bounded here by `MaxRounds`; the
code does not bound them.

`SanctionPolicy` - one user: the soft block, the violation stored after the
answer, the count against the threshold, and the timeout or kick whose call may
be refused or lose its answer. Times are small numbers in the order of the
windows (`Short` < `Rolling` < `Lookback`). Storing a violation and judging it
are one synchronous step; the sanction is stored when Discord has answered, with
the time of the judgement, and the clock runs on meanwhile.

`MCOrderedMessageQueue`, `MCMessageRuntime`, `MCCodexClient`, `MCAdminOverride`,
`MCHarnessRunner`, `MCSanctionPolicy` - instances for TLC; the other modules are run directly with
model values. A module `X_proofs` holds the theorems about `X`;
`MessageRuntime_proofs` also those about `OrderedMessageQueue`,
`RuntimeLock_proofs` those about `WeeklyMeetup`, `AdminOverride_proofs` those
about `SessionManager`.

An operator whose comment begins "Mutant of" is a plausible mistake in the
operator it stands before; putting it in that operator's place must make TLC
find the property named in PROJECT.json violated.

## Runs

Bounds: `MaxSubmissions` (accepted queue submissions), `MaxFaults` (failing
calls, and in the smaller modules crashes as well), `MaxSwitches`, `MaxCrashes`,
`MaxRestarts`, `MaxSkillChanges`, `MaxRounds`, `MaxTime`, `MaxStrangers`
(foreign programs), `Waits` (the stages of a moderation run in which time may
pass). Each is in the guard of the action it counts. Deadlock is
not checked: a quiet server is a state where nothing happens, and what a run
owes is stated by liveness properties.

| run | instance | shows |
|---|---|---|
| `queue` | 3 keys, 2 slots, 7 submissions, four messages, two of them with reruns | `QueueInv` (types, slots, wakeups, order), `SeenCountsInFlight`, `StartsInOrder`, refinement of `SerialExecutor` |
| `retry` | 2 messages of a gateway thread, 2 overlapping drains, limit 2, 2 faults, 1 switch | `UnfinishedRowsHaveOwners`, `PendingRetryHasJob`, `CursorCoversOnlyOwned`, `AnswersHaveCauses` |
| `restart` | 1 message, 2 drains, limit 2, 2 faults, 1 switch, 1 crash, fairness | `EventuallyResolved`, `RetryJobsAreWorkedOff`, `OnlyCutConclusionStrands` |
| `startup` | a plain-chat and a forum channel, limit 1, 3 faults, 1 crash, fairness | `ComesUpAgain` |
| `lock` | 2 processes, 3 pids, 1 foreign program, 2 faults, fairness | `LockInv`, `ExclusiveWhileInTime`, `DeadHolderIsReplaced`, `MeetupInv`, `MeetupIsNotMissed` |
| `codex` | 2 turns on one thread or two, 2 children, 2 reads, 1 fault, fairness | `ClientInv`, `OwnAnswer`, `TurnsSettle`, `IdleServerCloses` |
| `override` | the command, 3 messages, an end, 5 Codex threads, 1 fault, 1 restart, 1 skill change | `SessionInv`, `EndedMeansClosed`, `WriteNeedsOverride`, `FreshAfterSkillsChange` |
| `gate` | 2 messages in a place of each kind, 2 switches, 2 faults, fairness | `GateInv`, `AnswersFollowTheRoute`, `SwitchSticks`, `EveryMessageConcludes` |
| `harness` | a shared link and a directed follow-up, 2 URLs, limit 2, 2 faults | `LinksAreWhole`, `OnlyOwnSourcesAreSent`, `DirectedFollowUpIsAnswered`, `ApprovedWritesAreLinked` |
| `research` | 2 messages, 2 workers in 3 slots, 2 rounds, 2 faults, fairness | `RunInv`, `NumbersKeepTheirMeaning`, `CollectedIsKept`, `EveryMessageConcludes` |
| `moderation` | 3 messages, threshold 2, 5 points in time, 1 fault | `SanctionInv`, `OneTimeoutPerCrossing`, `OffendersAreSanctioned` |
| `rerun_workflow` | the gate instance | refutes `RerunTakesTheNewWorkflow` |

Invariants that belong together are one conjunction of named parts, each part
with its own comment in the module; the type invariant is always among them.

Why these bounds. In the runtime, the actors that can hold the same message are
a run, its queued duplicate and the runner's snapshots, and two of a kind
already overlap. Two messages of one channel give every order at a cursor and
in a lane; a second channel adds only independence, which the queue run covers
with three keys. Two faults let a retry fail; a limit of 2 lets the runner
reschedule what a run still holds, which limit 1 excludes. The restart run has a
switch as well, since one that overtakes a failure notice is what a retry cannot
recover from by itself. The startup run needs the third fault: the first leaves a
job, the second makes the runner give it up, the third makes that notice fail
while `start()` awaits it. Two processes are a late holder and its successor, which is
all that `kill`, lapse and announcement tell apart; three exceed what TLC
enumerates with the announcement on top, and the theorems about the lock and the
announcement hold for any number. Two turns can be mistaken for each other on one thread, two
children are the old and the new one. Five Codex threads are one for each
caller that may start one; one fault is enough there, since a restart or changed
skills may come on top. Two workers in three slots leave one of a failed
launch running beside a full round. The opener's messages of the override
run are interchangeable (`MCSymmetry`). Two faults of the harness are a session
that cannot be resumed and a dispatch that fails. A threshold of 2 has the same
exact comparison as 5, and three messages are enough for one judged while the
sanction of another is awaited and an old violation leaves the window; five
points in time put two events inside, at the edge of, and outside each window.
`Waits` lets time pass before and after a run, before a retry, while the answer
is made and while Discord is asked. It leaves out the notice and the completion of
the row, where it only prolongs what comes before, and runs of administrators,
which never count; the theorems hold for any `Waits`. The workers of a run, the messages of a lane and
the retries of a message are symmetric or ordered; a third one repeats a
situation two of them had.

`rerun_workflow` refutes something the repository says; PROJECT.json quotes it
under `findings`. A switch while the starter message is worked on marks the row
and enqueues a rerun, as the administrator is told. The rerun carries the item
that was tracked after its place had been replaced by the one of the old
workflow, so the gateway no longer takes it for a question thread and the rerun
works with the old workflow again. The test of the rerun uses a gateway that
routes whatever place it is given.

## Fairness

Weak fairness of what Node and the operating system do by themselves, never of
users, administrators, failures or crashes: their number is bounded instead, so
liveness is about what happens once calls stop failing.

- `MessageRuntime`: the drain microtask; each lane's handler (every awaited call
  settles, by success or error; the Codex client and discord.js have timeouts);
  each drain and the poll timer; the intake handlers; the clock; `start()` and
  the supervisor that starts the process again.
- `RuntimeLock`: the supervisor, the end of `stop()` and the lapse of a dead
  holder's lease; none of heartbeats, which may be late for ever.
- `CodexAppServerClient`: callers go on, the client reads the child's output,
  the child serves requests, ends its turns, and exits when told; the close
  event and the idle timer come. An unanswered interrupt is a fault, so its
  timeout needs no fairness.
- `ThreadWorkflow`, `ForumResearch`: every await settles, due jobs fall due, a
  supervisor that has had its rounds finalizes.

`SessionManager`, `HarnessRunner` and `SanctionPolicy` state safety only.

## Proofs

Every safety property of a passing run is a theorem, for every value of the
constants. Each is the consequence of an
inductive invariant of its module; what the invariant adds to the property is
the reason why the code is right, so that is what is told here. The bounds
(`MaxFaults`, `MaxCrashes`, ...) are any natural numbers.

`MessageRuntime_proofs` is about OrderedMessageQueue first, with nothing of the
runtime. `QueueInv` is type correctness,
`ActiveIffRunning`, `ConcurrencyBound`, `NoLostWakeup` and `LanesSorted`. None
but the first two is inductive alone: a lane that exits keeps `NoLostWakeup`
only because it was counted in `activeKeys`, which is `ActiveIffRunning`;
`StartsInOrder` is an action property of sorted lanes (`TakeHead`).
`SeenCountsInFlight` counts positions of lanes and running items: an insertion
adds one, taking a head moves one, a settlement removes one, and distinctness of
the rest follows from the duplicate filter. `QueueImplementsExecutor` is the
safety part of the refinement: the queue starts as the executor does, and under
the mapping of `Executor` an enqueue is a submission, a drain starts the oldest
items of several idle keys at once, a settlement ends one item.

Then it is about MessageRuntime, by four arguments.
- `StepsAreStoreEffects`: every step changes rows and jobs by one of five store
  operations or by one cut short (`CutShortCases`: in a lane or in the runner);
  `EffectsKeepJobs` and `CutShortStrandsOnlyConclusions` are about those. This
  gives `PendingRetriesKeepTheirJob` and, for crashes,
  `CrashesStrandOnlyCutConclusions`: why the order of statements in
  `schedule()` is right and where it is not enough.
- `RuntimeInv`: lanes, queue, drains and recovery agree on what is in hand. It
  reduces the queue's variables to `QueueInv` and gives every other argument the
  types of what a handler has read.
- `Charge`: the answers given, the one owed to the run in hand, and those
  promised by queued reruns and jobs form a balance that only a fault, an
  accepted switch or a crash raises. `AnswersHaveCauses` is its upper bound; it
  needs all of these terms since each action moves a unit between two of them.
- `LiveInv`: until the process first dies, each row has somebody who will take
  it on (its run, a queued rerun, a drain, an intake or replay) and the cursor
  passes only rows of that kind. `UnfinishedRowsHaveOwners`,
  `CursorCoversOnlyOwned` and `PendingRetryHasJob` are false after a crash, for
  the reasons under "What the code does not promise". The run checks them with
  `MaxCrashes` 0; the theorems say `crashes = 0 =>` instead and hold for every
  `MaxCrashes`.

`RuntimeLock_proofs`. `LockInv` (types and `InTimeKeepsRow`) is inductive:
whoever starts beside an in-time process sees a live lease of a pid that is in
use and not its own (`InTimeBlocksStart`), and only the owner renews or deletes
the row. `LockExcludes` follows, since the row names one holder. Each step of
the announcement is a step of the lock or leaves it alone (`MeetupLockSteps`),
so the same invariant holds there. The announcement adds `PostsBounded` (each
process may post from its startup and from its timer, chances are only spent),
`Once` (unless something was cut off or started beside a late process, one
process lives at a time and knows whether the announcement was made) and
`Watching` (who had a timer before the window has it still, announces, or has
seen to it).

`CodexAppServerClient_proofs`. `PairingInv` has two halves. `BooksAreKept` holds
whatever the server does: completions stay on the queue and under the turns of
their own thread, the callers of a thread take turns, and a pending request is
the one its caller awaits. `TurnsAreTaken` is about the threads on which nothing
has strayed while the bot is up. Of such a thread at most one completion is in
the books (`Books`), that of the caller who awaits it (`Waited`), who is also
the only one the process can still be talking about (`HeldByCaller`); so the
lookup by thread finds the right one. A completion line is the last word on its
turn (`EndsLast`), so a completion resolved before its caller awaits it leaves
nothing that could meet the next turn (`ResolvedAreOver`). `ClientInv` is one
conjunct of the first half, and so is `OwnAnswer`: neither is inductive, as a
message of another turn could be in `heard` or be answered for by `bound`,
which `OwnNames` excludes and only the other parts keep out. A request to the
process, a lost process and a replaced one are lemmas of their own, as several
actions share them (`RequestKeeps`, `LosingTheProcess`, `HearingKeeps`).

`AdminOverride_proofs`. For the session manager: `Alone` (an identity on which
nobody overlapped has one caller at a time, and that caller holds the thread
that is bound), `Apart` (no thread is known under two identities, however
callers overlap, because a thread enters under the identity it was started
for) and `Fresh`: what is cached under the present generation was started or
resumed with the present skills, or is `overtaken`: the answer that put it into
the cache was older than the last change. For the override: `EndsArchive`, `OthersRead` and `Closed`:
without an active override there is no write session and nobody on the way to
one. `Closed` needs the first two, as the only callers who could be on the way
are the opener, whom the queue keeps from running beside another, and the
command, whom `Start` precedes.

`HarnessRunner_proofs`. The tables of knowledge only grow, so a step of one run
never takes from another; bindings are replaced, and `LinkedThreadsAreBound` says
why that leaves linked knowledge its session: a thread is bound before the first
link to it is stored, and a run that could still bind another one has made it
`estranged`. `RunsAreSound` describes one run from step to step: which
sources its turn has seen, what the guard let through, which inserts it has
made (`text` before `link`).

`ForumResearch_proofs`. `CatalogInv`: a run that has loaded the catalog knows
exactly the stored one, since it writes after each packet and a thread has one
run at a time; what is answered is then a prefix of all catalogs to come, which
is what keeps citation numbers. `WorkersInv`: a run awaits workers in two phases
only and leaves them with none or by giving all up.

`SanctionPolicy_proofs`. A run judges in one step and records its sanction in a
later one, when windows have moved on. `PolicyInv` speaks of the time of the
judgement (`JudgedAt`), which the sanction will carry. Two judgements that both
counted exactly the threshold, the later one with a violation more, differ in one
that has left the window (`HasLeft`, `LeftForGood`); a judgement after the
sanction was recorded finds it in the lookback and passes to the kick. So two
timeouts within the lookback mean that an old violation left while the answer to
the first was awaited, which is the exception `OneTimeoutPerCrossing` names.
Recorded events and sanctions are never removed, so what a judgement rested on is
still there when its sanction is stored (`TablesStand`, `JudgementStays`).

`ThreadWorkflow_proofs`. `ThreadInv` is what is known of the one run of the lane
at each stage, of the gate and of the ephemeral threads; a `/workflow` command
is the only step that changes the route under a run, and it marks the run.

Assumptions, all named and next to their constants, evaluated by TLC on every
run: ids are natural numbers; the sets of messages, keys, drains, slots and
processes are finite; `None` and `NoRow` are not data; limits are positive;
items and places are what `QueueItem` and the tables make of messages; each turn
is run on one thread; the callers of an override are the command, messages and
ends, which are distinct; windows are ordered as in the configuration and the
threshold exceeds one.

Only model-checked: liveness and the fairness of the refinement, which are out
of the prover's reach.

## What the code does not promise

Behaviours the models contain and the properties except, each by a named
condition in the formula and its comment. They follow from the code as it is; nothing in the repository says
otherwise.

Runtime. An await before the try block of `process()` that rejects leaves the
row processing until its lease ends and a restart replays it (`lost`). A failing
notice to administrators makes a message that ended be retried. A switch during
post-response moderation finds a run past its last check; during the failure
notice the rerun is refused, and every later retry stops for a rerun that never
comes, until another switch or a restart (`RerunRefused`). A live message that completes before recovery has
read the cursors hides the backlog behind it. A process that dies between the
two statements of a conclusion strands a pending retry, if the runner was ending
the job (retry-job-runner's terminal failure deletes the job and then marks the
row) or had put the row back to pending under the run that concluded
(`BeingConcluded`). A lane that always has
work keeps its slot, and two messages of a channel may overtake each other
between `handle()` and the queue. A retry reads its attempt count before it
awaits the notice, so the count may pass the number of delays by one.

Codex client. A refused `turn/start` leaves its completion in the queue of its
thread (`strayed`). A failing process that rejects a completion nobody awaits
yet ends the bot with an unhandled rejection (`crashed`). A failed turn does not
set the idle timer again. The bootstrap prompt of `/override-start` runs beside
the queue, so that sessions of one thread take turns is what the queue gives
messages only.

Sessions. The generation of the skills is read when a session is cached. A
change announced after the server has started or resumed the thread and before
that, for instance in the same chunk of its output, goes unseen, and the session
is taken for fresh until the next change (`overtaken`). Two callers of one
identity may leave cache and table with different threads (`overlapped`).

Overrides. `/override-end` archives before it ends the override, so a run in
between may leave a new write binding or a thread nobody archives
(`overlapped`). An archive whose answer was lost makes later `/override-end`
commands fail until a new run has replaced the thread. `failClosedAllActive` has
no caller.

Harness and knowledge. The output-safety retry is judged by the URLs of the
second turn only (harness-runner.ts:526-532), so that an obedient retry may be
refused; `allow_knowledge_write` is not checked. A member who writes in a
knowledge thread before it is bound has a session started for it, which replaces
the ingest's when its answer comes last; a session that cannot be resumed is
replaced too (`estranged`). A retried ingest whose thread
exists fails each time. Diagnostics for administrators answered with `ignore`
after the visibility check leave a directed follow-up unanswered. A text missing
after a crash between two inserts is not added later (`cut`).

Forum research. The supervisor is asked only when no worker runs, so its
interrupts never find one. Two tasks with one id in a decision leave one worker
behind. A failed launch leaves its siblings running, and a thread whose turn
could not start is not closed. A message that does not address the bot reuses
the stored prompt of an earlier one. `runOutputSafetyRetry` cannot be reached,
`primaryReplyAlreadySent` is never true.

Moderation. While the answer to a timeout is awaited, an old violation may leave
the window and a further one make the count exact again: a second timeout, for a
crossing of its own, before the first is on record (`HasLeft`). A crash between
the row of a violation and that of its sanction, or a replay of the message,
steps over the exact threshold (`lost`). A second kick decided beside the first
finds no member and becomes a 30-day block. A lost answer is recorded as the
block that stands in for the call. The notice of a block is remembered before it
is sent.

Gates. A sparse engagement is derived anew for a retry and may then be ignored
although the retry was promised. The interrupt of `/workflow` may hit the rerun.

Announcement. `stop()` releases the lock while a poll is in flight, so a restart
at 18:00 may announce twice. A `start()` that polls before 18:00 and sets its
timer after it misses the week. A failed poll is tried again the next week or by
a restart in the window; a channel that cannot be fetched is one that fails.

## Not modelled

Configuration parsing, Discord formatting helpers, observability, the generated
protocol types, the migrations and the operations scripts keep no state that the
behaviour above depends on. Of the modelled parts: prompts, chunking, images and
streaming edits of replies; fetching and extracting public sources and the
ranking of retrieval (pure or external); forum places in HarnessRunner, whose
answer turn is ForumResearch; the room history and the chat-runtime switch,
which only shape prompts and reject commands; the test announcement, skip dates
and the text of the announcement; command registration and cursor seeding;
recovery of threads without a cursor; other identities in SessionManager, which
have no lifecycle of their own.

## Plan

Abstract specifications for two more parts, with the refinement proved as for
the queue: of the runtime lock (a mutex that only late processes break) and of
the Codex client (a call per caller that ends with the message of its own turn
or an error).
