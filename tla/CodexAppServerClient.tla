------------------------ MODULE CodexAppServerClient ------------------------
(***************************************************************************)
(* The JSON-RPC client of the Codex app server: lazy start of the child    *)
(* process, requests, the pairing of turn notifications with the callers   *)
(* that wait for them, reading the answer, interrupts, failing and         *)
(* replaced children, idle close.                                          *)
(*                                                                         *)
(* A caller resumes its thread, starts one turn on it, waits for its       *)
(* completion and reads its message: runTurnAndReadMessage after a request *)
(* of SessionManager.  The server is external; it may refuse, fail, die    *)
(* and be late.                                                            *)
(***************************************************************************)
EXTENDS Integers, Sequences, SequencesExt

CONSTANTS Turns, Threads, None,
          Sessions,      \* the ways the turns may fall on the threads
          Children,      \* child processes that may exist at once, ids reused
          Interruptible, \* bound: the turns somebody may interrupt
          ReadAttempts,  \* 5 in readLatestTurnSnapshotWithRetry
          MaxFaults      \* bound: refusals, failing turns, deaths, unanswered interrupts

ASSUME TurnAssumption == None \notin Turns \cup Children /\ Sessions \subseteq [Turns -> Threads]
ASSUME AttemptAssumption == ReadAttempts \in Nat \ {0} /\ MaxFaults \in Nat

VARIABLES threadOf, \* turn -> the thread of the session it is run in
          client,   \* the fields of CodexAppServerClient
          caller,   \* turn -> the await its caller stands at; sent: past ensureStarted
          bound,    \* turn -> turnId of its TurnCompletion
          heard,    \* turn -> whose message is in lastAgentMessage
          resolved, \* turns whose completion was resolved before anyone awaits it
          reads,    \* turn -> thread/read attempts
          answer,   \* turn -> whose message its caller was given
          child,    \* child -> state of the process
          told,     \* children that were sent SIGTERM
          inbox,    \* child -> requests it has not handled
          running,  \* child -> turns it works on
          out,      \* child -> its stdout, line by line
          crashed,  \* the bot died of an unhandled rejection
          strayed,  \* history: threads with a refused start or a replaced child's output
          faults

localVars == <<bound, heard, reads, answer>>
callerVars == <<caller, bound, heard, resolved, reads, answer>>
serverVars == <<child, told, inbox, running, out>>
vars == <<threadOf, client, callerVars, serverVars, crashed, strayed, faults>>

Steps == {"idle", "open", "opened", "start", "wait", "delay", "read", "done", "failed"}
Methods == {"open", "start", "read", "interrupt"}
Requests == [method : Methods, turn : Turns]
Lines == [kind : {"initialized", "started", "message", "completed"} \cup Methods,
          turn : Turns \cup {None}, ok : BOOLEAN, found : BOOLEAN]

Line(kind, t, ok) == [kind |-> kind, turn |-> t, ok |-> ok, found |-> FALSE]

TypeOK ==
    /\ threadOf \in [Turns -> Threads]
    /\ client \in [process : Children \cup {None}, started : BOOLEAN, starting : BOOLEAN,
                   idleTimer : BOOLEAN, pending : SUBSET Requests,
                   queue : [Threads -> Seq(Turns)], active : [Turns -> Turns \cup {None}]]
    /\ caller \in [Turns -> [step : Steps, sent : BOOLEAN]]
    /\ bound \in [Turns -> Turns \cup {None}]
    /\ heard \in [Turns -> Turns \cup {None}]
    /\ answer \in [Turns -> Turns \cup {None}]
    /\ resolved \in SUBSET Turns
    /\ reads \in [Turns -> 0..ReadAttempts - 1]
    /\ child \in [Children -> {"dead", "running", "broken"}]
    /\ told \in SUBSET Children
    /\ inbox \in [Children -> SUBSET (Requests \cup {[method |-> "initialize", turn |-> None]})]
    /\ running \in [Children -> SUBSET Turns]
    /\ out \in [Children -> Seq(Lines)]
    /\ crashed \in BOOLEAN
    /\ strayed \in SUBSET Threads
    /\ faults \in 0..MaxFaults

Init ==
    /\ threadOf \in Sessions
    /\ client = [process |-> None, started |-> FALSE, starting |-> FALSE,
                 idleTimer |-> FALSE, pending |-> {},
                 queue |-> [th \in Threads |-> <<>>], active |-> [t \in Turns |-> None]]
    /\ caller = [t \in Turns |-> [step |-> "idle", sent |-> FALSE]]
    /\ bound = [t \in Turns |-> None]
    /\ heard = [t \in Turns |-> None]
    /\ answer = [t \in Turns |-> None]
    /\ resolved = {}
    /\ reads = [t \in Turns |-> 0]
    /\ child = [c \in Children |-> "dead"]
    /\ told = {}
    /\ inbox = [c \in Children |-> {}]
    /\ running = [c \in Children |-> {}]
    /\ out = [c \in Children |-> <<>>]
    /\ crashed = FALSE
    /\ strayed = {}
    /\ faults = 0

-----------------------------------------------------------------------------
(***************************************************************************)
(* Helpers on the client's fields.                                         *)
(***************************************************************************)
At(t, step) == caller[t].step = step
Go(t, step, sent) == [caller EXCEPT ![t] = [step |-> step, sent |-> sent]]
Settled(t) == caller[t].step \in {"done", "failed"}

\* A turn's TurnCompletion is in pendingTurnCompletions or activeTurnCompletions.
Queued(cl) == UNION {ToSet(cl.queue[th]) : th \in Threads}
Registered(cl) == Queued(cl) \cup ({cl.active[t] : t \in Turns} \ {None})

\* A rejected completion that nobody awaits yet, or any more, is an unhandled
\* rejection, of which Node dies.
Unheard(rejected) == \E t \in rejected : ~At(t, "wait")

\* scheduleIdleCloseIfIdle, called in the finally of every request.
Rescheduled(cl) ==
    [cl EXCEPT !.idleTimer =
        /\ cl.process # None
        /\ cl.started
        /\ cl.pending = {}
        /\ Registered(cl) = {}]

\* Mutant of Dropped: pendingTurnCompletions is not cleared.
DroppedButQueue(cl) ==
    [cl EXCEPT !.process = None, !.started = FALSE, !.starting = FALSE, !.idleTimer = FALSE,
               !.pending = {}, !.active = [t \in Turns |-> None]]

\* rejectAll and the fields handleProcessFailure resets.
Dropped(cl) ==
    [cl EXCEPT !.process = None, !.started = FALSE, !.starting = FALSE, !.idleTimer = FALSE,
               !.pending = {}, !.queue = [th \in Threads |-> <<>>],
               !.active = [t \in Turns |-> None]]

\* Mutant of Reached: only the requests are rejected.
ReachedRequests == {t \in Turns : caller[t].step \in {"open", "start", "read"}}

\* The callers rejectAll reaches: requests, waiters for the start, completions.
Reached ==
    {t \in Turns : caller[t].step \in {"open", "start", "read"}
                       \/ (At(t, "wait") /\ t \in Registered(client))}

FailedCallers(set) ==
    [t \in Turns |-> IF t \in set THEN [step |-> "failed", sent |-> FALSE] ELSE caller[t]]

\* findTurnCompletion, takeTurnCompletion: by turn id, or else the oldest
\* completion of the thread.
Completion(t) ==
    IF client.active[t] # None THEN client.active[t]
    ELSE IF client.queue[threadOf[t]] # <<>> THEN Head(client.queue[threadOf[t]]) ELSE None

\* Mutant of Taken: the completion stays in activeTurnCompletions.
TakenFromQueue(t) ==
    IF client.active[t] # None THEN client
    ELSE [client EXCEPT !.queue[threadOf[t]] = IF @ = <<>> THEN @ ELSE Tail(@)]

Taken(t) ==
    IF client.active[t] # None THEN [client EXCEPT !.active[t] = None]
    ELSE [client EXCEPT !.queue[threadOf[t]] = IF @ = <<>> THEN @ ELSE Tail(@)]

\* shiftPendingTurnCompletion at turn/started.
Shifted(th, turnId) ==
    [client EXCEPT !.queue[th] = Tail(@), !.active[turnId] = Head(client.queue[th])]

-----------------------------------------------------------------------------
(***************************************************************************)
(* Requests of the callers, with ensureStarted.                            *)
(***************************************************************************)
\* An id for a new child, if one is free; which one does not matter.
FreeChildren ==
    LET free == {c \in Children : child[c] = "dead" /\ out[c] = <<>> /\ c # client.process} IN
    {c \in free : c = CHOOSE d \in free : TRUE}

\* startProcess up to the await of initialize.
Spawn(cl, c) ==
    /\ client' = [cl EXCEPT !.process = c, !.starting = TRUE, !.idleTimer = FALSE]
    /\ child' = [child EXCEPT ![c] = "running"]
    /\ inbox' = [inbox EXCEPT ![c] = {[method |-> "initialize", turn |-> None]}]

\* request(): a writable child gets the line at once, a caller that finds a
\* start under way joins it, a stale child is failed and replaced.
Request(t, step, cl) ==
    /\ \/ /\ cl.started
          /\ child[cl.process] = "running"
          /\ client' = [cl EXCEPT !.pending = @ \cup {[method |-> step, turn |-> t]},
                                  !.idleTimer = FALSE]
          /\ inbox' = [inbox EXCEPT ![cl.process] = @ \cup {[method |-> step, turn |-> t]}]
          /\ caller' = Go(t, step, TRUE)
          /\ UNCHANGED <<child, told, crashed>>
       \/ /\ cl.started
          /\ child[cl.process] # "running"
          /\ \E c \in FreeChildren :
                /\ Spawn(Dropped(cl), c)
                /\ told' = (told \cup {cl.process}) \ {c}
          /\ caller' = [FailedCallers(Reached) EXCEPT ![t] = [step |-> step, sent |-> FALSE]]
          /\ crashed' = Unheard(Registered(cl))
       \/ /\ cl.starting
          /\ client' = cl
          /\ caller' = Go(t, step, FALSE)
          /\ UNCHANGED <<child, told, inbox, crashed>>
       \/ /\ cl.process = None
          /\ \E c \in FreeChildren : Spawn(cl, c) /\ told' = told \ {c}
          /\ caller' = Go(t, step, FALSE)
          /\ UNCHANGED crashed
    /\ UNCHANGED <<bound, heard, resolved, reads, answer, running, out, strayed, faults>>

\* Mutant of OpenThread: the sessions of a thread do not wait for each other.
OpenThreadAtOnce(t) == At(t, "idle") /\ Request(t, "open", client)

\* resumeThread; the sessions of one thread take turns.
OpenThread(t) ==
    /\ At(t, "idle")
    /\ \A u \in Turns : threadOf[u] = threadOf[t] => At(u, "idle") \/ Settled(u)
    /\ Request(t, "open", client)

\* startTurnExecution registers the completion before it starts the turn.
StartTurn(t) ==
    /\ At(t, "opened")
    /\ Request(t, "start", [client EXCEPT !.queue[threadOf[t]] = Append(@, t)])

\* readLatestTurnSnapshotWithRetry, after the completion or a delay.
ReadThread(t) == At(t, "delay") /\ Request(t, "read", client)

\* The child is found stale: everybody fails and a new one is started.
Replaced(c) ==
    /\ Spawn(Dropped(client), c)
    /\ told' = (told \cup {client.process}) \ {c}
    /\ caller' = FailedCallers(Reached)
    /\ crashed' = Unheard(Registered(client))

\* interruptTurn of a turn that has begun.  A new server knows no such turn.
Interrupt(t) ==
    LET request == [method |-> "interrupt", turn |-> bound[t]] IN
    /\ t \in Interruptible /\ At(t, "wait") /\ bound[t] # None
    /\ client.started
    /\ request \notin client.pending
    /\ \/ /\ child[client.process] = "running"
          /\ client' = [client EXCEPT !.pending = @ \cup {request}, !.idleTimer = FALSE]
          /\ inbox' = [inbox EXCEPT ![client.process] = @ \cup {request}]
          /\ UNCHANGED <<caller, child, told, crashed>>
       \/ /\ child[client.process] # "running"
          /\ \E c \in FreeChildren : Replaced(c)
    /\ UNCHANGED <<bound, heard, resolved, reads, answer, running, out, strayed, faults>>

-----------------------------------------------------------------------------
(***************************************************************************)
(* What the client does with its child's output and end.                   *)
(***************************************************************************)
ReadLine(c) == out' = [out EXCEPT ![c] = Tail(@)]

\* initialize is answered: startProcess sends "initialized", and everybody who
\* waits for startingPromise sends his request.
Initialized(c) ==
    /\ client.process = c /\ client.starting /\ child[c] = "running"
    /\ LET waiting == {t \in Turns : caller[t].step \in Methods /\ ~caller[t].sent}
           requests == {[method |-> caller[t].step, turn |-> t] : t \in waiting} IN
       /\ client' = [client EXCEPT !.started = TRUE, !.starting = FALSE,
                                   !.pending = @ \cup requests]
       /\ caller' = [t \in Turns |-> IF t \in waiting THEN [caller[t] EXCEPT !.sent = TRUE]
                                                      ELSE caller[t]]
       /\ inbox' = [inbox EXCEPT ![c] = @ \cup requests]
    /\ UNCHANGED <<bound, heard, resolved, reads, answer, child, told, running, crashed, strayed>>

\* The caller has its message, or none was found, and its locals are gone.
Return(t, message) ==
    /\ caller' = Go(t, IF message = None THEN "failed" ELSE "done", FALSE)
    /\ answer' = [answer EXCEPT ![t] = message]
    /\ bound' = [bound EXCEPT ![t] = None]
    /\ heard' = [heard EXCEPT ![t] = None]
    /\ reads' = [reads EXCEPT ![t] = 0]

\* The loop of readLatestTurnSnapshotWithRetry ends with this read.
LastAttempt(t) == reads[t] + 1 = ReadAttempts

\* handleResponse; each request has an id of its own, so an answer of a
\* replaced child finds nothing.
Response(c, line) ==
    LET request == [method |-> line.kind, turn |-> line.turn]
        t == line.turn IN
    /\ c = client.process /\ request \in client.pending
    /\ client' = Rescheduled([client EXCEPT !.pending = @ \ {request}])
    /\ \/ /\ line.kind = "open"
          /\ caller' = Go(t, IF line.ok THEN "opened" ELSE "failed", FALSE)
          /\ UNCHANGED <<localVars, strayed>>
       \/ /\ line.kind = "start" /\ line.ok
          /\ caller' = Go(t, IF t \in resolved THEN "delay" ELSE "wait", FALSE)
          /\ UNCHANGED <<localVars, strayed>>
       \/ \* Nobody takes the completion out of the thread's queue again.
          /\ line.kind = "start" /\ ~line.ok
          /\ caller' = Go(t, "failed", FALSE)
          /\ strayed' = strayed \cup {threadOf[t]}
          /\ UNCHANGED localVars
       \/ /\ line.kind = "read" /\ ~line.ok
          /\ caller' = Go(t, "failed", FALSE)
          /\ UNCHANGED <<localVars, strayed>>
       \/ /\ line.kind = "read" /\ line.ok /\ line.found
          /\ Return(t, IF bound[t] = None THEN t ELSE bound[t])
          /\ UNCHANGED strayed
       \/ /\ line.kind = "read" /\ line.ok /\ ~line.found
          /\ IF LastAttempt(t) THEN Return(t, heard[t])
             ELSE /\ reads' = [reads EXCEPT ![t] = @ + 1]
                  /\ caller' = Go(t, "delay", FALSE)
                  /\ UNCHANGED <<bound, heard, answer>>
          /\ UNCHANGED strayed
       \/ /\ line.kind = "interrupt"
          /\ UNCHANGED <<caller, localVars, strayed>>
    /\ UNCHANGED <<resolved, child, told, inbox, running, crashed>>

\* handleNotification.  The child that wrote the line may have been replaced.
TurnStarted(t) ==
    /\ client.queue[threadOf[t]] # <<>>
    /\ client' = Shifted(threadOf[t], t)
    /\ bound' = [bound EXCEPT ![Head(client.queue[threadOf[t]])] = t]
    /\ UNCHANGED <<caller, heard, resolved, crashed>>

AgentMessage(t) ==
    /\ Completion(t) # None
    /\ heard' = [heard EXCEPT ![Completion(t)] = t]
    /\ UNCHANGED <<client, caller, bound, resolved, crashed>>

TurnCompleted(t, ok) ==
    LET waiter == Completion(t) IN
    /\ waiter # None
    /\ client' = Taken(t)
    /\ \/ /\ ok /\ At(waiter, "wait")
          /\ caller' = Go(waiter, "delay", FALSE)
          /\ UNCHANGED <<resolved, crashed>>
       \/ /\ ok /\ ~At(waiter, "wait")
          /\ resolved' = resolved \cup {waiter}
          /\ UNCHANGED <<caller, crashed>>
       \/ /\ ~ok
          /\ caller' = IF At(waiter, "wait") THEN Go(waiter, "failed", FALSE) ELSE caller
          /\ crashed' = Unheard({waiter})
          /\ UNCHANGED resolved
    /\ UNCHANGED <<bound, heard>>

Notification(c, line) ==
    /\ \/ line.kind = "started" /\ TurnStarted(line.turn)
       \/ line.kind = "message" /\ AgentMessage(line.turn)
       \/ line.kind = "completed" /\ TurnCompleted(line.turn, line.ok)
    /\ strayed' = IF c = client.process THEN strayed ELSE strayed \cup {threadOf[line.turn]}
    /\ UNCHANGED <<reads, answer, child, told, inbox, running>>

\* A line that concerns nobody.
Ignored(c, line) ==
    /\ \/ /\ line.kind = "initialized"
          /\ ~(client.process = c /\ client.starting /\ child[c] = "running")
       \/ /\ line.kind \in Methods
          /\ c # client.process
                \/ [method |-> line.kind, turn |-> line.turn] \notin client.pending
       \/ line.kind = "started" /\ client.queue[threadOf[line.turn]] = <<>>
       \/ line.kind \in {"message", "completed"} /\ Completion(line.turn) = None
    /\ UNCHANGED <<client, callerVars, child, told, inbox, running, crashed, strayed>>

HandleStdout(c) ==
    /\ out[c] # <<>>
    /\ LET line == Head(out[c]) IN
       \/ line.kind = "initialized" /\ Initialized(c)
       \/ line.kind \in Methods /\ Response(c, line)
       \/ line.kind \in {"started", "message", "completed"} /\ Notification(c, line)
       \/ Ignored(c, line)
    /\ ReadLine(c)
    /\ UNCHANGED faults

\* handleProcessFailure, handleInitializeFailure: the close event, which comes
\* after the last line, an error on stdin, or no answer to initialize.
ProcessFails ==
    /\ client.process # None
    /\ LET c == client.process IN
       /\ \/ child[c] = "dead" /\ out[c] = <<>>
          \/ child[c] = "broken"
          \/ client.starting
       /\ told' = told \cup {c}
    /\ client' = Dropped(client)
    /\ caller' = FailedCallers(Reached)
    /\ crashed' = Unheard(Registered(client))
    /\ UNCHANGED <<bound, heard, resolved, reads, answer, child, inbox, running, out,
                   strayed, faults>>

InterruptTimesOut(t) ==
    LET request == [method |-> "interrupt", turn |-> t] IN
    /\ request \in client.pending
    /\ faults < MaxFaults
    /\ faults' = faults + 1
    /\ client' = Rescheduled([client EXCEPT !.pending = @ \ {request}])
    /\ UNCHANGED <<callerVars, serverVars, crashed, strayed>>

\* The idle timer: close().  Every request stops the timer.
IdleClose ==
    /\ client.idleTimer
    /\ client.pending = {} /\ Registered(client) = {}
    /\ client' = Dropped(client)
    /\ told' = told \cup {client.process}
    /\ UNCHANGED <<callerVars, child, inbox, running, out, crashed, strayed, faults>>

-----------------------------------------------------------------------------
(***************************************************************************)
(* The Codex app server: external.                                         *)
(***************************************************************************)
Says(c, lines) == out' = [out EXCEPT ![c] = @ \o lines]

Refuses(c, request) ==
    /\ faults < MaxFaults
    /\ faults' = faults + 1
    /\ Says(c, <<Line(request.method, request.turn, FALSE)>>)
    /\ UNCHANGED running

\* The answer to turn/start and turn/started come in either order.
Accepts(c, t) ==
    LET accepted == Line("start", t, TRUE)
        started == Line("started", t, TRUE) IN
    /\ running' = [running EXCEPT ![c] = @ \cup {t}]
    /\ Says(c, <<accepted, started>>) \/ Says(c, <<started, accepted>>)
    /\ UNCHANGED faults

Serve(c) ==
    /\ child[c] # "dead"
    /\ \E request \in inbox[c] :
        LET t == request.turn IN
        /\ inbox' = [inbox EXCEPT ![c] = @ \ {request}]
        /\ \/ /\ request.method = "initialize"
              /\ Says(c, <<Line("initialized", None, TRUE)>>)
              /\ UNCHANGED <<running, faults>>
           \/ /\ request.method = "open"
              /\ Says(c, <<Line("open", t, TRUE)>>)
              /\ UNCHANGED <<running, faults>>
           \/ request.method \in Methods \ {"interrupt"} /\ Refuses(c, request)
           \/ request.method = "start" /\ Accepts(c, t)
           \/ \* The snapshot may not have the message yet.
              /\ request.method = "read"
              /\ \E found \in BOOLEAN :
                    Says(c, <<[Line("read", t, TRUE) EXCEPT !.found = found]>>)
              /\ UNCHANGED <<running, faults>>
           \/ /\ request.method = "interrupt" /\ t \in running[c]
              /\ Says(c, <<Line("interrupt", t, TRUE), Line("completed", t, FALSE)>>)
              /\ running' = [running EXCEPT ![c] = @ \ {t}]
              /\ UNCHANGED faults
           \/ /\ request.method = "interrupt" /\ t \notin running[c]
              /\ Says(c, <<Line("interrupt", t, FALSE)>>)
              /\ UNCHANGED <<running, faults>>
    /\ UNCHANGED <<client, callerVars, child, told, crashed, strayed>>

FinishTurn(c, t) ==
    /\ t \in running[c]
    /\ \/ /\ Says(c, <<Line("message", t, TRUE), Line("completed", t, TRUE)>>)
          /\ UNCHANGED faults
       \/ /\ \E ok \in BOOLEAN : Says(c, <<Line("completed", t, ok)>>)
          /\ faults < MaxFaults
          /\ faults' = faults + 1
    /\ running' = [running EXCEPT ![c] = @ \ {t}]
    /\ UNCHANGED <<client, callerVars, child, told, inbox, crashed, strayed>>

\* The process ends: of its own, or because it was told to.
Die(c) ==
    /\ child[c] # "dead"
    /\ child' = [child EXCEPT ![c] = "dead"]
    /\ running' = [running EXCEPT ![c] = {}]
    /\ inbox' = [inbox EXCEPT ![c] = {}]
    /\ UNCHANGED <<client, callerVars, told, out, crashed, strayed>>

Exit(c) == c \in told /\ Die(c) /\ UNCHANGED faults

Kill(c) == c \notin told /\ faults < MaxFaults /\ faults' = faults + 1 /\ Die(c)

\* Its stdin is no longer writable.
BreakStdin(c) ==
    /\ child[c] = "running"
    /\ faults < MaxFaults
    /\ faults' = faults + 1
    /\ child' = [child EXCEPT ![c] = "broken"]
    /\ UNCHANGED <<client, callerVars, told, inbox, running, out, crashed, strayed>>

-----------------------------------------------------------------------------
CallerStep(t) == OpenThread(t) \/ StartTurn(t) \/ ReadThread(t)

ChildStep(c) ==
    \/ HandleStdout(c)
    \/ Serve(c)
    \/ \E t \in Turns : FinishTurn(c, t)
    \/ Exit(c)

\* The bot is up.
Up == ~crashed /\ UNCHANGED threadOf

Next ==
    /\ Up
    /\ \/ \E t \in Turns : CallerStep(t) \/ Interrupt(t) \/ InterruptTimesOut(t)
       \/ \E c \in Children : ChildStep(c) \/ Kill(c) \/ BreakStdin(c)
       \/ ProcessFails
       \/ IdleClose

\* Callers run on, the server answers, works its turns off and ends when it is
\* told to; the close event and the idle timer come.
Fairness ==
    /\ \A t \in Turns : WF_vars(Up /\ (StartTurn(t) \/ ReadThread(t)))
    /\ \A c \in Children :
         /\ WF_vars(Up /\ HandleStdout(c))
         /\ WF_vars(Up /\ Serve(c))
         /\ WF_vars(Up /\ \E t \in Turns : FinishTurn(c, t))
         /\ WF_vars(Up /\ Exit(c))
    /\ WF_vars(Up /\ ProcessFails /\ child[client.process] # "running")
    /\ WF_vars(Up /\ IdleClose)

Spec == Init /\ [][Next]_vars
FairSpec == Spec /\ Fairness

-----------------------------------------------------------------------------
(***************************************************************************)
(* Properties.                                                             *)
(***************************************************************************)
Regular(t) == threadOf[t] \notin strayed

\* A caller is given the message of the turn it started, never that of another
\* turn of its thread or of another thread (waitForTurnCompletion and the
\* pairing by turn/started).
OwnAnswer == \A t \in Turns : At(t, "done") /\ Regular(t) => answer[t] = t

\* A caller that waits for a completion is the one a notification or a failing
\* process will find: it is in the thread's queue or bound to a turn.
NoOneForgotten == \A t \in Turns : At(t, "wait") /\ Regular(t) => t \in Registered(client)

\* There is one app server: every other child that lives was sent SIGTERM
\* (startingPromise, the stale child in ensureStarted, close).
OneServer == \A c \in Children : child[c] # "dead" => c = client.process \/ c \in told

\* Without a process nothing is pending that no answer can reach.
NothingPendsOnNobody ==
    client.process = None => /\ client.pending = {}
                             /\ Registered(client) = {}

\* The books of the client agree with the child processes and with its callers.
ClientInv == TypeOK /\ OneServer /\ NoOneForgotten /\ NothingPendsOnNobody

\* Every turn whose thread was asked for ends with an answer or an error.
TurnsSettle ==
    \A t \in Turns : At(t, "open") ~> Settled(t) \/ crashed \/ ~Regular(t)

\* An app server whose turns all went well is closed in the end, however its
\* last requests and the idle timer fall (scheduleIdleCloseIfIdle).
IdleServerCloses ==
    (\A t \in Turns : At(t, "done")) ~> client.process = None \/ crashed \/ strayed # {}
=============================================================================
