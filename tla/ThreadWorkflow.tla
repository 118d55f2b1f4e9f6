---------------------------- MODULE ThreadWorkflow ----------------------------
(***************************************************************************)
(* What decides whether and how a message is worked on: the engagement at  *)
(* intake and again at admission, the gateway that stores the workflow of  *)
(* a question thread, the gate in front of clear explanations, and         *)
(* /workflow, which changes the stored route under a running message.      *)
(*                                                                         *)
(* One channel of any kind.  The ordered queue is taken as what            *)
(* SerialExecutor says of one key; leases and crashes are in               *)
(* MessageRuntime.                                                         *)
(***************************************************************************)
EXTENDS Naturals, FiniteSets

CONSTANTS Messages,      \* numbers, in the order of their ids; 1 starts the thread
          Mentions,      \* messages that mention the bot
          Replies,       \* messages whose reference must be fetched to see that they answer it
          Interval,      \* ambientSparseInterval
          RetryLimit, None,
          MaxFaults, MaxSwitches   \* bounds

ASSUME MessageAssumption ==
    /\ Messages \subseteq Nat /\ Mentions \cup Replies \subseteq Messages
    /\ Mentions \cap Replies = {} /\ Interval \in Nat \ {0}
    /\ IsFiniteSet(Messages) /\ {RetryLimit, MaxFaults, MaxSwitches} \subseteq Nat

VARIABLES kind,       \* the features configured for the place
          route,      \* the row of thread_workflow_route, or None
          gate,       \* the row of clear_explanation_gate_state, or None
          session,    \* the thread has a clear_explanation binding
          counter,    \* ordinary_message_count of the channel
          intake,     \* message -> where handle() stands
          row,        \* message -> message_processing.state
          attempts,   \* message -> retry_job.attempt_count, 0: no job
          waiting,    \* items in the queue
          run,        \* process() of the lane, or None
          requested,  \* requestedMessageIds
          command,    \* the /workflow command being handled, or None
          open, leaked,     \* ephemeral threads; those whose close failed
          fate,       \* history: how a message ended
          faults, switches

placeVars == <<kind, route, gate, session>>
tableVars == <<row, attempts>>
vars == <<placeVars, tableVars, counter, intake, waiting, run, requested, command,
          open, leaked, fate, faults, switches>>

Kinds == {"gateway", "clear", "ambient"}
Workflows == {"clear", "forum"}
Verdicts == {"allow", "redirect", "decline"}
Sources == {"live", "retry", "rerun"}
Stages == {"admission", "route", "open", "turn", "close", "notice", "redirect",
           "gate", "work", "error", "dispatch", "failure"}

\* QueuedMessage: its place is the configured one or that of a workflow.
QueueItems == [id : Messages, source : Sources, place : Kinds \cup Workflows,
               fact : {"none", "directed", "sparse"}]

Runs == [item : QueueItems, at : Stages, gated : BOOLEAN, thread : BOOLEAN,
         verdict : Workflows \cup Verdicts \cup {"error", None}]

Routes == [workflow : Workflows, by : {"starter", "command"}]

Commands == [at : {"authorising", "interrupting"}, previous : Workflows, next : Workflows]

\* null is none of the values it stands in for.
ASSUME NoneAssumption == None \notin Runs /\ None \notin Routes /\ None \notin Commands
                         /\ None \notin Verdicts

TypeOK ==
    /\ kind \in Kinds
    /\ route \in Routes \cup {None}
    /\ gate \in Verdicts \cup {None}
    /\ session \in BOOLEAN
    /\ counter \in 0..(Interval + Cardinality(Messages))
    /\ intake \in [Messages -> {"new", "handling", "done"}]
    /\ row \in [Messages -> {"none", "processing", "rerun_requested", "pending_retry",
                             "completed", "terminal"}]
    /\ attempts \in [Messages -> 0..RetryLimit]
    /\ waiting \subseteq QueueItems
    /\ run \in Runs \cup {None}
    /\ requested \subseteq Messages
    /\ command \in Commands \cup {None}
    /\ open \in 0..(MaxFaults + 1) /\ leaked \in 0..MaxFaults
    /\ fate \in [Messages -> {"none", "ignored", "told", "answered", "lost"}]
    /\ faults \in 0..MaxFaults /\ switches \in 0..MaxSwitches

Init ==
    /\ kind \in Kinds
    /\ session \in IF kind = "clear" THEN BOOLEAN ELSE {FALSE}
    /\ counter \in 0..(Interval - 1)     \* it is stored
    /\ route = None /\ gate = None
    /\ intake = [m \in Messages |-> "new"]
    /\ row = [m \in Messages |-> "none"]
    /\ attempts = [m \in Messages |-> 0]
    /\ waiting = {} /\ run = None /\ requested = {} /\ command = None
    /\ open = 0 /\ leaked = 0
    /\ fate = [m \in Messages |-> "none"]
    /\ faults = 0 /\ switches = 0

Fault == faults < MaxFaults /\ faults' = faults + 1

-----------------------------------------------------------------------------
\* Engagement.

\* isReplyToBot fetches the referenced message and takes an error for a no.
SeesDirected(m, directed) ==
    \/ directed = (m \in Mentions \cup Replies) /\ UNCHANGED faults
    \/ m \in Replies /\ ~directed /\ Fault

Dedicated(place) == place # "ambient"

\* A thread's first message has the id of the thread.
Starts(m) == m = 1

\* FeatureThreadService.
ThreadEngagement(m, directed) ==
    CASE Starts(m) -> "always"
      [] ~Starts(m) /\ directed -> "directed"
      [] OTHER -> "ignore"

\* ChatEngagementPolicy.
ChatEngagement(directed) == IF directed THEN "directed" ELSE "sparse"

Engagement(place, m, directed) ==
    IF Dedicated(place) THEN ThreadEngagement(m, directed) ELSE ChatEngagement(directed)

Fact(engagement) == IF engagement \in {"directed", "sparse"} THEN engagement ELSE "none"

Item(m, source, fact) == [id |-> m, source |-> source, place |-> kind, fact |-> fact]

InFlight(m) == (run # None /\ run.item.id = m) \/ \E item \in waiting : item.id = m

\* MessageIntakeService.handle is called and awaits.
Post(m) ==
    /\ intake[m] = "new"
    /\ intake' = [intake EXCEPT ![m] = "handling"]
    /\ UNCHANGED <<placeVars, tableVars, counter, waiting, run, requested, command,
                   open, leaked, fate, faults, switches>>

\* It ignores the message, counts it, or submits it.
IntakeSettles(m) ==
    /\ intake[m] = "handling"
    /\ \E directed \in BOOLEAN :
         /\ SeesDirected(m, directed)
         /\ LET engagement == Engagement(kind, m, directed)
                count == IF engagement = "sparse" THEN counter + 1 ELSE counter
                refused == \/ engagement = "ignore"
                           \/ engagement = "sparse" /\ count % Interval # 0
            IN  /\ counter' = count
                /\ waiting' = IF refused THEN waiting ELSE waiting \cup {Item(m, "live", Fact(engagement))}
    /\ intake' = [intake EXCEPT ![m] = "done"]
    /\ UNCHANGED <<placeVars, tableVars, run, requested, command, open, leaked, fate, switches>>

-----------------------------------------------------------------------------
\* The lane.

\* Mutant of Takes: a retry gets no special permission.
TakesNoRetry(item) == row[item.id] \in {"none", "rerun_requested"}

\* tryAcquire, without leases.
Takes(item) ==
    \/ row[item.id] \in {"none", "rerun_requested"}
    \/ row[item.id] = "pending_retry" /\ item.source = "retry"

\* runLane shifts items until it finds one to work on: a skipped one settles at
\* once, and its job is cleared when the message has ended.
Skipped(items) ==
    attempts' = [m \in Messages |->
        IF row[m] \in {"completed", "terminal"} /\ \E item \in items : item.id = m
        THEN 0 ELSE attempts[m]]

Begin ==
    /\ run = None /\ waiting # {}
    /\ LET taken == {item \in waiting : Takes(item)}
       IN  \/ /\ taken = {}
              /\ Skipped(waiting) /\ waiting' = {}
              /\ UNCHANGED <<run, row, requested>>
           \/ \E item \in taken :
                 /\ \A other \in taken : item.id <= other.id
                 /\ LET before == {other \in waiting : other.id < item.id}
                    IN  Skipped(before) /\ waiting' = waiting \ (before \cup {item})
                 /\ run' = [item |-> item, at |-> "admission", gated |-> item.place # "gateway",
                            thread |-> FALSE, verdict |-> None]
                 /\ row' = [row EXCEPT ![item.id] = "processing"]
                 /\ requested' = IF item.source = "rerun" THEN requested \ {item.id} ELSE requested
    /\ UNCHANGED <<placeVars, counter, intake, command, open, leaked, fate, faults, switches>>

At(stage) == run # None /\ run.at = stage
Goes(stage) == run' = [run EXCEPT !.at = stage]

\* Mutant of MustStop: only the first run of a message looks.
MustStopLive == run.item.source = "live" /\ run.item.id \in requested

MustStop == run.item.source # "rerun" /\ run.item.id \in requested

\* Leaves row and job to the rerun.
Stop == run' = None /\ UNCHANGED <<tableVars, fate>>

Conclude(state, how) ==
    /\ run' = None
    /\ row' = [row EXCEPT ![run.item.id] = state]
    /\ attempts' = [attempts EXCEPT ![run.item.id] = 0]
    /\ fate' = [fate EXCEPT ![run.item.id] = how]

\* An error before the try block: nobody catches it.
Throws == run' = None /\ fate' = [fate EXCEPT ![run.item.id] = "lost"] /\ UNCHANGED tableVars

\* What stays during a step of process().
laneVars == <<kind, counter, intake, waiting, requested, command, switches>>

\* deriveChatEngagement: does an item that lost its fact go on?
Derived(engagement) == engagement # "sparse"

Admission ==
    /\ At("admission")
    /\ \E directed \in BOOLEAN :
         /\ SeesDirected(run.item.id, directed)
         /\ LET engagement == Engagement(run.item.place, run.item.id, directed)
                handled == IF Dedicated(run.item.place) THEN engagement # "ignore"
                           ELSE run.item.fact # "none" \/ Derived(engagement)
                fact == CASE engagement = "directed" -> "directed"
                          [] Dedicated(run.item.place) -> "none"
                          [] OTHER -> run.item.fact
            IN  \/ /\ handled
                   /\ run' = [run EXCEPT !.at = "route", !.item.fact = fact]
                   /\ UNCHANGED <<tableVars, fate>>
                \/ ~handled /\ Conclude("completed", "ignored")
    /\ UNCHANGED <<laneVars, route, gate, session, open, leaked>>

-----------------------------------------------------------------------------
\* The ephemeral thread both gates ask.

Opens ==
    /\ At("open")
    /\ \/ /\ run' = [run EXCEPT !.at = "turn", !.thread = TRUE]
          /\ open' = open + 1 /\ UNCHANGED faults
       \/ Fault /\ run' = [run EXCEPT !.at = "close", !.verdict = "error"] /\ UNCHANGED open
    /\ UNCHANGED <<laneVars, tableVars, route, gate, session, leaked, fate>>

\* ON CONFLICT keeps the decision of the first.
Marked(verdict) == IF gate = None THEN verdict ELSE gate

\* The thread is closed whatever came of the turn.
AfterTurn(verdict) == "close"

\* The gate marks its decision before it closes the thread; an error is a yes.
TurnSettles ==
    /\ At("turn")
    /\ \E verdict \in (IF run.gated THEN Verdicts ELSE Workflows) \cup {"error"} :
         /\ IF verdict = "error" THEN Fault ELSE UNCHANGED faults
         /\ gate' = IF ~run.gated THEN gate
                    ELSE Marked(IF verdict = "error" THEN "allow" ELSE verdict)
         /\ run' = [run EXCEPT !.verdict = verdict, !.at = AfterTurn(verdict)]
    /\ UNCHANGED <<laneVars, tableVars, route, session, open, leaked, fate>>

\* closeEphemeralThread, whose error is swallowed; then the caller goes on.
Closes ==
    \/ ~run.thread /\ UNCHANGED <<open, leaked, faults>>
    \/ run.thread /\ open' = open - 1 /\ UNCHANGED <<leaked, faults>>
    \/ run.thread /\ Fault /\ leaked' = leaked + 1 /\ UNCHANGED open

-----------------------------------------------------------------------------
\* ThreadWorkflowGateway.

WithPlace(workflow) == run' = [run EXCEPT !.item.place = workflow, !.at = "redirect",
                                          !.thread = FALSE, !.verdict = None]

\* Mutant of Routed: the starter always asks the gateway.
RoutedFollowUp == route # None /\ ~Starts(run.item.id)

Routed == route # None

MarkRoute(workflow, by) == route' = [workflow |-> workflow, by |-> by]

\* resolve(): the stored route wins, only the starter message selects one.
Route ==
    /\ At("route")
    /\ \/ run.item.place # "gateway" /\ Goes("redirect")
       \/ run.item.place = "gateway" /\ Routed /\ WithPlace(route.workflow)
       \/ run.item.place = "gateway" /\ ~Routed /\ ~Starts(run.item.id) /\ Goes("notice")
       \/ run.item.place = "gateway" /\ ~Routed /\ Starts(run.item.id) /\ Goes("open")
    /\ UNCHANGED <<laneVars, tableVars, route, gate, session, open, leaked, fate, faults>>

Selected ==
    /\ At("close") /\ ~run.gated
    /\ Closes
    /\ \/ /\ run.verdict # "error"
          /\ MarkRoute(run.verdict, "starter")
          /\ WithPlace(run.verdict)
       \/ /\ run.verdict = "error" /\ run' = [run EXCEPT !.at = "notice", !.thread = FALSE]
          /\ UNCHANGED route
    /\ UNCHANGED <<laneVars, tableVars, gate, session, fate>>

\* sendFollowupInSamePlace, outside the try block.
NoticeSettles ==
    /\ At("notice")
    /\ \/ Conclude("completed", "told") /\ UNCHANGED faults
       \/ Throws /\ Fault
    /\ UNCHANGED <<laneVars, route, gate, session, open, leaked>>

-----------------------------------------------------------------------------
\* ClearExplanationRoutingGate, inside the try block and tracked.

\* Mutant of Known: the stored decision holds for the first message only.
KnownOfStarter == gate # None /\ Starts(run.item.id)

Known == gate # None

Decided(verdict) == run' = [run EXCEPT !.at = "gate", !.thread = FALSE, !.verdict = verdict]

\* decide() up to its first await; places without the gate have their answer.
Redirect ==
    /\ At("redirect")
    /\ LET asks == run.gated /\ run.item.place = "clear"
       IN  \/ ~asks /\ Decided("allow") /\ UNCHANGED gate
           \/ asks /\ Known /\ Decided(gate) /\ UNCHANGED gate
           \/ asks /\ ~Known /\ session /\ gate' = Marked("allow") /\ Decided("allow")
           \/ asks /\ ~Known /\ ~session /\ Goes("open") /\ UNCHANGED gate
    /\ UNCHANGED <<laneVars, tableVars, route, session, open, leaked, fate, faults>>

\* An error is a yes; when the thread could not be opened it is marked here.
Gated ==
    /\ At("close") /\ run.gated
    /\ Closes
    /\ gate' = IF run.verdict = "error" THEN Marked("allow") ELSE gate
    /\ Decided(IF run.verdict = "error" THEN "allow" ELSE run.verdict)
    /\ UNCHANGED <<laneVars, tableVars, route, session, fate>>

\* The redirect or decline notice, then the first look for a rerun.
GateSettles ==
    /\ At("gate")
    /\ \/ /\ run.verdict # "allow" /\ Fault
          /\ IF MustStop THEN Stop ELSE (Goes("failure") /\ UNCHANGED <<tableVars, fate>>)
       \/ /\ UNCHANGED faults
          /\ \/ MustStop /\ Stop
             \/ ~MustStop /\ run.verdict # "allow" /\ Conclude("completed", "told")
             \/ ~MustStop /\ run.verdict = "allow" /\ Goes("work") /\ UNCHANGED <<tableVars, fate>>
    /\ UNCHANGED <<laneVars, route, gate, session, open, leaked>>

-----------------------------------------------------------------------------
\* The rest of process(), in outline; MessageRuntime has it in full.

\* The harness binds the session of a clear explanation when it answers.
WorkSettles ==
    /\ At("work")
    /\ \/ /\ UNCHANGED faults
          /\ session' = (session \/ run.item.place = "clear")
          /\ IF MustStop THEN Stop ELSE (Goes("dispatch") /\ UNCHANGED <<tableVars, fate>>)
       \/ Fault /\ Goes("error") /\ UNCHANGED <<tableVars, fate, session>>
    /\ UNCHANGED <<laneVars, route, gate, open, leaked>>

\* The catch blocks.
ErrorCaught ==
    /\ At("error")
    /\ IF MustStop THEN Stop ELSE (Goes("failure") /\ UNCHANGED <<tableVars, fate>>)
    /\ UNCHANGED <<laneVars, route, gate, session, open, leaked, faults>>

DispatchSettles ==
    /\ At("dispatch")
    /\ \/ UNCHANGED faults /\ (IF MustStop THEN Stop ELSE Conclude("completed", "answered"))
       \/ Fault /\ Goes("error") /\ UNCHANGED <<tableVars, fate>>
    /\ UNCHANGED <<laneVars, route, gate, session, open, leaked>>

Retryable == run.item.place # "forum" /\ attempts[run.item.id] < RetryLimit

\* The notice of handleRuntimeFailure; nobody looks for a rerun here.
FailureSettles ==
    /\ At("failure")
    /\ \/ /\ Retryable
          /\ run' = None
          /\ row' = [row EXCEPT ![run.item.id] = "pending_retry"]
          /\ attempts' = [attempts EXCEPT ![run.item.id] = @ + 1]
          /\ UNCHANGED fate
       \/ Conclude("terminal", "told")
    /\ UNCHANGED <<laneVars, route, gate, session, open, leaked, faults>>

Process ==
    \/ Admission \/ Route \/ Opens \/ TurnSettles \/ Selected \/ NoticeSettles
    \/ Redirect \/ Gated \/ GateSettles \/ WorkSettles \/ ErrorCaught
    \/ DispatchSettles \/ FailureSettles

\* The runner builds the item anew: the configured place and no engagement fact.
RetryFallsDue(m) ==
    /\ attempts[m] > 0 /\ ~InFlight(m)
    /\ waiting' = waiting \cup {Item(m, "retry", "none")}
    /\ UNCHANGED <<placeVars, tableVars, counter, intake, run, requested, command,
                   open, leaked, fate, faults, switches>>

-----------------------------------------------------------------------------
\* /workflow.

\* trackActive has the routed item from the end of the gateway to that of process().
Tracked ==
    /\ run # None
    /\ \/ run.at \in {"redirect", "gate", "work", "error", "dispatch", "failure"}
       \/ run.at \in {"open", "turn", "close"} /\ run.gated

\* The route is stored and the rerun requested in one step.
Switch(previous, next) ==
    /\ MarkRoute(next, "command")
    /\ \/ /\ Tracked /\ row[run.item.id] = "processing"
          /\ row' = [row EXCEPT ![run.item.id] = "rerun_requested"]
          /\ requested' = requested \cup {run.item.id}
          /\ waiting' = waiting \cup {[run.item EXCEPT !.source = "rerun"]}
       \/ ~(Tracked /\ row[run.item.id] = "processing") /\ UNCHANGED <<row, requested, waiting>>
    /\ command' = [at |-> "interrupting", previous |-> previous, next |-> next]

\* An administrator's command goes on at once; a user's awaits the starter's id.
Command ==
    /\ command = None /\ route # None /\ switches < MaxSwitches
    /\ switches' = switches + 1
    /\ \E next \in Workflows :
         \/ Switch(route.workflow, next)
         \/ /\ command' = [at |-> "authorising", previous |-> route.workflow, next |-> next]
            /\ UNCHANGED <<route, row, requested, waiting>>
    /\ UNCHANGED <<kind, gate, session, counter, intake, attempts, run, open, leaked, fate, faults>>

Authorised ==
    /\ command # None /\ command.at = "authorising"
    /\ Switch(command.previous, command.next)
    /\ UNCHANGED <<kind, gate, session, counter, intake, attempts, run, open, leaked, fate, faults,
                   switches>>

NotTheStarter ==
    /\ command # None /\ command.at = "authorising"
    /\ command' = None
    /\ UNCHANGED <<placeVars, tableVars, counter, intake, waiting, run, requested,
                   open, leaked, fate, faults, switches>>

\* interruptActiveSession: the turn of a session fails.
Interrupted(workflow) == At("work") /\ run.item.place = workflow /\ Goes("error")

\* The turns of the previous and the next workflow are interrupted; errors are
\* swallowed, and so is the absence of a turn.
InterruptSettles ==
    /\ command # None /\ command.at = "interrupting"
    /\ command' = None
    /\ \/ \E workflow \in {command.previous, command.next} : Interrupted(workflow)
       \/ UNCHANGED run
    /\ UNCHANGED <<placeVars, tableVars, counter, intake, waiting, requested,
                   open, leaked, fate, faults, switches>>

CommandGoesOn == Authorised \/ NotTheStarter \/ InterruptSettles

Next ==
    \/ \E m \in Messages : Post(m) \/ IntakeSettles(m) \/ RetryFallsDue(m)
    \/ Begin \/ Process \/ Command \/ CommandGoesOn

Spec ==
    /\ Init /\ [][Next]_vars
    /\ WF_vars(Begin) /\ WF_vars(Process) /\ WF_vars(CommandGoesOn)
    /\ \A m \in Messages : WF_vars(IntakeSettles(m)) /\ WF_vars(RetryFallsDue(m))

-----------------------------------------------------------------------------
Reaches(stage) == run' # None /\ run'.at = stage /\ ~At(stage)

(***************************************************************************)
(* Whatever the switches meanwhile, an answer that is about to be sent     *)
(* comes from the workflow stored for the thread at that moment: a run of  *)
(* process() that a switch overtook stops before the dispatch.  Reruns     *)
(* are excepted, see RerunTakesTheNewWorkflow.                             *)
(***************************************************************************)
AnswersFollowTheRoute ==
    [][kind = "gateway" /\ Reaches("dispatch") /\ run'.item.source # "rerun"
         => run'.item.place = route'.workflow]_vars

(***************************************************************************)
(* A route, once stored, is changed by a command only: neither a retry of  *)
(* the starter message nor a slow selection puts the gateway's choice over *)
(* that of the starter or an administrator.                                *)
(***************************************************************************)
SwitchSticks == [][route # None /\ route' # route => route'.by = "command"]_vars

(***************************************************************************)
(* In a clear-explanation place the bot works only in threads whose stored *)
(* decision allows it, also after the gate failed open, for follow-ups,    *)
(* and for retries that meet the decision of an earlier run.               *)
(***************************************************************************)
ClearAnswersAreAllowed ==
    kind = "clear" /\ run # None /\ run.at \in {"work", "dispatch"} => gate = "allow"

(***************************************************************************)
(* An ephemeral thread is open only while a gate waits for it, or because  *)
(* closing it failed: no path through the two gates forgets the thread.    *)
(***************************************************************************)
NoThreadIsForgotten ==
    open = leaked + (IF run # None /\ run.thread /\ run.at \in {"turn", "close"} THEN 1 ELSE 0)

(***************************************************************************)
(* A message that mentions the bot is never passed over in silence, even   *)
(* when a retry comes back without the engagement it was accepted with.    *)
(***************************************************************************)
MentionsAreHeard == \A m \in Mentions : fate[m] # "ignored"

(***************************************************************************)
(* The gates: who passes them, and what they leave behind.                 *)
(***************************************************************************)
GateInv == TypeOK /\ ClearAnswersAreAllowed /\ NoThreadIsForgotten /\ MentionsAreHeard

(***************************************************************************)
(* Every submitted message ends (answered, told, or given up because an    *)
(* await before the try block failed) and stays so, unless a switch came   *)
(* while its failure was announced: its retries then stop for ever for a   *)
(* rerun that nobody takes up.                                             *)
(***************************************************************************)
EveryMessageConcludes ==
    \A m \in Messages :
        <>[](InFlight(m) \/ row[m] # "none" => fate[m] # "none" \/ m \in requested)

(***************************************************************************)
(* A rerun works with the workflow the thread was switched to.  The code   *)
(* requests it with the item routed to the old workflow, whose place the   *)
(* gateway no longer recognises as its own.                                *)
(***************************************************************************)
RerunTakesTheNewWorkflow ==
    [][kind = "gateway" /\ Reaches("work") /\ run'.item.source = "rerun"
         => run'.item.place = route'.workflow]_vars

-----------------------------------------------------------------------------
\* What makes GateInv inductive.

\* Only a handled message is counted.
CountIsBounded ==
    counter < Interval + Cardinality({m \in Messages : intake[m] = "done"})

LeaksAreFaults == leaked <= faults

\* Only a rerun comes with the place of a workflow.
ItemsKeepThePlace ==
    \A item \in waiting : item.place = kind \/ (kind = "gateway" /\ item.source = "rerun")

\* A command is about a stored route.
CommandsHaveARoute == command # None => route # None

\* The stages a run reaches with its place decided and, if asked, its gate.
Decideds == {"gate", "work", "error", "dispatch", "failure"}

ThreadsAreHeld(r) ==
    /\ r.thread => r.at \in {"turn", "close"}
    /\ r.at = "turn" => r.thread

\* A thread without the gateway keeps the configured place.
PlaceOf(r) ==
    /\ r.at \in {"admission", "route"} => (r.gated <=> r.item.place # "gateway")
    /\ kind # "gateway" => r.item.place = kind /\ r.gated
    /\ kind = "gateway" /\ r.item.source # "rerun" /\ r.at \in {"admission", "route"}
         => r.item.place = "gateway"
    /\ kind = "gateway" /\ r.item.source # "rerun" => ~r.gated

\* The gateway asks for a thread without a route, and only it does.
GatewayAsks(r) ==
    /\ ~r.gated /\ r.at \in {"open", "turn", "close"} => route = None
    /\ ~r.gated /\ r.at = "close" => r.verdict \in Workflows \cup {"error"}

\* The gate asks for a thread without a decision and marks what it hears.
GateAsks(r) ==
    /\ r.gated /\ r.at \in {"open", "turn"} => gate = None
    /\ r.gated /\ r.at = "close" =>
         \/ r.verdict \in Verdicts /\ gate = r.verdict
         \/ r.verdict = "error" /\ gate \in {"allow", None}
    /\ r.at = "gate" => r.verdict \in Verdicts
    /\ kind = "clear" /\ r.at = "gate" => gate = r.verdict
    /\ kind = "clear" /\ r.at \in {"work", "dispatch"} => gate = "allow"

\* Who is overtaken by a switch is marked for a rerun.
RouteIsFollowed(r) ==
    /\ row[r.item.id] = "processing" \/ r.item.id \in requested
    /\ kind = "gateway" /\ r.item.source # "rerun" /\ r.at \in Decideds \cup {"redirect"}
         => \/ r.item.id \in requested
            \/ route # None /\ r.item.place = route.workflow

RunOK(r) ==
    ThreadsAreHeld(r) /\ PlaceOf(r) /\ GatewayAsks(r) /\ GateAsks(r) /\ RouteIsFollowed(r)

ThreadInv ==
    /\ TypeOK /\ NoThreadIsForgotten /\ MentionsAreHeard
    /\ CountIsBounded /\ LeaksAreFaults /\ ItemsKeepThePlace /\ CommandsHaveARoute
    /\ run # None => RunOK(run)
=============================================================================
