----------------------- MODULE ThreadWorkflow_proofs -----------------------
(***************************************************************************)
(* Theorems about ThreadWorkflow, for any messages, mentions, retry limit, *)
(* sparse interval and number of failures and switches.                    *)
(*                                                                         *)
(* The argument follows the one run of the lane: RunOK says what is known  *)
(* of it at each stage, the steps of process() carry it from stage to      *)
(* stage, and a /workflow command, the only step that changes the route    *)
(* under a run, marks the run it overtakes.                                *)
(***************************************************************************)
EXTENDS ThreadWorkflow, FiniteSetTheorems, TLAPS

\* The constants, one by one.
LEMMA Constants ==
    /\ RetryLimit \in Nat /\ MaxFaults \in Nat /\ MaxSwitches \in Nat /\ Interval \in Nat
    /\ Mentions \subseteq Messages /\ Mentions \cap Replies = {}
BY MessageAssumption

\* The run may change its stage, its place, its engagement, its thread and its
\* verdict; it remains a run, of the same message and source.
LEMMA RunFields ==
    ASSUME TypeOK, run # None
    PROVE  /\ run \in Runs /\ run.item \in QueueItems /\ run.item.id \in Messages
           /\ run.item.place \in Kinds \cup Workflows /\ run.item.source \in Sources
           /\ run.at \in Stages /\ run.gated \in BOOLEAN /\ run.thread \in BOOLEAN
BY DEF TypeOK, Runs, QueueItems

\* The stage alone changes.
LEMMA GoesFields ==
    ASSUME TypeOK, run # None, NEW stage \in Stages, Goes(stage)
    PROVE  /\ run' \in Runs /\ run' # None /\ run'.at = stage
           /\ run'.item = run.item /\ run'.gated = run.gated
           /\ run'.thread = run.thread /\ run'.verdict = run.verdict
BY RunFields, NoneAssumption DEF Goes, Runs

\* The gate's decision is taken over.
LEMMA DecidedFields ==
    ASSUME TypeOK, run # None, NEW verdict \in Verdicts, Decided(verdict)
    PROVE  /\ run' \in Runs /\ run' # None /\ run'.at = "gate"
           /\ run'.item = run.item /\ run'.gated = run.gated
           /\ ~run'.thread /\ run'.verdict = verdict
BY RunFields, NoneAssumption DEF Decided, Runs, Stages

\* The gateway's choice is taken over.
LEMMA PlaceFields ==
    ASSUME TypeOK, run # None, NEW workflow \in Workflows, WithPlace(workflow)
    PROVE  /\ run' \in Runs /\ run' # None /\ run'.at = "redirect"
           /\ run'.item.id = run.item.id /\ run'.item.source = run.item.source
           /\ run'.item.place = workflow /\ run'.gated = run.gated /\ ~run'.thread
<1> DEFINE item == [run.item EXCEPT !.place = workflow]
<1>1. /\ item \in QueueItems /\ item.id = run.item.id
      /\ item.source = run.item.source /\ item.place = workflow
  BY RunFields DEF QueueItems
<1>2. run' = [run EXCEPT !.item = item, !.at = "redirect", !.thread = FALSE, !.verdict = None]
  BY DEF WithPlace
<1> HIDE DEF item
<1>3. QED
  BY <1>1, <1>2, RunFields, NoneAssumption DEF Runs, Stages

\* Marking leaves a decision, and the first one.
LEMMA MarkedFields ==
    ASSUME TypeOK, NEW verdict \in Verdicts
    PROVE  /\ Marked(verdict) \in Verdicts /\ Marked(verdict) # None
           /\ gate = None => Marked(verdict) = verdict
           /\ gate # None => Marked(verdict) = gate
BY NoneAssumption DEF Marked, TypeOK

\* A failed call stays within the bound.
LEMMA FaultFields ==
    ASSUME TypeOK, Fault \/ UNCHANGED faults
    PROVE  faults' \in 0..MaxFaults /\ faults <= faults'
BY Constants DEF TypeOK, Fault

-----------------------------------------------------------------------------
\* How a run may end: it leaves the message to its rerun, gives it up, or
\* concludes it.
Concluded == \E state \in {"completed", "terminal"}, how \in {"told", "answered"} :
                 Conclude(state, how)

\* What every step of process() respects.
LaneStep ==
    /\ UNCHANGED laneVars
    /\ run' \in Runs \cup {None} /\ (run' # None => RunOK(run)')
    /\ route' \in Routes \cup {None} /\ (route # None => route' # None)
    /\ gate' \in Verdicts \cup {None} /\ session' \in BOOLEAN
    /\ row' \in [Messages -> {"none", "processing", "rerun_requested", "pending_retry",
                              "completed", "terminal"}]
    /\ attempts' \in [Messages -> 0..RetryLimit]
    /\ fate' \in [Messages -> {"none", "ignored", "told", "answered", "lost"}]
    /\ MentionsAreHeard'
    /\ faults' \in 0..MaxFaults /\ faults <= faults'
    /\ open' \in Nat /\ leaked' \in Nat /\ leaked' <= faults' /\ NoThreadIsForgotten'

\* A step of the lane keeps the invariant, whatever the stage of its run.
LEMMA LaneStepKeepsInv ==
    ASSUME ThreadInv, LaneStep
    PROVE  ThreadInv'
<1>1. leaked' \in 0..MaxFaults
  BY Constants DEF LaneStep
<1>o. open' \in 0..(MaxFaults + 1)
  <2> DEFINE held == run' # None /\ run'.thread /\ run'.at \in {"turn", "close"}
  <2>1. open' = leaked' + (IF held THEN 1 ELSE 0)
    BY DEF LaneStep, NoThreadIsForgotten
  <2> HIDE DEF held
  <2>2. leaked' \in Nat /\ leaked' <= MaxFaults /\ MaxFaults \in Nat
    BY <1>1, Constants
  <2>b. open' = leaked' + 1 \/ open' = leaked' + 0
    BY <2>1
  <2>3. open' \in Nat /\ open' <= MaxFaults + 1
    BY <2>b, <2>2
  <2>4. QED
    BY <2>2, <2>3
<1>2. TypeOK'
  BY <1>1, <1>o DEF ThreadInv, TypeOK, LaneStep, laneVars
<1>3. CountIsBounded' /\ LeaksAreFaults'
  BY DEF ThreadInv, CountIsBounded, LeaksAreFaults, LaneStep, laneVars
<1>4. ItemsKeepThePlace' /\ CommandsHaveARoute'
  BY DEF ThreadInv, ItemsKeepThePlace, CommandsHaveARoute, LaneStep, laneVars
<1>5. QED
  BY <1>2, <1>3, <1>4 DEF ThreadInv, LaneStep

\* A run that ends outside the ephemeral threads.
LEMMA RunEnds ==
    ASSUME ThreadInv, run # None, run.at \notin {"turn", "close"},
           Stop \/ Throws \/ Concluded, Fault \/ UNCHANGED faults,
           UNCHANGED <<laneVars, route, gate, open, leaked>>, session' \in BOOLEAN
    PROVE  ThreadInv'
<1> DEFINE m == run.item.id
<1>1. TypeOK /\ m \in Messages
  BY RunFields DEF ThreadInv
<1>2. /\ run' = None
      /\ row' \in [Messages -> {"none", "processing", "rerun_requested", "pending_retry",
                                "completed", "terminal"}]
      /\ attempts' \in [Messages -> 0..RetryLimit]
      /\ fate' \in [Messages -> {"none", "ignored", "told", "answered", "lost"}]
      /\ \A n \in Messages : fate'[n] = "ignored" => fate[n] = "ignored"
  BY <1>1, Constants DEF Stop, Throws, Concluded, Conclude, TypeOK, tableVars
<1>3. MentionsAreHeard'
  BY <1>2, Constants DEF ThreadInv, MentionsAreHeard
<1>4. faults' \in 0..MaxFaults /\ faults <= faults'
  BY <1>1, FaultFields
<1>5. NoThreadIsForgotten' /\ open' \in Nat /\ leaked' \in Nat /\ leaked' <= faults'
  BY <1>2, <1>4, <1>1, Constants DEF ThreadInv, NoThreadIsForgotten, LeaksAreFaults, TypeOK
<1>6. LaneStep
  BY <1>1, <1>2, <1>3, <1>4, <1>5 DEF LaneStep, TypeOK
<1>7. QED
  BY <1>6, LaneStepKeepsInv DEF ThreadInv

\* A run that goes on outside the ephemeral threads.
LEMMA RunGoesOn ==
    ASSUME ThreadInv, run # None, run.at \notin {"turn", "close"},
           run' \in Runs, run'.at \notin {"turn", "close"}, ~run'.thread, RunOK(run)',
           UNCHANGED <<tableVars, fate>>, Fault \/ UNCHANGED faults,
           UNCHANGED <<laneVars, route, open, leaked>>,
           gate' \in Verdicts \cup {None}, session' \in BOOLEAN
    PROVE  ThreadInv'
<1>1. TypeOK
  BY DEF ThreadInv
<1>2. faults' \in 0..MaxFaults /\ faults <= faults'
  BY <1>1, FaultFields
<1>3. MentionsAreHeard'
  BY DEF ThreadInv, MentionsAreHeard
<1>4. NoThreadIsForgotten' /\ open' \in Nat /\ leaked' \in Nat /\ leaked' <= faults'
  BY <1>1, <1>2, Constants DEF ThreadInv, NoThreadIsForgotten, LeaksAreFaults, TypeOK
<1>5. LaneStep
  BY <1>1, <1>2, <1>3, <1>4 DEF LaneStep, TypeOK, tableVars
<1>6. QED
  BY <1>5, LaneStepKeepsInv

-----------------------------------------------------------------------------
\* Engagement.

\* Whoever sees the mention takes the message up.
LEMMA MentionsEngage ==
    ASSUME TypeOK, NEW m \in Mentions, NEW directed \in BOOLEAN, SeesDirected(m, directed)
    PROVE  directed
BY Constants DEF SeesDirected

\* At admission a run takes the message up or, if it is no mention, ends it.
LEMMA AdmissionStep ==
    ASSUME ThreadInv, Admission
    PROVE  ThreadInv'
<1> DEFINE m == run.item.id
<1>1. /\ TypeOK /\ run # None /\ run.at = "admission" /\ RunOK(run)
      /\ UNCHANGED <<laneVars, route, gate, session, open, leaked>>
  BY DEF ThreadInv, Admission, At
<1>2. run \in Runs /\ run.item \in QueueItems /\ m \in Messages
  BY <1>1, RunFields
<1>3. PICK directed \in BOOLEAN :
        /\ SeesDirected(m, directed)
        /\ \/ /\ \E fact \in {"none", "directed", "sparse"} :
                   run' = [run EXCEPT !.at = "route", !.item.fact = fact]
              /\ UNCHANGED <<tableVars, fate>>
           \/ ~directed /\ Conclude("completed", "ignored")
  BY <1>2 DEF Admission, Engagement, ThreadEngagement, ChatEngagement, Derived, Dedicated,
              QueueItems
<1>4. Fault \/ UNCHANGED faults
  BY <1>3 DEF SeesDirected
<1>5. ~run.thread
  BY <1>1 DEF RunOK, ThreadsAreHeld
<1>6. ASSUME NEW fact \in {"none", "directed", "sparse"}, UNCHANGED <<tableVars, fate>>,
             run' = [run EXCEPT !.at = "route", !.item.fact = fact]
      PROVE  ThreadInv'
  <2> DEFINE item == [run.item EXCEPT !.fact = fact]
  <2>1. /\ item \in QueueItems /\ item.id = m
        /\ item.source = run.item.source /\ item.place = run.item.place
    BY <1>2 DEF QueueItems
  <2>2. run' = [run EXCEPT !.at = "route", !.item = item]
    BY <1>6
  <2> HIDE DEF item
  <2>3. /\ run' \in Runs /\ run'.at = "route" /\ run'.item = item
        /\ run'.gated = run.gated /\ ~run'.thread
    BY <1>2, <1>5, <2>1, <2>2 DEF Runs, Stages
  <2>4. RunOK(run)'
    BY <1>1, <1>6, <2>1, <2>3
       DEF RunOK, ThreadsAreHeld, PlaceOf, GatewayAsks, GateAsks, RouteIsFollowed, Decideds,
           laneVars, tableVars
  <2>5. QED
    BY <1>1, <1>4, <1>6, <2>3, <2>4, RunGoesOn DEF TypeOK
<1>7. ASSUME ~directed, Conclude("completed", "ignored")
      PROVE  ThreadInv'
  <2>1. m \notin Mentions
    BY <1>1, <1>3, <1>7, MentionsEngage
  <2>2. /\ run' = None
        /\ row' \in [Messages -> {"none", "processing", "rerun_requested", "pending_retry",
                                  "completed", "terminal"}]
        /\ attempts' \in [Messages -> 0..RetryLimit]
        /\ fate' \in [Messages -> {"none", "ignored", "told", "answered", "lost"}]
        /\ \A n \in Messages : fate'[n] = "ignored" => fate[n] = "ignored" \/ n = m
    BY <1>1, <1>2, <1>7, Constants DEF Conclude, TypeOK
  <2>3. MentionsAreHeard'
    BY <2>1, <2>2, Constants DEF ThreadInv, MentionsAreHeard
  <2>4. faults' \in 0..MaxFaults /\ faults <= faults'
    BY <1>1, <1>4, FaultFields
  <2>5. NoThreadIsForgotten' /\ open' \in Nat /\ leaked' \in Nat /\ leaked' <= faults'
    BY <2>2, <2>4, <1>1, Constants DEF ThreadInv, NoThreadIsForgotten, LeaksAreFaults, TypeOK
  <2>6. LaneStep
    BY <1>1, <2>2, <2>3, <2>4, <2>5 DEF LaneStep, TypeOK
  <2>7. QED
    BY <2>6, LaneStepKeepsInv
<1>8. QED
  BY <1>3, <1>6, <1>7

-----------------------------------------------------------------------------
\* The stages outside the ephemeral threads.

\* A stage that follows another without a thread, a verdict or a place.
LEMMA StageGoesOn ==
    ASSUME ThreadInv, run # None, run.at \notin {"turn", "close"}, NEW stage \in Stages,
           stage \notin {"turn", "close"}, Goes(stage), UNCHANGED <<tableVars, fate>>,
           Fault \/ UNCHANGED faults, UNCHANGED <<laneVars, route, gate, open, leaked>>,
           session' \in BOOLEAN, RunOK(run)'
    PROVE  ThreadInv'
<1>1. TypeOK /\ RunOK(run)
  BY DEF ThreadInv
<1>2. run' \in Runs /\ run'.at = stage /\ ~run'.thread
  BY <1>1, GoesFields DEF RunOK, ThreadsAreHeld
<1>3. gate' \in Verdicts \cup {None}
  BY <1>1 DEF TypeOK
<1>4. QED
  BY <1>2, <1>3, RunGoesOn

\* What RunOK says of the next stage, place unchanged.
LEMMA NextStageIsOK ==
    ASSUME ThreadInv, run # None, run.at \notin {"turn", "close"}, NEW stage \in Stages, Goes(stage),
           stage \in {"notice", "error", "dispatch", "failure", "work"},
           UNCHANGED <<laneVars, tableVars, route, gate>>,
           stage # "notice" => run.at \in Decideds,
           stage = "work" => run.at = "gate" /\ run.verdict = "allow",
           stage = "dispatch" => run.at = "work"
    PROVE  RunOK(run)'
<1>1. TypeOK /\ RunOK(run)
  BY DEF ThreadInv
<1>2. /\ run'.at = stage /\ run'.item = run.item /\ run'.gated = run.gated
      /\ run'.thread = run.thread
  BY <1>1, GoesFields
<1>3. ThreadsAreHeld(run)' /\ PlaceOf(run)'
  BY <1>1, <1>2 DEF RunOK, ThreadsAreHeld, PlaceOf, laneVars
<1>4. GatewayAsks(run)' /\ GateAsks(run)'
  BY <1>1, <1>2 DEF RunOK, GatewayAsks, GateAsks, laneVars
<1>5. RouteIsFollowed(run)'
  BY <1>1, <1>2 DEF RunOK, RouteIsFollowed, Decideds, laneVars, tableVars
<1>6. QED
  BY <1>3, <1>4, <1>5 DEF RunOK

\* A notice is sent, or nobody catches its error.
LEMMA NoticeStep ==
    ASSUME ThreadInv, NoticeSettles
    PROVE  ThreadInv'
<1>1. run # None /\ run.at = "notice" /\ session' \in BOOLEAN
  BY DEF NoticeSettles, At, ThreadInv, TypeOK
<1>2. Fault \/ UNCHANGED faults
  BY DEF NoticeSettles
<1>3. Throws \/ Concluded
  BY DEF NoticeSettles, Concluded
<1>4. QED
  BY <1>1, <1>2, <1>3, RunEnds DEF NoticeSettles

\* After the gate: a rerun takes over, a notice, or the work.
LEMMA GateStep ==
    ASSUME ThreadInv, GateSettles
    PROVE  ThreadInv'
<1>1. run # None /\ run.at = "gate" /\ session' \in BOOLEAN
  BY DEF GateSettles, At, ThreadInv, TypeOK
<1>2. Fault \/ UNCHANGED faults
  BY DEF GateSettles
<1>3. CASE Stop \/ Concluded
  BY <1>1, <1>2, <1>3, RunEnds DEF GateSettles
<1>4. ASSUME NEW stage \in {"failure", "work"}, Goes(stage), UNCHANGED <<tableVars, fate>>,
             stage = "work" => run.verdict = "allow"
      PROVE  ThreadInv'
  <2>1. stage \in Stages
    BY DEF Stages
  <2>2. RunOK(run)'
    BY <1>1, <1>4, <2>1, NextStageIsOK DEF GateSettles, Decideds
  <2>3. QED
    BY <1>1, <1>2, <1>4, <2>1, <2>2, StageGoesOn DEF GateSettles
<1>5. QED
  BY <1>3, <1>4 DEF GateSettles, Concluded

\* The turn ends, fails, or has been overtaken.
LEMMA WorkStep ==
    ASSUME ThreadInv, WorkSettles
    PROVE  ThreadInv'
<1>1. run # None /\ run.at = "work"
  BY DEF WorkSettles, At
<1>2. Fault \/ UNCHANGED faults
  BY DEF WorkSettles
<1>3. session' \in BOOLEAN
  <2>1. session \in BOOLEAN
    BY DEF ThreadInv, TypeOK
  <2>2. QED
    BY <2>1 DEF WorkSettles
<1>4. CASE Stop
  BY <1>1, <1>2, <1>3, <1>4, RunEnds DEF WorkSettles
<1>5. ASSUME NEW stage \in {"error", "dispatch"}, Goes(stage), UNCHANGED <<tableVars, fate>>
      PROVE  ThreadInv'
  <2>1. stage \in Stages
    BY DEF Stages
  <2>2. RunOK(run)'
    BY <1>1, <1>5, <2>1, NextStageIsOK DEF WorkSettles, Decideds
  <2>3. QED
    BY <1>1, <1>2, <1>3, <1>5, <2>1, <2>2, StageGoesOn DEF WorkSettles
<1>6. QED
  BY <1>4, <1>5 DEF WorkSettles

\* An error leaves the message to its rerun or to the failure path.
LEMMA ErrorStep ==
    ASSUME ThreadInv, ErrorCaught
    PROVE  ThreadInv'
<1>1. run # None /\ run.at = "error" /\ session' \in BOOLEAN
  BY DEF ErrorCaught, At, ThreadInv, TypeOK
<1>2. CASE Stop
  BY <1>1, <1>2, RunEnds DEF ErrorCaught
<1>3. CASE Goes("failure") /\ UNCHANGED <<tableVars, fate>>
  <2>1. "failure" \in Stages
    BY DEF Stages
  <2>2. RunOK(run)'
    BY <1>1, <1>3, <2>1, NextStageIsOK DEF ErrorCaught, Decideds
  <2>3. QED
    BY <1>1, <1>3, <2>1, <2>2, StageGoesOn DEF ErrorCaught
<1>4. QED
  BY <1>2, <1>3 DEF ErrorCaught

\* The answer is sent, fails, or has been overtaken.
LEMMA DispatchStep ==
    ASSUME ThreadInv, DispatchSettles
    PROVE  ThreadInv'
<1>1. run # None /\ run.at = "dispatch" /\ session' \in BOOLEAN
  BY DEF DispatchSettles, At, ThreadInv, TypeOK
<1>2. Fault \/ UNCHANGED faults
  BY DEF DispatchSettles
<1>3. CASE Stop \/ Concluded
  BY <1>1, <1>2, <1>3, RunEnds DEF DispatchSettles
<1>4. CASE Goes("error") /\ UNCHANGED <<tableVars, fate>>
  <2>1. "error" \in Stages
    BY DEF Stages
  <2>2. RunOK(run)'
    BY <1>1, <1>4, <2>1, NextStageIsOK DEF DispatchSettles, Decideds
  <2>3. QED
    BY <1>1, <1>2, <1>4, <2>1, <2>2, StageGoesOn DEF DispatchSettles
<1>5. QED
  BY <1>3, <1>4 DEF DispatchSettles, Concluded

\* The failure is announced and retried, or final.
LEMMA FailureStep ==
    ASSUME ThreadInv, FailureSettles
    PROVE  ThreadInv'
<1> DEFINE m == run.item.id
<1>1. /\ run # None /\ run.at = "failure" /\ session' \in BOOLEAN /\ TypeOK
      /\ UNCHANGED <<laneVars, route, gate, session, open, leaked, faults>>
  BY DEF FailureSettles, At, ThreadInv, TypeOK
<1>2. CASE Concluded
  BY <1>1, <1>2, RunEnds DEF FailureSettles
<1>3. ASSUME Retryable, run' = None, UNCHANGED fate,
             row' = [row EXCEPT ![m] = "pending_retry"],
             attempts' = [attempts EXCEPT ![m] = @ + 1]
      PROVE  ThreadInv'
  <2>1. m \in Messages
    BY <1>1, RunFields
  <2>2. attempts[m] + 1 \in 0..RetryLimit
    <3>1. attempts[m] \in 0..RetryLimit /\ attempts[m] < RetryLimit
      BY <1>1, <1>3, <2>1 DEF TypeOK, Retryable
    <3>2. QED
      BY <3>1, Constants
  <2>3. /\ row' \in [Messages -> {"none", "processing", "rerun_requested", "pending_retry",
                                  "completed", "terminal"}]
        /\ attempts' \in [Messages -> 0..RetryLimit]
    BY <1>1, <1>3, <2>2 DEF TypeOK
  <2>4. MentionsAreHeard'
    BY <1>3 DEF ThreadInv, MentionsAreHeard
  <2>5. NoThreadIsForgotten' /\ open' \in Nat /\ leaked' \in Nat /\ leaked' <= faults'
    <3>1. ~run.thread
      BY <1>1 DEF ThreadInv, RunOK, ThreadsAreHeld
    <3>2. QED
      BY <3>1, <1>1, <1>3, Constants DEF ThreadInv, NoThreadIsForgotten, LeaksAreFaults, TypeOK
  <2>6. LaneStep
    BY <1>1, <1>3, <2>3, <2>4, <2>5 DEF LaneStep, TypeOK
  <2>7. QED
    BY <2>6, LaneStepKeepsInv
<1>4. QED
  BY <1>2, <1>3 DEF FailureSettles, Concluded

-----------------------------------------------------------------------------
\* The gateway and the gate.

\* A run that takes the stored route of the thread.
LEMMA PlaceIsTaken ==
    ASSUME ThreadInv, run # None, NEW workflow \in Workflows, WithPlace(workflow),
           \/ run.at = "route" /\ run.item.place = "gateway"
           \/ run.at = "close" /\ ~run.gated,
           UNCHANGED <<laneVars, tableVars, gate>>,
           route' # None /\ route'.workflow = workflow
    PROVE  RunOK(run)'
<1>1. TypeOK /\ RunOK(run)
  BY DEF ThreadInv
<1>2. /\ run'.at = "redirect" /\ run'.item.id = run.item.id
      /\ run'.item.source = run.item.source /\ run'.item.place = workflow
      /\ run'.gated = run.gated /\ ~run'.thread
  BY <1>1, PlaceFields
<1>3. kind = "gateway"
  BY <1>1 DEF RunOK, PlaceOf
<1>4. ThreadsAreHeld(run)' /\ PlaceOf(run)'
  BY <1>1, <1>2, <1>3 DEF RunOK, ThreadsAreHeld, PlaceOf, laneVars
<1>5. GatewayAsks(run)' /\ GateAsks(run)'
  BY <1>2, <1>3 DEF GatewayAsks, GateAsks, laneVars
<1>6. RouteIsFollowed(run)'
  BY <1>1, <1>2, <1>3 DEF RunOK, RouteIsFollowed, laneVars, tableVars
<1>7. QED
  BY <1>4, <1>5, <1>6 DEF RunOK

\* resolve(): another place, a stored route, a notice, or a selection.
LEMMA RouteStep ==
    ASSUME ThreadInv, Route
    PROVE  ThreadInv'
<1>1. /\ run # None /\ run.at = "route" /\ session' \in BOOLEAN /\ TypeOK /\ RunOK(run)
      /\ UNCHANGED <<laneVars, tableVars, route, gate, session, open, leaked, fate, faults>>
  BY DEF Route, At, ThreadInv, TypeOK
<1>2. CASE run.item.place = "gateway" /\ Routed /\ WithPlace(route.workflow)
  <2>1. route # None /\ route.workflow \in Workflows
    BY <1>1, <1>2 DEF Routed, TypeOK, Routes
  <2> DEFINE workflow == route.workflow
  <2>m. route' # None /\ route'.workflow = workflow /\ workflow \in Workflows
    BY <1>1, <2>1
  <2>w. WithPlace(workflow)
    BY <1>2
  <2> HIDE DEF workflow
  <2>2. RunOK(run)'
    BY <1>1, <1>2, <2>m, <2>w, PlaceIsTaken
  <2>3. run' \in Runs /\ run'.at = "redirect" /\ ~run'.thread
    BY <1>1, <2>m, <2>w, PlaceFields
  <2>4. QED
    BY <1>1, <2>2, <2>3, RunGoesOn DEF TypeOK
<1>3. CASE run.item.place # "gateway" /\ Goes("redirect")
  <2>1. /\ run'.at = "redirect" /\ run'.item = run.item /\ run'.gated = run.gated
        /\ run'.thread = run.thread
    BY <1>1, <1>3, GoesFields DEF Stages
  <2>2. RunOK(run)'
    BY <1>1, <1>3, <2>1
       DEF RunOK, ThreadsAreHeld, PlaceOf, GatewayAsks, GateAsks, RouteIsFollowed, Decideds,
           laneVars, tableVars
  <2>3. QED
    BY <1>1, <1>3, <2>2, StageGoesOn DEF Stages
<1>4. CASE Goes("notice")
  <2>1. RunOK(run)'
    BY <1>1, <1>4, NextStageIsOK DEF Stages
  <2>2. QED
    BY <1>1, <1>4, <2>1, StageGoesOn DEF Stages
<1>5. CASE run.item.place = "gateway" /\ ~Routed /\ Goes("open")
  <2>1. /\ run'.at = "open" /\ run'.item = run.item /\ run'.gated = run.gated
        /\ run'.thread = run.thread
    BY <1>1, <1>5, GoesFields DEF Stages
  <2>2. ~run.gated
    BY <1>1, <1>5 DEF RunOK, PlaceOf
  <2>3. RunOK(run)'
    BY <1>1, <1>5, <2>1, <2>2
       DEF RunOK, ThreadsAreHeld, PlaceOf, GatewayAsks, GateAsks, RouteIsFollowed, Routed, Decideds,
           laneVars, tableVars
  <2>4. QED
    BY <1>1, <1>5, <2>3, StageGoesOn DEF Stages
<1>6. QED
  BY <1>2, <1>3, <1>4, <1>5 DEF Route

\* The gate is not asked, has decided before, or opens a thread.
LEMMA RedirectStep ==
    ASSUME ThreadInv, Redirect
    PROVE  ThreadInv'
<1>1. /\ run # None /\ run.at = "redirect" /\ session' \in BOOLEAN /\ TypeOK /\ RunOK(run)
      /\ UNCHANGED <<laneVars, tableVars, route, session, open, leaked, fate, faults>>
  BY DEF Redirect, At, ThreadInv, TypeOK
<1>2. ASSUME NEW verdict \in Verdicts, Decided(verdict), gate' \in Verdicts \cup {None},
             kind = "clear" => gate' = verdict
      PROVE  ThreadInv'
  <2>1. /\ run' \in Runs /\ run'.at = "gate" /\ run'.item = run.item
        /\ run'.gated = run.gated /\ ~run'.thread /\ run'.verdict = verdict
    BY <1>1, <1>2, DecidedFields
  <2>2. RunOK(run)'
    BY <1>1, <1>2, <2>1
       DEF RunOK, ThreadsAreHeld, PlaceOf, GatewayAsks, GateAsks, RouteIsFollowed, Decideds,
           laneVars, tableVars
  <2>3. QED
    BY <1>1, <1>2, <2>1, <2>2, RunGoesOn
<1>3. kind = "clear" => run.gated /\ run.item.place = "clear"
  BY <1>1 DEF RunOK, PlaceOf
<1>4. CASE ~(run.gated /\ run.item.place = "clear") /\ Decided("allow") /\ UNCHANGED gate
  BY <1>1, <1>2, <1>3, <1>4 DEF Verdicts, TypeOK
<1>5. CASE Known /\ Decided(gate) /\ UNCHANGED gate
  BY <1>1, <1>2, <1>5 DEF Known, TypeOK
<1>6. CASE ~Known /\ gate' = Marked("allow") /\ Decided("allow")
  BY <1>1, <1>2, <1>6, MarkedFields DEF Known, Verdicts
<1>7. CASE run.gated /\ ~Known /\ Goes("open") /\ UNCHANGED gate
  <2>1. /\ run'.at = "open" /\ run'.item = run.item /\ run'.gated = run.gated
        /\ run'.thread = run.thread
    BY <1>1, <1>7, GoesFields DEF Stages
  <2>2. RunOK(run)'
    BY <1>1, <1>7, <2>1
       DEF RunOK, ThreadsAreHeld, PlaceOf, GatewayAsks, GateAsks, RouteIsFollowed, Known, Decideds,
           laneVars, tableVars
  <2>3. QED
    BY <1>1, <1>7, <2>2, StageGoesOn DEF Stages
<1>8. QED
  BY <1>4, <1>5, <1>6, <1>7 DEF Redirect

-----------------------------------------------------------------------------
\* The ephemeral threads.

\* One is opened for the gateway or the gate.
LEMMA OpenStep ==
    ASSUME ThreadInv, Opens
    PROVE  ThreadInv'
<1>1. /\ run # None /\ run.at = "open" /\ TypeOK /\ RunOK(run) /\ run \in Runs
      /\ UNCHANGED <<laneVars, tableVars, route, gate, session, leaked, fate>>
  BY RunFields DEF Opens, At, ThreadInv
<1>2. ~run.thread
  BY <1>1 DEF RunOK, ThreadsAreHeld
<1>3. faults' \in 0..MaxFaults /\ faults <= faults'
  BY <1>1, FaultFields DEF Opens
<1>4. MentionsAreHeard'
  BY <1>1 DEF ThreadInv, MentionsAreHeard
<1>5. open = leaked /\ leaked \in Nat /\ leaked <= faults
  BY <1>1, <1>2, Constants DEF ThreadInv, NoThreadIsForgotten, LeaksAreFaults, TypeOK
<1>6. CASE run' = [run EXCEPT !.at = "turn", !.thread = TRUE] /\ open' = open + 1
  <2>1. /\ run' \in Runs /\ run'.at = "turn" /\ run'.item = run.item
        /\ run'.gated = run.gated /\ run'.thread = TRUE /\ run' # None
    BY <1>1, <1>6, NoneAssumption DEF Runs, Stages
  <2>2. RunOK(run)'
    BY <1>1, <2>1
       DEF RunOK, ThreadsAreHeld, PlaceOf, GatewayAsks, GateAsks, RouteIsFollowed, Decideds,
           laneVars, tableVars
  <2>3. open' \in Nat /\ leaked' \in Nat /\ leaked' <= faults'
    BY <1>1, <1>3, <1>5, <1>6, Constants DEF TypeOK
  <2>4. NoThreadIsForgotten'
    BY <1>1, <1>5, <1>6, <2>1 DEF NoThreadIsForgotten
  <2>5. LaneStep
    BY <1>1, <1>3, <1>4, <2>1, <2>2, <2>3, <2>4 DEF LaneStep, TypeOK, tableVars
  <2>6. QED
    BY <2>5, LaneStepKeepsInv
<1>7. CASE run' = [run EXCEPT !.at = "close", !.verdict = "error"] /\ UNCHANGED open
  <2>1. /\ run' \in Runs /\ run'.at = "close" /\ run'.item = run.item
        /\ run'.gated = run.gated /\ ~run'.thread /\ run'.verdict = "error"
    BY <1>1, <1>2, <1>7 DEF Runs, Stages
  <2>2. RunOK(run)'
    BY <1>1, <2>1
       DEF RunOK, ThreadsAreHeld, PlaceOf, GatewayAsks, GateAsks, RouteIsFollowed, Decideds,
           laneVars, tableVars
  <2>3. open' \in Nat /\ leaked' \in Nat /\ leaked' <= faults'
    BY <1>1, <1>3, <1>5, <1>7, Constants DEF TypeOK
  <2>4. NoThreadIsForgotten'
    BY <1>1, <1>5, <1>7, <2>1 DEF NoThreadIsForgotten
  <2>5. LaneStep
    BY <1>1, <1>3, <1>4, <2>1, <2>2, <2>3, <2>4 DEF LaneStep, TypeOK, tableVars
  <2>6. QED
    BY <2>5, LaneStepKeepsInv
<1>8. QED
  BY <1>6, <1>7 DEF Opens

\* The turn ends; the gate marks what it heard.
LEMMA TurnStep ==
    ASSUME ThreadInv, TurnSettles
    PROVE  ThreadInv'
<1>1. /\ run # None /\ run.at = "turn" /\ TypeOK /\ RunOK(run) /\ run \in Runs
      /\ UNCHANGED <<laneVars, tableVars, route, session, open, leaked, fate>>
  BY RunFields DEF TurnSettles, At, ThreadInv
<1>2. run.thread
  BY <1>1 DEF RunOK, ThreadsAreHeld
<1>3. PICK verdict \in (IF run.gated THEN Verdicts ELSE Workflows) \cup {"error"} :
        /\ Fault \/ UNCHANGED faults
        /\ gate' = IF ~run.gated THEN gate
                   ELSE Marked(IF verdict = "error" THEN "allow" ELSE verdict)
        /\ run' = [run EXCEPT !.verdict = verdict, !.at = "close"]
  BY DEF TurnSettles, AfterTurn
<1>4. faults' \in 0..MaxFaults /\ faults <= faults'
  BY <1>1, <1>3, FaultFields
<1>5. /\ run' \in Runs /\ run'.at = "close" /\ run'.item = run.item /\ run' # None
      /\ run'.gated = run.gated /\ run'.thread = run.thread /\ run'.verdict = verdict
  BY <1>1, <1>3, NoneAssumption DEF Runs, Stages
<1>6. ASSUME ~run.gated
      PROVE  gate' \in Verdicts \cup {None} /\ RunOK(run)'
  <2>1. UNCHANGED gate /\ verdict \in Workflows \cup {"error"}
    BY <1>3, <1>6
  <2>2. gate' \in Verdicts \cup {None}
    BY <1>1, <2>1 DEF TypeOK
  <2>3. RunOK(run)'
    BY <1>1, <1>2, <1>5, <1>6, <2>1
       DEF RunOK, ThreadsAreHeld, PlaceOf, GatewayAsks, GateAsks, RouteIsFollowed, Decideds,
           laneVars, tableVars
  <2>4. QED
    BY <2>2, <2>3
<1>7. ASSUME run.gated
      PROVE  gate' \in Verdicts \cup {None} /\ RunOK(run)'
  <2>1. gate = None
    BY <1>1, <1>7 DEF RunOK, GateAsks
  <2>2. \/ verdict \in Verdicts /\ verdict # "error" /\ gate' = Marked(verdict)
        \/ verdict = "error" /\ gate' = Marked("allow")
    BY <1>3, <1>7 DEF Verdicts
  <2>3. \/ verdict \in Verdicts /\ gate' = verdict
        \/ verdict = "error" /\ gate' = "allow"
    BY <1>1, <2>1, <2>2, MarkedFields DEF Verdicts
  <2>4. gate' \in Verdicts \cup {None}
    BY <2>3 DEF Verdicts
  <2>5. RunOK(run)'
    BY <1>1, <1>2, <1>5, <1>7, <2>3
       DEF RunOK, ThreadsAreHeld, PlaceOf, GatewayAsks, GateAsks, RouteIsFollowed, Decideds,
           laneVars, tableVars
  <2>6. QED
    BY <2>4, <2>5
<1>8. gate' \in Verdicts \cup {None} /\ RunOK(run)'
  BY <1>6, <1>7
<1>9. MentionsAreHeard'
  BY <1>1 DEF ThreadInv, MentionsAreHeard
<1>10. open' \in Nat /\ leaked' \in Nat /\ leaked' <= faults' /\ NoThreadIsForgotten'
  <2>1. open' \in Nat /\ leaked' \in Nat /\ leaked' <= faults'
    BY <1>1, <1>4, Constants DEF ThreadInv, LeaksAreFaults, TypeOK
  <2>2. NoThreadIsForgotten'
    BY <1>1, <1>2, <1>5 DEF ThreadInv, NoThreadIsForgotten
  <2>3. QED
    BY <2>1, <2>2
<1>11. LaneStep
  BY <1>1, <1>4, <1>5, <1>8, <1>9, <1>10 DEF LaneStep, TypeOK, tableVars
<1>12. QED
  BY <1>11, LaneStepKeepsInv

\* Closing gives the thread back or leaks it.
LEMMA CloseFields ==
    ASSUME ThreadInv, run # None, run.at = "close", Closes,
           run' # None => ~run'.thread
    PROVE  /\ faults' \in 0..MaxFaults /\ faults <= faults'
           /\ open' \in Nat /\ leaked' \in Nat /\ leaked' <= faults'
           /\ NoThreadIsForgotten'
<1>1. TypeOK /\ leaked <= faults
  BY DEF ThreadInv, LeaksAreFaults
<1>2. leaked \in Nat /\ faults \in Nat /\ MaxFaults \in Nat
  BY <1>1, Constants DEF TypeOK
<1>3. faults' \in 0..MaxFaults /\ faults <= faults'
  BY <1>1, FaultFields DEF Closes
<1>4. open = leaked + (IF run.thread THEN 1 ELSE 0)
  BY DEF ThreadInv, NoThreadIsForgotten
<1>5. CASE ~run.thread /\ UNCHANGED <<open, leaked, faults>>
  BY <1>1, <1>2, <1>3, <1>4, <1>5 DEF NoThreadIsForgotten
<1>6. CASE run.thread /\ open' = open - 1 /\ UNCHANGED <<leaked, faults>>
  BY <1>1, <1>2, <1>3, <1>4, <1>6 DEF NoThreadIsForgotten
<1>7. CASE run.thread /\ Fault /\ leaked' = leaked + 1 /\ UNCHANGED open
  BY <1>1, <1>2, <1>3, <1>4, <1>7 DEF NoThreadIsForgotten, Fault
<1>8. QED
  BY <1>5, <1>6, <1>7 DEF Closes

\* The gateway stores the route it heard, or tells that there is none.
LEMMA SelectedStep ==
    ASSUME ThreadInv, Selected
    PROVE  ThreadInv' /\ route = None
<1>1. /\ run # None /\ run.at = "close" /\ TypeOK /\ RunOK(run) /\ run \in Runs /\ ~run.gated
      /\ UNCHANGED <<laneVars, tableVars, gate, session, fate>> /\ Closes
  BY RunFields DEF Selected, At, ThreadInv
<1>2. route = None /\ run.verdict \in Workflows \cup {"error"}
  BY <1>1 DEF RunOK, GatewayAsks
<1>3. ASSUME run.verdict # "error", MarkRoute(run.verdict, "starter"), WithPlace(run.verdict)
      PROVE  run' \in Runs /\ ~run'.thread /\ RunOK(run)' /\ route' \in Routes
  <2> DEFINE workflow == run.verdict
  <2>1. workflow \in Workflows /\ MarkRoute(workflow, "starter") /\ WithPlace(workflow)
    BY <1>2, <1>3
  <2> HIDE DEF workflow
  <2>2. route' \in Routes /\ route' # None /\ route'.workflow = workflow
    BY <2>1, NoneAssumption DEF MarkRoute, Routes
  <2>3. run' \in Runs /\ ~run'.thread
    BY <1>1, <2>1, PlaceFields
  <2>4. RunOK(run)'
    BY <1>1, <2>1, <2>2, PlaceIsTaken
  <2>5. QED
    BY <2>2, <2>3, <2>4
<1>4. ASSUME run' = [run EXCEPT !.at = "notice", !.thread = FALSE], UNCHANGED route
      PROVE  run' \in Runs /\ ~run'.thread /\ RunOK(run)' /\ route' = None
  <2>1. /\ run' \in Runs /\ run'.at = "notice" /\ run'.item = run.item
        /\ run'.gated = run.gated /\ ~run'.thread
    BY <1>1, <1>4 DEF Runs, Stages
  <2>2. RunOK(run)'
    BY <1>1, <1>4, <2>1
       DEF RunOK, ThreadsAreHeld, PlaceOf, GatewayAsks, GateAsks, RouteIsFollowed, Decideds,
           laneVars, tableVars
  <2>3. QED
    BY <1>2, <1>4, <2>1, <2>2
<1>5. run' \in Runs /\ ~run'.thread /\ RunOK(run)' /\ route' \in Routes \cup {None}
  BY <1>3, <1>4 DEF Selected
<1>6. /\ faults' \in 0..MaxFaults /\ faults <= faults'
      /\ open' \in Nat /\ leaked' \in Nat /\ leaked' <= faults'
      /\ NoThreadIsForgotten'
  BY <1>1, <1>5, CloseFields
<1>7. MentionsAreHeard'
  BY <1>1 DEF ThreadInv, MentionsAreHeard
<1>8. LaneStep
  BY <1>1, <1>2, <1>5, <1>6, <1>7 DEF LaneStep, TypeOK, tableVars
<1>9. QED
  BY <1>2, <1>8, LaneStepKeepsInv

\* The gate's decision after its thread is closed; an error is a yes.
LEMMA GatedStep ==
    ASSUME ThreadInv, Gated
    PROVE  ThreadInv'
<1>1. /\ run # None /\ run.at = "close" /\ TypeOK /\ RunOK(run) /\ run \in Runs /\ run.gated
      /\ UNCHANGED <<laneVars, tableVars, route, session, fate>> /\ Closes
  BY RunFields DEF Gated, At, ThreadInv
<1>2. PICK verdict \in Verdicts : Decided(verdict) /\ gate' = verdict
  <2>1. CASE run.verdict = "error"
    <3>1. gate \in {"allow", None} /\ "error" \notin Verdicts /\ "allow" \in Verdicts
      BY <1>1, <2>1 DEF RunOK, GateAsks, Verdicts
    <3>2. Decided("allow") /\ gate' = Marked("allow")
      BY <2>1 DEF Gated
    <3>3. QED
      BY <1>1, <3>1, <3>2, MarkedFields
  <2>2. CASE run.verdict # "error"
    <3>1. run.verdict \in Verdicts /\ gate = run.verdict
      BY <1>1, <2>2 DEF RunOK, GateAsks
    <3>2. Decided(run.verdict) /\ gate' = gate
      BY <2>2 DEF Gated
    <3>3. QED
      BY <3>1, <3>2
  <2>3. QED
    BY <2>1, <2>2
<1>3. /\ run' \in Runs /\ run'.at = "gate" /\ run'.item = run.item
      /\ run'.gated = run.gated /\ ~run'.thread /\ run'.verdict = verdict
  BY <1>1, <1>2, DecidedFields
<1>4. kind = "gateway" /\ run.item.source # "rerun" => FALSE
  BY <1>1 DEF RunOK, PlaceOf
<1>5. RunOK(run)'
  BY <1>1, <1>2, <1>3, <1>4
     DEF RunOK, ThreadsAreHeld, PlaceOf, GatewayAsks, GateAsks, RouteIsFollowed, Decideds,
         laneVars, tableVars
<1>6. /\ faults' \in 0..MaxFaults /\ faults <= faults'
      /\ open' \in Nat /\ leaked' \in Nat /\ leaked' <= faults'
      /\ NoThreadIsForgotten'
  BY <1>1, <1>3, CloseFields
<1>7. MentionsAreHeard'
  BY <1>1 DEF ThreadInv, MentionsAreHeard
<1>8. LaneStep
  BY <1>1, <1>2, <1>3, <1>5, <1>6, <1>7 DEF LaneStep, TypeOK, tableVars
<1>9. QED
  BY <1>8, LaneStepKeepsInv

-----------------------------------------------------------------------------
\* All steps.

\* process() at each of its stages.
LEMMA ProcessStep ==
    ASSUME ThreadInv, Process
    PROVE  ThreadInv'
BY AdmissionStep, RouteStep, OpenStep, TurnStep, SelectedStep, NoticeStep, RedirectStep,
   GatedStep, GateStep, WorkStep, ErrorStep, DispatchStep, FailureStep DEF Process

\* What nobody touches keeps holding.
LEMMA RunStays ==
    ASSUME ThreadInv, UNCHANGED <<kind, route, gate, row, requested, run>>
    PROVE  run' # None => RunOK(run)'
BY DEF ThreadInv, RunOK, ThreadsAreHeld, PlaceOf, GatewayAsks, GateAsks, RouteIsFollowed

\* What a step that touches neither runs nor threads leaves alone.
LEMMA ThreadsStay ==
    ASSUME ThreadInv, UNCHANGED <<run, open, leaked, fate, faults>>
    PROVE  NoThreadIsForgotten' /\ MentionsAreHeard' /\ LeaksAreFaults'
BY DEF ThreadInv, NoThreadIsForgotten, MentionsAreHeard, LeaksAreFaults

\* The counter of a step that takes nothing in.
LEMMA CountStays ==
    ASSUME ThreadInv, UNCHANGED <<counter, intake>>
    PROVE  CountIsBounded'
BY DEF ThreadInv, CountIsBounded

\* A message that is handled is one more.
LEMMA OneMoreIsDone ==
    ASSUME TypeOK, NEW m \in Messages, intake[m] # "done",
           intake' = [intake EXCEPT ![m] = "done"]
    PROVE  Cardinality({n \in Messages : intake'[n] = "done"})
               = Cardinality({n \in Messages : intake[n] = "done"}) + 1
<1> DEFINE done == {n \in Messages : intake[n] = "done"}
<1>1. {n \in Messages : intake'[n] = "done"} = done \cup {m} /\ m \notin done
  BY DEF TypeOK
<1>2. IsFiniteSet(done)
  BY MessageAssumption, FS_Subset
<1>3. QED
  BY <1>1, <1>2, FS_AddElement

\* As many are done as there are messages, at most.
LEMMA DoneAreMessages ==
    ASSUME TypeOK
    PROVE  /\ Cardinality({n \in Messages : intake[n] = "done"}) \in Nat
           /\ Cardinality(Messages) \in Nat
           /\ Cardinality({n \in Messages : intake[n] = "done"}) <= Cardinality(Messages)
BY MessageAssumption, FS_Subset, FS_CardinalityType

\* A message is posted; intake has it before it is judged.
LEMMA PostStep ==
    ASSUME ThreadInv, NEW m \in Messages, Post(m)
    PROVE  ThreadInv'
<1>1. TypeOK'
  BY DEF Post, ThreadInv, TypeOK, placeVars, tableVars
<1>2. {n \in Messages : intake'[n] = "done"} = {n \in Messages : intake[n] = "done"}
  BY DEF Post, ThreadInv, TypeOK
<1>3. CountIsBounded'
  BY <1>2 DEF Post, ThreadInv, CountIsBounded
<1>4. ItemsKeepThePlace' /\ CommandsHaveARoute'
  BY DEF Post, ThreadInv, ItemsKeepThePlace, CommandsHaveARoute, placeVars
<1>5. QED
  BY <1>1, <1>3, <1>4, RunStays, ThreadsStay DEF Post, ThreadInv, placeVars, tableVars

\* Intake ignores a message, counts it, or submits it.
LEMMA IntakeStep ==
    ASSUME ThreadInv, NEW m \in Messages, IntakeSettles(m)
    PROVE  ThreadInv'
<1>1. TypeOK /\ counter \in Nat /\ Interval \in Nat
  BY Constants DEF ThreadInv, TypeOK
<1>2. counter' \in {counter, counter + 1}
  BY DEF IntakeSettles
<1>3. CountIsBounded' /\ counter' \in 0..(Interval + Cardinality(Messages))
  <2> DEFINE done == Cardinality({n \in Messages : intake[n] = "done"})
  <2>1. Cardinality({n \in Messages : intake'[n] = "done"}) = done + 1
    BY <1>1, OneMoreIsDone DEF IntakeSettles
  <2>2. done \in Nat /\ counter < Interval + done
    BY <1>1, DoneAreMessages DEF ThreadInv, CountIsBounded
  <2>3. done + 1 <= Cardinality(Messages) /\ Cardinality(Messages) \in Nat
    <3>1. {n \in Messages : intake'[n] = "done"} \subseteq Messages
      OBVIOUS
    <3>2. QED
      BY <3>1, <2>1, <1>1, DoneAreMessages, MessageAssumption, FS_Subset
  <2> HIDE DEF done
  <2>4. counter' \in Nat /\ counter' < Interval + (done + 1)
    BY <1>1, <1>2, <2>2
  <2>5. CountIsBounded'
    BY <2>1, <2>4 DEF CountIsBounded
  <2>6. counter' <= Interval + Cardinality(Messages)
    BY <1>1, <2>2, <2>3, <2>4
  <2>7. QED
    BY <1>1, <2>3, <2>4, <2>5, <2>6
<1>4. PICK fact \in {"none", "directed", "sparse"} :
        waiting' = waiting \/ waiting' = waiting \cup {Item(m, "live", fact)}
  BY DEF IntakeSettles, Fact
<1>5. Item(m, "live", fact) \in QueueItems /\ Item(m, "live", fact).place = kind
  BY <1>1 DEF Item, QueueItems, Sources, TypeOK
<1>6. faults' \in 0..MaxFaults /\ faults <= faults'
  BY <1>1, FaultFields DEF IntakeSettles, SeesDirected
<1>7. TypeOK'
  BY <1>1, <1>3, <1>4, <1>5, <1>6 DEF IntakeSettles, TypeOK, placeVars, tableVars
<1>8. ItemsKeepThePlace'
  BY <1>4, <1>5 DEF IntakeSettles, ThreadInv, ItemsKeepThePlace, placeVars
<1>9. CommandsHaveARoute' /\ MentionsAreHeard' /\ NoThreadIsForgotten'
  BY DEF IntakeSettles, ThreadInv, CommandsHaveARoute, MentionsAreHeard, NoThreadIsForgotten,
         placeVars
<1>10. LeaksAreFaults'
  BY <1>1, <1>6, Constants DEF IntakeSettles, ThreadInv, LeaksAreFaults, TypeOK
<1>11. QED
  BY <1>3, <1>7, <1>8, <1>9, <1>10, RunStays DEF IntakeSettles, ThreadInv, placeVars, tableVars

\* A retry builds its item anew, without the engagement intake had seen.
LEMMA RetryStep ==
    ASSUME ThreadInv, NEW m \in Messages, RetryFallsDue(m)
    PROVE  ThreadInv'
<1>1. Item(m, "retry", "none") \in QueueItems /\ Item(m, "retry", "none").place = kind
  BY DEF Item, QueueItems, Sources, ThreadInv, TypeOK
<1>2. TypeOK'
  BY <1>1 DEF RetryFallsDue, ThreadInv, TypeOK, placeVars, tableVars
<1>3. ItemsKeepThePlace' /\ CommandsHaveARoute'
  BY <1>1 DEF RetryFallsDue, ThreadInv, ItemsKeepThePlace, CommandsHaveARoute, placeVars
<1>4. QED
  BY <1>2, <1>3, RunStays, ThreadsStay, CountStays
     DEF RetryFallsDue, ThreadInv, placeVars, tableVars

\* The lane takes the next message it may process.
LEMMA BeginStep ==
    ASSUME ThreadInv, Begin
    PROVE  ThreadInv'
<1>1. /\ TypeOK /\ run = None
      /\ UNCHANGED <<placeVars, counter, intake, command, open, leaked, fate, faults, switches>>
  BY DEF Begin, ThreadInv
<1>2. attempts' \in [Messages -> 0..RetryLimit]
  BY <1>1, Constants DEF Begin, Skipped, TypeOK
<1>3. CountIsBounded' /\ LeaksAreFaults' /\ CommandsHaveARoute' /\ MentionsAreHeard'
  BY <1>1 DEF ThreadInv, CountIsBounded, LeaksAreFaults, CommandsHaveARoute, MentionsAreHeard,
              placeVars
<1>4. waiting' \subseteq waiting
  BY DEF Begin
<1>5. ItemsKeepThePlace'
  BY <1>1, <1>4 DEF ThreadInv, ItemsKeepThePlace, placeVars
<1>6. CASE UNCHANGED <<run, row, requested>>
  <2>1. TypeOK'
    BY <1>1, <1>2, <1>4, <1>6 DEF TypeOK, placeVars
  <2>2. QED
    BY <1>1, <1>3, <1>5, <1>6, <2>1, ThreadsStay DEF ThreadInv
<1>7. ASSUME NEW item \in waiting,
             run' = [item |-> item, at |-> "admission", gated |-> item.place # "gateway",
                     thread |-> FALSE, verdict |-> None],
             row' = [row EXCEPT ![item.id] = "processing"],
             requested' = IF item.source = "rerun" THEN requested \ {item.id} ELSE requested
      PROVE  ThreadInv'
  <2>1. item \in QueueItems /\ item.id \in Messages
    BY <1>1 DEF TypeOK, QueueItems
  <2>2. /\ run' \in Runs /\ run'.item = item /\ run'.at = "admission" /\ ~run'.thread
        /\ run'.gated = (item.place # "gateway")
    BY <1>7, <2>1 DEF Runs, Stages
  <2>3. row'[item.id] = "processing"
    BY <1>1, <1>7, <2>1 DEF TypeOK
  <2>4. TypeOK'
    BY <1>1, <1>2, <1>4, <1>7, <2>1, <2>2 DEF TypeOK, placeVars
  <2>5. item.place = kind \/ (kind = "gateway" /\ item.source = "rerun")
    BY DEF ThreadInv, ItemsKeepThePlace
  <2>6. RunOK(run)'
    BY <1>1, <2>2, <2>3, <2>5
       DEF RunOK, ThreadsAreHeld, PlaceOf, GatewayAsks, GateAsks, RouteIsFollowed, Decideds,
           placeVars
  <2>7. NoThreadIsForgotten'
    BY <1>1, <2>2, Constants DEF ThreadInv, NoThreadIsForgotten
  <2>8. QED
    BY <1>3, <1>5, <2>4, <2>6, <2>7 DEF ThreadInv
<1>8. QED
  BY <1>6, <1>7 DEF Begin

\* Whoever sees a stored route and puts another in its place marks the run it
\* overtakes.
LEMMA SwitchFields ==
    ASSUME ThreadInv, route # None, NEW previous \in Workflows, NEW next \in Workflows,
           Switch(previous, next),
           UNCHANGED <<kind, gate, run>>
    PROVE  /\ route' \in Routes /\ route' # None /\ route'.by = "command"
           /\ row' \in [Messages -> {"none", "processing", "rerun_requested", "pending_retry",
                                     "completed", "terminal"}]
           /\ requested' \subseteq Messages /\ waiting' \subseteq QueueItems
           /\ ItemsKeepThePlace' /\ (run' # None => RunOK(run)')
           /\ command' \in Commands
<1>1. TypeOK /\ (run # None => RunOK(run) /\ run.item \in QueueItems /\ run.item.id \in Messages)
  BY RunFields DEF ThreadInv
<1>2. route' \in Routes /\ route' # None /\ route'.by = "command"
  BY NoneAssumption DEF Switch, MarkRoute, Routes
<1>3. command' \in Commands
  BY DEF Switch, Commands
<1>4. CASE ~(Tracked /\ row[run.item.id] = "processing") /\ UNCHANGED <<row, requested, waiting>>
  <2>1. ItemsKeepThePlace'
    BY <1>4 DEF ThreadInv, ItemsKeepThePlace
  <2>2. ASSUME run' # None
        PROVE  RunOK(run)'
    <3>1. ThreadsAreHeld(run)' /\ PlaceOf(run)' /\ GateAsks(run)'
      BY <1>1, <1>4, <2>2 DEF RunOK, ThreadsAreHeld, PlaceOf, GateAsks
    <3>2. GatewayAsks(run)'
      BY <1>1, <2>2 DEF RunOK, GatewayAsks
    <3>3. RouteIsFollowed(run)'
      BY <1>1, <1>4, <2>2 DEF RunOK, RouteIsFollowed, Tracked, Decideds
    <3>4. QED
      BY <3>1, <3>2, <3>3 DEF RunOK
  <2>3. QED
    BY <1>1, <1>2, <1>3, <1>4, <2>1, <2>2 DEF TypeOK
<1>5. CASE /\ Tracked /\ row' = [row EXCEPT ![run.item.id] = "rerun_requested"]
           /\ requested' = requested \cup {run.item.id}
           /\ waiting' = waiting \cup {[run.item EXCEPT !.source = "rerun"]}
  <2> DEFINE item == [run.item EXCEPT !.source = "rerun"]
  <2>1. run # None
    BY <1>5 DEF Tracked
  <2>2. item \in QueueItems /\ item.place = run.item.place /\ item.source = "rerun"
    BY <1>1, <2>1 DEF QueueItems, Sources
  <2>3. waiting' = waiting \cup {item}
    BY <1>5
  <2> HIDE DEF item
  <2>4. /\ row' \in [Messages -> {"none", "processing", "rerun_requested", "pending_retry",
                                  "completed", "terminal"}]
        /\ requested' \subseteq Messages /\ waiting' \subseteq QueueItems
    BY <1>1, <1>5, <2>1, <2>2, <2>3 DEF TypeOK
  <2>5. item.place = kind \/ kind = "gateway"
    BY <1>1, <2>1, <2>2 DEF RunOK, PlaceOf
  <2>6. ItemsKeepThePlace'
    BY <2>2, <2>3, <2>5 DEF ThreadInv, ItemsKeepThePlace
  <2>7. RunOK(run)'
    <3>1. ThreadsAreHeld(run)' /\ PlaceOf(run)' /\ GateAsks(run)'
      BY <1>1, <2>1 DEF RunOK, ThreadsAreHeld, PlaceOf, GateAsks
    <3>2. GatewayAsks(run)'
      BY <1>1, <2>1 DEF RunOK, GatewayAsks
    <3>3. RouteIsFollowed(run)'
      BY <1>5 DEF RouteIsFollowed
    <3>4. QED
      BY <3>1, <3>2, <3>3 DEF RunOK
  <2>8. QED
    BY <1>2, <1>3, <2>4, <2>6, <2>7
<1>6. QED
  BY <1>4, <1>5 DEF Switch

\* A switch stores the route and marks the run in hand for a rerun.
LEMMA SwitchStep ==
    ASSUME ThreadInv, route # None, NEW previous \in Workflows, NEW next \in Workflows,
           Switch(previous, next), switches' \in 0..MaxSwitches,
           UNCHANGED <<kind, gate, session, counter, intake, attempts, run, open, leaked, fate, faults>>
    PROVE  ThreadInv' /\ route'.by = "command"
<1>1. TypeOK
  BY DEF ThreadInv
<1>2. /\ route' \in Routes /\ route' # None /\ route'.by = "command"
      /\ row' \in [Messages -> {"none", "processing", "rerun_requested", "pending_retry",
                                "completed", "terminal"}]
      /\ requested' \subseteq Messages /\ waiting' \subseteq QueueItems
      /\ ItemsKeepThePlace' /\ (run' # None => RunOK(run)')
      /\ command' \in Commands
  BY SwitchFields
<1>3. TypeOK'
  BY <1>1, <1>2 DEF TypeOK
<1>4. CommandsHaveARoute'
  BY <1>2 DEF CommandsHaveARoute
<1>5. QED
  BY <1>2, <1>3, <1>4, ThreadsStay, CountStays DEF ThreadInv

\* An administrator's /workflow takes effect at once, a user's awaits the starter's id.
LEMMA CommandStep ==
    ASSUME ThreadInv, Command
    PROVE  ThreadInv' /\ (route' # route => route'.by = "command")
<1>1. /\ TypeOK /\ route # None /\ route.workflow \in Workflows
      /\ UNCHANGED <<kind, gate, session, counter, intake, attempts, run, open, leaked, fate, faults>>
  BY DEF Command, ThreadInv, TypeOK, Routes
<1>2. switches' \in 0..MaxSwitches
  BY <1>1, Constants DEF Command, TypeOK
<1>3. PICK next \in Workflows :
         \/ Switch(route.workflow, next)
         \/ /\ command' = [at |-> "authorising", previous |-> route.workflow, next |-> next]
            /\ UNCHANGED <<route, row, requested, waiting>>
  BY DEF Command
<1>4. CASE Switch(route.workflow, next)
  BY <1>1, <1>2, <1>4, SwitchStep
<1>5. CASE /\ command' = [at |-> "authorising", previous |-> route.workflow, next |-> next]
           /\ UNCHANGED <<route, row, requested, waiting>>
  <2>1. command' \in Commands
    BY <1>1, <1>5 DEF Commands
  <2>2. TypeOK'
    BY <1>1, <1>2, <1>5, <2>1 DEF TypeOK
  <2>3. ItemsKeepThePlace' /\ CommandsHaveARoute'
    BY <1>1, <1>5 DEF ThreadInv, ItemsKeepThePlace, CommandsHaveARoute
  <2>4. QED
    BY <1>1, <1>5, <2>2, <2>3, RunStays, ThreadsStay, CountStays DEF ThreadInv
<1>6. QED
  BY <1>3, <1>4, <1>5

\* The starter's own command changes the route.
LEMMA AuthorisedStep ==
    ASSUME ThreadInv, Authorised
    PROVE  ThreadInv' /\ (route' # route => route'.by = "command")
<1>1. /\ TypeOK /\ command # None /\ command \in Commands /\ route # None
      /\ command.previous \in Workflows /\ command.next \in Workflows
  BY DEF Authorised, ThreadInv, CommandsHaveARoute, TypeOK, Commands
<1>2. switches' \in 0..MaxSwitches
  BY <1>1 DEF Authorised, TypeOK
<1>3. QED
  BY <1>1, <1>2, SwitchStep DEF Authorised

\* Somebody else's command changes nothing.
LEMMA RefusedStep ==
    ASSUME ThreadInv, NotTheStarter
    PROVE  ThreadInv'
<1>1. TypeOK'
  BY DEF NotTheStarter, ThreadInv, TypeOK, placeVars, tableVars
<1>2. ItemsKeepThePlace' /\ CommandsHaveARoute'
  BY DEF NotTheStarter, ThreadInv, ItemsKeepThePlace, CommandsHaveARoute, placeVars
<1>3. QED
  BY <1>1, <1>2, RunStays, ThreadsStay, CountStays
     DEF NotTheStarter, ThreadInv, placeVars, tableVars

\* The turn in hand is interrupted and fails, or there is none.
LEMMA InterruptStep ==
    ASSUME ThreadInv, InterruptSettles
    PROVE  ThreadInv'
<1>1. /\ TypeOK /\ command' = None
      /\ UNCHANGED <<placeVars, tableVars, counter, intake, waiting, requested,
                     open, leaked, fate, faults, switches>>
  BY DEF InterruptSettles, ThreadInv
<1>2. ItemsKeepThePlace' /\ CommandsHaveARoute' /\ CountIsBounded'
  BY <1>1, CountStays DEF ThreadInv, ItemsKeepThePlace, CommandsHaveARoute, placeVars
<1>3. CASE UNCHANGED run
  <2>1. TypeOK'
    BY <1>1, <1>3 DEF TypeOK, placeVars, tableVars
  <2>2. QED
    BY <1>1, <1>2, <1>3, <2>1, RunStays, ThreadsStay DEF ThreadInv, placeVars, tableVars
<1>4. CASE At("work") /\ Goes("error")
  <2>1. run # None /\ run.at = "work" /\ RunOK(run)
    BY <1>4 DEF At, ThreadInv
  <2>2. /\ run' \in Runs /\ run'.at = "error" /\ run'.item = run.item
        /\ run'.gated = run.gated /\ run'.thread = run.thread
    BY <1>1, <1>4, <2>1, GoesFields DEF Stages
  <2>3. RunOK(run)'
    BY <1>1, <2>1, <2>2
       DEF RunOK, ThreadsAreHeld, PlaceOf, GatewayAsks, GateAsks, RouteIsFollowed, Decideds,
           placeVars, tableVars
  <2>4. NoThreadIsForgotten' /\ MentionsAreHeard' /\ LeaksAreFaults'
    BY <1>1, <2>1, <2>2 DEF ThreadInv, NoThreadIsForgotten, MentionsAreHeard, LeaksAreFaults
  <2>5. TypeOK'
    BY <1>1, <2>2 DEF TypeOK, placeVars, tableVars
  <2>6. QED
    BY <1>2, <2>3, <2>4, <2>5 DEF ThreadInv
<1>5. QED
  BY <1>3, <1>4 DEF InterruptSettles, Interrupted

\* Every step keeps the invariant, and a stored route is changed by a command.
LEMMA StepKeepsInv ==
    ASSUME ThreadInv, [Next]_vars
    PROVE  ThreadInv' /\ (route # None /\ route' # route => route'.by = "command")
<1>1. CASE Process
  <2>1. CASE Selected
    BY <2>1, SelectedStep
  <2>2. CASE ~Selected
    <3>1. UNCHANGED route
      <4>1. CASE Admission \/ Route \/ Opens \/ TurnSettles
        BY <4>1 DEF Admission, Route, Opens, TurnSettles
      <4>2. CASE NoticeSettles \/ Redirect \/ Gated \/ GateSettles
        BY <4>2 DEF NoticeSettles, Redirect, Gated, GateSettles
      <4>3. CASE WorkSettles \/ ErrorCaught \/ DispatchSettles \/ FailureSettles
        BY <4>3 DEF WorkSettles, ErrorCaught, DispatchSettles, FailureSettles
      <4>4. QED
        BY <1>1, <2>2, <4>1, <4>2, <4>3 DEF Process
    <3>2. QED
      BY <1>1, <3>1, ProcessStep
  <2>3. QED
    BY <1>1, <2>1, <2>2, ProcessStep
<1>2. CASE Command \/ CommandGoesOn
  <2>1. CASE Command \/ Authorised
    BY <2>1, CommandStep, AuthorisedStep
  <2>2. CASE NotTheStarter
    BY <2>2, RefusedStep DEF NotTheStarter, placeVars
  <2>3. CASE InterruptSettles
    BY <2>3, InterruptStep DEF InterruptSettles, placeVars
  <2>4. QED
    BY <1>2, <2>1, <2>2, <2>3 DEF CommandGoesOn
<1>3. ASSUME NEW m \in Messages, Post(m) \/ IntakeSettles(m) \/ RetryFallsDue(m)
      PROVE  ThreadInv' /\ UNCHANGED route
  <2>1. ThreadInv'
    BY <1>3, PostStep, IntakeStep, RetryStep
  <2>2. QED
    BY <1>3, <2>1 DEF Post, IntakeSettles, RetryFallsDue, placeVars
<1>4. CASE Begin
  BY <1>4, BeginStep DEF Begin, placeVars
<1>5. CASE UNCHANGED vars
  <2>1. TypeOK'
    BY <1>5 DEF ThreadInv, TypeOK, vars, placeVars, tableVars
  <2>2. ItemsKeepThePlace' /\ CommandsHaveARoute'
    BY <1>5 DEF ThreadInv, ItemsKeepThePlace, CommandsHaveARoute, vars, placeVars
  <2>3. QED
    BY <1>5, <2>1, <2>2, RunStays, ThreadsStay, CountStays
       DEF ThreadInv, vars, placeVars, tableVars
<1>6. QED
  BY <1>1, <1>2, <1>3, <1>4, <1>5 DEF Next

\* A place without a message satisfies the invariant.
LEMMA InitKeepsInv ==
    ASSUME Init
    PROVE  ThreadInv
<1>1. Cardinality({m \in Messages : intake[m] = "done"}) = 0
  <2>1. {m \in Messages : intake[m] = "done"} = {}
    BY DEF Init
  <2>2. QED
    BY <2>1, FS_EmptySet
<1>2. Cardinality(Messages) \in Nat
  BY MessageAssumption, FS_CardinalityType
<1>3. counter \in Nat /\ counter < Interval + 0
  BY Constants DEF Init
<1>4. counter \in 0..(Interval + Cardinality(Messages))
  BY <1>2, <1>3, Constants
<1>5. TypeOK
  <2>1. session \in BOOLEAN
    BY DEF Init
  <2>2. 0 \in 0..RetryLimit /\ 0 \in 0..MaxFaults /\ 0 \in 0..MaxSwitches /\ 0 \in 0..(MaxFaults + 1)
    BY Constants
  <2>3. QED
    BY <1>4, <2>1, <2>2 DEF Init, TypeOK
<1>6. CountIsBounded
  BY <1>1, <1>3 DEF CountIsBounded
<1>7. NoThreadIsForgotten /\ LeaksAreFaults
  BY DEF Init, NoThreadIsForgotten, LeaksAreFaults
<1>8. MentionsAreHeard
  BY Constants DEF Init, MentionsAreHeard
<1>9. QED
  BY <1>5, <1>6, <1>7, <1>8 DEF Init, ThreadInv, ItemsKeepThePlace, CommandsHaveARoute

-----------------------------------------------------------------------------
(***************************************************************************)
(* The course of a run: where its place, its gate and its ephemeral thread *)
(* stand at each stage, whatever the commands, failures and retries.       *)
(***************************************************************************)
THEOREM ThreadInvariant == Spec => []ThreadInv
<1>1. Init => ThreadInv
  BY InitKeepsInv
<1>2. ThreadInv /\ [Next]_vars => ThreadInv'
  BY StepKeepsInv
<1>3. QED
  BY <1>1, <1>2, PTL DEF Spec

(***************************************************************************)
(* The gates keep their word: a clear-explanation thread is answered only  *)
(* with a stored decision that allows it, no ephemeral thread is left open *)
(* but by a failed close, and no mention is passed over in silence.        *)
(***************************************************************************)
THEOREM GatesKeepTheirWord == Spec => []GateInv
<1>1. ThreadInv => GateInv
  BY DEF ThreadInv, GateInv, RunOK, GateAsks, ClearAnswersAreAllowed
<1>2. QED
  BY <1>1, ThreadInvariant, PTL

\* A run comes to the dispatch from its work, and from nowhere else.
LEMMA OnlyWorkReachesDispatch ==
    ASSUME ThreadInv, [Next]_vars, Reaches("dispatch")
    PROVE  WorkSettles /\ Goes("dispatch") /\ ~MustStop
<1>1. /\ TypeOK /\ run' # None /\ run'.at = "dispatch" /\ run' # run
      /\ (run # None => run \in Runs)
  BY RunFields DEF Reaches, At, ThreadInv
<1>2. \A stage \in Stages : run # None /\ Goes(stage) => run'.at = stage
  BY <1>1, GoesFields
<1>3. CASE Process /\ ~WorkSettles
  <2>1. CASE Admission \/ Route
    BY <1>1, <1>2, <2>1 DEF Admission, Route, At, Conclude, WithPlace, Runs, Stages
  <2>2. CASE Opens \/ TurnSettles
    BY <1>1, <2>2 DEF Opens, TurnSettles, AfterTurn, At, Runs
  <2>3. CASE Selected \/ NoticeSettles
    BY <1>1, <2>3 DEF Selected, NoticeSettles, WithPlace, At, Conclude, Throws, Runs
  <2>4. CASE Redirect \/ Gated
    BY <1>1, <1>2, <2>4 DEF Redirect, Gated, Decided, At, Runs, Stages
  <2>5. CASE GateSettles
    BY <1>1, <1>2, <2>5 DEF GateSettles, At, Conclude, Stop, Stages
  <2>6. CASE ErrorCaught \/ DispatchSettles \/ FailureSettles
    BY <1>1, <1>2, <2>6 DEF ErrorCaught, DispatchSettles, FailureSettles, At, Conclude, Stop, Stages
  <2>7. QED
    BY <1>3, <2>1, <2>2, <2>3, <2>4, <2>5, <2>6 DEF Process
<1>4. CASE WorkSettles
  BY <1>1, <1>2, <1>4 DEF WorkSettles, At, Stop, Stages
<1>5. CASE CommandGoesOn
  BY <1>1, <1>2, <1>5
     DEF CommandGoesOn, Authorised, NotTheStarter, InterruptSettles, Interrupted, At, Stages
<1>6. CASE Command
  BY <1>1, <1>6 DEF Command
<1>7. CASE Begin
  <2>1. \/ UNCHANGED run
        \/ \E item \in waiting :
             run' = [item |-> item, at |-> "admission", gated |-> item.place # "gateway",
                     thread |-> FALSE, verdict |-> None]
    BY <1>7 DEF Begin
  <2>2. QED
    BY <1>1, <2>1
<1>8. ASSUME NEW m \in Messages, Post(m) \/ IntakeSettles(m) \/ RetryFallsDue(m)
      PROVE  FALSE
  BY <1>1, <1>8 DEF Post, IntakeSettles, RetryFallsDue
<1>9. CASE UNCHANGED vars
  BY <1>1, <1>9 DEF vars
<1>10. QED
  BY <1>3, <1>4, <1>5, <1>6, <1>7, <1>8, <1>9 DEF Next

(***************************************************************************)
(* A run that a switch overtook stops before its answer is dispatched: an  *)
(* answer comes from the workflow stored for the thread at that moment.    *)
(***************************************************************************)
THEOREM NoStaleAnswers == Spec => AnswersFollowTheRoute
<1>1. ASSUME ThreadInv, [Next]_vars, kind = "gateway", Reaches("dispatch"),
             run'.item.source # "rerun"
      PROVE  run'.item.place = route'.workflow
  <2>1. WorkSettles /\ Goes("dispatch") /\ ~MustStop
    BY <1>1, OnlyWorkReachesDispatch
  <2>2. TypeOK /\ run # None /\ run.at = "work" /\ RunOK(run) /\ UNCHANGED route
    BY <1>1, <2>1 DEF ThreadInv, WorkSettles, At
  <2>3. run'.item = run.item
    BY <2>1, <2>2, GoesFields DEF Stages
  <2>4. QED
    BY <1>1, <2>1, <2>2, <2>3 DEF RunOK, RouteIsFollowed, MustStop, Decideds
<1>2. QED
  BY <1>1, ThreadInvariant, PTL DEF Spec, AnswersFollowTheRoute

(***************************************************************************)
(* A stored route is changed by a command only, never by the gateway.      *)
(***************************************************************************)
THEOREM RouteIsTheStarters == Spec => SwitchSticks
<1>1. ThreadInv /\ [Next]_vars => [route # None /\ route' # route => route'.by = "command"]_vars
  BY StepKeepsInv
<1>2. QED
  BY <1>1, ThreadInvariant, PTL DEF Spec, SwitchSticks

=============================================================================
