---------------------------- MODULE SanctionPolicy ----------------------------
(***************************************************************************)
(* Moderation of one user of the guild: the soft block checked before a    *)
(* message is routed, the violation recorded after it was answered, and    *)
(* the timeout, kick or fallback block that follows.                       *)
(*                                                                         *)
(* Messages of different channels run beside each other.  Everything       *)
(* recordAndEvaluate reads and writes up to its call to Discord is one     *)
(* synchronous step; the sanction is recorded when the call has settled,   *)
(* with the time of the judgement.  Time does not wait for the runs.       *)
(***************************************************************************)
EXTENDS Integers, FiniteSets

CONSTANTS Messages,   \* messages of the user
          Elsewhere,  \* those of a second channel
          None,
          Threshold,  \* violations that lead to a timeout: five
          Short,      \* duration of a timeout: 24 hours
          Rolling,    \* window of the count, and duration of a block: 30 days
          Lookback,   \* window of earlier sanctions: 90 days
          Waits,      \* bound: the stages of a run in which time may pass
          MaxTime, MaxFaults \* bounds

ASSUME SanctionAssumption ==
    /\ Elsewhere \subseteq Messages /\ None \notin Nat
    /\ {Threshold, Short, Rolling, Lookback, MaxTime, MaxFaults} \subseteq Nat
    /\ 0 < Short /\ Short < Rolling /\ Rolling < Lookback
    /\ Threshold > 1

VARIABLES
    now,
    status,    \* message -> how far its run is
    events,    \* violation_event
    sanctions, \* sanction_state
    notified,  \* soft_block_notice: channel -> time of the last notice
    muted,     \* until when Discord has the user in timeout
    present,   \* the user is a member of the guild
    applied,   \* history: what Discord did, by the event it was done for
    again,     \* history: messages whose run was repeated
    lost,      \* history: an evaluation was cut short by a crash
    faults

vars == <<now, status, events, sanctions, notified, muted, present, applied,
          again, lost, faults>>

Time == 0..MaxTime
Channel(m) == m \in Elsewhere
Inserts == {"timeout", "kick"}

TypeOK ==
    /\ now \in Time
    /\ status \in [Messages -> {"none", "queued", "running", "exempt", "timeout", "kick",
                                "notify", "recorded", "done"}]
    /\ events \subseteq [msg : Messages, n : 1..1 + MaxFaults, at : Time, counts : BOOLEAN]
    /\ \A s \in sanctions :
           /\ s.action \in {"timeout", "kick", "soft_block"} /\ s.flow \in Inserts
           /\ s.trigger \in events /\ s.at \in Time /\ s.settled \in Time
           /\ IF s.action = "kick" THEN s.ends = None ELSE s.ends \in Nat
    /\ notified \in [BOOLEAN -> Time \cup {None}]
    /\ muted \in Nat /\ present \in BOOLEAN
    /\ applied \subseteq events \X Inserts
    /\ again \subseteq Messages /\ lost \in BOOLEAN /\ faults \in 0..MaxFaults

Init ==
    /\ now = 0 /\ muted = 0 /\ present = TRUE
    /\ status = [m \in Messages |-> "none"]
    /\ events = {} /\ sanctions = {} /\ applied = {}
    /\ notified = [c \in BOOLEAN |-> None]
    /\ again = {} /\ lost = FALSE /\ faults = 0

-----------------------------------------------------------------------------
Fault == faults < MaxFaults /\ faults' = faults + 1
Becomes(m, s) == status' = [status EXCEPT ![m] = s]
InFlight == {m \in Messages : status[m] \notin {"none", "done"}}
EventsOf(m) == {e \in events : e.msg = m}

\* The event the run of m has recorded last, and the time it was judged at.
LastOf(E) == CHOOSE e \in E : e.n = Cardinality(E)
Trigger(m) == LastOf(EventsOf(m))
JudgedAt(m) == Trigger(m).at

(* Discord and time *)

\* Time passes while runs are under way, too.
Tick ==
    /\ now < MaxTime /\ \A m \in Messages : status[m] \in Waits
    /\ now' = now + 1
    /\ UNCHANGED <<status, events, sanctions, notified, muted, present, applied,
                   again, lost, faults>>

Rejoin ==
    /\ ~present /\ present' = TRUE
    /\ UNCHANGED <<now, status, events, sanctions, notified, muted, applied, again,
                   lost, faults>>

(* checkSoftBlock *)

ActiveSoftBlock == \E s \in sanctions : s.action = "soft_block" /\ s.ends > now

LastNotice(c) == notified[c]

\* Twelve hours are less than a unit of time.
Notify(m) == LastNotice(Channel(m)) \in {None} \cup 0..now - 1

\* A member in timeout or kicked cannot write.
Writable(m) == status[m] = "none" /\ present /\ muted <= now

\* A message is written, or processed again.  Owners and administrators are not blocked.
\* The notice is remembered before it is sent.
CheckSoftBlock(m) ==
    /\ Writable(m) \/ status[m] = "queued"
    /\ \/ Becomes(m, "exempt") /\ UNCHANGED notified
       \/ ~ActiveSoftBlock /\ Becomes(m, "running") /\ UNCHANGED notified
       \/ /\ ActiveSoftBlock /\ Becomes(m, "none")
          /\ notified' = IF Notify(m) THEN [notified EXCEPT ![Channel(m)] = now] ELSE notified
    /\ UNCHANGED <<now, events, sanctions, muted, present, applied, again, lost, faults>>

(* recordAndEvaluate *)

RecentSanctions ==
    {s \in sanctions : s.action \in {"timeout", "soft_block"} /\ s.at >= now - Lookback}

\* Mutant of Counted: countableOnly is not passed on.
CountedAll(E) == {e \in E : e.at >= now - Rolling}

Counted(E) == {e \in E : e.counts /\ e.at >= now - Rolling}

\* Mutant of Crosses: at least the threshold, instead of exactly.
CrossesOrExceeds(n) == n >= Threshold

Crosses(n) == n = Threshold

NextFlow(E) ==
    IF RecentSanctions # {} THEN "kick"
    ELSE IF Crosses(Cardinality(Counted(E))) THEN "timeout" ELSE "recorded"

\* resolveHandling: what an owner or administrator says is recorded, but never counts.
Countables(m) == IF status[m] = "exempt" THEN {FALSE} ELSE BOOLEAN

\* An answered message without a violation leaves nothing behind: it may be another one
\* from now on.
Evaluate(m) ==
    /\ status[m] \in {"running", "exempt"}
    /\ \/ Becomes(m, "none") /\ UNCHANGED events
       \/ \E counts \in Countables(m) :
              /\ events' = events \cup {[msg |-> m, n |-> Cardinality(EventsOf(m)) + 1,
                                         at |-> now, counts |-> counts]}
              /\ Becomes(m, IF counts THEN NextFlow(events') ELSE "recorded")
    /\ UNCHANGED <<now, sanctions, notified, muted, present, applied, again, lost,
                   faults>>

(* applyTimeoutFlow, applyKickFlow and the ModerationExecutor *)

\* A sanction is dated back to its judgement; settled is history.
Inserted(m, action, ends) ==
    sanctions' = sanctions \cup {[action |-> action, flow |-> status[m], at |-> JudgedAt(m),
                                  ends |-> ends, trigger |-> Trigger(m), settled |-> now]}

BlockEnds(m) == JudgedAt(m) + IF status[m] = "timeout" THEN Short ELSE Rolling

\* What Discord does: the user must be a member.
Executes(m) ==
    /\ present
    /\ applied' = applied \cup {<<Trigger(m), status[m]>>}
    /\ IF status[m] = "kick" THEN present' = FALSE /\ UNCHANGED muted
       ELSE muted' = now + Short /\ UNCHANGED present

\* Mutant of Recorded: a failed call is recorded as applied.
RecordedApplied(m, ok) ==
    Inserted(m, status[m], IF status[m] = "kick" THEN None ELSE JudgedAt(m) + Short)

Recorded(m, ok) ==
    IF ok THEN Inserted(m, status[m], IF status[m] = "kick" THEN None ELSE JudgedAt(m) + Short)
    ELSE Inserted(m, "soft_block", BlockEnds(m))

\* A guild, bot or member that is not found, a missing permission, an error of Discord.
Refused == IF present THEN Fault ELSE UNCHANGED faults

\* The call fails without effect, or its answer is lost.
Settles(m) ==
    /\ status[m] \in Inserts
    /\ \/ Executes(m) /\ Recorded(m, TRUE) /\ UNCHANGED faults
       \/ Fault /\ Executes(m) /\ Recorded(m, FALSE)
       \/ /\ Refused
          /\ Recorded(m, FALSE) /\ UNCHANGED <<muted, present, applied>>
    /\ Becomes(m, "notify")
    /\ UNCHANGED <<now, events, notified, again, lost>>

\* FailureClassifier: a failure after the response ends the message.
AfterFailure == "done"

\* The administrators' channel is told.  A workflow switch meanwhile makes a failed run
\* run again.
NotifySettles(m) ==
    /\ status[m] = "notify"
    /\ \/ Becomes(m, "done") /\ UNCHANGED <<again, faults>>
       \/ Fault /\ Becomes(m, AfterFailure) /\ UNCHANGED again
       \/ Fault /\ Becomes(m, "queued") /\ again' = again \cup {m}
    /\ UNCHANGED <<now, events, sanctions, notified, muted, present, applied, lost>>

\* A violation that led to nothing: the row of its message is completed.
Conclude(m) ==
    /\ status[m] = "recorded" /\ Becomes(m, "done")
    /\ UNCHANGED <<now, events, sanctions, notified, muted, present, applied, again, lost,
                   faults>>

\* The bot dies; recovery processes the messages without a conclusion again.
Crash ==
    /\ Fault /\ InFlight # {}
    /\ lost' = (lost \/ \E m \in Messages : status[m] \in Inserts)
    /\ again' = again \cup (InFlight \ {m \in Messages : status[m] = "queued"})
    /\ status' = [m \in Messages |-> IF m \in InFlight THEN "queued" ELSE status[m]]
    /\ UNCHANGED <<now, events, sanctions, notified, muted, present, applied>>

-----------------------------------------------------------------------------
Next ==
    \/ Tick \/ Rejoin \/ Crash
    \/ \E m \in Messages :
           \/ CheckSoftBlock(m) \/ Evaluate(m) \/ Conclude(m)
           \/ Settles(m) \/ NotifySettles(m)

Spec == Init /\ [][Next]_vars

-----------------------------------------------------------------------------
Countable(from, to) == {e \in events : e.counts /\ e.at \in from..to}

\* A timeout, or the block that stands in for it, rests on as many countable violations
\* within the rolling window as the threshold asks for; exempt and suspended ones, which
\* are recorded in the same table, never contribute.
TimeoutsRestOnCountable ==
    \A s \in sanctions : s.flow = "timeout" =>
        Cardinality(Countable(s.at - Rolling, s.at)) >= Threshold

\* A kick, or the block that stands in for it, follows an earlier timeout or block of the
\* last 90 days, however the runs of several messages interleave.
KicksFollowASanction ==
    \A s \in sanctions : s.flow = "kick" =>
        \E t \in sanctions : /\ t # s /\ t.action \in {"timeout", "soft_block"}
                             /\ t.at \in s.at - Lookback..s.at

\* A violation that counted at one time has left the window by another.
HasLeft(from, to) == Countable(from - Rolling, to - Rolling - 1) # {}

\* One crossing of the threshold leads to one timeout, although further violations may be
\* judged before the first has recorded its sanction.  A second timeout within the time
\* sanctions are remembered takes a crossing of its own, after an old violation has left the
\* window, and that while the answer of Discord to the first was still awaited.
OneTimeoutPerCrossing ==
    \A s, t \in sanctions :
        s # t /\ s.flow = "timeout" /\ t.flow = "timeout" /\ t.at \in s.at..s.at + Lookback =>
            t.at <= s.settled /\ HasLeft(s.at, t.at)

\* Unless a crash cut an evaluation short, nobody reaches the threshold without ever
\* being sanctioned.
OffendersAreSanctioned ==
    InFlight = {} /\ ~lost =>
        \A e \in events : Cardinality(Countable(e.at - Rolling, e.at)) >= Threshold =>
            \E s \in sanctions : s.at <= e.at

\* A sanction the table calls applied was carried out by Discord for that violation.
AppliedMeansDone ==
    \A s \in sanctions : s.action # "soft_block" => <<s.trigger, s.flow>> \in applied

\* A message counts once, whatever fails after its violation was stored, unless a crash or
\* a workflow switch had it processed again.
CountedOnce == \A m \in Messages \ again : Cardinality(EventsOf(m)) <= 1

\* The two tables: each sanction has its violations and its effect, each violation its
\* message, in whatever order the runs of several messages get on.
SanctionInv ==
    /\ TypeOK
    /\ TimeoutsRestOnCountable /\ KicksFollowASanction
    /\ AppliedMeansDone /\ CountedOnce

-----------------------------------------------------------------------------
(* What makes the properties inductive *)

NotJudged == {"none", "queued", "running", "exempt"}
Pending == \E m \in Messages : status[m] \in Inserts

\* Nothing is dated later than now, and only a kick flow kicks.
TablesAreOfThePast ==
    /\ IsFiniteSet(events) /\ \A e \in events : e.at <= now
    /\ \A s \in sanctions : s.at <= now /\ s.settled <= now /\ (s.flow = "timeout" => s.action # "kick")

\* The events of a message are numbered, each repetition of its run has cost a fault, and
\* a run about to be sanctioned has just recorded its own.
EventsAreNumbered ==
    \A m \in Messages :
        /\ \A e \in EventsOf(m) : e.n <= Cardinality(EventsOf(m))
        /\ Cardinality(EventsOf(m)) <= faults + IF status[m] \in NotJudged THEN 0 ELSE 1
        /\ status[m] \in Inserts => \E e \in EventsOf(m) : e.n = Cardinality(EventsOf(m))
        /\ status[m] = "queued" => m \in again
        /\ status[m] \in NotJudged /\ m \notin again => EventsOf(m) = {}

\* What a judgement was based on is on record when its sanction is.  Of two timeouts on their
\* way the later one was judged when an old violation had left the window.
JudgementsStand ==
    \A m \in Messages :
        /\ status[m] = "timeout" =>
               /\ Cardinality(Countable(JudgedAt(m) - Rolling, JudgedAt(m))) >= Threshold
               /\ \A n \in Messages \ {m} : status[n] = "timeout" /\ JudgedAt(m) <= JudgedAt(n) =>
                      HasLeft(JudgedAt(m), JudgedAt(n))
               /\ \A t \in sanctions : t.flow = "timeout" =>
                      /\ JudgedAt(m) \in t.at..t.at + Lookback =>
                             JudgedAt(m) <= t.settled /\ HasLeft(t.at, JudgedAt(m))
                      /\ JudgedAt(m) <= t.at => HasLeft(JudgedAt(m), t.at)
        /\ status[m] = "kick" =>
               \E t \in sanctions : /\ t.action \in {"timeout", "soft_block"}
                                    /\ t.at \in JudgedAt(m) - Lookback..JudgedAt(m)

\* Whoever has reached the threshold is sanctioned, or about to be.
CrossingsHaveSanctions ==
    ~lost =>
        /\ Cardinality(Counted(events)) >= Threshold => sanctions # {} \/ Pending
        /\ \A e \in events : Cardinality(Countable(e.at - Rolling, e.at)) >= Threshold =>
               \/ \E s \in sanctions : s.at <= e.at
               \/ \E m \in Messages : status[m] \in Inserts /\ JudgedAt(m) <= e.at

\* The inductive invariant of the policy.
PolicyInv ==
    /\ SanctionInv /\ OneTimeoutPerCrossing
    /\ TablesAreOfThePast /\ EventsAreNumbered /\ JudgementsStand /\ CrossingsHaveSanctions
=============================================================================
