------------------------ MODULE SanctionPolicy_proofs ------------------------
(***************************************************************************)
(* The moderation of one user, for any messages, thresholds, windows and   *)
(* faults.                                                                 *)
(*                                                                         *)
(* A run judges in one step and records its sanction in a later one, with  *)
(* other runs, and time, in between.  What a judgement rested on is dated, *)
(* and so is the sanction: it still rests on it when it is recorded.  Two  *)
(* timeouts judged before either is recorded have found exactly as many    *)
(* violations as the threshold asks for, so one must have left the window. *)
(***************************************************************************)
EXTENDS SanctionPolicy, FiniteSetTheorems, TLAPS

USE SanctionAssumption DEF Inserts, NotJudged, Time

\* A violation that is added is counted wherever others were.
LEMMA MoreEventsCountMore ==
    ASSUME IsFiniteSet(events'), events \subseteq events', NEW from, NEW to
    PROVE  /\ Cardinality(Countable(from, to)) \in Nat
           /\ Cardinality(Countable(from, to)') \in Nat
           /\ Cardinality(Countable(from, to)) <= Cardinality(Countable(from, to)')
<1>1. Countable(from, to) \subseteq Countable(from, to)' /\ Countable(from, to)' \subseteq events'
  BY DEF Countable
<1>2. IsFiniteSet(Countable(from, to)')
  BY <1>1, FS_Subset
<1>3. IsFiniteSet(Countable(from, to))
  BY <1>1, <1>2, FS_Subset
<1>4. QED
  BY <1>1, <1>2, <1>3, FS_Subset, FS_CardinalityType

\* The event a judgement records is a new one.
LEMMA NewEvent ==
    ASSUME TypeOK, TablesAreOfThePast, EventsAreNumbered,
           NEW m \in Messages, NEW counts \in BOOLEAN, NEW x,
           x = [msg |-> m, n |-> Cardinality(EventsOf(m)) + 1, at |-> now, counts |-> counts],
           events' = events \cup {x}
    PROVE  /\ Cardinality(EventsOf(m)) \in Nat
           /\ x \notin events /\ IsFiniteSet(events')
           /\ EventsOf(m)' = EventsOf(m) \cup {x}
           /\ Cardinality(EventsOf(m)') = Cardinality(EventsOf(m)) + 1
           /\ \A k \in Messages \ {m} : EventsOf(k)' = EventsOf(k)
<1>1. EventsOf(m) \subseteq events /\ IsFiniteSet(events)
  BY DEF EventsOf, TablesAreOfThePast
<1>2. IsFiniteSet(EventsOf(m)) /\ Cardinality(EventsOf(m)) \in Nat
  BY <1>1, FS_Subset, FS_CardinalityType
<1>3. x.msg = m /\ x.n = Cardinality(EventsOf(m)) + 1
  OBVIOUS
<1>4. x \notin EventsOf(m)
  BY <1>2, <1>3 DEF EventsAreNumbered
<1>5. x \notin events
  BY <1>3, <1>4 DEF EventsOf
<1>6. EventsOf(m)' = EventsOf(m) \cup {x} /\ \A k \in Messages \ {m} : EventsOf(k)' = EventsOf(k)
  BY <1>3 DEF EventsOf
<1>7. Cardinality(EventsOf(m) \cup {x}) = Cardinality(EventsOf(m)) + 1
  BY <1>2, <1>4, FS_AddElement
<1>8. IsFiniteSet(events')
  BY <1>1, FS_AddElement
<1>9. QED
  BY <1>2, <1>5, <1>6, <1>7, <1>8

\* The event with the highest number is the last one.
LEMMA NewestIsLast ==
    ASSUME NEW E, NEW x, Cardinality(E) \in Nat, Cardinality(E \cup {x}) = Cardinality(E) + 1,
           x.n = Cardinality(E) + 1, \A e \in E : e.n \in Nat /\ e.n <= Cardinality(E)
    PROVE  LastOf(E \cup {x}) = x
<1>1. \A e \in E \cup {x} : e.n = Cardinality(E \cup {x}) <=> e = x
  OBVIOUS
<1>2. QED
  BY <1>1 DEF LastOf

\* The run of a message to be sanctioned has an event that triggers the sanction.
LEMMA TriggerIsEvent ==
    ASSUME TypeOK, TablesAreOfThePast, EventsAreNumbered, NEW m \in Messages,
           status[m] \in Inserts
    PROVE  /\ Trigger(m) \in events /\ now \in Nat
           /\ JudgedAt(m) \in Time /\ JudgedAt(m) \in Nat /\ JudgedAt(m) <= now
<1>1. \E e \in EventsOf(m) : e.n = Cardinality(EventsOf(m))
  BY DEF EventsAreNumbered
<1>2. Trigger(m) \in EventsOf(m)
  BY <1>1 DEF Trigger, LastOf
<1>3. Trigger(m) \in events
  BY <1>2 DEF EventsOf
<1>4. now \in Nat /\ Trigger(m).at \in Time /\ Trigger(m).at <= now
  BY <1>3 DEF TypeOK, TablesAreOfThePast
<1>5. QED
  BY <1>3, <1>4 DEF JudgedAt

\* Without a new event of its own, the judgement of a message stays the same.
LEMMA JudgementStays ==
    ASSUME NEW m \in Messages, EventsOf(m)' = EventsOf(m)
    PROVE  Trigger(m)' = Trigger(m) /\ JudgedAt(m)' = JudgedAt(m)
  BY DEF Trigger, JudgedAt, LastOf

\* What has left the window stays out of it.
LEMMA LeftForGood ==
    ASSUME events \subseteq events', NEW from, NEW to, HasLeft(from, to)
    PROVE  HasLeft(from, to)'
  BY DEF HasLeft, Countable

-----------------------------------------------------------------------------
(* Steps that leave the two tables alone *)

\* A step with the same tables, which sanctions nobody anew.
LEMMA TablesStand ==
    ASSUME PolicyInv, TypeOK', EventsAreNumbered', UNCHANGED <<events, sanctions, applied>>,
           now' \in {now, now + 1}, again \subseteq again',
           \A m \in Messages : status'[m] \in Inserts => status'[m] = status[m],
           lost' \/ (lost' = lost /\ (Pending => \A m \in Messages : status'[m] \in Inserts
                                                    <=> status[m] \in Inserts))
    PROVE  PolicyInv'
<1> USE DEF PolicyInv, SanctionInv
<1>1. /\ now \in Nat /\ \A e \in events : e.at \in Nat
      /\ \A s \in sanctions : s.at \in Nat /\ s.settled \in Nat
  BY DEF TypeOK
<1>2. /\ \A from, to : Countable(from, to)' = Countable(from, to)
      /\ \A from, to : HasLeft(from, to)' = HasLeft(from, to)
      /\ \A k \in Messages : EventsOf(k)' = EventsOf(k)
  BY DEF Countable, HasLeft, EventsOf
<1>3. \A k \in Messages : JudgedAt(k)' = JudgedAt(k)
  BY <1>2, JudgementStays
<1>4. TimeoutsRestOnCountable' /\ KicksFollowASanction' /\ AppliedMeansDone'
  BY <1>2 DEF TimeoutsRestOnCountable, KicksFollowASanction, AppliedMeansDone
<1>5. CountedOnce'
  BY <1>2 DEF CountedOnce
<1>6. OneTimeoutPerCrossing'
  BY <1>2 DEF OneTimeoutPerCrossing
<1>7. TablesAreOfThePast'
  BY <1>1 DEF TablesAreOfThePast
<1>8. JudgementsStand'
  BY <1>2, <1>3 DEF JudgementsStand
<1>9. CrossingsHaveSanctions'
  <2> SUFFICES ASSUME ~lost'
               PROVE  CrossingsHaveSanctions'
    BY DEF CrossingsHaveSanctions
  <2>1. ~lost /\ (Pending => \A m \in Messages : status'[m] \in Inserts <=> status[m] \in Inserts)
    OBVIOUS
  <2>2. Pending => Pending'
    BY <2>1 DEF Pending
  <2>3. Counted(events)' \subseteq Counted(events) /\ Counted(events) \subseteq events
    BY <1>1 DEF Counted
  <2>4. /\ Cardinality(Counted(events)') <= Cardinality(Counted(events))
        /\ Cardinality(Counted(events)') \in Nat /\ Cardinality(Counted(events)) \in Nat
    BY <2>3, FS_Subset, FS_CardinalityType DEF TablesAreOfThePast
  <2>5. Cardinality(Counted(events)') >= Threshold => sanctions # {} \/ Pending'
    BY <2>1, <2>2, <2>4 DEF CrossingsHaveSanctions
  <2>6. ASSUME NEW e \in events, Cardinality(Countable(e.at - Rolling, e.at)) >= Threshold
        PROVE  \/ \E s \in sanctions : s.at <= e.at
               \/ \E m \in Messages : status'[m] \in Inserts /\ JudgedAt(m) <= e.at
    <3>1. CASE \E s \in sanctions : s.at <= e.at
      BY <3>1
    <3>2. CASE \E m \in Messages : status[m] \in Inserts /\ JudgedAt(m) <= e.at
      BY <2>1, <3>2 DEF Pending
    <3>3. QED
      BY <2>1, <2>6, <3>1, <3>2 DEF CrossingsHaveSanctions
  <2>7. QED
    BY <1>2, <1>3, <2>5, <2>6 DEF CrossingsHaveSanctions
<1>10. QED
  BY <1>4, <1>5, <1>6, <1>7, <1>8, <1>9

\* One message moves on, without being judged.
LEMMA MoveStep ==
    ASSUME PolicyInv, NEW m \in Messages, NEW s,
           Becomes(m, s), UNCHANGED <<now, events, sanctions, applied, lost>>,
           UNCHANGED faults \/ Fault, again \subseteq again', TypeOK',
           status[m] \notin Inserts, s \notin Inserts,
           s \in NotJudged => status[m] \in NotJudged \/ Fault,
           s = "queued" => m \in again',
           s \in NotJudged /\ m \notin again' => status[m] \in NotJudged
    PROVE  PolicyInv'
<1>1. TypeOK /\ EventsAreNumbered
  BY DEF PolicyInv, SanctionInv
<1>2. status'[m] = s /\ \A k \in Messages \ {m} : status'[k] = status[k]
  BY <1>1 DEF Becomes, TypeOK
<1>3. \A k \in Messages : EventsOf(k)' = EventsOf(k)
  BY DEF EventsOf
<1>4. faults \in Nat /\ faults' \in Nat /\ faults <= faults'
  BY <1>1 DEF TypeOK, Fault
<1>5. \A k \in Messages : Cardinality(EventsOf(k)) \in Nat
  <2>1. TAKE k \in Messages
  <2>2. EventsOf(k) \subseteq events /\ IsFiniteSet(events)
    BY DEF EventsOf, TablesAreOfThePast, PolicyInv
  <2>3. QED
    BY <2>2, FS_Subset, FS_CardinalityType
<1>6. EventsAreNumbered'
  <2> SUFFICES ASSUME NEW k \in Messages
               PROVE  /\ \A e \in EventsOf(k) : e.n <= Cardinality(EventsOf(k))
                      /\ Cardinality(EventsOf(k)) <=
                            faults' + IF status'[k] \in NotJudged THEN 0 ELSE 1
                      /\ status'[k] \in Inserts =>
                            \E e \in EventsOf(k) : e.n = Cardinality(EventsOf(k))
                      /\ status'[k] = "queued" => k \in again'
                      /\ status'[k] \in NotJudged /\ k \notin again' => EventsOf(k) = {}
    BY <1>3 DEF EventsAreNumbered
  <2>1. CASE k # m
    BY <1>1, <1>2, <1>4, <1>5, <2>1 DEF EventsAreNumbered
  <2>2. CASE k = m
    BY <1>1, <1>2, <1>4, <1>5, <2>2 DEF EventsAreNumbered, Fault
  <2>3. QED
    BY <2>1, <2>2
<1>7. \A k \in Messages : status'[k] \in Inserts <=> status[k] \in Inserts
  BY <1>2
<1>8. \A k \in Messages : status'[k] \in Inserts => status'[k] = status[k]
  BY <1>2
<1>9. QED
  BY <1>6, <1>7, <1>8, TablesStand

\* The soft block is looked up, and a notice that is due is noted.
LEMMA CheckStep ==
    ASSUME PolicyInv, NEW m \in Messages, CheckSoftBlock(m)
    PROVE  PolicyInv'
<1>1. TypeOK /\ EventsAreNumbered
  BY DEF PolicyInv, SanctionInv
<1>2. status[m] \in {"none", "queued"}
  BY DEF CheckSoftBlock, Writable
<1>3. PICK s \in {"none", "running", "exempt"} : Becomes(m, s)
  BY DEF CheckSoftBlock
<1>4. notified' \in [BOOLEAN -> Time \cup {None}]
  BY <1>1 DEF CheckSoftBlock, TypeOK
<1>5. UNCHANGED <<now, events, sanctions, muted, present, applied, again, lost, faults>>
  BY DEF CheckSoftBlock
<1>6. TypeOK'
  BY <1>1, <1>3, <1>4, <1>5 DEF TypeOK, Becomes
<1>7. QED
  BY <1>2, <1>3, <1>5, <1>6, MoveStep

\* The administrators' channel is told, or that fails.
LEMMA NotifyStep ==
    ASSUME PolicyInv, NEW m \in Messages, NotifySettles(m)
    PROVE  PolicyInv'
<1>1. TypeOK /\ EventsAreNumbered
  BY DEF PolicyInv, SanctionInv
<1>2. status[m] = "notify" /\ UNCHANGED <<now, events, sanctions, notified, muted, present, applied, lost>>
  BY DEF NotifySettles
<1>3. CASE Becomes(m, "done") /\ UNCHANGED again /\ (UNCHANGED faults \/ Fault)
  <2>1. TypeOK'
    BY <1>1, <1>2, <1>3 DEF TypeOK, Becomes, Fault
  <2>2. QED
    BY <1>2, <1>3, <2>1, MoveStep
<1>4. CASE Fault /\ Becomes(m, "queued") /\ again' = again \cup {m}
  <2>1. TypeOK'
    BY <1>1, <1>2, <1>4 DEF TypeOK, Becomes, Fault
  <2>2. QED
    BY <1>2, <1>4, <2>1, MoveStep
<1>5. QED
  BY <1>3, <1>4 DEF NotifySettles, AfterFailure

\* A crash loses the sanctions on their way, never a row.
LEMMA CrashStep ==
    ASSUME PolicyInv, Crash
    PROVE  PolicyInv'
<1>1. TypeOK /\ EventsAreNumbered
  BY DEF PolicyInv, SanctionInv
<1>2. UNCHANGED <<now, events, sanctions, notified, muted, present, applied>> /\ Fault
  BY DEF Crash
<1>3. again \subseteq again' /\ again' \subseteq Messages
  BY <1>1 DEF Crash, InFlight, TypeOK
<1>4. \A k \in Messages : status'[k] = IF status[k] \notin {"none", "done"} THEN "queued"
                                       ELSE status[k]
  BY DEF Crash, InFlight
<1>5. status' \in [Messages -> {"none", "queued", "running", "exempt", "timeout", "kick",
                                "notify", "recorded", "done"}]
  BY <1>1 DEF Crash, TypeOK
<1>6. lost' = (lost \/ Pending)
  BY DEF Crash, Pending
<1>7. faults \in Nat /\ faults' = faults + 1 /\ faults' \in 0..MaxFaults
  BY <1>1, <1>2 DEF TypeOK, Fault
<1>8. TypeOK'
  <2>1. lost' \in BOOLEAN
    BY <1>6, <1>1 DEF TypeOK
  <2>2. QED
    BY <1>1, <1>2, <1>3, <1>5, <1>7, <2>1 DEF TypeOK
<1>9. \A k \in Messages : EventsOf(k)' = EventsOf(k) /\ Cardinality(EventsOf(k)) \in Nat
  <2> TAKE k \in Messages
  <2>1. EventsOf(k) \subseteq events /\ IsFiniteSet(events)
    BY DEF EventsOf, TablesAreOfThePast, PolicyInv
  <2>2. Cardinality(EventsOf(k)) \in Nat
    BY <2>1, FS_Subset, FS_CardinalityType
  <2>3. QED
    BY <1>2, <2>2 DEF EventsOf
<1>10. \A k \in Messages : status'[k] = "queued" => k \in again'
  BY <1>1, <1>4 DEF Crash, InFlight, EventsAreNumbered
<1>11. EventsAreNumbered'
  <2> SUFFICES ASSUME NEW k \in Messages
               PROVE  /\ \A e \in EventsOf(k) : e.n <= Cardinality(EventsOf(k))
                      /\ Cardinality(EventsOf(k)) <=
                            faults' + IF status'[k] \in NotJudged THEN 0 ELSE 1
                      /\ status'[k] \in Inserts =>
                            \E e \in EventsOf(k) : e.n = Cardinality(EventsOf(k))
                      /\ status'[k] = "queued" => k \in again'
                      /\ status'[k] \in NotJudged /\ k \notin again' => EventsOf(k) = {}
    BY <1>9 DEF EventsAreNumbered
  <2>1. status'[k] \notin Inserts
    BY <1>4
  <2>2. QED
    BY <1>1, <1>3, <1>4, <1>7, <1>9, <1>10, <2>1 DEF EventsAreNumbered
<1>12. \A k \in Messages : status'[k] \notin Inserts
  BY <1>4
<1>13. lost' \/ (lost' = lost /\ ~Pending)
  BY <1>6, <1>1 DEF TypeOK
<1>14. QED
  BY <1>2, <1>3, <1>8, <1>11, <1>12, <1>13, TablesStand

\* Whoever was kicked comes back.
LEMMA RejoinStep ==
    ASSUME PolicyInv, Rejoin
    PROVE  PolicyInv'
<1>1. TypeOK /\ EventsAreNumbered
  BY DEF PolicyInv, SanctionInv
<1>2. TypeOK'
  BY <1>1 DEF Rejoin, TypeOK
<1>3. EventsAreNumbered'
  BY <1>1 DEF Rejoin, EventsAreNumbered, EventsOf
<1>4. QED
  BY <1>2, <1>3, TablesStand DEF Rejoin

\* Time passes: what is on its way keeps the date of its judgement.
LEMMA TickStep ==
    ASSUME PolicyInv, Tick
    PROVE  PolicyInv'
<1>1. /\ now' = now + 1 /\ now' \in Time
      /\ UNCHANGED <<status, events, sanctions, notified, muted, present, applied,
                     again, lost, faults>>
  BY DEF Tick, TypeOK, PolicyInv, SanctionInv
<1>2. TypeOK'
  BY <1>1 DEF TypeOK, PolicyInv, SanctionInv
<1>3. EventsAreNumbered'
  BY <1>1 DEF EventsAreNumbered, EventsOf, PolicyInv
<1>4. QED
  BY <1>1, <1>2, <1>3, TablesStand

\* A violation that led to nothing is concluded.
LEMMA ConcludeStep ==
    ASSUME PolicyInv, NEW m \in Messages, Conclude(m)
    PROVE  PolicyInv'
<1>1. status[m] = "recorded" /\ Becomes(m, "done")
      /\ UNCHANGED <<now, events, sanctions, notified, muted, present, applied, again, lost,
                     faults>>
  BY DEF Conclude
<1>2. TypeOK'
  BY <1>1 DEF TypeOK, Becomes, PolicyInv, SanctionInv
<1>3. QED
  BY <1>1, <1>2, MoveStep

-----------------------------------------------------------------------------
(* recordAndEvaluate *)

\* The judgement of a violation: what it leads to is known when its event is stored.
LEMMA JudgeStep ==
    ASSUME PolicyInv, NEW m \in Messages, status[m] \in {"running", "exempt"},
           NEW counts \in BOOLEAN, NEW x,
           x = [msg |-> m, n |-> Cardinality(EventsOf(m)) + 1, at |-> now, counts |-> counts],
           events' = events \cup {x},
           Becomes(m, IF counts THEN NextFlow(events') ELSE "recorded"),
           UNCHANGED <<now, sanctions, notified, muted, present, applied, again, lost, faults>>
    PROVE  PolicyInv'
<1> USE DEF PolicyInv, SanctionInv
<1> DEFINE s == IF counts THEN NextFlow(events') ELSE "recorded"
<1>1. /\ Cardinality(EventsOf(m)) \in Nat /\ x \notin events /\ IsFiniteSet(events')
      /\ EventsOf(m)' = EventsOf(m) \cup {x}
      /\ Cardinality(EventsOf(m)') = Cardinality(EventsOf(m)) + 1
      /\ \A k \in Messages \ {m} : EventsOf(k)' = EventsOf(k)
  BY NewEvent
<1>2. /\ s \in {"timeout", "kick", "recorded"} /\ status' \in [Messages -> {"none", "queued", "running",
                 "exempt", "timeout", "kick", "notify", "recorded", "done"}]
      /\ status'[m] = s /\ \A k \in Messages \ {m} : status'[k] = status[k]
  BY DEF Becomes, NextFlow, TypeOK
<1> HIDE DEF s
<1>3. x.msg = m /\ x.n = Cardinality(EventsOf(m)) + 1 /\ x.at = now /\ x.counts = counts
  OBVIOUS
<1>4. TypeOK'
  <2>1. faults \in 0..MaxFaults /\ Cardinality(EventsOf(m)) <= faults
    BY DEF TypeOK, EventsAreNumbered
  <2>2. Cardinality(EventsOf(m)) + 1 \in 1..1 + MaxFaults
    BY <1>1, <2>1
  <2>3. x \in [msg : Messages, n : 1..1 + MaxFaults, at : Time, counts : BOOLEAN]
    BY <2>2 DEF TypeOK
  <2>4. events' \subseteq [msg : Messages, n : 1..1 + MaxFaults, at : Time, counts : BOOLEAN]
    BY <2>3 DEF TypeOK
  <2>5. applied' \subseteq events' \X Inserts
    BY DEF TypeOK
  <2>6. \A t \in sanctions' :
           /\ t.action \in {"timeout", "kick", "soft_block"} /\ t.flow \in Inserts
           /\ t.trigger \in events' /\ t.at \in Time /\ t.settled \in Time
           /\ IF t.action = "kick" THEN t.ends = None ELSE t.ends \in Nat
    BY DEF TypeOK
  <2>7. QED
    BY <1>2, <2>4, <2>5, <2>6 DEF TypeOK
<1>5. EventsAreNumbered'
  <2> SUFFICES ASSUME NEW k \in Messages
               PROVE  /\ \A e \in EventsOf(k)' : e.n <= Cardinality(EventsOf(k)')
                      /\ Cardinality(EventsOf(k)') <=
                            faults + IF status'[k] \in NotJudged THEN 0 ELSE 1
                      /\ status'[k] \in Inserts =>
                            \E e \in EventsOf(k)' : e.n = Cardinality(EventsOf(k)')
                      /\ status'[k] = "queued" => k \in again
                      /\ status'[k] \in NotJudged /\ k \notin again => EventsOf(k)' = {}
    BY DEF EventsAreNumbered
  <2>1. CASE k # m
    BY <1>1, <1>2, <2>1 DEF EventsAreNumbered
  <2>2. CASE k = m
    <3>1. \A e \in EventsOf(m) : e.n <= Cardinality(EventsOf(m)) /\ e.n \in Nat
      BY DEF EventsAreNumbered, EventsOf, TypeOK
    <3>2. Cardinality(EventsOf(m)) <= faults /\ faults \in Nat
      BY DEF EventsAreNumbered, TypeOK
    <3>3. \A e \in EventsOf(m)' : e.n <= Cardinality(EventsOf(m)')
      BY <1>1, <1>3, <3>1
    <3>4. x \in EventsOf(m)' /\ x.n = Cardinality(EventsOf(m)')
      BY <1>1, <1>3
    <3>5. Cardinality(EventsOf(m)') <= faults + 1
      BY <1>1, <3>2
    <3>6. QED
      BY <1>2, <2>2, <3>3, <3>4, <3>5
  <2>3. QED
    BY <2>1, <2>2
<1>6. CountedOnce'
  <2> SUFFICES ASSUME NEW k \in Messages \ again
               PROVE  Cardinality(EventsOf(k)') <= 1
    BY DEF CountedOnce
  <2>1. CASE k # m
    BY <1>1, <2>1 DEF CountedOnce
  <2>2. CASE k = m
    <3>1. EventsOf(m) = {}
      BY <2>2 DEF EventsAreNumbered
    <3>2. QED
      BY <1>1, <2>2, <3>1, FS_EmptySet
  <2>3. QED
    BY <2>1, <2>2
<1>7. TablesAreOfThePast'
  <2>1. now \in Nat
    BY DEF TypeOK
  <2>2. QED
    BY <1>1, <1>3, <2>1 DEF TablesAreOfThePast
<1>8. TimeoutsRestOnCountable'
  <2> SUFFICES ASSUME NEW t \in sanctions, t.flow = "timeout"
               PROVE  Cardinality(Countable(t.at - Rolling, t.at)') >= Threshold
    BY DEF TimeoutsRestOnCountable
  <2>1. Cardinality(Countable(t.at - Rolling, t.at)) >= Threshold
    BY DEF TimeoutsRestOnCountable
  <2>2. QED
    BY <1>1, <2>1, MoreEventsCountMore
<1>9. KicksFollowASanction' /\ AppliedMeansDone' /\ OneTimeoutPerCrossing'
  <2>1. \A from, to : HasLeft(from, to) => HasLeft(from, to)'
    BY LeftForGood
  <2>2. QED
    BY <2>1 DEF KicksFollowASanction, AppliedMeansDone, OneTimeoutPerCrossing
<1>10. RecentSanctions' = RecentSanctions
  BY DEF RecentSanctions
<1>11. /\ Cardinality(Counted(events)) \in Nat /\ Cardinality(Counted(events)') \in Nat
       /\ Cardinality(Counted(events)) <= Cardinality(Counted(events)')
       /\ counts => Cardinality(Counted(events)') = Cardinality(Counted(events)) + 1
       /\ ~counts => Counted(events)' = Counted(events)
  <2>1. now \in Nat
    BY DEF TypeOK
  <2>2. Counted(events)' = IF counts THEN Counted(events) \cup {x} ELSE Counted(events)
    BY <1>3, <2>1 DEF Counted
  <2>3. Counted(events) \subseteq events /\ IsFiniteSet(events)
    BY DEF Counted, TablesAreOfThePast
  <2>4. IsFiniteSet(Counted(events)) /\ Cardinality(Counted(events)) \in Nat
    BY <2>3, FS_Subset, FS_CardinalityType
  <2>5. x \notin Counted(events)
    BY <1>1, <2>3
  <2>6. Cardinality(Counted(events) \cup {x}) = Cardinality(Counted(events)) + 1
    BY <2>4, <2>5, FS_AddElement
  <2>7. QED
    BY <2>2, <2>4, <2>6
<1>12. /\ s = "kick" => RecentSanctions # {}
       /\ s = "timeout" => /\ counts /\ RecentSanctions = {}
                           /\ Cardinality(Counted(events)') = Threshold
       /\ s = "recorded" /\ counts => /\ RecentSanctions = {}
                                      /\ Cardinality(Counted(events)') # Threshold
  <2>1. Counted(events') = Counted(events)'
    BY DEF Counted
  <2>2. QED
    BY <2>1 DEF s, NextFlow, Crosses
<1>13. /\ \A k \in Messages \ {m} : JudgedAt(k)' = JudgedAt(k)
       /\ JudgedAt(m)' = now
  <2>1. \A k \in Messages \ {m} : JudgedAt(k)' = JudgedAt(k)
    BY <1>1, JudgementStays
  <2>2. \A e \in EventsOf(m) : e.n \in Nat /\ e.n <= Cardinality(EventsOf(m))
    BY DEF EventsAreNumbered, EventsOf, TypeOK
  <2>3. LastOf(EventsOf(m) \cup {x}) = x
    BY <1>1, <1>3, <2>2, NewestIsLast
  <2>4. Trigger(m)' = x
    BY <1>1, <2>3 DEF Trigger, LastOf
  <2>5. QED
    BY <1>3, <2>1, <2>4 DEF JudgedAt
<1>14. \A from, to : HasLeft(from, to) => HasLeft(from, to)'
  BY LeftForGood
\* A second timeout on its way, or the first: it has found exactly as many as are asked for.
<1>15. ASSUME s = "timeout", NEW a \in Nat, a <= now,
              Cardinality(Countable(a - Rolling, a)) >= Threshold
       PROVE  HasLeft(a, now)'
  <2> SUFFICES ASSUME ~HasLeft(a, now)
               PROVE  FALSE
    BY <1>14
  <2>1. now \in Nat /\ \A e \in events : e.at \in Nat
    BY DEF TypeOK
  <2>2. Countable(a - Rolling, now - Rolling - 1) = {}
    BY DEF HasLeft
  <2>3. Countable(a - Rolling, a) \subseteq Counted(events)
    <3> SUFFICES ASSUME NEW e \in events, e.counts, e.at \in a - Rolling..a
                 PROVE  e.at >= now - Rolling
      BY DEF Countable, Counted
    <3>1. ~(e.at \in a - Rolling..now - Rolling - 1)
      BY <2>2 DEF Countable
    <3>2. QED
      BY <1>15, <2>1, <3>1
  <2>4. Counted(events) \subseteq events /\ IsFiniteSet(events)
    BY DEF Counted, TablesAreOfThePast
  <2>5. /\ Cardinality(Countable(a - Rolling, a)) \in Nat
        /\ Cardinality(Countable(a - Rolling, a)) <= Cardinality(Counted(events))
    <3>1. IsFiniteSet(Counted(events))
      BY <2>4, FS_Subset
    <3>2. QED
      BY <2>3, <3>1, FS_Subset, FS_CardinalityType
  <2>6. Cardinality(Counted(events)') = Cardinality(Counted(events)) + 1
        /\ Cardinality(Counted(events)') = Threshold
    BY <1>11, <1>12, <1>15
  <2>7. QED
    BY <1>11, <1>15, <2>5, <2>6
<1>16. PICK j : j = [k \in Messages |-> JudgedAt(k)']
  OBVIOUS
<1>17. /\ j[m] = now /\ now \in Nat
       /\ \A k \in Messages \ {m} : j[k] = JudgedAt(k)
  BY <1>13, <1>16 DEF TypeOK
<1>18. Counted(events)' = Countable(now - Rolling, now)'
  <2>1. \A d \in events' : d.at \in Int /\ now \in Int /\ d.at <= now
    BY <1>4, <1>7 DEF TypeOK, TablesAreOfThePast
  <2>2. QED
    BY <2>1 DEF Counted, Countable
<1>19. ASSUME NEW k \in Messages, status'[k] = "timeout"
       PROVE  Cardinality(Countable(j[k] - Rolling, j[k])') >= Threshold
  <2>1. CASE k # m
    <3>1. Cardinality(Countable(j[k] - Rolling, j[k])) >= Threshold
      BY <1>2, <1>17, <1>19, <2>1 DEF JudgementsStand
    <3>2. QED
      BY <1>1, <3>1, MoreEventsCountMore
  <2>2. CASE k = m
    <3>1. Cardinality(Counted(events)') = Threshold
      BY <1>2, <1>12, <1>19, <2>2
    <3>2. Countable(j[k] - Rolling, j[k])' = Countable(now - Rolling, now)'
      BY <1>17, <2>2 DEF Countable
    <3>3. QED
      BY <1>18, <3>1, <3>2
  <2>3. QED
    BY <2>1, <2>2
<1>20. ASSUME NEW k \in Messages, NEW n \in Messages \ {k},
              status'[k] = "timeout", status'[n] = "timeout", j[k] <= j[n]
       PROVE  HasLeft(j[k], j[n])'
  <2>1. CASE k # m /\ n # m
    <3>1. HasLeft(j[k], j[n])
      BY <1>2, <1>17, <1>20, <2>1 DEF JudgementsStand
    <3>2. QED
      BY <1>14, <3>1
  <2>2. ASSUME NEW o \in Messages \ {m}, s = "timeout", status[o] = "timeout"
        PROVE  HasLeft(j[o], now)'
    <3>1. j[o] \in Nat /\ j[o] <= now
      BY <1>17, <2>2, TriggerIsEvent
    <3>2. Cardinality(Countable(j[o] - Rolling, j[o])) >= Threshold
      BY <1>17, <2>2 DEF JudgementsStand
    <3>3. QED
      BY <1>15, <2>2, <3>1, <3>2
  <2>3. CASE n = m
    <3>1. HasLeft(j[k], now)'
      BY <1>2, <1>20, <2>2, <2>3
    <3>2. QED
      BY <1>17, <2>3, <3>1 DEF HasLeft, Countable
  <2>4. CASE k = m
    <3>1. HasLeft(j[n], now)' /\ s = "timeout" /\ status[n] = "timeout"
      BY <1>2, <1>20, <2>2, <2>4
    <3>2. j[n] = now
      <4>1. j[n] \in Nat /\ j[n] <= now
        BY <1>17, <1>20, <2>4, <3>1, TriggerIsEvent
      <4>2. QED
        BY <1>17, <1>20, <2>4, <4>1
    <3>3. QED
      BY <1>17, <2>4, <3>1, <3>2 DEF HasLeft, Countable
  <2>5. QED
    BY <2>1, <2>3, <2>4
<1>21. ASSUME NEW k \in Messages, status'[k] = "timeout", NEW t \in sanctions, t.flow = "timeout"
       PROVE  /\ j[k] \in t.at..t.at + Lookback => j[k] <= t.settled /\ HasLeft(t.at, j[k])'
              /\ j[k] <= t.at => HasLeft(j[k], t.at)'
  <2>1. CASE k # m
    <3>1. /\ j[k] \in t.at..t.at + Lookback => j[k] <= t.settled /\ HasLeft(t.at, j[k])
          /\ j[k] <= t.at => HasLeft(j[k], t.at)
      BY <1>2, <1>17, <1>21, <2>1 DEF JudgementsStand
    <3>2. QED
      BY <1>14, <3>1
  <2>2. CASE k = m
    <3>1. RecentSanctions = {}
      BY <1>2, <1>12, <1>21, <2>2
    <3>2. t.action \in {"timeout", "soft_block"} /\ t.at \in Nat
      BY <1>21 DEF TypeOK, TablesAreOfThePast
    <3>3. ~(t.at >= now - Lookback)
      BY <3>1, <3>2 DEF RecentSanctions
    <3>4. now > t.at + Lookback
      BY <1>17, <3>2, <3>3
    <3>5. QED
      BY <1>17, <2>2, <3>2, <3>4
  <2>3. QED
    BY <2>1, <2>2
<1>22. ASSUME NEW k \in Messages, status'[k] = "kick"
       PROVE  \E t \in sanctions : /\ t.action \in {"timeout", "soft_block"}
                                   /\ t.at \in j[k] - Lookback..j[k]
  <2>1. CASE k # m
    BY <1>2, <1>17, <1>22, <2>1 DEF JudgementsStand
  <2>2. CASE k = m
    <3>1. PICK t \in RecentSanctions : TRUE
      BY <1>2, <1>12, <1>22, <2>2
    <3>2. /\ t \in sanctions /\ t.action \in {"timeout", "soft_block"} /\ t.at >= now - Lookback
          /\ t.at <= now /\ t.at \in Nat
      BY DEF RecentSanctions, TablesAreOfThePast, TypeOK
    <3>3. QED
      BY <1>17, <2>2, <3>2
  <2>3. QED
    BY <2>1, <2>2
<1>23. JudgementsStand'
  <2> SUFFICES ASSUME NEW k \in Messages
               PROVE  /\ status'[k] = "timeout" =>
                             /\ Cardinality(Countable(j[k] - Rolling, j[k])') >= Threshold
                             /\ \A n \in Messages \ {k} :
                                   status'[n] = "timeout" /\ j[k] <= j[n] => HasLeft(j[k], j[n])'
                             /\ \A t \in sanctions : t.flow = "timeout" =>
                                   /\ j[k] \in t.at..t.at + Lookback =>
                                          j[k] <= t.settled /\ HasLeft(t.at, j[k])'
                                   /\ j[k] <= t.at => HasLeft(j[k], t.at)'
                      /\ status'[k] = "kick" =>
                             \E t \in sanctions : /\ t.action \in {"timeout", "soft_block"}
                                                  /\ t.at \in j[k] - Lookback..j[k]
    BY <1>16 DEF JudgementsStand, HasLeft, Countable
  <2>1. QED
    BY <1>19, <1>20, <1>21, <1>22
<1>24. ASSUME NEW k \in Messages, status[k] \in Inserts
       PROVE  status'[k] \in Inserts /\ j[k] = JudgedAt(k)
  BY <1>2, <1>17, <1>24
<1>25. CrossingsHaveSanctions'
  <2> SUFFICES ASSUME ~lost
               PROVE  /\ Cardinality(Counted(events)') >= Threshold => sanctions # {} \/ Pending'
                      /\ \A e \in events' :
                            Cardinality(Countable(e.at - Rolling, e.at)') >= Threshold =>
                               \/ \E t \in sanctions : t.at <= e.at
                               \/ \E k \in Messages : status'[k] \in Inserts /\ j[k] <= e.at
    BY <1>16 DEF CrossingsHaveSanctions
  <2>1. Pending => Pending'
    BY <1>24 DEF Pending
  <2>2. s \in Inserts => Pending'
    BY <1>2 DEF Pending
  <2>3. RecentSanctions # {} => sanctions # {}
    BY DEF RecentSanctions
  <2>4. Cardinality(Counted(events)') >= Threshold => sanctions # {} \/ Pending'
    <3>1. CASE counts /\ s = "recorded"
      <4>1. Cardinality(Counted(events)') >= Threshold => Cardinality(Counted(events)) >= Threshold
        BY <1>11, <1>12, <3>1
      <4>2. QED
        BY <2>1, <4>1 DEF CrossingsHaveSanctions
    <3>2. CASE ~counts
      BY <1>11, <2>1, <3>2 DEF CrossingsHaveSanctions
    <3>3. QED
      BY <1>2, <2>2, <3>1, <3>2
  <2>5. \A k \in Messages : status'[k] \in Inserts => j[k] <= now
    <3>1. ASSUME NEW k \in Messages \ {m}, status[k] \in Inserts
          PROVE  JudgedAt(k) <= now
      BY <3>1, TriggerIsEvent
    <3>2. QED
      BY <1>2, <1>17, <3>1
  <2>6. ASSUME NEW e \in events', Cardinality(Countable(e.at - Rolling, e.at)') >= Threshold
        PROVE  \/ \E t \in sanctions : t.at <= e.at
               \/ \E k \in Messages : status'[k] \in Inserts /\ j[k] <= e.at
    <3>1. CASE e.at = now
      <4>1. sanctions # {} \/ Pending'
        <5>1. Countable(e.at - Rolling, e.at)' = Countable(now - Rolling, now)'
          BY <3>1 DEF Countable
        <5>2. QED
          BY <1>18, <2>4, <2>6, <5>1
      <4>2. QED
        BY <2>5, <3>1, <4>1 DEF TablesAreOfThePast, Pending
    <3>2. CASE e.at # now
      <4>1. e \in events /\ e.at \in Nat /\ now \in Nat /\ e.at < now
        BY <1>3, <3>2 DEF TablesAreOfThePast, TypeOK
      <4>2. Countable(e.at - Rolling, e.at)' = Countable(e.at - Rolling, e.at)
        BY <1>3, <4>1 DEF Countable
      <4>3. \/ \E t \in sanctions : t.at <= e.at
            \/ \E k \in Messages : status[k] \in Inserts /\ JudgedAt(k) <= e.at
        BY <2>6, <4>1, <4>2 DEF CrossingsHaveSanctions
      <4>4. QED
        BY <1>24, <4>3
    <3>3. QED
      BY <3>1, <3>2
  <2>7. QED
    BY <2>4, <2>6
<1>26. QED
  BY <1>4, <1>5, <1>6, <1>7, <1>8, <1>9, <1>23, <1>25

-----------------------------------------------------------------------------
(* applyTimeoutFlow and applyKickFlow *)

\* A sanction is recorded, whatever Discord made of it: its judgement still stands.
LEMMA RecordStep ==
    ASSUME PolicyInv, NEW m \in Messages, status[m] \in Inserts,
           NEW action \in {"timeout", "kick", "soft_block"}, NEW ends,
           Inserted(m, action, ends),
           IF action = "kick" THEN ends = None ELSE ends \in Nat,
           status[m] = "timeout" => action # "kick",
           applied \subseteq applied', applied' \subseteq events \X Inserts,
           action # "soft_block" => <<Trigger(m), status[m]>> \in applied',
           muted' \in Nat, present' \in BOOLEAN, UNCHANGED faults \/ Fault,
           Becomes(m, "notify"), UNCHANGED <<now, events, notified, again, lost>>
    PROVE  PolicyInv'
<1> USE DEF PolicyInv, SanctionInv
<1> DEFINE s == [action |-> action, flow |-> status[m], at |-> JudgedAt(m), ends |-> ends,
                 trigger |-> Trigger(m), settled |-> now]
<1>1. sanctions' = sanctions \cup {s}
  BY DEF Inserted
<1>2. /\ s.action = action /\ s.flow = status[m] /\ s.at = JudgedAt(m) /\ s.ends = ends
      /\ s.trigger = Trigger(m) /\ s.settled = now
  OBVIOUS
<1> HIDE DEF s
<1>3. status'[m] = "notify" /\ \A k \in Messages \ {m} : status'[k] = status[k]
  BY DEF Becomes, TypeOK
<1>4. /\ now \in Time /\ now \in Nat
      /\ faults \in Nat /\ faults' \in 0..MaxFaults /\ faults <= faults'
      /\ Trigger(m) \in events /\ s.at \in Time /\ s.at \in Nat /\ s.at <= now
  BY <1>2, TriggerIsEvent DEF TypeOK, Fault
<1>5. TypeOK'
  <2>1. status' \in [Messages -> {"none", "queued", "running", "exempt", "timeout", "kick",
                                  "notify", "recorded", "done"}]
    BY DEF Becomes, TypeOK
  <2>2. \A t \in sanctions' :
           /\ t.action \in {"timeout", "kick", "soft_block"} /\ t.flow \in Inserts
           /\ t.trigger \in events /\ t.at \in Time /\ t.settled \in Time
           /\ IF t.action = "kick" THEN t.ends = None ELSE t.ends \in Nat
    <3>1. TAKE t \in sanctions'
    <3>2. CASE t \in sanctions
      BY <3>2 DEF TypeOK
    <3>3. CASE t = s
      BY <1>2, <1>4, <3>3
    <3>4. QED
      BY <1>1, <3>2, <3>3
  <2>3. QED
    BY <1>4, <2>1, <2>2 DEF TypeOK
<1>6. /\ \A from, to : Countable(from, to)' = Countable(from, to)
      /\ \A from, to : HasLeft(from, to)' = HasLeft(from, to)
  BY DEF HasLeft, Countable
<1>7. Counted(events)' = Counted(events) /\ \A k : EventsOf(k)' = EventsOf(k)
  BY DEF Counted, EventsOf
<1>8. TimeoutsRestOnCountable'
  <2>1. s.flow = "timeout" => Cardinality(Countable(s.at - Rolling, s.at)) >= Threshold
    BY <1>2 DEF JudgementsStand
  <2>2. QED
    BY <1>1, <1>6, <2>1 DEF TimeoutsRestOnCountable
<1>9. KicksFollowASanction'
  <2> SUFFICES ASSUME NEW t \in sanctions', t.flow = "kick"
               PROVE  \E u \in sanctions' : /\ u # t /\ u.action \in {"timeout", "soft_block"}
                                            /\ u.at \in t.at - Lookback..t.at
    BY DEF KicksFollowASanction
  <2>1. CASE t \in sanctions
    BY <1>1, <2>1 DEF KicksFollowASanction
  <2>2. CASE t \notin sanctions
    <3>1. t = s /\ status[m] = "kick"
      BY <1>1, <1>2, <2>2
    <3>2. PICK u \in sanctions : /\ u.action \in {"timeout", "soft_block"}
                                 /\ u.at \in JudgedAt(m) - Lookback..JudgedAt(m)
      BY <3>1 DEF JudgementsStand
    <3>3. QED
      BY <1>1, <1>2, <2>2, <3>1, <3>2
  <2>3. QED
    BY <2>1, <2>2
<1>10. AppliedMeansDone'
  <2> SUFFICES ASSUME NEW t \in sanctions', t.action # "soft_block"
               PROVE  <<t.trigger, t.flow>> \in applied'
    BY DEF AppliedMeansDone
  <2>1. CASE t \in sanctions
    BY <2>1 DEF AppliedMeansDone
  <2>2. CASE t = s
    BY <1>2, <2>2
  <2>3. QED
    BY <1>1, <2>1, <2>2
<1>11. CountedOnce' /\ TablesAreOfThePast'
  BY <1>1, <1>2, <1>4, <1>7 DEF CountedOnce, TablesAreOfThePast
<1>12. ASSUME NEW t \in sanctions, t.flow = "timeout", status[m] = "timeout"
       PROVE  /\ s.at \in t.at..t.at + Lookback => s.at <= t.settled /\ HasLeft(t.at, s.at)
              /\ t.at \in s.at..s.at + Lookback => t.at <= s.settled /\ HasLeft(s.at, t.at)
  <2>1. /\ s.at \in t.at..t.at + Lookback => s.at <= t.settled /\ HasLeft(t.at, s.at)
        /\ s.at <= t.at => HasLeft(s.at, t.at)
    BY <1>2, <1>12 DEF JudgementsStand
  <2>2. t.at <= now /\ t.at \in Nat
    BY DEF TablesAreOfThePast, TypeOK
  <2>3. QED
    BY <1>2, <1>4, <2>1, <2>2
<1>13. OneTimeoutPerCrossing'
  <2> SUFFICES ASSUME NEW t \in sanctions', NEW u \in sanctions', t # u,
                      t.flow = "timeout", u.flow = "timeout", u.at \in t.at..t.at + Lookback
               PROVE  u.at <= t.settled /\ HasLeft(t.at, u.at)
    BY <1>6 DEF OneTimeoutPerCrossing
  <2>1. CASE t \in sanctions /\ u \in sanctions
    BY <2>1 DEF OneTimeoutPerCrossing
  <2>2. CASE t = s /\ u \in sanctions
    BY <1>2, <1>12, <2>2
  <2>3. CASE t \in sanctions /\ u = s
    BY <1>2, <1>12, <2>3
  <2>4. QED
    BY <1>1, <2>1, <2>2, <2>3
<1>14. EventsAreNumbered'
  <2> SUFFICES ASSUME NEW k \in Messages
               PROVE  /\ \A e \in EventsOf(k) : e.n <= Cardinality(EventsOf(k))
                      /\ Cardinality(EventsOf(k)) <=
                            faults' + IF status'[k] \in NotJudged THEN 0 ELSE 1
                      /\ status'[k] \in Inserts =>
                            \E e \in EventsOf(k) : e.n = Cardinality(EventsOf(k))
                      /\ status'[k] = "queued" => k \in again'
                      /\ status'[k] \in NotJudged /\ k \notin again' => EventsOf(k) = {}
    BY <1>7 DEF EventsAreNumbered
  <2>1. Cardinality(EventsOf(k)) \in Nat
    <3>1. EventsOf(k) \subseteq events /\ IsFiniteSet(events)
      BY DEF EventsOf, TablesAreOfThePast
    <3>2. QED
      BY <3>1, FS_Subset, FS_CardinalityType
  <2>2. CASE k # m
    BY <1>3, <1>4, <2>1, <2>2 DEF EventsAreNumbered
  <2>3. CASE k = m
    BY <1>3, <1>4, <2>1, <2>3 DEF EventsAreNumbered
  <2>4. QED
    BY <2>2, <2>3
<1>15. \A k \in Messages : JudgedAt(k)' = JudgedAt(k)
  BY <1>7, JudgementStays
<1>16. ASSUME NEW k \in Messages \ {m}, status[k] = "timeout", status[m] = "timeout"
       PROVE  /\ JudgedAt(k) \in s.at..s.at + Lookback =>
                     JudgedAt(k) <= s.settled /\ HasLeft(s.at, JudgedAt(k))
              /\ JudgedAt(k) <= s.at => HasLeft(JudgedAt(k), s.at)
  <2>1. JudgedAt(k) <= now /\ JudgedAt(k) \in Nat
    BY <1>16, TriggerIsEvent
  <2>2. /\ JudgedAt(m) <= JudgedAt(k) => HasLeft(JudgedAt(m), JudgedAt(k))
        /\ JudgedAt(k) <= JudgedAt(m) => HasLeft(JudgedAt(k), JudgedAt(m))
    BY <1>16 DEF JudgementsStand
  <2>3. QED
    BY <1>2, <1>4, <2>1, <2>2
<1>17. JudgementsStand'
  <2> SUFFICES ASSUME NEW k \in Messages
               PROVE  /\ status'[k] = "timeout" =>
                             /\ Cardinality(Countable(JudgedAt(k) - Rolling, JudgedAt(k))) >= Threshold
                             /\ \A n \in Messages \ {k} :
                                   status'[n] = "timeout" /\ JudgedAt(k) <= JudgedAt(n) =>
                                      HasLeft(JudgedAt(k), JudgedAt(n))
                             /\ \A t \in sanctions' : t.flow = "timeout" =>
                                   /\ JudgedAt(k) \in t.at..t.at + Lookback =>
                                          JudgedAt(k) <= t.settled /\ HasLeft(t.at, JudgedAt(k))
                                   /\ JudgedAt(k) <= t.at => HasLeft(JudgedAt(k), t.at)
                      /\ status'[k] = "kick" =>
                             \E t \in sanctions' : /\ t.action \in {"timeout", "soft_block"}
                                                   /\ t.at \in JudgedAt(k) - Lookback..JudgedAt(k)
    BY <1>15 DEF JudgementsStand, HasLeft, Countable
  <2>1. CASE k = m
    BY <1>3, <2>1
  <2>2. CASE k # m
    <3>1. status'[k] = status[k]
      BY <1>3, <2>2
    <3>2. ASSUME status[k] = "timeout", NEW n \in Messages \ {k}, status'[n] = "timeout",
                 JudgedAt(k) <= JudgedAt(n)
          PROVE  HasLeft(JudgedAt(k), JudgedAt(n))
      BY <1>3, <3>2 DEF JudgementsStand
    <3>3. ASSUME status[k] = "timeout", NEW t \in sanctions', t.flow = "timeout"
          PROVE  /\ JudgedAt(k) \in t.at..t.at + Lookback =>
                        JudgedAt(k) <= t.settled /\ HasLeft(t.at, JudgedAt(k))
                 /\ JudgedAt(k) <= t.at => HasLeft(JudgedAt(k), t.at)
      <4>1. CASE t \in sanctions
        BY <3>3, <4>1 DEF JudgementsStand
      <4>2. CASE t = s
        BY <1>2, <1>16, <2>2, <3>3, <4>2
      <4>3. QED
        BY <1>1, <4>1, <4>2
    <3>4. status[k] = "timeout" =>
              Cardinality(Countable(JudgedAt(k) - Rolling, JudgedAt(k))) >= Threshold
      BY DEF JudgementsStand
    <3>5. status[k] = "kick" =>
              \E t \in sanctions' : /\ t.action \in {"timeout", "soft_block"}
                                    /\ t.at \in JudgedAt(k) - Lookback..JudgedAt(k)
      BY <1>1 DEF JudgementsStand
    <3>6. QED
      BY <3>1, <3>2, <3>3, <3>4, <3>5
  <2>3. QED
    BY <2>1, <2>2
<1>18. CrossingsHaveSanctions'
  <2> SUFFICES ASSUME ~lost, NEW e \in events,
                      Cardinality(Countable(e.at - Rolling, e.at)) >= Threshold
               PROVE  \/ \E t \in sanctions' : t.at <= e.at
                      \/ \E k \in Messages : status'[k] \in Inserts /\ JudgedAt(k) <= e.at
    BY <1>1, <1>6, <1>15 DEF CrossingsHaveSanctions
  <2>1. CASE \E t \in sanctions : t.at <= e.at
    BY <1>1, <2>1
  <2>2. CASE \E k \in Messages : status[k] \in Inserts /\ JudgedAt(k) <= e.at
    BY <1>1, <1>2, <1>3, <2>2
  <2>3. QED
    BY <2>1, <2>2 DEF CrossingsHaveSanctions
<1>19. QED
  BY <1>5, <1>8, <1>9, <1>10, <1>11, <1>13, <1>14, <1>17, <1>18

\* Discord answers, and the sanction is recorded as applied or failed.
LEMMA SettleStep ==
    ASSUME PolicyInv, NEW m \in Messages, Settles(m)
    PROVE  PolicyInv'
<1>1. TypeOK /\ now \in Nat /\ status[m] \in Inserts /\ Trigger(m) \in events
      /\ JudgedAt(m) \in Nat
  BY TriggerIsEvent DEF PolicyInv, SanctionInv, TypeOK, Settles
<1>2. Becomes(m, "notify") /\ UNCHANGED <<now, events, notified, again, lost>>
  BY DEF Settles
<1>3. CASE Executes(m)
  <2>1. /\ applied \subseteq applied' /\ <<Trigger(m), status[m]>> \in applied'
        /\ applied' \subseteq events \X Inserts
        /\ muted' \in Nat /\ present' \in BOOLEAN
    <3>1. applied' = applied \cup {<<Trigger(m), status[m]>>}
      BY <1>3 DEF Executes
    <3>2. applied \subseteq events \X Inserts
      BY <1>1 DEF TypeOK
    <3>3. <<Trigger(m), status[m]>> \in events \X Inserts
      BY <1>1
    <3>4. muted' \in Nat /\ present' \in BOOLEAN
      <4>1. muted \in Nat /\ present \in BOOLEAN /\ now + Short \in Nat
        BY <1>1 DEF TypeOK
      <4>2. muted' \in {muted, now + Short} /\ (present' = FALSE \/ present' = present)
        BY <1>3 DEF Executes
      <4>3. QED
        BY <4>1, <4>2
    <3>5. QED
      BY <3>1, <3>2, <3>3, <3>4
  <2>2. CASE Recorded(m, TRUE) /\ UNCHANGED faults
    <3> DEFINE ends == IF status[m] = "kick" THEN None ELSE JudgedAt(m) + Short
    <3>1. Inserted(m, status[m], ends)
      BY <2>2 DEF Recorded
    <3>2. IF status[m] = "kick" THEN ends = None ELSE ends \in Nat
      BY <1>1
    <3> HIDE DEF ends
    <3>3. status[m] \in {"timeout", "kick", "soft_block"}
      BY <1>1
    <3>4. QED
      BY <1>1, <1>2, <2>1, <2>2, <3>1, <3>2, <3>3, RecordStep
  <2>3. CASE Recorded(m, FALSE) /\ Fault
    <3>1. Inserted(m, "soft_block", BlockEnds(m)) /\ BlockEnds(m) \in Nat
      BY <1>1, <2>3 DEF Recorded, BlockEnds
    <3>2. QED
      BY <1>1, <1>2, <2>1, <2>3, <3>1, RecordStep
  <2>4. CASE Recorded(m, FALSE) /\ Refused /\ UNCHANGED <<muted, present, applied>>
    <3>1. Inserted(m, "soft_block", BlockEnds(m)) /\ BlockEnds(m) \in Nat
      BY <1>1, <2>4 DEF Recorded, BlockEnds
    <3>2. UNCHANGED faults \/ Fault
      BY <2>4 DEF Refused
    <3>3. QED
      BY <1>1, <1>2, <2>1, <2>4, <3>1, <3>2, RecordStep
  <2>5. QED
    BY <2>2, <2>3, <2>4 DEF Settles
<1>4. CASE Recorded(m, FALSE) /\ Refused /\ UNCHANGED <<muted, present, applied>>
  <2>1. Inserted(m, "soft_block", BlockEnds(m)) /\ BlockEnds(m) \in Nat
    BY <1>1, <1>4 DEF Recorded, BlockEnds
  <2>2. /\ applied \subseteq applied' /\ applied' \subseteq events \X Inserts
        /\ muted' \in Nat /\ present' \in BOOLEAN
    BY <1>1, <1>4 DEF TypeOK
  <2>3. UNCHANGED faults \/ Fault
    BY <1>4 DEF Refused
  <2>4. QED
    BY <1>1, <1>2, <2>1, <2>2, <2>3, RecordStep
<1>5. QED
  BY <1>3, <1>4 DEF Settles

-----------------------------------------------------------------------------
\* No violation and no sanction at first.
LEMMA PolicyInit == Init => PolicyInv
<1> SUFFICES ASSUME Init
             PROVE  PolicyInv
  OBVIOUS
<1>1. IsFiniteSet({}) /\ Cardinality({}) = 0
  BY FS_EmptySet
<1>2. /\ \A m \in Messages : EventsOf(m) = {} /\ status[m] = "none"
      /\ Counted(events) = {}
  BY DEF Init, EventsOf, Counted
<1>3. TypeOK
  <2>1. notified \in [BOOLEAN -> Time \cup {None}]
    BY DEF Init
  <2>2. 0 \in Time /\ 0 \in 0..MaxFaults
    OBVIOUS
  <2>3. status \in [Messages -> {"none", "queued", "running", "exempt", "timeout", "kick",
                                 "notify", "recorded", "done"}]
    BY DEF Init
  <2>4. QED
    BY <2>1, <2>2, <2>3 DEF Init, TypeOK
<1>4. TimeoutsRestOnCountable /\ KicksFollowASanction /\ AppliedMeansDone /\ OneTimeoutPerCrossing
  BY DEF Init, TimeoutsRestOnCountable, KicksFollowASanction, AppliedMeansDone,
         OneTimeoutPerCrossing
<1>5. TablesAreOfThePast /\ CountedOnce /\ EventsAreNumbered
  BY <1>1, <1>2 DEF Init, TablesAreOfThePast, CountedOnce, EventsAreNumbered
<1>6. JudgementsStand /\ CrossingsHaveSanctions
  BY <1>1, <1>2 DEF Init, JudgementsStand, CrossingsHaveSanctions
<1>7. QED
  BY <1>3, <1>4, <1>5, <1>6 DEF PolicyInv, SanctionInv

\* Every step of the policy keeps the invariant.
LEMMA PolicyStep ==
    ASSUME PolicyInv, [Next]_vars
    PROVE  PolicyInv'
<1>1. ASSUME NEW m \in Messages, Evaluate(m)
      PROVE  PolicyInv'
  <2>1. TypeOK /\ status[m] \in {"running", "exempt"}
        /\ UNCHANGED <<now, sanctions, notified, muted, present, applied, again, lost, faults>>
    BY <1>1 DEF PolicyInv, SanctionInv, Evaluate
  <2>2. CASE Becomes(m, "none") /\ UNCHANGED events
    <3>1. TypeOK'
      BY <2>1, <2>2 DEF TypeOK, Becomes
    <3>2. QED
      BY <2>1, <2>2, <3>1, MoveStep
  <2>3. ASSUME NEW counts \in BOOLEAN,
               events' = events \cup {[msg |-> m, n |-> Cardinality(EventsOf(m)) + 1,
                                       at |-> now, counts |-> counts]},
               Becomes(m, IF counts THEN NextFlow(events') ELSE "recorded")
        PROVE  PolicyInv'
    BY <2>1, <2>3, JudgeStep
  <2>4. QED
    BY <1>1, <2>2, <2>3 DEF Evaluate, Countables
<1>2. CASE UNCHANGED vars
  <2>1. TypeOK' /\ EventsAreNumbered'
    BY <1>2 DEF vars, PolicyInv, SanctionInv, TypeOK, EventsAreNumbered, EventsOf
  <2>2. QED
    BY <1>2, <2>1, TablesStand DEF vars
<1>3. QED
  BY <1>1, <1>2, TickStep, RejoinStep, CrashStep, CheckStep, ConcludeStep, SettleStep, NotifyStep
     DEF Next

\* The inductive invariant of the moderation, for any messages, threshold, windows and faults.
THEOREM PolicyInvariant == Spec => []PolicyInv
  BY PolicyInit, PolicyStep, PTL DEF Spec

\* The two tables stay whole: timeouts rest on countable violations, kicks on an earlier
\* sanction, applied sanctions on what Discord did, and a message counts once.
THEOREM TablesAreWhole == Spec => []SanctionInv
  BY PolicyInvariant, PTL DEF PolicyInv

\* One crossing of the threshold leads to one timeout (recordAndEvaluate), however the
\* judgements and the answers of Discord interleave: a second one has a crossing of its own.
THEOREM OneTimeout == Spec => []OneTimeoutPerCrossing
  BY PolicyInvariant, PTL DEF PolicyInv

\* Without a crash in between, who reaches the threshold is sanctioned.
THEOREM NobodyGetsAway == Spec => []OffendersAreSanctioned
<1>1. PolicyInv => OffendersAreSanctioned
  <2> SUFFICES ASSUME PolicyInv, InFlight = {}, ~lost, NEW e \in events,
                      Cardinality(Countable(e.at - Rolling, e.at)) >= Threshold
               PROVE  \E s \in sanctions : s.at <= e.at
    BY DEF OffendersAreSanctioned
  <2>1. ~Pending
    BY DEF Pending, InFlight
  <2>2. QED
    BY <2>1 DEF Pending, PolicyInv, CrossingsHaveSanctions
<1>2. QED
  BY <1>1, PolicyInvariant, PTL
=============================================================================
