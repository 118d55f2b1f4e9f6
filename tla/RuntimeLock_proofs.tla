------------------------- MODULE RuntimeLock_proofs -------------------------
(***************************************************************************)
(* The runtime lock excludes while heartbeats are in time, for any number  *)
(* of processes and pids.  The argument is one invariant: a process that   *)
(* renews in time still owns the row, so whoever starts beside it sees a   *)
(* live lease of a living pid that is not its own.                         *)
(*                                                                         *)
(* Second, the weekly announcement that the lock guards: its processes     *)
(* take steps of the lock, each has two chances to post (PostsBounded),    *)
(* and while nothing is cut off one process at a time knows whether it has *)
(* been made (Once) or watches the clock (Watching).                       *)
(***************************************************************************)
EXTENDS WeeklyMeetup, FiniteSetTheorems, TLAPS

\* Nobody gets in beside an active process that owns a live row: its pid is in
\* use, so the newcomer has another one.
LEMMA InTimeBlocksStart ==
    ASSUME TypeOK, InTimeKeepsRow,
           NEW p \in Processes, step[p] = "active", p \notin lapsed,
           NEW q \in Processes, Start(q)
    PROVE  FALSE
<1>1. row = [holder |-> p, pid |-> pid[p], live |-> TRUE]
  BY DEF InTimeKeepsRow
<1>2. row # NoRow
  <2>1. pid[p] \in Pids
    BY DEF TypeOK
  <2>2. row \in Rows
    BY <1>1, <2>1 DEF Rows
  <2>3. QED
    BY <2>2, NoRowAssumption
<1>3. Used(pid[p])
  BY DEF Used, Alive
<1>4. PICK k \in Pids : ~Used(k) /\ ~HeldByOther(k)
  BY DEF Start
<1>5. row.pid = pid[p] /\ row.live
  BY <1>1
<1>6. row.pid # k
  BY <1>3, <1>4, <1>5
<1>7. QED
  BY <1>2, <1>3, <1>4, <1>5, <1>6 DEF HeldByOther

\* Every step keeps the types.
LEMMA LockTypeStep ==
    ASSUME TypeOK, [Next]_vars
    PROVE  TypeOK'
<1> USE DEF TypeOK
<1>1. ASSUME NEW p \in Processes, Start(p)
      PROVE  TypeOK'
  BY <1>1 DEF Start, Rows
<1>2. ASSUME NEW p \in Processes, Heartbeat(p)
      PROVE  TypeOK'
  <2>1. row \in Rows /\ pid[p] \in Pids
    BY <1>2 DEF Heartbeat, Renewable
  <2>2. row' \in Rows
    BY <1>2, <2>1 DEF Heartbeat, Rows
  <2>3. QED
    BY <1>2, <2>2 DEF Heartbeat
<1>3. ASSUME NEW p \in Processes, BeginStop(p) \/ EndStop(p) \/ Die(p)
      PROVE  TypeOK'
  BY <1>3 DEF BeginStop, EndStop, Die, Release
<1>4. ASSUME NEW k \in Pids, StrangerStarts(k)
      PROVE  TypeOK'
  BY <1>4 DEF StrangerStarts
<1>5. CASE LeaseLapses
  <2>1. row \in Rows /\ row.holder \in Processes
    BY <1>5 DEF LeaseLapses, Rows
  <2>2. row' \in Rows
    BY <1>5, <2>1 DEF LeaseLapses, Rows
  <2>3. QED
    BY <1>5, <2>1, <2>2 DEF LeaseLapses
<1>6. CASE UNCHANGED vars
  BY <1>6 DEF vars
<1>7. QED
  BY <1>1, <1>2, <1>3, <1>4, <1>5, <1>6 DEF Next

\* Every step keeps the row of a process that is in time.
LEMMA InTimeStep ==
    ASSUME LockInv, [Next]_vars
    PROVE  InTimeKeepsRow'
<1> SUFFICES ASSUME NEW p \in Processes, step'[p] = "active", p \notin lapsed'
             PROVE  row' = [holder |-> p, pid |-> pid'[p], live |-> TRUE]
  BY DEF InTimeKeepsRow
<1> DEFINE Kept == row' = [holder |-> p, pid |-> pid'[p], live |-> TRUE]
<1> USE DEF LockInv, TypeOK
<1>1. ASSUME step[p] = "active", p \notin lapsed
      PROVE  row = [holder |-> p, pid |-> pid[p], live |-> TRUE]
  BY <1>1 DEF InTimeKeepsRow
<1>2. ASSUME NEW q \in Processes, Start(q)
      PROVE  Kept
  <2>1. CASE p = q
    BY <1>2, <2>1 DEF Start
  <2>2. CASE p # q
    <3>1. step[p] = "active" /\ p \notin lapsed
      BY <1>2, <2>2 DEF Start
    <3>2. QED
      BY <1>2, <3>1, InTimeBlocksStart
  <2>3. QED
    BY <2>1, <2>2
<1>3. ASSUME NEW q \in Processes, Heartbeat(q)
      PROVE  Kept
  <2>1. row \in Rows /\ row.holder = q /\ pid' = pid
    BY <1>3 DEF Heartbeat, Renewable
  <2>2. CASE p = q
    BY <1>3, <2>1, <2>2 DEF Heartbeat, Rows
  <2>3. CASE p # q
    <3>1. step[p] = "active" /\ p \notin lapsed
      BY <1>3, <2>3 DEF Heartbeat
    <3>2. QED
      BY <1>1, <2>1, <2>3, <3>1
  <2>4. QED
    BY <2>2, <2>3
<1>4. ASSUME NEW q \in Processes, BeginStop(q)
      PROVE  Kept
  <2>1. p # q /\ step[p] = "active" /\ p \notin lapsed /\ pid' = pid
    BY <1>4 DEF BeginStop
  <2>2. row = [holder |-> p, pid |-> pid[p], live |-> TRUE]
    BY <1>1, <2>1
  <2>3. row.holder # q
    BY <2>1, <2>2
  <2>4. row' = row
    BY <1>4, <2>3 DEF BeginStop, Release
  <2>5. QED
    BY <2>1, <2>2, <2>4
<1>5. ASSUME NEW q \in Processes, EndStop(q) \/ Die(q)
      PROVE  Kept
  BY <1>1, <1>5 DEF EndStop, Die
<1>6. ASSUME NEW k \in Pids, StrangerStarts(k)
      PROVE  Kept
  BY <1>1, <1>6 DEF StrangerStarts
<1>7. CASE LeaseLapses
  BY <1>1, <1>7 DEF LeaseLapses
<1>8. CASE UNCHANGED vars
  BY <1>1, <1>8 DEF vars
<1>9. QED
  BY <1>2, <1>3, <1>4, <1>5, <1>6, <1>7, <1>8 DEF Next

\* The types and the ownership of the row are inductive together
\* (tryAcquire, renew, release).
THEOREM LockInvariant == Spec => []LockInv
<1>1. Init => LockInv
  BY DEF Init, LockInv, TypeOK, InTimeKeepsRow
<1>2. LockInv /\ [Next]_vars => LockInv'
  BY LockTypeStep, InTimeStep DEF LockInv
<1>3. QED
  BY <1>1, <1>2, PTL DEF Spec

\* Type correctness of the lock, for any processes and pids.
THEOREM LockTypeCorrect == Spec => []TypeOK
BY LockInvariant, PTL DEF LockInv

\* A process whose heartbeats are in time owns the row, whatever starts, stops
\* and dies beside it: only its own stop releases the row.
THEOREM InTimeProcessesKeepTheRow == Spec => []InTimeKeepsRow
BY LockInvariant, PTL DEF LockInv

\* No two processes serve the database while both renew in time: each of them
\* would be the holder the one row names.
THEOREM LockExcludes == Spec => []ExclusiveWhileInTime
<1>1. InTimeKeepsRow => ExclusiveWhileInTime
  <2> SUFFICES ASSUME InTimeKeepsRow,
                      NEW p \in Processes, NEW q \in Processes,
                      step[p] = "active", step[q] = "active", p # q,
                      p \notin lapsed, q \notin lapsed
               PROVE  FALSE
    BY DEF ExclusiveWhileInTime
  <2>1. row.holder = p
    BY DEF InTimeKeepsRow
  <2>2. row.holder = q
    BY DEF InTimeKeepsRow
  <2>3. QED
    BY <2>1, <2>2
<1>2. QED
  BY <1>1, InTimeProcessesKeepTheRow, PTL

-----------------------------------------------------------------------------
(***************************************************************************)
(* The announcement, on top of the lock.                                   *)
(***************************************************************************)

\* What the announcement does to the lock is a step of the lock.
LEMMA MeetupLockSteps ==
    ASSUME [MeetupNext]_allVars
    PROVE  [Next]_vars
BY DEF MeetupNext, Boot, Poll, FetchSettles, Post, PostAnswered, Arm, Stop, Exit, Clock,
       LockStep, Next, allVars

\* The lock keeps its promise under the processes that announce the meetup.
THEOREM MeetupKeepsLock == MeetupSpec => []LockInv
<1>1. MeetupInit => LockInv
  BY DEF MeetupInit, Init, LockInv, TypeOK, InTimeKeepsRow
<1>2. LockInv /\ [MeetupNext]_allVars => LockInv'
  BY MeetupLockSteps, LockTypeStep, InTimeStep DEF LockInv
<1>3. QED
  BY <1>1, <1>2, PTL DEF MeetupSpec

\* Types without the number of posts.
Shape ==
    /\ TypeOK
    /\ time \in {"before", "window", "after"}
    /\ task \in [Processes -> {"none", "startup", "armed"} \cup InPoll]
    /\ booting \subseteq {p \in Processes : Alive(p)}
    /\ \A p \in Processes : task[p] # "none" => Alive(p)
    /\ \A p \in booting : task[p] # "armed"
    /\ posts \in Nat
    /\ {delivered, cut, beside} \subseteq BOOLEAN
    /\ served \subseteq Processes
    /\ faults \in 0..MaxFaults

\* Each process may yet post from its startup, and from its timer.
First == {p \in Processes :
    step[p] = "new" \/ (p \in booting /\ task[p] \in {"startup", "fetching", "sending"})}
Second == {p \in Processes :
    step[p] = "new" \/ p \in booting \/ task[p] \in {"armed", "fetching", "sending"}}

PostsBounded == posts + Cardinality(First) + Cardinality(Second) <= 2 * Cardinality(Processes)

\* As long as no poll was cut off and no process started beside another, one
\* process at a time is alive, and what it does about the announcement tells
\* how often it has been made.
Once ==
    ~cut /\ ~beside =>
        /\ \A p, q \in Processes : Alive(p) /\ Alive(q) => p = q
        /\ posts = IF delivered \/ \E p \in Processes : task[p] = "posted" THEN 1 ELSE 0
        /\ \A p \in Processes : Busy(p) => ~delivered

\* Who had a timer before the window has it still, announces, or has seen to it.
Watching ==
    /\ delivered \/ (\E p \in Processes : task[p] = "posted") => posts > 0
    /\ \A p \in served :
          /\ step[p] # "new" /\ p \notin booting
          /\ step[p] = "active" =>
                posts > 0 \/ cut \/ Busy(p) \/ (task[p] = "armed" /\ time # "after")

AnnouncementInv == Shape /\ PostsBounded /\ Once /\ Watching
\* The announcement keeps its types, and only living processes have tasks.
LEMMA ShapeStep ==
    ASSUME Shape, [MeetupNext]_allVars
    PROVE  Shape'
<1>1. TypeOK'
  BY MeetupLockSteps, LockTypeStep DEF Shape
<1> USE DEF Shape, TypeOK, InPoll, Becomes, Alive, meetupVars
<1>2. ASSUME NEW p \in Processes, Boot(p)
      PROVE  Shape'
  BY <1>1, <1>2 DEF Boot, Start
<1>3. ASSUME NEW p \in Processes, Poll(p)
      PROVE  Shape'
  BY <1>1, <1>3 DEF Poll, vars
<1>4. ASSUME NEW p \in Processes, FetchSettles(p)
      PROVE  Shape'
  <2>1. /\ faults' \in 0..MaxFaults
        /\ UNCHANGED <<time, delivered, posts, beside, served>>
        /\ cut' = cut \/ cut' = TRUE
    BY <1>4, MeetupAssumption DEF FetchSettles, Fault
  <2>2. /\ task[p] = "fetching" /\ task' \in {[task EXCEPT ![p] = "sending"], [task EXCEPT ![p] = "none"]}
        /\ booting' = booting /\ step' = step
    BY <1>4 DEF FetchSettles, vars
  <2>3. /\ task' \in [Processes -> {"none", "startup", "armed"} \cup InPoll]
        /\ booting' \subseteq {q \in Processes : Alive(q)'}
        /\ \A q \in Processes : task'[q] # "none" => Alive(q)'
        /\ \A q \in booting' : task'[q] # "armed"
    BY <2>2
  <2>4. cut' \in BOOLEAN
    BY <2>1
  <2>5. QED
    BY <1>1, <2>1, <2>3, <2>4
<1>5. ASSUME NEW p \in Processes, Post(p) \/ PostAnswered(p)
      PROVE  Shape'
  <2>1. /\ faults' \in 0..MaxFaults
        /\ UNCHANGED <<time, booting, beside, served>>
        /\ cut' = cut \/ cut' = TRUE
        /\ delivered' = delivered \/ delivered' = TRUE
        /\ posts' = posts \/ posts' = posts + 1
    BY <1>5, MeetupAssumption DEF Post, PostAnswered, Delivered, Fault
  <2>2. /\ task[p] \in {"sending", "posted"} /\ step' = step
        /\ task' \in {[task EXCEPT ![p] = "posted"], [task EXCEPT ![p] = "none"]}
    BY <1>5 DEF Post, PostAnswered, vars
  <2>3. /\ task' \in [Processes -> {"none", "startup", "armed"} \cup InPoll]
        /\ \A q \in Processes : task'[q] # "none" => Alive(q)'
        /\ booting' \subseteq {q \in Processes : Alive(q)'}
        /\ \A q \in booting' : task'[q] # "armed"
    BY <2>1, <2>2
  <2>4. cut' \in BOOLEAN /\ delivered' \in BOOLEAN
    BY <2>1
  <2>5. posts' \in Nat
    BY <2>1
  <2>6. QED
    BY <1>1, <2>1, <2>3, <2>4, <2>5
<1>6. ASSUME NEW p \in Processes, Arm(p) \/ Stop(p)
      PROVE  Shape'
  <2>1. CASE Arm(p)
    BY <1>1, <2>1 DEF Arm, Scheduled, vars
  <2>2. CASE Stop(p)
    <3>1. /\ UNCHANGED <<time, booting, delivered, posts, beside, served, faults>>
          /\ cut' = (cut \/ Busy(p)) /\ step' = [step EXCEPT ![p] = "stopping"] /\ step[p] = "active"
          /\ task' = [task EXCEPT ![p] = IF task[p] = "armed" THEN "none" ELSE task[p]]
      BY <2>2 DEF Stop, BeginStop
    <3>2. cut' \in BOOLEAN
      BY <3>1 DEF Busy
    <3>3. /\ task' \in [Processes -> {"none", "startup", "armed"} \cup InPoll]
          /\ booting' \subseteq {q \in Processes : Alive(q)'}
          /\ \A q \in Processes : task'[q] # "none" => Alive(q)'
          /\ \A q \in booting' : task'[q] # "armed"
      BY <3>1
    <3>4. QED
      BY <1>1, <3>1, <3>2, <3>3
  <2>3. QED
    BY <1>6, <2>1, <2>2
<1>7. ASSUME NEW p \in Processes, Exit(p)
      PROVE  Shape'
  BY <1>1, <1>7 DEF Exit, Ends, EndStop, Die, Busy
<1>8. CASE Clock \/ UNCHANGED allVars
  BY <1>1, <1>8 DEF Clock, allVars, vars
<1>9. CASE LockStep
  BY <1>1, <1>9 DEF LockStep, Heartbeat, StrangerStarts, LeaseLapses
<1>10. QED
  BY <1>2, <1>3, <1>4, <1>5, <1>6, <1>7, <1>8, <1>9 DEF MeetupNext

\* A step keeps or spends the chances to post; a post spends one.
LEMMA ChancesAreSpent ==
    ASSUME Shape, [MeetupNext]_allVars
    PROVE  /\ First' \subseteq First /\ Second' \subseteq Second
           /\ \/ posts' = posts
              \/ posts' = posts + 1 /\ \E p \in First : p \notin First'
              \/ posts' = posts + 1 /\ \E p \in Second : p \notin Second'
<1> USE DEF Shape, TypeOK, InPoll, Becomes, Alive, First, Second, meetupVars
<1>1. ASSUME NEW p \in Processes, Boot(p)
      PROVE  First' \subseteq First /\ Second' \subseteq Second /\ posts' = posts
  BY <1>1 DEF Boot, Start
<1>2. ASSUME NEW p \in Processes, Poll(p)
      PROVE  First' \subseteq First /\ Second' \subseteq Second /\ posts' = posts
  BY <1>2 DEF Poll, vars
<1>3. ASSUME NEW p \in Processes, FetchSettles(p)
      PROVE  First' \subseteq First /\ Second' \subseteq Second /\ posts' = posts
  BY <1>3 DEF FetchSettles, vars
<1>4. ASSUME NEW p \in Processes, Post(p)
      PROVE  /\ First' \subseteq First /\ Second' \subseteq Second
             /\ \/ posts' = posts
                \/ posts' = posts + 1 /\ \E q \in First : q \notin First'
                \/ posts' = posts + 1 /\ \E q \in Second : q \notin Second'
  <2>1. /\ task[p] = "sending" /\ task'[p] \in {"posted", "none"}
        /\ UNCHANGED <<step, booting>>
        /\ \A q \in Processes \ {p} : task'[q] = task[q]
        /\ posts' = posts \/ (posts' = posts + 1 /\ task'[p] = "posted")
    BY <1>4 DEF Post, vars
  <2>2. First' \subseteq First /\ Second' \subseteq Second
    BY <2>1
  <2>3. step[p] # "new"
    BY <2>1
  <2>4. CASE p \in booting
    BY <2>1, <2>2, <2>3, <2>4
  <2>5. CASE p \notin booting
    BY <2>1, <2>2, <2>3, <2>5
  <2>6. QED
    BY <2>4, <2>5
<1>5. ASSUME NEW p \in Processes, PostAnswered(p)
      PROVE  First' \subseteq First /\ Second' \subseteq Second /\ posts' = posts
  BY <1>5 DEF PostAnswered, vars
<1>6. ASSUME NEW p \in Processes, Arm(p) \/ Stop(p)
      PROVE  First' \subseteq First /\ Second' \subseteq Second /\ posts' = posts
  BY <1>6 DEF Arm, Scheduled, Stop, BeginStop, vars
<1>7. ASSUME NEW p \in Processes, Exit(p)
      PROVE  First' \subseteq First /\ Second' \subseteq Second /\ posts' = posts
  BY <1>7 DEF Exit, Ends, EndStop, Die
<1>8. CASE Clock \/ UNCHANGED allVars
  BY <1>8 DEF Clock, allVars, vars
<1>9. CASE LockStep
  BY <1>9 DEF LockStep, Heartbeat, StrangerStarts, LeaseLapses
<1>10. QED
  BY <1>1, <1>2, <1>3, <1>4, <1>5, <1>6, <1>7, <1>8, <1>9 DEF MeetupNext

\* What remains of a finite set, and what remains without one member.
LEMMA ChancesLeft ==
    ASSUME NEW S, IsFiniteSet(S), NEW T, T \subseteq S
    PROVE  /\ Cardinality(S) \in Nat /\ Cardinality(T) \in Nat
           /\ Cardinality(T) <= Cardinality(S)
           /\ (\E p \in S : p \notin T) => Cardinality(T) <= Cardinality(S) - 1
<1>1. Cardinality(S) \in Nat /\ Cardinality(T) \in Nat /\ Cardinality(T) <= Cardinality(S)
  BY FS_Subset, FS_CardinalityType
<1>2. ASSUME NEW p \in S, p \notin T
      PROVE  Cardinality(T) <= Cardinality(S) - 1
  <2>1. IsFiniteSet(S \ {p}) /\ Cardinality(S \ {p}) = Cardinality(S) - 1
    BY FS_RemoveElement
  <2>2. T \subseteq S \ {p}
    BY <1>2
  <2>3. QED
    BY <2>1, <2>2, FS_Subset
<1>3. QED
  BY <1>1, <1>2

\* Every post uses up a chance of its process.
LEMMA BoundStep ==
    ASSUME Shape, PostsBounded, [MeetupNext]_allVars
    PROVE  PostsBounded'
<1>1. IsFiniteSet(First) /\ IsFiniteSet(Second) /\ Cardinality(Processes) \in Nat
  BY MeetupAssumption, FS_Subset, FS_CardinalityType DEF First, Second
<1>2. posts \in Nat
  BY DEF Shape
<1>3. /\ First' \subseteq First /\ Second' \subseteq Second
      /\ \/ posts' = posts
         \/ posts' = posts + 1 /\ \E p \in First : p \notin First'
         \/ posts' = posts + 1 /\ \E p \in Second : p \notin Second'
  BY ChancesAreSpent
<1>4. /\ Cardinality(First) \in Nat /\ Cardinality(First') \in Nat
      /\ Cardinality(First') <= Cardinality(First)
      /\ (\E p \in First : p \notin First') => Cardinality(First') <= Cardinality(First) - 1
  BY <1>1, <1>3, ChancesLeft
<1>5. /\ Cardinality(Second) \in Nat /\ Cardinality(Second') \in Nat
      /\ Cardinality(Second') <= Cardinality(Second)
      /\ (\E p \in Second : p \notin Second') => Cardinality(Second') <= Cardinality(Second) - 1
  BY <1>1, <1>3, ChancesLeft
<1> DEFINE a == Cardinality(First)
           b == Cardinality(Second)
           a1 == Cardinality(First')
           b1 == Cardinality(Second')
           n == Cardinality(Processes)
<1>6. posts + a + b <= 2 * n
  BY DEF PostsBounded
<1>7. \/ posts' = posts /\ a1 <= a /\ b1 <= b
      \/ posts' = posts + 1 /\ a1 <= a - 1 /\ b1 <= b
      \/ posts' = posts + 1 /\ a1 <= a /\ b1 <= b - 1
  BY <1>3, <1>4, <1>5
<1>8. a \in Nat /\ b \in Nat /\ a1 \in Nat /\ b1 \in Nat /\ n \in Nat
  BY <1>1, <1>4, <1>5
<1>9. PostsBounded' <=> posts' + a1 + b1 <= 2 * n
  BY DEF PostsBounded
<1> HIDE DEF a, b, a1, b1, n
<1>10. QED
  BY <1>2, <1>6, <1>7, <1>8, <1>9
\* One process at a time, and its announcement.
LEMMA OnceStep ==
    ASSUME Shape, Once, [MeetupNext]_allVars
    PROVE  Once'
<1> SUFFICES ASSUME ~cut', ~beside'
             PROVE  /\ \A p, q \in Processes : Alive(p)' /\ Alive(q)' => p = q
                    /\ posts' = IF delivered' \/ \E p \in Processes : task'[p] = "posted" THEN 1 ELSE 0
                    /\ \A p \in Processes : Busy(p)' => ~delivered'
  BY DEF Once
<1> DEFINE Goal == /\ \A p, q \in Processes : Alive(p)' /\ Alive(q)' => p = q
                   /\ posts' = IF delivered' \/ \E p \in Processes : task'[p] = "posted" THEN 1 ELSE 0
                   /\ \A p \in Processes : Busy(p)' => ~delivered'
<1>0. ~cut /\ ~beside
  BY DEF MeetupNext, Boot, Poll, FetchSettles, Post, PostAnswered, Arm, Stop, Exit, Ends,
         Clock, LockStep, allVars, meetupVars, Shape
<1>1. /\ \A p, q \in Processes : Alive(p) /\ Alive(q) => p = q
      /\ posts = IF delivered \/ \E p \in Processes : task[p] = "posted" THEN 1 ELSE 0
      /\ \A p \in Processes : Busy(p) => ~delivered
  BY <1>0 DEF Once
<1> USE DEF Shape, TypeOK, InPoll, Busy, Becomes, Alive, meetupVars
<1>2. ASSUME NEW p \in Processes, Boot(p)
      PROVE  Goal
  <2>1. \A q \in Processes : ~Alive(q)
    BY <1>2 DEF Boot
  <2>2. /\ step' = [step EXCEPT ![p] = "active"] /\ task' = [task EXCEPT ![p] = "startup"]
        /\ posts' = posts /\ delivered' = delivered
    BY <1>2 DEF Boot, Start
  <2>3. \A q \in Processes : task[q] = "none"
    BY <2>1
  <2>4. QED
    BY <1>1, <2>1, <2>2, <2>3
<1>3. ASSUME NEW p \in Processes, Poll(p)
      PROVE  Goal
  <2>1. /\ step' = step /\ posts' = posts /\ delivered' = delivered /\ Alive(p)
        /\ task[p] \in {"startup", "armed"}
        /\ \/ task' = [task EXCEPT ![p] = "fetching"] /\ ~delivered
           \/ task' = [task EXCEPT ![p] = "none"]
    BY <1>3 DEF Poll, Due, vars
  <2>2. (\E q \in Processes : task'[q] = "posted") <=> (\E q \in Processes : task[q] = "posted")
    BY <2>1
  <2>3. \A q \in Processes : Busy(q)' => ~delivered'
    BY <1>1, <2>1
  <2>4. QED
    BY <1>1, <2>1, <2>2, <2>3
<1>4. ASSUME NEW p \in Processes, FetchSettles(p)
      PROVE  Goal
  <2>1. /\ task[p] = "fetching" /\ step' = step /\ posts' = posts /\ delivered' = delivered
        /\ task' = [task EXCEPT ![p] = "sending"]
    BY <1>4 DEF FetchSettles, vars
  <2>2. (\E q \in Processes : task'[q] = "posted") <=> (\E q \in Processes : task[q] = "posted")
    BY <2>1
  <2>3. \A q \in Processes : Busy(q)' => Busy(q)
    BY <2>1
  <2>4. QED
    BY <1>1, <2>1, <2>2, <2>3
<1>5. ASSUME NEW p \in Processes, Post(p)
      PROVE  Goal
  <2>1. /\ task[p] = "sending" /\ step' = step /\ delivered' = delivered
        /\ posts' = posts + 1 /\ task' = [task EXCEPT ![p] = "posted"]
    BY <1>5 DEF Post, vars
  <2>2. ~delivered /\ Alive(p)
    BY <1>1, <2>1
  <2>3. \A q \in Processes : q # p => task[q] = "none"
    BY <1>1, <2>2
  <2>4. posts = 0
    BY <1>1, <2>1, <2>2, <2>3
  <2>5. task'[p] = "posted"
    BY <2>1
  <2>6. QED
    BY <1>1, <2>1, <2>2, <2>4, <2>5
<1>6. ASSUME NEW p \in Processes, PostAnswered(p)
      PROVE  Goal
  <2>1. /\ task[p] = "posted" /\ step' = step /\ posts' = posts
        /\ delivered' = TRUE /\ task' = [task EXCEPT ![p] = "none"]
    BY <1>6 DEF PostAnswered, Delivered, vars
  <2>2. Alive(p) /\ posts = 1
    BY <1>1, <2>1
  <2>3. \A q \in Processes : task'[q] = "none"
    BY <1>1, <2>1, <2>2
  <2>4. QED
    BY <1>1, <2>1, <2>2, <2>3
<1>7. ASSUME NEW p \in Processes, Arm(p) \/ Stop(p) \/ Exit(p)
      PROVE  Goal
  <2>1. posts' = posts /\ delivered' = delivered /\ \A q \in Processes : Alive(q)' => Alive(q)
    BY <1>7 DEF Arm, Stop, Exit, BeginStop, EndStop, Die, Ends, vars
  <2>2. \A q \in Processes : /\ task'[q] \in InPoll <=> task[q] \in InPoll
                             /\ task'[q] \in InPoll => task'[q] = task[q]
    <3>1. CASE Arm(p)
      BY <3>1 DEF Arm, Scheduled
    <3>2. CASE Stop(p)
      BY <3>2 DEF Stop
    <3>3. CASE Exit(p)
      <4>1. ~Busy(p)
        BY <3>3 DEF Exit, Ends
      <4>2. QED
        BY <3>3, <4>1 DEF Exit, Ends
    <3>4. QED
      BY <1>7, <3>1, <3>2, <3>3
  <2>3. QED
    BY <1>1, <2>1, <2>2
<1>8. CASE Clock \/ UNCHANGED allVars
  <2>1. UNCHANGED <<step, task, posts, delivered>>
    BY <1>8 DEF Clock, allVars, vars
  <2>2. QED
    BY <1>1, <2>1
<1>9. CASE LockStep
  <2>1. UNCHANGED <<step, task, posts, delivered>>
    BY <1>9 DEF LockStep, Heartbeat, StrangerStarts, LeaseLapses
  <2>2. QED
    BY <1>1, <2>1
<1>10. QED
  BY <1>2, <1>3, <1>4, <1>5, <1>6, <1>7, <1>8, <1>9 DEF MeetupNext

\* Who watches the window goes on, or the announcement is made or cut off.
LEMMA WatchingStep ==
    ASSUME Shape, Watching, [MeetupNext]_allVars
    PROVE  Watching'
<1> DEFINE Made == delivered \/ \E p \in Processes : task[p] = "posted"
           Watch(p) == posts > 0 \/ cut \/ Busy(p) \/ (task[p] = "armed" /\ time # "after")
<1>1. /\ Made => posts > 0
      /\ \A p \in served : /\ step[p] # "new" /\ p \notin booting
                           /\ step[p] = "active" => Watch(p)
  BY DEF Watching
<1> SUFFICES /\ Made' => posts' > 0
             /\ \A p \in served' : /\ step'[p] # "new" /\ p \notin booting'
                                   /\ step'[p] = "active" => Watch(p)'
  BY DEF Watching
<1>2. (cut => cut') /\ (posts > 0 => posts' > 0) /\ posts \in Nat
  <2>1. posts' \in {posts, posts + 1} /\ posts \in Nat
    BY DEF MeetupNext, Boot, Poll, FetchSettles, Post, PostAnswered, Arm, Stop, Exit, Ends,
           Clock, LockStep, allVars, meetupVars, Shape
  <2>2. cut => cut'
    BY DEF MeetupNext, Boot, Poll, FetchSettles, Post, PostAnswered, Arm, Stop, Exit, Ends,
           Clock, LockStep, allVars, meetupVars, Shape
  <2>3. QED
    BY <2>1, <2>2
<1> DEFINE Goal == /\ Made' => posts' > 0
                   /\ \A p \in served' : /\ step'[p] # "new" /\ p \notin booting'
                                         /\ step'[p] = "active" => Watch(p)'
<1> SUFFICES Goal
  OBVIOUS
<1> USE DEF Shape, TypeOK, InPoll, Busy, Becomes, Alive, meetupVars
<1>3. ASSUME NEW p \in Processes, Boot(p)
      PROVE  Goal
  BY <1>1, <1>3 DEF Boot, Start
<1>4. ASSUME NEW p \in Processes, Poll(p)
      PROVE  Goal
  BY <1>1, <1>4 DEF Poll, Due, vars
<1>5. ASSUME NEW p \in Processes, FetchSettles(p)
      PROVE  Goal
  <2>1. /\ task[p] = "fetching" /\ UNCHANGED <<time, delivered, posts, served>>
        /\ \/ task' = [task EXCEPT ![p] = "sending"] /\ UNCHANGED <<step, booting, cut>>
           \/ /\ task' = [task EXCEPT ![p] = "none"] /\ cut' = TRUE
              /\ booting' \subseteq booting
              /\ step' = step \/ step' = [step EXCEPT ![p] = "stopping"]
    BY <1>5 DEF FetchSettles, BeginStop, vars
  <2>2. QED
    BY <1>1, <2>1
<1>6. ASSUME NEW p \in Processes, Post(p)
      PROVE  Goal
  <2>1. /\ UNCHANGED <<time, delivered, served, booting, step>>
        /\ \/ posts' = posts + 1
           \/ /\ task[p] = "sending" /\ task' = [task EXCEPT ![p] = "none"] /\ posts' = posts
              /\ cut' = TRUE
    BY <1>6 DEF Post, vars
  <2>2. CASE posts' = posts + 1
    <3>1. posts' > 0
      BY <1>2, <2>2
    <3>2. QED
      BY <1>1, <2>1, <3>1
  <2>3. CASE task[p] = "sending" /\ task' = [task EXCEPT ![p] = "none"] /\ posts' = posts /\ cut' = TRUE
    BY <1>1, <2>1, <2>3
  <2>4. QED
    BY <2>1, <2>2, <2>3
<1>7. ASSUME NEW p \in Processes, PostAnswered(p)
      PROVE  Goal
  <2>1. posts > 0 /\ posts' = posts
    BY <1>1, <1>7 DEF PostAnswered
  <2>2. UNCHANGED <<served, booting, step>>
    BY <1>7 DEF PostAnswered, vars
  <2>3. QED
    BY <1>1, <2>1, <2>2
<1>8. ASSUME NEW p \in Processes, Arm(p)
      PROVE  Goal
  BY <1>1, <1>8 DEF Arm, Scheduled, vars
<1>9. ASSUME NEW p \in Processes, Stop(p)
      PROVE  Goal
  <2>1. /\ UNCHANGED <<time, delivered, posts, served, booting>>
        /\ step' = [step EXCEPT ![p] = "stopping"]
        /\ task' = [task EXCEPT ![p] = IF task[p] = "armed" THEN "none" ELSE task[p]]
    BY <1>9 DEF Stop, BeginStop
  <2>2. cut => cut'
    BY <1>2
  <2>3. QED
    BY <1>1, <2>1, <2>2
<1>10. ASSUME NEW p \in Processes, Exit(p)
       PROVE  Goal
  <2>1. /\ UNCHANGED <<time, delivered, posts, served>> /\ booting' \subseteq booting
        /\ step' = [step EXCEPT ![p] = "gone"]
        /\ task' = [task EXCEPT ![p] = "none"]
    BY <1>10 DEF Exit, EndStop, Die, Ends
  <2>2. cut => cut'
    BY <1>2
  <2>3. QED
    BY <1>1, <2>1, <2>2
<1>11. CASE Clock
  BY <1>1, <1>11 DEF Clock, vars
<1>12. CASE LockStep
  <2>1. UNCHANGED <<step, task, booting, served, posts, delivered, cut, time>>
    BY <1>12 DEF LockStep, Heartbeat, StrangerStarts, LeaseLapses
  <2>2. QED
    BY <1>1, <2>1
<1>13. CASE UNCHANGED allVars
  BY <1>1, <1>13 DEF allVars, vars
<1>14. QED
  BY <1>3, <1>4, <1>5, <1>6, <1>7, <1>8, <1>9, <1>10, <1>11, <1>12, <1>13 DEF MeetupNext

\* Before the first process.
LEMMA InitAnnouncement == MeetupInit => AnnouncementInv
<1> SUFFICES ASSUME MeetupInit
             PROVE  AnnouncementInv
  OBVIOUS
<1>1. Shape
  <2>1. posts \in Nat /\ faults \in 0..MaxFaults
    BY MeetupAssumption DEF MeetupInit
  <2>2. QED
    BY <2>1 DEF MeetupInit, Init, Shape, TypeOK, Alive
<1>2. First = Processes /\ Second = Processes /\ posts = 0
  BY DEF MeetupInit, Init, First, Second
<1>3. Cardinality(Processes) \in Nat
  BY MeetupAssumption, FS_CardinalityType
<1>4. PostsBounded
  BY <1>2, <1>3 DEF PostsBounded
<1>5. Once /\ Watching
  BY DEF MeetupInit, Init, Once, Watching, Alive, Busy, InPoll
<1>6. QED
  BY <1>1, <1>4, <1>5 DEF AnnouncementInv

\* The shape of the announcement, the chances to post that are left, and who
\* watches the window, inductive together.
THEOREM AnnouncementInvariant == MeetupSpec => []AnnouncementInv
<1>1. AnnouncementInv /\ [MeetupNext]_allVars => AnnouncementInv'
  BY ShapeStep, BoundStep, OnceStep, WatchingStep DEF AnnouncementInv
<1>2. QED
  BY InitAnnouncement, <1>1, PTL DEF MeetupSpec

\* The announcement is made twice only if a poll was cut off before it stored
\* its row, or a process was started beside another; and never more than twice
\* per process.
THEOREM AnnouncedOnlyOnce == MeetupSpec => []MeetupInv
<1>1. AnnouncementInv => MeetupInv
  <2> SUFFICES ASSUME AnnouncementInv
               PROVE  MeetupInv
    OBVIOUS
  <2>1. IsFiniteSet(First) /\ IsFiniteSet(Second)
    BY MeetupAssumption, FS_Subset DEF First, Second
  <2>2. Cardinality(First) \in Nat /\ Cardinality(Second) \in Nat /\ Cardinality(Processes) \in Nat
    BY <2>1, MeetupAssumption, FS_CardinalityType
  <2>3. posts \in 0..2 * Cardinality(Processes)
    BY <2>2 DEF AnnouncementInv, PostsBounded, Shape
  <2>4. MeetupTypeOK
    BY <2>3 DEF AnnouncementInv, Shape, MeetupTypeOK
  <2>5. AnnouncedOnce
    <3>1. CASE ~cut /\ ~beside
      BY <3>1 DEF AnnouncementInv, Once, AnnouncedOnce
    <3>2. QED
      BY <3>1 DEF AnnouncedOnce
  <2>6. QED
    BY <2>4, <2>5 DEF MeetupInv
<1>2. QED
  BY <1>1, AnnouncementInvariant, PTL

\* A process that had its timer before 18:00 and is still up after the event has
\* seen to the announcement, unless one of its calls failed.
THEOREM TheMeetupIsNotMissed == MeetupSpec => []MeetupIsNotMissed
<1>1. AnnouncementInv => MeetupIsNotMissed
  BY DEF AnnouncementInv, Watching, MeetupIsNotMissed
<1>2. QED
  BY <1>1, AnnouncementInvariant, PTL

=============================================================================
