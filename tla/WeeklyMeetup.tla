---------------------------- MODULE WeeklyMeetup ----------------------------
(***************************************************************************)
(* The weekly announcement, sent at 18:00 on Mondays by whichever process  *)
(* holds the runtime lock: the poll at the end of start(), the timer, and  *)
(* the row of scheduled_delivery, over restarts, late processes and lost   *)
(* answers.  One occurrence; other weeks have rows of their own.           *)
(***************************************************************************)
EXTENDS RuntimeLock

CONSTANT MaxFaults \* bound

ASSUME MeetupAssumption == IsFiniteSet(Processes) /\ MaxFaults \in Nat

VARIABLES time,      \* before 18:00, before the event, or later
          task,      \* process -> what it does about the announcement
          booting,   \* processes whose start() has not scheduled the timer yet
          delivered, \* the row of scheduled_delivery
          posts,     \* history: announcements in the channel
          cut,       \* history: a poll was cut off between its fetch and its row
          beside,    \* history: a process was started beside one still alive
          served,    \* history: processes that had a timer before the window
          faults

meetupVars == <<time, task, booting, delivered, posts, cut, beside, served, faults>>
allVars == <<vars, meetupVars>>

InPoll == {"fetching", "sending", "posted"}
Busy(p) == task[p] \in InPoll

MeetupTypeOK ==
    /\ time \in {"before", "window", "after"}
    /\ task \in [Processes -> {"none", "startup", "armed"} \cup InPoll]
    /\ booting \subseteq {p \in Processes : Alive(p)}
    /\ \A p \in Processes : task[p] # "none" => Alive(p)
    /\ posts \in 0..2 * Cardinality(Processes)
    /\ {delivered, cut, beside} \subseteq BOOLEAN
    /\ served \subseteq Processes
    /\ faults \in 0..MaxFaults

MeetupInit ==
    /\ Init /\ \A p, q \in Processes : pid[p] = pid[q] \* it says nothing yet
    /\ time = "before"
    /\ task = [p \in Processes |-> "none"]
    /\ booting = {} /\ served = {}
    /\ delivered = FALSE /\ cut = FALSE /\ beside = FALSE
    /\ posts = 0 /\ faults = 0

-----------------------------------------------------------------------------
Fault == faults < MaxFaults /\ faults' = faults + 1

Becomes(p, what) == task' = [task EXCEPT ![p] = what]

\* start() has the lock and goes through the startup that precedes its poll.
Boot(p) ==
    /\ Start(p)
    /\ Becomes(p, "startup")
    /\ booting' = booting \cup {p}
    /\ beside' = (beside \/ \E q \in Processes : Alive(q))
    /\ UNCHANGED <<time, delivered, posts, cut, served, faults>>

\* resolveAnnouncementWindow, and the row that says it has been done.
Due == time = "window" /\ ~delivered

\* poll() from start(), or from the timer.
Poll(p) ==
    /\ Alive(p)
    /\ \/ task[p] = "startup" /\ p \in booting
       \/ task[p] = "armed" /\ time # "before"
    /\ Becomes(p, IF Due THEN "fetching" ELSE "none")
    /\ UNCHANGED <<vars, time, booting, delivered, posts, cut, beside, served, faults>>

\* A channel that cannot be fetched is none: the poll ends, and the timer with it.
FetchSettles(p) ==
    /\ task[p] = "fetching"
    /\ \/ Becomes(p, "sending") /\ UNCHANGED <<cut, faults>>
       \/ Fault /\ Becomes(p, "none") /\ cut' = TRUE
    /\ UNCHANGED <<vars, time, booting, delivered, posts, beside, served>>

\* Discord has the message; or refuses it.
Post(p) ==
    /\ task[p] = "sending"
    /\ \/ Becomes(p, "posted") /\ posts' = posts + 1 /\ UNCHANGED <<cut, faults>>
       \/ Fault /\ Becomes(p, "none") /\ cut' = TRUE /\ UNCHANGED posts
    /\ UNCHANGED <<vars, time, booting, delivered, beside, served>>

\* Mutant of Delivered: only the timer's poll stores the row.
DeliveredByTimer(p) == delivered' = (delivered \/ p \notin booting)

Delivered(p) == delivered' = TRUE

\* The answer arrives and the row is stored; or it is lost, or the row is not stored.
PostAnswered(p) ==
    /\ task[p] = "posted"
    /\ Becomes(p, "none")
    /\ \/ Delivered(p) /\ UNCHANGED <<cut, faults>>
       \/ Fault /\ cut' = TRUE /\ UNCHANGED delivered
    /\ UNCHANGED <<vars, time, booting, posts, beside, served>>

\* Mutant of Scheduled: on a Monday, always the next one.
ScheduledNextWeek == "none"

\* resolveNextWeeklyMeetupAnnouncementAt, as seen from this occurrence.
Scheduled == IF time = "before" THEN "armed" ELSE "none"

\* start() sets the timer from the clock as it is after its poll.
Arm(p) ==
    /\ p \in booting /\ task[p] = "none"
    /\ Becomes(p, Scheduled)
    /\ booting' = booting \ {p}
    /\ served' = IF time = "before" THEN served \cup {p} ELSE served
    /\ UNCHANGED <<vars, time, delivered, posts, cut, beside, faults>>

\* stop() clears the timer and releases the lock; a poll in flight goes on.
Stop(p) ==
    /\ BeginStop(p)
    /\ Becomes(p, IF task[p] = "armed" THEN "none" ELSE task[p])
    /\ cut' = (cut \/ Busy(p))
    /\ UNCHANGED <<time, booting, delivered, posts, beside, served, faults>>

Ends(p) ==
    /\ Becomes(p, "none")
    /\ booting' = booting \ {p}
    /\ cut' = (cut \/ Busy(p))

\* The process is gone, after stop() or without it.
Exit(p) ==
    /\ EndStop(p) \/ Die(p)
    /\ Ends(p)
    /\ UNCHANGED <<time, delivered, posts, beside, served, faults>>

\* No timer is three hours late, and no startup takes as long.
Clock ==
    /\ time # "after"
    /\ time = "window" => \A p \in Processes : task[p] \notin {"startup", "armed"}
    /\ time' = IF time = "before" THEN "window" ELSE "after"
    /\ UNCHANGED <<vars, task, booting, delivered, posts, cut, beside, served, faults>>

LockStep ==
    /\ \/ \E p \in Processes : Heartbeat(p)
       \/ \E k \in Pids : StrangerStarts(k)
       \/ LeaseLapses
    /\ UNCHANGED meetupVars

MeetupNext ==
    \/ \E p \in Processes :
          \/ Boot(p) \/ Poll(p) \/ FetchSettles(p) \/ Post(p) \/ PostAnswered(p)
          \/ Arm(p) \/ Stop(p) \/ Exit(p)
    \/ Clock \/ LockStep

MeetupSpec == MeetupInit /\ [][MeetupNext]_allVars /\ Fairness

-----------------------------------------------------------------------------
(***************************************************************************)
(* The channel gets the announcement twice only if a poll was cut off      *)
(* before it had stored its row (by a fault, a crash, or a stop that       *)
(* released the lock under it), or a process was started beside one that   *)
(* was late or still stopping.  Restarts alone never repeat it.            *)
(***************************************************************************)
AnnouncedOnce == posts > 1 => cut \/ beside

\* The announcement over all processes: typed, and made once.
MeetupInv == MeetupTypeOK /\ AnnouncedOnce

(***************************************************************************)
(* A process that is up from before 18:00 until after the event has seen   *)
(* to it that the announcement is made, if none of its calls failed.  A    *)
(* start() that polls before 18:00 and sets its timer after it does not.   *)
(***************************************************************************)
MeetupIsNotMissed ==
    \A p \in served : time = "after" /\ step[p] = "active" /\ ~Busy(p) => posts > 0 \/ cut
=============================================================================
