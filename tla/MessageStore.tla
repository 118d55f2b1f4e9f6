---------------------------- MODULE MessageStore ----------------------------
(***************************************************************************)
(* The three SQLite tables that decide what happens to a message           *)
(* (storage/repositories): message_processing, retry_job, channel_cursor.  *)
(* better-sqlite3 is synchronous: one repository call is one atomic step,  *)
(* and a handler that makes several calls between two awaits makes them in *)
(* one step too, unless the process dies in between.                       *)
(***************************************************************************)
EXTENDS Integers, FiniteSets

CONSTANTS Messages,   \* the messages users may post, numbered as snowflakes
          ChannelOf,  \* message -> its channel
          RetryLimit  \* length of RETRY_DELAYS_MS, 3 in the code

ASSUME MessagesAssumption == Messages \subseteq Nat \ {0} /\ IsFiniteSet(Messages)
ASSUME ChannelAssumption == DOMAIN ChannelOf = Messages
ASSUME RetryLimitAssumption == RetryLimit \in Nat

Channels == {ChannelOf[m] : m \in Messages}

VARIABLES rowState,   \* message_processing.state, "none" without a row
          leaseLive,  \* lease_expires_at lies in the future
          retryJob,   \* retry_job.attempt_count, 0 without a row
          due,        \* retry_job.next_attempt_at has passed
          cursor      \* channel_cursor.last_processed_message_id

storeVars == <<rowState, leaseLive, retryJob, due, cursor>>

RowStates == {"none", "processing", "pending_retry", "rerun_requested",
              "completed", "terminal_failure_notified"}
Resolved == {"completed", "terminal_failure_notified"}

StoreTypeOK ==
    /\ rowState \in [Messages -> RowStates]
    /\ leaseLive \in [Messages -> BOOLEAN]
    /\ retryJob \in [Messages -> Nat]
    /\ due \in [Messages -> BOOLEAN]
    /\ cursor \in [Channels -> Nat]

\* A migrated store whose cursors were seeded, before any message.
StoreInit ==
    /\ rowState = [m \in Messages |-> "none"]
    /\ leaseLive = [m \in Messages |-> FALSE]
    /\ retryJob = [m \in Messages |-> 0]
    /\ due = [m \in Messages |-> FALSE]
    /\ cursor = [channel \in Channels |-> 0]

-----------------------------------------------------------------------------
\* message_processing.

\* Mutants of AcquireStatus: a completed row is taken again; a retry gets no special
\* permission.
AcquireCompletedAgain(m, allowPendingRetryAcquire) ==
    CASE rowState[m] = "terminal_failure_notified" -> "already_terminal_failure_notified"
      [] rowState[m] = "pending_retry" /\ ~allowPendingRetryAcquire -> "pending_retry"
      [] rowState[m] = "processing" /\ leaseLive[m] -> "in_flight"
      [] OTHER -> "acquired"

AcquireNoPendingRetry(m, allowPendingRetryAcquire) ==
    CASE rowState[m] = "completed" -> "already_completed"
      [] rowState[m] = "terminal_failure_notified" -> "already_terminal_failure_notified"
      [] rowState[m] = "pending_retry" -> "pending_retry"
      [] rowState[m] = "processing" /\ leaseLive[m] -> "in_flight"
      [] OTHER -> "acquired"

\* What tryAcquire answers; only "acquired" changes the row.
AcquireStatus(m, allowPendingRetryAcquire) ==
    CASE rowState[m] = "completed" -> "already_completed"
      [] rowState[m] = "terminal_failure_notified" -> "already_terminal_failure_notified"
      [] rowState[m] = "pending_retry" /\ ~allowPendingRetryAcquire -> "pending_retry"
      [] rowState[m] = "processing" /\ leaseLive[m] -> "in_flight"
      [] OTHER -> "acquired"

Acquire(m) ==
    /\ rowState' = [rowState EXCEPT ![m] = "processing"]
    /\ leaseLive' = [leaseLive EXCEPT ![m] = TRUE]

\* The unconditional updates: every state but an absent row is overwritten.
\* They also clear the lease, which only a processing row reads.
MarkRow(m, state) ==
    /\ rowState' = [rowState EXCEPT ![m] = IF @ = "none" THEN @ ELSE state]
    /\ leaseLive' = [leaseLive EXCEPT ![m] = FALSE]

\* Updates the row only while it is 'processing'; the caller tests the result.
RerunMarkable(m) == rowState[m] = "processing"

-----------------------------------------------------------------------------
\* retry_job.

\* Mutant of UpsertRetryJob: an UPDATE, which finds no row the first time.
UpdateRetryJob(m, attempt) ==
    /\ retryJob' = [retryJob EXCEPT ![m] = IF @ = 0 THEN 0 ELSE attempt]
    /\ due' = [due EXCEPT ![m] = FALSE]

UpsertRetryJob(m, attempt) ==
    /\ retryJob' = [retryJob EXCEPT ![m] = attempt]
    /\ due' = [due EXCEPT ![m] = FALSE]

DeleteRetryJob(m) == UpsertRetryJob(m, 0)

DueJobs == {m \in Messages : retryJob[m] > 0 /\ due[m]}

-----------------------------------------------------------------------------

\* channel_cursor: the upsert keeps the larger snowflake (compared by length,
\* then text, which for decimal snowflakes is the numeric order).
AdvanceCursor(m) ==
    cursor' = [cursor EXCEPT ![ChannelOf[m]] = IF m > @ THEN m ELSE @]

-----------------------------------------------------------------------------

\* RetrySchedulerService.schedule: one more attempt than the job of now.
ScheduleRetry(m) ==
    /\ UpsertRetryJob(m, retryJob[m] + 1)
    /\ MarkRow(m, "pending_retry")
    /\ UNCHANGED cursor

\* markMessageCompletedById and markTerminalFailureNotifiedById.
ResolveAs(m, state) ==
    /\ DeleteRetryJob(m)
    /\ MarkRow(m, state)
    /\ AdvanceCursor(m)

-----------------------------------------------------------------------------
\* The clock: the five minutes of a lease and the delay of a retry job pass.
LeaseExpires(m) ==
    /\ leaseLive[m]
    /\ leaseLive' = [leaseLive EXCEPT ![m] = FALSE]
    /\ UNCHANGED <<rowState, retryJob, due, cursor>>

JobFallsDue(m) ==
    /\ retryJob[m] > 0
    /\ ~due[m]
    /\ due' = [due EXCEPT ![m] = TRUE]
    /\ UNCHANGED <<rowState, leaseLive, retryJob, cursor>>

\* What the process leaves on disk when it dies inside one of the handlers above, or
\* while it skips a resolved duplicate: the statements already committed, not the rest.
ResolveCutShort(m, state) ==
    /\ DeleteRetryJob(m)
    /\ \/ UNCHANGED <<rowState, leaseLive>>
       \/ MarkRow(m, state)
    /\ UNCHANGED cursor

\* The cursor moves before the job of a resolved duplicate is deleted.
DuplicateCutShort(m) ==
    /\ AdvanceCursor(m)
    /\ UNCHANGED <<rowState, leaseLive, retryJob, due>>

\* Mutant of ScheduleCutShort: the row is marked before the job is written.
MarkCutShort(m) ==
    /\ MarkRow(m, "pending_retry")
    /\ UNCHANGED <<retryJob, due, cursor>>

ScheduleCutShort(m) ==
    /\ UpsertRetryJob(m, retryJob[m] + 1)
    /\ UNCHANGED <<rowState, leaseLive, cursor>>
=============================================================================
