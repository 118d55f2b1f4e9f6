--------------------------- MODULE SessionManager ---------------------------
(***************************************************************************)
(* Codex sessions: the live cache, the stored bindings, and the awaits     *)
(* between reading and writing them.  The app server is external: it       *)
(* refuses a request, loses an answer, and announces changed skills.  What *)
(* it does for a request and what the caller does with the answer are two  *)
(* steps: an announcement may come in between.                             *)
(***************************************************************************)
EXTENDS Integers, FiniteSets

CONSTANTS Identities,                \* session identities that are kept beyond a turn
          Callers, CodexThreads, None,
          MaxSkillChanges, MaxFaults \* bounds

ASSUME SessionAssumption ==
    None \notin CodexThreads /\ MaxSkillChanges \in Nat /\ MaxFaults \in Nat

VARIABLES live,       \* liveSessions
          bound,      \* codex_session_binding
          cached,     \* cachedGeneration
          generation, \* sessionInvalidationGeneration of the client
          call,       \* caller -> its await, with the identity and the thread
          started,    \* threads the server has started
          archived,   \* threads the server has archived
          since,      \* history: the generation when the server started or resumed the thread
          overtaken,  \* history: threads whose skills changed before they were cached
          overlapped, \* history: identities two callers worked on at once
          faults

threadVars == <<live, bound, cached, generation, started, archived, since, overtaken,
                overlapped>>
sessionVars == <<threadVars, call>>

Awaits == {"resumeLive", "resumeBound", "resumed", "starting", "created",
           "archiving", "unsubscribing"}

SessionTypeOK ==
    /\ live \in [Identities -> CodexThreads \cup {None}]
    /\ bound \in [Identities -> CodexThreads \cup {None}]
    /\ generation \in 0..MaxSkillChanges /\ cached \in 0..generation
    /\ call \in [Callers -> [step : Awaits \cup {"idle", "ready", "archived", "failed"},
                             id : Identities \cup {None}, thread : CodexThreads \cup {None}]]
    /\ archived \subseteq started /\ started \subseteq CodexThreads
    /\ since \in [CodexThreads -> 0..generation]
    /\ overtaken \subseteq CodexThreads
    /\ overlapped \subseteq Identities
    /\ faults \in 0..MaxFaults

NoThreads == [i \in Identities |-> None]
NoCall == [step |-> "idle", id |-> None, thread |-> None]

SessionInit ==
    /\ live = NoThreads /\ bound = NoThreads
    /\ cached = 0 /\ generation = 0
    /\ call = [k \in Callers |-> NoCall]
    /\ started = {} /\ archived = {}
    /\ since = [t \in CodexThreads |-> 0]
    /\ overtaken = {} /\ overlapped = {}
    /\ faults = 0

-----------------------------------------------------------------------------
Fault == faults < MaxFaults /\ faults' = faults + 1

\* Mutant of Synced: the cache survives a change of the skills.
SyncedKeepsCache == live

\* syncInvalidationGeneration clears the live cache.
Synced == IF generation = cached THEN live ELSE NoThreads

Goes(k, step, id, thread) ==
    call' = [call EXCEPT ![k] = [step |-> step, id |-> id, thread |-> thread]]

\* Somebody else is in the middle of something with the identity.
Busy(k, id) == \E j \in Callers \ {k} : call[j].id = id /\ call[j].step \in Awaits \cup {"ready"}
Overlap(k, id) == overlapped' = IF Busy(k, id) THEN overlapped \cup {id} ELSE overlapped

\* Where getOrStartSession looks first.  A binding is only trusted as long as the
\* skills have not changed since the start of the process.
Source(id) ==
    IF Synced[id] # None THEN "resumeLive"
    ELSE IF generation = 0 /\ bound[id] # None THEN "resumeBound"
    ELSE "starting"

GetSession(k, id) ==
    /\ call[k].step \in {"idle", "failed"}
    /\ Goes(k, Source(id), id,
            CASE Source(id) = "resumeLive" -> Synced[id]
              [] Source(id) = "resumeBound" -> bound[id]
              [] OTHER -> None)
    /\ live' = Synced /\ cached' = generation
    /\ Overlap(k, id)
    /\ UNCHANGED <<bound, generation, started, archived, since, overtaken>>

\* The thread goes into the cache, under the generation the cache has by then.
Caches(thread) ==
    overtaken' = IF since[thread] < cached' THEN overtaken \cup {thread} ELSE overtaken

\* The server resumes the thread with its present skills, or refuses: an archived
\* thread cannot be resumed.  resumeTrackedSession has nothing left to do then, and a
\* refusal goes on with a fresh session.
ResumeSettles(k) ==
    LET id == call[k].id
        thread == call[k].thread
        tracked == call[k].step = "resumeLive" IN
    /\ call[k].step \in {"resumeLive", "resumeBound"}
    /\ \/ /\ thread \notin archived
          /\ Goes(k, IF tracked THEN "ready" ELSE "resumed", id, thread)
          /\ since' = [since EXCEPT ![thread] = generation]
          /\ overtaken' = overtaken \ {thread}
          /\ UNCHANGED <<live, faults>>
       \/ /\ IF thread \in archived THEN UNCHANGED faults ELSE Fault
          /\ Goes(k, "starting", id, None)
          /\ live' = IF tracked THEN [live EXCEPT ![id] = None] ELSE live
          /\ UNCHANGED <<since, overtaken>>
    /\ UNCHANGED <<bound, cached, generation, started, archived, overlapped>>

\* resumePersistedSession goes on: the thread is cached, without a look at the skills.
CacheResumed(k) ==
    LET id == call[k].id
        thread == call[k].thread IN
    /\ call[k].step = "resumed"
    /\ live' = [live EXCEPT ![id] = thread]
    /\ UNCHANGED <<bound, cached, generation, started, archived, since, overlapped, faults>>
    /\ Caches(thread)
    /\ Goes(k, "ready", id, thread)

\* The upsert replaces the thread of the identity.
StoreBinding(id, thread) == bound' = [bound EXCEPT ![id] = thread]

\* bindSession.
Bind(id, thread) ==
    /\ StoreBinding(id, thread)
    /\ live' = [Synced EXCEPT ![id] = thread]
    /\ cached' = generation

\* An id for a new thread; which one does not matter.
NewThreads ==
    {t \in CodexThreads \ started : t = CHOOSE u \in CodexThreads \ started : TRUE}

\* startFreshSession: the server starts a thread with its present skills.
StartSettles(k) ==
    LET id == call[k].id IN
    /\ call[k].step = "starting"
    /\ \/ /\ \E thread \in NewThreads :
                /\ started' = started \cup {thread}
                /\ since' = [since EXCEPT ![thread] = generation]
                /\ Goes(k, "created", id, thread)
          /\ UNCHANGED faults
       \/ /\ Fault
          /\ Goes(k, "failed", id, None)
          /\ UNCHANGED <<started, since>>
    /\ UNCHANGED <<live, bound, cached, generation, archived, overtaken, overlapped>>

\* startFreshSession goes on with the id of the thread.
BindStarted(k) ==
    LET id == call[k].id
        thread == call[k].thread IN
    /\ call[k].step = "created"
    /\ Bind(id, thread)
    /\ UNCHANGED <<generation, started, archived, since, overlapped, faults>>
    /\ Caches(thread)
    /\ Goes(k, "ready", id, thread)

\* archiveSession, up to its first await.
Archive(k, id) ==
    /\ call[k].step \in {"idle", "failed"}
    /\ IF bound[id] = None THEN Goes(k, "archived", id, None)
                           ELSE Goes(k, "archiving", id, bound[id])
    /\ live' = Synced /\ cached' = generation
    /\ Overlap(k, id)
    /\ UNCHANGED <<bound, generation, started, archived, since, overtaken>>

\* The server archives the thread, refuses to, or does so and the answer is lost.
ArchiveSettles(k) ==
    LET id == call[k].id
        thread == call[k].thread IN
    /\ call[k].step = "archiving"
    /\ \/ /\ thread \notin archived
          /\ archived' = archived \cup {thread}
          /\ Goes(k, "unsubscribing", id, thread)
          /\ UNCHANGED faults
       \/ /\ thread \in archived
          /\ Goes(k, "failed", id, thread)
          /\ UNCHANGED <<archived, faults>>
       \/ /\ Fault
          /\ archived' \in {archived, archived \cup {thread}}
          /\ Goes(k, "failed", id, thread)
    /\ UNCHANGED <<live, bound, cached, generation, started, since, overtaken, overlapped>>

\* Mutant of Forget: the live cache keeps the session.
ForgetBinding(id) == bound' = [bound EXCEPT ![id] = None] /\ UNCHANGED live

Forget(id) ==
    /\ bound' = [bound EXCEPT ![id] = None]
    /\ live' = [live EXCEPT ![id] = None]

\* Whatever unsubscribe says, the row and the cache entry of the identity go.
UnsubscribeSettles(k) ==
    /\ call[k].step = "unsubscribing"
    /\ Forget(call[k].id)
    /\ Goes(k, "archived", call[k].id, call[k].thread)
    /\ UNCHANGED <<cached, generation, started, archived, since, overtaken, overlapped,
                   faults>>

\* The notification skills/changed.
SkillsChange ==
    /\ generation < MaxSkillChanges
    /\ generation' = generation + 1
    /\ UNCHANGED <<live, bound, cached, call, started, archived, since, overtaken, overlapped,
                   faults>>

SessionStep(k) ==
    \/ ResumeSettles(k) \/ CacheResumed(k)
    \/ StartSettles(k) \/ BindStarted(k)
    \/ ArchiveSettles(k)

-----------------------------------------------------------------------------
\* Unless two callers overlap, the live cache, the stored binding and the thread a
\* caller works on are the same thread (the awaits in getOrStartSession and
\* archiveSession between reading and writing).
SessionsAgree ==
    \A id \in Identities \ overlapped :
        /\ live[id] # None => live[id] = bound[id]
        /\ \A k \in Callers : call[k].id = id /\ call[k].step = "ready" =>
                                  call[k].thread = bound[id]

\* A session taken from the live cache was started or resumed by the server since the
\* last change of the skills it announced (syncInvalidationGeneration).  There is one
\* way round: a change announced between that start or resumption and the moment its
\* session is cached, which bindSession cannot see; and a later resumption mends it.
TakenFresh(k) ==
    call[k].step # "resumeLive" /\ call'[k].step = "resumeLive" =>
        LET thread == call'[k].thread
        IN  since[thread] = generation \/ thread \in overtaken

=============================================================================
