------------------------ MODULE AdminOverride_proofs ------------------------
(***************************************************************************)
(* Theorems about the sessions of an override thread, for any messages,    *)
(* commands, Codex threads and bounds.                                     *)
(*                                                                         *)
(* Three facts carry the argument.  An identity that is not marked as      *)
(* overlapped has one caller at a time between reading and writing its     *)
(* session (Alone), so what the caller holds is what is bound.  No thread  *)
(* ever serves two identities (Apart), however callers overlap.  And       *)
(* without an active override there is no write session and nobody on the  *)
(* way to one (Closed).                                                    *)
(***************************************************************************)
EXTENDS AdminOverride, TLAPS

\* The caller is in the middle of something with the identity.
Working(k, id) == call[k].id = id /\ call[k].step \in Awaits \cup {"ready"}

\* The caller holds a thread, or awaits the answer that gives it one.
Holding == {"ready", "resumeLive", "resumeBound", "resumed"}

\* What a caller may be at.
Calls == [step : Awaits \cup {"idle", "ready", "archived", "failed"},
          id : Identities \cup {None}, thread : CodexThreads \cup {None}]

\* The thread is known under the identity.
Of(t, id) ==
    \/ live[id] = t
    \/ bound[id] = t
    \/ \E k \in Callers : call[k].id = id /\ call[k].thread = t

\* Whoever works with a session names it; who holds a thread has one.
Named ==
    \A k \in Callers :
        /\ call[k].step \in Awaits \cup {"ready"} => call[k].id \in Identities
        /\ call[k].step \in Holding \cup {"created", "archiving", "unsubscribing"}
              => call[k].thread \in CodexThreads

\* An identity nobody overlapped on has one caller at a time, who holds the
\* thread that is bound, and the cache knows no other.
Alone ==
    \A id \in Identities \ overlapped :
        /\ \A j, k \in Callers : Working(j, id) /\ Working(k, id) => j = k
        /\ \A k \in Callers : call[k].id = id /\ call[k].step \in Holding
                                  => call[k].thread = bound[id]
        /\ live[id] # None => live[id] = bound[id]

\* A thread the server has not started is known to nobody, and none is known
\* under two identities.
Apart ==
    \A t \in CodexThreads :
        /\ \A id \in Identities : Of(t, id) => t \in started
        /\ \A id, other \in Identities : Of(t, id) /\ Of(t, other) => id = other

\* What is in the cache is as young as the generation of the cache, unless a change of
\* the skills overtook it.
Fresh ==
    \A id \in Identities : live[id] # None =>
        since[live[id]] >= cached \/ live[id] \in overtaken

SessionsOK == SessionTypeOK /\ Named /\ Alone /\ Apart /\ Fresh

-----------------------------------------------------------------------------
(***************************************************************************)
(* The session manager, whoever calls it.                                  *)
(***************************************************************************)

\* What a call is replaced by.
LEMMA CallReplaced ==
    ASSUME SessionTypeOK, NEW k \in Callers, NEW c, call' = [call EXCEPT ![k] = c]
    PROVE  call'[k] = c /\ \A j \in Callers \ {k} : call'[j] = call[j]
BY DEF SessionTypeOK

\* The cache after it was compared with the skills.
LEMMA SyncedCache ==
    ASSUME SessionTypeOK
    PROVE  /\ Synced \in [Identities -> CodexThreads \cup {None}]
           /\ \A id \in Identities : Synced[id] \in {live[id], None}
           /\ generation # cached => \A id \in Identities : Synced[id] = None
           /\ generation = cached => Synced = live
BY DEF SessionTypeOK, Synced, NoThreads

\* A caller turns to an identity: the cache is compared with the skills, and what
\* the caller holds from then on is cached or bound.
LEMMA EntryKeeps ==
    ASSUME SessionsOK, NEW k \in Callers, NEW id \in Identities,
           call[k].step \in {"idle", "failed"},
           NEW c \in Calls, call' = [call EXCEPT ![k] = c],
           c.id = id, c.step \in (Awaits \ {"created"}) \cup {"archived"},
           \/ c.thread = None /\ c.step \in {"starting", "archived"}
           \/ c.thread = bound[id] /\ c.thread # None
           \/ c.thread = Synced[id] /\ c.thread # None,
           live' = Synced, cached' = generation, Overlap(k, id),
           UNCHANGED <<bound, generation, started, archived, since, overtaken, faults>>
    PROVE  SessionsOK'
<1>1. SessionTypeOK /\ Named /\ Alone /\ Apart /\ Fresh
  BY DEF SessionsOK
<1>2. call'[k] = c /\ \A j \in Callers \ {k} : call'[j] = call[j]
  BY <1>1, CallReplaced
<1>3. SessionTypeOK'
  <2>1. overlapped' \subseteq Identities
    BY <1>1 DEF Overlap, SessionTypeOK
  <2>2. live' \in [Identities -> CodexThreads \cup {None}]
    BY <1>1, SyncedCache
  <2>3. cached' \in 0..generation'
    BY <1>1 DEF SessionTypeOK
  <2>4. call' \in [Callers -> Calls]
    BY <1>1 DEF SessionTypeOK, Calls
  <2>5. QED
    BY <1>1, <2>1, <2>2, <2>3, <2>4 DEF SessionTypeOK, Calls
<1>4. Named'
  <2>1. c.step \in Holding \cup {"archiving", "unsubscribing"} => c.thread \in CodexThreads
    BY DEF Holding, Calls
  <2>2. QED
    BY <1>1, <1>2, <2>1 DEF Named
<1>5. Alone'
  <2> SUFFICES ASSUME NEW i \in Identities \ overlapped'
               PROVE  /\ \A j, l \in Callers : Working(j, i)' /\ Working(l, i)' => j = l
                      /\ \A j \in Callers : call'[j].id = i /\ call'[j].step \in Holding
                                                => call'[j].thread = bound'[i]
                      /\ live'[i] # None => live'[i] = bound'[i]
    BY DEF Alone
  <2>1. i \notin overlapped /\ (i = id => ~Busy(k, id))
    BY DEF Overlap
  <2>2. /\ \A j, l \in Callers : Working(j, i) /\ Working(l, i) => j = l
        /\ \A j \in Callers : call[j].id = i /\ call[j].step \in Holding
                                  => call[j].thread = bound[i]
        /\ live[i] # None => live[i] = bound[i]
    BY <1>1, <2>1 DEF Alone
  <2>3. live'[i] # None => live'[i] = live[i] /\ live'[i] = bound'[i]
    BY <1>1, <2>2, SyncedCache
  <2>4. \A j, l \in Callers : Working(j, i)' /\ Working(l, i)' => j = l
    BY <1>2, <2>1, <2>2 DEF Working, Busy
  <2>5. ASSUME NEW j \in Callers, call'[j].id = i, call'[j].step \in Holding
        PROVE  call'[j].thread = bound'[i]
    <3>1. CASE j = k
      BY <1>2, <2>3, <2>5, <3>1 DEF Holding
    <3>2. CASE j # k
      BY <1>2, <2>2, <2>5, <3>2
    <3>3. QED
      BY <3>1, <3>2
  <2>6. QED
    BY <2>3, <2>4, <2>5
<1>6. Apart'
  <2>1. ASSUME NEW t \in CodexThreads, NEW i \in Identities, Of(t, i)'
        PROVE  Of(t, i)
    <3>1. t # None
      BY SessionAssumption
    <3>2. CASE live'[i] = t
      BY <1>1, <3>1, <3>2, SyncedCache DEF Of
    <3>3. CASE bound'[i] = t
      BY <3>3 DEF Of
    <3>4. ASSUME NEW j \in Callers, call'[j].id = i, call'[j].thread = t
          PROVE  Of(t, i)
      <4>1. CASE j = k
        BY <1>1, <1>2, <3>1, <3>4, <4>1, SyncedCache DEF Of
      <4>2. CASE j # k
        BY <1>2, <3>4, <4>2 DEF Of
      <4>3. QED
        BY <4>1, <4>2
    <3>5. QED
      BY <2>1, <3>2, <3>3, <3>4 DEF Of
  <2>2. QED
    BY <1>1, <2>1 DEF Apart
<1>7. Fresh'
  BY <1>1, SyncedCache DEF Fresh, SessionTypeOK
<1>8. QED
  BY <1>3, <1>4, <1>5, <1>6, <1>7 DEF SessionsOK

\* A request for a session, up to its first await.
LEMMA GetSessionKeeps ==
    ASSUME SessionsOK, NEW k \in Callers, NEW id \in Identities, GetSession(k, id),
           UNCHANGED faults
    PROVE  SessionsOK'
<1>1. SessionTypeOK
  BY DEF SessionsOK
<1>2. PICK c : /\ c = [step |-> Source(id), id |-> id,
                       thread |-> CASE Source(id) = "resumeLive" -> Synced[id]
                                    [] Source(id) = "resumeBound" -> bound[id]
                                    [] OTHER -> None]
               /\ call' = [call EXCEPT ![k] = c]
  BY DEF GetSession, Goes
<1>3. /\ Source(id) \in {"resumeLive", "resumeBound", "starting"}
      /\ Source(id) = "resumeLive" => Synced[id] # None
      /\ Source(id) = "resumeBound" => bound[id] # None
  BY DEF Source
<1>4. /\ c.id = id /\ c.step = Source(id)
      /\ c.step = "resumeLive" => c.thread = Synced[id]
      /\ c.step = "resumeBound" => c.thread = bound[id]
      /\ c.step = "starting" => c.thread = None
      /\ c = [step |-> c.step, id |-> c.id, thread |-> c.thread]
  BY <1>2, <1>3
<1>5. c.thread \in CodexThreads \cup {None}
  BY <1>1, <1>3, <1>4, SyncedCache DEF SessionTypeOK
<1>6. c \in Calls
  BY <1>3, <1>4, <1>5 DEF Calls, Awaits
<1>7. /\ call[k].step \in {"idle", "failed"}
      /\ live' = Synced /\ cached' = generation /\ Overlap(k, id)
      /\ UNCHANGED <<bound, generation, started, archived, since, overtaken>>
  BY DEF GetSession
<1>8. /\ c.step \in (Awaits \ {"created"}) \cup {"archived"}
      /\ \/ c.thread = None /\ c.step \in {"starting", "archived"}
         \/ c.thread = bound[id] /\ c.thread # None
         \/ c.thread = Synced[id] /\ c.thread # None
  BY <1>3, <1>4 DEF Awaits
<1>9. QED
  BY <1>2, <1>4, <1>6, <1>7, <1>8, EntryKeeps

\* A request to archive a session, up to its first await.
LEMMA ArchiveKeeps ==
    ASSUME SessionsOK, NEW k \in Callers, NEW id \in Identities, Archive(k, id),
           UNCHANGED faults
    PROVE  SessionsOK'
<1>1. bound[id] \in CodexThreads \cup {None}
  BY DEF SessionsOK, SessionTypeOK
<1>2. PICK c : /\ call' = [call EXCEPT ![k] = c]
               /\ c = IF bound[id] = None
                      THEN [step |-> "archived", id |-> id, thread |-> None]
                      ELSE [step |-> "archiving", id |-> id, thread |-> bound[id]]
  BY DEF Archive, Goes
<1>3. c.id = id /\ c \in Calls
  BY <1>1, <1>2 DEF Calls, Awaits
<1>4. /\ c.step \in (Awaits \ {"created"}) \cup {"archived"}
      /\ \/ c.thread = None /\ c.step \in {"starting", "archived"}
         \/ c.thread = bound[id] /\ c.thread # None
         \/ c.thread = Synced[id] /\ c.thread # None
  BY <1>2 DEF Awaits
<1>5. /\ call[k].step \in {"idle", "failed"}
      /\ live' = Synced /\ cached' = generation /\ Overlap(k, id)
      /\ UNCHANGED <<bound, generation, started, archived, since, overtaken>>
  BY DEF Archive
<1>6. QED
  BY <1>2, <1>3, <1>4, <1>5, EntryKeeps

\* A caller that works alone with its identity may replace what is bound and
\* cached for it.
LEMMA AloneSettles ==
    ASSUME SessionTypeOK, Alone, NEW k \in Callers, NEW id \in Identities, Working(k, id),
           NEW c, c.id = id, call' = [call EXCEPT ![k] = c], overlapped' = overlapped,
           \A i \in Identities \ {id} : bound'[i] = bound[i] /\ live'[i] \in {live[i], None},
           id \notin overlapped =>
               /\ c.step \in Holding => c.thread = bound'[id]
               /\ live'[id] # None => live'[id] = bound'[id]
    PROVE  Alone'
<1>1. call'[k] = c /\ \A j \in Callers \ {k} : call'[j] = call[j]
  BY CallReplaced
<1> SUFFICES ASSUME NEW i \in Identities \ overlapped
             PROVE  /\ \A j, l \in Callers : Working(j, i)' /\ Working(l, i)' => j = l
                    /\ \A j \in Callers : call'[j].id = i /\ call'[j].step \in Holding
                                              => call'[j].thread = bound'[i]
                    /\ live'[i] # None => live'[i] = bound'[i]
  BY DEF Alone
<1>2. /\ \A j, l \in Callers : Working(j, i) /\ Working(l, i) => j = l
      /\ \A j \in Callers : call[j].id = i /\ call[j].step \in Holding
                                => call[j].thread = bound[i]
      /\ live[i] # None => live[i] = bound[i]
  BY DEF Alone
<1>3. ASSUME NEW j \in Callers \ {k}, Working(j, i)'
      PROVE  Working(j, i) /\ i # id
  BY <1>1, <1>2, <1>3 DEF Working
<1>4. \A j, l \in Callers : Working(j, i)' /\ Working(l, i)' => j = l
  BY <1>1, <1>2, <1>3 DEF Working
<1>5. ASSUME NEW j \in Callers, call'[j].id = i, call'[j].step \in Holding
      PROVE  call'[j].thread = bound'[i]
  <2>1. CASE j = k
    BY <1>1, <1>5, <2>1
  <2>2. CASE j # k
    <3>1. Working(j, i)'
      BY <1>5 DEF Working, Holding, Awaits
    <3>2. i # id
      BY <1>3, <2>2, <3>1
    <3>3. QED
      BY <1>1, <1>2, <1>5, <2>2, <3>2
  <2>3. QED
    BY <2>1, <2>2
<1>6. live'[i] # None => live'[i] = bound'[i]
  BY <1>2
<1>7. QED
  BY <1>4, <1>5, <1>6

\* As long as only a new thread becomes known, and under one identity only,
\* the identities stay apart.
LEMMA ApartKept ==
    ASSUME Apart, started \subseteq started', NEW id, NEW New, New \cap started = {}, New \subseteq started',
           \A t \in CodexThreads : \A i \in Identities :
               Of(t, i)' => Of(t, i) \/ (t \in New /\ i = id)
    PROVE  Apart'
<1> SUFFICES ASSUME NEW t \in CodexThreads
             PROVE  /\ \A i \in Identities : Of(t, i)' => t \in started'
                    /\ \A i, j \in Identities : Of(t, i)' /\ Of(t, j)' => i = j
  BY DEF Apart
<1>1. \A i \in Identities : Of(t, i) => t \in started
  BY DEF Apart
<1>2. \A i, j \in Identities : Of(t, i) /\ Of(t, j) => i = j
  BY DEF Apart
<1>3. QED
  BY <1>1, <1>2

\* As long as nothing becomes known, they stay apart too.
LEMMA ApartStays ==
    ASSUME Apart, started \subseteq started',
           \A t \in CodexThreads : \A i \in Identities : Of(t, i)' => Of(t, i)
    PROVE  Apart'
BY DEF Apart

\* What a step that replaces one call, and cached and bound sessions by known
\* ones, makes known.
LEMMA KnownAfter ==
    ASSUME NEW k \in Callers, \A j \in Callers \ {k} : call'[j] = call[j],
           NEW t \in CodexThreads, NEW i \in Identities, Of(t, i)'
    PROVE  \/ Of(t, i)
           \/ call'[k].id = i /\ call'[k].thread = t
           \/ live'[i] = t /\ live'[i] # live[i]
           \/ bound'[i] = t /\ bound'[i] # bound[i]
<1>1. ASSUME NEW j \in Callers, call'[j].id = i, call'[j].thread = t
      PROVE  Of(t, i) \/ (call'[k].id = i /\ call'[k].thread = t)
  <2>1. CASE j = k
    BY <1>1, <2>1
  <2>2. CASE j # k
    BY <1>1, <2>2 DEF Of
  <2>3. QED
    BY <2>1, <2>2
<1>2. QED
  BY <1>1 DEF Of

\* The resumption of a session settles: the caller holds the thread, or will
\* start a new one.
LEMMA ResumeKeeps ==
    ASSUME SessionsOK, NEW k \in Callers, ResumeSettles(k)
    PROVE  SessionsOK'
<1> DEFINE id == call[k].id
           thread == call[k].thread
           tracked == call[k].step = "resumeLive"
<1>1. SessionTypeOK /\ Named /\ Alone /\ Apart /\ Fresh
  BY DEF SessionsOK
<1>2. /\ call[k].step \in {"resumeLive", "resumeBound"}
      /\ UNCHANGED <<bound, cached, generation, started, archived, overlapped>>
  BY DEF ResumeSettles
<1>3. id \in Identities /\ thread \in CodexThreads /\ thread # None /\ Working(k, id)
  BY <1>1, <1>2, SessionAssumption DEF Named, Awaits, Holding, Working
<1>4. PICK c : /\ call' = [call EXCEPT ![k] = c]
               /\ \/ /\ c = [step |-> IF tracked THEN "ready" ELSE "resumed",
                             id |-> id, thread |-> thread]
                     /\ live' = live
                     /\ since' = [since EXCEPT ![thread] = generation]
                     /\ overtaken' = overtaken \ {thread}
                     /\ faults' = faults
                  \/ /\ c = [step |-> "starting", id |-> id, thread |-> None]
                     /\ live' = IF tracked THEN [live EXCEPT ![id] = None] ELSE live
                     /\ since' = since /\ overtaken' = overtaken
                     /\ faults' = faults \/ Fault
  BY DEF ResumeSettles, Goes
<1>5. /\ c.id = id
      /\ \/ c.step \in {"ready", "resumed"} /\ c.thread = thread
         \/ c.step = "starting" /\ c.thread = None
      /\ c \in [step : Awaits \cup {"idle", "ready", "archived", "failed"},
                id : Identities \cup {None}, thread : CodexThreads \cup {None}]
  BY <1>3, <1>4 DEF Awaits
<1>6. id \notin overlapped => thread = bound[id] /\ (live[id] # None => live[id] = bound[id])
  BY <1>1, <1>2, <1>3 DEF Alone, Holding
<1>7. /\ \A i \in Identities \ {id} : live'[i] = live[i]
      /\ live'[id] \in {live[id], None}
      /\ live' \in [Identities -> CodexThreads \cup {None}]
  BY <1>1, <1>3, <1>4, <1>5 DEF SessionTypeOK
<1> HIDE DEF id, thread, tracked
<1>8. SessionTypeOK'
  <2>1. faults' \in 0..MaxFaults
    BY <1>1, <1>4, SessionAssumption DEF Fault, SessionTypeOK
  <2>2. since' \in [CodexThreads -> 0..generation] /\ overtaken' \subseteq CodexThreads
    BY <1>1, <1>3, <1>4, SessionAssumption DEF SessionTypeOK
  <2>3. call' \in [Callers -> [step : Awaits \cup {"idle", "ready", "archived", "failed"},
                               id : Identities \cup {None}, thread : CodexThreads \cup {None}]]
    BY <1>1, <1>4, <1>5 DEF SessionTypeOK
  <2>4. QED
    BY <1>1, <1>2, <1>7, <2>1, <2>2, <2>3 DEF SessionTypeOK
<1>9. Named'
  BY <1>1, <1>3, <1>4, <1>5, CallReplaced DEF Named, Holding, Awaits
<1>10. Alone'
  <2>1. id \notin overlapped =>
            /\ c.step \in Holding => c.thread = bound'[id]
            /\ live'[id] # None => live'[id] = bound'[id]
    BY <1>2, <1>5, <1>6, <1>7 DEF Holding
  <2>2. \A i \in Identities \ {id} : bound'[i] = bound[i] /\ live'[i] \in {live[i], None}
    BY <1>2, <1>7
  <2>3. QED
    BY <1>1, <1>2, <1>3, <1>4, <1>5, <2>1, <2>2, AloneSettles
<1>11. Apart'
  <2>1. ASSUME NEW t \in CodexThreads, NEW i \in Identities, Of(t, i)'
        PROVE  Of(t, i)
    <3>1. Of(thread, id) /\ t # None
      BY SessionAssumption DEF Of, id, thread
    <3>2. \/ Of(t, i)
          \/ c.id = i /\ c.thread = t
          \/ live'[i] = t /\ live'[i] # live[i]
      <4>1. call'[k] = c /\ \A j \in Callers \ {k} : call'[j] = call[j]
        BY <1>1, <1>4, CallReplaced
      <4>2. QED
        BY <1>2, <2>1, <4>1, KnownAfter
    <3>3. QED
      BY <1>5, <1>7, <3>1, <3>2
  <2>2. QED
    BY <1>1, <1>2, <2>1, ApartStays
<1>12. Fresh'
  <2> SUFFICES ASSUME NEW i \in Identities, live'[i] # None
               PROVE  since'[live'[i]] >= cached \/ live'[i] \in overtaken'
    BY <1>2 DEF Fresh
  <2>1. live'[i] \in CodexThreads /\ live'[i] = live[i]
    BY <1>7
  <2>2. since[live[i]] >= cached \/ live[i] \in overtaken
    BY <1>1, <2>1 DEF Fresh
  <2>3. generation >= cached
    BY <1>1, SessionAssumption DEF SessionTypeOK
  <2>4. CASE since' = [since EXCEPT ![thread] = generation] /\ overtaken' = overtaken \ {thread}
    BY <1>1, <1>3, <2>1, <2>2, <2>3, <2>4 DEF SessionTypeOK
  <2>5. CASE since' = since /\ overtaken' = overtaken
    BY <2>1, <2>2, <2>5
  <2>6. QED
    BY <1>4, <2>4, <2>5
<1>13. QED
  BY <1>8, <1>9, <1>10, <1>11, <1>12 DEF SessionsOK

\* A caller goes on with its thread, which is cached and, when it is new, bound.
LEMMA CachedKeeps ==
    ASSUME SessionsOK, NEW k \in Callers, CacheResumed(k) \/ BindStarted(k)
    PROVE  SessionsOK'
<1>1. SessionTypeOK /\ Named /\ Alone /\ Apart /\ Fresh
  BY DEF SessionsOK
<1>2. PICK id, thread : id = call[k].id /\ thread = call[k].thread
  OBVIOUS
<1>3. /\ call[k].step \in {"resumed", "created"}
      /\ UNCHANGED <<generation, started, archived, since, overlapped, faults>>
      /\ overtaken' = IF since[thread] < cached' THEN overtaken \cup {thread} ELSE overtaken
  BY <1>2 DEF CacheResumed, BindStarted, Caches
<1>4. id \in Identities /\ thread \in CodexThreads /\ thread # None /\ Working(k, id)
  BY <1>1, <1>2, <1>3, SessionAssumption DEF Named, Awaits, Holding, Working
<1>5. PICK c : /\ c = [step |-> "ready", id |-> id, thread |-> thread]
               /\ call' = [call EXCEPT ![k] = c]
  BY <1>2 DEF CacheResumed, BindStarted, Goes
<1>6. c.id = id /\ c.step = "ready" /\ c.thread = thread /\ c \in Calls
  BY <1>4, <1>5 DEF Calls
<1>7. /\ live'[id] = thread /\ live' \in [Identities -> CodexThreads \cup {None}]
      /\ bound' \in [Identities -> CodexThreads \cup {None}] /\ cached' \in 0..generation
      /\ \A i \in Identities \ {id} :
            /\ bound'[i] = bound[i] /\ live'[i] \in {live[i], None}
            /\ live'[i] # None => cached' = cached
      /\ bound'[id] \in {bound[id], thread}
      /\ id \notin overlapped => bound'[id] = thread
  <2>1. CASE CacheResumed(k)
    <3>1. /\ live' = [live EXCEPT ![id] = thread] /\ UNCHANGED <<bound, cached>>
          /\ call[k].step = "resumed"
      BY <1>2, <2>1 DEF CacheResumed
    <3>2. id \notin overlapped => thread = bound[id]
      BY <1>1, <1>2, <1>4, <3>1 DEF Alone, Holding
    <3>3. QED
      BY <1>1, <1>4, <3>1, <3>2 DEF SessionTypeOK
  <2>2. CASE BindStarted(k)
    <3>1. /\ live' = [Synced EXCEPT ![id] = thread] /\ cached' = generation
          /\ bound' = [bound EXCEPT ![id] = thread]
      BY <1>2, <2>2 DEF BindStarted, Bind, StoreBinding
    <3>2. cached' \in 0..generation
      BY <1>1, <3>1, SessionAssumption DEF SessionTypeOK
    <3>3. QED
      BY <1>1, <1>4, <3>1, <3>2, SyncedCache DEF SessionTypeOK
  <2>3. QED
    BY <2>1, <2>2
<1>8. SessionTypeOK'
  <2>1. call' \in [Callers -> Calls]
    BY <1>1, <1>5, <1>6 DEF SessionTypeOK, Calls
  <2>2. overtaken' \subseteq CodexThreads
    BY <1>1, <1>3, <1>4 DEF SessionTypeOK
  <2>3. QED
    BY <1>1, <1>3, <1>7, <2>1, <2>2 DEF SessionTypeOK, Calls
<1>9. Named'
  BY <1>1, <1>4, <1>5, <1>6, CallReplaced DEF Named, Holding, Awaits
<1>10. Alone'
  BY <1>1, <1>3, <1>4, <1>5, <1>6, <1>7, AloneSettles
<1>11. Apart'
  <2>1. ASSUME NEW t \in CodexThreads, NEW i \in Identities, Of(t, i)'
        PROVE  Of(t, i)
    <3>1. Of(thread, id) /\ t # None
      BY <1>2, SessionAssumption DEF Of
    <3>2. \/ Of(t, i)
          \/ c.id = i /\ c.thread = t
          \/ live'[i] = t /\ live'[i] # live[i]
          \/ bound'[i] = t /\ bound'[i] # bound[i]
      <4>1. call'[k] = c /\ \A j \in Callers \ {k} : call'[j] = call[j]
        BY <1>1, <1>5, CallReplaced
      <4>2. QED
        BY <2>1, <4>1, KnownAfter
    <3>3. QED
      BY <1>6, <1>7, <3>1, <3>2
  <2>2. QED
    BY <1>1, <1>3, <2>1, ApartStays
<1>12. Fresh'
  <2> SUFFICES ASSUME NEW i \in Identities, live'[i] # None
               PROVE  since[live'[i]] >= cached' \/ live'[i] \in overtaken'
    BY <1>3 DEF Fresh
  <2>1. CASE i = id
    <3>1. since[thread] \in Nat /\ cached' \in Nat
      BY <1>1, <1>4, <1>7, SessionAssumption DEF SessionTypeOK
    <3>2. since[thread] >= cached' \/ thread \in overtaken'
      BY <1>3, <3>1
    <3>3. QED
      BY <1>7, <2>1, <3>2
  <2>2. CASE i # id
    <3>1. live'[i] = live[i] /\ cached' = cached
      BY <1>7, <2>2
    <3>2. since[live[i]] >= cached \/ live[i] \in overtaken
      BY <1>1, <3>1 DEF Fresh
    <3>3. overtaken \subseteq overtaken'
      BY <1>3
    <3>4. QED
      BY <3>1, <3>2, <3>3
  <2>3. QED
    BY <2>1, <2>2
<1>13. QED
  BY <1>8, <1>9, <1>10, <1>11, <1>12 DEF SessionsOK

\* The server starts a thread for a caller, or refuses to.
LEMMA StartKeeps ==
    ASSUME SessionsOK, NEW k \in Callers, StartSettles(k)
    PROVE  SessionsOK'
<1> DEFINE id == call[k].id
<1>1. SessionTypeOK /\ Named /\ Alone /\ Apart /\ Fresh
  BY DEF SessionsOK
<1>2. /\ call[k].step = "starting"
      /\ UNCHANGED <<live, bound, cached, generation, archived, overtaken, overlapped>>
  BY DEF StartSettles
<1>3. id \in Identities /\ Working(k, id)
  BY <1>1, <1>2 DEF Named, Awaits, Working
<1>4. CASE faults' = faults
  <2>1. PICK new \in CodexThreads \ started :
            /\ started' = started \cup {new}
            /\ since' = [since EXCEPT ![new] = generation]
            /\ Goes(k, "created", id, new)
    BY <1>4 DEF StartSettles, Fault, NewThreads, SessionsOK, SessionTypeOK
  <2>0. PICK c : c = [step |-> "created", id |-> id, thread |-> new]
    OBVIOUS
  <2>2. call' = [call EXCEPT ![k] = c]
    BY <2>0, <2>1 DEF Goes
  <2>3. /\ c.id = id /\ c.step = "created" /\ c.thread = new
        /\ c \in [step : Awaits \cup {"idle", "ready", "archived", "failed"},
                  id : Identities \cup {None}, thread : CodexThreads \cup {None}]
    BY <1>3, <2>0, <2>1 DEF Awaits
  <2> HIDE DEF id
  <2>5. SessionTypeOK'
    <3>1. since' \in [CodexThreads -> 0..generation]
      BY <1>1, <2>1, SessionAssumption DEF SessionTypeOK
    <3>2. call' \in [Callers -> [step : Awaits \cup {"idle", "ready", "archived", "failed"},
                                 id : Identities \cup {None}, thread : CodexThreads \cup {None}]]
      BY <1>1, <2>2, <2>3 DEF SessionTypeOK
    <3>3. QED
      BY <1>1, <1>2, <1>4, <2>1, <3>1, <3>2 DEF SessionTypeOK
  <2>6. Named'
    BY <1>1, <1>3, <2>1, <2>2, <2>3, CallReplaced DEF Named, Holding, Awaits
  <2>7. Alone'
    <3>1. id \notin overlapped => /\ c.step \in Holding => c.thread = bound'[id]
                                  /\ live'[id] # None => live'[id] = bound'[id]
      BY <1>1, <1>2, <1>3, <2>3 DEF Holding, Alone
    <3>2. QED
      BY <1>1, <1>2, <1>3, <2>2, <2>3, <3>1, AloneSettles
  <2>8. Apart'
    <3>1. ASSUME NEW t \in CodexThreads, NEW i \in Identities, Of(t, i)'
          PROVE  Of(t, i) \/ (t \in {new} /\ i = id)
      <4>1. call'[k] = c /\ \A j \in Callers \ {k} : call'[j] = call[j]
        BY <1>1, <2>2, CallReplaced
      <4>2. Of(t, i) \/ (c.id = i /\ c.thread = t)
        BY <1>2, <3>1, <4>1, KnownAfter
      <4>3. QED
        BY <2>3, <4>2
    <3>2. started \subseteq started' /\ {new} \subseteq started' /\ {new} \cap started = {}
      BY <2>1
    <3>3. QED
      BY <1>1, <3>1, <3>2, ApartKept
  <2>9. Fresh'
    <3> SUFFICES ASSUME NEW i \in Identities, live[i] # None
                 PROVE  since'[live[i]] >= cached \/ live[i] \in overtaken
      BY <1>2 DEF Fresh
    <3>1. live[i] \in started /\ live[i] \in CodexThreads
      BY <1>1 DEF Apart, Of, SessionTypeOK
    <3>2. since'[live[i]] = since[live[i]]
      BY <1>1, <2>1, <3>1 DEF SessionTypeOK
    <3>3. QED
      BY <1>1, <3>2 DEF Fresh
  <2>10. QED
    BY <2>5, <2>6, <2>7, <2>8, <2>9 DEF SessionsOK
<1>5. CASE Fault
  <2> DEFINE c == [step |-> "failed", id |-> id, thread |-> None]
  <2>1. call' = [call EXCEPT ![k] = c] /\ UNCHANGED <<bound, live, cached, started, since>>
    BY <1>1, <1>2, <1>5 DEF StartSettles, Goes, Fault, SessionTypeOK
  <2>2. /\ c.id = id /\ c.step = "failed" /\ c.thread = None
        /\ c \in [step : Awaits \cup {"idle", "ready", "archived", "failed"},
                  id : Identities \cup {None}, thread : CodexThreads \cup {None}]
    BY <1>3
  <2> HIDE DEF id, c
  <2>3. SessionTypeOK'
    <3>1. faults' \in 0..MaxFaults
      BY <1>1, <1>5, SessionAssumption DEF Fault, SessionTypeOK
    <3>2. QED
      BY <1>1, <1>2, <2>1, <2>2, <3>1 DEF SessionTypeOK
  <2>4. Named'
    BY <1>1, <2>1, <2>2, CallReplaced DEF Named, Holding, Awaits
  <2>5. Alone'
    <3>1. id \notin overlapped => /\ c.step \in Holding => c.thread = bound'[id]
                                  /\ live'[id] # None => live'[id] = bound'[id]
      BY <1>1, <1>3, <2>1, <2>2 DEF Holding, Alone
    <3>2. QED
      BY <1>1, <1>2, <1>3, <2>1, <2>2, <3>1, AloneSettles
  <2>6. Apart'
    <3>1. ASSUME NEW t \in CodexThreads, NEW i \in Identities, Of(t, i)'
          PROVE  Of(t, i)
      <4>1. call'[k] = c /\ \A j \in Callers \ {k} : call'[j] = call[j]
        BY <1>1, <2>1, CallReplaced
      <4>2. QED
        BY <2>1, <2>2, <3>1, <4>1, KnownAfter, SessionAssumption
    <3>2. QED
      BY <1>1, <2>1, <3>1, ApartStays
  <2>7. Fresh'
    BY <1>1, <1>2, <2>1 DEF Fresh
  <2>8. QED
    BY <2>3, <2>4, <2>5, <2>6, <2>7 DEF SessionsOK
<1>6. QED
  BY <1>4, <1>5 DEF StartSettles
\* A caller gives a session up, or asks for less than it held.
LEMMA GivingUpKeeps ==
    ASSUME SessionsOK, NEW k \in Callers, NEW c \in Calls, call' = [call EXCEPT ![k] = c],
           c.step \notin Holding \cup {"archiving", "starting", "created"},
           c.step = "unsubscribing" => Working(k, c.id) /\ c.id \in Identities
                                       /\ c.thread # None,
           c.thread # None => c.id = call[k].id /\ c.thread = call[k].thread,
           archived \subseteq archived', archived' \subseteq started', faults' \in 0..MaxFaults,
           UNCHANGED <<bound, live, cached, generation, started, since, overtaken, overlapped>>
    PROVE  SessionsOK'
<1>1. SessionTypeOK /\ Named /\ Alone /\ Apart /\ Fresh
  BY DEF SessionsOK
<1>2. call'[k] = c /\ \A j \in Callers \ {k} : call'[j] = call[j]
  BY <1>1, CallReplaced
<1>3. SessionTypeOK'
  <2>1. call' \in [Callers -> Calls]
    BY <1>1 DEF SessionTypeOK, Calls
  <2>2. QED
    BY <1>1, <2>1 DEF SessionTypeOK, Calls
<1>4. Named'
  <2>1. c.step \in Awaits \cup {"ready"} => c.step = "unsubscribing"
    BY DEF Awaits, Holding
  <2>2. c.thread \in CodexThreads \cup {None}
    BY DEF Calls
  <2>3. QED
    BY <1>1, <1>2, <2>1, <2>2 DEF Named, Holding
<1>5. Alone'
  <2> SUFFICES ASSUME NEW i \in Identities \ overlapped
               PROVE  /\ \A j, l \in Callers : Working(j, i)' /\ Working(l, i)' => j = l
                      /\ \A j \in Callers : call'[j].id = i /\ call'[j].step \in Holding
                                                => call'[j].thread = bound'[i]
                      /\ live'[i] # None => live'[i] = bound'[i]
    BY DEF Alone
  <2>1. /\ \A j, l \in Callers : Working(j, i) /\ Working(l, i) => j = l
        /\ \A j \in Callers : call[j].id = i /\ call[j].step \in Holding
                                  => call[j].thread = bound[i]
        /\ live[i] # None => live[i] = bound[i]
    BY <1>1 DEF Alone
  <2>2. ASSUME NEW j \in Callers, Working(j, i)'
        PROVE  Working(j, i)
    <3>1. CASE j = k
      <4>1. c.id = i /\ c.step = "unsubscribing"
        BY <1>2, <2>2, <3>1 DEF Working, Awaits, Holding
      <4>2. QED
        BY <3>1, <4>1
    <3>2. CASE j # k
      BY <1>2, <2>2, <3>2 DEF Working
    <3>3. QED
      BY <3>1, <3>2
  <2>3. \A j, l \in Callers : Working(j, i)' /\ Working(l, i)' => j = l
    BY <2>1, <2>2
  <2>4. QED
    BY <1>2, <2>1, <2>3
<1>6. Apart'
  <2>1. ASSUME NEW t \in CodexThreads, NEW i \in Identities, Of(t, i)'
        PROVE  Of(t, i)
    <3>1. \/ Of(t, i)
          \/ c.id = i /\ c.thread = t
      BY <1>2, <2>1, KnownAfter
    <3>2. t # None
      BY SessionAssumption
    <3>3. c.id = i /\ c.thread = t => Of(t, i)
      BY <3>2 DEF Of
    <3>4. QED
      BY <3>1, <3>3
  <2>2. QED
    BY <1>1, <2>1, ApartStays
<1>7. Fresh'
  BY <1>1 DEF Fresh
<1>8. QED
  BY <1>3, <1>4, <1>5, <1>6, <1>7 DEF SessionsOK

\* The request to archive a thread settles: the thread is one the server has started.
LEMMA ArchivedKeeps ==
    ASSUME SessionsOK, NEW k \in Callers, ArchiveSettles(k)
    PROVE  SessionsOK'
<1> DEFINE id == call[k].id
           thread == call[k].thread
<1>1. SessionTypeOK /\ Named /\ Alone /\ Apart /\ Fresh
  BY DEF SessionsOK
<1>2. /\ call[k].step = "archiving"
      /\ UNCHANGED <<live, bound, cached, generation, started, since, overtaken, overlapped>>
  BY DEF ArchiveSettles
<1>3. id \in Identities /\ thread \in CodexThreads /\ thread # None /\ Working(k, id)
  BY <1>1, <1>2, SessionAssumption DEF Named, Awaits, Working
<1>4. PICK c : /\ call' = [call EXCEPT ![k] = c]
               /\ \/ c = [step |-> "unsubscribing", id |-> id, thread |-> thread]
                  \/ c = [step |-> "failed", id |-> id, thread |-> thread]
  BY DEF ArchiveSettles, Goes
<1>5. /\ c.id = id /\ c.thread = thread /\ c.step \in {"unsubscribing", "failed"}
      /\ c \in Calls
  BY <1>3, <1>4 DEF Calls, Awaits
<1>6. thread \in started
  BY <1>1, <1>3 DEF Apart, Of
<1>7. archived \subseteq archived' /\ archived' \subseteq started'
  BY <1>1, <1>2, <1>6 DEF ArchiveSettles, SessionTypeOK
<1>8. faults' \in 0..MaxFaults
  BY <1>1, SessionAssumption DEF ArchiveSettles, Fault, SessionTypeOK
<1>9. /\ c.step \notin Holding \cup {"archiving", "starting", "created"}
      /\ c.step = "unsubscribing" => Working(k, c.id) /\ c.id \in Identities
                                     /\ c.thread # None
      /\ c.thread # None => c.id = call[k].id /\ c.thread = call[k].thread
  BY <1>3, <1>5 DEF Holding
<1>10. QED
  BY <1>2, <1>4, <1>5, <1>7, <1>8, <1>9, GivingUpKeeps

\* The row and the cache entry of an archived session go.
LEMMA ForgottenKeeps ==
    ASSUME SessionsOK, NEW k \in Callers, UnsubscribeSettles(k)
    PROVE  SessionsOK'
<1>1. SessionTypeOK /\ Named /\ Alone /\ Apart /\ Fresh
  BY DEF SessionsOK
<1>2. PICK id \in Identities : id = call[k].id /\ Working(k, id)
  BY <1>1 DEF UnsubscribeSettles, Named, Awaits, Working
<1>3. /\ bound' = [bound EXCEPT ![id] = None] /\ live' = [live EXCEPT ![id] = None]
      /\ UNCHANGED <<cached, generation, started, archived, since, overtaken, overlapped, faults>>
  BY <1>2 DEF UnsubscribeSettles, Forget
<1>4. PICK c : /\ call' = [call EXCEPT ![k] = c]
               /\ c = [step |-> "archived", id |-> id, thread |-> call[k].thread]
  BY <1>2 DEF UnsubscribeSettles, Goes
<1>5. c \in Calls /\ c.id = id /\ c.step = "archived" /\ c.thread = call[k].thread
  BY <1>1, <1>4 DEF Calls, SessionTypeOK
<1>6. /\ bound'[id] = None /\ live'[id] = None
      /\ \A i \in Identities \ {id} : bound'[i] = bound[i] /\ live'[i] = live[i]
      /\ bound' \in [Identities -> CodexThreads \cup {None}]
      /\ live' \in [Identities -> CodexThreads \cup {None}]
  BY <1>1, <1>3 DEF SessionTypeOK
<1>7. call'[k] = c /\ \A j \in Callers \ {k} : call'[j] = call[j]
  BY <1>1, <1>4, CallReplaced
<1>8. SessionTypeOK'
  <2>1. call' \in [Callers -> Calls]
    BY <1>1, <1>4, <1>5 DEF SessionTypeOK, Calls
  <2>2. QED
    BY <1>1, <1>3, <1>6, <2>1 DEF SessionTypeOK, Calls
<1>9. Named'
  BY <1>1, <1>5, <1>7 DEF Named, Holding, Awaits
<1>10. Alone'
  <2>1. c.step \notin Holding
    BY <1>5 DEF Holding
  <2>2. QED
    BY <1>1, <1>2, <1>3, <1>4, <1>5, <1>6, <2>1, AloneSettles
<1>11. Apart'
  <2>1. ASSUME NEW t \in CodexThreads, NEW i \in Identities, Of(t, i)'
        PROVE  Of(t, i)
    <3>1. t # None
      BY SessionAssumption
    <3>2. \/ Of(t, i)
          \/ c.id = i /\ c.thread = t
          \/ live'[i] = t /\ live'[i] # live[i]
          \/ bound'[i] = t /\ bound'[i] # bound[i]
      BY <1>7, <2>1, KnownAfter
    <3>3. c.id = i /\ c.thread = t => Of(t, i)
      BY <1>2, <1>5 DEF Of
    <3>4. QED
      BY <1>6, <3>1, <3>2, <3>3
  <2>2. QED
    BY <1>1, <1>3, <2>1, ApartStays
<1>12. Fresh'
  <2> SUFFICES ASSUME NEW i \in Identities, live'[i] # None
               PROVE  since[live'[i]] >= cached \/ live'[i] \in overtaken
    BY <1>3 DEF Fresh
  <2>1. live'[i] = live[i]
    BY <1>6
  <2>2. QED
    BY <1>1, <2>1 DEF Fresh
<1>13. QED
  BY <1>8, <1>9, <1>10, <1>11, <1>12 DEF SessionsOK

\* A change of the skills changes nothing of the sessions; the cache is stale from then on.
LEMMA SkillsKeep == SessionsOK /\ SkillsChange => SessionsOK'
<1> SUFFICES ASSUME SessionsOK, SkillsChange
             PROVE  SessionsOK'
  OBVIOUS
<1>1. SessionTypeOK /\ Named /\ Alone /\ Apart /\ Fresh
  BY DEF SessionsOK
<1>2. /\ generation < MaxSkillChanges /\ generation' = generation + 1
      /\ UNCHANGED <<live, bound, cached, call, started, archived, since, overtaken, overlapped,
                     faults>>
  BY DEF SkillsChange
<1>3. /\ generation' \in 0..MaxSkillChanges /\ cached' \in 0..generation'
      /\ since' \in [CodexThreads -> 0..generation']
  <2>1. 0..generation \subseteq 0..generation' /\ generation' \in 0..MaxSkillChanges
    BY <1>1, <1>2, SessionAssumption DEF SessionTypeOK
  <2>2. QED
    BY <1>1, <1>2, <2>1 DEF SessionTypeOK
<1>4. SessionTypeOK'
  BY <1>1, <1>2, <1>3 DEF SessionTypeOK
<1>5. Named' /\ Alone' /\ Apart' /\ Fresh'
  BY <1>1, <1>2 DEF Named, Alone, Apart, Fresh, Of, Working
<1>6. QED
  BY <1>4, <1>5 DEF SessionsOK

\* A session call settles.
LEMMA SessionStepKeeps ==
    ASSUME SessionsOK, NEW k \in Callers, SessionStep(k)
    PROVE  SessionsOK'
BY ResumeKeeps, CachedKeeps, StartKeeps, ArchivedKeeps DEF SessionStep

\* No session before anybody asks for one.
LEMMA NoSessions == SessionInit => SessionsOK
<1> SUFFICES ASSUME SessionInit
             PROVE  SessionsOK
  OBVIOUS
<1>1. SessionTypeOK
  BY SessionAssumption DEF SessionInit, SessionTypeOK, NoThreads, NoCall
<1>2. /\ \A i \in Identities : live[i] = None /\ bound[i] = None
      /\ \A k \in Callers : call[k].step = "idle" /\ call[k].thread = None
  BY DEF SessionInit, NoThreads, NoCall
<1>3. Named
  BY <1>2 DEF Named, Holding, Awaits
<1>4. Alone
  BY <1>2 DEF Alone, Holding, Working, Awaits
<1>5. Apart
  BY <1>2, SessionAssumption DEF Apart, Of
<1>6. Fresh
  BY <1>2 DEF Fresh
<1>7. QED
  BY <1>1, <1>3, <1>4, <1>5, <1>6 DEF SessionsOK
\* What a request for a session changes at once.
LEMMA Entered ==
    ASSUME SessionTypeOK, NEW k \in Callers, NEW id \in Identities,
           GetSession(k, id) \/ Archive(k, id)
    PROVE  /\ call'[k].id = id /\ \A j \in Callers \ {k} : call'[j] = call[j]
           /\ call[k].step \in {"idle", "failed"}
           /\ bound' = bound /\ \A i \in Identities : live'[i] \in {live[i], None}
           /\ UNCHANGED <<since, overtaken, generation>>
           /\ overlapped \subseteq overlapped'
           /\ \A i \in Identities : i \notin overlapped' =>
                  i \notin overlapped /\ (i = id => ~Busy(k, id))
           /\ GetSession(k, id) => call'[k].step \in {"resumeLive", "resumeBound", "starting"}
           /\ Archive(k, id) => call'[k].step \in {"archived", "archiving"}
                                /\ (call'[k].step = "archived" => bound[id] = None)
<1>1. /\ GetSession(k, id) => call'[k].step \in {"resumeLive", "resumeBound", "starting"}
      /\ Archive(k, id) => call'[k].step \in {"archived", "archiving"}
                           /\ (call'[k].step = "archived" => bound[id] = None)
  <2>1. GetSession(k, id) => call'[k].step = Source(id)
    BY DEF GetSession, Goes, SessionTypeOK
  <2>2. Source(id) \in {"resumeLive", "resumeBound", "starting"}
    BY DEF Source
  <2>3. Archive(k, id) => call'[k].step \in {"archived", "archiving"}
                          /\ (call'[k].step = "archived" => bound[id] = None)
    BY DEF Archive, Goes, SessionTypeOK
  <2>4. QED
    BY <2>1, <2>2, <2>3
<1>2. call'[k].id = id /\ \A j \in Callers \ {k} : call'[j] = call[j]
  BY DEF GetSession, Archive, Goes, SessionTypeOK
<1>3. /\ call[k].step \in {"idle", "failed"} /\ bound' = bound /\ live' = Synced
      /\ UNCHANGED <<since, overtaken, generation>> /\ Overlap(k, id)
  BY DEF GetSession, Archive
<1>4. \A i \in Identities : live'[i] \in {live[i], None}
  BY <1>3, SyncedCache
<1>5. /\ overlapped \subseteq overlapped'
      /\ \A i \in Identities : i \notin overlapped' =>
             i \notin overlapped /\ (i = id => ~Busy(k, id))
  BY <1>3 DEF Overlap
<1>6. QED
  BY <1>1, <1>2, <1>3, <1>4, <1>5

\* What the settling of a session call changes: nothing of another identity, and
\* nobody turns to one.
LEMMA Settled ==
    ASSUME SessionTypeOK, NEW k \in Callers, SessionStep(k)
    PROVE  /\ call'[k].id = call[k].id /\ \A j \in Callers \ {k} : call'[j] = call[j]
           /\ call[k].step \in Awaits
           /\ call'[k].step \notin {"resumeLive", "resumeBound", "idle"}
           /\ call[k].step = "archiving" => call'[k].step \in {"unsubscribing", "failed"}
           /\ \A i \in Identities \ {call[k].id} :
                  bound'[i] = bound[i] /\ live'[i] \in {live[i], None}
           /\ overlapped' = overlapped
<1>1. /\ call'[k].id = call[k].id
      /\ call'[k].step \in {"ready", "resumed", "starting", "created", "failed", "unsubscribing"}
      /\ call[k].step = "archiving" => call'[k].step \in {"unsubscribing", "failed"}
  <2>1. CASE ResumeSettles(k)
    BY <2>1 DEF ResumeSettles, Goes, SessionTypeOK
  <2>2. CASE StartSettles(k)
    BY <2>2 DEF StartSettles, Goes, SessionTypeOK
  <2>3. CASE ArchiveSettles(k)
    BY <2>3 DEF ArchiveSettles, Goes, SessionTypeOK
  <2>4. CASE CacheResumed(k) \/ BindStarted(k)
    BY <2>4 DEF CacheResumed, BindStarted, Goes, SessionTypeOK
  <2>5. QED
    BY <2>1, <2>2, <2>3, <2>4 DEF SessionStep
<1>2. \A j \in Callers \ {k} : call'[j] = call[j]
  BY DEF SessionStep, ResumeSettles, CacheResumed, StartSettles, BindStarted,
         ArchiveSettles, Goes, SessionTypeOK
<1>3. call[k].step \in Awaits /\ overlapped' = overlapped
  BY DEF SessionStep, ResumeSettles, CacheResumed, StartSettles, BindStarted,
         ArchiveSettles, Awaits
<1>4. \A i \in Identities \ {call[k].id} :
          bound'[i] = bound[i] /\ live'[i] \in {live[i], None}
  <2>1. CASE ResumeSettles(k)
    BY <2>1 DEF ResumeSettles, SessionTypeOK
  <2>2. CASE StartSettles(k) \/ ArchiveSettles(k)
    BY <2>2 DEF StartSettles, ArchiveSettles
  <2>3. CASE CacheResumed(k)
    BY <2>3 DEF CacheResumed, SessionTypeOK
  <2>4. CASE BindStarted(k)
    BY <2>4, SyncedCache DEF BindStarted, Bind, StoreBinding, SessionTypeOK
  <2>5. QED
    BY <2>1, <2>2, <2>3, <2>4 DEF SessionStep
<1>5. QED
  BY <1>1, <1>2, <1>3, <1>4

-----------------------------------------------------------------------------
(***************************************************************************)
(* The override thread on top of them.                                     *)
(***************************************************************************)

\* /override-end only ever archives, and only the write session.
EndsArchive ==
    \A e \in Ends : /\ call[e].step \notin Holding \cup {"starting", "created"}
                    /\ call[e].step \in Awaits => call[e].id = Write

\* Other people's messages are at work on the thread's conversation.
OthersRead == \A k \in Messages \ Opened : ~Working(k, Write)

\* Without an override there is no write session, and nobody on the way to one.
Closed ==
    ~Active /\ Write \notin overlapped =>
        /\ live[Write] = None /\ bound[Write] = None
        /\ \A k \in Callers : ~Working(k, Write)

OverrideOK == SessionsOK /\ TypeOK /\ EndsArchive /\ OthersRead /\ Closed

\* A caller that is through with its session leaves the others as they were.
LEMMA LeavingKeeps ==
    ASSUME SessionsOK, NEW k \in Callers, call' = [call EXCEPT ![k] = NoCall],
           UNCHANGED threadVars, faults' = faults \/ Fault
    PROVE  SessionsOK'
<1>1. SessionTypeOK
  BY DEF SessionsOK
<1>2. /\ NoCall \in Calls /\ NoCall.thread = None
      /\ NoCall.step \notin Holding \cup {"archiving", "starting", "created"}
      /\ NoCall.step # "unsubscribing"
  BY DEF NoCall, Calls, Holding
<1>3. UNCHANGED <<bound, live, cached, generation, started, archived, since, overtaken, overlapped>>
  BY DEF threadVars
<1>4. archived \subseteq archived' /\ archived' \subseteq started'
  BY <1>1, <1>3 DEF SessionTypeOK
<1>5. faults' \in 0..MaxFaults
  BY <1>1, SessionAssumption DEF Fault, SessionTypeOK
<1>6. QED
  BY <1>2, <1>3, <1>4, <1>5, GivingUpKeeps

\* A new process has no calls and an empty cache; the bindings stay.
LEMMA RestartKeeps == SessionsOK /\ Restart => SessionsOK'
<1> SUFFICES ASSUME SessionsOK, Restart
             PROVE  SessionsOK'
  OBVIOUS
<1>1. SessionTypeOK /\ Named /\ Alone /\ Apart /\ Fresh
  BY DEF SessionsOK
<1>2. /\ \A i \in Identities : live'[i] = None
      /\ live' \in [Identities -> CodexThreads \cup {None}]
      /\ generation' = 0 /\ cached' = 0
      /\ UNCHANGED <<bound, started, archived, overlapped, faults>>
      /\ since' \in [CodexThreads -> 0..0] /\ overtaken' = {}
  BY SessionAssumption DEF Restart, NewProcess, NoThreads
<1>3. /\ NoCall \in Calls /\ NoCall.thread = None
      /\ NoCall.step = "idle" /\ NoCall.step \notin Holding \cup Awaits
  BY DEF NoCall, Calls, Holding, Awaits
<1>4. call' \in [Callers -> Calls] /\ \A k \in Callers : call'[k] = NoCall
  BY <1>3 DEF Restart
<1>5. SessionTypeOK'
  BY <1>1, <1>2, <1>4, SessionAssumption DEF SessionTypeOK, Calls
<1>6. Named'
  BY <1>3, <1>4 DEF Named, Holding, Awaits
<1>7. Alone'
  BY <1>2, <1>3, <1>4 DEF Alone, Working, Holding
<1>8. Apart'
  <2>1. ASSUME NEW t \in CodexThreads, NEW i \in Identities, Of(t, i)'
        PROVE  Of(t, i)
    BY <1>2, <1>3, <1>4, <2>1, SessionAssumption DEF Of
  <2>2. QED
    BY <1>1, <1>2, <2>1, ApartStays
<1>9. Fresh'
  BY <1>2 DEF Fresh
<1>10. QED
  BY <1>5, <1>6, <1>7, <1>8, <1>9 DEF SessionsOK
\* What a step of the thread is to the sessions.
LEMMA Moves ==
    ASSUME SessionsOK, [Next]_vars
    PROVE  \/ /\ UNCHANGED <<call, live, bound, overlapped>>
              /\ override' \in {override, "active"}
           \/ \E k \in Callers \ Ends : Route(k) /\ UNCHANGED override
           \/ \E k \in Callers : SessionStep(k) /\ UNCHANGED override
           \/ \E k \in Callers \ Ends : /\ call' = [call EXCEPT ![k] = NoCall]
                                        /\ UNCHANGED <<threadVars, override>>
                                        /\ faults' = faults \/ Fault
           \/ \E e \in Ends : EndOverride(e) \/ EndSettles(e)
           \/ Restart
<1>1. Start \in Callers \ Ends /\ Messages \subseteq Callers \ Ends
  BY CallerAssumption
<1>2. CASE StartOverride
  BY <1>2 DEF StartOverride, Activate, sessionVars, threadVars
<1>3. CASE CopySettles
  BY <1>1, <1>3 DEF CopySettles, sessionVars, threadVars
<1>4. CASE \E m \in Messages : RunMessage(m)
  BY <1>1, <1>4 DEF RunMessage
<1>5. ASSUME NEW k \in Callers \ Ends, CallerStep(k)
      PROVE  \/ /\ UNCHANGED <<call, live, bound, overlapped>>
                /\ override' \in {override, "active"}
             \/ SessionStep(k) /\ UNCHANGED override
             \/ /\ call' = [call EXCEPT ![k] = NoCall]
                /\ UNCHANGED <<threadVars, override>>
                /\ faults' = faults \/ Fault
  BY <1>5 DEF CallerStep, SessionSettles, IntentSettles, AnswerSettles, TurnFails, Leaves, threadVars
<1>6. CASE \E e \in Ends : EndOverride(e) \/ SessionSettles(e) \/ EndSettles(e)
  BY <1>6, CallerAssumption DEF SessionSettles
<1>7. CASE ChangeSkills
  BY <1>7 DEF ChangeSkills, SkillsChange, overrideVars
<1>8. CASE Restart
  BY <1>8
<1>9. CASE UNCHANGED vars
  BY <1>9 DEF vars, sessionVars, threadVars, overrideVars
<1>10. QED
  BY <1>2, <1>3, <1>4, <1>5, <1>6, <1>7, <1>8, <1>9 DEF Next

\* Every step keeps the sessions in order.
LEMMA SessionsStep ==
    ASSUME SessionsOK, [Next]_vars
    PROVE  SessionsOK'
<1>1. /\ Start \in Callers /\ Messages \subseteq Callers /\ Ends \subseteq Callers
      /\ Write \in Identities /\ \A k : Identity(k) \in Identities
  BY CallerAssumption DEF Identity
<1>2. ASSUME NEW k \in Callers, Route(k)
      PROVE  SessionsOK'
  <2>1. Identity(k) \in Identities /\ GetSession(k, Identity(k)) /\ UNCHANGED faults
    BY <1>1, <1>2 DEF Route
  <2>2. QED
    BY <2>1, GetSessionKeeps
<1>3. ASSUME UNCHANGED sessionVars, faults' = faults \/ Fault
      PROVE  SessionsOK'
  <2>1. faults' \in 0..MaxFaults
    BY <1>3, SessionAssumption DEF Fault, SessionsOK, SessionTypeOK
  <2>2. UNCHANGED <<live, bound, cached, generation, started, archived, since, overtaken,
                   overlapped, call>>
    BY <1>3 DEF sessionVars, threadVars
  <2>3. SessionTypeOK' /\ Named' /\ Alone' /\ Apart' /\ Fresh'
    BY <2>1, <2>2
       DEF SessionsOK, SessionTypeOK, Named, Alone, Apart, Fresh, Of, Working
  <2>4. QED
    BY <2>3 DEF SessionsOK
<1>4. CASE StartOverride
  BY <1>3, <1>4 DEF StartOverride
<1>5. CASE CopySettles
  BY <1>1, <1>2, <1>3, <1>5 DEF CopySettles
<1>6. CASE \E m \in Messages : RunMessage(m)
  BY <1>1, <1>2, <1>6 DEF RunMessage
<1>7. ASSUME NEW k \in Callers \ Ends, CallerStep(k)
      PROVE  SessionsOK'
  <2>1. CASE SessionSettles(k)
    BY <2>1, SessionStepKeeps DEF SessionSettles
  <2>2. CASE /\ call' = [call EXCEPT ![k] = NoCall] /\ UNCHANGED threadVars
             /\ faults' = faults \/ Fault
    BY <2>2, LeavingKeeps
  <2>3. CASE UNCHANGED <<call, faults>> /\ UNCHANGED threadVars
    BY <1>3, <2>3 DEF sessionVars
  <2>4. QED
    BY <1>7, <2>1, <2>2, <2>3 DEF CallerStep, IntentSettles, AnswerSettles, TurnFails, Leaves
<1>8. ASSUME NEW e \in Ends, EndOverride(e) \/ SessionSettles(e) \/ EndSettles(e)
      PROVE  SessionsOK'
  <2>1. e \in Callers
    BY <1>1
  <2>2. CASE EndOverride(e)
    <3>1. Archive(e, Write) /\ UNCHANGED faults
      BY <2>2 DEF EndOverride
    <3>2. QED
      BY <1>1, <2>1, <3>1, ArchiveKeeps
  <2>3. CASE SessionSettles(e)
    BY <2>1, <2>3, SessionStepKeeps DEF SessionSettles
  <2>4. CASE EndSettles(e)
    BY <2>1, <2>4, ForgottenKeeps DEF EndSettles
  <2>5. QED
    BY <1>8, <2>2, <2>3, <2>4
<1>9. CASE ChangeSkills
  BY <1>9, SkillsKeep DEF ChangeSkills
<1>10. CASE Restart
  BY <1>10, RestartKeeps
<1>11. CASE UNCHANGED vars
  BY <1>3, <1>11 DEF vars
<1>12. QED
  BY <1>4, <1>5, <1>6, <1>7, <1>8, <1>9, <1>10, <1>11 DEF Next

\* The turns and the row of the override keep their types.
LEMMA OverrideTypeStep ==
    ASSUME TypeOK, SessionTypeOK', [Next]_vars
    PROVE  TypeOK'
<1>1. ASSUME NEW k, NEW where \in Turns, TurnGoes(k, where)
      PROVE  turn' \in [Callers -> Turns]
  BY <1>1 DEF TypeOK, TurnGoes
<1>2. {"none", "copying", "intent", "answer", "done", "failed"} = Turns
  BY DEF Turns
<1>3. ASSUME NEW k, SessionSettles(k)
      PROVE  turn' \in [Callers -> Turns] /\ UNCHANGED <<override, restarts>>
  BY <1>2, <1>3 DEF SessionSettles, TypeOK
<1>4. CASE StartOverride
  BY <1>1, <1>2, <1>4 DEF StartOverride, Activate, TypeOK
<1>5. CASE CopySettles
  BY <1>1, <1>2, <1>5 DEF CopySettles, Route, TypeOK
<1>6. CASE \E m \in Messages : RunMessage(m)
  BY <1>1, <1>2, <1>6 DEF RunMessage, Route, TypeOK
<1>7. CASE \E k \in Callers \ Ends : CallerStep(k)
  BY <1>1, <1>2, <1>3, <1>7
     DEF CallerStep, IntentSettles, AnswerSettles, TurnFails, Leaves, TypeOK
<1>8. CASE \E e \in Ends : EndOverride(e) \/ SessionSettles(e) \/ EndSettles(e)
  <2> PICK e \in Ends : EndOverride(e) \/ SessionSettles(e) \/ EndSettles(e)
    BY <1>8
  <2>1. CASE EndOverride(e)
    BY <1>1, <1>2, <2>1 DEF EndOverride, TypeOK
  <2>2. CASE SessionSettles(e)
    BY <1>3, <2>2 DEF TypeOK
  <2>3. CASE EndSettles(e)
    BY <1>1, <1>2, <2>3 DEF EndSettles, TypeOK
  <2>4. QED
    BY <2>1, <2>2, <2>3
<1>9. CASE ChangeSkills
  BY <1>9 DEF ChangeSkills, overrideVars, TypeOK
<1>10. CASE Restart
  <2>1. turn' \in [Callers -> Turns]
    BY <1>2, <1>10 DEF Restart, TypeOK
  <2>2. restarts' \in 0..MaxRestarts
    BY <1>10, CallerAssumption DEF Restart, TypeOK
  <2>3. QED
    BY <1>10, <2>1, <2>2 DEF Restart, TypeOK
<1>11. CASE UNCHANGED vars
  BY <1>11 DEF vars, overrideVars, TypeOK
<1>12. QED
  BY <1>4, <1>5, <1>6, <1>7, <1>8, <1>9, <1>10, <1>11 DEF Next
\* A caller that has left works on nothing.
LEMMA NobodyAfterLeaving ==
    ASSUME SessionTypeOK, NEW k \in Callers, call' = [call EXCEPT ![k] = NoCall]
    PROVE  /\ \A j \in Callers \ {k} : call'[j] = call[j]
           /\ call'[k].step = "idle" /\ \A i : ~Working(k, i)'
<1>1. call'[k] = NoCall /\ \A j \in Callers \ {k} : call'[j] = call[j]
  BY CallReplaced
<1>2. call'[k].step = "idle"
  BY <1>1 DEF NoCall
<1>3. QED
  BY <1>1, <1>2 DEF Working, Awaits

\* The command only goes on with archiving the write session.
LEMMA EndsStep ==
    ASSUME OverrideOK, [Next]_vars
    PROVE  EndsArchive'
<1> SUFFICES ASSUME NEW e \in Ends
             PROVE  /\ call'[e].step \notin Holding \cup {"starting", "created"}
                    /\ call'[e].step \in Awaits => call'[e].id = Write
  BY DEF EndsArchive
<1>1. /\ SessionTypeOK /\ e \in Callers /\ Write \in Identities
      /\ \A k : Identity(k) \in Identities
  BY CallerAssumption DEF OverrideOK, SessionsOK, Identity
<1>2. /\ call[e].step \notin Holding \cup {"starting", "created"}
      /\ call[e].step \in Awaits => call[e].id = Write
  BY DEF OverrideOK, EndsArchive
<1>3. CASE UNCHANGED call
  BY <1>2, <1>3
<1>4. ASSUME NEW k \in Callers \ Ends, Route(k)
      PROVE  call'[e] = call[e]
  <2>1. GetSession(k, Identity(k)) /\ Identity(k) \in Identities
    BY <1>1, <1>4 DEF Route
  <2>2. \A j \in Callers \ {k} : call'[j] = call[j]
    BY <1>1, <2>1, Entered
  <2>3. QED
    BY <1>1, <2>2
<1>5. ASSUME NEW k \in Callers, SessionStep(k)
      PROVE  /\ call'[e].step \notin Holding \cup {"starting", "created"}
             /\ call'[e].step \in Awaits => call'[e].id = Write
  <2>1. /\ call'[k].id = call[k].id /\ \A j \in Callers \ {k} : call'[j] = call[j]
        /\ call[k].step \in Awaits
        /\ call[k].step = "archiving" => call'[k].step \in {"unsubscribing", "failed"}
    BY <1>1, <1>5, Settled
  <2>2. call[k].step # "unsubscribing"
    BY <1>5 DEF SessionStep, ResumeSettles, CacheResumed, StartSettles, BindStarted,
              ArchiveSettles
  <2>3. CASE k = e
    BY <1>2, <2>1, <2>2, <2>3 DEF Holding, Awaits
  <2>4. CASE k # e
    BY <1>1, <1>2, <2>1, <2>4
  <2>5. QED
    BY <2>3, <2>4
<1>6. ASSUME NEW k \in Callers \ Ends, call' = [call EXCEPT ![k] = NoCall]
      PROVE  call'[e] = call[e]
  BY <1>1, <1>6, NobodyAfterLeaving
<1>7. ASSUME NEW d \in Ends, EndOverride(d) \/ EndSettles(d)
      PROVE  /\ call'[e].step \notin Holding \cup {"starting", "created"}
             /\ call'[e].step \in Awaits => call'[e].id = Write
  <2>1. d \in Callers
    BY CallerAssumption
  <2>2. CASE EndOverride(d)
    <3>1. Archive(d, Write)
      BY <2>2 DEF EndOverride
    <3>2. /\ call'[d].id = Write /\ \A j \in Callers \ {d} : call'[j] = call[j]
          /\ call'[d].step \in {"archived", "archiving"}
      BY <1>1, <2>1, <3>1, Entered
    <3>3. QED
      BY <1>1, <1>2, <3>2 DEF Holding, Awaits
  <2>3. CASE EndSettles(d)
    <3>1. /\ call' = [call EXCEPT ![d] = [step |-> "archived", id |-> call[d].id,
                                          thread |-> call[d].thread]]
      BY <2>3 DEF EndSettles, UnsubscribeSettles, Goes
    <3>2. call'[d].step = "archived" /\ \A j \in Callers \ {d} : call'[j] = call[j]
      BY <1>1, <2>1, <3>1 DEF SessionTypeOK
    <3>3. QED
      BY <1>1, <1>2, <3>2 DEF Holding, Awaits
  <2>4. QED
    BY <1>7, <2>2, <2>3
<1>8. CASE Restart
  BY <1>1, <1>8 DEF Restart, NoCall, Holding, Awaits
<1>9. SessionsOK
  BY DEF OverrideOK
<1>10. QED
  BY <1>2, <1>3, <1>4, <1>5, <1>6, <1>7, <1>8, <1>9, Moves

\* Somebody else's message is never given the write identity.
LEMMA OthersStep ==
    ASSUME OverrideOK, [Next]_vars
    PROVE  OthersRead'
<1> SUFFICES ASSUME NEW m \in Messages \ Opened, Working(m, Write)'
             PROVE  FALSE
  BY DEF OthersRead
<1>1. /\ SessionTypeOK /\ m \in Callers \ Ends /\ Write \in Identities /\ Write # Read
      /\ Identity(m) = Read /\ \A k : Identity(k) \in Identities
  BY CallerAssumption DEF OverrideOK, SessionsOK, Identity, HasOverride
<1>2. ~Working(m, Write) /\ SessionsOK
  BY DEF OverrideOK, OthersRead
<1>3. CASE UNCHANGED call
  BY <1>2, <1>3 DEF Working
<1>4. ASSUME NEW k \in Callers \ Ends, Route(k)
      PROVE  FALSE
  <2>1. GetSession(k, Identity(k)) /\ Identity(k) \in Identities
    BY <1>1, <1>4 DEF Route
  <2>2. call'[k].id = Identity(k) /\ \A j \in Callers \ {k} : call'[j] = call[j]
    BY <1>1, <2>1, Entered
  <2>3. QED
    BY <1>1, <1>2, <2>2 DEF Working
<1>5. ASSUME NEW k \in Callers, SessionStep(k)
      PROVE  FALSE
  <2>1. /\ call'[k].id = call[k].id /\ \A j \in Callers \ {k} : call'[j] = call[j]
        /\ call[k].step \in Awaits
    BY <1>1, <1>5, Settled
  <2>2. QED
    BY <1>1, <1>2, <2>1 DEF Working
<1>6. ASSUME NEW k \in Callers \ Ends, call' = [call EXCEPT ![k] = NoCall]
      PROVE  FALSE
  <2>1. /\ \A j \in Callers \ {k} : call'[j] = call[j]
        /\ call'[k].step = "idle"
    BY <1>1, <1>6, NobodyAfterLeaving
  <2>2. QED
    BY <1>1, <1>2, <2>1 DEF Working, Awaits
<1>7. ASSUME NEW e \in Ends, EndOverride(e) \/ EndSettles(e)
      PROVE  FALSE
  <2>1. e \in Callers
    BY CallerAssumption
  <2>2. \A j \in Callers \ {e} : call'[j] = call[j]
    <3>1. CASE EndOverride(e)
      <4>1. Archive(e, Write)
        BY <3>1 DEF EndOverride
      <4>2. QED
        BY <1>1, <2>1, <4>1, Entered
    <3>2. CASE EndSettles(e)
      BY <1>1, <3>2 DEF EndSettles, UnsubscribeSettles, Goes, SessionTypeOK
    <3>3. QED
      BY <1>7, <3>1, <3>2
  <2>3. QED
    BY <1>1, <1>2, <2>2 DEF Working
<1>8. CASE Restart
  BY <1>1, <1>8 DEF Restart, NoCall, Working, Awaits
<1>9. QED
  BY <1>2, <1>3, <1>4, <1>5, <1>6, <1>7, <1>8, Moves

\* The override ends with the write session; nobody asks for one without it.
LEMMA ClosedStep ==
    ASSUME OverrideOK, [Next]_vars
    PROVE  Closed'
<1> SUFFICES ASSUME override' # "active", Write \notin overlapped'
             PROVE  /\ live'[Write] = None /\ bound'[Write] = None
                    /\ \A k \in Callers : ~Working(k, Write)'
  BY DEF Closed, Active
<1>1. /\ SessionsOK /\ SessionTypeOK /\ Alone /\ Write \in Identities /\ Write # Read
      /\ \A k : Identity(k) \in Identities
  BY CallerAssumption DEF OverrideOK, SessionsOK, Identity
<1>2. ASSUME override # "active", Write \notin overlapped
      PROVE  /\ live[Write] = None /\ bound[Write] = None
             /\ \A k \in Callers : ~Working(k, Write)
  BY <1>2 DEF OverrideOK, Closed, Active
<1>3. CASE UNCHANGED <<call, live, bound, overlapped>> /\ override' \in {override, "active"}
  BY <1>2, <1>3 DEF Working
<1>4. ASSUME NEW k \in Callers \ Ends, Route(k), UNCHANGED override
      PROVE  /\ live'[Write] = None /\ bound'[Write] = None
             /\ \A j \in Callers : ~Working(j, Write)'
  <2>1. GetSession(k, Identity(k)) /\ Identity(k) \in Identities
    BY <1>1, <1>4 DEF Route
  <2>2. Identity(k) = Read
    BY <1>4 DEF Identity, HasOverride, Active
  <2>3. /\ call'[k].id = Read /\ \A j \in Callers \ {k} : call'[j] = call[j]
        /\ bound' = bound /\ \A i \in Identities : live'[i] \in {live[i], None}
        /\ overlapped \subseteq overlapped'
    BY <1>1, <2>1, <2>2, Entered
  <2>4. /\ live[Write] = None /\ bound[Write] = None
        /\ \A j \in Callers : ~Working(j, Write)
    BY <1>2, <1>4, <2>3
  <2>5. QED
    BY <1>1, <2>3, <2>4 DEF Working
<1>5. ASSUME NEW k \in Callers, SessionStep(k), UNCHANGED override
      PROVE  /\ live'[Write] = None /\ bound'[Write] = None
             /\ \A j \in Callers : ~Working(j, Write)'
  <2>1. /\ call'[k].id = call[k].id /\ \A j \in Callers \ {k} : call'[j] = call[j]
        /\ call[k].step \in Awaits
        /\ \A i \in Identities \ {call[k].id} :
               bound'[i] = bound[i] /\ live'[i] \in {live[i], None}
        /\ overlapped' = overlapped
    BY <1>1, <1>5, Settled
  <2>2. /\ live[Write] = None /\ bound[Write] = None
        /\ \A j \in Callers : ~Working(j, Write)
    BY <1>2, <1>5, <2>1
  <2>3. call[k].id # Write
    BY <2>1, <2>2 DEF Working
  <2>4. QED
    BY <1>1, <2>1, <2>2, <2>3 DEF Working
<1>6. ASSUME NEW k \in Callers \ Ends, call' = [call EXCEPT ![k] = NoCall],
             UNCHANGED <<threadVars, override>>
      PROVE  /\ live'[Write] = None /\ bound'[Write] = None
             /\ \A j \in Callers : ~Working(j, Write)'
  <2>1. UNCHANGED <<live, bound, overlapped>>
    BY <1>6 DEF threadVars
  <2>2. /\ \A j \in Callers \ {k} : call'[j] = call[j]
        /\ ~Working(k, Write)'
    BY <1>1, <1>6, NobodyAfterLeaving
  <2>3. QED
    BY <1>2, <1>6, <2>1, <2>2 DEF Working
<1>7. ASSUME NEW e \in Ends, EndOverride(e)
      PROVE  /\ live'[Write] = None /\ bound'[Write] = None
             /\ \A j \in Callers : ~Working(j, Write)'
  <2>1. e \in Callers /\ Archive(e, Write) /\ override = "active"
    BY <1>7, CallerAssumption DEF EndOverride, Active
  <2>2. call'[e].step = "archived"
    BY <1>7, <2>1 DEF EndOverride
  <2>3. /\ bound[Write] = None /\ bound' = bound
        /\ live'[Write] \in {live[Write], None}
        /\ Write \notin overlapped /\ ~Busy(e, Write)
        /\ \A j \in Callers \ {e} : call'[j] = call[j]
    BY <1>1, <2>1, <2>2, Entered
  <2>4. live[Write] # None => live[Write] = bound[Write]
    BY <1>1, <2>3 DEF Alone
  <2>5. QED
    BY <2>2, <2>3, <2>4 DEF Working, Busy, Awaits
<1>8. ASSUME NEW e \in Ends, EndSettles(e)
      PROVE  /\ live'[Write] = None /\ bound'[Write] = None
             /\ \A j \in Callers : ~Working(j, Write)'
  <2>1. /\ e \in Callers /\ UnsubscribeSettles(e) /\ call[e].step = "unsubscribing"
        /\ Write \notin overlapped
    BY <1>8, CallerAssumption DEF EndSettles, UnsubscribeSettles
  <2>2. call[e].id = Write /\ Working(e, Write)
    BY <2>1 DEF OverrideOK, EndsArchive, Working, Awaits
  <2>3. /\ live'[Write] = None /\ bound'[Write] = None
        /\ call'[e].step = "archived" /\ \A j \in Callers \ {e} : call'[j] = call[j]
    BY <1>1, <2>1, <2>2 DEF UnsubscribeSettles, Forget, Goes, SessionTypeOK
  <2>4. \A j \in Callers \ {e} : ~Working(j, Write)
    BY <1>1, <2>1, <2>2 DEF Alone
  <2>5. QED
    BY <2>3, <2>4 DEF Working, Awaits
<1>9. CASE Restart
  <2>1. /\ live'[Write] = None /\ UNCHANGED <<bound, overlapped, override>>
        /\ \A k \in Callers : call'[k].step = "idle"
    BY <1>1, <1>9 DEF Restart, NewProcess, NoThreads, NoCall
  <2>2. QED
    BY <1>2, <2>1 DEF Working, Awaits
<1>10. QED
  BY <1>1, <1>3, <1>4, <1>5, <1>6, <1>7, <1>8, <1>9, Moves
\* The invariant of the override thread: sessions in order, the commands only archive,
\* other people only read, and without an override there is nothing to write with.
THEOREM OverrideInvariant == Spec => []OverrideOK
<1>1. Init => OverrideOK
  <2> SUFFICES ASSUME Init
               PROVE  OverrideOK
    OBVIOUS
  <2>1. SessionsOK
    BY NoSessions DEF Init
  <2>2. TypeOK
    BY <2>1, CallerAssumption DEF Init, TypeOK, Turns, SessionsOK
  <2>3. /\ \A k \in Callers : call[k].step = "idle"
        /\ live[Write] = None /\ bound[Write] = None
    BY CallerAssumption DEF Init, SessionInit, NoCall, NoThreads
  <2>4. EndsArchive /\ OthersRead /\ Closed
    BY <2>3, CallerAssumption DEF EndsArchive, OthersRead, Closed, Working, Holding, Awaits
  <2>5. QED
    BY <2>1, <2>2, <2>4 DEF OverrideOK
<1>2. OverrideOK /\ [Next]_vars => OverrideOK'
  <2> SUFFICES ASSUME OverrideOK, [Next]_vars
               PROVE  OverrideOK'
    OBVIOUS
  <2>1. SessionsOK'
    BY SessionsStep DEF OverrideOK
  <2>2. TypeOK'
    BY <2>1, OverrideTypeStep DEF OverrideOK, SessionsOK
  <2>3. QED
    BY <2>1, <2>2, EndsStep, OthersStep, ClosedStep DEF OverrideOK
<1>3. QED
  BY <1>1, <1>2, PTL DEF Spec

\* Cache, bindings and server agree where callers do not overlap, and nobody but the
\* opener and the command ever works on a write thread (getOrStartSession, archiveSession).
THEOREM SessionInvariant == Spec => []SessionInv
<1>1. OverrideOK => SessionInv
  <2> SUFFICES ASSUME OverrideOK
               PROVE  SessionInv
    OBVIOUS
  <2>1. /\ SessionsOK /\ TypeOK /\ Named /\ Alone /\ Apart /\ EndsArchive /\ OthersRead
    BY DEF OverrideOK, SessionsOK
  <2>2. SessionsAgree
    BY <2>1 DEF SessionsAgree, Alone, Holding
  <2>3. WriteThreadsAreTheOpeners
    <3> SUFFICES ASSUME NEW k \in Callers, call[k].step = "ready",
                        k \notin Opened \cup {Start}, call[k].thread = bound[Write]
                 PROVE  FALSE
      BY DEF WriteThreadsAreTheOpeners
    <3>1. k \notin Ends
      BY <2>1 DEF EndsArchive, Holding
    <3>2. k \in Messages \ Opened
      BY <3>1, CallerAssumption
    <3>3. call[k].id \in Identities /\ call[k].thread \in CodexThreads
      BY <2>1 DEF Named, Holding
    <3>4. call[k].id # Write
      BY <2>1, <3>2 DEF OthersRead, Working
    <3>5. Of(call[k].thread, call[k].id) /\ Of(call[k].thread, Write)
      BY DEF Of
    <3>6. QED
      BY <2>1, <3>3, <3>4, <3>5, CallerAssumption DEF Apart
  <2>4. QED
    BY <2>1, <2>2, <2>3 DEF SessionInv
<1>2. QED
  BY <1>1, OverrideInvariant, PTL

\* An override that has ended leaves no write session to come back to, unless
\* /override-end overlapped with a run.
THEOREM OverrideEndsClosed == Spec => []EndedMeansClosed
<1>1. OverrideOK => EndedMeansClosed
  BY DEF OverrideOK, Closed, Active, EndedMeansClosed
<1>2. QED
  BY <1>1, OverrideInvariant, PTL

\* A write session changes hands only under an override or in an overlap.
THEOREM WritingNeedsOverride == Spec => WriteNeedsOverride
<1>1. OverrideOK /\ [Next]_vars =>
          (bound'[Write] # bound[Write] /\ bound'[Write] # None =>
               override = "active" \/ Write \in overlapped)
  <2> SUFFICES ASSUME OverrideOK, [Next]_vars, bound'[Write] # bound[Write],
                      bound'[Write] # None, override # "active", Write \notin overlapped
               PROVE  FALSE
    OBVIOUS
  <2>1. /\ SessionsOK /\ SessionTypeOK /\ Write \in Identities
        /\ \A k : Identity(k) \in Identities
        /\ \A k \in Callers : ~Working(k, Write)
    BY CallerAssumption DEF OverrideOK, SessionsOK, Identity, Closed, Active
  <2>2. ASSUME NEW k \in Callers \ Ends, Route(k)
        PROVE  bound' = bound
    <3>1. GetSession(k, Identity(k)) /\ Identity(k) \in Identities
      BY <2>1, <2>2 DEF Route
    <3>2. QED
      BY <2>1, <3>1, Entered
  <2>3. ASSUME NEW k \in Callers, SessionStep(k)
        PROVE  bound'[Write] = bound[Write]
    <3>1. /\ call[k].step \in Awaits
          /\ \A i \in Identities \ {call[k].id} : bound'[i] = bound[i]
      BY <2>1, <2>3, Settled
    <3>2. QED
      BY <2>1, <3>1 DEF Working
  <2>4. ASSUME NEW e \in Ends, EndOverride(e) \/ EndSettles(e)
        PROVE  bound'[Write] \in {bound[Write], None}
    BY <2>1, <2>4
       DEF EndOverride, Archive, EndSettles, UnsubscribeSettles, Forget, SessionTypeOK
  <2>5. CASE Restart
    BY <2>5 DEF Restart
  <2>6. CASE \E k \in Callers \ Ends : UNCHANGED <<threadVars, override>>
    BY <2>6 DEF threadVars
  <2>7. QED
    BY <2>1, <2>2, <2>3, <2>4, <2>5, <2>6, Moves
<1>2. QED
  BY <1>1, OverrideInvariant, PTL DEF Spec, WriteNeedsOverride

\* A session is taken from the cache only if its thread knows the present skills, unless
\* their change overtook its start or resumption (syncInvalidationGeneration before every
\* lookup, and in bindSession).
THEOREM CacheKnowsTheSkills == Spec => FreshAfterSkillsChange
<1>1. OverrideOK /\ [Next]_vars => \A k \in Callers : TakenFresh(k)
  <2> SUFFICES ASSUME OverrideOK, [Next]_vars, NEW j \in Callers,
                      call[j].step # "resumeLive", call'[j].step = "resumeLive"
               PROVE  \/ since[call'[j].thread] = generation
                      \/ call'[j].thread \in overtaken
    BY DEF TakenFresh
  <2>1. /\ SessionsOK /\ SessionTypeOK /\ Fresh /\ Write \in Identities
        /\ \A k : Identity(k) \in Identities
    BY CallerAssumption DEF OverrideOK, SessionsOK, Identity
  <2>2. ASSUME NEW k \in Callers \ Ends, Route(k)
        PROVE  \/ since[call'[j].thread] = generation
               \/ call'[j].thread \in overtaken
    <3>1. PICK id \in Identities : GetSession(k, id)
      BY <2>1, <2>2 DEF Route
    <3>2. \A l \in Callers \ {k} : call'[l] = call[l]
      BY <2>1, <3>1, Entered
    <3>3. j = k
      BY <3>2
    <3>4. call'[k].step = Source(id)
      BY <2>1, <3>1 DEF GetSession, Goes, SessionTypeOK
    <3>5. Source(id) = "resumeLive"
      BY <3>3, <3>4
    <3>6. call'[k].thread = Synced[id]
      BY <2>1, <3>1, <3>5 DEF GetSession, Goes, SessionTypeOK
    <3>7. Synced[id] # None
      BY <3>5 DEF Source
    <3>8. generation = cached /\ Synced[id] = live[id] /\ live[id] \in CodexThreads
      BY <2>1, <3>7, SyncedCache DEF SessionTypeOK
    <3>9. since[live[id]] >= generation \/ live[id] \in overtaken
      BY <2>1, <3>7, <3>8 DEF Fresh
    <3>10. since[live[id]] \in 0..generation /\ generation \in Nat
      BY <2>1, <3>8, SessionAssumption DEF SessionTypeOK
    <3>11. QED
      BY <3>3, <3>6, <3>8, <3>9, <3>10
  <2>3. ASSUME NEW k \in Callers, SessionStep(k)
        PROVE  FALSE
    <3>1. /\ \A l \in Callers \ {k} : call'[l] = call[l]
          /\ call'[k].step \notin {"resumeLive", "resumeBound", "idle"}
      BY <2>1, <2>3, Settled
    <3>2. QED
      BY <3>1
  <2>4. ASSUME NEW k \in Callers \ Ends, call' = [call EXCEPT ![k] = NoCall]
        PROVE  FALSE
    <3>1. (\A l \in Callers \ {k} : call'[l] = call[l]) /\ call'[k].step = "idle"
      BY <2>1, <2>4, NobodyAfterLeaving
    <3>2. QED
      BY <3>1
  <2>5. ASSUME NEW e \in Ends, EndOverride(e) \/ EndSettles(e)
        PROVE  FALSE
    <3>1. e \in Callers
      BY CallerAssumption
    <3>2. CASE EndOverride(e)
      <4>1. Archive(e, Write)
        BY <3>2 DEF EndOverride
      <4>2. /\ \A l \in Callers \ {e} : call'[l] = call[l]
            /\ call'[e].step \in {"archived", "archiving"}
        BY <2>1, <3>1, <4>1, Entered
      <4>3. QED
        BY <4>2
    <3>3. CASE EndSettles(e)
      <4>1. /\ \A l \in Callers \ {e} : call'[l] = call[l]
            /\ call'[e].step = "archived"
        BY <2>1, <3>1, <3>3 DEF EndSettles, UnsubscribeSettles, Goes, SessionTypeOK
      <4>2. QED
        BY <4>1
    <3>4. QED
      BY <2>5, <3>2, <3>3
  <2>6. CASE Restart
    BY <2>6 DEF Restart, NoCall
  <2>7. CASE UNCHANGED call
    BY <2>7
  <2>8. QED
    BY <2>1, <2>2, <2>3, <2>4, <2>5, <2>6, <2>7, Moves
<1>2. QED
  BY <1>1, OverrideInvariant, PTL DEF Spec, FreshAfterSkillsChange

=============================================================================
