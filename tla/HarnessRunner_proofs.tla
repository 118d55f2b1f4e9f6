------------------------ MODULE HarnessRunner_proofs ------------------------
(***************************************************************************)
(* What the harness promises about sources and stored knowledge, for any   *)
(* messages, URLs, scopes, places, retry limit and number of faults.       *)
(*                                                                         *)
(* The runs share the tables, which only grow, so a step of one run never  *)
(* takes anything from another; what is left is the course of a single     *)
(* run, which RunsAreSound describes.                                      *)
(***************************************************************************)
EXTENDS HarnessRunner, TLAPS

USE HarnessAssumption DEF Turns, Ends, Outcomes

\* The statements of a write, in their order: text comes before the link to it.
LEMMA TextBeforeLink ==
    ASSUME NEW n \in 0..Len(Statements), Stored("link", n)
    PROVE  n = Len(Statements) /\ Stored("record", n) /\ Stored("text", n)
<1>1. Len(Statements) = 3 /\ Statements[1] = "record" /\ Statements[2] = "text"
      /\ Statements[3] = "link"
  BY DEF Statements
<1>2. n = 3
  BY <1>1 DEF Stored
<1>3. QED
  BY <1>1, <1>2 DEF Stored

\* A write that has come to the text has left the record (persistSource).
LEMMA TextAfterRecord ==
    ASSUME NEW n \in 0..Len(Statements), Stored("text", n)
    PROVE  Stored("record", n)
<1>1. Len(Statements) = 3 /\ Statements[1] = "record" /\ Statements[2] = "text"
      /\ Statements[3] = "link"
  BY DEF Statements
<1>2. n \in {2, 3}
  BY <1>1 DEF Stored
<1>3. QED
  BY <1>1, <1>2 DEF Stored

\* A write that has come to its end has left record, text and link.
LEMMA AllStatementsStored ==
    /\ Len(Statements) = 3
    /\ Stored("record", 3) /\ Stored("text", 3) /\ Stored("link", 3)
<1>1. Len(Statements) = 3 /\ Statements[1] = "record" /\ Statements[2] = "text"
      /\ Statements[3] = "link"
  BY DEF Statements
<1>2. QED
  BY <1>1 DEF Stored

\* What a persistence, complete or cut short, does to the tables.
LEMMA PersistGrows ==
    ASSUME TypeOK, NEW m \in Messages, NEW thread \in Messages,
           NEW n \in 0..Len(Statements), Persist(m, thread, n),
           LinkedKnowledgeHasText
    PROVE  /\ records \subseteq records' /\ texts \subseteq texts' /\ links \subseteq links'
           /\ records' \subseteq Records /\ texts' \subseteq records'
           /\ links' \subseteq [record : Records, msg : Messages, thread : Messages \cup {None}]
           /\ LinkedKnowledgeHasText'
           /\ \A l \in links' \ links : l.thread = thread
           /\ n = Len(Statements) =>
                 \A u \in Approved(m) : \E l \in links' : l.msg = m /\ l.record.url = u
<1> DEFINE new == {[url |-> u, key |-> StoredKey(m)] : u \in Approved(m)}
           newLinks == {[record |-> r, msg |-> m, thread |-> thread] : r \in new}
<1>1. new \subseteq Records
  <2>1. run[m] \in Runs
    BY DEF TypeOK
  <2>2. Approved(m) \subseteq Urls
    BY <2>1 DEF Approved, Runs
  <2>3. QED
    BY <2>2 DEF Records
<1>2. newLinks \subseteq [record : Records, msg : Messages, thread : Messages \cup {None}]
  BY <1>1
<1>3. /\ records' = IF Stored("record", n) THEN records \cup new ELSE records
      /\ texts' = IF Stored("text", n) THEN texts \cup new ELSE texts
      /\ links' = IF Stored("link", n) THEN links \cup newLinks ELSE links
  BY DEF Persist
<1> HIDE DEF new
<1>4. texts' \subseteq records'
  BY <1>3, TextAfterRecord DEF TypeOK
<1>5. LinkedKnowledgeHasText'
  <2>1. CASE Stored("link", n)
    BY <1>3, <2>1, TextBeforeLink DEF LinkedKnowledgeHasText
  <2>2. CASE ~Stored("link", n)
    BY <1>3, <2>2 DEF LinkedKnowledgeHasText
  <2>3. QED
    BY <2>1, <2>2
<1>6. \A l \in links' \ links : l.thread = thread
  BY <1>3
<1>7. ASSUME n = Len(Statements), NEW u \in Approved(m)
      PROVE  \E l \in links' : l.msg = m /\ l.record.url = u
  <2> DEFINE r == [url |-> u, key |-> StoredKey(m)]
             l == [record |-> r, msg |-> m, thread |-> thread]
  <2>1. r \in new
    BY DEF new
  <2>2. l \in links'
    BY <1>3, <1>7, <2>1, AllStatementsStored
  <2>3. l.msg = m /\ l.record.url = u
    OBVIOUS
  <2>4. QED
    BY <2>2, <2>3
<1>8. QED
  BY <1>1, <1>2, <1>3, <1>4, <1>5, <1>6, <1>7 DEF TypeOK

-----------------------------------------------------------------------------
(* The invariant, run by run *)

\* The part of the invariant that is about the tables alone.
TablesInv ==
    /\ threads \subseteq Messages /\ bound \in [Messages -> Sessions]
    /\ texts \subseteq records /\ records \subseteq Records
    /\ links \subseteq [record : Records, msg : Messages, thread : Messages \cup {None}]
    /\ cut \subseteq Messages /\ estranged \subseteq Messages /\ faults \in 0..MaxFaults
    /\ LinkedKnowledgeHasText

\* The part that is about one run.
Own(m, cites, writes, seen, linked) ==
    \A s \in cites \cup writes :
        IF s \in Urls THEN s \in seen
        ELSE /\ s \in records
             /\ s.key \in VisibleKeys(m) \/ s \in linked

SourcesAreOwn(m) ==
    run[m].at \in {"routed", "thread", "send"} =>
        Own(m, run[m].cites, run[m].writes, run[m].seen, run[m].linked)

WritesAreLinked(m) ==
    m \notin cut /\ run[m].at = "send" /\ run[m].out = "ingest" /\ RootOfKnowledge(m) =>
        \A u \in run[m].writes : \E l \in links : l.msg = m /\ l.record.url = u

CourseIsSound(m) ==
    /\ run[m].at = "waiting" => run[m].tries < RetryLimit
    /\ run[m].at \in {"resuming", "starting"} => Home[m] # None
    /\ run[m].facts \subseteq MessageUrls[m]
    /\ run[m].at \in {"resuming", "starting", "asked"} \cup Turns =>
          run[m].cites = {} /\ run[m].writes = {}
    /\ run[m].writes # {} => run[m].facts # {}
    /\ run[m].at = "thread" => OpensThread(m) /\ m \in threads
    /\ run[m].at \in {"routed", "thread"} /\ run[m].out = "ingest" /\ RootOfKnowledge(m) =>
          run[m].writes \subseteq evidence[m]
    /\ run[m].at = "routed" /\ m \in Directed /\ FollowUp(m) => Visible(run[m].out)
    /\ m \in Directed /\ FollowUp(m) => run[m].at # "silent"

ContextIsKept(m) ==
    /\ run[m].linked \subseteq LinkedTo(Home[m])
    /\ run[m].linked # {} => run[m].session = "ingest" \/ Home[m] \in estranged

MessageInv(m) ==
    /\ run[m] \in Runs /\ evidence[m] \in (SUBSET Urls) \cup {{None}}
    /\ CourseIsSound(m) /\ ContextIsKept(m) /\ SourcesAreOwn(m) /\ WritesAreLinked(m)

ByMessage ==
    /\ TablesInv /\ LinkedThreadsAreBound
    /\ run = [m \in Messages |-> run[m]] /\ evidence = [m \in Messages |-> evidence[m]]
    /\ \A m \in Messages : MessageInv(m)

\* The invariant speaks of each message by itself, and of the tables.
LEMMA InvByMessage == HarnessInv <=> ByMessage
<1>1. TypeOK <=>
        /\ run = [m \in Messages |-> run[m]] /\ evidence = [m \in Messages |-> evidence[m]]
        /\ \A m \in Messages : run[m] \in Runs /\ evidence[m] \in (SUBSET Urls) \cup {{None}}
        /\ threads \subseteq Messages /\ bound \in [Messages -> Sessions]
        /\ texts \subseteq records /\ records \subseteq Records
        /\ links \subseteq [record : Records, msg : Messages, thread : Messages \cup {None}]
        /\ cut \subseteq Messages /\ estranged \subseteq Messages /\ faults \in 0..MaxFaults
  BY DEF TypeOK
<1>2. OnlyOwnSourcesAreSent <=> \A m \in Messages : SourcesAreOwn(m)
  BY DEF OnlyOwnSourcesAreSent, SourcesAreOwn, Own
<1>3. RunsAreSound /\ DirectedFollowUpIsAnswered /\ SourceSessionIsKept <=>
        \A m \in Messages : CourseIsSound(m) /\ ContextIsKept(m)
  BY DEF RunsAreSound, DirectedFollowUpIsAnswered, SourceSessionIsKept, CourseIsSound,
         ContextIsKept
<1>4. ApprovedWritesAreLinked <=> \A m \in Messages : WritesAreLinked(m)
  BY DEF ApprovedWritesAreLinked, WritesAreLinked
<1>5. QED
  BY <1>1, <1>2, <1>3, <1>4 DEF HarnessInv, LinksAreWhole, TablesInv, MessageInv, ByMessage

\* The tables only grow.
Grows ==
    /\ threads \subseteq threads' /\ records \subseteq records' /\ links \subseteq links'
    /\ cut \subseteq cut' /\ estranged \subseteq estranged'

\* A run keeps what it was given, and its session.
LEMMA ContextStays ==
    ASSUME NEW m \in Messages, ContextIsKept(m), Grows,
           run'[m].linked = run[m].linked, run'[m].session = run[m].session
    PROVE  ContextIsKept(m)'
<1>1. LinkedTo(Home[m]) \subseteq LinkedTo(Home[m])'
  BY DEF LinkedTo, Grows
<1>2. QED
  BY <1>1 DEF ContextIsKept, Grows

\* What happens to another run, or to the tables, leaves a run as sound as it was.
LEMMA OthersKeep ==
    ASSUME NEW m \in Messages, MessageInv(m), Grows,
           run'[m] = run[m], evidence'[m] = evidence[m]
    PROVE  MessageInv(m)'
<1>1. CourseIsSound(m)'
  BY DEF MessageInv, CourseIsSound, Grows, OpensThread
<1>2. SourcesAreOwn(m)'
  BY DEF MessageInv, SourcesAreOwn, Own, Grows
<1>3. WritesAreLinked(m)'
  BY DEF MessageInv, WritesAreLinked, Grows
<1>4. ContextIsKept(m)'
  BY ContextStays DEF MessageInv
<1>5. QED
  BY <1>1, <1>2, <1>3, <1>4 DEF MessageInv

\* A run that starts over or ends is sound.
LEMMA FreshIsSound ==
    ASSUME NEW m \in Messages,
           NEW at \in {"waiting"} \cup Ends,
           NEW tries \in 0..RetryLimit, at = "waiting" => tries < RetryLimit,
           m \in Directed /\ FollowUp(m) => at # "silent",
           run'[m] = Fresh(at, tries), evidence'[m] \in (SUBSET Urls) \cup {{None}}
    PROVE  MessageInv(m)'
<1>1. run'[m] \in Runs /\ run'[m].at = at /\ run'[m].tries = tries
      /\ run'[m].facts = {} /\ run'[m].cites = {} /\ run'[m].writes = {}
      /\ run'[m].linked = {}
  <2> DEFINE f == Fresh(at, tries)
  <2>1. f \in Runs /\ f.at = at /\ f.tries = tries /\ f.facts = {} /\ f.cites = {} /\ f.writes = {}
        /\ f.linked = {}
    BY DEF Fresh, Runs, Sessions
  <2> HIDE DEF f
  <2>2. run'[m] = f
    BY DEF f
  <2>3. QED
    BY <2>1, <2>2
<1>2. CourseIsSound(m)'
  BY <1>1 DEF CourseIsSound, FollowUp, RootOfKnowledge
<1>3. SourcesAreOwn(m)' /\ WritesAreLinked(m)'
  BY <1>1 DEF SourcesAreOwn, Own, WritesAreLinked
<1>4. ContextIsKept(m)'
  BY <1>1 DEF ContextIsKept
<1>5. QED
  BY <1>1, <1>2, <1>3, <1>4 DEF MessageInv

\* A thread with linked knowledge stays bound unless a session is being started for it.
LEMMA BoundStays ==
    ASSUME ByMessage, NEW m \in Messages, NEW r,
           run' = [run EXCEPT ![m] = r], r.at # "starting",
           UNCHANGED <<bound, links, estranged>>
    PROVE  LinkedThreadsAreBound'
<1>1. LinkedThreadsAreBound
  BY DEF ByMessage
<1>2. ASSUME NEW k \in Messages, run[k].at # "starting"
      PROVE  run'[k].at # "starting"
  BY <1>2 DEF ByMessage
<1>3. QED
  BY <1>1, <1>2 DEF LinkedThreadsAreBound

\* A step of one run keeps the invariant when the run and the tables are sound after it.
LEMMA StepOfOne ==
    ASSUME HarnessInv, NEW m \in Messages, NEW r, NEW e,
           run' = [run EXCEPT ![m] = r], evidence' = [evidence EXCEPT ![m] = e],
           Grows, TablesInv', LinkedThreadsAreBound', MessageInv(m)'
    PROVE  HarnessInv'
<1>1. ByMessage
  BY InvByMessage
<1>2. ASSUME NEW k \in Messages, k # m
      PROVE  MessageInv(k)'
  BY <1>1, <1>2, OthersKeep DEF ByMessage
<1>3. /\ run' = [k \in Messages |-> run'[k]] /\ evidence' = [k \in Messages |-> evidence'[k]]
  BY <1>1 DEF ByMessage
<1>4. ByMessage'
  BY <1>2, <1>3 DEF ByMessage
<1>5. QED
  BY <1>4, InvByMessage, PTL

\* A step that leaves the tables alone keeps what is known of them.
LEMMA TablesKept ==
    ASSUME TablesInv, UNCHANGED tables, UNCHANGED faults \/ Fault
    PROVE  TablesInv' /\ Grows
  BY DEF TablesInv, tables, sessions, stored, Grows, Fault, LinkedKnowledgeHasText

\* A step that ends a run, or has it start over, and touches no table.
LEMMA EndOfOne ==
    ASSUME HarnessInv, NEW m \in Messages,
           NEW at \in {"waiting"} \cup Ends,
           Ended(m, at), at = "waiting" => run[m].tries < RetryLimit,
           m \in Directed /\ FollowUp(m) => at # "silent",
           UNCHANGED <<evidence, tables>>, UNCHANGED faults \/ Fault
    PROVE  HarnessInv'
<1>1. ByMessage
  BY InvByMessage
<1>2. run[m] \in Runs /\ evidence[m] \in (SUBSET Urls) \cup {{None}}
  BY <1>1 DEF ByMessage, MessageInv
<1>3. run' = [run EXCEPT ![m] = Fresh(at, run[m].tries)]
      /\ evidence' = [evidence EXCEPT ![m] = evidence[m]]
  BY <1>1 DEF Ended, Becomes, ByMessage
<1>4. run'[m] = Fresh(at, run[m].tries) /\ evidence'[m] = evidence[m]
  BY <1>1, <1>3 DEF ByMessage
<1>5. run[m].tries \in 0..RetryLimit
  BY <1>2 DEF Runs
<1>6. MessageInv(m)'
  BY <1>2, <1>4, <1>5, FreshIsSound
<1>7. TablesInv' /\ Grows
  BY <1>1, TablesKept DEF ByMessage
<1>8. LinkedThreadsAreBound'
  <2> DEFINE f == Fresh(at, run[m].tries)
  <2>1. f.at # "starting"
    BY DEF Fresh
  <2> HIDE DEF f
  <2>2. run' = [run EXCEPT ![m] = f]
    BY <1>3 DEF f
  <2>3. QED
    BY <1>1, <2>1, <2>2, BoundStays DEF tables, sessions, stored
<1>9. QED
  BY <1>3, <1>6, <1>7, <1>8, StepOfOne

\* A step that takes a run on and touches no table.
LEMMA StepWithoutTables ==
    ASSUME HarnessInv, NEW m \in Messages, NEW r, NEW e,
           run' = [run EXCEPT ![m] = r], evidence' = [evidence EXCEPT ![m] = e],
           UNCHANGED tables, UNCHANGED faults,
           r \in Runs, e \in (SUBSET Urls) \cup {{None}},
           r.at # "starting", r.linked = run[m].linked, r.session = run[m].session,
           run'[m] = r /\ evidence'[m] = e =>
              CourseIsSound(m)' /\ SourcesAreOwn(m)' /\ WritesAreLinked(m)'
    PROVE  HarnessInv'
<1>1. ByMessage
  BY InvByMessage
<1>2. run'[m] = r /\ evidence'[m] = e
  BY <1>1 DEF ByMessage
<1>3. TablesInv' /\ Grows
  BY <1>1, TablesKept DEF ByMessage
<1>4. ContextIsKept(m)'
  BY <1>1, <1>2, <1>3, ContextStays DEF ByMessage, MessageInv
<1>5. MessageInv(m)'
  BY <1>2, <1>4 DEF MessageInv
<1>6. LinkedThreadsAreBound'
  BY <1>1, BoundStays DEF tables, sessions, stored
<1>7. QED
  BY <1>3, <1>5, <1>6, StepOfOne

\* A run begins with what is linked to its thread, in the session the thread is bound to.
LEMMA BeginStep ==
    ASSUME HarnessInv, NEW m \in Messages, Begin(m)
    PROVE  HarnessInv'
<1> DEFINE at == IF Home[m] = None THEN "asked"
                 ELSE IF Conversation(m) = "none" THEN "starting" ELSE "resuming"
           f == Fresh(at, run[m].tries + 1)
           r == [f EXCEPT !.linked = LinkedTo(Home[m]), !.session = Conversation(m)]
<1>1. ByMessage
  BY InvByMessage
<1>2. run[m] \in Runs /\ run[m].tries < RetryLimit
  BY <1>1 DEF Begin, ByMessage, MessageInv, CourseIsSound
<1>3. run[m].tries + 1 \in 0..RetryLimit
  <2>1. run[m].tries \in 0..RetryLimit
    BY <1>2 DEF Runs
  <2>2. QED
    BY <1>2, <2>1
<1>4. LinkedTo(Home[m]) \subseteq Records
  BY <1>1 DEF LinkedTo, ByMessage, TablesInv
<1>5. Conversation(m) \in Sessions
  BY <1>1 DEF Conversation, ByMessage, TablesInv, Sessions
<1>6. /\ at \in {"asked", "starting", "resuming"}
      /\ at # "asked" => Home[m] # None
      /\ at = "starting" => bound[Home[m]] = "none"
  BY DEF Conversation
<1> HIDE DEF at
<1>7. /\ r \in Runs /\ r.at = at /\ r.facts = {} /\ r.cites = {} /\ r.writes = {}
      /\ r.linked = LinkedTo(Home[m]) /\ r.session = Conversation(m)
  BY <1>3, <1>4, <1>5, <1>6 DEF Fresh, Runs
<1>8. run' = [run EXCEPT ![m] = r]
  BY DEF Begin, Becomes, at
<1> HIDE DEF r
<1>9. evidence' = [evidence EXCEPT ![m] = evidence[m]]
  BY <1>1 DEF Begin, ByMessage
<1>10. run'[m] = r /\ evidence'[m] = evidence[m]
  BY <1>1, <1>8, <1>9 DEF ByMessage
<1>11. TablesInv' /\ Grows /\ UNCHANGED <<bound, links, estranged>>
  <2>1. UNCHANGED tables /\ UNCHANGED faults
    BY DEF Begin
  <2>2. QED
    BY <1>1, <2>1, TablesKept DEF ByMessage, tables, sessions, stored
<1>12. ContextIsKept(m)'
  <2>1. LinkedTo(Home[m])' = LinkedTo(Home[m])
    BY <1>11 DEF LinkedTo
  <2>2. ASSUME LinkedTo(Home[m]) # {}
        PROVE  Conversation(m) = "ingest" \/ Home[m] \in estranged
    <3>1. PICK l \in links : l.thread = Home[m] /\ Home[m] # None
      BY <2>2 DEF LinkedTo
    <3>2. QED
      BY <1>1, <3>1 DEF ByMessage, LinkedThreadsAreBound, Conversation
  <2>3. QED
    BY <1>7, <1>10, <1>11, <2>1, <2>2 DEF ContextIsKept
<1>13. LinkedThreadsAreBound'
  <2>1. ASSUME NEW l \in links, l.thread \notin estranged
        PROVE  /\ l.thread \in Messages /\ bound[l.thread] = "ingest"
               /\ \A k \in Messages : Home[k] = l.thread => run'[k].at # "starting"
    <3>1. /\ l.thread \in Messages /\ bound[l.thread] = "ingest"
          /\ \A k \in Messages : Home[k] = l.thread => run[k].at # "starting"
      BY <1>1, <2>1 DEF ByMessage, LinkedThreadsAreBound
    <3>2. Home[m] = l.thread => r.at # "starting"
      BY <1>6, <1>7, <3>1
    <3>3. QED
      BY <1>1, <1>8, <1>10, <3>1, <3>2 DEF ByMessage
  <2>2. QED
    BY <1>11, <2>1 DEF LinkedThreadsAreBound
<1>14. CourseIsSound(m)' /\ SourcesAreOwn(m)' /\ WritesAreLinked(m)'
  BY <1>6, <1>7, <1>10 DEF CourseIsSound, SourcesAreOwn, WritesAreLinked
<1>15. MessageInv(m)'
  BY <1>1, <1>7, <1>10, <1>12, <1>14 DEF ByMessage, MessageInv
<1>16. QED
  BY <1>8, <1>9, <1>11, <1>13, <1>15, StepOfOne

\* A session is resumed.
LEMMA ResumeStep ==
    ASSUME HarnessInv, NEW m \in Messages, ResumeSettles(m)
    PROVE  HarnessInv'
<1> DEFINE r == [run[m] EXCEPT !.at = "asked"]
<1>1. ByMessage
  BY InvByMessage
<1>2. /\ run[m] \in Runs /\ CourseIsSound(m) /\ run[m].at = "resuming"
      /\ evidence[m] \in (SUBSET Urls) \cup {{None}}
  BY <1>1 DEF ByMessage, MessageInv, ResumeSettles
<1>3. /\ r \in Runs /\ r.at = "asked" /\ r.cites = run[m].cites /\ r.writes = run[m].writes
      /\ r.facts = run[m].facts /\ r.linked = run[m].linked /\ r.session = run[m].session
  BY <1>2 DEF Runs
<1> HIDE DEF r
<1>4. run' = [run EXCEPT ![m] = r] /\ evidence' = [evidence EXCEPT ![m] = evidence[m]]
  BY <1>1 DEF ResumeSettles, Becomes, ByMessage, r
<1>5. ASSUME run'[m] = r
      PROVE  CourseIsSound(m)' /\ SourcesAreOwn(m)' /\ WritesAreLinked(m)'
  BY <1>2, <1>3, <1>5 DEF CourseIsSound, SourcesAreOwn, WritesAreLinked
<1>6. QED
  BY <1>2, <1>3, <1>4, <1>5, StepWithoutTables DEF ResumeSettles

\* A session is not resumed: its thread is estranged before another one takes its place.
LEMMA ResumeFailsStep ==
    ASSUME HarnessInv, NEW m \in Messages, ResumeFails(m)
    PROVE  HarnessInv'
<1> DEFINE r == [run[m] EXCEPT !.at = "starting", !.session = "none"]
<1>1. ByMessage
  BY InvByMessage
<1>2. /\ run[m] \in Runs /\ CourseIsSound(m) /\ ContextIsKept(m) /\ run[m].at = "resuming"
      /\ evidence[m] \in (SUBSET Urls) \cup {{None}} /\ TablesInv /\ LinkedThreadsAreBound
  BY <1>1 DEF ByMessage, MessageInv, ResumeFails
<1>3. /\ r \in Runs /\ r.at = "starting" /\ r.cites = run[m].cites /\ r.writes = run[m].writes
      /\ r.facts = run[m].facts /\ r.linked = run[m].linked
  BY <1>2 DEF Runs, Sessions
<1> HIDE DEF r
<1>4. run' = [run EXCEPT ![m] = r] /\ evidence' = [evidence EXCEPT ![m] = evidence[m]]
  BY <1>1 DEF ResumeFails, Becomes, ByMessage, r
<1>5. run'[m] = r /\ evidence'[m] = evidence[m]
  BY <1>1, <1>4 DEF ByMessage
<1>6. Home[m] \in Messages
  BY <1>2 DEF CourseIsSound
<1>7. /\ estranged' = IF bound[Home[m]] = "ingest" THEN estranged \cup {Home[m]} ELSE estranged
      /\ UNCHANGED <<threads, bound, records, texts, links, cut>> /\ Fault
  BY DEF ResumeFails, stored
<1>8. TablesInv' /\ Grows
  BY <1>2, <1>6, <1>7 DEF TablesInv, Grows, Fault, LinkedKnowledgeHasText
<1>9. \A l \in links : l.thread = Home[m] => l.thread \in estranged'
  BY <1>2, <1>7 DEF LinkedThreadsAreBound
<1>10. ContextIsKept(m)'
  <2>1. LinkedTo(Home[m])' = LinkedTo(Home[m])
    BY <1>7 DEF LinkedTo
  <2>2. run[m].linked # {} => \E l \in links : l.thread = Home[m]
    BY <1>2 DEF ContextIsKept, LinkedTo
  <2>3. QED
    BY <1>2, <1>3, <1>5, <1>9, <2>1, <2>2 DEF ContextIsKept
<1>11. LinkedThreadsAreBound'
  <2>1. \A k \in Messages : k # m => run'[k] = run[k]
    BY <1>1, <1>4 DEF ByMessage
  <2>2. QED
    BY <1>2, <1>7, <1>9, <2>1 DEF LinkedThreadsAreBound
<1>12. CourseIsSound(m)' /\ SourcesAreOwn(m)' /\ WritesAreLinked(m)'
  BY <1>2, <1>3, <1>5 DEF CourseIsSound, SourcesAreOwn, WritesAreLinked
<1>13. MessageInv(m)'
  BY <1>2, <1>3, <1>5, <1>10, <1>12 DEF MessageInv
<1>14. QED
  BY <1>4, <1>8, <1>11, <1>13, StepOfOne

\* A new session is bound: had the thread linked knowledge, it was estranged before.
LEMMA StartStep ==
    ASSUME HarnessInv, NEW m \in Messages, StartSettles(m)
    PROVE  HarnessInv'
<1> DEFINE r == [run[m] EXCEPT !.at = "asked", !.session = "own"]
<1>1. ByMessage
  BY InvByMessage
<1>2. /\ run[m] \in Runs /\ CourseIsSound(m) /\ ContextIsKept(m) /\ run[m].at = "starting"
      /\ evidence[m] \in (SUBSET Urls) \cup {{None}} /\ TablesInv /\ LinkedThreadsAreBound
  BY <1>1 DEF ByMessage, MessageInv, StartSettles
<1>3. /\ r \in Runs /\ r.at = "asked" /\ r.cites = run[m].cites /\ r.writes = run[m].writes
      /\ r.facts = run[m].facts /\ r.linked = run[m].linked
  BY <1>2 DEF Runs, Sessions
<1> HIDE DEF r
<1>4. run' = [run EXCEPT ![m] = r] /\ evidence' = [evidence EXCEPT ![m] = evidence[m]]
  BY <1>1 DEF StartSettles, Becomes, ByMessage, r
<1>5. run'[m] = r /\ evidence'[m] = evidence[m]
  BY <1>1, <1>4 DEF ByMessage
<1>6. Home[m] \in Messages
  BY <1>2 DEF CourseIsSound
<1>7. /\ bound' = [bound EXCEPT ![Home[m]] = "own"]
      /\ UNCHANGED <<threads, records, texts, links, cut, estranged, faults>>
  BY DEF StartSettles, stored
<1>8. TablesInv' /\ Grows
  <2>1. bound' \in [Messages -> Sessions]
    BY <1>2, <1>7 DEF TablesInv, Sessions
  <2>2. QED
    BY <1>2, <1>7, <2>1 DEF TablesInv, Grows, LinkedKnowledgeHasText
<1>9. \A l \in links : l.thread = Home[m] => l.thread \in estranged
  BY <1>2 DEF LinkedThreadsAreBound
<1>10. ContextIsKept(m)'
  <2>1. LinkedTo(Home[m])' = LinkedTo(Home[m])
    BY <1>7 DEF LinkedTo
  <2>2. run[m].linked # {} => \E l \in links : l.thread = Home[m]
    BY <1>2 DEF ContextIsKept, LinkedTo
  <2>3. QED
    BY <1>2, <1>3, <1>5, <1>7, <1>9, <2>1, <2>2 DEF ContextIsKept
<1>11. LinkedThreadsAreBound'
  <2>1. \A k \in Messages : run'[k].at = "starting" => run[k].at = "starting"
    BY <1>1, <1>3, <1>4, <1>5 DEF ByMessage
  <2>2. \A t \in Messages : t # Home[m] => bound'[t] = bound[t]
    BY <1>2, <1>7 DEF TablesInv
  <2>3. QED
    BY <1>2, <1>7, <1>9, <2>1, <2>2 DEF LinkedThreadsAreBound
<1>12. CourseIsSound(m)' /\ SourcesAreOwn(m)' /\ WritesAreLinked(m)'
  BY <1>2, <1>3, <1>5 DEF CourseIsSound, SourcesAreOwn, WritesAreLinked
<1>13. MessageInv(m)'
  BY <1>2, <1>3, <1>5, <1>10, <1>12 DEF MessageInv
<1>14. QED
  BY <1>4, <1>8, <1>11, <1>13, StepOfOne

\* The intent turn and the public sources of the message.
LEMMA AskStep ==
    ASSUME HarnessInv, NEW m \in Messages, Ask(m)
    PROVE  HarnessInv'
<1>1. ByMessage
  BY InvByMessage
<1>2. /\ run[m] \in Runs /\ evidence[m] \in (SUBSET Urls) \cup {{None}}
      /\ run[m].facts \subseteq MessageUrls[m] /\ run[m].cites = {} /\ run[m].writes = {}
  BY <1>1 DEF Ask, ByMessage, MessageInv, CourseIsSound
<1> DEFINE Taken(r) ==
             /\ run' = [run EXCEPT ![m] = r]
             /\ r \in Runs /\ r.cites = {} /\ r.writes = {} /\ r.facts \subseteq MessageUrls[m]
             /\ r.at = "first" \/ (r.at = "routed" /\ r.out = "chat")
             /\ r.linked = run[m].linked /\ r.session = run[m].session
<1>3. PICK r : Taken(r)
  <2>1. ASSUME Becomes(m, [run[m] EXCEPT !.at = "routed", !.out = "chat"])
        PROVE  \E r : Taken(r)
    <3> DEFINE r == [run[m] EXCEPT !.at = "routed", !.out = "chat"]
    <3>1. /\ r \in Runs /\ r.cites = {} /\ r.writes = {} /\ r.facts \subseteq MessageUrls[m]
          /\ r.at = "routed" /\ r.out = "chat"
          /\ r.linked = run[m].linked /\ r.session = run[m].session
      BY <1>2 DEF Runs
    <3> HIDE DEF r
    <3>2. run' = [run EXCEPT ![m] = r]
      BY <2>1 DEF Becomes, r
    <3>3. QED
      BY <3>1, <3>2
  <2>2. ASSUME NEW facts \in Readable(m),
               Becomes(m, [run[m] EXCEPT !.at = "first", !.facts = facts])
        PROVE  \E r : Taken(r)
    <3> DEFINE r == [run[m] EXCEPT !.at = "first", !.facts = facts]
    <3>1. /\ r \in Runs /\ r.cites = {} /\ r.writes = {} /\ r.facts \subseteq MessageUrls[m]
          /\ r.at = "first" /\ r.linked = run[m].linked /\ r.session = run[m].session
      BY <1>2 DEF Runs, Readable
    <3> HIDE DEF r
    <3>2. run' = [run EXCEPT ![m] = r]
      BY <2>2 DEF Becomes, r
    <3>3. QED
      BY <3>1, <3>2
  <2> HIDE DEF Taken
  <2>3. QED
    BY <2>1, <2>2 DEF Ask
<1>4. evidence' = [evidence EXCEPT ![m] = evidence[m]]
  BY <1>1 DEF Ask, ByMessage
<1>5. ASSUME run'[m] = r
      PROVE  CourseIsSound(m)' /\ SourcesAreOwn(m)' /\ WritesAreLinked(m)'
  BY <1>3, <1>5 DEF CourseIsSound, SourcesAreOwn, Own, WritesAreLinked, Visible
<1>6. QED
  BY <1>2, <1>3, <1>4, <1>5, StepWithoutTables DEF Ask

\* Whatever is sent for a turn that was judged fine is its own: a source of another kind
\* could not pass for it.
LEMMA FineSourcesAreOwn ==
    ASSUME TablesInv, NEW m \in Messages, run[m] \in Runs,
           NEW cites, NEW writes, NEW observed \in SUBSET Urls,
           Allows(m, cites, writes, observed)
    PROVE  Own(m, cites, writes, PublicSources(m, observed), run[m].linked)
<1>1. \A s \in cites \cup writes : s \in PublicSources(m, observed) \/ s \in VisibleRecords(m)
  BY DEF Allows
<1>2. VisibleRecords(m) \subseteq records /\ records \subseteq Records
  BY DEF VisibleRecords, TablesInv
<1>3. PublicSources(m, observed) \subseteq Urls
  <2>1. run[m].facts \subseteq Urls /\ run[m].linked \subseteq Records
    BY DEF Runs
  <2>2. \A r \in Records : r.url \in Urls
    BY DEF Records
  <2>3. QED
    BY <2>1, <2>2 DEF PublicSources
<1>4. \A s \in VisibleRecords(m) : s \notin Urls
  BY <1>2, SourcesAssumption
<1>5. QED
  BY <1>1, <1>3, <1>4 DEF VisibleRecords, Own

\* What a turn puts on its way is sound when it is own, visible where it must be, and
\* writes for facts only.
LEMMA RoutedStep ==
    ASSUME HarnessInv, NEW m \in Messages, run[m].at \in Turns,
           NEW out \in Outcomes, NEW cites \in SUBSET Sources, NEW writes \in SUBSET Urls,
           NEW seen \in SUBSET Urls, Routed(m, out, cites, writes, seen),
           UNCHANGED <<tables, faults>>,
           Own(m, cites, writes, seen, run[m].linked),
           writes # {} => run[m].facts # {},
           m \in Directed /\ FollowUp(m) => Visible(out)
    PROVE  HarnessInv'
<1> DEFINE r == [run[m] EXCEPT !.at = "routed", !.out = out, !.cites = cites,
                               !.writes = writes, !.seen = seen]
           e == NextEvidence(m, out, seen \cup (cites \cap Urls))
<1>1. ByMessage
  BY InvByMessage
<1>2. /\ run[m] \in Runs /\ run[m].facts \subseteq MessageUrls[m]
  BY <1>1 DEF ByMessage, MessageInv, CourseIsSound
<1>3. /\ r \in Runs /\ r.at = "routed" /\ r.out = out /\ r.cites = cites /\ r.writes = writes
      /\ r.seen = seen /\ r.facts = run[m].facts /\ r.linked = run[m].linked
      /\ r.session = run[m].session
  BY <1>2 DEF Runs
<1>4. e \in (SUBSET Urls) \cup {{None}}
  BY DEF NextEvidence
<1>5. out = "ingest" /\ RootOfKnowledge(m) => writes \subseteq e
  BY DEF NextEvidence, Own
<1> HIDE DEF r, e
<1>6. run' = [run EXCEPT ![m] = r] /\ evidence' = [evidence EXCEPT ![m] = e]
  BY DEF Routed, Becomes, r, e
<1>7. records' = records
  BY DEF tables, stored
<1>8. ASSUME run'[m] = r, evidence'[m] = e
      PROVE  CourseIsSound(m)' /\ SourcesAreOwn(m)' /\ WritesAreLinked(m)'
  <2>1. CourseIsSound(m)'
    BY <1>2, <1>3, <1>5, <1>8 DEF CourseIsSound
  <2>2. SourcesAreOwn(m)'
    BY <1>3, <1>7, <1>8 DEF SourcesAreOwn, Own
  <2>3. WritesAreLinked(m)'
    BY <1>3, <1>8 DEF WritesAreLinked
  <2>4. QED
    BY <2>1, <2>2, <2>3
<1>9. QED
  BY <1>3, <1>4, <1>6, <1>8, StepWithoutTables

\* The next turn of the same run: nothing is named yet.
LEMMA NextTurnStep ==
    ASSUME HarnessInv, NEW m \in Messages, run[m].at \in Turns,
           NEW at \in {"followup", "second"},
           Becomes(m, [run[m] EXCEPT !.at = at]), UNCHANGED <<evidence, tables, faults>>
    PROVE  HarnessInv'
<1> DEFINE r == [run[m] EXCEPT !.at = at]
<1>1. ByMessage
  BY InvByMessage
<1>2. /\ run[m] \in Runs /\ run[m].facts \subseteq MessageUrls[m]
      /\ run[m].cites = {} /\ run[m].writes = {}
      /\ evidence[m] \in (SUBSET Urls) \cup {{None}}
  BY <1>1 DEF ByMessage, MessageInv, CourseIsSound
<1>3. /\ r \in Runs /\ r.at = at /\ r.cites = {} /\ r.writes = {}
      /\ r.facts \subseteq MessageUrls[m]
      /\ r.linked = run[m].linked /\ r.session = run[m].session
  BY <1>2 DEF Runs
<1> HIDE DEF r
<1>4. run' = [run EXCEPT ![m] = r] /\ evidence' = [evidence EXCEPT ![m] = evidence[m]]
  BY <1>1 DEF Becomes, ByMessage, r
<1>5. ASSUME run'[m] = r
      PROVE  CourseIsSound(m)' /\ SourcesAreOwn(m)' /\ WritesAreLinked(m)'
  BY <1>3, <1>5 DEF CourseIsSound, SourcesAreOwn, WritesAreLinked
<1>6. QED
  BY <1>2, <1>3, <1>4, <1>5, StepWithoutTables

\* An answer without sources in place of the one that is not sent.
LEMMA UnseenStep ==
    ASSUME HarnessInv, NEW m \in Messages, run[m].at \in Turns,
           NEW out \in {"failure", "refusal"},
           Routed(m, out, {}, {}, {}), UNCHANGED <<tables, faults>>
    PROVE  HarnessInv'
<1>1. Own(m, {}, {}, {}, run[m].linked)
  BY DEF Own
<1>2. Visible(out) /\ out \in Outcomes
  BY DEF Visible
<1>3. \A S : {} \in SUBSET S
  OBVIOUS
<1>4. QED
  BY <1>1, <1>2, <1>3, RoutedStep

\* The answer turn: its answer is held against the guard before it goes on.
LEMMA AnswerStep ==
    ASSUME HarnessInv, NEW m \in Messages, AnswerTurn(m)
    PROVE  HarnessInv'
<1>1. ByMessage /\ run[m].at \in Turns /\ UNCHANGED <<tables, faults>>
  BY InvByMessage DEF AnswerTurn
<1>2. /\ run[m] \in Runs /\ TablesInv
  BY <1>1 DEF ByMessage, MessageInv
<1>3. PICK out \in OutcomesOf(m), observed \in AtMostOne(Urls \ MessageUrls[m]),
           cites \in AtMostOne(Urls \cup records \cup {Unknown}), writes \in SUBSET Urls :
           /\ writes # {} => run[m].facts # {}
           /\ LET fine == Allows(m, cites, writes, observed) IN
              \/ AskAgain(m, out) \/ NoAnswer(m, out, fine)
              \/ Accept(m, out, cites, writes, observed, fine)
              \/ AskSafely(m, out, fine) \/ Refuse(m, fine)
  <2>1. PICK out \in OutcomesOf(m), observed \in AtMostOne(Urls \ MessageUrls[m]) :
           \E cites \in IF out \in {"chat", "ingest"} THEN AtMostOne(Urls \cup records \cup {Unknown})
                       ELSE AtMostOne({Unknown}),
              writes \in IF out = "ingest" /\ run[m].facts # {} THEN AtMostOne(Urls) ELSE {{}} :
              LET fine == Allows(m, cites, writes, observed) IN
              \/ AskAgain(m, out) \/ NoAnswer(m, out, fine)
              \/ Accept(m, out, cites, writes, observed, fine)
              \/ AskSafely(m, out, fine) \/ Refuse(m, fine)
    BY DEF AnswerTurn
  <2>2. PICK cites \in IF out \in {"chat", "ingest"} THEN AtMostOne(Urls \cup records \cup {Unknown})
                       ELSE AtMostOne({Unknown}),
             writes \in IF out = "ingest" /\ run[m].facts # {} THEN AtMostOne(Urls) ELSE {{}} :
              LET fine == Allows(m, cites, writes, observed) IN
              \/ AskAgain(m, out) \/ NoAnswer(m, out, fine)
              \/ Accept(m, out, cites, writes, observed, fine)
              \/ AskSafely(m, out, fine) \/ Refuse(m, fine)
    BY <2>1
  <2>3. cites \in AtMostOne(Urls \cup records \cup {Unknown})
    BY DEF AtMostOne
  <2>4. writes \in SUBSET Urls /\ (writes # {} => run[m].facts # {})
    BY DEF AtMostOne
  <2>5. QED
    BY <2>2, <2>3, <2>4
<1> DEFINE fine == Allows(m, cites, writes, observed)
<1>4. /\ out \in Outcomes /\ observed \in SUBSET Urls /\ cites \in SUBSET Sources
      /\ PublicSources(m, observed) \in SUBSET Urls
  <2>1. records \subseteq Records /\ run[m].facts \subseteq Urls /\ run[m].linked \subseteq Records
    BY <1>2 DEF TablesInv, Runs
  <2>2. \A r \in Records : r.url \in Urls
    BY DEF Records
  <2>3. QED
    BY <2>1, <2>2 DEF OutcomesOf, AtMostOne, Sources, PublicSources
<1>5. CASE AskAgain(m, out)
  BY <1>1, <1>5, NextTurnStep DEF AskAgain
<1>6. CASE AskSafely(m, out, fine)
  BY <1>1, <1>6, NextTurnStep DEF AskSafely
<1>7. CASE NoAnswer(m, out, fine)
  <2>1. Routed(m, "failure", {}, {}, {})
    BY <1>7 DEF NoAnswer
  <2>2. QED
    BY <1>1, <2>1, UnseenStep
<1>8. CASE Refuse(m, fine)
  <2>1. Routed(m, "refusal", {}, {}, {})
    BY <1>8 DEF Refuse
  <2>2. QED
    BY <1>1, <2>1, UnseenStep
<1>9. CASE Accept(m, out, cites, writes, observed, fine)
  <2> DEFINE seen == PublicSources(m, observed)
  <2>1. fine /\ Routed(m, out, cites, writes, seen)
    BY <1>9 DEF Accept
  <2>2. Own(m, cites, writes, seen, run[m].linked)
    BY <1>2, <1>4, <2>1, FineSourcesAreOwn
  <2>3. m \in Directed /\ FollowUp(m) => Visible(out)
    <3>1. ~Silent(m, out)
      BY <1>1, <1>9 DEF Accept, Repeats, AgainSilent
    <3>2. QED
      BY <3>1 DEF Silent
  <2> HIDE DEF seen
  <2>4. seen \in SUBSET Urls
    BY <1>4 DEF seen
  <2>5. QED
    BY <1>1, <1>3, <1>4, <2>1, <2>2, <2>3, <2>4, RoutedStep
<1>10. QED
  BY <1>3, <1>5, <1>6, <1>7, <1>8, <1>9

\* A failed run waits for its retry, or is given up.
LEMMA RetryStep ==
    ASSUME HarnessInv, NEW m \in Messages, Retried(m),
           UNCHANGED <<evidence, tables>>, UNCHANGED faults \/ Fault
    PROVE  HarnessInv'
<1>1. CASE run[m].tries < RetryLimit
  BY <1>1, EndOfOne DEF Retried
<1>2. CASE ~(run[m].tries < RetryLimit)
  BY <1>2, EndOfOne DEF Retried
<1>3. QED
  BY <1>1, <1>2

\* The run goes on to send what it has, and knowledge is stored or given up for this run.
LEMMA SendingStep ==
    ASSUME HarnessInv, NEW m \in Messages, run[m].at \in {"routed", "thread"}, Sending(m),
           NEW e \in (SUBSET Urls) \cup {{None}}, evidence' = [evidence EXCEPT ![m] = e],
           Grows, TablesInv', LinkedThreadsAreBound',
           run[m].out = "ingest" /\ RootOfKnowledge(m) /\ m \notin cut' =>
              \A u \in run[m].writes : \E l \in links' : l.msg = m /\ l.record.url = u
    PROVE  HarnessInv'
<1> DEFINE r == [run[m] EXCEPT !.at = "send"]
<1>1. ByMessage
  BY InvByMessage
<1>2. /\ run[m] \in Runs /\ CourseIsSound(m) /\ SourcesAreOwn(m) /\ ContextIsKept(m)
  BY <1>1 DEF ByMessage, MessageInv
<1>3. /\ r \in Runs /\ r.at = "send" /\ r.out = run[m].out /\ r.cites = run[m].cites
      /\ r.writes = run[m].writes /\ r.seen = run[m].seen /\ r.facts = run[m].facts
      /\ r.linked = run[m].linked /\ r.session = run[m].session
  BY <1>2 DEF Runs
<1> HIDE DEF r
<1>4. run' = [run EXCEPT ![m] = r]
  BY DEF Sending, Becomes, r
<1>5. run'[m] = r /\ evidence'[m] = e
  BY <1>1, <1>4 DEF ByMessage
<1>6. CourseIsSound(m)'
  BY <1>2, <1>3, <1>5 DEF CourseIsSound
<1>7. SourcesAreOwn(m)'
  BY <1>2, <1>3, <1>5 DEF SourcesAreOwn, Own, Grows
<1>8. WritesAreLinked(m)'
  BY <1>3, <1>5 DEF WritesAreLinked
<1>9. ContextIsKept(m)'
  BY <1>2, <1>3, <1>5, ContextStays
<1>10. MessageInv(m)'
  BY <1>3, <1>5, <1>6, <1>7, <1>8, <1>9 DEF MessageInv
<1>11. QED
  BY <1>4, <1>10, StepOfOne

\* An answer is dispatched, into a new thread where it opens one.
LEMMA DispatchStep ==
    ASSUME HarnessInv, NEW m \in Messages, Dispatch(m)
    PROVE  HarnessInv'
<1>1. ByMessage
  BY InvByMessage
<1>2. /\ run[m] \in Runs /\ evidence[m] \in (SUBSET Urls) \cup {{None}}
      /\ CourseIsSound(m) /\ SourcesAreOwn(m) /\ ContextIsKept(m)
      /\ TablesInv /\ run[m].at = "routed"
  BY <1>1 DEF ByMessage, MessageInv, Dispatch
<1>3. CASE /\ run[m].out \in {"silent", "admin"}
           /\ Ended(m, IF run[m].out = "admin" THEN "denied" ELSE "silent")
           /\ UNCHANGED <<evidence, tables, faults>>
  <2>1. CASE run[m].out = "admin"
    BY <1>3, <2>1, EndOfOne
  <2>2. CASE run[m].out = "silent"
    <3>1. ~(m \in Directed /\ FollowUp(m))
      BY <1>2, <2>2 DEF CourseIsSound, Visible
    <3>2. Ended(m, "silent")
      BY <1>3, <2>2
    <3>3. QED
      BY <1>3, <3>1, <3>2, EndOfOne
  <2>3. QED
    BY <1>3, <2>1, <2>2
<1>4. CASE /\ ~OpensThread(m)
           /\ evidence' = IF run[m].out = "ingest" THEN [evidence EXCEPT ![m] = {None}]
                          ELSE evidence
           /\ Sending(m) /\ UNCHANGED <<tables, faults>>
  <2>1. PICK e \in (SUBSET Urls) \cup {{None}} : evidence' = [evidence EXCEPT ![m] = e]
    BY <1>1, <1>2, <1>4 DEF ByMessage
  <2>2. TablesInv' /\ Grows
    BY <1>2, <1>4, TablesKept
  <2>3. run[m].out = "ingest" /\ RootOfKnowledge(m) => run[m].writes = {}
    BY <1>2, <1>4 DEF CourseIsSound, OpensThread
  <2>4. LinkedThreadsAreBound'
    <3> DEFINE r == [run[m] EXCEPT !.at = "send"]
    <3>1. r.at # "starting"
      BY <1>2 DEF Runs
    <3> HIDE DEF r
    <3>2. run' = [run EXCEPT ![m] = r]
      BY <1>4 DEF Sending, Becomes, r
    <3>3. QED
      BY <1>1, <1>4, <3>1, <3>2, BoundStays DEF tables, sessions, stored
  <2>5. QED
    BY <1>2, <1>4, <2>1, <2>2, <2>3, <2>4, SendingStep
<1>5. CASE /\ OpensThread(m)
           /\ threads' = threads \cup {m} /\ Becomes(m, [run[m] EXCEPT !.at = "thread"])
           /\ UNCHANGED <<evidence, sessions, stored, faults>>
  <2> DEFINE r == [run[m] EXCEPT !.at = "thread"]
  <2>1. /\ r \in Runs /\ r.at = "thread" /\ r.out = run[m].out /\ r.cites = run[m].cites
        /\ r.writes = run[m].writes /\ r.seen = run[m].seen /\ r.facts = run[m].facts
        /\ r.linked = run[m].linked /\ r.session = run[m].session
    BY <1>2 DEF Runs
  <2> HIDE DEF r
  <2>2. run' = [run EXCEPT ![m] = r] /\ evidence' = [evidence EXCEPT ![m] = evidence[m]]
    BY <1>1, <1>5 DEF Becomes, ByMessage, r
  <2>3. run'[m] = r /\ evidence'[m] = evidence[m]
    BY <1>1, <2>2 DEF ByMessage
  <2>4. TablesInv' /\ Grows
    BY <1>2, <1>5 DEF TablesInv, Grows, LinkedKnowledgeHasText, sessions, stored
  <2>5. CourseIsSound(m)'
    <3>1. OpensThread(m)' /\ m \in threads'
      BY <1>5, <2>1, <2>3 DEF OpensThread
    <3>2. r.at = "thread" /\ r.at \notin {"waiting", "resuming", "starting", "asked", "routed"}
          /\ r.at \notin Turns /\ r.at # "silent"
      BY <2>1
    <3>3. r.out = "ingest" /\ RootOfKnowledge(m) => r.writes \subseteq evidence[m]
      BY <1>2, <2>1 DEF CourseIsSound
    <3>4. r.facts \subseteq MessageUrls[m] /\ (r.writes # {} => r.facts # {})
      BY <1>2, <2>1 DEF CourseIsSound
    <3>5. QED
      BY <2>3, <3>1, <3>2, <3>3, <3>4 DEF CourseIsSound
  <2>6. SourcesAreOwn(m)' /\ WritesAreLinked(m)'
    BY <1>2, <1>5, <2>1, <2>3 DEF SourcesAreOwn, Own, WritesAreLinked, stored
  <2>7. ContextIsKept(m)'
    BY <1>2, <2>1, <2>3, <2>4, ContextStays
  <2>8. MessageInv(m)'
    BY <1>2, <2>1, <2>3, <2>5, <2>6, <2>7 DEF MessageInv
  <2>9. LinkedThreadsAreBound'
    BY <1>1, <1>5, <2>1, <2>2, BoundStays DEF sessions, stored
  <2>10. QED
    BY <2>2, <2>4, <2>8, <2>9, StepOfOne
<1>6. CASE Retried(m) /\ UNCHANGED <<evidence, tables, faults>>
  BY <1>6, RetryStep
<1>7. QED
  BY <1>3, <1>4, <1>5, <1>6 DEF Dispatch

\* A thread that is bound may have knowledge linked to it, wherever its links end.
LEMMA BindKeeps ==
    ASSUME TablesInv, LinkedThreadsAreBound, NEW m \in Messages, Bind(m),
           \A l \in links' \ links : l.thread = m,
           \A k \in Messages : run'[k].at = "starting" => run[k].at = "starting"
    PROVE  /\ LinkedThreadsAreBound' /\ bound' \in [Messages -> Sessions]
           /\ estranged \subseteq estranged' /\ estranged' \subseteq Messages
<1>1. /\ bound' = [bound EXCEPT ![m] = "ingest"]
      /\ estranged \subseteq estranged' /\ estranged' \subseteq estranged \cup {m}
      /\ (\E k \in Messages : Home[k] = m /\ run[k].at = "starting") => m \in estranged'
  BY DEF Bind, BoundTo
<1>2. /\ bound \in [Messages -> Sessions] /\ estranged \subseteq Messages
  BY DEF TablesInv
<1>3. bound' \in [Messages -> Sessions] /\ estranged' \subseteq Messages
  BY <1>1, <1>2 DEF Sessions
<1>4. bound'[m] = "ingest" /\ \A t \in Messages : t # m => bound'[t] = bound[t]
  BY <1>1, <1>2
<1>5. ASSUME NEW l \in links', l.thread \notin estranged'
      PROVE  /\ l.thread \in Messages /\ bound'[l.thread] = "ingest"
             /\ \A k \in Messages : Home[k] = l.thread => run'[k].at # "starting"
  <2>1. CASE l.thread = m
    BY <1>1, <1>4, <1>5, <2>1
  <2>2. CASE l.thread # m
    <3>1. l \in links /\ l.thread \notin estranged
      BY <1>1, <1>5, <2>2
    <3>2. QED
      BY <1>4, <2>2, <3>1 DEF LinkedThreadsAreBound
  <2>3. QED
    BY <2>1, <2>2
<1>6. LinkedThreadsAreBound'
  BY <1>5 DEF LinkedThreadsAreBound
<1>7. QED
  BY <1>1, <1>3, <1>6

\* The thread is open: its session is bound and its knowledge written.
LEMMA ThreadStep ==
    ASSUME HarnessInv, NEW m \in Messages, ThreadOpened(m)
    PROVE  HarnessInv'
<1>1. ByMessage
  BY InvByMessage
<1>2. /\ run[m].at = "thread" /\ m \in threads /\ CourseIsSound(m) /\ TablesInv
  BY <1>1 DEF ByMessage, MessageInv, CourseIsSound, ThreadOpened
<1>3. /\ Bind(m) /\ UNCHANGED threads /\ Sending(m)
      /\ evidence' = [evidence EXCEPT ![m] = {None}]
  BY DEF ThreadOpened, PersistKnowledge
<1>4. PICK n \in 0..Len(Statements) :
         /\ Persist(m, m, n)
         /\ \/ n = Len(Statements) /\ UNCHANGED <<cut, faults>>
            \/ Fault /\ cut' = cut \cup {m}
  BY AllStatementsStored DEF ThreadOpened, PersistKnowledge
<1>5. LinkedKnowledgeHasText /\ TypeOK
  BY DEF HarnessInv, LinksAreWhole
<1>6. /\ records \subseteq records' /\ texts \subseteq texts' /\ links \subseteq links'
      /\ records' \subseteq Records /\ texts' \subseteq records'
      /\ links' \subseteq [record : Records, msg : Messages, thread : Messages \cup {None}]
      /\ LinkedKnowledgeHasText' /\ (\A l \in links' \ links : l.thread = m)
      /\ n = Len(Statements) =>
            \A u \in Approved(m) : \E l \in links' : l.msg = m /\ l.record.url = u
  BY <1>4, <1>5, PersistGrows
<1>7. LinkedThreadsAreBound' /\ bound' \in [Messages -> Sessions]
      /\ estranged \subseteq estranged' /\ estranged' \subseteq Messages
  <2>1. \A k \in Messages : run'[k].at = "starting" => run[k].at = "starting"
    <3>1. [run[m] EXCEPT !.at = "send"].at # "starting"
      BY <1>1 DEF ByMessage, MessageInv, Runs
    <3>2. QED
      BY <1>1, <1>3, <3>1 DEF Sending, Becomes, ByMessage
  <2>2. QED
    BY <1>1, <1>2, <1>3, <1>6, <2>1, BindKeeps DEF ByMessage
<1>8. cut \subseteq cut' /\ cut' \subseteq Messages /\ faults' \in 0..MaxFaults
  BY <1>2, <1>4 DEF TablesInv, Fault
<1>9. TablesInv' /\ Grows
  BY <1>2, <1>3, <1>6, <1>7, <1>8 DEF TablesInv, Grows
<1>10. run[m].out = "ingest" /\ RootOfKnowledge(m) => Approved(m) = run[m].writes
  BY <1>2 DEF CourseIsSound, Approved
<1>11. m \notin cut' => n = Len(Statements)
  BY <1>4
<1>12. run[m].out = "ingest" /\ RootOfKnowledge(m) /\ m \notin cut' =>
          \A u \in run[m].writes : \E l \in links' : l.msg = m /\ l.record.url = u
  BY <1>6, <1>10, <1>11
<1>13. {None} \in (SUBSET Urls) \cup {{None}}
  OBVIOUS
<1>14. QED
  BY <1>2, <1>3, <1>7, <1>9, <1>12, <1>13, SendingStep

\* The process dies with its runs; the tables stay.
LEMMA CrashStep ==
    ASSUME HarnessInv, Crash
    PROVE  HarnessInv'
<1>1. ByMessage /\ TypeOK /\ LinkedKnowledgeHasText
  BY InvByMessage DEF HarnessInv, LinksAreWhole
<1>2. Fault /\ faults' \in 0..MaxFaults
  <2>1. Fault
    BY DEF Crash
  <2>2. QED
    BY <1>1, <2>1 DEF Fault, TypeOK
<1>3. \A k \in Messages : run'[k].at # "starting"
  <2>1. Fresh("waiting", 0).at # "starting"
    BY DEF Fresh
  <2>2. QED
    BY <2>1 DEF Crash
<1>4. TablesInv' /\ Grows /\ LinkedThreadsAreBound'
  <2>1. CASE UNCHANGED tables
    <3>1. TablesInv' /\ Grows
      BY <1>1, <1>2, <2>1, TablesKept DEF ByMessage
    <3>2. LinkedThreadsAreBound'
      BY <1>1, <1>3, <2>1 DEF LinkedThreadsAreBound, ByMessage, tables, sessions, stored
    <3>3. QED
      BY <3>1, <3>2
  <2>2. ASSUME NEW m \in Messages, NEW n \in 0..Len(Statements) - 1, run[m].at = "thread",
               Bind(m), Persist(m, m, n), cut' = cut \cup {m}, UNCHANGED threads
        PROVE  TablesInv' /\ Grows /\ LinkedThreadsAreBound'
    <3>1. n \in 0..Len(Statements)
      BY AllStatementsStored
    <3>2. /\ records \subseteq records' /\ texts \subseteq texts' /\ links \subseteq links'
          /\ records' \subseteq Records /\ texts' \subseteq records'
          /\ links' \subseteq [record : Records, msg : Messages, thread : Messages \cup {None}]
          /\ LinkedKnowledgeHasText' /\ (\A l \in links' \ links : l.thread = m)
      BY <1>1, <2>2, <3>1, PersistGrows
    <3>3. TablesInv /\ LinkedThreadsAreBound
      BY <1>1 DEF ByMessage
    <3>4. /\ LinkedThreadsAreBound' /\ bound' \in [Messages -> Sessions]
          /\ estranged \subseteq estranged' /\ estranged' \subseteq Messages
      BY <1>3, <2>2, <3>2, <3>3, BindKeeps
    <3>5. QED
      BY <1>2, <2>2, <3>2, <3>3, <3>4 DEF TablesInv, Grows
  <2>3. QED
    BY <2>1, <2>2 DEF Crash
<1>5. ASSUME NEW k \in Messages
      PROVE  MessageInv(k)'
  <2>1. MessageInv(k) /\ evidence'[k] = {None}
    BY <1>1 DEF ByMessage, Crash
  <2>2. CASE run[k].at \in Ends
    <3>1. run'[k] = run[k]
      BY <2>2 DEF Crash
    <3>2. QED
      <4>1. ContextIsKept(k)'
        BY <1>4, <2>1, <3>1, ContextStays DEF MessageInv
      <4>2. QED
        BY <2>1, <2>2, <3>1, <4>1 DEF MessageInv, CourseIsSound, SourcesAreOwn, WritesAreLinked
  <2>3. CASE run[k].at \notin Ends
    <3>1. run'[k] = Fresh("waiting", 0)
      BY <2>3 DEF Crash
    <3>2. 0 \in 0..RetryLimit /\ 0 < RetryLimit
      OBVIOUS
    <3>3. {None} \in (SUBSET Urls) \cup {{None}}
      OBVIOUS
    <3>4. QED
      BY <2>1, <3>1, <3>2, <3>3, FreshIsSound
  <2>4. QED
    BY <2>2, <2>3
<1>6. ByMessage'
  BY <1>4, <1>5 DEF ByMessage, Crash
<1>7. QED
  BY <1>6, InvByMessage, PTL

-----------------------------------------------------------------------------
\* No run, no answer, no table row at first.
LEMMA HarnessInit == Init => HarnessInv
<1> SUFFICES ASSUME Init
             PROVE  HarnessInv
  OBVIOUS
<1>1. Fresh("waiting", 0) \in Runs
  BY DEF Fresh, Runs, Sessions
<1>2. TablesInv /\ LinkedThreadsAreBound
  BY DEF Init, TablesInv, LinkedKnowledgeHasText, LinkedThreadsAreBound, Sessions
<1>3. ASSUME NEW m \in Messages
      PROVE  MessageInv(m)
  <2>1. run[m] = Fresh("waiting", 0) /\ evidence[m] = {None}
    BY DEF Init
  <2>2. QED
    BY <1>1, <2>1 DEF MessageInv, CourseIsSound, ContextIsKept, SourcesAreOwn,
                          WritesAreLinked, Fresh
<1>4. ByMessage
  BY <1>2, <1>3 DEF ByMessage, Init
<1>5. QED
  BY <1>4, InvByMessage

\* Every action of the harness keeps the invariant.
LEMMA HarnessStep ==
    ASSUME HarnessInv, [Next]_vars
    PROVE  HarnessInv'
<1>1. ASSUME NEW m \in Messages, Send(m)
      PROVE  HarnessInv'
  BY <1>1, EndOfOne DEF Send
<1>2. ASSUME NEW m \in Messages, Fails(m)
      PROVE  HarnessInv'
  BY <1>2, RetryStep DEF Fails
<1>3. CASE UNCHANGED vars
  BY <1>3 DEF vars, HarnessInv, LinksAreWhole, TypeOK, LinkedKnowledgeHasText,
              SourceSessionIsKept, LinkedThreadsAreBound, LinkedTo, RunsAreSound, OpensThread, OnlyOwnSourcesAreSent,
              DirectedFollowUpIsAnswered, ApprovedWritesAreLinked
<1>4. QED
  BY <1>1, <1>2, <1>3, BeginStep, ResumeStep, ResumeFailsStep, StartStep, AskStep, AnswerStep, DispatchStep, ThreadStep, CrashStep
  DEF Next, RunStep

\* The inductive invariant of the harness, for any messages, places, scopes, URLs, retry
\* limit and number of failing calls and crashes.
THEOREM HarnessInvariant == Spec => []HarnessInv
  BY HarnessInit, HarnessStep, PTL DEF Spec

\* A stored link points to knowledge with a text, wherever persistKnowledgeResult fails or
\* the bot dies between two statements; and who follows it converses in the session that
\* gathered the knowledge, unless the thread is estranged.
THEOREM StoredLinksAreWhole == Spec => []LinksAreWhole
  BY HarnessInvariant, PTL DEF HarnessInv

\* The output safety guard holds to the end: after both retries, and whatever other runs
\* store meanwhile, an answer on its way names only its own turn's sources and records
\* its place may see.
THEOREM GuardedSources == Spec => []OnlyOwnSourcesAreSent
  BY HarnessInvariant, PTL DEF HarnessInv

\* runAnswerFlow never leaves a directed follow-up in a knowledge thread silent.
THEOREM NoSilenceForFollowUps == Spec => []DirectedFollowUpIsAnswered
  BY HarnessInvariant, PTL DEF HarnessInv

\* What the answer turn was allowed to write is linked when the answer goes out, unless
\* its persistence failed: evidence of an earlier run never stands in the way.
THEOREM WritesReachTheirLinks == Spec => []ApprovedWritesAreLinked
  BY HarnessInvariant, PTL DEF HarnessInv
=============================================================================
