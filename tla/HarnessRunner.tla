---------------------------- MODULE HarnessRunner ----------------------------
(***************************************************************************)
(* What one message goes through in the harness: the intent turn, the      *)
(* public sources read for it, the answer turn with its two retries, the   *)
(* judgement of the sources, and the dispatch of the answer, which for a   *)
(* shared link opens a thread, binds its session and stores knowledge.     *)
(*                                                                         *)
(* Messages of different channels and threads run beside each other; all   *)
(* that happens between two awaits is one step.  The model behind the      *)
(* turns is external: it may answer anything.  Forum places, whose answer  *)
(* turn is the module ForumResearch, are left out.                         *)
(***************************************************************************)
EXTENDS Integers, FiniteSets, Sequences

CONSTANTS Messages, Urls, None,
          Unknown,        \* any source that is blocked, not public or not known, and
                          \* a write without evidence
          Home,           \* message -> the thread it was written in, or None;
                          \* a thread bears the name of the message it hangs on
          Channel,        \* message -> its watched channel
          Scope,          \* message -> its visibility scope
          KnowledgePlace, \* messages in a place with the feature knowledge_ingest
          Directed,       \* messages addressed to the bot
          MessageUrls,    \* message -> the public URLs it holds
          RetryLimit,     \* runs of a message
          MaxFaults       \* bound: failing calls and crashes

ASSUME HarnessAssumption ==
    /\ Home \in [Messages -> Messages \cup {None}] /\ None \notin Messages \cup Urls
    /\ Scope \in [Messages -> {"server_public", "channel_family", "conversation_only"}]
    /\ KnowledgePlace \subseteq Messages /\ Directed \subseteq Messages
    /\ MessageUrls \in [Messages -> SUBSET Urls]
    /\ RetryLimit \in Nat \ {0} /\ MaxFaults \in Nat

VARIABLES
    run,       \* message -> its run
    evidence,  \* approvedKnowledgeEvidenceByMessageId
    threads,   \* messages a thread hangs on
    bound,     \* thread -> the session its conversation is bound to: none, one of its own,
               \* or that of the ingest
    records,   \* knowledge_record, with its knowledge_artifact
    texts,     \* records with a knowledge_source_text
    links,     \* source_link
    cut,       \* history: messages whose persistence failed or was cut short
    estranged, \* history: threads with cause to leave the session of the ingest
    faults

vars == <<run, evidence, threads, bound, records, texts, links, cut, estranged, faults>>

-----------------------------------------------------------------------------
(* Visibility *)

\* The place of a message, for what it may read.
Place(m) == IF Home[m] = None THEN <<Channel[m]>> ELSE <<Home[m]>>

\* resolveScopedPlaceId: what a shared link leaves belongs to its message, not to the channel.
ScopedPlace(m) ==
    IF Home[m] = None /\ m \in KnowledgePlace /\ MessageUrls[m] # {} THEN <<Channel[m], m>>
    ELSE Place(m)

Key(m, scope, place) ==
    <<scope, CASE scope = "server_public" -> <<>>
               [] scope = "channel_family" -> <<Channel[m]>>
               [] scope = "conversation_only" -> place>>

VisibleScopes(scope) ==
    {"server_public"} \cup
    (CASE scope = "server_public" -> {}
       [] scope = "channel_family" -> {scope}
       [] scope = "conversation_only" -> {"channel_family", scope})

VisibleKeys(m) == {Key(m, s, Place(m)) : s \in VisibleScopes(Scope[m])}

StoredKey(m) == Key(m, Scope[m], ScopedPlace(m))

Records == [url : Urls, key : {StoredKey(m) : m \in Messages}]
Sources == Urls \cup Records \cup {Unknown}

\* A source is a URL or a record.
ASSUME SourcesAssumption == Urls \cap Records = {}

AtMostOne(S) == {{}} \cup {{x} : x \in S}

\* Threads of a knowledge place, with or without stored knowledge.
FollowUp(m) == Home[m] # None /\ m \in KnowledgePlace
RootOfKnowledge(m) == Home[m] = None /\ m \in KnowledgePlace

-----------------------------------------------------------------------------
Turns == {"first", "followup", "second"}
Ends == {"answered", "silent", "denied", "given up"}
Outcomes == {"none", "silent", "chat", "ingest", "admin", "failure", "refusal"}

Sessions == {"none", "own", "ingest"}

Runs == [at : {"waiting", "resuming", "starting", "asked", "routed", "thread", "send"}
                 \cup Turns \cup Ends,
         tries : 0..RetryLimit, session : Sessions,
         linked : SUBSET Records, facts : SUBSET Urls,
         out : Outcomes, cites : SUBSET Sources, writes : SUBSET Urls,
         seen : SUBSET Urls]

TypeOK ==
    /\ run \in [Messages -> Runs]
    /\ evidence \in [Messages -> (SUBSET Urls) \cup {{None}}]
    /\ threads \subseteq Messages /\ bound \in [Messages -> Sessions]
    /\ texts \subseteq records /\ records \subseteq Records
    /\ links \subseteq [record : Records, msg : Messages, thread : Messages \cup {None}]
    /\ cut \subseteq Messages /\ estranged \subseteq Messages /\ faults \in 0..MaxFaults

Fresh(at, tries) ==
    [at |-> at, tries |-> tries, session |-> "none", linked |-> {}, facts |-> {},
     out |-> "none", cites |-> {}, writes |-> {}, seen |-> {}]

Init ==
    /\ run = [m \in Messages |-> Fresh("waiting", 0)]
    /\ evidence = [m \in Messages |-> {None}]
    /\ threads = {} /\ bound = [t \in Messages |-> "none"]
    /\ records = {} /\ texts = {} /\ links = {}
    /\ cut = {} /\ estranged = {} /\ faults = 0

sessions == <<bound, estranged>>
stored == <<records, texts, links, cut>>
tables == <<threads, sessions, stored>>

Fault == faults < MaxFaults /\ faults' = faults + 1
Becomes(m, r) == run' = [run EXCEPT ![m] = r]
Ended(m, how) == Becomes(m, Fresh(how, run[m].tries))

\* The message is tried again while the retry policy has a delay left.
Retried(m) ==
    Ended(m, IF run[m].tries < RetryLimit THEN "waiting" ELSE "given up")

-----------------------------------------------------------------------------
(* routeMessage *)

\* listKnowledgeContextForReplyThread.
LinkedTo(thread) == {l.record : l \in {k \in links : k.thread = thread /\ thread # None}}

\* The session of a message; only threads share one that another message may bind.
Conversation(m) == IF Home[m] = None THEN "own" ELSE bound[Home[m]]

\* A follow-up exists once its thread does.  Its knowledge is read, and its session looked
\* up, before the first await.
Begin(m) ==
    /\ run[m].at = "waiting"
    /\ Home[m] # None => Home[m] \in threads
    /\ Becomes(m, [Fresh(IF Home[m] = None THEN "asked"
                         ELSE IF Conversation(m) = "none" THEN "starting" ELSE "resuming",
                         run[m].tries + 1)
                     EXCEPT !.linked = LinkedTo(Home[m]), !.session = Conversation(m)])
    /\ UNCHANGED <<evidence, tables, faults>>

ResumeSettles(m) ==
    /\ run[m].at = "resuming"
    /\ Becomes(m, [run[m] EXCEPT !.at = "asked"])
    /\ UNCHANGED <<evidence, tables, faults>>

\* A session that cannot be resumed, or is not to be since the skills have changed, is
\* replaced.
ResumeFails(m) ==
    /\ run[m].at = "resuming" /\ Fault
    /\ Becomes(m, [run[m] EXCEPT !.at = "starting", !.session = "none"])
    /\ estranged' = IF bound[Home[m]] = "ingest" THEN estranged \cup {Home[m]} ELSE estranged
    /\ UNCHANGED <<evidence, threads, bound, stored>>

\* startFreshSession: the answer is bound whatever the thread is bound to meanwhile.
StartSettles(m) ==
    /\ run[m].at = "starting"
    /\ Becomes(m, [run[m] EXCEPT !.at = "asked", !.session = "own"])
    /\ bound' = [bound EXCEPT ![Home[m]] = "own"]
    /\ UNCHANGED <<evidence, threads, stored, estranged, faults>>

\* The public sources of a message that can be read.
Readable(m) == SUBSET MessageUrls[m]

\* The intent turn and the public sources.  A write intent without an
\* override is answered with a hint; the evidence of an earlier run is left alone.
Ask(m) ==
    /\ run[m].at = "asked"
    /\ \/ Becomes(m, [run[m] EXCEPT !.at = "routed", !.out = "chat"])
       \/ \E facts \in Readable(m) :
              Becomes(m, [run[m] EXCEPT !.at = "first", !.facts = facts])
    /\ UNCHANGED <<evidence, tables, faults>>

(* OutputSafetyGuard *)

PublicSources(m, observed) ==
    MessageUrls[m] \cup run[m].facts \cup observed \cup {r.url : r \in run[m].linked}

VisibleRecords(m) ==
    {r \in records : r.key \in VisibleKeys(m) \/ r \in run[m].linked}

\* Mutant of Allows: what a record says is taken for public.
AllowsAnyRecord(m, cites, writes, observed) ==
    cites \cup writes \subseteq PublicSources(m, observed) \cup records

Allows(m, cites, writes, observed) ==
    cites \cup writes \subseteq PublicSources(m, observed) \cup VisibleRecords(m)

(* runAnswerFlow *)

Visible(out) == out \notin {"none", "silent"}

Silent(m, out) == FollowUp(m) /\ m \in Directed /\ ~Visible(out)

\* Mutant of NextEvidence: evidence of an earlier run is kept.
NextEvidenceFirst(m, out, urls) ==
    IF evidence[m] # {None} THEN evidence[m]
    ELSE IF out = "ingest" /\ RootOfKnowledge(m) THEN urls ELSE {None}

\* The evidence of a run that may persist replaces that of an earlier one.
NextEvidence(m, out, urls) ==
    IF out = "ingest" /\ RootOfKnowledge(m) THEN urls ELSE {None}

\* What normalizeAdminDiagnosticsResponse leaves; the places here do not show diagnostics.
Routed(m, out, cites, writes, seen) ==
    /\ Becomes(m, [run[m] EXCEPT !.at = "routed", !.out = out, !.cites = cites,
                                 !.writes = writes, !.seen = seen])
    /\ evidence' = [evidence EXCEPT ![m] = NextEvidence(m, out, seen \cup (cites \cap Urls))]

\* Mutant of AgainSilent: the second pass is not asked for a visible answer.
AgainSilentOnce(m, out) == run[m].at = "followup" /\ Silent(m, out)

AgainSilent(m, out) == run[m].at \in {"followup", "second"} /\ Silent(m, out)

Repeats(m, out) == run[m].at = "first" /\ Silent(m, out)

\* A message to the bot got no visible answer: it is asked for once more, in vain at last.
AskAgain(m, out) ==
    /\ Repeats(m, out)
    /\ Becomes(m, [run[m] EXCEPT !.at = "followup"]) /\ UNCHANGED evidence

NoAnswer(m, out, fine) ==
    /\ ~Repeats(m, out) /\ AgainSilent(m, out)
    /\ run[m].at = "second" => fine
    /\ Routed(m, "failure", {}, {}, {})

Accept(m, out, cites, writes, observed, fine) ==
    /\ fine /\ ~Repeats(m, out) /\ ~AgainSilent(m, out)
    /\ Routed(m, out, cites, writes, PublicSources(m, observed))

\* The first refusal is an order to write again, with the sources allowed for it.
AskSafely(m, out, fine) ==
    /\ ~fine /\ run[m].at # "second" /\ ~Repeats(m, out) /\ ~AgainSilent(m, out)
    /\ Becomes(m, [run[m] EXCEPT !.at = "second"]) /\ UNCHANGED evidence

Refuse(m, fine) ==
    /\ ~fine /\ run[m].at = "second"
    /\ Routed(m, "refusal", {}, {}, {})

\* The outcomes normalizeProductResponse leaves: no ingest in a thread of knowledge.
OutcomesOf(m) ==
    {"silent", "chat", "admin", "failure"} \cup IF FollowUp(m) THEN {} ELSE {"ingest"}

\* An answer of a turn: its outcome, the sources it
\* names, the knowledge it wants to write, and what the turn has fetched.  Sources of an
\* answer that is not sent matter to its judgement only.
AnswerTurn(m) ==
    /\ run[m].at \in Turns
    /\ \E out \in OutcomesOf(m),
          observed \in AtMostOne(Urls \ MessageUrls[m]) :
       \E cites \in IF out \in {"chat", "ingest"}
                    THEN AtMostOne(Urls \cup records \cup {Unknown})
                    ELSE AtMostOne({Unknown}),
          writes \in IF out = "ingest" /\ run[m].facts # {} THEN AtMostOne(Urls) ELSE {{}} :
           LET fine == Allows(m, cites, writes, observed) IN
           \/ AskAgain(m, out) \/ NoAnswer(m, out, fine)
           \/ Accept(m, out, cites, writes, observed, fine)
           \/ AskSafely(m, out, fine) \/ Refuse(m, fine)
    /\ UNCHANGED <<tables, faults>>

(* dispatchHarnessResponse *)

\* The statements of persist(), each committed on its own.
Statements == <<"record", "text", "link">>

Stored(kind, n) == \E i \in 1..n : Statements[i] = kind

\* buildPersistInputs: a write is skipped unless its source was read in this run.
Approved(m) == run[m].writes \cap evidence[m]

\* KnowledgePersistenceService: the first n statements of each approved write.
Persist(m, thread, n) ==
    LET new == {[url |-> u, key |-> StoredKey(m)] : u \in Approved(m)} IN
    /\ records' = IF Stored("record", n) THEN records \cup new ELSE records
    /\ texts' = IF Stored("text", n) THEN texts \cup new ELSE texts
    /\ links' = IF Stored("link", n)
                THEN links \cup {[record |-> r, msg |-> m, thread |-> thread] : r \in new}
                ELSE links

\* persistKnowledgeResult: an error is logged and the answer sent all the same.
PersistKnowledge(m, thread) ==
    /\ \/ Persist(m, thread, Len(Statements)) /\ UNCHANGED <<cut, faults>>
       \/ /\ run[m].writes # {} /\ Fault /\ cut' = cut \cup {m}
          /\ \E n \in 0..Len(Statements) - 1 : Persist(m, thread, n)
    /\ evidence' = [evidence EXCEPT ![m] = {None}]

\* resolveKnowledgeIngestRouting.
OpensThread(m) == run[m].out = "ingest" /\ RootOfKnowledge(m) /\ MessageUrls[m] # {}

Sending(m) == Becomes(m, [run[m] EXCEPT !.at = "send"])

\* Knowledge without a thread is not stored: a write needs a fact, a fact a URL of the
\* message.  Discord refuses a second thread on the same message.
Dispatch(m) ==
    /\ run[m].at = "routed"
    /\ \/ /\ run[m].out \in {"silent", "admin"}
          /\ Ended(m, IF run[m].out = "admin" THEN "denied" ELSE "silent")
          /\ UNCHANGED <<evidence, tables, faults>>
       \/ /\ run[m].out \in {"chat", "ingest", "failure", "refusal"} /\ ~OpensThread(m)
          /\ evidence' = IF run[m].out = "ingest" THEN [evidence EXCEPT ![m] = {None}]
                         ELSE evidence
          /\ Sending(m) /\ UNCHANGED <<tables, faults>>
       \/ /\ OpensThread(m) /\ m \notin threads
          /\ threads' = threads \cup {m} /\ Becomes(m, [run[m] EXCEPT !.at = "thread"])
          /\ UNCHANGED <<evidence, sessions, stored, faults>>
       \/ /\ OpensThread(m) /\ m \in threads
          /\ Retried(m) /\ UNCHANGED <<evidence, tables, faults>>

\* Mutant of BoundTo: a session the thread has already is kept.
KeptBinding(thread) == IF bound[thread] = "none" THEN "ingest" ELSE bound[thread]

\* bindSession replaces what the thread is bound to.
BoundTo(thread) == "ingest"

\* Members may write in the thread before it is bound: a session being started for them
\* will replace that of the ingest.
Bind(thread) ==
    /\ bound' = [bound EXCEPT ![thread] = BoundTo(thread)]
    /\ estranged' = IF \E m \in Messages : Home[m] = thread /\ run[m].at = "starting"
                    THEN estranged \cup {thread} ELSE estranged

\* The thread is there: it is bound to the session of the run before knowledge points to it.
ThreadOpened(m) ==
    /\ run[m].at = "thread"
    /\ Bind(m) /\ PersistKnowledge(m, m) /\ Sending(m) /\ UNCHANGED threads

Send(m) ==
    /\ run[m].at = "send"
    /\ Ended(m, "answered")
    /\ UNCHANGED <<evidence, tables, faults>>

(* Failures *)

\* A call of the run fails; what it had set up stays.
Fails(m) ==
    /\ Fault
    /\ run[m].at \in {"starting", "asked", "routed", "send"} \cup Turns
    /\ run[m].at = "routed" => OpensThread(m)
    /\ Retried(m)
    /\ UNCHANGED <<evidence, tables>>

\* The bot dies, also between two statements; recovery runs the open messages again.
Crash ==
    /\ Fault
    /\ run' = [m \in Messages |-> IF run[m].at \in Ends THEN run[m]
                                  ELSE Fresh("waiting", 0)]
    /\ evidence' = [m \in Messages |-> {None}]
    /\ \/ UNCHANGED tables
       \/ \E m \in Messages, n \in 0..Len(Statements) - 1 :
              /\ run[m].at = "thread" /\ Bind(m) /\ Persist(m, m, n)
              /\ cut' = cut \cup {m} /\ UNCHANGED threads

-----------------------------------------------------------------------------
RunStep(m) ==
    \/ Begin(m) \/ ResumeSettles(m) \/ ResumeFails(m) \/ StartSettles(m)
    \/ Ask(m) \/ AnswerTurn(m) \/ Dispatch(m) \/ ThreadOpened(m) \/ Send(m)

Next == Crash \/ \E m \in Messages : RunStep(m) \/ Fails(m)

Spec == Init /\ [][Next]_vars

-----------------------------------------------------------------------------
\* An answer on its way to Discord names only sources its own turn had: URLs of the
\* message, read or fetched in that very turn, or of the knowledge its thread is linked
\* to; and records its place may see or that are linked to its thread.  Two retries, each
\* with observations of its own, lead there.
OnlyOwnSourcesAreSent ==
    \A m \in Messages : run[m].at \in {"routed", "thread", "send"} =>
        \A s \in run[m].cites \cup run[m].writes :
            IF s \in Urls THEN s \in run[m].seen
            ELSE /\ s \in records
                 /\ s.key \in VisibleKeys(m) \/ s \in run[m].linked

\* A message addressed to the bot in a knowledge thread is not answered with silence,
\* whatever its turns bring, unless administrators' diagnostics were asked for.
DirectedFollowUpIsAnswered ==
    \A m \in Directed : FollowUp(m) => run[m].at # "silent"

\* What an ingest was allowed to write is linked to its message when the answer is sent,
\* also when an earlier run of the message has failed after its answer was approved.
ApprovedWritesAreLinked ==
    \A m \in Messages \ cut :
        run[m].at = "send" /\ run[m].out = "ingest" /\ RootOfKnowledge(m) =>
            \A u \in run[m].writes : \E l \in links : l.msg = m /\ l.record.url = u

\* Knowledge a thread is linked to can be read, although the tables are written one by one
\* and an error between them goes unnoticed.
LinkedKnowledgeHasText == \A l \in links : l.record \in texts

\* Whoever is given the knowledge linked to a thread converses in the session that gathered
\* it, also when members wrote in the thread before it was bound and had a session of their
\* own.  Excepted is a thread whose session could not be resumed, and one for which a session
\* was still being started when it was bound: bindSession lets the last call win.
SourceSessionIsKept ==
    \A m \in Messages : run[m].linked # {} =>
        run[m].session = "ingest" \/ Home[m] \in estranged

\* What a run carries from step to step.  Only a turn names sources, and it writes for
\* facts of the message's own URLs; the evidence of an ingest covers its writes until they
\* are stored; a directed follow-up is routed with a visible answer.
RunsAreSound ==
    \A m \in Messages :
        /\ run[m].at = "waiting" => run[m].tries < RetryLimit
        /\ run[m].at \in {"resuming", "starting"} => Home[m] # None
        /\ run[m].linked \subseteq LinkedTo(Home[m])
        /\ run[m].facts \subseteq MessageUrls[m]
        /\ run[m].at \in {"resuming", "starting", "asked"} \cup Turns =>
              run[m].cites = {} /\ run[m].writes = {}
        /\ run[m].writes # {} => run[m].facts # {}
        /\ run[m].at = "thread" => OpensThread(m) /\ m \in threads
        /\ run[m].at \in {"routed", "thread"} /\ run[m].out = "ingest" /\ RootOfKnowledge(m) =>
              run[m].writes \subseteq evidence[m]
        /\ run[m].at = "routed" /\ m \in Directed /\ FollowUp(m) => Visible(run[m].out)

\* What a stored link promises is there: the record's text, and for the follow-up that asks
\* for it the session in which it was gathered.
LinksAreWhole == TypeOK /\ LinkedKnowledgeHasText /\ SourceSessionIsKept

\* A thread with linked knowledge is bound to the session of the ingest, and none is being
\* started for it, or it is estranged.
LinkedThreadsAreBound ==
    \A l \in links : l.thread \in estranged \/
        /\ l.thread \in Messages /\ bound[l.thread] = "ingest"
        /\ \A m \in Messages : Home[m] = l.thread => run[m].at # "starting"

\* The inductive invariant: no part of it is kept without the others.
HarnessInv ==
    /\ LinksAreWhole /\ LinkedThreadsAreBound /\ RunsAreSound
    /\ OnlyOwnSourcesAreSent /\ DirectedFollowUpIsAnswered /\ ApprovedWritesAreLinked
=============================================================================
