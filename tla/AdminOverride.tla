---------------------------- MODULE AdminOverride ----------------------------
(***************************************************************************)
(* One override thread: /override-start with its bootstrap prompt, the     *)
(* opener's and other people's messages in the thread, /override-end, a    *)
(* restart of the bot; on top of the sessions they share.                  *)
(*                                                                         *)
(* The messages of the thread take turns in the ordered queue.  Commands   *)
(* and the bootstrap prompt run beside it.                                 *)
(***************************************************************************)
EXTENDS SessionManager

CONSTANTS Write, Read,         \* the opener's admin_override identity, the thread's conversation
          Start,               \* the /override-start command
          Messages, Opened,    \* messages of the thread, and those of the opener
          Ends,                \* the opener's /override-end commands, given again when they fail
          MaxRestarts          \* bound

ASSUME CallerAssumption ==
    /\ Callers = {Start} \cup Messages \cup Ends /\ Opened \subseteq Messages
    /\ Ends \cap ({Start} \cup Messages) = {} /\ Start \notin Messages
    /\ Identities = {Write, Read} /\ Write # Read
    /\ MaxRestarts \in Nat

VARIABLES override, \* the row of override_session: none, active or ended
          turn,     \* caller -> where routeMessage stands after its session is there
          restarts

overrideVars == <<override, turn, restarts>>
vars == <<sessionVars, faults, overrideVars>>

Turns == {"none", "copying", "intent", "answer", "done", "failed"}

TypeOK ==
    /\ SessionTypeOK
    /\ override \in {"none", "active", "ended"}
    /\ turn \in [Callers -> Turns]
    /\ restarts \in 0..MaxRestarts

Init ==
    /\ SessionInit
    /\ override = "none"
    /\ turn = [k \in Callers |-> "none"]
    /\ restarts = 0

TurnGoes(k, where) == turn' = [turn EXCEPT ![k] = where]
Finished(k) == turn[k] \in {"done", "failed"}

-----------------------------------------------------------------------------
\* getActive and start of the repository.
Active == override = "active"
Activate == override' = "active"

\* The thread is created, the override stored, and the prompt shown in it.
StartOverride ==
    /\ override = "none"
    /\ Activate
    /\ TurnGoes(Start, "copying")
    /\ UNCHANGED <<sessionVars, faults, restarts>>

\* Mutant of HasOverride: the opener keeps the write session after the end.
OpenerHasOverride(k) == k \in Opened \cup {Start}

\* canUseAdminOverrideSession: only the opener, and only while the override is active.
HasOverride(k) == k \in Opened \cup {Start} /\ Active

\* resolveForMessage, once at the start of routeMessage.
Identity(k) == IF HasOverride(k) THEN Write ELSE Read

Route(k) == GetSession(k, Identity(k)) /\ TurnGoes(k, "intent") /\ UNCHANGED faults

\* The copy of the prompt is in the thread: bootstrapPrompt.  If it is not, the
\* command fails and the override stays.
CopySettles ==
    /\ turn[Start] = "copying"
    /\ \/ Route(Start)
       \/ Fault /\ TurnGoes(Start, "failed") /\ UNCHANGED sessionVars
    /\ UNCHANGED <<override, restarts>>

\* The queue runs the next message of the thread.
RunMessage(m) ==
    /\ override # "none"
    /\ turn[m] = "none"
    /\ \A n \in Messages \ {m} : turn[n] = "none" \/ Finished(n)
    /\ Route(m)
    /\ UNCHANGED <<override, restarts>>

\* A session call settles; without a session routeMessage fails.
SessionSettles(k) ==
    /\ SessionStep(k)
    /\ turn' = IF call'[k].step = "failed" THEN [turn EXCEPT ![k] = "failed"] ELSE turn
    /\ UNCHANGED <<override, restarts>>

\* The caller is through with its session.
Leaves(k, where) == TurnGoes(k, where) /\ call' = [call EXCEPT ![k] = NoCall]

\* A turn on an archived thread fails.
TurnFails(k) ==
    /\ IF call[k].thread \in archived THEN UNCHANGED faults ELSE Fault
    /\ Leaves(k, "failed")

\* The intent turn; a wish to write without the override is refused.
IntentSettles(k) ==
    /\ turn[k] = "intent" /\ call[k].step = "ready"
    /\ \/ /\ call[k].thread \notin archived
          /\ TurnGoes(k, "answer")
          /\ UNCHANGED <<call, faults>>
       \/ /\ call[k].thread \notin archived /\ call[k].id = Read
          /\ Leaves(k, "done")
          /\ UNCHANGED faults
       \/ TurnFails(k)
    /\ UNCHANGED <<threadVars, override, restarts>>

\* The answer turn and the dispatch of its reply.
AnswerSettles(k) ==
    /\ turn[k] = "answer" /\ call[k].step = "ready"
    /\ \/ call[k].thread \notin archived /\ Leaves(k, "done") /\ UNCHANGED faults
       \/ TurnFails(k)
    /\ UNCHANGED <<threadVars, override, restarts>>

\* Mutant of EndOverride: the override is ended first.
EndOverrideFirst(e) ==
    /\ turn[e] \in {"none", "failed"}
    /\ Active
    /\ Archive(e, Write)
    /\ override' = "ended"
    /\ TurnGoes(e, IF call'[e].step = "archived" THEN "done" ELSE "answer")
    /\ UNCHANGED <<faults, restarts>>

\* /override-end: the write session is archived first, then the override is ended.
EndOverride(e) ==
    /\ turn[e] \in {"none", "failed"}
    /\ Active
    /\ Archive(e, Write)
    /\ IF call'[e].step = "archived" THEN override' = "ended" /\ TurnGoes(e, "done")
                                     ELSE TurnGoes(e, "answer") /\ UNCHANGED override
    /\ UNCHANGED <<faults, restarts>>

EndSettles(e) ==
    /\ UnsubscribeSettles(e)
    /\ override' = "ended"
    /\ TurnGoes(e, "done")
    /\ UNCHANGED restarts

\* Cache and generation are in memory.
NewProcess == live' = NoThreads /\ generation' = 0 /\ cached' = 0

\* The bot and its child restart; rows stay, interrupted messages are run again.
Restart ==
    /\ restarts < MaxRestarts
    /\ restarts' = restarts + 1
    /\ NewProcess
    /\ since' = [t \in CodexThreads |-> 0] /\ overtaken' = {}
    /\ call' = [k \in Callers |-> NoCall]
    /\ turn' = [k \in Callers |->
                  IF turn[k] = "none" \/ Finished(k) THEN turn[k]
                  ELSE IF k \in Messages THEN "none" ELSE "failed"]
    /\ UNCHANGED <<bound, started, archived, overlapped, faults, override>>

ChangeSkills == SkillsChange /\ UNCHANGED overrideVars

CallerStep(k) == SessionSettles(k) \/ IntentSettles(k) \/ AnswerSettles(k)

Next ==
    \/ StartOverride \/ CopySettles
    \/ \E m \in Messages : RunMessage(m)
    \/ \E k \in Callers \ Ends : CallerStep(k)
    \/ \E e \in Ends : EndOverride(e) \/ SessionSettles(e) \/ EndSettles(e)
    \/ ChangeSkills \/ Restart

Spec == Init /\ [][Next]_vars

-----------------------------------------------------------------------------
\* Once the override has ended and nobody who was let in before is left, there is
\* no write session to come back to, whatever was retried, restarted or refused in
\* between, unless /override-end overlapped with a run (archiveSession, endActive).
EndedMeansClosed ==
    override = "ended" /\ Write \notin overlapped =>
        bound[Write] = None /\ live[Write] = None

\* A write session changes hands only while the override is active or a run that
\* was let in then is still on its way.
WriteNeedsOverride ==
    [][bound'[Write] # bound[Write] /\ bound'[Write] # None =>
         override = "active" \/ Write \in overlapped]_vars

\* A session is taken from the cache only if it knows the present skills, unless their
\* change overtook its start or resumption.
FreshAfterSkillsChange == [][\A k \in Callers : TakenFresh(k)]_vars

\* Nobody but the opener works on a write thread, not even through a thread that
\* was handed to two callers (resolveForMessage, bindSession).
WriteThreadsAreTheOpeners ==
    \A k \in Callers : call[k].step = "ready" /\ k \notin Opened \cup {Start} =>
        call[k].thread # bound[Write]

\* The sessions of the thread: cache, bindings and server agree, and nobody but the opener
\* and the command has one that may write.
SessionInv == TypeOK /\ SessionsAgree /\ WriteThreadsAreTheOpeners
=============================================================================
