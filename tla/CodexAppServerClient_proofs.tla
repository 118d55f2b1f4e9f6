--------------------- MODULE CodexAppServerClient_proofs ---------------------
(***************************************************************************)
(* Every caller of the Codex client gets the message of its own turn, for  *)
(* any turns, threads, children, read attempts and faults.                 *)
(*                                                                         *)
(* The argument is about the threads on which nothing has strayed.  Their  *)
(* callers take turns, so at most one completion is in the books of a      *)
(* thread (Books), and it is that of the one turn the child still works on *)
(* or talks about (HeldByCaller): a notification finds its own caller,     *)
(* although the client looks it up by thread.  A completion line is the    *)
(* last word about its turn (EndsLast), so nothing is left to meet the     *)
(* next one.                                                               *)
(***************************************************************************)
EXTENDS CodexAppServerClient, TLAPS

Notes == {"started", "message", "completed"}
Note(line, u) == line.kind \in Notes /\ line.turn = u
StartOf(u) == [method |-> "start", turn |-> u]
Open(t) == caller[t].step \notin {"idle", "done", "failed"}
Awaited(t) == At(t, "start") \/ At(t, "wait")

\* Child c is to start turn u, works on it, or has words about it on the way.
Holds(c, u) ==
    \/ StartOf(u) \in inbox[c]
    \/ u \in running[c]
    \/ \E i \in DOMAIN out[c] : Note(out[c][i], u)

\* A turn begins once, and the line that it has completed is the last about it.
Orderly(c, u) ==
    /\ u \in running[c] => StartOf(u) \notin inbox[c]
    /\ \A i \in DOMAIN out[c] : Note(out[c][i], u) /\ out[c][i].kind = "completed" =>
          /\ u \notin running[c] /\ StartOf(u) \notin inbox[c]
          /\ \A j \in DOMAIN out[c] : i < j => ~Note(out[c][j], u)

-----------------------------------------------------------------------------
\* What holds however the server behaves.
LinesNameTurns ==
    \A c \in Children : \A i \in DOMAIN out[c] :
        out[c][i].kind \in Notes => out[c][i].turn \in Turns

ProcessFields ==
    client.process = None => ~client.started /\ ~client.starting /\ ~client.idleTimer

DeadAreIdle == \A c \in Children : child[c] = "dead" => running[c] = {} /\ inbox[c] = {}

OwnThreads ==
    /\ \A thread \in Threads : \A i \in DOMAIN client.queue[thread] :
          threadOf[client.queue[thread][i]] = thread
    /\ \A u \in Turns : client.active[u] # None => threadOf[client.active[u]] = threadOf[u]

TakingTurns ==
    \A t, u \in Turns : threadOf[t] = threadOf[u] /\ Open(t) /\ Open(u) => t = u

PendingAreAwaited ==
    \A r \in client.pending :
        r.method # "interrupt" => caller[r.turn] = [step |-> r.method, sent |-> TRUE]

BooksAreKept ==
    /\ ClientInv /\ OwnAnswer
    /\ LinesNameTurns /\ ProcessFields /\ DeadAreIdle
    /\ OwnThreads /\ TakingTurns /\ PendingAreAwaited

\* What holds on threads that have not strayed, while the bot is up.
Books ==
    /\ \A thread \in Threads \ strayed : client.queue[thread] # <<>> =>
          \E t \in Turns : client.queue[thread] = <<t>> /\ Awaited(t) /\ client.active[t] = None
    /\ \A u \in Turns : Regular(u) /\ client.active[u] # None => client.active[u] = u /\ Awaited(u)

Waited ==
    \A t \in Turns : Regular(t) /\ Awaited(t) =>
        t \in Registered(client) \/ (At(t, "start") /\ t \in resolved)

HeldByCaller ==
    client.process # None => \A u \in Turns : Regular(u) /\ Holds(client.process, u) =>
        At(u, "wait") \/ caller[u] = [step |-> "start", sent |-> TRUE]

EndsLast == client.process # None => \A u \in Turns : Regular(u) => Orderly(client.process, u)

ResolvedAreOver ==
    \A u \in Turns : Regular(u) /\ u \in resolved =>
        /\ caller[u].step \notin {"idle", "open", "opened"} /\ u \notin Registered(client)
        /\ At(u, "start") =>
              caller[u].sent /\ (client.process # None => ~Holds(client.process, u))

OwnNames == \A t \in Turns : Regular(t) => bound[t] \in {None, t} /\ heard[t] \in {None, t}

TurnsAreTaken ==
    Books /\ Waited /\ HeldByCaller /\ EndsLast /\ ResolvedAreOver /\ OwnNames

PairingInv == BooksAreKept /\ (~crashed => TurnsAreTaken)

-----------------------------------------------------------------------------
(***************************************************************************)
(* The stdout of a child and the client's books, as sequences.             *)
(***************************************************************************)

\* A line that is read leaves the later ones, in their order.
LEMMA LineRead ==
    ASSUME TypeOK, NEW c \in Children, out[c] # <<>>, ReadLine(c)
    PROVE  /\ out' \in [Children -> Seq(Lines)]
           /\ \A d \in Children \ {c} : out'[d] = out[d]
           /\ Head(out[c]) \in Lines /\ Head(out[c]) = out[c][1] /\ 1 \in DOMAIN out[c]
           /\ \A i \in DOMAIN out'[c] : i \in Nat \ {0} /\ i + 1 \in DOMAIN out[c]
                                          /\ out'[c][i] = out[c][i + 1]
<1>1. out[c] \in Seq(Lines) /\ out' = [out EXCEPT ![c] = Tail(@)]
  BY DEF TypeOK, ReadLine
<1>2. /\ Head(out[c]) \in Lines /\ Head(out[c]) = out[c][1] /\ Tail(out[c]) \in Seq(Lines)
      /\ Len(out[c]) \in Nat \ {0} /\ DOMAIN out[c] = 1..Len(out[c])
      /\ Len(Tail(out[c])) = Len(out[c]) - 1
      /\ DOMAIN Tail(out[c]) = 1..Len(out[c]) - 1
      /\ \A i \in 1..Len(out[c]) - 1 : Tail(out[c])[i] = out[c][i + 1]
  BY <1>1
<1>3. out'[c] = Tail(out[c])
  BY <1>1 DEF TypeOK
<1>4. QED
  BY <1>1, <1>2, <1>3 DEF TypeOK

\* What the child says comes after what it said.
LEMMA LinesSaid ==
    ASSUME TypeOK, NEW c \in Children, NEW lines \in Seq(Lines), Says(c, lines)
    PROVE  /\ out' \in [Children -> Seq(Lines)]
           /\ \A d \in Children \ {c} : out'[d] = out[d]
           /\ Len(out[c]) \in Nat /\ DOMAIN out[c] = 1..Len(out[c])
           /\ DOMAIN out'[c] = 1..Len(out[c]) + Len(lines)
           /\ \A i \in 1..Len(out[c]) : out'[c][i] = out[c][i]
           /\ \A i \in 1..Len(lines) : out'[c][Len(out[c]) + i] = lines[i]
<1>1. out[c] \in Seq(Lines) /\ out' = [out EXCEPT ![c] = @ \o lines]
  BY DEF TypeOK, Says
<1>2. /\ out[c] \o lines \in Seq(Lines)
      /\ Len(out[c]) \in Nat /\ Len(lines) \in Nat /\ DOMAIN out[c] = 1..Len(out[c])
      /\ DOMAIN (out[c] \o lines) = 1..Len(out[c]) + Len(lines)
      /\ \A i \in 1..Len(out[c]) : (out[c] \o lines)[i] = out[c][i]
      /\ \A i \in 1..Len(lines) : (out[c] \o lines)[Len(out[c]) + i] = lines[i]
  BY <1>1
<1>3. out'[c] = out[c] \o lines
  BY <1>1 DEF TypeOK
<1>4. QED
  BY <1>1, <1>2, <1>3 DEF TypeOK

\* Who has a completion in the client's books.
LEMMA WhoIsRegistered ==
    ASSUME NEW cl, NEW u
    PROVE  u \in Registered(cl) <=>
              \/ \E thread \in Threads : \E i \in DOMAIN cl.queue[thread] : cl.queue[thread][i] = u
              \/ u # None /\ \E t \in Turns : cl.active[t] = u
BY DEF Registered, Queued, ToSet

\* One line makes a stream of lines.
LEMMA OneLine ==
    ASSUME NEW a \in Lines
    PROVE  <<a>> \in Seq(Lines) /\ Len(<<a>>) = 1 /\ <<a>>[1] = a
OBVIOUS

\* So do two.
LEMMA TwoLines ==
    ASSUME NEW a \in Lines, NEW b \in Lines
    PROVE  /\ <<a, b>> \in Seq(Lines) /\ Len(<<a, b>>) = 2
           /\ <<a, b>>[1] = a /\ <<a, b>>[2] = b
OBVIOUS

\* The lines the server says are lines.
LEMMA LinesAreLines ==
    ASSUME NEW kind \in {"initialized", "started", "message", "completed"} \cup Methods,
           NEW t \in Turns \cup {None}, NEW ok \in BOOLEAN
    PROVE  Line(kind, t, ok) \in Lines
BY DEF Line, Lines, Methods

-----------------------------------------------------------------------------
(***************************************************************************)
(* The server.                                                             *)
(***************************************************************************)

\* A child that speaks about a turn only while it has it, and ends with the
\* completion, stays orderly.
LEMMA SpeakingKeepsOrder ==
    ASSUME TypeOK, NEW c \in Children, NEW lines \in Seq(Lines), Says(c, lines),
           NEW u \in Turns, Orderly(c, u),
           StartOf(u) \in inbox'[c] => StartOf(u) \in inbox[c] /\ u \notin running'[c],
           u \in running'[c] => u \in running[c] \/ StartOf(u) \in inbox[c],
           \A i \in 1..Len(lines) : Note(lines[i], u) =>
               /\ u \in running[c] \/ StartOf(u) \in inbox[c]
               /\ lines[i].kind = "completed" =>
                     i = Len(lines) /\ u \notin running'[c] /\ StartOf(u) \notin inbox'[c]
    PROVE  Orderly(c, u)' /\ (Holds(c, u)' => Holds(c, u))
<1> DEFINE n == Len(out[c])
<1>1. /\ n \in Nat /\ Len(lines) \in Nat /\ DOMAIN out[c] = 1..n
      /\ DOMAIN out'[c] = 1..n + Len(lines)
      /\ \A i \in 1..n : out'[c][i] = out[c][i]
      /\ \A i \in 1..Len(lines) : out'[c][n + i] = lines[i]
  BY LinesSaid
<1>2. \A i \in DOMAIN out'[c] : \/ i \in DOMAIN out[c] /\ out'[c][i] = out[c][i]
                                \/ \E k \in 1..Len(lines) : i = n + k /\ out'[c][i] = lines[k]
  <2> TAKE i \in DOMAIN out'[c]
  <2>1. CASE i <= n
    BY <1>1, <2>1
  <2>2. CASE i > n
    <3>1. i - n \in 1..Len(lines) /\ i = n + (i - n)
      BY <1>1, <2>2
    <3>2. QED
      BY <1>1, <3>1
  <2>3. QED
    BY <1>1, <2>1, <2>2
<1>3. Holds(c, u)' => Holds(c, u)
  BY <1>2 DEF Holds
<1>4. u \in running'[c] => StartOf(u) \notin inbox'[c]
  OBVIOUS
<1>5. ASSUME NEW i \in DOMAIN out'[c], Note(out'[c][i], u), out'[c][i].kind = "completed"
      PROVE  /\ u \notin running'[c] /\ StartOf(u) \notin inbox'[c]
             /\ \A j \in DOMAIN out'[c] : i < j => ~Note(out'[c][j], u)
  <2>1. CASE i \in DOMAIN out[c] /\ out'[c][i] = out[c][i]
    <3>1. /\ u \notin running[c] /\ StartOf(u) \notin inbox[c]
          /\ \A j \in DOMAIN out[c] : i < j => ~Note(out[c][j], u)
      BY <1>5, <2>1 DEF Orderly
    <3>2. QED
      BY <1>2, <3>1
  <2>2. ASSUME NEW k \in 1..Len(lines), i = n + k, out'[c][i] = lines[k]
        PROVE  /\ u \notin running'[c] /\ StartOf(u) \notin inbox'[c]
               /\ \A j \in DOMAIN out'[c] : i < j => ~Note(out'[c][j], u)
    <3>1. k = Len(lines) /\ u \notin running'[c] /\ StartOf(u) \notin inbox'[c]
      BY <1>5, <2>2
    <3>2. \A j \in DOMAIN out'[c] : ~(i < j)
      BY <1>1, <2>2, <3>1
    <3>3. QED
      BY <3>1, <3>2
  <2>3. QED
    BY <1>2, <2>1, <2>2
<1>6. QED
  BY <1>3, <1>4, <1>5 DEF Orderly

\* Steps that leave callers and completions alone.  Of its process the client
\* may only lose sight.
LEMMA CallersStay ==
    ASSUME PairingInv, ~crashed, UNCHANGED <<threadOf, callerVars, crashed, strayed>>,
           client'.queue = client.queue, client'.active = client.active,
           client.process \in Children \cup {None},
           client'.process \in {client.process, None},
           TypeOK', OneServer', LinesNameTurns', DeadAreIdle', ProcessFields',
           NothingPendsOnNobody', PendingAreAwaited',
           \A c \in Children : \A u \in Turns :
               Orderly(c, u) => Orderly(c, u)' /\ (Holds(c, u)' => Holds(c, u))
    PROVE  PairingInv'
<1> USE DEF callerVars
<1>1. ClientInv' /\ OwnAnswer'
  BY DEF PairingInv, BooksAreKept, ClientInv, OwnAnswer, NoOneForgotten,
         Regular, At, Registered, Queued
<1>2. OwnThreads' /\ TakingTurns'
  BY DEF PairingInv, BooksAreKept, OwnThreads, TakingTurns, Open
<1>3. Books' /\ Waited' /\ OwnNames'
  BY DEF PairingInv, TurnsAreTaken, Books, Waited, OwnNames, Regular, Awaited, At, Registered, Queued
<1>4. EndsLast'
  BY DEF PairingInv, TurnsAreTaken, EndsLast, Regular
<1>5. HeldByCaller'
  BY DEF PairingInv, TurnsAreTaken, EndsLast, HeldByCaller, Regular, At
<1>6. ResolvedAreOver'
  BY DEF PairingInv, TurnsAreTaken, EndsLast, ResolvedAreOver, Regular, At, Registered, Queued
<1>7. QED
  BY <1>1, <1>2, <1>3, <1>4, <1>5, <1>6 DEF PairingInv, BooksAreKept, TurnsAreTaken

\* What the server does leaves the client as it is; it may only talk about what
\* it had.
LEMMA ServerKeeps ==
    ASSUME PairingInv, ~crashed, UNCHANGED <<threadOf, client, callerVars, crashed, strayed>>,
           TypeOK', OneServer', LinesNameTurns', DeadAreIdle',
           \A c \in Children : \A u \in Turns :
               Orderly(c, u) => Orderly(c, u)' /\ (Holds(c, u)' => Holds(c, u))
    PROVE  PairingInv'
<1>1. client.process \in Children \cup {None}
  BY DEF PairingInv, BooksAreKept, ClientInv, TypeOK
<1>2. ProcessFields' /\ NothingPendsOnNobody' /\ PendingAreAwaited'
  BY DEF PairingInv, BooksAreKept, ClientInv, ProcessFields, NothingPendsOnNobody,
         PendingAreAwaited, Registered, Queued, callerVars
<1>3. QED
  BY <1>1, <1>2, CallersStay

\* The last child's lines name turns when the new ones do.
LEMMA LinesStillNameTurns ==
    ASSUME TypeOK, LinesNameTurns, NEW c \in Children, NEW lines \in Seq(Lines), Says(c, lines),
           \A i \in 1..Len(lines) : lines[i].kind \in Notes => lines[i].turn \in Turns
    PROVE  LinesNameTurns'
<1> DEFINE n == Len(out[c])
<1>1. /\ n \in Nat /\ Len(lines) \in Nat /\ DOMAIN out[c] = 1..n
      /\ DOMAIN out'[c] = 1..n + Len(lines)
      /\ \A i \in 1..n : out'[c][i] = out[c][i]
      /\ \A i \in 1..Len(lines) : out'[c][n + i] = lines[i]
      /\ \A d \in Children \ {c} : out'[d] = out[d]
  BY LinesSaid
<1>2. ASSUME NEW i \in DOMAIN out'[c], out'[c][i].kind \in Notes
      PROVE  out'[c][i].turn \in Turns
  <2>1. CASE i <= n
    BY <1>1, <1>2, <2>1 DEF LinesNameTurns
  <2>2. CASE i > n
    <3>1. i - n \in 1..Len(lines) /\ i = n + (i - n)
      BY <1>1, <2>2
    <3>2. QED
      BY <1>1, <1>2, <3>1
  <2>3. QED
    BY <1>1, <2>1, <2>2
<1>3. QED
  BY <1>1, <1>2 DEF LinesNameTurns

\* A turn is worked off: its message, if it has one, and its completion come last.
LEMMA FinishTurnKeeps ==
    ASSUME PairingInv, ~crashed, UNCHANGED threadOf,
           NEW c \in Children, NEW t \in Turns, FinishTurn(c, t)
    PROVE  PairingInv'
<1>1. TypeOK /\ LinesNameTurns /\ DeadAreIdle /\ OneServer
  BY DEF PairingInv, BooksAreKept, ClientInv
<1>2. PICK lines \in Seq(Lines) :
        /\ Says(c, lines)
        /\ \A i \in 1..Len(lines) : lines[i].turn = t /\ (lines[i].kind = "completed" => i = Len(lines))
  <2>1. CASE Says(c, <<Line("message", t, TRUE), Line("completed", t, TRUE)>>)
    <3>1. Line("message", t, TRUE) \in Lines /\ Line("completed", t, TRUE) \in Lines
      BY LinesAreLines
    <3> DEFINE words == <<Line("message", t, TRUE), Line("completed", t, TRUE)>>
    <3>2. /\ words \in Seq(Lines) /\ Len(words) = 2
          /\ words[1] = Line("message", t, TRUE) /\ words[2] = Line("completed", t, TRUE)
      BY <3>1, TwoLines
    <3>3. \A i \in 1..Len(words) :
             words[i].turn = t /\ (words[i].kind = "completed" => i = Len(words))
      BY <3>2 DEF Line
    <3>4. QED
      BY <2>1, <3>2, <3>3
  <2>2. ASSUME NEW ok \in BOOLEAN, Says(c, <<Line("completed", t, ok)>>)
        PROVE  \E lines \in Seq(Lines) :
                  /\ Says(c, lines)
                  /\ \A i \in 1..Len(lines) :
                        lines[i].turn = t /\ (lines[i].kind = "completed" => i = Len(lines))
    <3>1. Line("completed", t, ok) \in Lines
      BY LinesAreLines
    <3> DEFINE words == <<Line("completed", t, ok)>>
    <3>2. words \in Seq(Lines) /\ Len(words) = 1 /\ words[1] = Line("completed", t, ok)
      BY <3>1, OneLine
    <3>3. \A i \in 1..Len(words) :
             words[i].turn = t /\ (words[i].kind = "completed" => i = Len(words))
      BY <3>2 DEF Line
    <3>4. QED
      BY <2>2, <3>2, <3>3
  <2>3. QED
    BY <2>1, <2>2 DEF FinishTurn
<1>3. /\ running' = [running EXCEPT ![c] = @ \ {t}] /\ t \in running[c]
      /\ UNCHANGED <<client, callerVars, child, told, inbox, crashed, strayed>>
      /\ faults' \in 0..MaxFaults
  BY <1>1, AttemptAssumption DEF FinishTurn, TypeOK
<1>4. out' \in [Children -> Seq(Lines)] /\ \A d \in Children \ {c} : out'[d] = out[d]
  BY <1>1, <1>2, LinesSaid
<1>5. running' \in [Children -> SUBSET Turns]
  BY <1>1, <1>3 DEF TypeOK
<1>6. TypeOK'
  BY <1>1, <1>3, <1>4, <1>5 DEF TypeOK, callerVars
<1>7. DeadAreIdle' /\ OneServer'
  BY <1>1, <1>3 DEF DeadAreIdle, OneServer, TypeOK
<1>8. LinesNameTurns'
  BY <1>1, <1>2, LinesStillNameTurns
<1>9. ASSUME NEW d \in Children, NEW u \in Turns, Orderly(d, u)
      PROVE  Orderly(d, u)' /\ (Holds(d, u)' => Holds(d, u))
  <2>1. CASE d # c
    BY <1>1, <1>3, <1>4, <1>9, <2>1 DEF Orderly, Holds, TypeOK
  <2>2. CASE d = c
    <3>1. /\ inbox'[c] = inbox[c] /\ running'[c] = running[c] \ {t}
      BY <1>1, <1>3 DEF TypeOK
    <3>2. u \in running[c] => StartOf(u) \notin inbox[c]
      BY <1>9, <2>2 DEF Orderly
    <3>3. StartOf(u) \in inbox'[c] => StartOf(u) \in inbox[c] /\ u \notin running'[c]
      BY <3>1, <3>2
    <3>4. u \in running'[c] => u \in running[c] \/ StartOf(u) \in inbox[c]
      BY <3>1
    <3>5. \A i \in 1..Len(lines) : Note(lines[i], u) =>
               /\ u \in running[c] \/ StartOf(u) \in inbox[c]
               /\ lines[i].kind = "completed" =>
                     i = Len(lines) /\ u \notin running'[c] /\ StartOf(u) \notin inbox'[c]
      BY <1>2, <1>3, <3>1, <3>2 DEF Note
    <3>6. QED
      BY <1>1, <1>2, <1>9, <2>2, <3>3, <3>4, <3>5, SpeakingKeepsOrder
  <2>3. QED
    BY <2>1, <2>2
<1>10. QED
  BY <1>3, <1>6, <1>7, <1>8, <1>9, ServerKeeps

\* What serving a request comes to: lines about turns the child has, or is asked
\* to start by this request.
Speech(c, request, lines) ==
    /\ Says(c, lines) /\ faults' \in 0..MaxFaults
    /\ running' \in [Children -> SUBSET Turns]
    /\ \A d \in Children \ {c} : running'[d] = running[d]
    /\ \A u \in running'[c] : u \in running[c] \/ request = StartOf(u)
    /\ \A i \in 1..Len(lines) : lines[i].kind \in Notes =>
          /\ lines[i].turn \in Turns
          /\ lines[i].turn \in running[c] \/ request = StartOf(lines[i].turn)
          /\ lines[i].kind = "completed" =>
                /\ i = Len(lines)
                /\ lines[i].turn \in running[c] /\ lines[i].turn \notin running'[c]

\* Whatever the server answers, it is such a speech.
LEMMA ServingSpeaks ==
    ASSUME TypeOK, NEW c \in Children, Serve(c)
    PROVE  \E request \in inbox[c] : \E lines \in Seq(Lines) :
               inbox' = [inbox EXCEPT ![c] = @ \ {request}] /\ Speech(c, request, lines)
<1> DEFINE Served(request) ==
        /\ inbox' = [inbox EXCEPT ![c] = @ \ {request}]
        /\ \/ /\ request.method = "initialize"
              /\ Says(c, <<Line("initialized", None, TRUE)>>)
              /\ UNCHANGED <<running, faults>>
           \/ /\ request.method = "open"
              /\ Says(c, <<Line("open", request.turn, TRUE)>>)
              /\ UNCHANGED <<running, faults>>
           \/ request.method \in Methods \ {"interrupt"} /\ Refuses(c, request)
           \/ request.method = "start" /\ Accepts(c, request.turn)
           \/ /\ request.method = "read"
              /\ \E found \in BOOLEAN :
                    Says(c, <<[Line("read", request.turn, TRUE) EXCEPT !.found = found]>>)
              /\ UNCHANGED <<running, faults>>
           \/ /\ request.method = "interrupt" /\ request.turn \in running[c]
              /\ Says(c, <<Line("interrupt", request.turn, TRUE), Line("completed", request.turn, FALSE)>>)
              /\ running' = [running EXCEPT ![c] = @ \ {request.turn}]
              /\ UNCHANGED faults
           \/ /\ request.method = "interrupt" /\ request.turn \notin running[c]
              /\ Says(c, <<Line("interrupt", request.turn, FALSE)>>)
              /\ UNCHANGED <<running, faults>>
<1>1. PICK request \in inbox[c] : Served(request)
  BY DEF Serve
<1> DEFINE t == request.turn
<1>2. \/ request \in Requests
      \/ request = [method |-> "initialize", turn |-> None]
  BY DEF TypeOK
<1>3. t \in Turns \cup {None} /\ (request.method \in Methods => t \in Turns)
  BY <1>2 DEF Requests, Methods
<1>4. running \in [Children -> SUBSET Turns] /\ faults \in 0..MaxFaults /\ MaxFaults \in Nat
  BY AttemptAssumption DEF TypeOK
<1>5. ASSUME NEW a \in Lines, Says(c, <<a>>), a.kind \notin Notes, UNCHANGED running,
             faults' \in 0..MaxFaults
      PROVE  \E lines \in Seq(Lines) : Speech(c, request, lines)
  <2>1. <<a>> \in Seq(Lines) /\ Len(<<a>>) = 1 /\ <<a>>[1] = a
    BY OneLine
  <2>2. Speech(c, request, <<a>>)
    BY <1>4, <1>5, <2>1 DEF Speech
  <2>3. QED
    BY <2>1, <2>2
<1>6. CASE request.method = "initialize"
           /\ Says(c, <<Line("initialized", None, TRUE)>>) /\ UNCHANGED <<running, faults>>
  <2>1. Line("initialized", None, TRUE) \in Lines
    BY LinesAreLines
  <2>2. Line("initialized", None, TRUE).kind \notin Notes
    BY DEF Line, Notes
  <2>3. QED
    BY <1>1, <1>4, <1>5, <1>6, <2>1, <2>2
<1>7. CASE request.method = "open"
           /\ Says(c, <<Line("open", t, TRUE)>>) /\ UNCHANGED <<running, faults>>
  <2>1. Line("open", t, TRUE) \in Lines
    BY <1>3, LinesAreLines DEF Methods
  <2>2. Line("open", t, TRUE).kind \notin Notes
    BY DEF Line, Notes
  <2>3. QED
    BY <1>1, <1>4, <1>5, <1>7, <2>1, <2>2
<1>8. CASE request.method \in Methods \ {"interrupt"} /\ Refuses(c, request)
  <2>1. Line(request.method, t, FALSE) \in Lines
    BY <1>3, <1>8, LinesAreLines
  <2>2. Line(request.method, t, FALSE).kind \notin Notes
    BY <1>8 DEF Line, Notes, Methods
  <2>3. faults' \in 0..MaxFaults
    BY <1>4, <1>8 DEF Refuses
  <2>4. QED
    BY <1>1, <1>5, <1>8, <2>1, <2>2, <2>3 DEF Refuses
<1>9. CASE request.method = "start" /\ Accepts(c, t)
  <2>1. /\ request = StartOf(t) /\ t \in Turns
        /\ running' = [running EXCEPT ![c] = @ \cup {t}] /\ UNCHANGED faults
    BY <1>2, <1>3, <1>9 DEF StartOf, Requests, Methods, Accepts
  <2>2. /\ Line("start", t, TRUE) \in Lines /\ Line("started", t, TRUE) \in Lines
        /\ Line("start", t, TRUE).kind = "start" /\ Line("started", t, TRUE).kind = "started"
        /\ Line("started", t, TRUE).turn = t
    BY <2>1, LinesAreLines DEF Methods, Line
  <2>3. PICK a \in Lines, b \in Lines :
           /\ Says(c, <<a, b>>)
           /\ a.kind = "start" \/ (a.kind = "started" /\ a.turn = t)
           /\ b.kind = "start" \/ (b.kind = "started" /\ b.turn = t)
    BY <1>9, <2>2 DEF Accepts
  <2>4. <<a, b>> \in Seq(Lines) /\ Len(<<a, b>>) = 2 /\ <<a, b>>[1] = a /\ <<a, b>>[2] = b
    BY TwoLines
  <2>5. Speech(c, request, <<a, b>>)
    BY <1>4, <2>1, <2>3, <2>4 DEF Speech, Notes
  <2>6. QED
    BY <1>1, <2>4, <2>5
<1>10. ASSUME NEW found \in BOOLEAN, request.method = "read", UNCHANGED <<running, faults>>,
              Says(c, <<[Line("read", t, TRUE) EXCEPT !.found = found]>>)
       PROVE  \E lines \in Seq(Lines) : Speech(c, request, lines)
  <2>1. Line("read", t, TRUE) \in Lines
    BY <1>3, <1>10, LinesAreLines DEF Methods
  <2>2. /\ [Line("read", t, TRUE) EXCEPT !.found = found] \in Lines
        /\ [Line("read", t, TRUE) EXCEPT !.found = found].kind \notin Notes
    BY <2>1 DEF Line, Notes, Lines
  <2>3. QED
    BY <1>4, <1>5, <1>10, <2>2
<1>11. CASE /\ request.method = "interrupt" /\ t \in running[c]
            /\ Says(c, <<Line("interrupt", t, TRUE), Line("completed", t, FALSE)>>)
            /\ running' = [running EXCEPT ![c] = @ \ {t}]
            /\ UNCHANGED faults
  <2> DEFINE a == Line("interrupt", t, TRUE)
             b == Line("completed", t, FALSE)
  <2>1. t \in Turns
    BY <1>3, <1>11 DEF Methods
  <2>2. /\ a \in Lines /\ b \in Lines
        /\ a.kind = "interrupt" /\ b.kind = "completed" /\ b.turn = t
    BY <2>1, LinesAreLines DEF Methods, Line
  <2>3. <<a, b>> \in Seq(Lines) /\ Len(<<a, b>>) = 2 /\ <<a, b>>[1] = a /\ <<a, b>>[2] = b
    BY <2>2, TwoLines
  <2>4. Speech(c, request, <<a, b>>)
    <3> HIDE DEF a, b
    <3>1. Says(c, <<a, b>>)
      BY <1>11 DEF a, b
    <3>2. QED
      BY <1>4, <1>11, <2>1, <2>2, <2>3, <3>1 DEF Speech, Notes
  <2>5. QED
    BY <1>1, <2>3, <2>4
<1>12. CASE /\ request.method = "interrupt"
            /\ Says(c, <<Line("interrupt", t, FALSE)>>) /\ UNCHANGED <<running, faults>>
  <2>1. Line("interrupt", t, FALSE) \in Lines
    BY <1>3, <1>12, LinesAreLines DEF Methods
  <2>2. Line("interrupt", t, FALSE).kind \notin Notes
    BY DEF Line, Notes
  <2>3. QED
    BY <1>1, <1>4, <1>5, <1>12, <2>1, <2>2
<1>13. CASE /\ request.method = "read"
            /\ \E found \in BOOLEAN :
                  Says(c, <<[Line("read", t, TRUE) EXCEPT !.found = found]>>)
            /\ UNCHANGED <<running, faults>>
  BY <1>1, <1>10, <1>13
<1>14. QED
  BY <1>1, <1>6, <1>7, <1>8, <1>9, <1>11, <1>12, <1>13

\* The server handles a request.
LEMMA ServeKeeps ==
    ASSUME PairingInv, ~crashed, UNCHANGED threadOf, NEW c \in Children, Serve(c)
    PROVE  PairingInv'
<1>1. TypeOK /\ LinesNameTurns /\ DeadAreIdle /\ OneServer
  BY DEF PairingInv, BooksAreKept, ClientInv
<1>2. PICK request \in inbox[c] : \E lines \in Seq(Lines) :
         inbox' = [inbox EXCEPT ![c] = @ \ {request}] /\ Speech(c, request, lines)
  BY <1>1, ServingSpeaks
<1>3. PICK lines \in Seq(Lines) :
         inbox' = [inbox EXCEPT ![c] = @ \ {request}] /\ Speech(c, request, lines)
  BY <1>2
<1>4. child[c] # "dead" /\ UNCHANGED <<client, callerVars, child, told, crashed, strayed>>
  BY DEF Serve
<1>5. /\ inbox'[c] = inbox[c] \ {request} /\ \A d \in Children \ {c} : inbox'[d] = inbox[d]
      /\ inbox' \in [Children -> SUBSET (Requests \cup {[method |-> "initialize", turn |-> None]})]
  BY <1>1, <1>3 DEF TypeOK
<1>6. Says(c, lines)
  BY <1>3 DEF Speech
<1>7. out' \in [Children -> Seq(Lines)] /\ \A d \in Children \ {c} : out'[d] = out[d]
  BY <1>1, <1>6, LinesSaid
<1>8. /\ running' \in [Children -> SUBSET Turns] /\ faults' \in 0..MaxFaults
      /\ \A d \in Children \ {c} : running'[d] = running[d]
  BY <1>3 DEF Speech
<1>9. TypeOK'
  BY <1>1, <1>4, <1>5, <1>7, <1>8 DEF TypeOK, callerVars
<1>10. DeadAreIdle' /\ OneServer'
  BY <1>1, <1>4, <1>5, <1>8 DEF DeadAreIdle, OneServer
<1>11. LinesNameTurns'
  <2>1. \A i \in 1..Len(lines) : lines[i].kind \in Notes => lines[i].turn \in Turns
    BY <1>3 DEF Speech
  <2>2. QED
    BY <1>1, <1>6, <2>1, LinesStillNameTurns
<1>12. ASSUME NEW d \in Children, NEW u \in Turns, Orderly(d, u)
       PROVE  Orderly(d, u)' /\ (Holds(d, u)' => Holds(d, u))
  <2>1. CASE d # c
    BY <1>5, <1>7, <1>8, <1>12, <2>1 DEF Orderly, Holds
  <2>2. CASE d = c
    <3>1. u \in running[c] => StartOf(u) \notin inbox[c]
      BY <1>12, <2>2 DEF Orderly
    <3>2. u \in running'[c] => u \in running[c] \/ request = StartOf(u)
      BY <1>3 DEF Speech
    <3>3. StartOf(u) \in inbox'[c] => StartOf(u) \in inbox[c] /\ u \notin running'[c]
      BY <1>5, <3>1, <3>2
    <3>4. u \in running'[c] => u \in running[c] \/ StartOf(u) \in inbox[c]
      BY <1>3, <3>2
    <3>5. \A i \in 1..Len(lines) : Note(lines[i], u) =>
               /\ u \in running[c] \/ StartOf(u) \in inbox[c]
               /\ lines[i].kind = "completed" =>
                     i = Len(lines) /\ u \notin running'[c] /\ StartOf(u) \notin inbox'[c]
      BY <1>3, <1>5, <3>1 DEF Speech, Note
    <3>6. QED
      BY <1>1, <1>6, <1>12, <2>2, <3>3, <3>4, <3>5, SpeakingKeepsOrder
  <2>3. QED
    BY <2>1, <2>2
<1>13. QED
  BY <1>4, <1>9, <1>10, <1>11, <1>12, ServerKeeps

\* A child that dies forgets what it had; its lines are still read.
LEMMA DieKeeps ==
    ASSUME PairingInv, ~crashed, UNCHANGED threadOf, NEW c \in Children, Die(c),
           faults' \in 0..MaxFaults
    PROVE  PairingInv'
<1>1. TypeOK /\ LinesNameTurns /\ DeadAreIdle /\ OneServer
  BY DEF PairingInv, BooksAreKept, ClientInv
<1>2. /\ UNCHANGED <<client, callerVars, told, out, crashed, strayed>>
      /\ \A d \in Children : running'[d] \subseteq running[d] /\ inbox'[d] \subseteq inbox[d]
      /\ running' \in [Children -> SUBSET Turns]
      /\ inbox' \in [Children -> SUBSET (Requests \cup {[method |-> "initialize", turn |-> None]})]
      /\ child' \in [Children -> {"dead", "running", "broken"}]
      /\ \A d \in Children : child'[d] = "dead" <=> child[d] = "dead" \/ d = c
      /\ running'[c] = {} /\ inbox'[c] = {}
  BY <1>1 DEF Die, TypeOK
<1>3. TypeOK'
  BY <1>1, <1>2 DEF TypeOK, callerVars
<1>4. DeadAreIdle' /\ OneServer' /\ LinesNameTurns'
  BY <1>1, <1>2 DEF DeadAreIdle, OneServer, LinesNameTurns
<1>5. \A d \in Children : \A u \in Turns :
         Orderly(d, u) => Orderly(d, u)' /\ (Holds(d, u)' => Holds(d, u))
  BY <1>2 DEF Orderly, Holds
<1>6. QED
  BY <1>2, <1>3, <1>4, <1>5, ServerKeeps

\* A child whose stdin has broken still talks.
LEMMA BreakStdinKeeps ==
    ASSUME PairingInv, ~crashed, UNCHANGED threadOf, NEW c \in Children, BreakStdin(c)
    PROVE  PairingInv'
<1>1. TypeOK /\ LinesNameTurns /\ DeadAreIdle /\ OneServer
  BY DEF PairingInv, BooksAreKept, ClientInv
<1>2. /\ UNCHANGED <<client, callerVars, told, inbox, running, out, crashed, strayed>>
      /\ child' \in [Children -> {"dead", "running", "broken"}]
      /\ \A d \in Children : child'[d] = "dead" <=> child[d] = "dead"
      /\ faults' \in 0..MaxFaults
  BY <1>1, AttemptAssumption DEF BreakStdin, TypeOK
<1>3. TypeOK'
  BY <1>1, <1>2 DEF TypeOK, callerVars
<1>4. DeadAreIdle' /\ OneServer' /\ LinesNameTurns'
  BY <1>1, <1>2 DEF DeadAreIdle, OneServer, LinesNameTurns
<1>5. \A d \in Children : \A u \in Turns :
         Orderly(d, u) => Orderly(d, u)' /\ (Holds(d, u)' => Holds(d, u))
  BY <1>2 DEF Orderly, Holds
<1>6. QED
  BY <1>2, <1>3, <1>4, <1>5, ServerKeeps

-----------------------------------------------------------------------------
(***************************************************************************)
(* A client that loses its process, and one that gets a new one.           *)
(***************************************************************************)
Clients == [process : Children \cup {None}, started : BOOLEAN, starting : BOOLEAN,
            idleTimer : BOOLEAN, pending : SUBSET Requests,
            queue : [Threads -> Seq(Turns)], active : [Turns -> Turns \cup {None}]]

\* A client that has dropped everything knows nobody.
LEMMA DroppedClient ==
    ASSUME NEW cl \in Clients
    PROVE  /\ Dropped(cl) \in Clients
           /\ Dropped(cl).process = None /\ ~Dropped(cl).started /\ ~Dropped(cl).starting
           /\ ~Dropped(cl).idleTimer /\ Dropped(cl).pending = {}
           /\ \A thread \in Threads : Dropped(cl).queue[thread] = <<>>
           /\ \A t \in Turns : Dropped(cl).active[t] = None
           /\ Registered(Dropped(cl)) = {}
<1> DEFINE noQueues == [thread \in Threads |-> <<>>]
           nobody == [t \in Turns |-> None]
<1>1. /\ noQueues \in [Threads -> Seq(Turns)] /\ nobody \in [Turns -> Turns \cup {None}]
      /\ \A thread \in Threads : noQueues[thread] = <<>>
      /\ \A t \in Turns : nobody[t] = None
  OBVIOUS
<1>2. Dropped(cl) = [cl EXCEPT !.process = None, !.started = FALSE, !.starting = FALSE,
                               !.idleTimer = FALSE, !.pending = {}, !.queue = noQueues,
                               !.active = nobody]
  BY DEF Dropped
<1> HIDE DEF noQueues, nobody
<1>3. /\ Dropped(cl) \in Clients
      /\ Dropped(cl).process = None /\ ~Dropped(cl).started /\ ~Dropped(cl).starting
      /\ ~Dropped(cl).idleTimer /\ Dropped(cl).pending = {}
      /\ Dropped(cl).queue = noQueues /\ Dropped(cl).active = nobody
  BY <1>1, <1>2 DEF Clients
<1>4. /\ Dropped(cl) \in Clients
      /\ Dropped(cl).process = None /\ ~Dropped(cl).started /\ ~Dropped(cl).starting
      /\ ~Dropped(cl).idleTimer /\ Dropped(cl).pending = {}
      /\ \A thread \in Threads : Dropped(cl).queue[thread] = <<>>
      /\ \A t \in Turns : Dropped(cl).active[t] = None
  BY <1>1, <1>3
<1>5. \A u : u \notin Registered(Dropped(cl))
  BY <1>4, WhoIsRegistered
<1>6. QED
  BY <1>4, <1>5

\* A new child is clean: nothing of an earlier process of its id is left.
LEMMA SpawnedClient ==
    ASSUME TypeOK, DeadAreIdle, NEW cl \in Clients, NEW c \in FreeChildren, Spawn(cl, c),
           UNCHANGED <<running, out>>
    PROVE  /\ c \in Children /\ c # client.process
           /\ client' \in Clients
           /\ client'.process = c /\ client'.started = cl.started /\ client'.starting
           /\ ~client'.idleTimer /\ client'.pending = cl.pending
           /\ client'.queue = cl.queue /\ client'.active = cl.active
           /\ Registered(client') = Registered(cl)
           /\ child' \in [Children -> {"dead", "running", "broken"}] /\ child'[c] = "running"
           /\ inbox' \in [Children -> SUBSET (Requests \cup {[method |-> "initialize", turn |-> None]})]
           /\ \A d \in Children \ {c} : child'[d] = child[d] /\ inbox'[d] = inbox[d]
           /\ \A u \in Turns : Orderly(c, u)' /\ ~Holds(c, u)'
<1>1. c \in Children /\ c # client.process /\ child[c] = "dead" /\ out[c] = <<>>
  BY DEF FreeChildren
<1>2. /\ client' = [cl EXCEPT !.process = c, !.starting = TRUE, !.idleTimer = FALSE]
      /\ child' = [child EXCEPT ![c] = "running"]
      /\ inbox' = [inbox EXCEPT ![c] = {[method |-> "initialize", turn |-> None]}]
  BY DEF Spawn
<1>3. /\ client' \in Clients
      /\ client'.process = c /\ client'.started = cl.started /\ client'.starting
      /\ ~client'.idleTimer /\ client'.pending = cl.pending
      /\ client'.queue = cl.queue /\ client'.active = cl.active
  BY <1>1, <1>2 DEF Clients
<1>4. Registered(client') = Registered(cl)
  BY <1>3 DEF Registered, Queued
<1>5. /\ child' \in [Children -> {"dead", "running", "broken"}] /\ child'[c] = "running"
      /\ \A d \in Children \ {c} : child'[d] = child[d]
  BY <1>1, <1>2 DEF TypeOK
<1>6. /\ inbox' \in [Children -> SUBSET (Requests \cup {[method |-> "initialize", turn |-> None]})]
      /\ \A d \in Children \ {c} : inbox'[d] = inbox[d]
      /\ inbox'[c] = {[method |-> "initialize", turn |-> None]}
  BY <1>1, <1>2 DEF TypeOK
<1>7. running'[c] = {} /\ out'[c] = <<>>
  BY <1>1 DEF DeadAreIdle
<1>8. \A u \in Turns : StartOf(u) \notin inbox'[c]
  BY <1>6, TurnAssumption DEF StartOf
<1>9. \A u \in Turns : Orderly(c, u)' /\ ~Holds(c, u)'
  BY <1>7, <1>8 DEF Orderly, Holds
<1>10. QED
  BY <1>1, <1>3, <1>4, <1>5, <1>6, <1>9

\* Everybody who waits for the lost process fails.  One caller may come with a
\* request for the next one; if it has a completion in the books, the bot dies.
LEMMA LosingTheProcess ==
    ASSUME PairingInv, ~crashed,
           UNCHANGED <<threadOf, bound, heard, resolved, answer, out, strayed>>,
           TypeOK', OneServer', ProcessFields', DeadAreIdle',
           client'.pending = {}, Registered(client') = {},
           \A thread \in Threads : client'.queue[thread] = <<>>,
           \A u \in Turns : client'.active[u] = None,
           client'.process # None => \A u \in Turns :
               Orderly(client.process, u)' /\ ~Holds(client.process, u)',
           NEW asker,
           \A u \in Turns :
               \/ /\ u = asker
                  /\ caller[u].step \in {"idle", "opened", "delay"}
                  /\ caller'[u].step \in {"open", "start", "read"}
                  /\ caller'[u].step = "start" => crashed'
                  /\ caller'[u].step = "open" => ~(Regular(u) /\ u \in resolved)
                  /\ \A v \in Turns : threadOf[v] = threadOf[u] /\ Open(v) => v = u
               \/ u \in Reached /\ caller'[u].step = "failed"
               \/ u \notin Reached /\ caller'[u] = caller[u]
    PROVE  PairingInv'
<1>1. /\ NoOneForgotten /\ OwnAnswer /\ LinesNameTurns /\ TakingTurns
      /\ Books /\ Waited /\ ResolvedAreOver /\ OwnNames
  BY DEF PairingInv, BooksAreKept, ClientInv, TurnsAreTaken
<1>2. \A t \in Turns : Regular(t)' <=> Regular(t)
  BY DEF Regular
<1>3. \A t \in Turns : At(t, "wait")' => ~Regular(t)
  BY <1>1 DEF NoOneForgotten, At, Reached
<1>4. \A t \in Turns : At(t, "start")' => crashed'
  BY DEF At, Reached
<1>5. NoOneForgotten' /\ NothingPendsOnNobody'
  BY <1>2, <1>3 DEF NoOneForgotten, NothingPendsOnNobody, Registered, Queued
<1>6. OwnAnswer'
  BY <1>1, <1>2 DEF OwnAnswer, At
<1>7. LinesNameTurns' /\ OwnThreads' /\ PendingAreAwaited'
  BY <1>1 DEF LinesNameTurns, OwnThreads, PendingAreAwaited
<1>8. TakingTurns'
  <2>1. \A u \in Turns : Open(u)' => Open(u) \/ u = asker
    BY DEF Open, Reached
  <2>2. \A u \in Turns : u = asker /\ Open(u)' /\ ~Open(u) =>
            \A v \in Turns : threadOf[v] = threadOf[u] /\ Open(v) => v = u
    BY DEF Open, Reached
  <2>3. QED
    BY <1>1, <2>1, <2>2 DEF TakingTurns
<1>9. ASSUME ~crashed' PROVE TurnsAreTaken'
  <2>1. Books' /\ OwnNames'
    <3>1. \A thread \in Threads : client'.queue[thread] = <<>>
      OBVIOUS
    <3>2. Books'
      BY <3>1 DEF Books
    <3>3. OwnNames'
      BY <1>1, <1>2 DEF OwnNames
    <3>4. QED
      BY <3>2, <3>3
  <2>2. Waited'
    BY <1>2, <1>3, <1>4, <1>9 DEF Waited, Awaited
  <2>3. HeldByCaller' /\ EndsLast'
    BY DEF HeldByCaller, EndsLast
  <2>4. ResolvedAreOver'
    <3>1. \A u \in Turns : u \notin Registered(client)'
      BY DEF Registered, Queued
    <3>2. \A u \in Turns : Regular(u) /\ u \in resolved => caller'[u].step \notin {"idle", "open", "opened"}
      BY <1>1 DEF ResolvedAreOver
    <3>3. QED
      BY <1>2, <1>4, <1>9, <3>1, <3>2 DEF ResolvedAreOver, Regular
  <2>5. QED
    BY <2>1, <2>2, <2>3, <2>4 DEF TurnsAreTaken
<1>10. QED
  BY <1>5, <1>6, <1>7, <1>8, <1>9 DEF PairingInv, BooksAreKept, ClientInv

\* A caller that fails.
LEMMA FailedAreFailed ==
    ASSUME TypeOK, NEW set
    PROVE  /\ FailedCallers(set) \in [Turns -> [step : Steps, sent : BOOLEAN]]
           /\ \A u \in Turns : /\ u \in set => FailedCallers(set)[u].step = "failed"
                               /\ u \notin set => FailedCallers(set)[u] = caller[u]
BY DEF FailedCallers, TypeOK, Steps

\* handleProcessFailure: nobody waits in vain for what the process owes.
LEMMA ProcessFailsKeeps ==
    ASSUME PairingInv, ~crashed, UNCHANGED threadOf, ProcessFails
    PROVE  PairingInv'
<1>1. TypeOK /\ OneServer /\ DeadAreIdle
  BY DEF PairingInv, BooksAreKept, ClientInv
<1>2. /\ client.process \in Children /\ told' = told \cup {client.process}
      /\ client' = Dropped(client) /\ caller' = FailedCallers(Reached)
      /\ crashed' = Unheard(Registered(client))
      /\ UNCHANGED <<bound, heard, resolved, reads, answer, child, inbox, running, out,
                     strayed, faults>>
  BY <1>1 DEF ProcessFails, TypeOK
<1>3. client \in Clients
  BY <1>1 DEF TypeOK, Clients
<1>4. /\ client' \in Clients
      /\ client'.process = None /\ ~client'.started /\ ~client'.starting
      /\ ~client'.idleTimer /\ client'.pending = {}
      /\ \A thread \in Threads : client'.queue[thread] = <<>>
      /\ \A t \in Turns : client'.active[t] = None
      /\ Registered(client') = {}
  BY <1>2, <1>3, DroppedClient
<1>5. /\ caller' \in [Turns -> [step : Steps, sent : BOOLEAN]]
      /\ \A u \in Turns : \/ u \in Reached /\ caller'[u].step = "failed"
                          \/ u \notin Reached /\ caller'[u] = caller[u]
  BY <1>1, <1>2, FailedAreFailed
<1>6. crashed' \in BOOLEAN
  BY <1>2 DEF Unheard
<1>7. TypeOK'
  BY <1>1, <1>2, <1>4, <1>5, <1>6 DEF TypeOK, Clients
<1>8. OneServer' /\ ProcessFields' /\ DeadAreIdle'
  BY <1>1, <1>2, <1>4 DEF OneServer, ProcessFields, DeadAreIdle
<1>9. None \notin Turns
  BY TurnAssumption
<1>10. QED
  BY <1>2, <1>4, <1>5, <1>7, <1>8, <1>9, LosingTheProcess

\* A stale child is failed and replaced.
LEMMA ReplacingTheChild ==
    ASSUME PairingInv, NEW cl \in Clients, cl.process = client.process, cl.process # None,
           NEW c \in FreeChildren, Spawn(Dropped(cl), c),
           told' = (told \cup {cl.process}) \ {c},
           UNCHANGED <<running, out>>
    PROVE  /\ client' \in Clients
           /\ client'.pending = {} /\ Registered(client') = {}
           /\ \A thread \in Threads : client'.queue[thread] = <<>>
           /\ \A u \in Turns : client'.active[u] = None
           /\ \A u \in Turns : Orderly(client.process, u)' /\ ~Holds(client.process, u)'
           /\ child' \in [Children -> {"dead", "running", "broken"}] /\ told' \in SUBSET Children
           /\ inbox' \in [Children -> SUBSET (Requests \cup {[method |-> "initialize", turn |-> None]})]
           /\ OneServer' /\ ProcessFields' /\ DeadAreIdle'
<1>1. TypeOK /\ OneServer /\ DeadAreIdle
  BY DEF PairingInv, BooksAreKept, ClientInv
<1>2. PICK gone : gone = Dropped(cl)
  OBVIOUS
<1>3. /\ gone \in Clients /\ gone.pending = {} /\ Registered(gone) = {}
      /\ \A thread \in Threads : gone.queue[thread] = <<>>
      /\ \A u \in Turns : gone.active[u] = None
  BY <1>2, DroppedClient
<1>4. /\ c \in Children /\ c # client.process
      /\ client' \in Clients
      /\ client'.process = c /\ client'.pending = gone.pending
      /\ client'.queue = gone.queue /\ client'.active = gone.active
      /\ Registered(client') = Registered(gone)
      /\ child' \in [Children -> {"dead", "running", "broken"}] /\ child'[c] = "running"
      /\ inbox' \in [Children -> SUBSET (Requests \cup {[method |-> "initialize", turn |-> None]})]
      /\ \A d \in Children \ {c} : child'[d] = child[d] /\ inbox'[d] = inbox[d]
      /\ \A u \in Turns : Orderly(c, u)' /\ ~Holds(c, u)'
  BY <1>1, <1>2, <1>3, SpawnedClient
<1>5. \A u \in Turns : Orderly(client.process, u)' /\ ~Holds(client.process, u)'
  BY <1>4 DEF Orderly, Holds
<1>6. told' \in SUBSET Children
  BY <1>1 DEF TypeOK, Clients
<1>7. OneServer'
  BY <1>1, <1>4 DEF OneServer
<1>8. ProcessFields' /\ DeadAreIdle'
  BY <1>1, <1>4, TurnAssumption DEF ProcessFields, DeadAreIdle
<1>9. QED
  BY <1>3, <1>4, <1>5, <1>6, <1>7, <1>8

\* An unanswered interrupt is given up; nobody awaited it.
LEMMA InterruptTimesOutKeeps ==
    ASSUME PairingInv, ~crashed, UNCHANGED threadOf, NEW t \in Turns, InterruptTimesOut(t)
    PROVE  PairingInv'
<1>1. /\ TypeOK /\ OneServer /\ DeadAreIdle /\ LinesNameTurns /\ ProcessFields
      /\ NothingPendsOnNobody /\ PendingAreAwaited
  BY DEF PairingInv, BooksAreKept, ClientInv
<1>2. /\ client \in Clients /\ client' \in Clients
      /\ client'.pending \subseteq client.pending /\ client'.process = client.process
      /\ client'.queue = client.queue /\ client'.active = client.active
      /\ client'.started = client.started /\ client'.starting = client.starting
      /\ client'.idleTimer => client'.process # None
  BY <1>1 DEF InterruptTimesOut, Rescheduled, TypeOK, Clients
<1>3. UNCHANGED <<callerVars, serverVars, crashed, strayed>> /\ faults' \in 0..MaxFaults
  BY <1>1, AttemptAssumption DEF InterruptTimesOut, TypeOK
<1>4. TypeOK'
  BY <1>1, <1>2, <1>3 DEF TypeOK, Clients, callerVars, serverVars
<1>5. OneServer' /\ DeadAreIdle' /\ LinesNameTurns' /\ ProcessFields' /\ PendingAreAwaited'
  BY <1>1, <1>2, <1>3 DEF OneServer, DeadAreIdle, LinesNameTurns, ProcessFields,
     PendingAreAwaited, callerVars, serverVars
<1>6. NothingPendsOnNobody'
  BY <1>1, <1>2 DEF NothingPendsOnNobody, Registered, Queued
<1>7. \A c \in Children : \A u \in Turns :
         Orderly(c, u) => Orderly(c, u)' /\ (Holds(c, u)' => Holds(c, u))
  BY <1>3 DEF Orderly, Holds, serverVars
<1>8. client.process \in Children \cup {None}
  BY <1>2 DEF Clients
<1>9. QED
  BY <1>2, <1>3, <1>4, <1>5, <1>6, <1>7, <1>8, CallersStay

\* The idle timer finds nobody to disappoint.
LEMMA IdleCloseKeeps ==
    ASSUME PairingInv, ~crashed, UNCHANGED threadOf, IdleClose
    PROVE  PairingInv'
<1>1. /\ TypeOK /\ OneServer /\ DeadAreIdle /\ LinesNameTurns /\ ProcessFields
      /\ OwnAnswer /\ TakingTurns /\ TurnsAreTaken
  BY DEF PairingInv, BooksAreKept, ClientInv
<1>2. /\ client.idleTimer /\ Registered(client) = {} /\ client' = Dropped(client)
      /\ told' = told \cup {client.process}
      /\ UNCHANGED <<callerVars, child, inbox, running, out, crashed, strayed, faults>>
  BY DEF IdleClose
<1>3. client \in Clients /\ client.process \in Children
  BY <1>1, <1>2 DEF TypeOK, Clients, ProcessFields
<1>4. /\ client' \in Clients
      /\ client'.process = None /\ ~client'.started /\ ~client'.starting
      /\ ~client'.idleTimer /\ client'.pending = {}
      /\ \A thread \in Threads : client'.queue[thread] = <<>>
      /\ \A t \in Turns : client'.active[t] = None
      /\ Registered(client') = {}
  BY <1>2, <1>3, DroppedClient
<1>5. TypeOK'
  BY <1>1, <1>2, <1>3, <1>4 DEF TypeOK, Clients, callerVars
<1>6. OneServer' /\ ProcessFields' /\ DeadAreIdle' /\ LinesNameTurns'
  BY <1>1, <1>2, <1>4 DEF OneServer, ProcessFields, DeadAreIdle, LinesNameTurns
<1> USE DEF callerVars
<1>7. NoOneForgotten' /\ NothingPendsOnNobody' /\ PendingAreAwaited' /\ OwnThreads'
  <2>1. \A t \in Turns : At(t, "wait") => ~Regular(t)
    BY <1>2 DEF PairingInv, BooksAreKept, ClientInv, NoOneForgotten
  <2>2. NoOneForgotten'
    BY <1>2, <2>1 DEF NoOneForgotten, At, Regular
  <2>3. QED
    BY <1>4, <2>2 DEF NothingPendsOnNobody, PendingAreAwaited, OwnThreads
<1>8. OwnAnswer' /\ TakingTurns'
  BY <1>1, <1>2 DEF OwnAnswer, TakingTurns, Open, At, Regular
<1>9. TurnsAreTaken'
  <2>1. Books'
    BY <1>4 DEF Books
  <2>2. Waited' /\ OwnNames'
    BY <1>1, <1>2 DEF TurnsAreTaken, Waited, OwnNames, Regular, Awaited, At
  <2>3. HeldByCaller' /\ EndsLast'
    BY <1>4 DEF HeldByCaller, EndsLast
  <2>4. ResolvedAreOver'
    <3>1. \A u \in Turns : u \notin Registered(client')
      BY <1>4
    <3>2. \A u \in Turns : u \notin Registered(client)'
      BY <3>1 DEF Registered, Queued
    <3>3. \A u \in Turns : Regular(u) /\ u \in resolved =>
             /\ caller[u].step \notin {"idle", "open", "opened"}
             /\ At(u, "start") => caller[u].sent
      BY <1>1 DEF TurnsAreTaken, ResolvedAreOver
    <3>4. QED
      BY <1>2, <1>4, <3>2, <3>3 DEF ResolvedAreOver, Regular, At
  <2>5. QED
    BY <2>1, <2>2, <2>3, <2>4 DEF TurnsAreTaken
<1>10. QED
  BY <1>5, <1>6, <1>7, <1>8, <1>9 DEF PairingInv, BooksAreKept, ClientInv

\* An interrupt is nobody's answer; a stale child is replaced as for any request.
LEMMA InterruptKeeps ==
    ASSUME PairingInv, ~crashed, UNCHANGED threadOf, NEW t \in Turns, Interrupt(t)
    PROVE  PairingInv'
<1>1. /\ TypeOK /\ OneServer /\ DeadAreIdle /\ LinesNameTurns /\ ProcessFields
      /\ NothingPendsOnNobody /\ PendingAreAwaited
  BY DEF PairingInv, BooksAreKept, ClientInv
<1>2. /\ bound[t] \in Turns /\ client.process \in Children /\ client.process # None
      /\ UNCHANGED <<bound, heard, resolved, reads, answer, running, out, strayed, faults>>
  BY <1>1 DEF Interrupt, TypeOK, ProcessFields
<1>3. client \in Clients
  BY <1>1 DEF TypeOK, Clients
<1>4. PICK request : request = [method |-> "interrupt", turn |-> bound[t]]
  OBVIOUS
<1>5. request \in Requests /\ request.method = "interrupt" /\ \A u \in Turns : request # StartOf(u)
  BY <1>2, <1>4 DEF Requests, Methods, StartOf
<1>6. CASE /\ child[client.process] = "running"
           /\ client' = [client EXCEPT !.pending = @ \cup {request}, !.idleTimer = FALSE]
           /\ inbox' = [inbox EXCEPT ![client.process] = @ \cup {request}]
           /\ UNCHANGED <<caller, child, told, crashed>>
  <2>1. /\ client' \in Clients /\ client'.pending = client.pending \cup {request}
        /\ client'.process = client.process /\ ~client'.idleTimer
        /\ client'.queue = client.queue /\ client'.active = client.active
        /\ client'.started = client.started /\ client'.starting = client.starting
    BY <1>3, <1>5, <1>6 DEF Clients
  <2>2. /\ inbox' \in [Children -> SUBSET (Requests \cup {[method |-> "initialize", turn |-> None]})]
        /\ \A c \in Children : \A r \in inbox'[c] : r \in inbox[c] \/ r = request
        /\ \A c \in Children : inbox[c] \subseteq inbox'[c]
        /\ \A c \in Children \ {client.process} : inbox'[c] = inbox[c]
    BY <1>1, <1>2, <1>5, <1>6 DEF TypeOK
  <2>3. TypeOK'
    BY <1>1, <1>2, <1>6, <2>1, <2>2 DEF TypeOK, Clients
  <2>4. OneServer' /\ LinesNameTurns' /\ ProcessFields' /\ DeadAreIdle'
    BY <1>1, <1>2, <1>6, <2>1, <2>2 DEF OneServer, LinesNameTurns, ProcessFields, DeadAreIdle
  <2>5. PendingAreAwaited'
    BY <1>1, <1>5, <1>6, <2>1 DEF PendingAreAwaited
  <2>6. NothingPendsOnNobody'
    BY <1>2, <2>1 DEF NothingPendsOnNobody
  <2>7. \A c \in Children : \A u \in Turns :
           Orderly(c, u) => Orderly(c, u)' /\ (Holds(c, u)' => Holds(c, u))
    BY <1>2, <1>5, <2>2 DEF Orderly, Holds
  <2>8. QED
    BY <1>2, <1>6, <2>1, <2>3, <2>4, <2>5, <2>6, <2>7, CallersStay DEF callerVars
<1>7. ASSUME NEW c \in FreeChildren, Replaced(c)
      PROVE  PairingInv'
  <2>1. /\ Spawn(Dropped(client), c) /\ told' = (told \cup {client.process}) \ {c}
        /\ caller' = FailedCallers(Reached) /\ crashed' = Unheard(Registered(client))
    BY <1>7 DEF Replaced
  <2>2. /\ client' \in Clients
        /\ client'.pending = {} /\ Registered(client') = {}
        /\ \A thread \in Threads : client'.queue[thread] = <<>>
        /\ \A u \in Turns : client'.active[u] = None
        /\ \A u \in Turns : Orderly(client.process, u)' /\ ~Holds(client.process, u)'
        /\ child' \in [Children -> {"dead", "running", "broken"}] /\ told' \in SUBSET Children
        /\ inbox' \in [Children -> SUBSET (Requests \cup {[method |-> "initialize", turn |-> None]})]
        /\ OneServer' /\ ProcessFields' /\ DeadAreIdle'
    BY <1>2, <1>3, <2>1, ReplacingTheChild
  <2>3. /\ caller' \in [Turns -> [step : Steps, sent : BOOLEAN]]
        /\ \A u \in Turns : \/ u \in Reached /\ caller'[u].step = "failed"
                            \/ u \notin Reached /\ caller'[u] = caller[u]
    BY <1>1, <2>1, FailedAreFailed
  <2>4. crashed' \in BOOLEAN
    BY <2>1 DEF Unheard
  <2>5. TypeOK'
    BY <1>1, <1>2, <2>2, <2>3, <2>4 DEF TypeOK, Clients
  <2>6. None \notin Turns
    BY TurnAssumption
  <2>7. QED
    BY <1>2, <2>2, <2>3, <2>5, <2>6, LosingTheProcess
<1>8. QED
  BY <1>4, <1>6, <1>7 DEF Interrupt

-----------------------------------------------------------------------------
(***************************************************************************)
(* Callers that come with a request.                                       *)
(***************************************************************************)
Asks(t, step, cl) ==
    \/ /\ step = "open" /\ At(t, "idle") /\ cl = client
       /\ \A u \in Turns : threadOf[u] = threadOf[t] => At(u, "idle") \/ Settled(u)
    \/ /\ step = "start" /\ At(t, "opened")
       /\ cl = [client EXCEPT !.queue[threadOf[t]] = Append(@, t)]
    \/ step = "read" /\ At(t, "delay") /\ cl = client

\* A caller that asks is alone on its thread, and if the thread has not strayed,
\* the books of the client and the process are free for it.
LEMMA AskersAreAlone ==
    ASSUME PairingInv, ~crashed, NEW t \in Turns, NEW step, NEW cl, Asks(t, step, cl)
    PROVE  /\ step \in {"open", "start", "read"} /\ caller[t].step \in {"idle", "opened", "delay"}
           /\ \A u \in Turns : threadOf[u] = threadOf[t] /\ Open(u) => u = t
           /\ Regular(t) => /\ t \in resolved => step = "read"
                            /\ client.process # None => ~Holds(client.process, t)
                            /\ client.queue[threadOf[t]] = <<>> /\ client.active[t] = None
<1>1. TypeOK /\ TakingTurns /\ OwnThreads /\ Books /\ HeldByCaller /\ ResolvedAreOver
  BY DEF PairingInv, BooksAreKept, ClientInv, TurnsAreTaken
<1>2. step \in {"open", "start", "read"} /\ caller[t].step \in {"idle", "opened", "delay"}
  BY DEF Asks, At
<1>3. \A u \in Turns : threadOf[u] = threadOf[t] /\ Open(u) => u = t
  BY <1>1 DEF Asks, TakingTurns, Open, At, Settled
<1>4. ASSUME Regular(t) PROVE t \in resolved => step = "read"
  BY <1>1, <1>4 DEF ResolvedAreOver, Asks, At
<1>5. ASSUME Regular(t), client.process # None PROVE ~Holds(client.process, t)
  BY <1>1, <1>2, <1>5 DEF HeldByCaller, At
<1>6. ~Awaited(t)
  BY <1>2 DEF Awaited, At
<1>7. ASSUME Regular(t) PROVE client.queue[threadOf[t]] = <<>>
  <2>1. threadOf[t] \in Threads \ strayed
    BY <1>1, <1>7 DEF Regular, TypeOK
  <2>2. ASSUME client.queue[threadOf[t]] # <<>> PROVE FALSE
    <3>1. PICK u \in Turns : client.queue[threadOf[t]] = <<u>> /\ Awaited(u)
      BY <1>1, <2>1, <2>2 DEF Books
    <3>2. threadOf[u] = threadOf[t]
      <4>1. 1 \in DOMAIN client.queue[threadOf[t]] /\ client.queue[threadOf[t]][1] = u
        BY <3>1
      <4>2. QED
        BY <1>1, <2>1, <4>1 DEF OwnThreads
    <3>3. Open(u)
      BY <3>1 DEF Awaited, Open, At
    <3>4. QED
      BY <1>3, <1>6, <3>1, <3>2, <3>3
  <2>3. QED
    BY <2>2
<1>8. ASSUME Regular(t) PROVE client.active[t] = None
  BY <1>1, <1>6, <1>8 DEF Books
<1>9. QED
  BY <1>2, <1>3, <1>4, <1>5, <1>7, <1>8

\* startTurnExecution registers the caller's completion, the others nothing.
LEMMA AskingRegisters ==
    ASSUME TypeOK, NEW t \in Turns, NEW step, NEW cl, Asks(t, step, cl)
    PROVE  /\ cl \in Clients
           /\ cl.process = client.process /\ cl.started = client.started
           /\ cl.starting = client.starting /\ cl.idleTimer = client.idleTimer
           /\ cl.pending = client.pending /\ cl.active = client.active
           /\ \A thread \in Threads :
                 cl.queue[thread] = IF step = "start" /\ thread = threadOf[t]
                                    THEN Append(client.queue[thread], t)
                                    ELSE client.queue[thread]
           /\ \A u : u \in Registered(cl) <=> u \in Registered(client) \/ (step = "start" /\ u = t)
<1>1. client \in Clients /\ threadOf[t] \in Threads
  BY DEF TypeOK, Clients
<1>2. CASE step # "start"
  BY <1>1, <1>2 DEF Asks
<1>3. CASE step = "start"
  <2>1. cl = [client EXCEPT !.queue[threadOf[t]] = Append(@, t)]
    BY <1>3 DEF Asks
  <2>2. PICK q \in Seq(Turns) : q = client.queue[threadOf[t]]
    BY <1>1 DEF Clients
  <2>3. /\ Append(q, t) \in Seq(Turns)
        /\ Len(q) \in Nat /\ DOMAIN q = 1..Len(q) /\ DOMAIN Append(q, t) = 1..Len(q) + 1
        /\ Append(q, t)[Len(q) + 1] = t
        /\ \A i \in 1..Len(q) : Append(q, t)[i] = q[i]
    OBVIOUS
  <2> DEFINE queues == [client.queue EXCEPT ![threadOf[t]] = Append(q, t)]
  <2>4. /\ queues \in [Threads -> Seq(Turns)]
        /\ queues[threadOf[t]] = Append(q, t)
        /\ \A thread \in Threads \ {threadOf[t]} : queues[thread] = client.queue[thread]
    <3>1. client.queue \in [Threads -> Seq(Turns)]
      BY <1>1 DEF Clients
    <3>2. QED
      BY <1>1, <2>3, <3>1
  <2>5. cl = [client EXCEPT !.queue = queues]
    BY <1>1, <2>1, <2>2 DEF Clients
  <2> HIDE DEF queues
  <2>6. /\ cl \in Clients
        /\ cl.process = client.process /\ cl.started = client.started
        /\ cl.starting = client.starting /\ cl.idleTimer = client.idleTimer
        /\ cl.pending = client.pending /\ cl.active = client.active
        /\ cl.queue = queues
    BY <1>1, <2>4, <2>5 DEF Clients
  <2>7. ASSUME NEW u
        PROVE  u \in Registered(cl) <=> u \in Registered(client) \/ u = t
    <3>1. (\E i \in DOMAIN Append(q, t) : Append(q, t)[i] = u) <=> (\E i \in DOMAIN q : q[i] = u) \/ u = t
      BY <2>3
    <3>2. (\E i \in DOMAIN queues[threadOf[t]] : queues[threadOf[t]][i] = u)
             <=> (\E i \in DOMAIN client.queue[threadOf[t]] : client.queue[threadOf[t]][i] = u) \/ u = t
      BY <2>2, <2>4, <3>1, Zenon
    <3>3. ASSUME NEW thread \in Threads, NEW i \in DOMAIN queues[thread], queues[thread][i] = u, u # t
          PROVE  \E th \in Threads : \E j \in DOMAIN client.queue[th] : client.queue[th][j] = u
      <4>1. CASE thread = threadOf[t]
        BY <3>2, <3>3, <4>1
      <4>2. CASE thread # threadOf[t]
        BY <2>4, <3>3, <4>2
      <4>3. QED
        BY <4>1, <4>2
    <3>4. ASSUME NEW thread \in Threads, NEW i \in DOMAIN client.queue[thread],
                 client.queue[thread][i] = u
          PROVE  \E th \in Threads : \E j \in DOMAIN queues[th] : queues[th][j] = u
      <4>1. CASE thread = threadOf[t]
        BY <3>2, <3>4, <4>1
      <4>2. CASE thread # threadOf[t]
        BY <2>4, <3>4, <4>2
      <4>3. QED
        BY <4>1, <4>2
    <3>5. ASSUME u = t
          PROVE  \E th \in Threads : \E j \in DOMAIN queues[th] : queues[th][j] = u
      BY <1>1, <3>2, <3>5
    <3>6. u \in Registered(cl) <=>
             \/ \E thread \in Threads : \E i \in DOMAIN queues[thread] : queues[thread][i] = u
             \/ u # None /\ \E v \in Turns : client.active[v] = u
      BY <2>6, WhoIsRegistered
    <3>7. u \in Registered(client) <=>
             \/ \E thread \in Threads : \E i \in DOMAIN client.queue[thread] :
                   client.queue[thread][i] = u
             \/ u # None /\ \E v \in Turns : client.active[v] = u
      BY WhoIsRegistered
    <3>8. QED
      BY <3>3, <3>4, <3>5, <3>6, <3>7
  <2>8. QED
    BY <1>3, <2>2, <2>4, <2>6, <2>7
<1>4. QED
  BY <1>2, <1>3

\* The books after a caller has asked, whether its request is sent or waits.
LEMMA AskingKeepsBooks ==
    ASSUME PairingInv, ~crashed, NEW t \in Turns, NEW step, NEW cl, Asks(t, step, cl),
           UNCHANGED <<threadOf, bound, heard, resolved, answer, strayed>>,
           client'.queue = cl.queue, client'.active = cl.active,
           NEW sent \in BOOLEAN, caller' = Go(t, step, sent)
    PROVE  /\ NoOneForgotten' /\ OwnAnswer' /\ OwnThreads' /\ TakingTurns'
           /\ Books' /\ Waited' /\ OwnNames'
           /\ \A u \in Turns : Regular(u) /\ u \in resolved =>
                 caller'[u].step \notin {"idle", "open", "opened"} /\ u \notin Registered(client)'
<1>1. /\ TypeOK /\ NoOneForgotten /\ OwnAnswer /\ OwnThreads /\ TakingTurns
      /\ Books /\ Waited /\ OwnNames /\ ResolvedAreOver
  BY DEF PairingInv, BooksAreKept, ClientInv, TurnsAreTaken
<1>2. /\ step \in {"open", "start", "read"} /\ caller[t].step \in {"idle", "opened", "delay"}
      /\ \A u \in Turns : threadOf[u] = threadOf[t] /\ Open(u) => u = t
      /\ Regular(t) => /\ t \in resolved => step = "read"
                       /\ client.queue[threadOf[t]] = <<>> /\ client.active[t] = None
  BY AskersAreAlone
<1>3. /\ cl \in Clients /\ cl.active = client.active
      /\ \A thread \in Threads :
            cl.queue[thread] = IF step = "start" /\ thread = threadOf[t]
                               THEN Append(client.queue[thread], t)
                               ELSE client.queue[thread]
      /\ \A u : u \in Registered(cl) <=> u \in Registered(client) \/ (step = "start" /\ u = t)
  BY <1>1, AskingRegisters
<1>4. /\ caller'[t] = [step |-> step, sent |-> sent]
      /\ \A u \in Turns \ {t} : caller'[u] = caller[u]
  BY <1>1 DEF Go, TypeOK
<1>5. \A u : u \in Registered(client)' <=> u \in Registered(client) \/ (step = "start" /\ u = t)
  <2>1. Registered(client') = Registered(cl)
    BY DEF Registered, Queued
  <2>2. Registered(client)' = Registered(client')
    BY DEF Registered, Queued
  <2>3. QED
    BY <1>3, <2>1, <2>2
<1>6. threadOf[t] \in Threads /\ \A thread \in Threads : client.queue[thread] \in Seq(Turns)
  BY <1>1 DEF TypeOK
<1>7. NoOneForgotten' /\ OwnAnswer'
  BY <1>1, <1>2, <1>4, <1>5 DEF NoOneForgotten, OwnAnswer, At, Regular
<1>8. OwnThreads'
  <2>1. ASSUME NEW thread \in Threads, NEW i \in DOMAIN client'.queue[thread]
        PROVE  threadOf[client'.queue[thread][i]] = thread
    <3>1. CASE step = "start" /\ thread = threadOf[t]
      <4>1. PICK q \in Seq(Turns) : q = client.queue[thread]
        BY <1>6
      <4>2. /\ Len(q) \in Nat /\ DOMAIN q = 1..Len(q) /\ DOMAIN Append(q, t) = 1..Len(q) + 1
            /\ Append(q, t)[Len(q) + 1] = t
            /\ \A j \in 1..Len(q) : Append(q, t)[j] = q[j]
        OBVIOUS
      <4>3. client'.queue[thread] = Append(q, t)
        BY <1>3, <3>1, <4>1
      <4>4. CASE i = Len(q) + 1
        BY <3>1, <4>2, <4>3, <4>4
      <4>5. CASE i \in 1..Len(q)
        BY <1>1, <4>1, <4>2, <4>3, <4>5 DEF OwnThreads
      <4>6. QED
        BY <2>1, <4>2, <4>3, <4>4, <4>5
    <3>2. CASE ~(step = "start" /\ thread = threadOf[t])
      BY <1>1, <1>3, <3>2 DEF OwnThreads
    <3>3. QED
      BY <3>1, <3>2
  <2>2. \A u \in Turns : client'.active[u] # None => threadOf[client'.active[u]] = threadOf[u]
    BY <1>1, <1>3 DEF OwnThreads
  <2>3. QED
    BY <2>1, <2>2 DEF OwnThreads
<1>9. TakingTurns'
  <2>1. \A u \in Turns : Open(u)' => Open(u) \/ u = t
    BY <1>4 DEF Open
  <2>2. QED
    BY <1>1, <1>2, <2>1 DEF TakingTurns
<1>10. ASSUME NEW u \in Turns, Awaited(u), u # t PROVE Awaited(u)'
  BY <1>4, <1>10 DEF Awaited, At
<1>11. ~Awaited(t) /\ (step = "start" => Awaited(t)')
  BY <1>2, <1>4 DEF Awaited, At
<1>12. Books'
  <2>1. ASSUME NEW thread \in Threads \ strayed, client'.queue[thread] # <<>>
        PROVE  \E u \in Turns : /\ client'.queue[thread] = <<u>> /\ Awaited(u)'
                                /\ client'.active[u] = None
    <3>1. CASE step = "start" /\ thread = threadOf[t]
      <4>1. client.queue[thread] = <<>> /\ client.active[t] = None
        BY <1>2, <2>1, <3>1 DEF Regular
      <4>2. client'.queue[thread] = Append(<<>>, t)
        BY <1>3, <3>1, <4>1
      <4>3. Append(<<>>, t) = <<t>>
        OBVIOUS
      <4>4. QED
        BY <1>3, <1>11, <3>1, <4>1, <4>2, <4>3
    <3>2. CASE ~(step = "start" /\ thread = threadOf[t])
      <4>1. client'.queue[thread] = client.queue[thread]
        BY <1>3, <3>2
      <4>2. PICK u \in Turns : client.queue[thread] = <<u>> /\ Awaited(u) /\ client.active[u] = None
        BY <1>1, <2>1, <4>1 DEF Books
      <4>3. QED
        BY <1>3, <1>10, <1>11, <4>1, <4>2
    <3>3. QED
      BY <3>1, <3>2
  <2>2. \A u \in Turns : Regular(u) /\ client'.active[u] # None => client'.active[u] = u /\ Awaited(u)'
    BY <1>1, <1>3, <1>10, <1>11 DEF Books
  <2>3. QED
    BY <2>1, <2>2 DEF Books, Regular
<1>13. Waited'
  <2>1. Regular(t) /\ Awaited(t)' => t \in Registered(client)'
    BY <1>2, <1>4, <1>5 DEF Awaited, At
  <2>2. ASSUME NEW u \in Turns \ {t}, Regular(u), Awaited(u)'
        PROVE  u \in Registered(client)' \/ (At(u, "start")' /\ u \in resolved)
    BY <1>1, <1>4, <1>5, <2>2 DEF Waited, Awaited, At
  <2>3. QED
    BY <2>1, <2>2 DEF Waited, Regular
<1>14. OwnNames'
  BY <1>1 DEF OwnNames, Regular
<1>15. ASSUME NEW u \in Turns, Regular(u), u \in resolved
       PROVE  caller'[u].step \notin {"idle", "open", "opened"} /\ u \notin Registered(client)'
  BY <1>1, <1>2, <1>4, <1>5, <1>15 DEF ResolvedAreOver
<1>16. QED
  BY <1>7, <1>8, <1>9, <1>12, <1>13, <1>14, <1>15

\* A request is sent, waits for a start under way, starts a child or replaces a
\* stale one.
LEMMA RequestKeeps ==
    ASSUME PairingInv, ~crashed, UNCHANGED threadOf, NEW t \in Turns, NEW step, NEW cl,
           Asks(t, step, cl), Request(t, step, cl)
    PROVE  PairingInv'
<1>1. /\ TypeOK /\ OneServer /\ DeadAreIdle /\ LinesNameTurns /\ ProcessFields
      /\ NothingPendsOnNobody /\ PendingAreAwaited
      /\ HeldByCaller /\ EndsLast /\ ResolvedAreOver
  BY DEF PairingInv, BooksAreKept, ClientInv, TurnsAreTaken
<1>2. /\ step \in {"open", "start", "read"} /\ caller[t].step \in {"idle", "opened", "delay"}
      /\ \A u \in Turns : threadOf[u] = threadOf[t] /\ Open(u) => u = t
      /\ Regular(t) => /\ t \in resolved => step = "read"
                       /\ client.process # None => ~Holds(client.process, t)
  BY AskersAreAlone
<1>3. /\ cl \in Clients
      /\ cl.process = client.process /\ cl.started = client.started
      /\ cl.starting = client.starting /\ cl.idleTimer = client.idleTimer
      /\ cl.pending = client.pending /\ cl.active = client.active
      /\ \A u : u \in Registered(cl) <=> u \in Registered(client) \/ (step = "start" /\ u = t)
  BY <1>1, AskingRegisters
<1>4. UNCHANGED <<bound, heard, resolved, reads, answer, running, out, strayed, faults>>
  BY DEF Request
<1>5. \A r \in client.pending : r \in Requests /\ (r.method # "interrupt" => r.turn # t)
  <2>1. \A r \in client.pending : r.method \in Methods /\ r \in Requests
    BY <1>1 DEF TypeOK, Requests
  <2>2. ASSUME NEW r \in client.pending, r.method # "interrupt", r.turn = t PROVE FALSE
    <3>1. caller[t] = [step |-> r.method, sent |-> TRUE]
      BY <1>1, <2>2 DEF PendingAreAwaited
    <3>2. caller[t].step = r.method
      BY <3>1
    <3>3. QED
      BY <1>2, <2>1, <2>2, <3>2 DEF Methods
  <2>3. QED
    BY <2>1, <2>2
<1>6. step \in Steps /\ step \in Methods
  BY <1>2 DEF Steps, Methods
<1>7. ASSUME NEW sent \in BOOLEAN, caller' = Go(t, step, sent)
      PROVE  /\ caller' \in [Turns -> [step : Steps, sent : BOOLEAN]]
             /\ caller'[t] = [step |-> step, sent |-> sent]
             /\ \A u \in Turns \ {t} : caller'[u] = caller[u]
  BY <1>1, <1>6, <1>7 DEF Go, TypeOK
<1>8. LinesNameTurns'
  BY <1>1, <1>4 DEF LinesNameTurns
\* What is left to show once the process is known, sent or waiting.
<1>9. ASSUME NEW sent \in BOOLEAN, caller' = Go(t, step, sent), crashed' = crashed,
             client'.queue = cl.queue, client'.active = cl.active, client'.process # None,
             TypeOK', OneServer', DeadAreIdle', ProcessFields', PendingAreAwaited',
             \A u \in Turns \ {t} : Regular(u) =>
                 Orderly(client.process, u)' /\ (Holds(client.process, u)' =>
                     client.process # None /\ Holds(client.process, u)),
             Regular(t) => Orderly(client.process, t)'
                             /\ (Holds(client.process, t)' => step = "start" /\ sent)
      PROVE  PairingInv'
  <2>1. /\ NoOneForgotten' /\ OwnAnswer' /\ OwnThreads' /\ TakingTurns'
        /\ Books' /\ Waited' /\ OwnNames'
        /\ \A u \in Turns : Regular(u) /\ u \in resolved =>
              caller'[u].step \notin {"idle", "open", "opened"} /\ u \notin Registered(client)'
    BY <1>4, <1>9, AskingKeepsBooks
  <2>2. /\ caller'[t] = [step |-> step, sent |-> sent]
        /\ \A u \in Turns \ {t} : caller'[u] = caller[u]
    BY <1>7, <1>9
  <2>3. EndsLast'
    BY <1>4, <1>9 DEF EndsLast, Regular
  <2>4. HeldByCaller'
    <3>1. ASSUME NEW u \in Turns, Regular(u), Holds(client.process, u)'
          PROVE  At(u, "wait")' \/ caller'[u] = [step |-> "start", sent |-> TRUE]
      <4>1. CASE u = t
        BY <1>9, <2>2, <3>1, <4>1
      <4>2. CASE u # t
        BY <1>1, <1>9, <2>2, <3>1, <4>2 DEF HeldByCaller, At
      <4>3. QED
        BY <4>1, <4>2
    <3>2. QED
      BY <1>4, <3>1 DEF HeldByCaller, Regular
  <2>5. ResolvedAreOver'
    <3>1. ASSUME NEW u \in Turns, Regular(u), u \in resolved, At(u, "start")'
          PROVE  caller'[u].sent /\ ~Holds(client.process, u)'
      <4>1. u # t
        BY <1>2, <2>2, <3>1 DEF At
      <4>2. QED
        BY <1>1, <1>9, <2>2, <3>1, <4>1 DEF ResolvedAreOver, At
    <3>2. QED
      BY <1>4, <2>1, <3>1 DEF ResolvedAreOver, Regular
  <2>6. NothingPendsOnNobody'
    BY <1>9 DEF NothingPendsOnNobody
  <2>7. QED
    BY <1>8, <1>9, <2>1, <2>3, <2>4, <2>5, <2>6 DEF PairingInv, BooksAreKept, ClientInv, TurnsAreTaken
<1>10. PICK request : request = [method |-> step, turn |-> t]
  OBVIOUS
<1>11. /\ request \in Requests /\ request.method = step /\ request.turn = t
       /\ \A u \in Turns : request = StartOf(u) => u = t /\ step = "start"
  BY <1>6, <1>10 DEF Requests, StartOf
<1>12. CASE /\ cl.started /\ child[cl.process] = "running"
            /\ client' = [cl EXCEPT !.pending = @ \cup {request}, !.idleTimer = FALSE]
            /\ inbox' = [inbox EXCEPT ![cl.process] = @ \cup {request}]
            /\ caller' = Go(t, step, TRUE)
            /\ UNCHANGED <<child, told, crashed>>
  <2>1. client.process \in Children /\ client.process # None
    BY <1>1, <1>3, <1>12 DEF TypeOK, ProcessFields
  <2>2. /\ client' \in Clients /\ client'.pending = client.pending \cup {request}
        /\ client'.process = client.process /\ ~client'.idleTimer
        /\ client'.queue = cl.queue /\ client'.active = cl.active
        /\ client'.started = client.started /\ client'.starting = client.starting
    BY <1>3, <1>11, <1>12 DEF Clients
  <2>3. /\ inbox' \in [Children -> SUBSET (Requests \cup {[method |-> "initialize", turn |-> None]})]
        /\ inbox'[client.process] = inbox[client.process] \cup {request}
        /\ \A c \in Children \ {client.process} : inbox'[c] = inbox[c]
    BY <1>1, <1>3, <1>11, <1>12, <2>1 DEF TypeOK
  <2>4. /\ caller' \in [Turns -> [step : Steps, sent : BOOLEAN]]
        /\ caller'[t] = [step |-> step, sent |-> TRUE]
        /\ \A u \in Turns \ {t} : caller'[u] = caller[u]
    BY <1>7, <1>12
  <2>5. TypeOK'
    BY <1>1, <1>4, <1>12, <2>2, <2>3, <2>4 DEF TypeOK, Clients
  <2>6. OneServer' /\ DeadAreIdle' /\ ProcessFields'
    BY <1>1, <1>3, <1>4, <1>12, <2>1, <2>2, <2>3 DEF OneServer, DeadAreIdle, ProcessFields
  <2>7. PendingAreAwaited'
    <3>1. \A r \in client.pending : r \in Requests
      BY <1>1 DEF TypeOK
    <3>2. QED
      BY <1>1, <1>5, <1>11, <2>2, <2>4, <3>1 DEF PendingAreAwaited, Requests
  <2>8. ASSUME NEW u \in Turns, Regular(u), u # t
        PROVE  Orderly(client.process, u)' /\ (Holds(client.process, u)' => Holds(client.process, u))
    <3>1. Orderly(client.process, u)
      BY <1>1, <2>1, <2>8 DEF EndsLast
    <3>2. StartOf(u) \in inbox'[client.process] => StartOf(u) \in inbox[client.process]
      BY <1>11, <2>3, <2>8
    <3>3. QED
      BY <1>4, <2>2, <3>1, <3>2 DEF Orderly, Holds
  <2>9. ASSUME Regular(t)
        PROVE  Orderly(client.process, t)' /\ (Holds(client.process, t)' => step = "start")
    <3>1. ~Holds(client.process, t)
      BY <1>2, <2>1, <2>9
    <3>2. StartOf(t) \in inbox'[client.process] => step = "start"
      BY <1>11, <2>1, <2>3, <3>1 DEF Holds
    <3>3. QED
      BY <1>4, <2>2, <3>1, <3>2 DEF Orderly, Holds
  <2>10. QED
    BY <1>9, <1>12, <2>1, <2>2, <2>5, <2>6, <2>7, <2>8, <2>9
<1>13. CASE /\ cl.starting /\ client' = cl /\ caller' = Go(t, step, FALSE)
            /\ UNCHANGED <<child, told, inbox, crashed>>
  <2>1. client.process \in Children /\ client.process # None
    BY <1>1, <1>3, <1>13 DEF TypeOK, ProcessFields
  <2>2. /\ caller' \in [Turns -> [step : Steps, sent : BOOLEAN]]
        /\ caller'[t] = [step |-> step, sent |-> FALSE]
        /\ \A u \in Turns \ {t} : caller'[u] = caller[u]
    BY <1>7, <1>13
  <2>3. TypeOK'
    BY <1>1, <1>3, <1>4, <1>13, <2>2 DEF TypeOK, Clients
  <2>4. OneServer' /\ DeadAreIdle' /\ ProcessFields'
    BY <1>1, <1>3, <1>4, <1>13 DEF OneServer, DeadAreIdle, ProcessFields
  <2>5. PendingAreAwaited'
    <3>1. \A r \in client.pending : r.turn \in Turns
      BY <1>5 DEF Requests
    <3>2. client'.pending = client.pending
      BY <1>3, <1>13
    <3>3. QED
      BY <1>1, <1>5, <2>2, <3>1, <3>2 DEF PendingAreAwaited
  <2>6. \A u \in Turns : Regular(u) =>
            Orderly(client.process, u)' /\ (Holds(client.process, u)' => Holds(client.process, u))
    BY <1>1, <1>3, <1>4, <1>13, <2>1 DEF Orderly, Holds, EndsLast
  <2>7. QED
    BY <1>2, <1>3, <1>9, <1>13, <2>1, <2>3, <2>4, <2>5, <2>6
<1>14. ASSUME NEW c \in FreeChildren, cl.process = None, Spawn(cl, c), told' = told \ {c},
              caller' = Go(t, step, FALSE), UNCHANGED crashed
       PROVE  PairingInv'
  <2>1. /\ c \in Children
        /\ client' \in Clients
        /\ client'.process = c /\ client'.started = cl.started /\ client'.starting
        /\ ~client'.idleTimer /\ client'.pending = cl.pending
        /\ client'.queue = cl.queue /\ client'.active = cl.active
        /\ child' \in [Children -> {"dead", "running", "broken"}] /\ child'[c] = "running"
        /\ inbox' \in [Children -> SUBSET (Requests \cup {[method |-> "initialize", turn |-> None]})]
        /\ \A d \in Children \ {c} : child'[d] = child[d] /\ inbox'[d] = inbox[d]
        /\ \A u \in Turns : Orderly(c, u)' /\ ~Holds(c, u)'
    BY <1>1, <1>3, <1>4, <1>14, SpawnedClient
  <2>2. /\ caller' \in [Turns -> [step : Steps, sent : BOOLEAN]]
        /\ caller'[t] = [step |-> step, sent |-> FALSE]
        /\ \A u \in Turns \ {t} : caller'[u] = caller[u]
    BY <1>7, <1>14
  <2>3. TypeOK'
    BY <1>1, <1>4, <1>14, <2>1, <2>2 DEF TypeOK, Clients
  <2>4. OneServer' /\ DeadAreIdle' /\ ProcessFields'
    BY <1>1, <1>3, <1>4, <1>14, <2>1, TurnAssumption DEF OneServer, DeadAreIdle, ProcessFields
  <2>5. PendingAreAwaited'
    BY <1>1, <1>3, <1>14, <2>1 DEF PendingAreAwaited, NothingPendsOnNobody
  <2>6. \A u \in Turns : Orderly(client.process, u)' /\ ~Holds(client.process, u)'
    BY <2>1 DEF Orderly, Holds
  <2>7. client'.process # None
    BY <2>1, TurnAssumption
  <2>8. QED
    BY <1>9, <1>14, <2>1, <2>3, <2>4, <2>5, <2>6, <2>7
<1>15. ASSUME cl.started, NEW c \in FreeChildren, Spawn(Dropped(cl), c),
              told' = (told \cup {cl.process}) \ {c},
              caller' = [FailedCallers(Reached) EXCEPT ![t] = [step |-> step, sent |-> FALSE]],
              crashed' = Unheard(Registered(cl))
       PROVE  PairingInv'
  <2>1. cl.process # None
    BY <1>1, <1>3, <1>15 DEF ProcessFields
  <2>2. /\ client' \in Clients
        /\ client'.pending = {} /\ Registered(client') = {}
        /\ \A thread \in Threads : client'.queue[thread] = <<>>
        /\ \A u \in Turns : client'.active[u] = None
        /\ \A u \in Turns : Orderly(client.process, u)' /\ ~Holds(client.process, u)'
        /\ child' \in [Children -> {"dead", "running", "broken"}] /\ told' \in SUBSET Children
        /\ inbox' \in [Children -> SUBSET (Requests \cup {[method |-> "initialize", turn |-> None]})]
        /\ OneServer' /\ ProcessFields' /\ DeadAreIdle'
    BY <1>3, <1>4, <1>15, <2>1, ReplacingTheChild
  <2>3. /\ FailedCallers(Reached) \in [Turns -> [step : Steps, sent : BOOLEAN]]
        /\ \A u \in Turns : /\ u \in Reached => FailedCallers(Reached)[u].step = "failed"
                            /\ u \notin Reached => FailedCallers(Reached)[u] = caller[u]
    BY <1>1, FailedAreFailed
  <2>4. /\ caller' \in [Turns -> [step : Steps, sent : BOOLEAN]]
        /\ caller'[t] = [step |-> step, sent |-> FALSE]
        /\ \A u \in Turns \ {t} : caller'[u] = FailedCallers(Reached)[u]
    BY <1>6, <1>15, <2>3
  <2>5. crashed' \in BOOLEAN /\ (step = "start" => crashed')
    <3>1. step = "start" => t \in Registered(cl) /\ ~At(t, "wait")
      BY <1>2, <1>3 DEF At
    <3>2. QED
      BY <1>15, <3>1 DEF Unheard
  <2>6. TypeOK'
    BY <1>1, <1>4, <2>2, <2>4, <2>5 DEF TypeOK, Clients
  <2>7. \A u \in Turns :
            \/ /\ u = t
               /\ caller[u].step \in {"idle", "opened", "delay"}
               /\ caller'[u].step \in {"open", "start", "read"}
               /\ caller'[u].step = "start" => crashed'
               /\ caller'[u].step = "open" => ~(Regular(u) /\ u \in resolved)
               /\ \A v \in Turns : threadOf[v] = threadOf[u] /\ Open(v) => v = u
            \/ u \in Reached /\ caller'[u].step = "failed"
            \/ u \notin Reached /\ caller'[u] = caller[u]
    BY <1>2, <2>3, <2>4, <2>5
  <2>8. QED
    BY <1>4, <2>2, <2>6, <2>7, LosingTheProcess
<1>16. QED
  BY <1>10, <1>12, <1>13, <1>14, <1>15 DEF Request

-----------------------------------------------------------------------------
(***************************************************************************)
(* Lines of a child.                                                       *)
(***************************************************************************)

\* Reading keeps the order, unless a start is sent that the child already has.
LEMMA ReadingKeepsOrder ==
    ASSUME TypeOK, NEW c \in Children, out[c] # <<>>, ReadLine(c), UNCHANGED running,
           NEW d \in Children, NEW u \in Turns, Orderly(d, u),
           StartOf(u) \in inbox'[d] => StartOf(u) \in inbox[d] \/ ~Holds(d, u)
    PROVE  /\ Orderly(d, u)'
           /\ Holds(d, u)' => Holds(d, u) \/ StartOf(u) \in inbox'[d]
<1>1. /\ \A e \in Children \ {c} : out'[e] = out[e]
      /\ \A i \in DOMAIN out'[c] : i \in Nat \ {0} /\ i + 1 \in DOMAIN out[c]
                                     /\ out'[c][i] = out[c][i + 1]
  BY LineRead
<1>2. CASE d # c
  <2>1. out'[d] = out[d]
    BY <1>1, <1>2
  <2>2. QED
    BY <2>1 DEF Orderly, Holds
<1>3. CASE d = c
  <2>1. Holds(d, u)' => Holds(d, u) \/ StartOf(u) \in inbox'[d]
    BY <1>1, <1>3 DEF Holds
  <2>2. u \in running'[d] => StartOf(u) \notin inbox'[d]
    BY DEF Orderly, Holds
  <2>3. ASSUME NEW i \in DOMAIN out'[c], Note(out'[c][i], u), out'[c][i].kind = "completed"
        PROVE  /\ u \notin running'[c] /\ StartOf(u) \notin inbox'[c]
               /\ \A j \in DOMAIN out'[c] : i < j => ~Note(out'[c][j], u)
    <3>1. i + 1 \in DOMAIN out[c] /\ Note(out[c][i + 1], u) /\ out[c][i + 1].kind = "completed"
      BY <1>1, <2>3
    <3>2. /\ u \notin running[c] /\ StartOf(u) \notin inbox[c]
          /\ \A j \in DOMAIN out[c] : i + 1 < j => ~Note(out[c][j], u)
      BY <1>3, <3>1 DEF Orderly
    <3>3. Holds(c, u)
      BY <3>1 DEF Holds
    <3>4. ASSUME NEW j \in DOMAIN out'[c], i < j PROVE ~Note(out'[c][j], u)
      <4>1. j + 1 \in DOMAIN out[c] /\ i + 1 < j + 1 /\ out'[c][j] = out[c][j + 1]
        BY <1>1, <3>4
      <4>2. QED
        BY <3>2, <4>1
    <3>5. QED
      BY <1>3, <3>2, <3>3, <3>4
  <2>4. QED
    BY <1>3, <2>1, <2>2, <2>3 DEF Orderly
<1>4. QED
  BY <1>2, <1>3

\* After the line that a turn has completed the child has nothing of it left.
LEMMA NothingAfterTheEnd ==
    ASSUME TypeOK, NEW c \in Children, out[c] # <<>>, ReadLine(c), UNCHANGED <<inbox, running>>,
           NEW u \in Turns, Orderly(c, u), Note(Head(out[c]), u), Head(out[c]).kind = "completed"
    PROVE  ~Holds(c, u)'
<1>1. /\ Head(out[c]) = out[c][1] /\ 1 \in DOMAIN out[c]
      /\ \A i \in DOMAIN out'[c] : i \in Nat \ {0} /\ i + 1 \in DOMAIN out[c]
                                     /\ out'[c][i] = out[c][i + 1]
  BY LineRead
<1>2. /\ u \notin running[c] /\ StartOf(u) \notin inbox[c]
      /\ \A j \in DOMAIN out[c] : 1 < j => ~Note(out[c][j], u)
  BY <1>1 DEF Orderly
<1>3. \A i \in DOMAIN out'[c] : 1 < i + 1 /\ i + 1 \in DOMAIN out[c] /\ out'[c][i] = out[c][i + 1]
  BY <1>1
<1>4. QED
  BY <1>2, <1>3 DEF Holds

\* The lines left name turns as before.
LEMMA LinesLeftNameTurns ==
    ASSUME TypeOK, LinesNameTurns, NEW c \in Children, out[c] # <<>>, ReadLine(c)
    PROVE  /\ LinesNameTurns'
           /\ Head(out[c]).kind \in Notes => Head(out[c]).turn \in Turns
           /\ \A u \in Turns : Note(Head(out[c]), u) => Holds(c, u)
<1>1. /\ \A d \in Children \ {c} : out'[d] = out[d]
      /\ Head(out[c]) = out[c][1] /\ 1 \in DOMAIN out[c]
      /\ \A i \in DOMAIN out'[c] : i + 1 \in DOMAIN out[c] /\ out'[c][i] = out[c][i + 1]
  BY LineRead
<1>2. ASSUME NEW d \in Children, NEW i \in DOMAIN out'[d], out'[d][i].kind \in Notes
      PROVE  out'[d][i].turn \in Turns
  <2>1. CASE d = c
    BY <1>1, <1>2, <2>1 DEF LinesNameTurns
  <2>2. CASE d # c
    BY <1>1, <1>2, <2>2 DEF LinesNameTurns
  <2>3. QED
    BY <2>1, <2>2
<1>3. Head(out[c]).kind \in Notes => Head(out[c]).turn \in Turns
  BY <1>1 DEF LinesNameTurns
<1>4. \A u \in Turns : Note(Head(out[c]), u) => Holds(c, u)
  BY <1>1 DEF Holds
<1>5. QED
  BY <1>2, <1>3, <1>4 DEF LinesNameTurns

\* A line that concerns nobody.
LEMMA IgnoredKeeps ==
    ASSUME PairingInv, ~crashed, UNCHANGED <<threadOf, faults>>, NEW c \in Children,
           out[c] # <<>>, ReadLine(c), Ignored(c, Head(out[c]))
    PROVE  PairingInv'
<1>1. /\ TypeOK /\ OneServer /\ DeadAreIdle /\ LinesNameTurns /\ ProcessFields
      /\ NothingPendsOnNobody /\ PendingAreAwaited
  BY DEF PairingInv, BooksAreKept, ClientInv
<1>2. UNCHANGED <<client, callerVars, child, told, inbox, running, crashed, strayed>>
  BY DEF Ignored
<1>3. out' \in [Children -> Seq(Lines)] /\ LinesNameTurns'
  BY <1>1, LineRead, LinesLeftNameTurns
<1>4. TypeOK'
  BY <1>1, <1>2, <1>3 DEF TypeOK, callerVars
<1>5. OneServer' /\ DeadAreIdle'
  BY <1>1, <1>2 DEF OneServer, DeadAreIdle
<1>6. \A d \in Children : \A u \in Turns :
         Orderly(d, u) => Orderly(d, u)' /\ (Holds(d, u)' => Holds(d, u))
  BY <1>1, <1>2, ReadingKeepsOrder DEF Holds
<1>7. QED
  BY <1>2, <1>3, <1>4, <1>5, <1>6, ServerKeeps

\* The requests that waited for the start are sent; none of them is a start of a
\* turn the child already has.
LEMMA InitializedKeeps ==
    ASSUME PairingInv, ~crashed, UNCHANGED <<threadOf, faults>>, NEW c \in Children,
           out[c] # <<>>, ReadLine(c), Initialized(c)
    PROVE  PairingInv'
<1>1. /\ TypeOK /\ OneServer /\ DeadAreIdle /\ LinesNameTurns /\ ProcessFields
      /\ NothingPendsOnNobody /\ PendingAreAwaited /\ NoOneForgotten /\ OwnAnswer
      /\ OwnThreads /\ TakingTurns /\ TurnsAreTaken
  BY DEF PairingInv, BooksAreKept, ClientInv
<1> DEFINE waiting == {t \in Turns : caller[t].step \in Methods /\ ~caller[t].sent}
           requests == {[method |-> caller[t].step, turn |-> t] : t \in waiting}
<1>2. /\ client.process = c /\ client.starting /\ child[c] = "running"
      /\ client' = [client EXCEPT !.started = TRUE, !.starting = FALSE,
                                  !.pending = @ \cup requests]
      /\ caller' = [t \in Turns |-> IF t \in waiting THEN [caller[t] EXCEPT !.sent = TRUE]
                                                     ELSE caller[t]]
      /\ inbox' = [inbox EXCEPT ![c] = @ \cup requests]
      /\ UNCHANGED <<bound, heard, resolved, reads, answer, child, told, running, crashed, strayed>>
  BY DEF Initialized
<1>3. /\ \A t \in waiting : caller[t].step \in Methods /\ caller[t].sent = FALSE
      /\ requests \subseteq Requests
  BY <1>1 DEF TypeOK, Requests
<1>4. /\ caller' \in [Turns -> [step : Steps, sent : BOOLEAN]]
      /\ \A t \in Turns : caller'[t].step = caller[t].step
      /\ \A t \in waiting : caller'[t] = [step |-> caller[t].step, sent |-> TRUE]
      /\ \A t \in Turns \ waiting : caller'[t] = caller[t]
  <2>1. caller \in [Turns -> [step : Steps, sent : BOOLEAN]] /\ waiting \subseteq Turns
    BY <1>1 DEF TypeOK
  <2>2. \A t \in Turns : /\ [caller[t] EXCEPT !.sent = TRUE] \in [step : Steps, sent : BOOLEAN]
                         /\ [caller[t] EXCEPT !.sent = TRUE].step = caller[t].step
                         /\ [caller[t] EXCEPT !.sent = TRUE] = [step |-> caller[t].step, sent |-> TRUE]
    <3>1. \A r \in [step : Steps, sent : BOOLEAN] :
             /\ [r EXCEPT !.sent = TRUE] \in [step : Steps, sent : BOOLEAN]
             /\ [r EXCEPT !.sent = TRUE].step = r.step /\ [r EXCEPT !.sent = TRUE].sent = TRUE
      OBVIOUS
    <3>2. \A r \in [step : Steps, sent : BOOLEAN] : r = [step |-> r.step, sent |-> r.sent]
      OBVIOUS
    <3>3. \A r \in [step : Steps, sent : BOOLEAN] :
             [r EXCEPT !.sent = TRUE] = [step |-> r.step, sent |-> TRUE]
      BY <3>1, <3>2
    <3>4. QED
      BY <2>1, <3>1, <3>3
  <2> HIDE DEF waiting
  <2>3. caller' = [t \in Turns |-> IF t \in waiting THEN [caller[t] EXCEPT !.sent = TRUE]
                                                    ELSE caller[t]]
    BY <1>2
  <2>4. \A t \in Turns : caller'[t] = IF t \in waiting THEN [caller[t] EXCEPT !.sent = TRUE]
                                                       ELSE caller[t]
    BY <2>3
  <2>5. caller' \in [Turns -> [step : Steps, sent : BOOLEAN]]
    BY <2>1, <2>2, <2>3
  <2>6. QED
    BY <2>1, <2>2, <2>4, <2>5
<1>5. /\ client \in Clients /\ client' \in Clients
      /\ client'.process = c /\ ~client'.starting /\ client'.started
      /\ client'.queue = client.queue /\ client'.active = client.active
      /\ client'.pending = client.pending \cup requests
  <2>1. client \in Clients
    BY <1>1 DEF TypeOK, Clients
  <2>2. PICK some \in SUBSET Requests : some = client.pending \cup requests
    BY <1>3, <2>1 DEF Clients
  <2>3. client' = [client EXCEPT !.started = TRUE, !.starting = FALSE, !.pending = some]
    BY <1>2, <2>2
  <2>4. QED
    BY <1>2, <2>1, <2>2, <2>3 DEF Clients
<1>6. /\ inbox' \in [Children -> SUBSET (Requests \cup {[method |-> "initialize", turn |-> None]})]
      /\ inbox'[c] = inbox[c] \cup requests
      /\ \A d \in Children \ {c} : inbox'[d] = inbox[d]
  BY <1>1, <1>2, <1>3 DEF TypeOK
<1>7. \A u \in Turns : StartOf(u) \in requests => u \in waiting /\ caller[u].step = "start"
  BY DEF StartOf
<1> HIDE DEF waiting, requests
<1>8. out' \in [Children -> Seq(Lines)] /\ LinesNameTurns'
  BY <1>1, LineRead, LinesLeftNameTurns
<1>9. TypeOK'
  BY <1>1, <1>2, <1>4, <1>5, <1>6, <1>8 DEF TypeOK, Clients
<1>10. c # None
  BY TurnAssumption
<1>11. OneServer' /\ DeadAreIdle' /\ ProcessFields' /\ NothingPendsOnNobody'
  BY <1>1, <1>2, <1>5, <1>6, <1>10 DEF OneServer, DeadAreIdle, ProcessFields, NothingPendsOnNobody
<1>12. PendingAreAwaited'
  <2>1. ASSUME NEW r \in client.pending, r.method # "interrupt"
        PROVE  caller'[r.turn] = [step |-> r.method, sent |-> TRUE]
    <3>1. r.turn \in Turns /\ caller[r.turn] = [step |-> r.method, sent |-> TRUE]
      BY <1>1, <2>1 DEF PendingAreAwaited, TypeOK, Requests
    <3>2. r.turn \notin waiting
      BY <3>1 DEF waiting
    <3>3. QED
      BY <1>4, <3>1, <3>2
  <2>2. ASSUME NEW r \in requests
        PROVE  caller'[r.turn] = [step |-> r.method, sent |-> TRUE]
    BY <1>4 DEF requests
  <2>3. QED
    BY <1>5, <2>1, <2>2 DEF PendingAreAwaited
<1>13. NoOneForgotten' /\ OwnAnswer' /\ OwnThreads' /\ TakingTurns'
  BY <1>1, <1>2, <1>4, <1>5 DEF NoOneForgotten, OwnAnswer, OwnThreads, TakingTurns, Open, At,
     Regular, Registered, Queued
<1>14. ASSUME NEW u \in Turns, Regular(u)
       PROVE  /\ Orderly(c, u)' /\ (Holds(c, u)' => Holds(c, u) \/ StartOf(u) \in inbox'[c])
              /\ Holds(c, u) => u \notin waiting
  <2>1. Orderly(c, u)
    BY <1>1, <1>2, <1>10, <1>14 DEF TurnsAreTaken, EndsLast
  <2>2. Holds(c, u) => At(u, "wait") \/ caller[u] = [step |-> "start", sent |-> TRUE]
    BY <1>1, <1>2, <1>10, <1>14 DEF TurnsAreTaken, HeldByCaller
  <2>3. Holds(c, u) => u \notin waiting
    BY <2>2 DEF waiting, At, Methods
  <2>4. StartOf(u) \in inbox'[c] => StartOf(u) \in inbox[c] \/ ~Holds(c, u)
    BY <1>6, <1>7, <2>3
  <2>5. QED
    BY <1>1, <1>2, <2>1, <2>3, <2>4, ReadingKeepsOrder
<1>15. TurnsAreTaken'
  <2>1. Books' /\ OwnNames'
    BY <1>1, <1>2, <1>4, <1>5 DEF TurnsAreTaken, Books, OwnNames, Regular, Awaited, At
  <2>2. Waited'
    BY <1>1, <1>2, <1>4, <1>5 DEF TurnsAreTaken, Waited, Regular, Awaited, At, Registered, Queued
  <2>3. HeldByCaller'
    <3>1. ASSUME NEW u \in Turns, Regular(u), Holds(c, u)'
          PROVE  At(u, "wait")' \/ caller'[u] = [step |-> "start", sent |-> TRUE]
      <4>1. CASE Holds(c, u)
        <5>1. At(u, "wait") \/ caller[u] = [step |-> "start", sent |-> TRUE]
          BY <1>1, <1>2, <1>10, <3>1, <4>1 DEF TurnsAreTaken, HeldByCaller
        <5>2. QED
          BY <1>4, <1>14, <3>1, <4>1, <5>1 DEF At
      <4>2. CASE ~Holds(c, u)
        <5>1. StartOf(u) \in requests
          BY <1>6, <1>14, <3>1, <4>2 DEF Holds
        <5>2. QED
          BY <1>4, <1>7, <5>1
      <4>3. QED
        BY <4>1, <4>2
    <3>2. QED
      BY <1>2, <1>5, <3>1 DEF HeldByCaller, Regular, Holds
  <2>4. EndsLast'
    BY <1>2, <1>5, <1>14 DEF EndsLast, Regular, Orderly
  <2>5. ResolvedAreOver'
    <3>1. ASSUME NEW u \in Turns, Regular(u), u \in resolved
          PROVE  /\ caller'[u].step \notin {"idle", "open", "opened"} /\ u \notin Registered(client)'
                 /\ At(u, "start")' => caller'[u].sent /\ ~Holds(c, u)'
      <4>1. /\ caller[u].step \notin {"idle", "open", "opened"} /\ u \notin Registered(client)
            /\ At(u, "start") => caller[u].sent /\ ~Holds(c, u)
        BY <1>1, <1>2, <1>10, <3>1 DEF TurnsAreTaken, ResolvedAreOver
      <4>2. u \notin Registered(client)'
        BY <1>5, <4>1 DEF Registered, Queued
      <4>3. ASSUME At(u, "start") PROVE u \notin waiting /\ caller'[u].sent /\ ~Holds(c, u)'
        BY <1>4, <1>6, <1>7, <1>14, <3>1, <4>1, <4>3 DEF waiting, Holds
      <4>4. QED
        BY <1>4, <4>1, <4>2, <4>3 DEF At
    <3>2. QED
      BY <1>2, <1>5, <3>1 DEF ResolvedAreOver, Regular, Holds
  <2>6. QED
    BY <2>1, <2>2, <2>3, <2>4, <2>5 DEF TurnsAreTaken
<1>16. QED
  BY <1>8, <1>9, <1>11, <1>12, <1>13, <1>15 DEF PairingInv, BooksAreKept, ClientInv

\* On a thread that has not strayed, whose completion is in the books is about to
\* wait for it or waits.
LEMMA RegisteredAreAwaited ==
    ASSUME TypeOK, Books, OwnThreads, NEW t \in Turns, Regular(t), t \in Registered(client)
    PROVE  /\ Awaited(t)
           /\ \/ client.queue[threadOf[t]] = <<t>> /\ client.active[t] = None
              \/ client.active[t] = t
<1>1. \/ \E thread \in Threads : \E i \in DOMAIN client.queue[thread] : client.queue[thread][i] = t
      \/ t # None /\ \E v \in Turns : client.active[v] = t
  BY WhoIsRegistered
<1>2. ASSUME NEW thread \in Threads, NEW i \in DOMAIN client.queue[thread],
             client.queue[thread][i] = t
      PROVE  Awaited(t) /\ client.queue[threadOf[t]] = <<t>> /\ client.active[t] = None
  <2>1. threadOf[t] = thread
    BY <1>2 DEF OwnThreads
  <2>2. thread \in Threads \ strayed /\ client.queue[thread] # <<>>
    BY <1>2, <2>1 DEF Regular
  <2>3. PICK u \in Turns : client.queue[thread] = <<u>> /\ Awaited(u) /\ client.active[u] = None
    BY <2>2 DEF Books
  <2>4. u = t
    BY <1>2, <2>3
  <2>5. QED
    BY <2>1, <2>3, <2>4
<1>3. ASSUME NEW v \in Turns, client.active[v] = t
      PROVE  Awaited(t) /\ client.active[t] = t
  BY <1>3, TurnAssumption DEF OwnThreads, Books, Regular
<1>4. QED
  BY <1>1, <1>2, <1>3

\* The answer to a request moves its caller on; what it leaves behind is nothing,
\* or the completion it is going to wait for.
LEMMA ResponseKeeps ==
    ASSUME PairingInv, ~crashed, UNCHANGED <<threadOf, faults>>, NEW c \in Children,
           out[c] # <<>>, ReadLine(c), Response(c, Head(out[c]))
    PROVE  PairingInv'
<1>1. /\ TypeOK /\ OneServer /\ DeadAreIdle /\ LinesNameTurns /\ ProcessFields
      /\ NothingPendsOnNobody /\ PendingAreAwaited /\ NoOneForgotten /\ OwnAnswer
      /\ OwnThreads /\ TakingTurns
      /\ Books /\ Waited /\ HeldByCaller /\ EndsLast /\ ResolvedAreOver /\ OwnNames
  BY DEF PairingInv, BooksAreKept, ClientInv, TurnsAreTaken
<1>2. PICK line : line = Head(out[c])
  OBVIOUS
<1>3. PICK t : t = line.turn
  OBVIOUS
<1>4. PICK request : request = [method |-> line.kind, turn |-> t]
  OBVIOUS
<1>5. /\ c = client.process /\ request \in client.pending
      /\ client' = Rescheduled([client EXCEPT !.pending = @ \ {request}])
      /\ UNCHANGED <<resolved, child, told, inbox, running, crashed>>
  BY <1>2, <1>3, <1>4 DEF Response
<1>6. /\ request \in Requests /\ t \in Turns /\ line.kind \in Methods /\ c # None
      /\ request.method = line.kind /\ request.turn = t
      /\ \A r \in client.pending : r \in Requests
  BY <1>1, <1>4, <1>5, TurnAssumption DEF TypeOK, Requests
<1>7. /\ client \in Clients /\ client' \in Clients
      /\ client'.process = c /\ client'.started = client.started
      /\ client'.starting = client.starting
      /\ client'.queue = client.queue /\ client'.active = client.active
      /\ client'.pending = client.pending \ {request}
  BY <1>1, <1>5 DEF Rescheduled, TypeOK, Clients
<1>8. out' \in [Children -> Seq(Lines)] /\ LinesNameTurns'
  BY <1>1, LineRead, LinesLeftNameTurns
<1>9. /\ OneServer' /\ DeadAreIdle' /\ ProcessFields' /\ NothingPendsOnNobody'
  BY <1>1, <1>5, <1>6, <1>7 DEF OneServer, DeadAreIdle, ProcessFields, NothingPendsOnNobody
<1>10. \A d \in Children : \A u \in Turns :
          Orderly(d, u) => Orderly(d, u)' /\ (Holds(d, u)' => Holds(d, u))
  BY <1>1, <1>5, ReadingKeepsOrder DEF Holds
<1>11. Registered(client)' = Registered(client)
  BY <1>7 DEF Registered, Queued
<1>12. faults' \in 0..MaxFaults /\ resolved' \in SUBSET Turns
  BY <1>1, <1>5 DEF TypeOK
\* The caller of the request goes on.
<1>14. ASSUME line.kind # "interrupt",
              NEW step \in {"opened", "wait", "delay", "done", "failed"},
              caller' = Go(t, step, FALSE),
              strayed \subseteq strayed', strayed' \subseteq Threads,
              bound' \in [Turns -> Turns \cup {None}], heard' \in [Turns -> Turns \cup {None}],
              answer' \in [Turns -> Turns \cup {None}], reads' \in [Turns -> 0..ReadAttempts - 1],
              \A u \in Turns \ {t} : /\ bound'[u] = bound[u] /\ heard'[u] = heard[u]
                                     /\ answer'[u] = answer[u],
              Regular(t)' => /\ bound'[t] \in {None, t} /\ heard'[t] \in {None, t}
                             /\ step = "done" => answer'[t] = t
                             /\ step = "wait" => t \in Registered(client)
                             /\ step # "wait" => t \notin Registered(client) /\ ~Holds(c, t)
                             /\ step = "opened" => t \notin resolved
       PROVE  PairingInv'
  <2>1. caller[t] = [step |-> line.kind, sent |-> TRUE] /\ caller[t].step = line.kind
    BY <1>1, <1>5, <1>6, <1>14 DEF PendingAreAwaited
  <2>2. /\ caller' \in [Turns -> [step : Steps, sent : BOOLEAN]]
        /\ caller'[t] = [step |-> step, sent |-> FALSE] /\ caller'[t].step = step
        /\ \A u \in Turns \ {t} : caller'[u] = caller[u]
    BY <1>1, <1>6, <1>14 DEF Go, TypeOK, Steps
  <2>3. TypeOK'
    BY <1>1, <1>5, <1>7, <1>8, <1>12, <1>14, <2>2 DEF TypeOK, Clients
  <2>4. \A u \in Turns : Regular(u)' => Regular(u)
    BY <1>14 DEF Regular
  <2>5. PendingAreAwaited'
    <3>1. ASSUME NEW r \in client'.pending, r.method # "interrupt"
          PROVE  caller'[r.turn] = [step |-> r.method, sent |-> TRUE]
      <4>1. /\ r \in client.pending /\ r # request /\ r \in Requests
            /\ caller[r.turn] = [step |-> r.method, sent |-> TRUE]
        BY <1>1, <1>6, <1>7, <3>1 DEF PendingAreAwaited
      <4>2. r.turn # t
        <5>1. ASSUME r.turn = t PROVE FALSE
          <6>1. caller[t].step = r.method
            BY <4>1, <5>1
          <6>2. r.method = request.method /\ r.turn = request.turn
            BY <1>6, <2>1, <5>1, <6>1
          <6>3. r = request
            BY <1>6, <4>1, <6>2 DEF Requests
          <6>4. QED
            BY <4>1, <6>3
        <5>2. QED
          BY <5>1
      <4>3. QED
        BY <2>2, <4>1, <4>2 DEF Requests
    <3>2. QED
      BY <3>1 DEF PendingAreAwaited
  <2>6. NoOneForgotten' /\ OwnAnswer'
    BY <1>1, <1>11, <1>14, <2>2, <2>4 DEF NoOneForgotten, OwnAnswer, At
  <2>7. OwnThreads' /\ TakingTurns'
    <3>1. \A u \in Turns : Open(u)' => Open(u)
      BY <1>6, <2>1, <2>2 DEF Open, Methods
    <3>2. TakingTurns'
      BY <1>1, <3>1 DEF TakingTurns
    <3>3. OwnThreads'
      BY <1>1, <1>7 DEF OwnThreads
    <3>4. QED
      BY <3>2, <3>3
  <2>8. Books'
    <3>1. ASSUME NEW u \in Turns, Regular(u)', u \in Registered(client), Awaited(u) PROVE Awaited(u)'
      BY <1>14, <2>2, <3>1 DEF Awaited, At
    <3>2. ASSUME NEW thread \in Threads \ strayed', client'.queue[thread] # <<>>
          PROVE  \E u \in Turns : /\ client'.queue[thread] = <<u>> /\ Awaited(u)'
                                  /\ client'.active[u] = None
      <4>1. PICK u \in Turns : client.queue[thread] = <<u>> /\ Awaited(u) /\ client.active[u] = None
        BY <1>1, <1>7, <1>14, <3>2 DEF Books
      <4>2. 1 \in DOMAIN client.queue[thread] /\ client.queue[thread][1] = u
        BY <4>1
      <4>3. threadOf[u] = thread /\ u \in Registered(client)
        BY <1>1, <4>2, WhoIsRegistered DEF OwnThreads
      <4>4. Regular(u)'
        BY <3>2, <4>3 DEF Regular
      <4>5. QED
        BY <1>7, <3>1, <4>1, <4>3, <4>4
    <3>3. ASSUME NEW u \in Turns, Regular(u)', client'.active[u] # None
          PROVE  client'.active[u] = u /\ Awaited(u)'
      <4>1. client.active[u] = u /\ Awaited(u)
        BY <1>1, <1>7, <2>4, <3>3 DEF Books
      <4>2. u \in Registered(client)
        BY <4>1, WhoIsRegistered, TurnAssumption
      <4>3. QED
        BY <1>7, <3>1, <3>3, <4>1, <4>2
    <3>4. QED
      BY <3>2, <3>3 DEF Books
  <2>9. Waited'
    <3>1. ASSUME NEW u \in Turns, Regular(u)', Awaited(u)'
          PROVE  u \in Registered(client) \/ (At(u, "start")' /\ u \in resolved)
      <4>1. CASE u = t
        BY <1>14, <2>2, <3>1, <4>1 DEF Awaited, At
      <4>2. CASE u # t
        BY <1>1, <2>2, <2>4, <3>1, <4>2 DEF Waited, Awaited, At
      <4>3. QED
        BY <4>1, <4>2
    <3>2. QED
      BY <1>5, <1>11, <3>1 DEF Waited
  <2>10. HeldByCaller'
    <3>1. ASSUME NEW u \in Turns, Regular(u)', Holds(c, u)'
          PROVE  At(u, "wait")' \/ caller'[u] = [step |-> "start", sent |-> TRUE]
      <4>1. Holds(c, u) /\ Regular(u)
        BY <1>1, <1>5, <1>6, <1>10, <2>4, <3>1 DEF EndsLast
      <4>2. CASE u = t
        BY <1>14, <2>2, <3>1, <4>1, <4>2 DEF At
      <4>3. CASE u # t
        BY <1>1, <1>5, <1>6, <2>2, <4>1, <4>3 DEF HeldByCaller, At
      <4>4. QED
        BY <4>2, <4>3
    <3>2. QED
      BY <1>7, <3>1 DEF HeldByCaller, Holds
  <2>11. EndsLast'
    <3>1. \A u \in Turns : Regular(u)' => Orderly(c, u)'
      BY <1>1, <1>5, <1>6, <1>10, <2>4 DEF EndsLast
    <3>2. QED
      BY <1>7, <3>1 DEF EndsLast, Orderly
  <2>12. ResolvedAreOver'
    <3>1. ASSUME NEW u \in Turns, Regular(u)', u \in resolved
          PROVE  /\ caller'[u].step \notin {"idle", "open", "opened"} /\ u \notin Registered(client)
                 /\ At(u, "start")' => caller'[u].sent /\ ~Holds(c, u)'
      <4>1. /\ Regular(u) /\ Orderly(c, u)
            /\ caller[u].step \notin {"idle", "open", "opened"} /\ u \notin Registered(client)
            /\ At(u, "start") => caller[u].sent /\ ~Holds(c, u)
        BY <1>1, <1>5, <1>6, <2>4, <3>1 DEF ResolvedAreOver, EndsLast
      <4>2. CASE u = t
        BY <1>14, <2>2, <3>1, <4>1, <4>2 DEF At
      <4>3. CASE u # t
        BY <1>10, <2>2, <4>1, <4>3 DEF At
      <4>4. QED
        BY <4>2, <4>3
    <3>2. QED
      BY <1>5, <1>7, <1>11, <3>1 DEF ResolvedAreOver, Holds
  <2>13. OwnNames'
    BY <1>1, <1>14, <2>4 DEF OwnNames
  <2>14. QED
    BY <1>8, <1>9, <2>3, <2>5, <2>6, <2>7, <2>8, <2>9, <2>10, <2>11, <2>12, <2>13
    DEF PairingInv, BooksAreKept, ClientInv, TurnsAreTaken
<1>13. line.kind # "interrupt" => caller[t].step = line.kind
  <2>1. ASSUME line.kind # "interrupt" PROVE caller[t] = [step |-> line.kind, sent |-> TRUE]
    BY <1>1, <1>5, <1>6, <2>1 DEF PendingAreAwaited
  <2>2. QED
    BY <2>1
\* What a caller that does not await a completion leaves behind: nothing.
<1>15. ASSUME line.kind \in {"open", "read"}, Regular(t)
       PROVE  t \notin Registered(client) /\ ~Holds(c, t)
  <2>1. caller[t].step \notin {"start", "wait"}
    BY <1>13, <1>15
  <2>2. t \notin Registered(client)
    BY <1>1, <1>6, <1>15, <2>1, RegisteredAreAwaited DEF Awaited, At
  <2>3. ~Holds(c, t)
    BY <1>1, <1>5, <1>6, <1>15, <2>1 DEF HeldByCaller, At
  <2>4. QED
    BY <2>2, <2>3
<1>16. ASSUME UNCHANGED <<localVars, strayed>>
       PROVE  /\ strayed' \subseteq Threads
              /\ bound' \in [Turns -> Turns \cup {None}] /\ heard' \in [Turns -> Turns \cup {None}]
              /\ answer' \in [Turns -> Turns \cup {None}] /\ reads' \in [Turns -> 0..ReadAttempts - 1]
              /\ UNCHANGED <<bound, heard, reads, answer, strayed>>
              /\ Regular(t)' => Regular(t) /\ bound'[t] \in {None, t} /\ heard'[t] \in {None, t}
  BY <1>1, <1>6, <1>16 DEF TypeOK, localVars, OwnNames, Regular
<1>17. CASE /\ line.kind = "open"
            /\ caller' = Go(t, IF line.ok THEN "opened" ELSE "failed", FALSE)
            /\ UNCHANGED <<localVars, strayed>>
  <2>1. PICK step \in {"opened", "failed"} : caller' = Go(t, step, FALSE)
    BY <1>17
  <2>2. Regular(t) => t \notin resolved
    <3>1. caller[t].step = "open"
      BY <1>13, <1>17
    <3>2. QED
      BY <1>1, <1>6, <3>1 DEF ResolvedAreOver
  <2>3. QED
    BY <1>14, <1>15, <1>16, <1>17, <2>1, <2>2
<1>18. CASE /\ line.kind = "start" /\ line.ok
            /\ caller' = Go(t, IF t \in resolved THEN "delay" ELSE "wait", FALSE)
            /\ UNCHANGED <<localVars, strayed>>
  <2>1. PICK step \in {"delay", "wait"} :
           caller' = Go(t, step, FALSE) /\ (step = "delay" <=> t \in resolved)
    BY <1>18
  <2>2. At(t, "start")
    BY <1>13, <1>18 DEF At
  <2>3. Regular(t) /\ t \in resolved => t \notin Registered(client) /\ ~Holds(c, t)
    BY <1>1, <1>5, <1>6, <2>2 DEF ResolvedAreOver
  <2>4. Regular(t) /\ t \notin resolved => t \in Registered(client)
    BY <1>1, <1>6, <2>2 DEF Waited, Awaited
  <2>5. QED
    BY <1>14, <1>16, <1>18, <2>1, <2>3, <2>4
<1>19. CASE /\ line.kind = "start" /\ ~line.ok
            /\ caller' = Go(t, "failed", FALSE)
            /\ strayed' = strayed \cup {threadOf[t]}
            /\ UNCHANGED localVars
  <2>1. ~Regular(t)' /\ strayed' \subseteq Threads
    BY <1>1, <1>6, <1>19 DEF Regular, TypeOK
  <2>2. /\ bound' \in [Turns -> Turns \cup {None}] /\ heard' \in [Turns -> Turns \cup {None}]
        /\ answer' \in [Turns -> Turns \cup {None}] /\ reads' \in [Turns -> 0..ReadAttempts - 1]
        /\ UNCHANGED <<bound, heard, reads, answer>>
    BY <1>1, <1>19 DEF TypeOK, localVars
  <2>3. QED
    BY <1>14, <1>19, <2>1, <2>2
<1>20. CASE /\ line.kind = "read"
            /\ caller' = Go(t, "failed", FALSE)
            /\ UNCHANGED <<localVars, strayed>>
  BY <1>14, <1>15, <1>16, <1>20
<1>21. ASSUME line.kind = "read", UNCHANGED strayed,
              NEW message \in Turns \cup {None}, Return(t, message),
              Regular(t) => message \in {None, t}
       PROVE  PairingInv'
  <2>1. PICK step \in {"failed", "done"} :
           caller' = Go(t, step, FALSE) /\ (step = "failed" <=> message = None)
    BY <1>21 DEF Return
  <2>2. /\ bound' \in [Turns -> Turns \cup {None}] /\ heard' \in [Turns -> Turns \cup {None}]
        /\ answer' \in [Turns -> Turns \cup {None}] /\ reads' \in [Turns -> 0..ReadAttempts - 1]
        /\ bound'[t] = None /\ heard'[t] = None /\ answer'[t] = message
        /\ \A u \in Turns \ {t} : /\ bound'[u] = bound[u] /\ heard'[u] = heard[u]
                                 /\ answer'[u] = answer[u]
    BY <1>1, <1>6, <1>21, AttemptAssumption DEF TypeOK, Return
  <2>3. strayed' \subseteq Threads /\ (Regular(t)' => Regular(t))
    BY <1>1, <1>21 DEF TypeOK, Regular
  <2>4. QED
    BY <1>14, <1>15, <1>21, <2>1, <2>2, <2>3
<1>22. CASE /\ line.kind = "read"
            /\ Return(t, IF bound[t] = None THEN t ELSE bound[t])
            /\ UNCHANGED strayed
  <2>1. PICK message \in Turns \cup {None} :
           Return(t, message) /\ message = IF bound[t] = None THEN t ELSE bound[t]
    BY <1>1, <1>6, <1>22 DEF TypeOK
  <2>2. Regular(t) => message \in {None, t}
    BY <1>1, <1>6, <2>1 DEF OwnNames
  <2>3. QED
    BY <1>21, <1>22, <2>1, <2>2
<1>23. CASE line.kind = "read" /\ Return(t, heard[t]) /\ UNCHANGED strayed
  <2>1. heard[t] \in Turns \cup {None} /\ (Regular(t) => heard[t] \in {None, t})
    BY <1>1, <1>6 DEF TypeOK, OwnNames
  <2>2. QED
    BY <1>21, <1>23, <2>1
<1>24. CASE /\ line.kind = "read" /\ ~LastAttempt(t)
            /\ reads' = [reads EXCEPT ![t] = @ + 1]
            /\ caller' = Go(t, "delay", FALSE)
            /\ UNCHANGED <<bound, heard, answer, strayed>>
  <2>1. reads' \in [Turns -> 0..ReadAttempts - 1]
    BY <1>1, <1>6, <1>24, AttemptAssumption DEF TypeOK, LastAttempt
  <2>2. /\ bound' \in [Turns -> Turns \cup {None}] /\ heard' \in [Turns -> Turns \cup {None}]
        /\ answer' \in [Turns -> Turns \cup {None}] /\ strayed' \subseteq Threads
        /\ Regular(t)' => Regular(t) /\ bound'[t] \in {None, t} /\ heard'[t] \in {None, t}
    BY <1>1, <1>6, <1>24 DEF TypeOK, OwnNames, Regular
  <2>3. QED
    BY <1>14, <1>15, <1>24, <2>1, <2>2
<1>25. CASE line.kind = "interrupt" /\ UNCHANGED <<caller, localVars, strayed>>
  <2>1. UNCHANGED callerVars
    BY <1>5, <1>25 DEF localVars, callerVars
  <2>2. TypeOK'
    BY <1>1, <1>5, <1>7, <1>8, <1>12, <1>25, <2>1 DEF TypeOK, Clients, callerVars
  <2>3. PendingAreAwaited'
    BY <1>1, <1>7, <1>25 DEF PendingAreAwaited
  <2>4. QED
    BY <1>5, <1>7, <1>8, <1>9, <1>10, <1>25, <2>1, <2>2, <2>3, CallersStay
<1>26. QED
  BY <1>2, <1>3, <1>4, <1>17, <1>18, <1>19, <1>20, <1>22, <1>23, <1>24, <1>25 DEF Response

-----------------------------------------------------------------------------
(***************************************************************************)
(* Notifications.                                                          *)
(***************************************************************************)

\* The callers after a notification: on other turns than the one it is about
\* nothing changes, as far as threads count that have not strayed, and the
\* caller of that one learns nothing, goes on, or has a completion that was
\* resolved before he waits for it.
LEMMA HearingKeeps ==
    ASSUME PairingInv, ~crashed,
           UNCHANGED <<threadOf, faults, child, told, inbox, running, reads, answer>>,
           NEW c \in Children, out[c] # <<>>, ReadLine(c),
           NEW t \in Turns, Note(Head(out[c]), t),
           client' \in Clients, client'.process = client.process,
           client'.started = client.started, client'.starting = client.starting,
           client'.idleTimer = client.idleTimer, client'.pending = client.pending,
           resolved' \subseteq Turns, crashed' \in BOOLEAN,
           bound' \in [Turns -> Turns \cup {None}], heard' \in [Turns -> Turns \cup {None}],
           strayed' = IF c = client.process THEN strayed ELSE strayed \cup {threadOf[t]},
           caller' \in [Turns -> [step : Steps, sent : BOOLEAN]],
           \A u \in Turns : \/ caller'[u] = caller[u]
                            \/ At(u, "wait") /\ caller'[u].step \in {"delay", "failed"},
           OwnThreads', Books',
           \A u \in Registered(client)' : u \in Registered(client),
           \A u \in Turns \ {t} : Regular(u)' =>
               /\ caller'[u] = caller[u] /\ bound'[u] = bound[u] /\ heard'[u] = heard[u]
               /\ u \in resolved' => u \in resolved
               /\ u \in resolved => u \in resolved'
               /\ u \in Registered(client) => u \in Registered(client)',
           Regular(t)' =>
               /\ bound'[t] \in {None, t} /\ heard'[t] \in {None, t}
               /\ \/ /\ caller'[t] = caller[t] /\ (t \in resolved' => t \in resolved)
                     /\ t \in resolved => t \in resolved'
                     /\ t \in Registered(client) => t \in Registered(client)'
                  \/ /\ At(t, "wait") /\ caller'[t].step \in {"delay", "failed"}
                     /\ t \notin Registered(client)' /\ ~Holds(c, t)'
                  \/ /\ ~At(t, "wait") /\ caller'[t] = caller[t]
                     /\ t \in resolved' /\ t \notin Registered(client)' /\ ~Holds(c, t)'
                  \/ ~At(t, "wait") /\ caller'[t] = caller[t] /\ crashed'
    PROVE  PairingInv'
<1>1. /\ TypeOK /\ OneServer /\ DeadAreIdle /\ LinesNameTurns /\ ProcessFields
      /\ NothingPendsOnNobody /\ PendingAreAwaited /\ NoOneForgotten /\ OwnAnswer
      /\ OwnThreads /\ TakingTurns
      /\ Books /\ Waited /\ HeldByCaller /\ EndsLast /\ ResolvedAreOver /\ OwnNames
  BY DEF PairingInv, BooksAreKept, ClientInv, TurnsAreTaken
<1>2. /\ out' \in [Children -> Seq(Lines)] /\ LinesNameTurns'
      /\ Holds(c, t)
  BY <1>1, LineRead, LinesLeftNameTurns
<1>3. strayed' \subseteq Threads /\ strayed \subseteq strayed'
  BY <1>1 DEF TypeOK
<1>4. TypeOK'
  BY <1>1, <1>2, <1>3 DEF TypeOK, Clients
<1>5. OneServer' /\ DeadAreIdle' /\ ProcessFields'
  BY <1>1 DEF OneServer, DeadAreIdle, ProcessFields
<1>6. NothingPendsOnNobody'
  BY <1>1 DEF NothingPendsOnNobody
<1>7. \A u \in Turns : Regular(u)' => Regular(u)
  BY <1>3 DEF Regular
<1>8. Regular(t)' => c = client.process /\ c # None
  BY TurnAssumption DEF Regular
<1>9. PendingAreAwaited'
  <2>1. ASSUME NEW r \in client.pending, r.method # "interrupt"
        PROVE  caller'[r.turn] = [step |-> r.method, sent |-> TRUE]
    <3>1. r \in Requests /\ caller[r.turn] = [step |-> r.method, sent |-> TRUE]
      BY <1>1, <2>1 DEF PendingAreAwaited, TypeOK
    <3>2. caller[r.turn].step = r.method
      BY <3>1
    <3>3. ~At(r.turn, "wait") /\ r.turn \in Turns
      BY <3>1, <3>2 DEF Requests, Methods, At
    <3>4. QED
      BY <3>1, <3>3
  <2>2. QED
    BY <2>1 DEF PendingAreAwaited
<1>10. OwnAnswer' /\ NoOneForgotten'
  <2>1. OwnAnswer'
    BY <1>1, <1>7 DEF OwnAnswer, At
  <2>2. ASSUME NEW u \in Turns, At(u, "wait")', Regular(u)' PROVE u \in Registered(client)'
    <3>1. At(u, "wait") /\ caller'[u] = caller[u]
      BY <2>2 DEF At
    <3>2. u \in Registered(client)
      BY <1>1, <1>7, <2>2, <3>1 DEF NoOneForgotten
    <3>3. CASE u = t
      BY <2>2, <3>1, <3>2, <3>3 DEF At
    <3>4. CASE u # t
      BY <2>2, <3>2, <3>4
    <3>5. QED
      BY <3>3, <3>4
  <2>3. QED
    BY <2>1, <2>2 DEF NoOneForgotten
<1>11. TakingTurns'
  <2>1. \A u \in Turns : Open(u)' => Open(u)
    BY DEF Open, At
  <2>2. QED
    BY <1>1, <2>1 DEF TakingTurns
<1>12. ASSUME NEW u \in Turns, Regular(u), client.process # None
       PROVE  /\ Orderly(client.process, u)
              /\ Orderly(client.process, u)'
              /\ Holds(client.process, u)' => Holds(client.process, u)
  <2>1. client.process \in Children /\ Orderly(client.process, u)
    BY <1>1, <1>12 DEF TypeOK, EndsLast
  <2>2. QED
    BY <1>1, <2>1, ReadingKeepsOrder DEF Holds
<1>13. ASSUME ~crashed' PROVE Waited'
  <2>1. ASSUME NEW u \in Turns, Regular(u)', Awaited(u)'
        PROVE  u \in Registered(client)' \/ (At(u, "start")' /\ u \in resolved')
    <3>1. CASE u # t
      BY <1>1, <1>7, <2>1, <3>1 DEF Waited, Awaited, At
    <3>2. CASE u = t
      <4>1. caller'[t] = caller[t]
        BY <1>13, <2>1, <3>2 DEF Awaited, At
      <4>2. t \in Registered(client) \/ (At(t, "start") /\ t \in resolved)
        BY <1>1, <1>7, <2>1, <3>2, <4>1 DEF Waited, Awaited, At
      <4>3. Awaited(t)
        BY <2>1, <3>2, <4>1 DEF Awaited, At
      <4>4. QED
        BY <1>13, <2>1, <3>2, <4>1, <4>2, <4>3 DEF At, Awaited
    <3>3. QED
      BY <3>1, <3>2
  <2>2. QED
    BY <2>1 DEF Waited
<1>14. HeldByCaller'
  <2>1. ASSUME NEW u \in Turns, Regular(u)', client.process # None, Holds(client.process, u)'
        PROVE  At(u, "wait")' \/ caller'[u] = [step |-> "start", sent |-> TRUE]
    <3>1. Holds(client.process, u) /\ Regular(u)
      BY <1>7, <1>12, <2>1
    <3>2. At(u, "wait") \/ caller[u] = [step |-> "start", sent |-> TRUE]
      BY <1>1, <2>1, <3>1 DEF HeldByCaller
    <3>3. caller'[u] = caller[u]
      <4>1. CASE u # t
        BY <2>1, <4>1
      <4>2. CASE u = t
        <5>1. Holds(c, t)'
          BY <1>8, <2>1, <4>2
        <5>2. QED
          BY <2>1, <4>2, <5>1
      <4>3. QED
        BY <4>1, <4>2
    <3>4. QED
      BY <3>2, <3>3 DEF At
  <2>2. QED
    BY <2>1 DEF HeldByCaller, Holds
<1>15. EndsLast'
  BY <1>7, <1>12 DEF EndsLast, Orderly
<1>16. ASSUME ~crashed' PROVE ResolvedAreOver'
  <2>1. ASSUME NEW u \in Turns, Regular(u)', u \in resolved'
        PROVE  /\ caller'[u].step \notin {"idle", "open", "opened"} /\ u \notin Registered(client)'
               /\ At(u, "start")' =>
                     caller'[u].sent /\ (client.process # None => ~Holds(client.process, u)')
    <3>1. CASE u \in resolved
      <4>1. /\ caller[u].step \notin {"idle", "open", "opened"} /\ u \notin Registered(client)
            /\ At(u, "start") =>
                  caller[u].sent /\ (client.process # None => ~Holds(client.process, u))
        BY <1>1, <1>7, <2>1, <3>1 DEF ResolvedAreOver
      <4>2. QED
        BY <1>7, <1>12, <2>1, <4>1 DEF At
    <3>2. CASE u \notin resolved
      <4>1. u = t
        BY <2>1, <3>2
      <4>2. At(t, "wait") \/ caller[t] = [step |-> "start", sent |-> TRUE]
        BY <1>1, <1>2, <1>7, <1>8, <2>1, <4>1 DEF HeldByCaller
      <4>3. caller[t].step \in {"wait", "start"} /\ (~At(t, "wait") => caller[t].sent)
        BY <4>2 DEF At
      <4>4. t \notin Registered(client)' /\ ~Holds(c, t)'
        BY <1>16, <2>1, <3>2, <4>1
      <4>5. caller'[t] = caller[t] \/ caller'[t].step \in {"delay", "failed"}
        BY <1>16, <2>1, <3>2, <4>1
      <4>6. QED
        BY <1>8, <2>1, <4>1, <4>3, <4>4, <4>5 DEF At
    <3>3. QED
      BY <3>1, <3>2
  <2>2. QED
    BY <2>1 DEF ResolvedAreOver, Holds
<1>17. OwnNames'
  <2>1. ASSUME NEW u \in Turns, Regular(u)'
        PROVE  bound'[u] \in {None, u} /\ heard'[u] \in {None, u}
    BY <1>1, <1>7, <2>1 DEF OwnNames
  <2>2. QED
    BY <2>1 DEF OwnNames
<1>18. QED
  BY <1>2, <1>4, <1>5, <1>6, <1>9, <1>10, <1>11, <1>13, <1>14, <1>15, <1>16, <1>17
  DEF PairingInv, BooksAreKept, ClientInv, TurnsAreTaken

\* Turn u is in a queue; it waits in the queue of some thread.
Has(queue, u) == \E i \in DOMAIN queue : queue[i] = u
Waits(cl, u) == \E thread \in Threads : Has(cl.queue[thread], u)

\* The oldest completion of a thread, and those behind it.
LEMMA OldestOfAThread ==
    ASSUME TypeOK, NEW thread \in Threads, client.queue[thread] # <<>>,
           NEW q, q = client.queue[thread]
    PROVE  /\ q \in Seq(Turns) /\ Head(q) \in Turns /\ Tail(q) \in Seq(Turns)
           /\ 1 \in DOMAIN q /\ q[1] = Head(q)
           /\ \A u : Has(q, u) <=> u = Head(q) \/ Has(Tail(q), u)
           /\ \A v \in Turns : q = <<v>> => Head(q) = v /\ Tail(q) = <<>>
<1>1. q \in Seq(Turns)
  BY DEF TypeOK
<1>2. /\ Head(q) \in Turns /\ Tail(q) \in Seq(Turns)
      /\ Len(q) \in Nat \ {0} /\ DOMAIN q = 1..Len(q) /\ DOMAIN Tail(q) = 1..Len(q) - 1
      /\ 1 \in DOMAIN q /\ q[1] = Head(q)
      /\ \A i \in 1..Len(q) - 1 : Tail(q)[i] = q[i + 1]
  BY <1>1
<1>3. ASSUME NEW u
      PROVE  Has(q, u) <=> u = Head(q) \/ Has(Tail(q), u)
  <2>1. ASSUME NEW i \in DOMAIN q, q[i] = u
        PROVE  u = Head(q) \/ Has(Tail(q), u)
    <3>1. CASE i = 1
      BY <1>2, <2>1, <3>1
    <3>2. CASE i # 1
      <4>1. i - 1 \in DOMAIN Tail(q) /\ Tail(q)[i - 1] = q[i]
        BY <1>2, <2>1, <3>2
      <4>2. QED
        BY <2>1, <4>1 DEF Has
    <3>3. QED
      BY <3>1, <3>2
  <2>2. ASSUME u = Head(q) PROVE Has(q, u)
    BY <1>2, <2>2 DEF Has
  <2>3. ASSUME NEW j \in DOMAIN Tail(q), Tail(q)[j] = u PROVE Has(q, u)
    <3>1. j + 1 \in DOMAIN q /\ q[j + 1] = u
      BY <1>2, <2>3
    <3>2. QED
      BY <3>1 DEF Has
  <2>4. QED
    BY <2>1, <2>2, <2>3 DEF Has
<1>4. \A v \in Turns : q = <<v>> => Head(q) = v /\ Tail(q) = <<>>
  OBVIOUS
<1>5. QED
  BY <1>1, <1>2, <1>3, <1>4, Zenon

\* A notification finds a completion of its own thread; on a thread that has not
\* strayed, and of whose turn somebody awaits the end, it finds his.
LEMMA CompletionFound ==
    ASSUME TypeOK, OwnThreads, NEW t \in Turns, Completion(t) # None
    PROVE  /\ Completion(t) \in Turns /\ threadOf[Completion(t)] = threadOf[t]
           /\ Books /\ TakingTurns /\ Regular(t) /\ Awaited(t) => Completion(t) = t
<1>1. threadOf[t] \in Threads
  BY DEF TypeOK
<1>2. CASE client.active[t] # None
  <2>1. Completion(t) = client.active[t]
    BY <1>2 DEF Completion
  <2>2. Completion(t) \in Turns /\ threadOf[Completion(t)] = threadOf[t]
    BY <1>2, <2>1 DEF TypeOK, OwnThreads
  <2>3. Books /\ Regular(t) => Completion(t) = t
    BY <1>2, <2>1 DEF Books
  <2>4. QED
    BY <2>2, <2>3
<1>3. CASE client.active[t] = None
  <2>1. client.queue[threadOf[t]] # <<>> /\ Completion(t) = Head(client.queue[threadOf[t]])
    BY <1>3 DEF Completion
  <2>2. PICK q : q = client.queue[threadOf[t]]
    OBVIOUS
  <2>3. /\ Head(q) \in Turns /\ 1 \in DOMAIN q /\ q[1] = Head(q)
        /\ \A v \in Turns : q = <<v>> => Head(q) = v
    BY <1>1, <2>1, <2>2, OldestOfAThread
  <2>4. threadOf[Head(q)] = threadOf[t]
    BY <1>1, <2>2, <2>3 DEF OwnThreads
  <2>5. ASSUME Books, TakingTurns, Regular(t), Awaited(t) PROVE Head(q) = t
    <3>1. PICK v \in Turns : q = <<v>> /\ Awaited(v)
      BY <1>1, <2>1, <2>2, <2>5 DEF Books, Regular
    <3>2. v = Head(q) /\ Open(v) /\ Open(t)
      BY <2>3, <2>5, <3>1 DEF Awaited, At, Open
    <3>3. QED
      BY <2>4, <2>5, <3>1, <3>2 DEF TakingTurns
  <2>6. QED
    BY <2>1, <2>2, <2>3, <2>4, <2>5
<1>4. QED
  BY <1>2, <1>3

\* The caller of a turn that the process speaks about awaits it.
LEMMA SpokenOfAreAwaited ==
    ASSUME PairingInv, ~crashed, NEW c \in Children, out[c] # <<>>, ReadLine(c),
           NEW t \in Turns, Note(Head(out[c]), t), c = client.process, Regular(t)
    PROVE  /\ Awaited(t) /\ Open(t)
           /\ At(t, "wait") \/ caller[t] = [step |-> "start", sent |-> TRUE]
<1>1. TypeOK /\ LinesNameTurns /\ HeldByCaller /\ c # None
  BY TurnAssumption DEF PairingInv, BooksAreKept, ClientInv, TurnsAreTaken
<1>2. Holds(c, t)
  BY <1>1, LinesLeftNameTurns
<1>3. At(t, "wait") \/ caller[t] = [step |-> "start", sent |-> TRUE]
  BY <1>1, <1>2 DEF HeldByCaller
<1>4. QED
  BY <1>3 DEF Awaited, Open, At

\* What the model's agent message does to the caller it finds.
LEMMA AgentMessageKeeps ==
    ASSUME PairingInv, ~crashed,
           UNCHANGED <<threadOf, faults, child, told, inbox, running, reads, answer>>,
           NEW c \in Children, out[c] # <<>>, ReadLine(c),
           NEW t \in Turns, Note(Head(out[c]), t), AgentMessage(t),
           strayed' = IF c = client.process THEN strayed ELSE strayed \cup {threadOf[t]}
    PROVE  PairingInv'
<1>1. /\ TypeOK /\ OwnThreads /\ TakingTurns /\ Books /\ OwnNames
  BY DEF PairingInv, BooksAreKept, ClientInv, TurnsAreTaken
<1>2. PICK w : w = Completion(t)
  OBVIOUS
<1>3. /\ w # None /\ heard' = [heard EXCEPT ![w] = t]
      /\ UNCHANGED <<client, caller, bound, resolved, crashed>>
  BY <1>2 DEF AgentMessage
<1>4. /\ w \in Turns /\ threadOf[w] = threadOf[t]
      /\ Regular(t) /\ Awaited(t) => w = t
  BY <1>1, <1>2, <1>3, CompletionFound
<1>5. /\ heard' \in [Turns -> Turns \cup {None}] /\ heard'[w] = t
      /\ \A u \in Turns \ {w} : heard'[u] = heard[u]
  BY <1>1, <1>3, <1>4 DEF TypeOK
<1>6. \A u \in Turns : Regular(u)' => Regular(u) /\ (threadOf[u] = threadOf[t] => Regular(t)')
  BY DEF Regular
<1>7. Regular(t)' => w = t /\ Regular(t)
  <2>1. ASSUME Regular(t)' PROVE c = client.process /\ Regular(t)
    BY <2>1 DEF Regular
  <2>2. QED
    BY <1>4, <2>1, SpokenOfAreAwaited
<1>8. client' \in Clients /\ OwnThreads' /\ Books' /\ Registered(client)' = Registered(client)
  <2>1. client' \in Clients /\ OwnThreads'
    BY <1>1, <1>3 DEF TypeOK, Clients, OwnThreads
  <2>2. Books'
    BY <1>1, <1>3, <1>6 DEF Books, Regular, Awaited, At
  <2>3. Registered(client)' = Registered(client)
    BY <1>3 DEF Registered, Queued
  <2>4. QED
    BY <2>1, <2>2, <2>3
<1>9. \A u \in Turns \ {t} : Regular(u)' => heard'[u] = heard[u]
  BY <1>4, <1>5, <1>6, <1>7
<1>10. Regular(t)' => bound'[t] \in {None, t} /\ heard'[t] \in {None, t}
  BY <1>1, <1>3, <1>5, <1>7 DEF OwnNames
<1>11. /\ resolved' \subseteq Turns /\ crashed' \in BOOLEAN
       /\ bound' \in [Turns -> Turns \cup {None}]
       /\ caller' \in [Turns -> [step : Steps, sent : BOOLEAN]]
  BY <1>1, <1>3 DEF TypeOK
<1>12. QED
  BY <1>3, <1>5, <1>8, <1>9, <1>10, <1>11, HearingKeeps

\* The client when the oldest completion of a thread has left its queue.
WithoutOldest(thread, active) ==
    [client EXCEPT !.queue[thread] = Tail(@), !.active = active]

\* It is all that has left.
LEMMA OldestTaken ==
    ASSUME TypeOK, NEW thread \in Threads, client.queue[thread] # <<>>,
           NEW active \in [Turns -> Turns \cup {None}],
           NEW cl, cl = WithoutOldest(thread, active)
    PROVE  /\ cl \in Clients
           /\ cl.process = client.process /\ cl.started = client.started
           /\ cl.starting = client.starting /\ cl.idleTimer = client.idleTimer
           /\ cl.pending = client.pending /\ cl.active = active
           /\ cl.queue[thread] = Tail(client.queue[thread])
           /\ \A th \in Threads \ {thread} : cl.queue[th] = client.queue[th]
           /\ \A u : Waits(client, u) <=> u = Head(client.queue[thread]) \/ Waits(cl, u)
           /\ OwnThreads => \A th \in Threads : \A i \in DOMAIN cl.queue[th] :
                               threadOf[cl.queue[th][i]] = th
<1>1. client \in Clients
  BY DEF TypeOK, Clients
<1>2. PICK q : q = client.queue[thread]
  OBVIOUS
<1>3. /\ q \in Seq(Turns) /\ Head(q) \in Turns /\ Tail(q) \in Seq(Turns)
      /\ \A u : Has(q, u) <=> u = Head(q) \/ Has(Tail(q), u)
  BY <1>2, OldestOfAThread
<1> DEFINE queues == [client.queue EXCEPT ![thread] = Tail(q)]
<1>4. /\ queues \in [Threads -> Seq(Turns)] /\ queues[thread] = Tail(q)
      /\ \A th \in Threads \ {thread} : queues[th] = client.queue[th]
  <2>1. client.queue \in [Threads -> Seq(Turns)]
    BY <1>1 DEF Clients
  <2>2. QED
    BY <1>3, <2>1
<1>5. cl = [client EXCEPT !.queue = queues, !.active = active]
  BY <1>1, <1>2 DEF Clients, WithoutOldest
<1> HIDE DEF queues
<1>6. /\ cl \in Clients
      /\ cl.process = client.process /\ cl.started = client.started
      /\ cl.starting = client.starting /\ cl.idleTimer = client.idleTimer
      /\ cl.pending = client.pending /\ cl.active = active /\ cl.queue = queues
  BY <1>1, <1>4, <1>5 DEF Clients
<1>7. ASSUME NEW u PROVE Waits(client, u) <=> u = Head(q) \/ Waits(cl, u)
  <2>1. Has(client.queue[thread], u) <=> u = Head(q) \/ Has(cl.queue[thread], u)
    BY <1>2, <1>3, <1>4, <1>6
  <2>2. \A th \in Threads \ {thread} : Has(client.queue[th], u) <=> Has(cl.queue[th], u)
    BY <1>4, <1>6
  <2>3. QED
    BY <2>1, <2>2 DEF Waits
<1>8. ASSUME OwnThreads, NEW th \in Threads, NEW i \in DOMAIN queues[th]
      PROVE  threadOf[queues[th][i]] = th
  <2>1. CASE th = thread
    <3>1. Has(q, queues[th][i])
      BY <1>3, <1>4, <1>8, <2>1 DEF Has
    <3>2. QED
      BY <1>2, <1>8, <2>1, <3>1 DEF OwnThreads, Has
  <2>2. CASE th # thread
    BY <1>4, <1>8, <2>2 DEF OwnThreads
  <2>3. QED
    BY <2>1, <2>2
<1>9. QED
  BY <1>2, <1>4, <1>6, <1>7, <1>8

\* The oldest completion of the thread is bound to the turn that begins.
LEMMA TurnStartedKeeps ==
    ASSUME PairingInv, ~crashed,
           UNCHANGED <<threadOf, faults, child, told, inbox, running, reads, answer>>,
           NEW c \in Children, out[c] # <<>>, ReadLine(c),
           NEW t \in Turns, Note(Head(out[c]), t), TurnStarted(t),
           strayed' = IF c = client.process THEN strayed ELSE strayed \cup {threadOf[t]}
    PROVE  PairingInv'
<1>1. /\ TypeOK /\ OwnThreads /\ TakingTurns /\ Books /\ OwnNames
      /\ threadOf[t] \in Threads
  BY DEF PairingInv, BooksAreKept, ClientInv, TurnsAreTaken, TypeOK
<1>2. PICK thread : thread = threadOf[t]
  OBVIOUS
<1>3. PICK w : w = Head(client.queue[thread])
  OBVIOUS
<1>4. /\ client.queue[thread] # <<>>
      /\ client' = [client EXCEPT !.queue[thread] = Tail(@), !.active[t] = w]
      /\ bound' = [bound EXCEPT ![w] = t]
      /\ UNCHANGED <<caller, heard, resolved, crashed>>
  BY <1>2, <1>3 DEF TurnStarted, Shifted
<1>5. /\ w \in Turns /\ threadOf[w] = thread
      /\ \A v \in Turns : client.queue[thread] = <<v>> =>
            w = v /\ Tail(client.queue[thread]) = <<>>
  <2>1. PICK q : q = client.queue[thread]
    OBVIOUS
  <2>2. /\ w = Head(q) /\ Head(q) \in Turns /\ 1 \in DOMAIN q /\ q[1] = Head(q)
        /\ \A v \in Turns : q = <<v>> => Head(q) = v /\ Tail(q) = <<>>
    BY <1>1, <1>2, <1>3, <1>4, <2>1, OldestOfAThread
  <2>3. threadOf[w] = thread
    BY <1>1, <1>2, <2>1, <2>2 DEF OwnThreads
  <2>4. QED
    BY <2>1, <2>2, <2>3
<1>6. PICK active \in [Turns -> Turns \cup {None}] :
         /\ active[t] = w /\ \A u \in Turns \ {t} : active[u] = client.active[u]
         /\ client' = WithoutOldest(thread, active)
  <2>1. client \in Clients
    BY <1>1 DEF TypeOK, Clients
  <2> DEFINE new == [client.active EXCEPT ![t] = w]
  <2>2. client' = WithoutOldest(thread, new)
    BY <1>4, <2>1 DEF Clients, WithoutOldest
  <2>3. new \in [Turns -> Turns \cup {None}] /\ new[t] = w
        /\ \A u \in Turns \ {t} : new[u] = client.active[u]
    BY <1>5, <2>1 DEF Clients
  <2>4. QED
    BY <2>2, <2>3
<1>7. PICK cl : cl = client'
  OBVIOUS
<1>8. /\ cl \in Clients
      /\ cl.process = client.process /\ cl.started = client.started
      /\ cl.starting = client.starting /\ cl.idleTimer = client.idleTimer
      /\ cl.pending = client.pending /\ cl.active = active
      /\ cl.queue[thread] = Tail(client.queue[thread])
      /\ \A th \in Threads \ {thread} : cl.queue[th] = client.queue[th]
      /\ \A u : Waits(client, u) <=> u = w \/ Waits(cl, u)
      /\ \A th \in Threads : \A i \in DOMAIN cl.queue[th] : threadOf[cl.queue[th][i]] = th
  <2>1. cl = WithoutOldest(thread, active) /\ thread \in Threads
    BY <1>1, <1>2, <1>6, <1>7
  <2>2. client.queue[thread] # <<>>
    BY <1>4
  <2>3. \A u : Waits(client, u) <=> u = Head(client.queue[thread]) \/ Waits(cl, u)
    BY <1>1, <2>1, <2>2, OldestTaken
  <2>4. /\ cl \in Clients
        /\ cl.process = client.process /\ cl.started = client.started
        /\ cl.starting = client.starting /\ cl.idleTimer = client.idleTimer
        /\ cl.pending = client.pending /\ cl.active = active
        /\ cl.queue[thread] = Tail(client.queue[thread])
        /\ \A th \in Threads \ {thread} : cl.queue[th] = client.queue[th]
        /\ \A th \in Threads : \A i \in DOMAIN cl.queue[th] : threadOf[cl.queue[th][i]] = th
    BY <1>1, <2>1, <2>2, OldestTaken
  <2>5. QED
    BY <1>3, <2>3, <2>4
<1>9. OwnThreads'
  <2>1. \A u \in Turns : active[u] # None => threadOf[active[u]] = threadOf[u]
    BY <1>1, <1>2, <1>5, <1>6 DEF OwnThreads
  <2>2. QED
    BY <1>7, <1>8, <2>1 DEF OwnThreads
<1>10. Registered(client)' = Registered(cl)
  BY <1>7 DEF Registered, Queued
<1>11. \A u : /\ u \in Registered(cl) => u \in Registered(client)
              /\ u \in Registered(client) => u \in Registered(cl) \/ u = client.active[t]
  <2>1. TAKE u
  <2>2. u \in Registered(cl) <=> Waits(cl, u) \/ (u # None /\ \E v \in Turns : active[v] = u)
    BY <1>8, WhoIsRegistered DEF Waits, Has
  <2>3. u \in Registered(client) <=>
              Waits(client, u) \/ (u # None /\ \E v \in Turns : client.active[v] = u)
    BY WhoIsRegistered DEF Waits, Has
  <2>4. ASSUME NEW v \in Turns, active[v] = u, u # None PROVE u \in Registered(client)
    <3>1. CASE v = t
      BY <1>6, <1>8, <2>3, <2>4, <3>1
    <3>2. CASE v # t
      BY <1>6, <2>3, <2>4, <3>2
    <3>3. QED
      BY <3>1, <3>2
  <2>5. ASSUME NEW v \in Turns, client.active[v] = u, u # None
        PROVE  u \in Registered(cl) \/ u = client.active[t]
    BY <1>6, <2>2, <2>5
  <2>6. ASSUME u = w PROVE u \in Registered(cl)
    BY <1>5, <1>6, <2>2, <2>6, TurnAssumption
  <2>7. QED
    BY <1>8, <2>2, <2>3, <2>4, <2>5, <2>6
<1>12. \A u \in Turns : Regular(u)' => Regular(u) /\ (threadOf[u] = thread => Regular(t)')
  BY <1>2 DEF Regular
<1>13. ASSUME Regular(t)'
       PROVE  /\ w = t /\ Awaited(t) /\ Regular(t) /\ client.active[t] = None
              /\ cl.queue[thread] = <<>>
  <2>1. Regular(t) /\ c = client.process
    BY <1>13 DEF Regular
  <2>2. Awaited(t) /\ Open(t)
    BY <2>1, SpokenOfAreAwaited
  <2>3. PICK v \in Turns : client.queue[thread] = <<v>> /\ Awaited(v) /\ client.active[v] = None
    BY <1>1, <1>2, <1>4, <2>1 DEF Books, Regular
  <2>4. v = w /\ Open(v)
    BY <1>5, <2>3 DEF Awaited, Open, At
  <2>5. v = t
    BY <1>1, <1>2, <1>5, <2>2, <2>4 DEF TakingTurns
  <2>6. QED
    BY <1>5, <1>8, <2>1, <2>2, <2>3, <2>4, <2>5
<1>14. Books'
  <2>1. ASSUME NEW th \in Threads \ strayed', cl.queue[th] # <<>>
        PROVE  \E u \in Turns : cl.queue[th] = <<u>> /\ Awaited(u)' /\ active[u] = None
    <3>1. th # thread
      BY <1>2, <1>13, <2>1 DEF Regular
    <3>2. th \notin strayed /\ client.queue[th] = cl.queue[th]
      BY <1>8, <2>1, <3>1
    <3>3. PICK u \in Turns : client.queue[th] = <<u>> /\ Awaited(u) /\ client.active[u] = None
      BY <1>1, <2>1, <3>2 DEF Books
    <3>4. 1 \in DOMAIN client.queue[th] /\ client.queue[th][1] = u
      BY <3>3
    <3>5. u # t
      BY <1>1, <1>2, <3>1, <3>4 DEF OwnThreads
    <3>6. QED
      BY <1>4, <1>6, <3>2, <3>3, <3>5 DEF Awaited, At
  <2>2. ASSUME NEW u \in Turns, Regular(u)', active[u] # None
        PROVE  active[u] = u /\ Awaited(u)'
    <3>1. CASE u = t
      BY <1>4, <1>6, <1>13, <2>2, <3>1 DEF Awaited, At
    <3>2. CASE u # t
      BY <1>1, <1>4, <1>6, <1>12, <2>2, <3>2 DEF Books, Awaited, At
    <3>3. QED
      BY <3>1, <3>2
  <2>3. QED
    BY <1>7, <1>8, <2>1, <2>2 DEF Books
<1>15. bound' \in [Turns -> Turns \cup {None}] /\ bound'[w] = t
       /\ \A u \in Turns \ {w} : bound'[u] = bound[u]
  BY <1>1, <1>4, <1>5 DEF TypeOK
<1>16. ASSUME NEW u \in Turns \ {t}, Regular(u)'
       PROVE  bound'[u] = bound[u] /\ (u \in Registered(client) => u \in Registered(client)')
  <2>1. u # w
    BY <1>5, <1>12, <1>13, <1>16
  <2>2. u # client.active[t]
    BY <1>1, <1>2, <1>12, <1>13, <1>16, TurnAssumption DEF OwnThreads
  <2>3. QED
    BY <1>10, <1>11, <1>15, <2>1, <2>2
<1>17. ASSUME Regular(t)'
       PROVE  /\ bound'[t] \in {None, t} /\ heard'[t] \in {None, t}
              /\ t \in Registered(client) => t \in Registered(client)'
  BY <1>1, <1>4, <1>10, <1>11, <1>13, <1>15, <1>17, TurnAssumption DEF OwnNames
<1>18. /\ resolved' \subseteq Turns /\ crashed' \in BOOLEAN
       /\ heard' \in [Turns -> Turns \cup {None}]
       /\ caller' \in [Turns -> [step : Steps, sent : BOOLEAN]]
  BY <1>1, <1>4 DEF TypeOK
<1>19. QED
  BY <1>4, <1>7, <1>8, <1>9, <1>10, <1>11, <1>14, <1>15, <1>16, <1>17, <1>18, HearingKeeps

\* The completion the client finds is taken out of the books, and no other.
LEMMA CompletionTaken ==
    ASSUME TypeOK, OwnThreads, NEW t \in Turns, Completion(t) # None,
           NEW cl, cl = Taken(t)
    PROVE  /\ cl \in Clients
           /\ cl.process = client.process /\ cl.started = client.started
           /\ cl.starting = client.starting /\ cl.idleTimer = client.idleTimer
           /\ cl.pending = client.pending
           /\ \A th \in Threads \ {threadOf[t]} : cl.queue[th] = client.queue[th]
           /\ \A u \in Turns \ {t} : cl.active[u] = client.active[u]
           /\ cl.active[t] = None
           /\ \A th \in Threads : \A i \in DOMAIN cl.queue[th] : threadOf[cl.queue[th][i]] = th
           /\ \A u : /\ u \in Registered(cl) => u \in Registered(client)
                     /\ u \in Registered(client) => u \in Registered(cl) \/ u = Completion(t)
           /\ \/ client.active[t] # None /\ cl.queue[threadOf[t]] = client.queue[threadOf[t]]
              \/ /\ client.active[t] = None /\ client.queue[threadOf[t]] # <<>>
                 /\ cl.queue[threadOf[t]] = Tail(client.queue[threadOf[t]])
<1>1. client \in Clients /\ threadOf[t] \in Threads
  BY DEF TypeOK, Clients
<1>2. \A u : u \in Registered(cl) <=>
                 Waits(cl, u) \/ (u # None /\ \E v \in Turns : cl.active[v] = u)
  BY WhoIsRegistered DEF Waits, Has
<1>3. \A u : u \in Registered(client) <=>
                 Waits(client, u) \/ (u # None /\ \E v \in Turns : client.active[v] = u)
  BY WhoIsRegistered DEF Waits, Has
<1>4. CASE client.active[t] # None
  <2>1. Completion(t) = client.active[t] /\ cl = [client EXCEPT !.active[t] = None]
    BY <1>4 DEF Completion, Taken
  <2> DEFINE new == [client.active EXCEPT ![t] = None]
  <2>2. new \in [Turns -> Turns \cup {None}] /\ new[t] = None
        /\ \A u \in Turns \ {t} : new[u] = client.active[u]
    BY <1>1 DEF Clients
  <2>3. cl = [client EXCEPT !.active = new]
    BY <1>1, <2>1 DEF Clients
  <2> HIDE DEF new
  <2>4. /\ cl \in Clients
        /\ cl.process = client.process /\ cl.started = client.started
        /\ cl.starting = client.starting /\ cl.idleTimer = client.idleTimer
        /\ cl.pending = client.pending /\ cl.queue = client.queue /\ cl.active = new
    BY <1>1, <2>2, <2>3 DEF Clients
  <2>5. \A th \in Threads : \A i \in DOMAIN cl.queue[th] : threadOf[cl.queue[th][i]] = th
    BY <2>4 DEF OwnThreads
  <2>6. \A u : Waits(cl, u) <=> Waits(client, u)
    BY <2>4 DEF Waits
  <2>7. \A u : /\ u \in Registered(cl) => u \in Registered(client)
               /\ u \in Registered(client) => u \in Registered(cl) \/ u = client.active[t]
    <3>1. TAKE u
    <3>2. ASSUME NEW v \in Turns, cl.active[v] = u, u # None PROVE client.active[v] = u
      BY <2>2, <2>4, <3>2
    <3>3. ASSUME NEW v \in Turns, client.active[v] = u
          PROVE  cl.active[v] = u \/ u = client.active[t]
      BY <2>2, <2>4, <3>3
    <3>4. QED
      BY <1>2, <1>3, <2>6, <3>2, <3>3
  <2>8. QED
    BY <1>4, <2>1, <2>2, <2>4, <2>5, <2>7
<1>5. CASE client.active[t] = None
  <2>1. /\ client.queue[threadOf[t]] # <<>>
        /\ Completion(t) = Head(client.queue[threadOf[t]])
        /\ cl = [client EXCEPT !.queue[threadOf[t]] = IF @ = <<>> THEN @ ELSE Tail(@)]
    BY <1>5 DEF Completion, Taken
  <2>2. PICK active \in [Turns -> Turns \cup {None}] : active = client.active
    BY <1>1 DEF Clients
  <2>3. cl = WithoutOldest(threadOf[t], active)
    BY <1>1, <2>1, <2>2 DEF Clients, WithoutOldest
  <2>4. /\ cl \in Clients
        /\ cl.process = client.process /\ cl.started = client.started
        /\ cl.starting = client.starting /\ cl.idleTimer = client.idleTimer
        /\ cl.pending = client.pending /\ cl.active = active
        /\ cl.queue[threadOf[t]] = Tail(client.queue[threadOf[t]])
        /\ \A th \in Threads \ {threadOf[t]} : cl.queue[th] = client.queue[th]
        /\ \A th \in Threads : \A i \in DOMAIN cl.queue[th] : threadOf[cl.queue[th][i]] = th
    <3>1. PICK th \in Threads : th = threadOf[t]
      BY <1>1
    <3>2. cl = WithoutOldest(th, active) /\ client.queue[th] # <<>>
      BY <2>1, <2>3, <3>1
    <3>3. /\ cl \in Clients
          /\ cl.process = client.process /\ cl.started = client.started
          /\ cl.starting = client.starting /\ cl.idleTimer = client.idleTimer
          /\ cl.pending = client.pending /\ cl.active = active
          /\ cl.queue[th] = Tail(client.queue[th])
          /\ \A other \in Threads \ {th} : cl.queue[other] = client.queue[other]
      BY <3>2, OldestTaken
    <3>4. \A other \in Threads : \A i \in DOMAIN cl.queue[other] : threadOf[cl.queue[other][i]] = other
      BY <3>2, OldestTaken
    <3>5. QED
      BY <3>1, <3>3, <3>4
  <2>5. \A u : Waits(client, u) <=> u = Completion(t) \/ Waits(cl, u)
    BY <1>1, <2>1, <2>3, OldestTaken
  <2>6. \A u : /\ u \in Registered(cl) => u \in Registered(client)
               /\ u \in Registered(client) => u \in Registered(cl) \/ u = Completion(t)
    BY <1>2, <1>3, <2>2, <2>4, <2>5
  <2>7. QED
    BY <1>5, <2>1, <2>2, <2>4, <2>6
<1>6. QED
  BY <1>4, <1>5

\* The completion found is resolved or rejected: its caller goes on or, if it
\* does not wait for it yet, finds it resolved, or the bot dies.
LEMMA TurnCompletedKeeps ==
    ASSUME PairingInv, ~crashed,
           UNCHANGED <<threadOf, faults, child, told, inbox, running, reads, answer>>,
           NEW c \in Children, out[c] # <<>>, ReadLine(c),
           NEW t \in Turns, Note(Head(out[c]), t), Head(out[c]).kind = "completed",
           NEW ok, TurnCompleted(t, ok),
           strayed' = IF c = client.process THEN strayed ELSE strayed \cup {threadOf[t]}
    PROVE  PairingInv'
<1>1. /\ TypeOK /\ OwnThreads /\ TakingTurns /\ Books /\ OwnNames /\ EndsLast
      /\ threadOf[t] \in Threads
  BY DEF PairingInv, BooksAreKept, ClientInv, TurnsAreTaken, TypeOK
<1>2. PICK thread : thread = threadOf[t]
  OBVIOUS
<1>3. PICK w : w = Completion(t)
  OBVIOUS
<1>4. /\ w # None /\ client' = Taken(t) /\ UNCHANGED <<bound, heard>>
      /\ \/ ok /\ At(w, "wait") /\ caller' = Go(w, "delay", FALSE) /\ UNCHANGED <<resolved, crashed>>
         \/ ok /\ ~At(w, "wait") /\ resolved' = resolved \cup {w} /\ UNCHANGED <<caller, crashed>>
         \/ /\ ~ok /\ caller' = IF At(w, "wait") THEN Go(w, "failed", FALSE) ELSE caller
            /\ crashed' = Unheard({w}) /\ UNCHANGED resolved
  BY <1>3 DEF TurnCompleted
<1>5. /\ w \in Turns /\ threadOf[w] = thread
      /\ Regular(t) /\ Awaited(t) => w = t
  BY <1>1, <1>2, <1>3, <1>4, CompletionFound
<1>6. PICK cl : cl = client'
  OBVIOUS
<1>7. /\ cl \in Clients
      /\ cl.process = client.process /\ cl.started = client.started
      /\ cl.starting = client.starting /\ cl.idleTimer = client.idleTimer
      /\ cl.pending = client.pending
      /\ \A th \in Threads \ {thread} : cl.queue[th] = client.queue[th]
      /\ \A u \in Turns \ {t} : cl.active[u] = client.active[u]
      /\ cl.active[t] = None
      /\ \A th \in Threads : \A i \in DOMAIN cl.queue[th] : threadOf[cl.queue[th][i]] = th
      /\ \A u : /\ u \in Registered(cl) => u \in Registered(client)
                /\ u \in Registered(client) => u \in Registered(cl) \/ u = w
      /\ \/ client.active[t] # None /\ cl.queue[thread] = client.queue[thread]
         \/ /\ client.active[t] = None /\ client.queue[thread] # <<>>
            /\ cl.queue[thread] = Tail(client.queue[thread])
  BY <1>1, <1>2, <1>3, <1>4, <1>6, CompletionTaken
<1>8. OwnThreads'
  <2>1. \A u \in Turns : cl.active[u] # None => threadOf[cl.active[u]] = threadOf[u]
    BY <1>1, <1>7 DEF OwnThreads
  <2>2. QED
    BY <1>6, <1>7, <2>1 DEF OwnThreads
<1>9. Registered(client)' = Registered(cl)
  BY <1>6 DEF Registered, Queued
<1>10. \A u \in Turns : Regular(u)' => Regular(u) /\ (threadOf[u] = thread => Regular(t)')
  BY <1>2 DEF Regular
<1>11. /\ caller' \in [Turns -> [step : Steps, sent : BOOLEAN]]
       /\ \A u \in Turns \ {w} : caller'[u] = caller[u]
       /\ At(w, "wait") => caller'[w].step \in {"delay", "failed"}
       /\ ~At(w, "wait") => caller'[w] = caller[w]
       /\ resolved' \subseteq Turns /\ \A u \in Turns \ {w} : u \in resolved' <=> u \in resolved
       /\ crashed' \in BOOLEAN
  <2>1. /\ caller \in [Turns -> [step : Steps, sent : BOOLEAN]] /\ resolved \subseteq Turns
        /\ crashed \in BOOLEAN
    BY <1>1 DEF TypeOK
  <2>2. \A step \in {"delay", "failed"} :
           /\ Go(w, step, FALSE) \in [Turns -> [step : Steps, sent : BOOLEAN]]
           /\ \A u \in Turns \ {w} : Go(w, step, FALSE)[u] = caller[u]
           /\ Go(w, step, FALSE)[w].step = step
    BY <1>5, <2>1 DEF Go, Steps
  <2>3. Unheard({w}) \in BOOLEAN
    BY DEF Unheard
  <2>4. QED
    BY <1>4, <1>5, <2>1, <2>2, <2>3
<1>12. ASSUME Regular(t)'
       PROVE  /\ c = client.process /\ Regular(t) /\ w = t /\ Awaited(t)
              /\ cl.queue[thread] = <<>>
              /\ \A u \in Turns : threadOf[u] = thread => cl.active[u] = None
              /\ ~Holds(c, t)' /\ t \notin Registered(cl)
  <2>1. Regular(t) /\ c = client.process /\ c # None
    BY <1>12, TurnAssumption DEF Regular
  <2>2. Awaited(t) /\ Open(t)
    BY <2>1, SpokenOfAreAwaited
  <2>3. ~Holds(c, t)'
    <3>1. Orderly(c, t)
      BY <1>1, <2>1 DEF EndsLast
    <3>2. QED
      BY <1>1, <3>1, NothingAfterTheEnd
  <2>4. cl.queue[thread] = <<>>
    <3>1. CASE client.queue[thread] = <<>>
      BY <1>7, <3>1
    <3>2. CASE client.queue[thread] # <<>>
      <4>1. PICK v \in Turns : client.queue[thread] = <<v>> /\ Awaited(v) /\ client.active[v] = None
        BY <1>1, <1>2, <2>1, <3>2 DEF Books, Regular
      <4>2. 1 \in DOMAIN client.queue[thread] /\ client.queue[thread][1] = v /\ Tail(<<v>>) = <<>>
        BY <4>1
      <4>3. threadOf[v] = thread /\ Open(v)
        BY <1>1, <1>2, <4>1, <4>2 DEF OwnThreads, Awaited, Open, At
      <4>4. v = t
        BY <1>1, <1>2, <2>2, <4>3 DEF TakingTurns
      <4>5. QED
        BY <1>7, <4>1, <4>2, <4>4
    <3>3. QED
      BY <3>1, <3>2
  <2>5. ASSUME NEW u \in Turns, threadOf[u] = thread PROVE cl.active[u] = None
    <3>1. CASE u = t
      BY <1>7, <3>1
    <3>2. ASSUME u # t, client.active[u] # None PROVE FALSE
      <4>1. Awaited(u)
        BY <1>1, <1>2, <2>1, <2>5, <3>2 DEF Books, Regular
      <4>2. Open(u)
        BY <4>1 DEF Awaited, Open, At
      <4>3. QED
        BY <1>1, <1>2, <2>2, <2>5, <3>2, <4>2 DEF TakingTurns
    <3>3. QED
      BY <1>7, <3>1, <3>2
  <2>6. t \notin Registered(cl)
    <3>1. ASSUME NEW th \in Threads, NEW i \in DOMAIN cl.queue[th], cl.queue[th][i] = t PROVE FALSE
      <4>1. th = thread
        BY <1>2, <1>7, <3>1
      <4>2. QED
        BY <2>4, <3>1, <4>1
    <3>2. ASSUME NEW v \in Turns, cl.active[v] = t, t # None PROVE FALSE
      <4>1. cl.active[v] # None /\ threadOf[cl.active[v]] = threadOf[v]
        BY <1>1, <1>7, <3>2 DEF OwnThreads
      <4>2. QED
        BY <1>2, <2>5, <3>2, <4>1
    <3>3. QED
      BY <3>1, <3>2, WhoIsRegistered
  <2>7. QED
    BY <1>5, <2>1, <2>2, <2>3, <2>4, <2>5, <2>6
<1>13. Books'
  <2>1. ASSUME NEW th \in Threads \ strayed', cl.queue[th] # <<>>
        PROVE  \E u \in Turns : cl.queue[th] = <<u>> /\ Awaited(u)' /\ cl.active[u] = None
    <3>1. th # thread
      BY <1>2, <1>12, <2>1 DEF Regular
    <3>2. th \notin strayed /\ client.queue[th] = cl.queue[th]
      BY <1>7, <2>1, <3>1
    <3>3. PICK u \in Turns : client.queue[th] = <<u>> /\ Awaited(u) /\ client.active[u] = None
      BY <1>1, <2>1, <3>2 DEF Books
    <3>4. 1 \in DOMAIN client.queue[th] /\ client.queue[th][1] = u
      BY <3>3
    <3>5. u # t /\ u # w
      BY <1>1, <1>2, <1>5, <3>1, <3>4 DEF OwnThreads
    <3>6. cl.active[u] = None /\ caller'[u] = caller[u]
      BY <1>7, <1>11, <3>3, <3>5
    <3>7. QED
      BY <3>2, <3>3, <3>6 DEF Awaited, At
  <2>2. ASSUME NEW u \in Turns, Regular(u)', cl.active[u] # None
        PROVE  cl.active[u] = u /\ Awaited(u)'
    <3>1. threadOf[u] # thread
      BY <1>10, <1>12, <2>2
    <3>2. u # t /\ u # w
      BY <1>2, <1>5, <3>1
    <3>3. cl.active[u] = client.active[u] /\ caller'[u] = caller[u] /\ Regular(u)
      BY <1>7, <1>10, <1>11, <2>2, <3>2
    <3>4. QED
      BY <1>1, <2>2, <3>3 DEF Books, Awaited, At
  <2>3. QED
    BY <1>6, <1>7, <2>1, <2>2 DEF Books
<1>14. ASSUME NEW u \in Turns \ {t}, Regular(u)'
       PROVE  /\ caller'[u] = caller[u] /\ (u \in resolved' <=> u \in resolved)
              /\ u \in Registered(client) => u \in Registered(client)'
  <2>1. u # w
    BY <1>5, <1>10, <1>12, <1>14
  <2>2. QED
    BY <1>7, <1>9, <1>11, <1>14, <2>1
<1>15. ASSUME Regular(t)'
       PROVE  \/ /\ At(t, "wait") /\ caller'[t].step \in {"delay", "failed"}
                 /\ t \notin Registered(client)' /\ ~Holds(c, t)'
              \/ /\ ~At(t, "wait") /\ caller'[t] = caller[t]
                 /\ t \in resolved' /\ t \notin Registered(client)' /\ ~Holds(c, t)'
              \/ ~At(t, "wait") /\ caller'[t] = caller[t] /\ crashed'
  <2>1. /\ w = t /\ ~Holds(c, t)' /\ t \notin Registered(client)'
    BY <1>9, <1>12, <1>15
  <2>2. CASE At(t, "wait")
    BY <1>11, <2>1, <2>2
  <2>3. CASE ~At(t, "wait")
    <3>1. caller'[t] = caller[t]
      BY <1>11, <2>1, <2>3
    <3>2. t \in resolved' \/ crashed'
      BY <1>4, <2>1, <2>3 DEF Unheard
    <3>3. QED
      BY <2>1, <2>3, <3>1, <3>2
  <2>4. QED
    BY <2>2, <2>3
<1>16. ASSUME Regular(t)' PROVE bound'[t] \in {None, t} /\ heard'[t] \in {None, t}
  BY <1>1, <1>4, <1>12, <1>16 DEF OwnNames
<1>17. /\ bound' \in [Turns -> Turns \cup {None}] /\ heard' \in [Turns -> Turns \cup {None}]
       /\ \A u \in Turns : bound'[u] = bound[u] /\ heard'[u] = heard[u]
  BY <1>1, <1>4 DEF TypeOK
<1>18. \A u \in Turns : \/ caller'[u] = caller[u]
                        \/ At(u, "wait") /\ caller'[u].step \in {"delay", "failed"}
  BY <1>11
<1>19. /\ client' \in Clients /\ client'.process = client.process
       /\ client'.started = client.started /\ client'.starting = client.starting
       /\ client'.idleTimer = client.idleTimer /\ client'.pending = client.pending
       /\ \A u \in Registered(client)' : u \in Registered(client)
  BY <1>6, <1>7, <1>9
<1>20. QED
  BY <1>8, <1>11, <1>13, <1>14, <1>15, <1>16, <1>17, <1>18, <1>19, HearingKeeps

\* A line of stdout: an answer, a notification, or one that concerns nobody.
LEMMA HandleStdoutKeeps ==
    ASSUME PairingInv, ~crashed, UNCHANGED threadOf, NEW c \in Children, HandleStdout(c)
    PROVE  PairingInv'
<1>1. out[c] # <<>> /\ ReadLine(c) /\ UNCHANGED faults
  BY DEF HandleStdout
<1>2. PICK line : line = Head(out[c])
  OBVIOUS
<1>3. CASE Initialized(c)
  BY <1>1, <1>3, InitializedKeeps
<1>4. CASE Response(c, line)
  BY <1>1, <1>2, <1>4, ResponseKeeps
<1>5. CASE line.kind \in {"started", "message", "completed"} /\ Notification(c, line)
  <2>1. line.turn \in Turns
    BY <1>1, <1>2, <1>5, LinesLeftNameTurns DEF PairingInv, BooksAreKept, ClientInv, Notes
  <2>2. PICK t \in Turns : t = line.turn
    BY <2>1
  <2>3. /\ Note(Head(out[c]), t)
        /\ strayed' = IF c = client.process THEN strayed ELSE strayed \cup {threadOf[t]}
        /\ UNCHANGED <<reads, answer, child, told, inbox, running>>
    BY <1>2, <1>5, <2>2 DEF Notification, Note, Notes
  <2>4. CASE TurnStarted(t)
    BY <1>1, <2>3, <2>4, TurnStartedKeeps
  <2>5. CASE AgentMessage(t)
    BY <1>1, <2>3, <2>5, AgentMessageKeeps
  <2>6. CASE Head(out[c]).kind = "completed" /\ TurnCompleted(t, line.ok)
    BY <1>1, <2>3, <2>6, TurnCompletedKeeps
  <2>7. QED
    BY <1>2, <1>5, <2>2, <2>4, <2>5, <2>6 DEF Notification
<1>6. CASE Ignored(c, line)
  BY <1>1, <1>2, <1>6, IgnoredKeeps
<1>7. QED
  BY <1>2, <1>3, <1>4, <1>5, <1>6 DEF HandleStdout

-----------------------------------------------------------------------------
\* A client that has not started anything.
LEMMA PairingStarts == Init => PairingInv
<1> SUFFICES ASSUME Init PROVE PairingInv
  OBVIOUS
<1> DEFINE noQueues == [thread \in Threads |-> <<>>]
           nobody == [t \in Turns |-> None]
           idle == [t \in Turns |-> [step |-> "idle", sent |-> FALSE]]
<1>1. /\ noQueues \in [Threads -> Seq(Turns)] /\ nobody \in [Turns -> Turns \cup {None}]
      /\ \A thread \in Threads : noQueues[thread] = <<>>
      /\ \A t \in Turns : nobody[t] = None
      /\ idle \in [Turns -> [step : Steps, sent : BOOLEAN]]
      /\ \A t \in Turns : idle[t].step = "idle"
  BY DEF Steps
<1>2. /\ client = [process |-> None, started |-> FALSE, starting |-> FALSE, idleTimer |-> FALSE,
                   pending |-> {}, queue |-> noQueues, active |-> nobody]
      /\ caller = idle
  BY DEF Init
<1> HIDE DEF noQueues, nobody, idle
<1>3. /\ client.process = None /\ ~client.started /\ ~client.starting /\ ~client.idleTimer
      /\ client.pending = {} /\ client.queue = noQueues /\ client.active = nobody
      /\ client \in [process : Children \cup {None}, started : BOOLEAN, starting : BOOLEAN,
                     idleTimer : BOOLEAN, pending : SUBSET Requests,
                     queue : [Threads -> Seq(Turns)], active : [Turns -> Turns \cup {None}]]
  BY <1>1, <1>2
<1>4. \A t \in Turns : caller[t].step = "idle"
  BY <1>1, <1>2
<1>5. TypeOK
  <2>1. /\ threadOf \in [Turns -> Threads]
        /\ caller \in [Turns -> [step : Steps, sent : BOOLEAN]]
        /\ reads \in [Turns -> 0..ReadAttempts - 1] /\ faults \in 0..MaxFaults
    BY <1>1, <1>2, TurnAssumption, AttemptAssumption DEF Init
  <2>2. /\ bound \in [Turns -> Turns \cup {None}] /\ heard \in [Turns -> Turns \cup {None}]
        /\ answer \in [Turns -> Turns \cup {None}] /\ resolved \in SUBSET Turns
        /\ crashed \in BOOLEAN /\ strayed \in SUBSET Threads
    BY DEF Init
  <2>3. /\ child \in [Children -> {"dead", "running", "broken"}] /\ told \in SUBSET Children
        /\ inbox \in [Children -> SUBSET (Requests \cup {[method |-> "initialize", turn |-> None]})]
        /\ running \in [Children -> SUBSET Turns]
    BY DEF Init
  <2>4. out \in [Children -> Seq(Lines)]
    <3>1. <<>> \in Seq(Lines)
      OBVIOUS
    <3>2. QED
      BY <3>1 DEF Init
  <2>5. QED
    BY <1>3, <2>1, <2>2, <2>3, <2>4 DEF TypeOK
<1>6. Registered(client) = {}
  BY <1>1, <1>3, WhoIsRegistered
<1>7. OneServer /\ DeadAreIdle /\ LinesNameTurns /\ ProcessFields
  BY <1>3 DEF Init, OneServer, DeadAreIdle, LinesNameTurns, ProcessFields
<1>8. NoOneForgotten /\ NothingPendsOnNobody /\ OwnAnswer /\ TakingTurns /\ PendingAreAwaited
  BY <1>3, <1>4, <1>6 DEF NoOneForgotten, NothingPendsOnNobody, OwnAnswer, TakingTurns,
                          PendingAreAwaited, Open, At
<1>9. OwnThreads /\ Books
  BY <1>1, <1>3 DEF OwnThreads, Books
<1>10. Waited /\ HeldByCaller /\ EndsLast /\ ResolvedAreOver /\ OwnNames
  BY <1>3, <1>4 DEF Init, Waited, HeldByCaller, EndsLast, ResolvedAreOver, OwnNames, Awaited, At
<1>11. QED
  BY <1>5, <1>7, <1>8, <1>9, <1>10 DEF PairingInv, BooksAreKept, ClientInv, TurnsAreTaken

\* Every step of the callers, the client, its children and the server.
LEMMA PairingStays == PairingInv /\ [Next]_vars => PairingInv'
<1> SUFFICES ASSUME PairingInv, [Next]_vars PROVE PairingInv'
  OBVIOUS
<1>1. CASE UNCHANGED vars
  <2>1. UNCHANGED <<threadOf, client, caller, bound, heard, resolved, reads, answer,
                    child, told, inbox, running, out, crashed, strayed, faults>>
    BY <1>1 DEF vars, callerVars, serverVars
  <2>2. BooksAreKept'
    <3>1. ClientInv' /\ OwnAnswer'
      <4>1. TypeOK'
        BY <2>1 DEF PairingInv, BooksAreKept, ClientInv, TypeOK
      <4>2. Registered(client)' = Registered(client)
        BY <2>1 DEF Registered, Queued
      <4>3. OneServer' /\ NoOneForgotten' /\ NothingPendsOnNobody' /\ OwnAnswer'
        BY <2>1, <4>2 DEF PairingInv, BooksAreKept, ClientInv, OneServer, NoOneForgotten,
                          NothingPendsOnNobody, OwnAnswer, Regular, At
      <4>4. QED
        BY <4>1, <4>3 DEF ClientInv
    <3>2. LinesNameTurns' /\ ProcessFields' /\ DeadAreIdle' /\ OwnThreads'
      BY <2>1 DEF PairingInv, BooksAreKept, LinesNameTurns, ProcessFields, DeadAreIdle, OwnThreads
    <3>3. TakingTurns' /\ PendingAreAwaited'
      BY <2>1 DEF PairingInv, BooksAreKept, TakingTurns, PendingAreAwaited, Open
    <3>4. QED
      BY <3>1, <3>2, <3>3 DEF BooksAreKept
  <2>3. ASSUME ~crashed' PROVE TurnsAreTaken'
    <3>1. TurnsAreTaken
      BY <2>1, <2>3 DEF PairingInv
    <3>2. Books' /\ Waited' /\ OwnNames'
      BY <2>1, <3>1 DEF TurnsAreTaken, Books, Waited, OwnNames, Regular, Awaited, At, Registered, Queued
    <3>3. HeldByCaller' /\ EndsLast'
      BY <2>1, <3>1 DEF TurnsAreTaken, HeldByCaller, EndsLast, Orderly, Holds, Regular, At
    <3>4. ResolvedAreOver'
      BY <2>1, <3>1 DEF TurnsAreTaken, ResolvedAreOver, Holds, Regular, At, Registered, Queued
    <3>5. QED
      BY <3>2, <3>3, <3>4 DEF TurnsAreTaken
  <2>4. QED
    BY <2>2, <2>3 DEF PairingInv
<1>2. CASE Next
  <2>1. ~crashed /\ UNCHANGED threadOf
    BY <1>2 DEF Next, Up
  <2>2. ASSUME NEW t \in Turns, CallerStep(t) PROVE PairingInv'
    <3>1. PICK step, cl : Asks(t, step, cl) /\ Request(t, step, cl)
      <4>1. CASE OpenThread(t)
        <5>1. Asks(t, "open", client) /\ Request(t, "open", client)
          BY <4>1 DEF OpenThread, Asks
        <5>2. QED
          BY <5>1
      <4>2. CASE StartTurn(t)
        <5>1. PICK cl : cl = [client EXCEPT !.queue[threadOf[t]] = Append(@, t)]
          OBVIOUS
        <5>2. Asks(t, "start", cl) /\ Request(t, "start", cl)
          BY <4>2, <5>1 DEF StartTurn, Asks
        <5>3. QED
          BY <5>2
      <4>3. CASE ReadThread(t)
        <5>1. Asks(t, "read", client) /\ Request(t, "read", client)
          BY <4>3 DEF ReadThread, Asks
        <5>2. QED
          BY <5>1
      <4>4. QED
        BY <2>2, <4>1, <4>2, <4>3 DEF CallerStep
    <3>2. QED
      BY <2>1, <3>1, RequestKeeps
  <2>3. ASSUME NEW t \in Turns, Interrupt(t) \/ InterruptTimesOut(t) PROVE PairingInv'
    BY <2>1, <2>3, InterruptKeeps, InterruptTimesOutKeeps
  <2>4. ASSUME NEW c \in Children, HandleStdout(c) \/ Serve(c) PROVE PairingInv'
    BY <2>1, <2>4, HandleStdoutKeeps, ServeKeeps
  <2>5. ASSUME NEW c \in Children, NEW t \in Turns, FinishTurn(c, t) PROVE PairingInv'
    BY <2>1, <2>5, FinishTurnKeeps
  <2>6. ASSUME NEW c \in Children, Exit(c) \/ Kill(c) PROVE PairingInv'
    <3>1. faults \in 0..MaxFaults
      BY DEF PairingInv, BooksAreKept, ClientInv, TypeOK
    <3>2. Die(c) /\ faults' \in 0..MaxFaults
      BY <2>6, <3>1, AttemptAssumption DEF Exit, Kill
    <3>3. QED
      BY <2>1, <3>2, DieKeeps
  <2>7. ASSUME NEW c \in Children, BreakStdin(c) PROVE PairingInv'
    BY <2>1, <2>7, BreakStdinKeeps
  <2>8. CASE ProcessFails
    BY <2>1, <2>8, ProcessFailsKeeps
  <2>9. CASE IdleClose
    BY <2>1, <2>9, IdleCloseKeeps
  <2>10. QED
    BY <1>2, <2>2, <2>3, <2>4, <2>5, <2>6, <2>7, <2>8, <2>9 DEF Next, ChildStep
<1>3. QED
  BY <1>1, <1>2

-----------------------------------------------------------------------------
\* What the client knows of its callers, its process and the lines on the way is
\* inductive (startTurnExecution, handleNotification, takeTurnCompletion,
\* handleResponse, handleProcessFailure, ensureStarted).
THEOREM PairingInvariant == Spec => []PairingInv
BY PairingStarts, PairingStays, PTL DEF Spec

\* The client's books agree with its child processes and its callers: one app
\* server that was not told to end, nobody who waits is forgotten, and nothing
\* pends on a process that is gone (ensureStarted, rejectAll, close).
THEOREM ClientBooksAgree == Spec => []ClientInv
<1>1. PairingInv => ClientInv
  BY DEF PairingInv, BooksAreKept
<1>2. QED
  BY <1>1, PairingInvariant, PTL

\* A caller is given the message of the turn it started, although a completion
\* is looked up by its thread until turn/started has come, and although the
\* answer to turn/start may come after the turn has ended (waitForTurnCompletion).
THEOREM EveryoneGetsHisOwnAnswer == Spec => []OwnAnswer
<1>1. PairingInv => OwnAnswer
  BY DEF PairingInv, BooksAreKept
<1>2. QED
  BY <1>1, PairingInvariant, PTL

=============================================================================
