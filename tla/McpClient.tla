----------------------------- MODULE McpClient ------------------------------
(***************************************************************************)
(* One MCP server and the client that talks to it (src/mcp/mod.rs):        *)
(* JSON-RPC over two pipes, a table of pending requests, a reader task.    *)
(*                                                                         *)
(* The program starts up as Main, which spawns the server, shakes hands    *)
(* and registers its tools before the first key is read; the calls come    *)
(* from the turns.  What a line says is left out, but a line with an id      *)
(* carries what it is about: the request it answers, or nothing the client *)
(* has asked.                                                              *)
(***************************************************************************)
EXTENDS Naturals, FiniteSets, Sequences

CONSTANTS
    Callers,      \* turns that call tools of the server
    Main,         \* the start-up
    PipeCap,      \* lines a pipe holds
    MaxRequests,  \* bound: requests sent, those of the start-up included
    MaxNoise,     \* bound: lines of the server that answer nothing
    Configs       \* what a config file may say of the server

Users    == Callers \union {Main}
Requests == 1..MaxRequests
Nobody   == "nobody"
Absent   == "absent"

ASSUME McpAssumption ==
    /\ Main \notin Callers /\ Nobody \notin Users
    /\ IsFiniteSet(Callers)
    /\ PipeCap \in Nat \ {0}
    /\ {MaxRequests, MaxNoise} \subseteq Nat

VARIABLES
    status,    \* how far the registration of the server is
    pc,        \* what each user of the client is doing
    mine,      \* the request each of them has made last: its id and its number
    lock,      \* who holds the mutex around the client
    nextId,    \* the id of the next request
    pending,   \* the slots: requests whose reply is awaited
    answer,    \* what was put into the oneshot of the request of that number
    input,     \* the server's stdin
    output,    \* the server's stdout
    server,    \* the process
    reader     \* the reader task

mcpVars == <<status, pc, mine, lock, nextId, pending, answer,
             input, output, server, reader>>

NoReply      == [kind |-> "none"]
Request(id)  == [id |-> id, number |-> nextId]
Notification == [kind |-> "notification"]
Noise        == [kind |-> "noise"]
ServersOwn   == [id |-> 0, number |-> 0]
Reading      == [kind |-> "reading"]
Ended        == [kind |-> "ended"]

-----------------------------------------------------------------------------
(* Configuration and start.                                                *)

\* The project's entry replaces the user's.
LoadMcpConfig(user, project) == IF project = Absent THEN user ELSE project

\* Spawning may fail, and does without a command.
Spawn(config) == IF config = "empty" THEN {"failed"} ELSE {"initialize", "failed"}

\* A server that is switched off is listed, not spawned.
RegisterServer(config) ==
    CASE config = Absent     -> {Absent}
      [] config = "disabled" -> {"disabled"}
      [] OTHER               -> Spawn(config)

Init ==
    /\ \E user, project \in Configs \union {Absent} :
          status \in RegisterServer(LoadMcpConfig(user, project))
    /\ pc = [u \in Users |-> "idle"]
    /\ mine = [u \in Users |-> [id |-> 0, number |-> 0]]
    /\ lock = Nobody
    /\ nextId = 1
    /\ pending = {}
    /\ answer = [n \in Requests |-> NoReply]
    /\ input = <<>>
    /\ output = <<>>
    /\ server = [reads   |-> status = "initialize", writes |-> status = "initialize",
                 working |-> {}, noise |-> 0]
    /\ reader = IF status = "initialize" THEN Reading ELSE Ended

\* What the start-up sends: the two messages of the handshake, then the question
\* for the tools.
Stages == {"initialize", "notify", "list"}
NextStage == [initialize |-> "notify", notify |-> "list", list |-> "connected"]

\* A bad reply: an error, a list with a tool that has no name, a call whose
\* result is marked as an error.  A line without a result reads as null, which is
\* a handshake, a list of no tools, and the result of a call.
Accepted(says) == says = "ok"

-----------------------------------------------------------------------------
(* A request.                                                              *)

MayCall(u) == IF u = Main THEN status \in Stages ELSE status = "connected"

Start(u) ==
    /\ pc[u] = "idle"
    /\ MayCall(u)
    /\ nextId + Cardinality({v \in Users : pc[v] = "locking"}) <= MaxRequests
    /\ pc' = [pc EXCEPT ![u] = "locking"]
    /\ UNCHANGED <<status, mine, lock, nextId, pending, answer,
                   input, output, server, reader>>

IsNotification(u) == u = Main /\ status = "notify"

\* (with a mistake: the first id without a slot, which may have had one before)
NewIdReusing ==
    CHOOSE i \in Requests : /\ \A s \in pending : s.id # i
                            /\ \A j \in 1..(i - 1) : \E s \in pending : s.id = j

NewId == nextId

\* The id is counted and the slot taken before the line is written.  A
\* notification has neither.
Lock(u) ==
    /\ pc[u] = "locking"
    /\ lock = Nobody
    /\ lock' = u
    /\ pc' = [pc EXCEPT ![u] = "writing"]
    /\ IF IsNotification(u)
       THEN UNCHANGED <<mine, nextId, pending>>
       ELSE /\ mine' = [mine EXCEPT ![u] = Request(NewId)]
            /\ pending' = pending \union {Request(NewId)}
            /\ nextId' = nextId + 1
    /\ UNCHANGED <<status, answer, input, output, server, reader>>

\* The call of u is over.  The start-up goes on, or gives the server up; the
\* process and the reader live on without it.
Return(u, worked) ==
    /\ pc' = [pc EXCEPT ![u] = "idle"]
    /\ status' = IF u # Main THEN status
                 ELSE IF worked THEN NextStage[status] ELSE "failed"

\* A write waits while the pipe is full: nothing bounds that wait, and the
\* mutex is held during it.
WriteLine(u) ==
    /\ pc[u] = "writing"
    /\ server.reads
    /\ Len(input) < PipeCap
    /\ input' = Append(input, IF IsNotification(u) THEN Notification
                              ELSE [kind |-> "request", of |-> mine[u]])
    /\ lock' = Nobody
    /\ IF IsNotification(u)
       THEN Return(u, TRUE)
       ELSE /\ pc' = [pc EXCEPT ![u] = "waiting"]
            /\ UNCHANGED status
    /\ UNCHANGED <<mine, nextId, pending, answer, output, server, reader>>

\* The server is gone, or has closed its stdin.  The `?` after a write leaves the
\* slot behind.
WriteFails(u) ==
    /\ pc[u] = "writing"
    /\ ~server.reads
    /\ lock' = Nobody
    /\ Return(u, FALSE)
    /\ UNCHANGED <<mine, nextId, pending, answer, input, output, server, reader>>

TakeReply(u) ==
    /\ pc[u] = "waiting"
    /\ answer[mine[u].number] # NoReply
    /\ Return(u, Accepted(answer[mine[u].number].says))
    /\ UNCHANGED <<mine, lock, nextId, pending, answer, input, output, server, reader>>

\* (with a mistake: the slot is not given back)
TimeOutLeaking(u) ==
    /\ pc[u] = "waiting"
    /\ answer[mine[u].number] = NoReply
    /\ Return(u, FALSE)
    /\ UNCHANGED <<mine, lock, nextId, pending, answer, input, output, server, reader>>

\* (with a mistake: only the end of the server ends the wait)
TimeOutAtEnd(u) ==
    /\ pc[u] = "waiting"
    /\ answer[mine[u].number] = NoReply
    /\ reader = Ended
    /\ pc' = [pc EXCEPT ![u] = "reclaiming"]
    /\ UNCHANGED <<status, mine, lock, nextId, pending, answer,
                   input, output, server, reader>>

\* A reply that is there when the clock fires still counts; one that comes
\* between this and the next step goes to a receiver that is gone.
TimeOut(u) ==
    /\ pc[u] = "waiting"
    /\ answer[mine[u].number] = NoReply
    /\ pc' = [pc EXCEPT ![u] = "reclaiming"]
    /\ UNCHANGED <<status, mine, lock, nextId, pending, answer,
                   input, output, server, reader>>

Reclaim(u) ==
    /\ pc[u] = "reclaiming"
    /\ lock = Nobody
    /\ pending' = pending \ {mine[u]}
    /\ Return(u, FALSE)
    /\ UNCHANGED <<mine, lock, nextId, answer, input, output, server, reader>>

-----------------------------------------------------------------------------
(* The reader.  Lines without a number for an id and lines that do not     *)
(* parse cost it nothing; any other line is taken for a reply and needs    *)
(* the mutex, whatever else it is.                                         *)

Read ==
    /\ reader = Reading
    /\ output # <<>>
    /\ output' = Tail(output)
    /\ reader' = IF Head(output) = Noise THEN Reading ELSE Head(output)
    /\ UNCHANGED <<status, pc, mine, lock, nextId, pending, answer, input, server>>

HasReply == reader \notin {Reading, Ended}

\* A line for whose id there is no slot is dropped.
Deliver ==
    /\ HasReply
    /\ lock = Nobody
    /\ reader' = Reading
    /\ LET slots == {s \in pending : s.id = reader.id}
       IN  /\ pending' = pending \ slots
           /\ answer' = [n \in Requests |-> IF \E s \in slots : s.number = n
                                            THEN reader ELSE answer[n]]
    /\ UNCHANGED <<status, pc, mine, lock, nextId, input, output, server>>

\* At the end of the output the reader just ends: who waits is not told.
EndOfOutput ==
    /\ reader = Reading
    /\ output = <<>>
    /\ ~server.writes
    /\ reader' = Ended
    /\ UNCHANGED <<status, pc, mine, lock, nextId, pending, answer,
                   input, output, server>>

-----------------------------------------------------------------------------
(* The server: external.  It may answer in any order, late or never, say   *)
(* something else, stop reading, close a pipe, and end at any moment.      *)

ServerReads ==
    /\ server.reads
    /\ input # <<>>
    /\ input' = Tail(input)
    /\ server' = IF Head(input).kind = "request"
                 THEN [server EXCEPT !.working = @ \union {Head(input).of}] ELSE server
    /\ UNCHANGED <<status, pc, mine, lock, nextId, pending, answer, output, reader>>

Line(id, of, says) == [kind |-> "line", id |-> id, of |-> of, says |-> says]

ServerWrites(line) ==
    /\ server.writes
    /\ Len(output) < PipeCap
    /\ output' = Append(output, line)
    /\ UNCHANGED <<status, pc, mine, lock, nextId, pending, answer, input, reader>>

ServerReplies ==
    \E of \in server.working, says \in {"ok", "bad"} :
        /\ ServerWrites(Line(of.id, of, says))
        /\ server' = [server EXCEPT !.working = @ \ {of}]

\* Notifications and malformed lines, and requests of its own, like ping, whose ids
\* the server counts by itself.
ServerChatters ==
    /\ server.noise < MaxNoise
    /\ server' = [server EXCEPT !.noise = @ + 1]
    /\ \/ ServerWrites(Noise)
       \/ \E id \in Requests : ServerWrites(Line(id, ServersOwn, "ok"))

\* It may close its stdin and its stdout; when it ends both are.  What is on its way to it
\* is lost, what it has written can still be read.
ServerCloses ==
    \E reads, writes \in BOOLEAN :
        /\ reads => server.reads
        /\ writes => server.writes
        /\ server' = [server EXCEPT !.reads = reads, !.writes = writes]
        /\ server' # server
        /\ input' = IF reads THEN input ELSE <<>>
        /\ UNCHANGED <<status, pc, mine, lock, nextId, pending, answer, output, reader>>

ServerStep == ServerReads \/ ServerReplies \/ ServerChatters \/ ServerCloses

-----------------------------------------------------------------------------
UserStep(u) ==
    \/ Lock(u) \/ WriteLine(u) \/ WriteFails(u)
    \/ TakeReply(u) \/ TimeOut(u) \/ Reclaim(u)

ReaderStep == Read \/ Deliver \/ EndOfOutput

Next ==
    \/ \E u \in Users : Start(u) \/ UserStep(u)
    \/ ReaderStep
    \/ ServerStep

Spec == Init /\ [][Next]_mcpVars

\* The runtime polls the tasks, the mutex is fair, and the clock fires.  Nothing
\* is assumed of the server.
Fairness ==
    /\ \A u \in Users : SF_mcpVars(UserStep(u))
    /\ SF_mcpVars(ReaderStep)

FairSpec == Spec /\ Fairness

-----------------------------------------------------------------------------
(* Properties.                                                             *)

Stamps   == [id : 0..MaxRequests, number : 0..MaxRequests]
Statuses == Stages \union {Absent, "disabled", "connected", "failed"}
PcStates == {"idle", "locking", "writing", "waiting", "reclaiming"}

\* The variables have their types and the mutex is held by whoever writes a line,
\* and by nobody else.  A call that waits can still be answered, by its slot, or
\* has been; and no slot outlives its call, but for a write that failed because
\* the server reads no more.
TypeOK ==
    /\ status \in Statuses
    /\ pc \in [Users -> PcStates]
    /\ mine \in [Users -> Stamps]
    /\ nextId \in 1..(MaxRequests + 1)
    /\ pending \subseteq Stamps
    /\ lock \in Users \union {Nobody}
    /\ \A u \in Users : pc[u] = "writing" <=> lock = u
    /\ \A u \in Users : pc[u] = "waiting"
                            => (mine[u] \in pending) # (answer[mine[u].number] # NoReply)
    /\ \A s \in pending :
          \/ \E u \in Users : mine[u] = s /\ pc[u] \in {"writing", "waiting", "reclaiming"}
          \/ ~server.reads

\* What a call is handed is the reply to its own request, also when earlier
\* requests timed out and their replies come late, out of order, or in the
\* moment between the time-out and the removal of the slot.  The one other thing
\* it can be handed is a request of the server's own that happens to bear its id:
\* the reader takes every line with an id for a reply.
ReplyIsOwn ==
    \A u \in Users : pc[u] = "waiting" =>
        LET line == answer[mine[u].number]
        IN  line # NoReply => \/ line.of = mine[u]
                              \/ line.of = ServersOwn /\ line.id = mine[u].id

\* Somebody writes into a pipe that is full, and holds the mutex.
Jammed == \E u \in Users : /\ pc[u] = "writing"
                           /\ server.reads
                           /\ Len(input) = PipeCap

\* Every call returns: with a reply, with an error, or when its time is up.  The
\* time-out does not cover the write: if the server never empties its pipe, the
\* client is stuck for good, and with it the reader and everybody else.
CallsReturn ==
    \/ <>[]Jammed
    \/ \A u \in Users : pc[u] # "idle" ~> pc[u] = "idle"
=============================================================================
