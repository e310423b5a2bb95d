---------------------------- MODULE LspManager ------------------------------
(***************************************************************************)
(* The tasks that use language servers: the cache of clients behind a      *)
(* read-write lock (src/lsp/manager.rs), the actions of the lsp tool       *)
(* (src/tools/lsp.rs) with the edits of a rename (src/lsp/edits.rs), and   *)
(* the writethrough after a patch (src/lsp/writethrough.rs).  One server   *)
(* and root stand for all of them: nothing relates two keys of the cache.  *)
(*                                                                         *)
(* Nothing calls LspManager::shutdown or LspClient::untrack, so there is   *)
(* no action for them.                                                     *)
(***************************************************************************)
EXTENDS LspClient

CONSTANTS
    Kinds,     \* what a task may do
    MaxCalls   \* bound: calls of all tasks together

ASSUME ManagerAssumption ==
    /\ Kinds \subseteq {"patch", "query", "rename", "status", "edit"}
    /\ MaxCalls \in Nat

VARIABLES
    cached,   \* the client in the cache
    readers,  \* tasks that hold the lock of the cache for reading
    task,     \* the progress of each task
    calls,    \* calls so far
    gone,     \* the document is deleted
    untold,   \* history: what changed it last was nothing a server is told of
    crossed   \* history: two patches were under way at a time

vars == <<clientVars, cached, readers, task, calls, gone, untold, crossed>>

\* using: the client in hand; text: the revision it wrote; tick: polls so far.
Idle == [pc |-> "idle", kind |-> "none", using |-> NoClient, text |-> NotOpen,
         tick |-> 0]

Init ==
    /\ ClientInit
    /\ cached = NoClient
    /\ readers = {}
    /\ task = [t \in Tasks |-> Idle]
    /\ calls = 0
    /\ gone = FALSE
    /\ untold = FALSE
    /\ crossed = FALSE

At(t, pc) == task[t].pc = pc

Goto(t, pc) == task' = [task EXCEPT ![t].pc = pc]

Return(t) == task' = [task EXCEPT ![t] = Idle]

\* What only some steps change.
fileVars  == <<gone, untold, crossed>>
histories == <<calls, fileVars>>

-----------------------------------------------------------------------------
(* The cache.  A task that wants to write keeps new readers out.           *)

MayRead == readers = {} \/ \A u \in Tasks : ~At(u, "insert")

FirstStep == [patch |-> "write", query |-> "lookup", rename |-> "lookup",
              status |-> "list", edit |-> "write"]

Call(t) ==
    /\ At(t, "idle")
    /\ calls < MaxCalls
    /\ calls' = calls + 1
    /\ \E kind \in Kinds :
          task' = [task EXCEPT ![t] = [Idle EXCEPT !.pc = FirstStep[kind], !.kind = kind]]
    /\ UNCHANGED <<clientVars, cached, readers, fileVars>>

\* get_or_spawn: the cached client, or a new one, started without the lock.
\* There may be no executable.
Lookup(t) ==
    /\ At(t, "lookup")
    /\ MayRead
    /\ IF cached # NoClient
       THEN /\ task' = [task EXCEPT ![t].pc = "ask", ![t].using = cached]
            /\ UNCHANGED client
       ELSE \/ /\ Return(t)
               /\ UNCHANGED client
            \/ \E c \in Clients :
                  /\ client[c].state = "none"
                  /\ \A d \in 1..(c - 1) : client[d].state # "none"
                  /\ task' = [task EXCEPT ![t].pc = "spawn", ![t].using = c]
                  /\ client' = [client EXCEPT ![c].state = "starting"]
    /\ UNCHANGED <<disk, server, published, cached, readers, histories>>

\* The handshake succeeds, or it fails or takes too long and the child is killed
\* when the client is dropped.
Spawned(t) ==
    /\ At(t, "spawn")
    /\ client' = [client EXCEPT ![task[t].using].state = "ready"]
    /\ Goto(t, "insert")
    /\ UNCHANGED <<disk, server, published, cached, readers, histories>>

SpawnFails(t) ==
    /\ At(t, "spawn")
    /\ Kill(task[t].using)
    /\ Return(t)
    /\ UNCHANGED <<disk, published, cached, readers, histories>>

\* (with a mistake: the cache is not checked again)
InsertUnchecked(t) ==
    /\ At(t, "insert")
    /\ readers = {}
    /\ cached' = task[t].using
    /\ Goto(t, "ask")
    /\ UNCHANGED <<clientVars, readers, histories>>

\* The lock is taken for writing.  Whoever comes second drops its client.
Insert(t) ==
    /\ At(t, "insert")
    /\ readers = {}
    /\ IF cached = NoClient
       THEN /\ cached' = task[t].using
            /\ Goto(t, "ask")
            /\ UNCHANGED clientVars
       ELSE /\ Kill(task[t].using)
            /\ task' = [task EXCEPT ![t].pc = "ask", ![t].using = cached]
            /\ UNCHANGED <<disk, published, cached>>
    /\ UNCHANGED <<readers, histories>>

\* status_snapshot, for the actions status and diagnostics: the lock is held while
\* each client is waited for.
List(t) ==
    /\ At(t, "list")
    /\ MayRead
    /\ readers' = readers \union {t}
    /\ Goto(t, "listing")
    /\ UNCHANGED <<clientVars, cached, histories>>

Listed(t) ==
    /\ At(t, "listing")
    /\ cached # NoClient => Free(cached)
    /\ readers' = readers \ {t}
    /\ Return(t) \/ (cached # NoClient /\ Goto(t, "again"))
    /\ UNCHANGED <<clientVars, cached, histories>>

\* The actions diagnostics and workspace_symbols go on with a client of the list,
\* looked up once more.
LookupAgain(t) ==
    /\ At(t, "again")
    /\ MayRead
    /\ task' = [task EXCEPT ![t].pc = "ask", ![t].using = cached]
    /\ UNCHANGED <<clientVars, cached, readers, histories>>

\* diagnostics asks the server nothing.
ReadDiagnostics(t) ==
    /\ At(t, "ask")
    /\ task[t].kind = "status"
    /\ Free(task[t].using)
    /\ Return(t)
    /\ UNCHANGED <<clientVars, cached, readers, histories>>

-----------------------------------------------------------------------------
(* A query or a code action: one request.  A rename: two.                  *)

SendRequest(t) ==
    /\ At(t, "ask") \/ At(t, "askAgain")
    /\ Ask(task[t].using, t)
    /\ Goto(t, IF At(t, "ask") THEN "await" ELSE "awaitAgain")
    /\ UNCHANGED <<disk, published, cached, readers, histories>>

\* The answer may carry an edit.
HearReply(t) ==
    /\ At(t, "await") \/ At(t, "awaitAgain")
    /\ LET c == task[t].using
       IN  /\ client[c].replied
           /\ Release(c)
           /\ IF task[t].kind = "rename" /\ At(t, "await")
              THEN Goto(t, "askAgain")
              ELSE Return(t) \/ (task[t].kind # "status" /\ Goto(t, "apply"))
    /\ UNCHANGED <<disk, published, cached, readers, histories>>

\* (with a mistake: without a time-out)
GiveUpOnlyIfDead(t) ==
    /\ At(t, "await") \/ At(t, "awaitAgain")
    /\ client[task[t].using].state = "dead"
    /\ Release(task[t].using)
    /\ Return(t)
    /\ UNCHANGED <<disk, published, cached, readers, histories>>

\* Time is up, the server is gone, or it has not the capability.
GiveUp(t) ==
    /\ At(t, "await") \/ At(t, "awaitAgain")
    /\ Release(task[t].using)
    /\ Return(t)
    /\ UNCHANGED <<disk, published, cached, readers, histories>>

\* apply_workspace_edit reads the file, edits and writes it, or reports that it
\* cannot; the server is not told.
ApplyEdit(t) ==
    /\ At(t, "apply")
    /\ \/ UNCHANGED <<disk, untold>>
       \/ ~gone /\ disk' = disk + 1 /\ untold' = TRUE
    /\ Return(t)
    /\ UNCHANGED <<client, server, published, cached, readers, calls, gone, crossed>>

-----------------------------------------------------------------------------
(* A patch, and the writethrough after it.                                 *)

\* The server is told what a patch has written, but not at once.
UnderWay(t) == task[t].pc \in {"find", "track"}

\* The patch adds or updates the file.
WriteFile(t) ==
    /\ At(t, "write")
    /\ task[t].kind = "patch"
    /\ disk' = disk + 1
    /\ gone' = FALSE
    /\ untold' = FALSE
    /\ crossed' = (crossed \/ \E u \in Tasks \ {t} : UnderWay(u))
    /\ task' = [task EXCEPT ![t].pc = "find", ![t].text = disk + 1]
    /\ UNCHANGED <<client, server, published, cached, readers, calls>>

\* The patch deletes the file.  No server is told: the code counts on its watching
\* the files, and sends neither didClose nor didChangeWatchedFiles.
DeleteFile(t) ==
    /\ At(t, "write")
    /\ task[t].kind = "patch"
    /\ ~gone
    /\ disk' = disk + 1
    /\ gone' = TRUE
    /\ untold' = TRUE
    /\ Return(t)
    /\ UNCHANGED <<client, server, published, cached, readers, calls, crossed>>

\* The patch fails: it changes nothing, or leaves the file torn, or undone in part.
\* Or something else than a patch changes the file.
WriteUntold(t) ==
    /\ At(t, "write")
    /\ \/ task[t].kind = "patch" /\ UNCHANGED <<disk, gone, untold>>
       \/ disk' = disk + 1 /\ gone' \in BOOLEAN /\ untold' = TRUE
    /\ Return(t)
    /\ UNCHANGED <<client, server, published, cached, readers, calls, crossed>>

\* manager_for_path: no server is started for it.
Find(t) ==
    /\ At(t, "find")
    /\ MayRead
    /\ IF cached = NoClient
       THEN Return(t)
       ELSE task' = [task EXCEPT ![t].pc = "track", ![t].using = cached]
    /\ UNCHANGED <<clientVars, cached, readers, histories>>

TrackEdit(t) ==
    /\ At(t, "track")
    /\ LET c == task[t].using
       IN  /\ Free(c)
           /\ IF client[c].state = "dead"
              THEN /\ Return(t)
                   /\ UNCHANGED <<client, server>>
              ELSE /\ Track(c, task[t].text)
                   /\ task' = [task EXCEPT ![t].pc = "poll", ![t].text = NotOpen]
    /\ UNCHANGED <<disk, published, cached, readers, histories>>

\* An empty list is taken for the answer when it is there in the third poll, a
\* list with entries at once.
Poll(t) ==
    /\ At(t, "poll")
    /\ Free(task[t].using)
    /\ LET found == client[task[t].using].diagnostics
           last  == \/ found = "problems"
                    \/ found # Unpublished /\ task[t].tick > 1
       IN  /\ found # Unpublished \/ task[t].tick < 2
           /\ task' = [task EXCEPT ![t].pc   = IF last THEN "report" ELSE @,
                                   ![t].tick = IF @ < 2 THEN @ + 1 ELSE @]
    /\ UNCHANGED <<clientVars, cached, readers, histories>>

Deadline(t) ==
    /\ At(t, "poll")
    /\ Goto(t, "report")
    /\ UNCHANGED <<clientVars, cached, readers, histories>>

\* What was seen goes to the model, or that nothing was.
Report(t) ==
    /\ At(t, "report")
    /\ Return(t)
    /\ UNCHANGED <<clientVars, cached, readers, histories>>

-----------------------------------------------------------------------------
(* The whole.                                                              *)

GoOn(t) ==
    \/ Lookup(t)
    \/ Spawned(t)
    \/ SpawnFails(t)
    \/ Insert(t)
    \/ List(t)
    \/ Listed(t)
    \/ LookupAgain(t)
    \/ ReadDiagnostics(t)
    \/ SendRequest(t)
    \/ HearReply(t)
    \/ GiveUp(t)
    \/ ApplyEdit(t)
    \/ WriteFile(t)
    \/ DeleteFile(t)
    \/ WriteUntold(t)
    \/ Find(t)
    \/ TrackEdit(t)
    \/ Poll(t)
    \/ Deadline(t)
    \/ Report(t)

Next ==
    \/ \E t \in Tasks : Call(t)
    \/ \E t \in Tasks : GoOn(t)
    \/ ServerStep /\ UNCHANGED <<cached, readers, task, histories>>

\* What a task does at last: the locks serve whoever waits longest, and the
\* clock goes on.  A server owes nothing.
Proceeds(t) ==
    \/ Lookup(t) \/ Insert(t) \/ List(t) \/ Listed(t) \/ LookupAgain(t) \/ SendRequest(t)
    \/ Find(t) \/ TrackEdit(t) \/ SpawnFails(t) \/ GiveUp(t) \/ ApplyEdit(t)
    \/ WriteUntold(t) \/ Deadline(t) \/ Report(t)

Fairness == \A t \in Tasks : SF_vars(Proceeds(t))

Spec == Init /\ [][Next]_vars /\ Fairness

-----------------------------------------------------------------------------
(* Properties.                                                             *)

IsOpen  == cached # NoClient /\ client[cached].version > 0
Holding == {"ask", "await", "askAgain", "awaitAgain", "apply", "track", "poll", "report"}

\* What a server knows of the document once it has taken the first n messages that are
\* under way to it: what the last notification among them says, or what it knows
\* already.  The set has one element.
IsNote(m) == m.kind \in {"open", "change"}

Known(process, n) ==
    LET wire == process.wire
    IN  IF \A j \in 1..n : ~IsNote(wire[j])
        THEN {[version |-> process.version, of |-> process.doc]}
        ELSE {[version |-> wire[j].version, of |-> wire[j].of] :
                 j \in {j \in 1..n : /\ IsNote(wire[j])
                                     /\ \A k \in (j + 1)..n : ~IsNote(wire[k])}}

Told(process) == Known(process, Len(process.wire))

\* Tasks that look for a server at the same time end up with the same one, and
\* no other is left running.  (get_or_spawn, Drop of LspClient)
OneServer ==
    /\ \A t \in Tasks : task[t].pc \in Holding => task[t].using = cached
    /\ \A c \in Clients : client[c].state \in {"starting", "ready"} =>
          c = cached \/ \E t \in Tasks : task[t].using = c /\ task[t].pc \in {"spawn", "insert"}

\* A server reads one didOpen and then didChange with versions in order, also
\* when tasks track the file at the same time.  (track)
DocumentInOrder ==
    \A c \in Clients : \A i \in DOMAIN server[c].wire :
        LET m == server[c].wire[i]
        IN  IsNote(m) =>
              /\ \A known \in Known(server[c], i - 1) : m.version = known.version + 1
              /\ m.kind = "open" <=> m.version = 1

\* What the server has been told of an open document is what the file holds, when a
\* patch that is through has written it last, whatever changed or deleted it before,
\* however the server was found, started or lost meanwhile, and as long as no two
\* patches were under way at a time.  (writethrough.rs)
ServerSeesDisk ==
    /\ ~untold /\ ~crossed
    /\ \A t \in Tasks : ~UnderWay(t)
    /\ IsOpen /\ client[cached].state = "ready"
    => ~gone /\ \A known \in Told(server[cached]) : disk = known.of

\* Every call returns, whatever the server does: it may never answer, or die,
\* while it holds up others.  (client.rs:48: "an unresponsive server doesn't
\* wedge the agent loop")
CallsReturn == \A t \in Tasks : ~At(t, "idle") ~> At(t, "idle")
=============================================================================
