----------------------------- MODULE LspClient ------------------------------
(***************************************************************************)
(* A client of a language server (src/lsp/client.rs): the child process,   *)
(* the requests and notifications on their way to it, the diagnostics on   *)
(* their way back.  One client is shared by all tasks behind a mutex; its  *)
(* main loop and the handlers of notifications are tasks of their own.     *)
(*                                                                         *)
(* One document stands for all of them.  A text is told by its revision.   *)
(***************************************************************************)
EXTENDS Integers, FiniteSets, Sequences

CONSTANTS
    Tasks,        \* turns, or other users of the clients
    MaxClients,   \* bound: servers started
    MaxPublishes  \* bound: diagnostics a server publishes

Clients   == 1..MaxClients
NoClient  == 0
NoTask    == "none"
NotOpen   == -1

ASSUME ClientAssumption ==
    /\ {MaxClients, MaxPublishes} \subseteq Nat
    /\ NoTask \notin Tasks

\* The diagnostics in the cache of a client: none, or a list that was handled
\* when that version of the document had been sent.
Lists == {"clean", "problems"}
Unpublished == "unpublished"

VARIABLES
    disk,       \* the revision of the document in the workspace, deleted or not
    client,     \* the clients
    server,     \* the processes: what they know and what they will read
    published   \* diagnostics whose handler has not run yet

clientVars == <<disk, client, server, published>>

\* version counts what was sent of the document; replied: the answer that the
\* holder waits for is there.
NewClient == [state |-> "none", holder |-> NoTask, version |-> 0,
              replied |-> FALSE, diagnostics |-> Unpublished]
NewServer == [doc |-> NotOpen, version |-> 0, wire |-> <<>>, publishes |-> 0]

ClientInit ==
    /\ disk = 0
    /\ client = [c \in Clients |-> NewClient]
    /\ server = [c \in Clients |-> NewServer]
    /\ published = {}

Free(c) == client[c].holder = NoTask

\* The process ends: what it knows and what is under way to it is lost, but not
\* what came from it before.
Kill(c) ==
    /\ client' = [client EXCEPT ![c].state = "dead"]
    /\ server' = [server EXCEPT ![c] = NewServer]

-----------------------------------------------------------------------------
(* The document is sent: didOpen the first time, didChange from then on.   *)
(* The version is counted and the text queued under one lock.              *)

Message(kind, version, of) == [kind |-> kind, version |-> version, of |-> of]

\* (with a mistake: the file is not remembered as open)
TrackForgetting(c, of) ==
    /\ client' = client
    /\ server' = [server EXCEPT ![c].wire = Append(@, Message("open", 1, of))]

\* (with a mistake: an open file is not sent again)
TrackOnce(c, of) ==
    /\ client' = [client EXCEPT ![c].version = 1]
    /\ server' = IF client[c].version = 0
                 THEN [server EXCEPT ![c].wire = Append(@, Message("open", 1, of))]
                 ELSE server

Track(c, of) ==
    LET version == client[c].version + 1
        kind    == IF version = 1 THEN "open" ELSE "change"
    IN  /\ client' = [client EXCEPT ![c].version = version]
        /\ server' = [server EXCEPT ![c].wire = Append(@, Message(kind, version, of))]

-----------------------------------------------------------------------------
(* Requests.  The task that asks holds the client until the answer is      *)
(* there, the main loop reports that the server is gone, or time is up.    *)

Ask(c, t) ==
    /\ Free(c)
    /\ client' = [client EXCEPT ![c].holder = t]
    /\ server' = IF client[c].state = "dead" THEN server
                 ELSE [server EXCEPT ![c].wire = Append(@, Message("request", 0, NotOpen))]

\* A request that is still under way is for nobody then.
Release(c) ==
    /\ client' = [client EXCEPT ![c].holder = NoTask, ![c].replied = FALSE]
    /\ server' = [server EXCEPT ![c].wire =
                     [i \in DOMAIN @ |-> IF @[i].kind = "request"
                                        THEN [@[i] EXCEPT !.kind = "abandoned"] ELSE @[i]]]

-----------------------------------------------------------------------------
(* The server.  It may be slow or silent, and end at any moment.           *)

\* It takes what comes next, in the order in which it was queued.  A request is
\* answered; an answer nobody waits for any more is dropped by the main loop.
ServerTakes(c) ==
    /\ client[c].state = "ready"
    /\ server[c].wire # <<>>
    /\ LET m    == Head(server[c].wire)
           told == m.kind \in {"open", "change"}
       IN  /\ server' = [server EXCEPT ![c].wire    = Tail(@),
                                       ![c].doc     = IF told THEN m.of ELSE @,
                                       ![c].version = IF told THEN m.version ELSE @]
           /\ client' = [client EXCEPT ![c].replied = @ \/ m.kind = "request"]
    /\ UNCHANGED <<disk, published>>

\* Diagnostics of the document, open or not.
ServerPublishes(c) ==
    /\ client[c].state = "ready"
    /\ server[c].publishes < MaxPublishes
    /\ server' = [server EXCEPT ![c].publishes = @ + 1]
    /\ \E list \in Lists :
          published' = published \union
              {[by |-> c, n |-> server[c].publishes, list |-> list]}
    /\ UNCHANGED <<disk, client>>

\* Each notification has a handler of its own, and these run in any order.
HandleDiagnostics(p) ==
    /\ client' = [client EXCEPT ![p.by].diagnostics = p.list]
    /\ published' = published \ {p}
    /\ UNCHANGED <<disk, server>>

ServerDies(c) ==
    /\ client[c].state = "ready"
    /\ Kill(c)
    /\ UNCHANGED <<disk, published>>

ServerStep ==
    \/ \E c \in Clients : ServerTakes(c) \/ ServerPublishes(c) \/ ServerDies(c)
    \/ \E p \in published : HandleDiagnostics(p)
=============================================================================
