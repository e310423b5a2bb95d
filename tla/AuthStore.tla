----------------------------- MODULE AuthStore ------------------------------
(***************************************************************************)
(* The auth store of artui (src/auth/store.rs): one JSON file with a       *)
(* record for each provider.  Every operation loads the whole file; an     *)
(* upsert or a removal then writes the whole file anew, through a          *)
(* temporary file with a fixed name that is renamed over it.  Nothing is   *)
(* locked, and several tasks, the user interface and other processes use   *)
(* the same path.                                                          *)
(*                                                                         *)
(* A writer keeps writing to the file it opened, wherever that has been    *)
(* renamed to, so names and files are told apart: path and tmp name an     *)
(* inode, disk is what the inodes hold.                                    *)
(***************************************************************************)
EXTENDS Integers, FiniteSets

CONSTANTS
    Actors,     \* tasks and the user interface
    Providers,  \* account-backed providers
    MaxGrants   \* bound: logins

ASSUME StoreAssumption ==
    /\ IsFiniteSet(Actors)
    /\ MaxGrants \in Nat \ {0}

\* What is told apart in a record: the login it came from, the login whose
\* token was exchanged for the cached Copilot session, and the serial number
\* of the refresh token.  No login is 0.
Record    == [grant : 0..MaxGrants, session : 0..MaxGrants, refresh : Nat]
NoRecord  == [grant |-> 0, session |-> 0, refresh |-> 0]
NoRecords == [p \in Providers |-> NoRecord]

\* As many inodes as can be named or open at a time.
Inodes  == 1..(Cardinality(Actors) + 2)
Nothing == 0
NoFile  == [state |-> "empty", records |-> NoRecords]

VARIABLES
    path,  \* the inode named auth.json, if any
    tmp,   \* the inode named auth.json.tmp, if any
    disk,  \* what the inodes hold
    task   \* the progress of each actor

storeVars == <<path, tmp, disk, task>>

Nobody == -1

\* seen: the Copilot login whose token is in use; asks: the login the user wants
\* to be the current one when this is saved, if any; rec: the record in hand, to
\* be inserted; out: the file to be written; fd: the inode open for writing.
Idle == [pc |-> "idle", kind |-> "none", seen |-> 0, session |-> 0, retried |-> FALSE,
         asks |-> Nobody, rec |-> NoRecord, out |-> NoRecords, saving |-> FALSE,
         fd |-> Nothing, then |-> "idle"]

\* The store is not there yet, or holds what an earlier session has saved.
StoreInit ==
    /\ path \in {Nothing, 1}
    /\ tmp = Nothing
    /\ disk = [i \in Inodes |->
            IF i = path
            THEN [state |-> "json",
                  records |-> [p \in Providers |-> [NoRecord EXCEPT !.grant = 1]]]
            ELSE NoFile]
    /\ task = [a \in Actors |-> Idle]

At(a, pc) == task[a].pc = pc

Stop(a) == task' = [task EXCEPT ![a] = Idle]

\* a goes on with the given fields of its task changed, or has come to its end.
Goto(a, fields) ==
    IF fields.pc = "idle" THEN Stop(a)
    ELSE task' = [task EXCEPT ![a] = [f \in DOMAIN @ |->
                     IF f \in DOMAIN fields THEN fields[f] ELSE @[f]]]

-----------------------------------------------------------------------------
(* load_file: a missing file is an empty store, one that does not parse an *)
(* error.                                                                  *)

Readable == path # Nothing => disk[path].state = "json"
Loaded   == IF path = Nothing THEN NoRecords ELSE disk[path].records

-----------------------------------------------------------------------------
(* upsert and remove up to the file they are going to write.               *)

\* (with a mistake: a record that is there stays)
UpsertIfAbsent(a, p) ==
    /\ At(a, "upsert")
    /\ IF Readable
       THEN Goto(a, [pc |-> "open", saving |-> TRUE,
                     out |-> [Loaded EXCEPT ![p] = IF @ = NoRecord THEN task[a].rec ELSE @],
                     rec |-> NoRecord])
       ELSE Stop(a)
    /\ UNCHANGED <<path, tmp, disk>>

Upsert(a, p) ==
    /\ At(a, "upsert")
    /\ IF Readable
       THEN Goto(a, [pc |-> "open", saving |-> TRUE,
                     out |-> [Loaded EXCEPT ![p] = task[a].rec], rec |-> NoRecord])
       ELSE Stop(a)
    /\ UNCHANGED <<path, tmp, disk>>

\* Nothing is saved when there was nothing to remove.
Remove(a, p) ==
    /\ At(a, "remove")
    /\ IF Readable /\ Loaded[p] # NoRecord
       THEN Goto(a, [pc |-> "open", saving |-> TRUE, asks |-> 0,
                     out |-> [Loaded EXCEPT ![p] = NoRecord]])
       ELSE Stop(a)
    /\ UNCHANGED <<path, tmp, disk>>

-----------------------------------------------------------------------------
(* save_file.                                                              *)

FreeInode == CHOOSE i \in Inodes :
    i \notin {path, tmp} \union {task[b].fd : b \in Actors}

\* (with a mistake: no temporary file)
OpenInPlace(a) ==
    /\ At(a, "open")
    /\ LET inode == IF path # Nothing THEN path ELSE FreeInode
       IN  /\ tmp' = inode
           /\ disk' = [disk EXCEPT ![inode] = NoFile]
           /\ Goto(a, [pc |-> "write", fd |-> inode])
    /\ UNCHANGED path

\* The temporary file is created, or the one that is there truncated.
Open(a) ==
    /\ At(a, "open")
    /\ LET inode == IF tmp # Nothing THEN tmp ELSE FreeInode
       IN  /\ tmp' = inode
           /\ disk' = [disk EXCEPT ![inode] = NoFile]
           /\ Goto(a, [pc |-> "write", fd |-> inode])
    /\ UNCHANGED path

\* The content goes to the start of the file.  If another writer of the same
\* inode was faster and had more to write, the rest of that stays behind.
Write(a) ==
    /\ At(a, "write")
    /\ LET fd    == task[a].fd
           whole == [state |-> "json", records |-> task[a].out]
       IN  \E content \in IF disk[fd] \in {NoFile, whole}
                          THEN {whole}
                          ELSE {whole, [whole EXCEPT !.state = "garbled"]} :
               disk' = [disk EXCEPT ![fd] = content]
    /\ Goto(a, [pc |-> "rename"])
    /\ UNCHANGED <<path, tmp>>

\* What has the name of the temporary file now becomes the store.  The file
\* that had the name before is gone, unless it is open.
Rename(a) ==
    /\ At(a, "rename")
    /\ IF tmp = Nothing
       THEN /\ Stop(a)
            /\ UNCHANGED <<path, tmp>>
       ELSE /\ path' = tmp
            /\ tmp' = Nothing
            /\ Goto(a, [pc |-> task[a].then, saving |-> FALSE, asks |-> Nobody,
                        out |-> NoRecords, fd |-> Nothing])
    /\ disk' = [i \in Inodes |->
            IF i = path' \/ \E b \in Actors \ {a} : task[b].fd = i THEN disk[i] ELSE NoFile]

\* The disk is full: the temporary file stays empty.
WriteFails(a) ==
    /\ At(a, "write")
    /\ Stop(a)
    /\ UNCHANGED <<path, tmp, disk>>
=============================================================================
