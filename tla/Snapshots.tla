----------------------------- MODULE Snapshots ------------------------------
(***************************************************************************)
(* The snapshot manager of artui (src/snapshots): it captures the files of *)
(* the workspace before a risky tool runs, keeps the newest ones and       *)
(* rewinds the workspace to one of them.  The list of snapshots is the     *)
(* file index.json; what they captured is one archive each (tar backend)   *)
(* or a git tree that nothing here ever removes (git backend).             *)
(*                                                                         *)
(* Nothing is locked.  Each actor, a turn or the user interface, is in the *)
(* middle of at most one operation; task[a] says where.                    *)
(***************************************************************************)
EXTENDS Integers, Sequences, FiniteSetsExt

CONSTANTS
    Files,       \* the files of the workspace
    Texts,       \* what can be in a file
    Absent,      \* what is in a file that does not exist
    IgnoreFile,  \* .gitignore for git, .ignore outside of a repository
    IgnoredBy,   \* the files an ignore file with a given text excludes
    Excludes,    \* files in target or node_modules, left out by the tar backend
    SizeOf,      \* the size of a text
    Budget,      \* [snapshots] max_tar_mb
    Retain,      \* [snapshots] retain
    Torn,        \* index.json or an archive that was not written to its end
    Backends,    \* the backends the workspace may have
    StartTrees,  \* the workspaces a run starts from
    Actors,
    MaxSnaps,    \* bound: snapshots begun
    MaxFaults    \* bound: file operations, or passes of removals, that fail

Ids    == 1..MaxSnaps
Trees  == [Files -> Texts \union {Absent}]
Nobody == 0  \* the id of a snapshot that was not taken

ASSUME SnapshotsAssumption ==
    /\ IgnoreFile \in Files
    /\ IgnoredBy \in [Texts -> SUBSET Files]
    /\ Excludes \subseteq Files
    /\ SizeOf \in [Texts -> Nat]
    /\ Budget \in Nat
    /\ Retain \in Nat
    /\ Backends \subseteq {"git", "tar"}
    /\ StartTrees \subseteq Trees
    /\ MaxSnaps \in Nat
    /\ MaxFaults \in Nat
    /\ Absent \notin Texts
    /\ Torn \notin Trees \union {Absent} \union Seq(Ids)
    /\ IsFiniteSet(Files)

VARIABLES
    backend,   \* decided when the manager is built
    ws,        \* the workspace
    archives,  \* what each snapshot captured, if that is (still) there
    index,     \* index.json: the ids from oldest to newest
    snaps,     \* the snapshots begun, each with a fresh ULID
    task,      \* the operation each actor is in
    faults,    \* the failures that may still happen
    taken      \* history: the workspace when a snapshot was begun

snapVars == <<backend, ws, archives, index, snaps, task, faults, taken>>

\* extra: the files a restore was to delete and has not, or not yet, deleted.
Idle == [pc |-> "idle", id |-> Nobody, seen |-> <<>>, then |-> "idle", extra |-> {}]

SnapInit ==
    /\ backend \in Backends
    /\ ws \in StartTrees
    /\ archives = [i \in Ids |-> Absent]
    /\ index = <<>>
    /\ snaps = 0
    /\ task = [a \in Actors |-> Idle]
    /\ faults = MaxFaults
    /\ taken = [i \in Ids |-> Absent]

At(a, pc) == task[a].pc = pc

\* a goes on at pc, with the given fields of its task changed.
Goto(a, fields) ==
    task' = [task EXCEPT ![a] = [f \in DOMAIN @ |->
                IF f \in DOMAIN fields THEN fields[f] ELSE @[f]]]

Fails == faults > 0 /\ faults' = faults - 1

\* The removals of one pass that fail, an error nobody looks at: mostly none.
Unremoved(kept) == IF kept = {} THEN UNCHANGED faults ELSE Fails

Present(tree) == {f \in Files : tree[f] # Absent}
Ignored(tree) ==
    (IF tree[IgnoreFile] = Absent THEN {} ELSE IgnoredBy[tree[IgnoreFile]])
      \union (IF backend = "tar" THEN Excludes ELSE {})
Included(tree) == Present(tree) \ Ignored(tree)
Captured(tree) == [f \in Files |-> IF f \in Included(tree) THEN tree[f] ELSE Absent]

-----------------------------------------------------------------------------
(* index.json.  A file that is missing or does not parse is an empty list; *)
(* fs::write truncates the file before it writes it, and may fail at both: *)
(* the operation ends there, and the file stays as it is by then.          *)

Listed == IF index = Torn THEN <<>> ELSE index

Truncate(a) ==
    /\ At(a, "truncate")
    /\ \/ /\ index' = Torn
          /\ Goto(a, [pc |-> "write"])
          /\ UNCHANGED faults
       \/ /\ Fails
          /\ index' = index
          /\ Goto(a, [pc |-> "failed", id |-> Nobody])
    /\ UNCHANGED <<backend, ws, archives, snaps, taken>>

\* (with a mistake: a write that fails counts as done)
WriteUnchecked(a) ==
    /\ At(a, "write")
    /\ \/ index' = task[a].seen /\ UNCHANGED faults
       \/ index' = index /\ Fails
    /\ Goto(a, [pc |-> task[a].then])
    /\ UNCHANGED <<backend, ws, archives, snaps, taken>>

Write(a) ==
    /\ At(a, "write")
    /\ \/ /\ index' = task[a].seen
          /\ Goto(a, [pc |-> task[a].then])
          /\ UNCHANGED faults
       \/ /\ Fails
          /\ index' = index
          /\ Goto(a, [pc |-> "failed", id |-> Nobody])
    /\ UNCHANGED <<backend, ws, archives, snaps, taken>>

-----------------------------------------------------------------------------
(* take.                                                                   *)

TotalSize(tree) ==
    MapThenSumSet(LAMBDA f : SizeOf[tree[f]], Included(tree))

TooLarge(tree) == backend = "tar" /\ TotalSize(tree) > Budget

\* Either backend reads the tree in one step here.  A file that cannot be
\* opened leaves an archive without an end behind; a tree is not written.
Capture(a) ==
    /\ At(a, "take")
    /\ IF TooLarge(ws)
       THEN /\ Goto(a, [pc |-> "taken", id |-> Nobody])
            /\ UNCHANGED <<archives, snaps, faults, taken>>
       ELSE /\ snaps < MaxSnaps
            /\ snaps' = snaps + 1
            /\ taken' = [taken EXCEPT ![snaps + 1] = ws]
            /\ \/ /\ archives' = [archives EXCEPT ![snaps + 1] = Captured(ws)]
                  /\ Goto(a, [pc |-> "push", id |-> snaps + 1])
                  /\ UNCHANGED faults
               \/ /\ Fails
                  /\ archives' = [archives EXCEPT ![snaps + 1] =
                                     IF backend = "tar" THEN Torn ELSE Absent]
                  /\ Goto(a, [pc |-> "failed", id |-> Nobody])
    /\ UNCHANGED <<backend, ws, index>>

Push(a) ==
    /\ At(a, "push")
    /\ Goto(a, [pc   |-> "truncate",
                seen |-> Append(Listed, task[a].id),
                then |-> "prune"])
    /\ UNCHANGED <<backend, ws, archives, index, snaps, faults, taken>>

\* (with a mistake: the archives of the newest entries go)
PruneNewest(a) ==
    /\ At(a, "prune")
    /\ IF Len(Listed) <= Retain
       THEN /\ Goto(a, [pc |-> "taken"])
            /\ UNCHANGED archives
       ELSE LET cutoff == Len(Listed) - Retain
            IN  /\ archives' = [i \in Ids |->
                      IF backend = "tar" /\ \E k \in (cutoff + 1)..Len(Listed) : Listed[k] = i
                      THEN Absent ELSE archives[i]]
                /\ Goto(a, [pc   |-> "truncate",
                            seen |-> SubSeq(Listed, cutoff + 1, Len(Listed)),
                            then |-> "taken"])
    /\ UNCHANGED <<backend, ws, index, snaps, faults, taken>>

\* The archives of the first n entries go, but for those that cannot be removed.
RemoveArchives(n) ==
    LET gone == {Listed[k] : k \in 1..n}
    IN  IF backend = "tar"
        THEN \E kept \in SUBSET {i \in gone : archives[i] # Absent} :
                /\ archives' = [i \in Ids |-> IF i \in gone \ kept THEN Absent ELSE archives[i]]
                /\ Unremoved(kept)
        ELSE UNCHANGED <<archives, faults>>

\* The archives of the oldest entries, read anew, go before the shorter list
\* is written.
Prune(a) ==
    /\ At(a, "prune")
    /\ IF Len(Listed) <= Retain
       THEN /\ Goto(a, [pc |-> "taken"])
            /\ UNCHANGED <<archives, faults>>
       ELSE LET cutoff == Len(Listed) - Retain
            IN  /\ RemoveArchives(cutoff)
                /\ Goto(a, [pc   |-> "truncate",
                            seen |-> SubSeq(Listed, cutoff + 1, Len(Listed)),
                            then |-> "taken"])
    /\ UNCHANGED <<backend, ws, index, snaps, taken>>

-----------------------------------------------------------------------------
(* clear and restore, commands of the user.                                *)

Clear(a) ==
    /\ At(a, "idle")
    /\ RemoveArchives(Len(Listed))
    /\ Goto(a, [pc |-> "truncate", seen |-> <<>>, then |-> "cleared"])
    /\ UNCHANGED <<backend, ws, index, snaps, taken>>

WithText(tree, S, text) == {f \in S : tree[f] = text}

\* What git diff --diff-filter=A may answer.  git diff looks for renames: an
\* added file is an R, not an A, when a file with its text has gone, each such
\* file accounting for one.  (It also pairs files that are merely similar.)
ReportedAdded(old, new) ==
    LET added == Included(new) \ Present(old)
        gone  == Present(old) \ Included(new)
    IN  {A \in SUBSET added :
            \A x \in {new[f] : f \in added} :
                Cardinality(WithText(new, A, x)) =
                    Max({0, Cardinality(WithText(new, added, x))
                              - Cardinality(WithText(old, gone, x))})}

TreeWithout(tree, gone) == [f \in Files |-> IF f \in gone THEN Absent ELSE tree[f]]

\* tar deletes every included file before it opens the archive.  git compares
\* the tree with the workspace first: extra is to be deleted in the end.
RestoreBegin(a, id) ==
    /\ At(a, "idle")
    /\ \E k \in DOMAIN Listed : Listed[k] = id
    /\ IF backend = "tar"
       THEN \E kept \in SUBSET Included(ws) :
               /\ ws' = TreeWithout(ws, Included(ws) \ kept)
               /\ Unremoved(kept)
               /\ Goto(a, [pc |-> "unpack", id |-> id, extra |-> kept])
       ELSE /\ UNCHANGED <<ws, faults>>
            /\ \E extra \in ReportedAdded(archives[id], ws) :
                   Goto(a, [pc |-> "unpack", id |-> id, extra |-> extra])
    /\ UNCHANGED <<backend, archives, index, snaps, taken>>

\* (with a mistake: files that exist are not overwritten)
UnpackMissing(a) ==
    /\ At(a, "unpack")
    /\ LET archive == archives[task[a].id]
       IN  IF archive \in {Absent, Torn}
           THEN /\ Goto(a, [pc |-> "failed"])
                /\ UNCHANGED ws
           ELSE /\ ws' = [f \in Files |-> IF ws[f] = Absent THEN archive[f] ELSE ws[f]]
                /\ Goto(a, [pc |-> IF backend = "git" THEN "discard" ELSE "rewound"])
    /\ UNCHANGED <<backend, archives, index, snaps, faults, taken>>

\* It may break off: some files are written by then, and one of them in part.
Unpack(a) ==
    /\ At(a, "unpack")
    /\ LET archive  == archives[task[a].id]
           Archived == {f \in Files : archive[f] # Absent}
       IN  IF archive \in {Absent, Torn}
           THEN /\ Goto(a, [pc |-> "failed"])
                /\ UNCHANGED <<ws, faults>>
           ELSE \/ /\ ws' = [f \in Files |-> IF f \in Archived THEN archive[f] ELSE ws[f]]
                   /\ Goto(a, [pc |-> IF backend = "git" THEN "discard" ELSE "rewound"])
                   /\ UNCHANGED faults
                \/ /\ Fails
                   /\ \E whole, part \in SUBSET Archived :
                         /\ Cardinality(part) <= 1
                         /\ ws' = [f \in Files |-> CASE f \in part  -> <<>>
                                                    [] f \in whole -> archive[f]
                                                    [] OTHER      -> ws[f]]
                   /\ Goto(a, [pc |-> "failed"])
    /\ UNCHANGED <<backend, archives, index, snaps, taken>>

Discard(a) ==
    /\ At(a, "discard")
    /\ \E kept \in SUBSET task[a].extra :
          /\ ws' = TreeWithout(ws, task[a].extra \ kept)
          /\ Unremoved(kept)
          /\ Goto(a, [pc |-> "rewound", extra |-> kept])
    /\ UNCHANGED <<backend, archives, index, snaps, taken>>

SnapshotStep(a) ==
    \/ Truncate(a)
    \/ Write(a)
    \/ Capture(a)
    \/ Push(a)
    \/ Prune(a)
    \/ Unpack(a)
    \/ Discard(a)
=============================================================================
