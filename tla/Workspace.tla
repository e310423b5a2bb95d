----------------------------- MODULE Workspace ------------------------------
(***************************************************************************)
(* A workspace under the agent's hands: turns that dispatch apply_patch    *)
(* and shell calls, each preceded by a snapshot, and a user who edits      *)
(* files and rewinds or clears the snapshots at any moment meanwhile.  The *)
(* program may crash between any two steps.                                *)
(*                                                                         *)
(* The turn's part of a call is agent/loop.rs (snapshot, gate, dispatch)   *)
(* and tools/apply_patch.rs (plan every operation, then execute them).     *)
(***************************************************************************)
EXTENDS Snapshots, PatchText

CONSTANTS
    Turns,
    Ui,
    Patches,       \* the patches the model may send, as lines
    Edits,         \* the <<file, text>> changes of a shell command or the user
    AutoPrePatch,  \* [snapshots] auto_pre_patch
    AutoPreShell,  \* [snapshots] auto_pre_shell
    MaxCalls,      \* bound: calls dispatched
    MaxEvents      \* bound: edits and commands of the user and crashes, together

ASSUME WorkspaceAssumption ==
    /\ Actors = Turns \union {Ui}
    /\ Ui \notin Turns
    /\ Nobody \notin Actors
    /\ NoText \in Texts
    /\ \A x \in Texts \ {NoText} : x \in Seq(Lines)
    /\ Edits \subseteq Files \X (Texts \union {Absent})
    /\ AutoPrePatch \in BOOLEAN
    /\ AutoPreShell \in BOOLEAN
    /\ MaxCalls \in Nat
    /\ MaxEvents \in Nat

Hunks == [context : Seq(Lines), removals : Seq(Lines), additions : Seq(Lines)]

\* The operations of each patch.
Parsed == [p \in Patches |-> ParseV4A(p)]

\* The parser answers with a list of operations, each of one of three kinds.
ASSUME PatchesAssumption ==
    \A p \in Patches : \E n \in 0..Len(p) :
        /\ DOMAIN Parsed[p] = 1..n
        /\ \A k \in 1..n :
              LET op == Parsed[p][k]
              IN  /\ op.kind \in {"add", "delete", "update"}
                  /\ op.content \in Seq(Lines)
                  /\ op.hunks \in Seq(Hunks)

VARIABLES
    call,     \* the call each turn has in hand
    changes,  \* what the plan of its patch came to
    next,     \* the change to execute, or the one after the next to undo
    left,     \* what is left of the two bounds
    start,    \* history: the workspace when an actor began to write to it
    alone,    \* history: nobody else has written to it since
    clean,    \* history: no write of this patch has been torn or not undone
    cleared   \* history: the snapshots a clear was to wipe

callVars == <<call, changes, next, clean>>
vars == <<snapVars, callVars, left, start, alone, cleared>>

NoCall == [tool |-> "none"]
Calls ==
    [tool : {"apply_patch"}, patch : Patches]
      \union [tool : {"shell"}, edit : Edits, readOnly : {FALSE}]
      \union [tool : {"shell"}, edit : {<<>>}, readOnly : {TRUE}]

Init ==
    /\ SnapInit
    /\ call = [t \in Turns |-> NoCall]
    /\ changes = [t \in Turns |-> <<>>]
    /\ next = [t \in Turns |-> 1]
    /\ clean = [t \in Turns |-> TRUE]
    /\ left = [calls |-> MaxCalls, events |-> MaxEvents]
    /\ start = [a \in Actors |-> [f \in Files |-> Absent]]
    /\ alone = [a \in Actors |-> TRUE]
    /\ cleared = {}

Set(file, text) == ws' = [ws EXCEPT ![file] = text]

storeVars == <<backend, archives, index, snaps, taken>>
diskVars  == <<storeVars, faults>>

-----------------------------------------------------------------------------
(* One call of a turn.                                                     *)

TakesSnapshot(c) ==
    \/ c.tool = "apply_patch" /\ AutoPrePatch
    \/ c.tool = "shell" /\ AutoPreShell /\ ~c.readOnly

BeginCall(t) ==
    /\ At(t, "idle")
    /\ left.calls > 0
    /\ left' = [left EXCEPT !.calls = @ - 1]
    /\ \E c \in Calls :
          /\ call' = [call EXCEPT ![t] = c]
          /\ Goto(t, [pc |-> IF TakesSnapshot(c) THEN "take" ELSE "taken"])
    /\ UNCHANGED <<diskVars, ws, changes, next, clean>>

\* A snapshot that failed or was skipped does not stop the call; the
\* permission gate may.
Gate(t) ==
    /\ At(t, "taken") \/ At(t, "failed")
    /\ \/ Goto(t, [pc |-> IF call[t].tool = "shell" THEN "run" ELSE "plan"])
       \/ Goto(t, [pc |-> "refused"])
    /\ UNCHANGED <<diskVars, ws, callVars, left>>

RunShell(t) ==
    /\ At(t, "run")
    /\ IF call[t].readOnly THEN UNCHANGED ws ELSE Set(call[t].edit[1], call[t].edit[2])
    /\ Goto(t, [pc |-> "applied"])
    /\ UNCHANGED <<diskVars, callVars, left>>

-----------------------------------------------------------------------------
(* apply_patch.                                                            *)

Patched(op, tree) == ApplyHunks(tree[op.file], op.hunks)

CanPlan(op, tree) ==
    CASE op.kind = "add"    -> tree[op.file] = Absent
      [] op.kind = "delete" -> tree[op.file] # Absent
      [] op.kind = "update" ->
            tree[op.file] \notin {Absent, NoText} /\ Patched(op, tree) # NoText

\* What an operation will do to the tree it was planned on.  The text of a
\* file to delete is read with unwrap_or_default.
Change(op, tree) ==
    [file     |-> op.file,
     original |-> IF tree[op.file] = NoText THEN <<>> ELSE tree[op.file],
     new      |-> CASE op.kind = "add"    -> op.content
                    [] op.kind = "delete" -> Absent
                    [] op.kind = "update" -> Patched(op, tree)]

\* No operations, a path outside of the workspace or an operation that
\* cannot be planned: the tool answers with an error and changes nothing.
Plan(t) ==
    LET ops == Parsed[call[t].patch]
    IN  /\ At(t, "plan")
        /\ IF /\ ops # <<>>
              /\ \A k \in DOMAIN ops : ops[k].file \in Files
              /\ \A k \in DOMAIN ops : CanPlan(ops[k], ws)
           THEN /\ changes' = [changes EXCEPT ![t] =
                                  [k \in DOMAIN ops |-> Change(ops[k], ws)]]
                /\ Goto(t, [pc |-> "execute"])
           ELSE /\ changes' = changes
                /\ Goto(t, [pc |-> "refused"])
        /\ UNCHANGED <<diskVars, ws, call, next, clean, left>>

\* A write can fail before it changes the file, or after it emptied it; a
\* file that is gone cannot be deleted.
Execute(t) ==
    /\ At(t, "execute")
    /\ next[t] <= Len(changes[t])
    /\ LET c == changes[t][next[t]]
       IN  \/ /\ c.new = Absent => ws[c.file] # Absent
              /\ Set(c.file, c.new)
              /\ next' = [next EXCEPT ![t] = @ + 1]
              /\ UNCHANGED <<task, faults, clean>>
           \/ /\ Fails \/ (c.new = Absent /\ ws[c.file] = Absent /\ UNCHANGED faults)
              /\ Goto(t, [pc |-> "undo"])
              /\ UNCHANGED <<ws, next, clean>>
           \/ /\ c.new # Absent
              /\ Fails
              /\ Set(c.file, <<>>)
              /\ clean' = [clean EXCEPT ![t] = FALSE]
              /\ Goto(t, [pc |-> "undo"])
              /\ UNCHANGED next
    /\ UNCHANGED <<storeVars, call, changes, left>>

Applied(t) ==
    /\ At(t, "execute")
    /\ next[t] > Len(changes[t])
    /\ Goto(t, [pc |-> "applied"])
    /\ UNCHANGED <<diskVars, ws, callVars, left>>

\* (with a mistake: the first change is not undone)
UndoAllButFirst(t) ==
    /\ At(t, "undo")
    /\ IF next[t] <= 2
       THEN /\ Goto(t, [pc |-> "rolledBack"])
            /\ UNCHANGED <<ws, next, faults, clean>>
       ELSE LET c == changes[t][next[t] - 1]
            IN  /\ Set(c.file, c.original)
                /\ next' = [next EXCEPT ![t] = @ - 1]
                /\ UNCHANGED <<task, faults, clean>>
    /\ UNCHANGED <<storeVars, call, changes, left>>

\* The changes that were executed are undone, the last one first; an undo
\* that fails is passed over.
Undo(t) ==
    /\ At(t, "undo")
    /\ IF next[t] = 1
       THEN /\ Goto(t, [pc |-> "rolledBack"])
            /\ UNCHANGED <<ws, next, faults, clean>>
       ELSE LET c == changes[t][next[t] - 1]
            IN  /\ \/ /\ Set(c.file, c.original)
                      /\ UNCHANGED <<faults, clean>>
                   \/ /\ Fails
                      /\ clean' = [clean EXCEPT ![t] = FALSE]
                      /\ ws' = ws \/ (c.original # Absent /\ Set(c.file, <<>>))
                /\ next' = [next EXCEPT ![t] = @ - 1]
                /\ UNCHANGED task
    /\ UNCHANGED <<storeVars, call, changes, left>>

-----------------------------------------------------------------------------
(* The end of an operation, the user, and crashes.                         *)

TurnOver == {"applied", "rolledBack", "refused"}
UiOver   == {"rewound", "cleared", "failed"}

Report(a) ==
    /\ task[a].pc \in IF a = Ui THEN UiOver ELSE TurnOver
    /\ task' = [task EXCEPT ![a] = Idle]
    /\ IF a \in Turns
       THEN /\ call' = [call EXCEPT ![a] = NoCall]
            /\ changes' = [changes EXCEPT ![a] = <<>>]
            /\ next' = [next EXCEPT ![a] = 1]
            /\ clean' = [clean EXCEPT ![a] = TRUE]
       ELSE UNCHANGED callVars
    /\ UNCHANGED <<diskVars, ws, left>>

TurnStep(t) ==
    \/ BeginCall(t)
    \/ SnapshotStep(t) /\ UNCHANGED <<callVars, left>>
    \/ Gate(t)
    \/ RunShell(t)
    \/ Plan(t)
    \/ Execute(t)
    \/ Applied(t)
    \/ Undo(t)
    \/ Report(t)

Happens == left.events > 0 /\ left' = [left EXCEPT !.events = @ - 1]

UiStep ==
    \/ Happens /\ Clear(Ui) /\ UNCHANGED callVars
    \/ Happens /\ (\E id \in Ids : RestoreBegin(Ui, id)) /\ UNCHANGED callVars
    \/ SnapshotStep(Ui) /\ UNCHANGED <<callVars, left>>
    \/ Report(Ui)

\* What the histories say of a step of actor a, which is Nobody for the user.
Note(a) ==
    /\ start' = [b \in Actors |->
            IF b = a /\ task'[b].pc = "idle" THEN [f \in Files |-> Absent]
            ELSE IF b = a /\ task[b].pc \in {"idle", "plan"} THEN ws
            ELSE start[b]]
    /\ alone' = [b \in Actors |->
            IF b = a THEN task[b].pc \in {"idle", "plan"} \/ task'[b].pc = "idle" \/ alone[b]
            ELSE alone[b] /\ (ws' = ws \/ task[b].pc = "idle")]
    /\ cleared' = cleared \union (IF task'[Ui].then = "cleared" THEN 1..snaps' ELSE {})

UserEdit ==
    /\ Happens
    /\ \E e \in Edits : Set(e[1], e[2]) /\ ws' # ws
    /\ UNCHANGED <<diskVars, task, callVars>>
    /\ Note(Nobody)

Crash ==
    /\ Happens
    /\ task' = [a \in Actors |-> Idle]
    /\ call' = [t \in Turns |-> NoCall]
    /\ changes' = [t \in Turns |-> <<>>]
    /\ next' = [t \in Turns |-> 1]
    /\ clean' = [t \in Turns |-> TRUE]
    /\ start' = [a \in Actors |-> [f \in Files |-> Absent]]
    /\ alone' = [a \in Actors |-> TRUE]
    /\ UNCHANGED <<diskVars, ws, cleared>>

Next ==
    \/ \E t \in Turns : TurnStep(t) /\ Note(t)
    \/ UiStep /\ Note(Ui)
    \/ UserEdit
    \/ Crash

Spec == Init /\ [][Next]_vars

-----------------------------------------------------------------------------
(* Properties.                                                             *)

Restorable(id) == archives[id] = [f \in Files |->
    IF f \in Included(taken[id]) THEN taken[id][f] ELSE Absent]

\* Where a call is when its snapshot, if any, is done with.
Underway == {"taken", "run", "plan", "execute", "undo", "applied", "rolledBack"}

MayOvershoot(a) == At(a, "prune") \/ (At(a, "truncate") /\ task[a].then = "taken")

\* Each of the newest entries of the list can be rewound to, at every moment:
\* with a prune half done, after a crash between the removal of an archive and
\* the write of the shorter list, after a list was lost.  What the user has
\* cleared is excepted.  The list outgrows its limit by no more than the take
\* that has yet to prune, and one for each event or failure, a crash say, that may have
\* kept a take from it; the next take that succeeds makes up for all of them, and while
\* its call runs the list is within its limit.  (snapshots/mod.rs, take and prune)
NewestRestorable ==
    /\ \A k \in DOMAIN Listed :
          k > Len(Listed) - Retain => Restorable(Listed[k]) \/ Listed[k] \in cleared
    /\ Len(Listed) <= Retain + Cardinality({a \in Actors : MayOvershoot(a)})
                      + (MaxEvents - left.events) + (MaxFaults - faults)
    /\ \A t \in Turns :
          task[t].pc \in Underway /\ task[t].id # Nobody => Len(Listed) <= Retain

\* While a call changes the workspace, the snapshot the user was told of is
\* listed and holds the files as they were: a later step of the same take, a
\* prune or a failed write may not have lost it.  (agent/loop.rs 364-384)
CallHasNet ==
    \A t \in Turns :
        /\ task[t].pc \in {"run", "plan", "execute", "undo", "applied", "rolledBack"}
        /\ task[t].id \notin cleared \union {Nobody}
        => /\ Restorable(task[t].id)
           /\ \E k \in DOMAIN Listed : Listed[k] = task[t].id

\* A rewind that reports success and that nobody disturbed has brought back every
\* captured file, left the files alone that were ignored then and now, and removed
\* what was added, but for the files whose removal failed.  git also keeps an added
\* file with the text of a file that has gone, for it takes that for a rename (the
\* tests promise otherwise, see README).  A rewind undoes patches, shell commands,
\* edits and the edit of the ignore file alike.
RestoreRewinds ==
    At(Ui, "rewound") /\ alone[Ui] =>
        LET then == taken[task[Ui].id]
            now  == start[Ui]
        IN  \A f \in Files :
              /\ f \in Included(then) => ws[f] = then[f]
              /\ f \in Ignored(then) \intersect Ignored(now) => ws[f] = now[f]
              /\ f \notin Present(then) \union Ignored(now) =>
                    \/ ws[f] = Absent
                    \/ f \in task[Ui].extra
                    \/ backend = "git" /\ \E g \in Present(then) \ Included(now) : then[g] = now[f]

\* A patch that fails, wherever it fails, leaves no trace, unless a write was
\* torn, an undo failed, a file that is not text was deleted or another actor
\* wrote meanwhile; several operations on one file included.
AllOrNothing ==
    \A t \in Turns :
        /\ At(t, "rolledBack") /\ alone[t] /\ clean[t]
        /\ \A k \in DOMAIN changes[t] :
              changes[t][k].new = Absent => start[t][changes[t][k].file] # NoText
        => ws = start[t]

\* What a hunk with removals means, stated without positions: the first place
\* where the removed lines stand in a row gets the added lines instead.
MeansHunk(old, hunk, new) ==
    IF hunk.removals = <<>>
    THEN \E k \in 0..Len(old) :
            new = SubSeq(old, 1, k) \o hunk.additions \o SubSeq(old, k + 1, Len(old))
    ELSE /\ \E k \in 1..Len(old) :
                SubSeq(old, k, k + Len(hunk.removals) - 1) = hunk.removals
         /\ new = ReplaceFirstSubSeq(hunk.additions, hunk.removals, old)

\* What is in a file after an operation, as the patch has it.
Means(op, old, new) ==
    /\ op.kind = "add" => new = op.content
    /\ op.kind = "delete" => new = Absent
    /\ op.kind = "update" /\ Len(op.hunks) = 0 => new = old
    /\ op.kind = "update" /\ Len(op.hunks) = 1 => MeansHunk(old, op.hunks[1], new)

\* A patch that succeeds undisturbed has done what it says: a file it does not
\* name is untouched, and a file it names once is created as given, gone, or
\* changed as its hunks mean.
PatchMeansWhatItSays ==
    \A t \in Turns :
        At(t, "applied") /\ alone[t] /\ call[t].tool = "apply_patch" =>
            LET ops     == Parsed[call[t].patch]
                on(f)   == {k \in DOMAIN ops : ops[k].file = f}
            IN  \A f \in Files :
                  /\ on(f) = {} => ws[f] = start[t][f]
                  /\ Cardinality(on(f)) = 1 =>
                        \A k \in on(f) : Means(ops[k], start[t][f], ws[f])
=============================================================================
