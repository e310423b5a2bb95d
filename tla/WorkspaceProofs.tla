-------------------------- MODULE WorkspaceProofs ---------------------------
(***************************************************************************)
(* Proofs about Workspace, for any files, texts, patches and edits: what a *)
(* rewind brings back, what a failed patch leaves behind and what one that *)
(* succeeds has done, for any number of turns; the newest snapshots and    *)
(* the net under a call, for one turn.                                     *)
(***************************************************************************)
EXTENDS Workspace, SequenceTheorems, FiniteSetTheorems, NaturalsInduction,
        WellFoundedInduction, TLAPS

TurnPcs == {"idle", "take", "push", "truncate", "write", "prune", "taken", "failed", "run",
            "plan", "execute", "undo", "applied", "rolledBack", "refused"}
UiPcs   == {"idle", "truncate", "write", "unpack", "discard", "rewound", "cleared", "failed"}
Thens   == {"idle", "prune", "taken", "cleared"}

TaskRecords(n) ==
    [pc : TurnPcs \union UiPcs, id : 0..n, seen : Seq(1..n), then : Thens, extra : SUBSET Files]

SnapTyped ==
    /\ backend \in {"git", "tar"}
    /\ ws = [f \in Files |-> ws[f]]
    /\ archives = [i \in Ids |-> archives[i]]
    /\ taken = [i \in Ids |-> taken[i]]
    /\ snaps \in 0..MaxSnaps
    /\ index = Torn \/ index \in Seq(1..snaps)
    /\ task \in [Actors -> TaskRecords(snaps)]

CallTyped ==
    /\ left \in [calls : Nat, events : Nat] /\ left.events <= MaxEvents
    /\ DOMAIN call = Turns
    /\ changes = [t \in Turns |-> changes[t]]
    /\ next \in [Turns -> Nat \ {0}]
    /\ clean = [t \in Turns |-> clean[t]]

\* Where a task may be, and what its writes of the list are for.
PcOk(a) ==
    IF a = Ui THEN /\ task[a].pc \in UiPcs
                   /\ task[a].pc \in {"truncate", "write"} => task[a].then = "cleared"
              ELSE /\ task[a].pc \in TurnPcs
                   /\ task[a].pc \in {"truncate", "write"} => task[a].then \in {"prune", "taken"}
                   /\ task[a].pc = "push" => task[a].id # Nobody

TypeInv == SnapTyped /\ CallTyped /\ \A a \in Actors : PcOk(a)

-----------------------------------------------------------------------------
(* How a task moves.                                                       *)

Moves(a, pc, id, seen, then, extra) ==
    task' = [task EXCEPT ![a] =
                [pc |-> pc, id |-> id, seen |-> seen, then |-> then, extra |-> extra]]

MovesTo(a, pc) == Moves(a, pc, task[a].id, task[a].seen, task[a].then, task[a].extra)

LEMMA Gone ==
    ASSUME NEW n, task \in [Actors -> TaskRecords(n)], NEW a \in Actors
    PROVE  /\ \A pc : Goto(a, [pc |-> pc]) => MovesTo(a, pc)
           /\ \A pc, id : Goto(a, [pc |-> pc, id |-> id]) =>
                 Moves(a, pc, id, task[a].seen, task[a].then, task[a].extra)
           /\ \A pc, seen, then : Goto(a, [pc |-> pc, seen |-> seen, then |-> then]) =>
                 Moves(a, pc, task[a].id, seen, then, task[a].extra)
           /\ \A pc, id, extra : Goto(a, [pc |-> pc, id |-> id, extra |-> extra]) =>
                 Moves(a, pc, id, task[a].seen, task[a].then, extra)
           /\ \A pc, extra : Goto(a, [pc |-> pc, extra |-> extra]) =>
                 Moves(a, pc, task[a].id, task[a].seen, task[a].then, extra)
           /\ task' = [task EXCEPT ![a] = Idle] => Moves(a, "idle", Nobody, <<>>, "idle", {})
<1> DEFINE r == task[a]
           Fields == {"pc", "id", "seen", "then", "extra"}
<1>1. r \in TaskRecords(n)
  OBVIOUS
<1>2. DOMAIN r = Fields
  BY <1>1 DEF TaskRecords
<1> DEFINE new(fields) == [f \in DOMAIN r |-> IF f \in DOMAIN fields THEN fields[f] ELSE r[f]]
<1>3. ASSUME NEW fields, Goto(a, fields)
      PROVE  task' = [task EXCEPT ![a] = new(fields)]
  BY <1>3 DEF Goto
<1>4. ASSUME NEW pc, Goto(a, [pc |-> pc]) PROVE MovesTo(a, pc)
  <2> DEFINE g == [pc |-> pc]
  <2>1. task' = [task EXCEPT ![a] = new(g)]
    BY <1>3, <1>4
  <2>2. DOMAIN g = {"pc"} /\ g["pc"] = pc
    OBVIOUS
  <2> HIDE DEF g
  <2>3. new(g) = [pc |-> pc, id |-> r.id, seen |-> r.seen, then |-> r.then, extra |-> r.extra]
    BY <1>2, <2>2
  <2> QED BY <2>1, <2>3 DEF MovesTo, Moves
<1>5. ASSUME NEW pc, NEW id, Goto(a, [pc |-> pc, id |-> id])
      PROVE  Moves(a, pc, id, r.seen, r.then, r.extra)
  <2> DEFINE g == [pc |-> pc, id |-> id]
  <2>1. task' = [task EXCEPT ![a] = new(g)]
    BY <1>3, <1>5
  <2>2. DOMAIN g = {"pc", "id"} /\ g["pc"] = pc /\ g["id"] = id
    OBVIOUS
  <2> HIDE DEF g
  <2>3. new(g) = [pc |-> pc, id |-> id, seen |-> r.seen, then |-> r.then, extra |-> r.extra]
    BY <1>2, <2>2
  <2> QED BY <2>1, <2>3 DEF Moves
<1>6. ASSUME NEW pc, NEW seen, NEW then, Goto(a, [pc |-> pc, seen |-> seen, then |-> then])
      PROVE  Moves(a, pc, r.id, seen, then, r.extra)
  <2> DEFINE g == [pc |-> pc, seen |-> seen, then |-> then]
  <2>1. task' = [task EXCEPT ![a] = new(g)]
    BY <1>3, <1>6
  <2>2. DOMAIN g = {"pc", "seen", "then"} /\ g["pc"] = pc /\ g["seen"] = seen /\ g["then"] = then
    OBVIOUS
  <2> HIDE DEF g
  <2>3. new(g) = [pc |-> pc, id |-> r.id, seen |-> seen, then |-> then, extra |-> r.extra]
    BY <1>2, <2>2
  <2> QED BY <2>1, <2>3 DEF Moves
<1>7. ASSUME NEW pc, NEW id, NEW extra, Goto(a, [pc |-> pc, id |-> id, extra |-> extra])
      PROVE  Moves(a, pc, id, r.seen, r.then, extra)
  <2> DEFINE g == [pc |-> pc, id |-> id, extra |-> extra]
  <2>1. task' = [task EXCEPT ![a] = new(g)]
    BY <1>3, <1>7
  <2>2. DOMAIN g = {"pc", "id", "extra"} /\ g["pc"] = pc /\ g["id"] = id /\ g["extra"] = extra
    OBVIOUS
  <2> HIDE DEF g
  <2>3. new(g) = [pc |-> pc, id |-> id, seen |-> r.seen, then |-> r.then, extra |-> extra]
    BY <1>2, <2>2
  <2> QED BY <2>1, <2>3 DEF Moves
<1>8. ASSUME NEW pc, NEW extra, Goto(a, [pc |-> pc, extra |-> extra])
      PROVE  Moves(a, pc, r.id, r.seen, r.then, extra)
  <2> DEFINE g == [pc |-> pc, extra |-> extra]
  <2>1. task' = [task EXCEPT ![a] = new(g)]
    BY <1>3, <1>8
  <2>2. DOMAIN g = {"pc", "extra"} /\ g["pc"] = pc /\ g["extra"] = extra
    OBVIOUS
  <2> HIDE DEF g
  <2>3. new(g) = [pc |-> pc, id |-> r.id, seen |-> r.seen, then |-> r.then, extra |-> extra]
    BY <1>2, <2>2
  <2> QED BY <2>1, <2>3 DEF Moves
<1>9. task' = [task EXCEPT ![a] = Idle] => Moves(a, "idle", Nobody, <<>>, "idle", {})
  BY DEF Moves, Idle
<1> QED BY <1>4, <1>5, <1>6, <1>7, <1>8, <1>9

LEMMA MovesFacts ==
    ASSUME NEW n \in Nat, task \in [Actors -> TaskRecords(n)], NEW a \in Actors,
           NEW pc, NEW id, NEW seen, NEW then, NEW extra, Moves(a, pc, id, seen, then, extra)
    PROVE  /\ task'[a].pc = pc /\ task'[a].id = id /\ task'[a].seen = seen
           /\ task'[a].then = then /\ task'[a].extra = extra
           /\ \A b \in Actors \ {a} : task'[b] = task[b]
           /\ \A m \in Nat : n <= m /\ pc \in TurnPcs \union UiPcs /\ id \in 0..m
                             /\ seen \in Seq(1..m) /\ then \in Thens /\ extra \in SUBSET Files
                 => task' \in [Actors -> TaskRecords(m)]
<1> DEFINE r == [pc |-> pc, id |-> id, seen |-> seen, then |-> then, extra |-> extra]
<1>1. task' = [task EXCEPT ![a] = r]
  BY DEF Moves
<1>2. /\ r.pc = pc /\ r.id = id /\ r.seen = seen /\ r.then = then /\ r.extra = extra
  OBVIOUS
<1>3. ASSUME NEW m \in Nat, n <= m, pc \in TurnPcs \union UiPcs, id \in 0..m,
             seen \in Seq(1..m), then \in Thens, extra \in SUBSET Files
      PROVE  task' \in [Actors -> TaskRecords(m)]
  <2>1. r \in TaskRecords(m)
    BY <1>3 DEF TaskRecords
  <2>2. ASSUME NEW b \in Actors PROVE task[b] \in TaskRecords(m)
    <3>1. task[b] \in TaskRecords(n)
      OBVIOUS
    <3>2. 0..n \subseteq 0..m /\ 1..n \subseteq 1..m
      BY <1>3
    <3>3. Seq(1..n) \subseteq Seq(1..m)
      BY <3>2, SeqMonotonic
    <3> QED BY <3>1, <3>2, <3>3 DEF TaskRecords
  <2> HIDE DEF r
  <2> QED BY <1>1, <2>1, <2>2
<1> HIDE DEF r
<1> QED BY <1>1, <1>2, <1>3

\* Nothing to do with a task that has not moved, but for the higher bound.
LEMMA Unmoved ==
    ASSUME NEW n \in Nat, NEW m \in Nat, n <= m
    PROVE  TaskRecords(n) \subseteq TaskRecords(m)
<1>1. 0..n \subseteq 0..m /\ 1..n \subseteq 1..m
  OBVIOUS
<1>2. Seq(1..n) \subseteq Seq(1..m)
  BY <1>1, SeqMonotonic
<1> QED BY <1>1, <1>2 DEF TaskRecords

-----------------------------------------------------------------------------
(* Types.                                                                  *)

LEMMA ListedTyped == SnapTyped => Listed \in Seq(1..snaps)
<1> SUFFICES ASSUME SnapTyped PROVE Listed \in Seq(1..snaps)
  OBVIOUS
<1>1. CASE index = Torn
  BY <1>1 DEF Listed
<1>2. CASE index # Torn
  BY <1>2 DEF Listed, SnapTyped
<1> QED BY <1>1, <1>2

\* A move of actor a to a place it may be at.
Fine(a, pc, id, seen, then, extra) ==
    /\ Moves(a, pc, id, seen, then, extra)
    /\ IF a = Ui THEN /\ pc \in UiPcs
                      /\ pc \in {"truncate", "write"} => then = "cleared"
                 ELSE /\ pc \in TurnPcs
                      /\ pc \in {"truncate", "write"} => then \in {"prune", "taken"}
                      /\ pc = "push" => id # Nobody
    /\ id \in 0..snaps' /\ seen \in Seq(1..snaps') /\ then \in Thens /\ extra \in SUBSET Files

LEMMA FineTyped ==
    ASSUME SnapTyped, \A b \in Actors : PcOk(b), NEW a \in Actors,
           snaps' \in Nat, snaps <= snaps',
           \E pc, id, seen, then, extra : Fine(a, pc, id, seen, then, extra)
    PROVE  task' \in [Actors -> TaskRecords(snaps')] /\ \A b \in Actors : PcOk(b)'
<1>1. PICK pc, id, seen, then, extra : Fine(a, pc, id, seen, then, extra)
  OBVIOUS
<1>2. snaps \in Nat /\ task \in [Actors -> TaskRecords(snaps)]
  BY SnapshotsAssumption DEF SnapTyped
<1>3. /\ task'[a].pc = pc /\ task'[a].then = then /\ task'[a].id = id
      /\ \A b \in Actors \ {a} : task'[b] = task[b]
      /\ task' \in [Actors -> TaskRecords(snaps')]
  BY <1>1, <1>2, MovesFacts DEF Fine
<1>4. PcOk(a)'
  BY <1>1, <1>3 DEF Fine, PcOk
<1>5. \A b \in Actors \ {a} : PcOk(b)'
  BY <1>3 DEF PcOk
<1> QED BY <1>3, <1>4, <1>5

\* The fields of a task are of their types.
LEMMA TaskFields ==
    ASSUME SnapTyped, NEW a \in Actors
    PROVE  /\ task[a].pc \in TurnPcs \union UiPcs /\ task[a].id \in 0..snaps
           /\ task[a].seen \in Seq(1..snaps) /\ task[a].then \in Thens
           /\ task[a].extra \in SUBSET Files
           /\ snaps \in Nat
BY SnapshotsAssumption DEF SnapTyped, TaskRecords

LEMMA MoveTo ==
    ASSUME SnapTyped, NEW a \in Actors, NEW pc, Goto(a, [pc |-> pc]), snaps' = snaps,
           IF a = Ui THEN /\ pc \in UiPcs
                          /\ pc \in {"truncate", "write"} => task[a].then = "cleared"
                     ELSE /\ pc \in TurnPcs \ {"push"}
                          /\ pc \in {"truncate", "write"} => task[a].then \in {"prune", "taken"}
    PROVE  \E p, id, seen, then, extra : Fine(a, p, id, seen, then, extra)
<1>1. MovesTo(a, pc)
  BY Gone DEF SnapTyped
<1>2. Fine(a, pc, task[a].id, task[a].seen, task[a].then, task[a].extra)
  BY <1>1, TaskFields DEF Fine, MovesTo
<1> QED BY <1>2

LEMMA MoveToFailed ==
    ASSUME SnapTyped, NEW a \in Actors, Goto(a, [pc |-> "failed", id |-> Nobody]), snaps' = snaps
    PROVE  Fine(a, "failed", Nobody, task[a].seen, task[a].then, task[a].extra)
<1>1. Moves(a, "failed", Nobody, task[a].seen, task[a].then, task[a].extra)
  BY Gone DEF SnapTyped
<1> QED BY <1>1, TaskFields DEF Fine, TurnPcs, UiPcs, Nobody

\* The removal of archives leaves a function of the ids behind.
LEMMA Removed ==
    ASSUME SnapTyped, NEW n, RemoveArchives(n)
    PROVE  /\ archives' = [i \in Ids |-> archives'[i]]
           /\ \A i \in Ids : \/ archives'[i] = archives[i]
                            \/ /\ backend = "tar" /\ archives'[i] = Absent
                               /\ i \in {Listed[k] : k \in 1..n}
BY DEF RemoveArchives, SnapTyped

LEMMA SnapshotTyped ==
    ASSUME SnapTyped, \A b \in Actors : PcOk(b), NEW a \in Actors, SnapshotStep(a)
    PROVE  SnapTyped' /\ \A b \in Actors : PcOk(b)'
<1> DEFINE Good == SnapTyped' /\ \A b \in Actors : PcOk(b)'
<1>1. /\ snaps \in Nat /\ snaps <= MaxSnaps /\ task \in [Actors -> TaskRecords(snaps)] /\ PcOk(a)
      /\ Listed \in Seq(1..snaps)
  BY TaskFields, ListedTyped DEF SnapTyped
<1>2. task[a].id \in 0..snaps /\ task[a].seen \in Seq(1..snaps)
      /\ task[a].then \in Thens /\ task[a].extra \in SUBSET Files
  BY TaskFields
<1>3. CASE Truncate(a)
  <2>1. \E p, id, seen, then, extra : Fine(a, p, id, seen, then, extra)
    <3>1. CASE Goto(a, [pc |-> "write"])
      BY <1>1, <1>3, <3>1, MoveTo DEF Truncate, At, PcOk, TurnPcs, UiPcs
    <3>2. CASE Goto(a, [pc |-> "failed", id |-> Nobody])
      BY <1>3, <3>2, MoveToFailed DEF Truncate
    <3> QED BY <1>3, <3>1, <3>2 DEF Truncate
  <2> QED BY <1>1, <1>3, <2>1, FineTyped DEF Truncate, SnapTyped
<1>4. CASE Write(a)
  <2>1. IF a = Ui THEN task[a].then = "cleared" ELSE task[a].then \in {"prune", "taken"}
    BY <1>1, <1>4 DEF Write, At, PcOk, TurnPcs, UiPcs
  <2>2. CASE Goto(a, [pc |-> task[a].then]) /\ index' = task[a].seen
    <3>1. \E p, id, seen, then, extra : Fine(a, p, id, seen, then, extra)
      BY <1>1, <1>4, <2>1, <2>2, MoveTo DEF Write, TurnPcs, UiPcs
    <3> QED BY <1>1, <1>2, <1>4, <2>2, <3>1, FineTyped DEF Write, SnapTyped
  <2>3. CASE Goto(a, [pc |-> "failed", id |-> Nobody]) /\ index' = index
    <3>1. snaps' = snaps
      BY <1>4 DEF Write
    <3>2. task' \in [Actors -> TaskRecords(snaps')] /\ \A b \in Actors : PcOk(b)'
      BY <1>1, <2>3, <3>1, MoveToFailed, FineTyped
    <3> QED BY <1>1, <1>4, <2>3, <3>1, <3>2 DEF Write, SnapTyped
  <2> QED BY <1>4, <2>2, <2>3 DEF Write
<1>5. CASE Capture(a)
  <2>1. a # Ui
    BY <1>1, <1>5 DEF Capture, At, PcOk, UiPcs
  <2>2. CASE TooLarge(ws)
    <3>1. Moves(a, "taken", Nobody, task[a].seen, task[a].then, task[a].extra)
      BY <1>1, <1>5, <2>2, Gone DEF Capture
    <3>2. snaps' = snaps
      BY <1>5, <2>2 DEF Capture
    <3>3. Fine(a, "taken", Nobody, task[a].seen, task[a].then, task[a].extra)
      BY <1>1, <1>2, <2>1, <3>1, <3>2 DEF Fine, TurnPcs, Nobody
    <3> QED BY <1>1, <1>5, <2>2, <3>2, <3>3, FineTyped DEF Capture, SnapTyped
  <2>3. CASE ~TooLarge(ws)
    <3>1. snaps < MaxSnaps /\ snaps' = snaps + 1
      BY <1>5, <2>3 DEF Capture
    <3>2. 1..snaps \subseteq 1..snaps'
      BY <1>1, <3>1
    <3>3. Seq(1..snaps) \subseteq Seq(1..snaps')
      BY <3>2, SeqMonotonic
    <3>4. \E p, id, seen, then, extra : Fine(a, p, id, seen, then, extra)
      <4>1. CASE Goto(a, [pc |-> "push", id |-> snaps + 1])
        <5>1. Moves(a, "push", snaps + 1, task[a].seen, task[a].then, task[a].extra)
          BY <1>1, <4>1, Gone
        <5>2. Fine(a, "push", snaps + 1, task[a].seen, task[a].then, task[a].extra)
          BY <1>1, <1>2, <2>1, <3>1, <3>3, <5>1 DEF Fine, TurnPcs, Nobody
        <5> QED BY <5>2
      <4>2. CASE Goto(a, [pc |-> "failed", id |-> Nobody])
        <5>1. Fine(a, "failed", Nobody, task[a].seen, task[a].then, task[a].extra)
          BY <1>1, <1>2, <2>1, <3>1, <3>3, <4>2, Gone DEF Fine, TurnPcs, Nobody
        <5> QED BY <5>1
      <4> QED BY <1>5, <2>3, <4>1, <4>2 DEF Capture
    <3>5. task' \in [Actors -> TaskRecords(snaps')] /\ \A b \in Actors : PcOk(b)'
      BY <1>1, <3>1, <3>4, FineTyped
    <3>6. archives' = [i \in Ids |-> archives'[i]] /\ taken' = [i \in Ids |-> taken'[i]]
      BY <1>5, <2>3 DEF Capture, SnapTyped
    <3>7. /\ backend' \in {"git", "tar"} /\ ws' = [f \in Files |-> ws'[f]]
          /\ index' = Torn \/ index' \in Seq(1..snaps')
      BY <1>5, <3>3 DEF Capture, SnapTyped
    <3> QED BY <1>1, <3>1, <3>5, <3>6, <3>7, SnapshotsAssumption DEF SnapTyped
  <2> QED BY <2>2, <2>3
<1>6. CASE Push(a)
  <2>1. a # Ui
    BY <1>1, <1>6 DEF Push, At, PcOk, UiPcs
  <2>2. snaps' = snaps
    BY <1>6 DEF Push
  <2>3. task[a].id \in 1..snaps
    BY <1>1, <1>2, <1>6, <2>1 DEF Push, At, PcOk, Nobody
  <2>4. Append(Listed, task[a].id) \in Seq(1..snaps)
    BY <1>1, <2>3
  <2>5. Moves(a, "truncate", task[a].id, Append(Listed, task[a].id), "prune", task[a].extra)
    BY <1>1, <1>6, Gone DEF Push
  <2>6. Fine(a, "truncate", task[a].id, Append(Listed, task[a].id), "prune", task[a].extra)
    BY <1>1, <1>2, <2>1, <2>2, <2>4, <2>5 DEF Fine, TurnPcs, Thens
  <2>7. task' \in [Actors -> TaskRecords(snaps')] /\ \A b \in Actors : PcOk(b)'
    BY <1>1, <2>2, <2>6, FineTyped
  <2> QED BY <1>1, <1>6, <2>2, <2>7 DEF Push, SnapTyped
<1>7. CASE Prune(a)
  <2>1. a # Ui
    BY <1>1, <1>7 DEF Prune, At, PcOk, UiPcs
  <2>2. snaps' = snaps
    BY <1>7 DEF Prune
  <2>3. CASE Len(Listed) <= Retain
    <3>1. \E p, id, seen, then, extra : Fine(a, p, id, seen, then, extra)
      BY <1>1, <1>7, <2>1, <2>2, <2>3, MoveTo DEF Prune, TurnPcs
    <3>2. task' \in [Actors -> TaskRecords(snaps')] /\ \A b \in Actors : PcOk(b)'
      BY <1>1, <2>2, <3>1, FineTyped
    <3> QED BY <1>1, <1>7, <2>2, <2>3, <3>2 DEF Prune, SnapTyped
  <2>4. CASE Len(Listed) > Retain
    <3> DEFINE rest == SubSeq(Listed, Len(Listed) - Retain + 1, Len(Listed))
    <3>1. rest \in Seq(1..snaps)
      <4>1. Len(Listed) - Retain + 1 \in 1..(Len(Listed) + 1)
        BY <1>1, <2>4, SnapshotsAssumption
      <4> QED BY <1>1, <4>1, SubSeqProperties
    <3>2. Goto(a, [pc |-> "truncate", seen |-> rest, then |-> "taken"])
      BY <1>1, <1>7, <2>4, SnapshotsAssumption DEF Prune
    <3> HIDE DEF rest
    <3>3. Moves(a, "truncate", task[a].id, rest, "taken", task[a].extra)
      BY <1>1, <3>2, Gone
    <3>4. Fine(a, "truncate", task[a].id, rest, "taken", task[a].extra)
      BY <1>1, <1>2, <2>1, <2>2, <3>1, <3>3 DEF Fine, TurnPcs, Thens
    <3>5. archives' = [i \in Ids |-> archives'[i]]
      BY <1>1, <1>7, <2>4, Removed, SnapshotsAssumption DEF Prune
    <3> QED BY <1>1, <1>7, <2>2, <3>4, <3>5, FineTyped DEF Prune, SnapTyped
  <2> QED BY <1>1, <2>3, <2>4, SnapshotsAssumption
<1>8. CASE Unpack(a)
  <2>1. a = Ui
    BY <1>1, <1>8 DEF Unpack, At, PcOk, TurnPcs
  <2>2. \E p, id, seen, then, extra : Fine(a, p, id, seen, then, extra)
    BY <1>1, <1>8, <2>1, MoveTo DEF Unpack, UiPcs
  <2>3. task' \in [Actors -> TaskRecords(snaps')] /\ \A b \in Actors : PcOk(b)'
    BY <1>1, <1>8, <2>2, FineTyped DEF Unpack
  <2>4. ws' = [f \in Files |-> ws'[f]]
    BY <1>8 DEF Unpack, SnapTyped
  <2>5. UNCHANGED <<backend, archives, index, snaps, taken>>
    BY <1>8 DEF Unpack
  <2> QED BY <2>3, <2>4, <2>5 DEF SnapTyped
<1>9. CASE Discard(a)
  <2>1. a = Ui
    BY <1>1, <1>9 DEF Discard, At, PcOk, TurnPcs
  <2>2. PICK kept \in SUBSET task[a].extra :
           /\ ws' = TreeWithout(ws, task[a].extra \ kept)
           /\ Goto(a, [pc |-> "rewound", extra |-> kept])
    BY <1>9 DEF Discard
  <2>3. UNCHANGED <<backend, archives, index, snaps, taken>>
    BY <1>9 DEF Discard
  <2>4. Moves(a, "rewound", task[a].id, task[a].seen, task[a].then, kept)
    BY <1>1, <2>2, Gone
  <2>5. kept \in SUBSET Files
    BY <1>2
  <2>6. Fine(a, "rewound", task[a].id, task[a].seen, task[a].then, kept)
    BY <1>1, <1>2, <2>1, <2>3, <2>4, <2>5 DEF Fine, UiPcs
  <2>7. task' \in [Actors -> TaskRecords(snaps')] /\ \A b \in Actors : PcOk(b)'
    BY <1>1, <2>3, <2>6, FineTyped
  <2>8. ws' = [f \in Files |-> ws'[f]]
    BY <2>2 DEF TreeWithout
  <2> QED BY <2>3, <2>7, <2>8 DEF SnapTyped
<1> QED BY <1>3, <1>4, <1>5, <1>6, <1>7, <1>8, <1>9 DEF SnapshotStep

LEMMA RestoreTyped ==
    ASSUME SnapTyped, \A b \in Actors : PcOk(b), NEW id \in Ids, RestoreBegin(Ui, id)
    PROVE  /\ SnapTyped' /\ \A b \in Actors : PcOk(b)'
           /\ id \in 1..snaps
           /\ \E extra : Moves(Ui, "unpack", id, task[Ui].seen, task[Ui].then, extra)
<1>1. /\ snaps \in Nat /\ task \in [Actors -> TaskRecords(snaps)] /\ Ui \in Actors
      /\ Listed \in Seq(1..snaps) /\ snaps' = snaps
  BY TaskFields, ListedTyped, WorkspaceAssumption DEF SnapTyped, RestoreBegin
<1>2. /\ task[Ui].seen \in Seq(1..snaps) /\ task[Ui].then \in Thens
      /\ task[Ui].extra \in SUBSET Files
  BY <1>1, TaskFields
<1>3. id \in 1..snaps
  BY <1>1 DEF RestoreBegin
<1>4. PICK extra \in SUBSET Files : Moves(Ui, "unpack", id, task[Ui].seen, task[Ui].then, extra)
  <2>1. CASE backend = "tar"
    <3>1. PICK kept \in SUBSET Included(ws) :
             Goto(Ui, [pc |-> "unpack", id |-> id, extra |-> kept])
      BY <2>1 DEF RestoreBegin
    <3>2. kept \in SUBSET Files
      BY DEF Included, Present
    <3> QED BY <1>1, <3>1, <3>2, Gone
  <2>2. CASE backend # "tar"
    <3>1. PICK extra \in ReportedAdded(archives[id], ws) :
             Goto(Ui, [pc |-> "unpack", id |-> id, extra |-> extra])
      BY <2>2 DEF RestoreBegin
    <3>2. extra \in SUBSET Files
      BY <3>1 DEF ReportedAdded, Included, Present
    <3> QED BY <1>1, <3>1, <3>2, Gone
  <2> QED BY <2>1, <2>2
<1>5. Fine(Ui, "unpack", id, task[Ui].seen, task[Ui].then, extra)
  BY <1>1, <1>2, <1>3, <1>4 DEF Fine, UiPcs
<1>6. task' \in [Actors -> TaskRecords(snaps')] /\ \A b \in Actors : PcOk(b)'
  BY <1>1, <1>5, FineTyped
<1>7. ws' = [f \in Files |-> ws'[f]]
  BY DEF RestoreBegin, TreeWithout, SnapTyped
<1>8. SnapTyped'
  BY <1>1, <1>6, <1>7 DEF RestoreBegin, SnapTyped
<1> QED BY <1>3, <1>4, <1>6, <1>8

LEMMA ClearTyped ==
    ASSUME SnapTyped, \A b \in Actors : PcOk(b), Clear(Ui)
    PROVE  /\ SnapTyped' /\ \A b \in Actors : PcOk(b)'
           /\ Moves(Ui, "truncate", task[Ui].id, <<>>, "cleared", task[Ui].extra)
<1>1. /\ snaps \in Nat /\ task \in [Actors -> TaskRecords(snaps)] /\ Ui \in Actors
      /\ snaps' = snaps
  BY TaskFields, WorkspaceAssumption DEF SnapTyped, Clear
<1>2. task[Ui].id \in 0..snaps /\ task[Ui].extra \in SUBSET Files /\ <<>> \in Seq(1..snaps)
  BY <1>1, TaskFields
<1>3. Moves(Ui, "truncate", task[Ui].id, <<>>, "cleared", task[Ui].extra)
  BY <1>1, Gone DEF Clear
<1>4. Fine(Ui, "truncate", task[Ui].id, <<>>, "cleared", task[Ui].extra)
  BY <1>1, <1>2, <1>3 DEF Fine, UiPcs, Thens
<1>5. task' \in [Actors -> TaskRecords(snaps')] /\ \A b \in Actors : PcOk(b)'
  BY <1>1, <1>4, FineTyped
<1>6. archives' = [i \in Ids |-> archives'[i]]
  BY Removed DEF Clear
<1> QED BY <1>1, <1>3, <1>5, <1>6 DEF Clear, SnapTyped

LEMMA ReportTyped ==
    ASSUME TypeInv, NEW a \in Actors, Report(a)
    PROVE  TypeInv' /\ Moves(a, "idle", Nobody, <<>>, "idle", {})
<1>1. /\ snaps \in Nat /\ task \in [Actors -> TaskRecords(snaps)] /\ snaps' = snaps
  BY TaskFields DEF TypeInv, SnapTyped, Report, diskVars, storeVars
<1>2. Moves(a, "idle", Nobody, <<>>, "idle", {})
  BY <1>1, Gone DEF Report
<1>3. Fine(a, "idle", Nobody, <<>>, "idle", {})
  BY <1>1, <1>2 DEF Fine, UiPcs, TurnPcs, Thens, Nobody
<1>4. task' \in [Actors -> TaskRecords(snaps')] /\ \A b \in Actors : PcOk(b)'
  BY <1>1, <1>3, FineTyped DEF TypeInv
<1>5. SnapTyped'
  BY <1>1, <1>4 DEF TypeInv, SnapTyped, Report, diskVars, storeVars
<1>6. CallTyped'
  <2>1. CASE a \in Turns
    <3>1. /\ DOMAIN call' = Turns /\ changes' = [t \in Turns |-> changes'[t]]
          /\ clean' = [t \in Turns |-> clean'[t]] /\ left' = left
      BY <2>1 DEF TypeInv, CallTyped, Report
    <3>2. next' \in [Turns -> Nat \ {0}]
      BY <2>1 DEF TypeInv, CallTyped, Report
    <3> QED BY <3>1, <3>2 DEF TypeInv, CallTyped
  <2>2. CASE a \notin Turns
    BY <2>2 DEF TypeInv, CallTyped, Report, callVars
  <2> QED BY <2>1, <2>2
<1> QED BY <1>2, <1>4, <1>5, <1>6 DEF TypeInv

\* The steps of a call that are not steps of its snapshot, as moves.
LEMMA CallTypedStep ==
    ASSUME TypeInv, NEW t \in Turns,
           BeginCall(t) \/ Gate(t) \/ RunShell(t) \/ Plan(t) \/ Execute(t) \/ Applied(t) \/ Undo(t)
    PROVE  TypeInv' /\ UNCHANGED storeVars
<1>1. /\ snaps \in Nat /\ task \in [Actors -> TaskRecords(snaps)] /\ t \in Actors /\ t # Ui
      /\ SnapTyped /\ CallTyped /\ PcOk(t) /\ \A b \in Actors : PcOk(b)
  BY TaskFields, WorkspaceAssumption DEF TypeInv, SnapTyped
<1>2. UNCHANGED storeVars
  BY DEF BeginCall, Gate, RunShell, Plan, Execute, Applied, Undo, diskVars
<1>3. snaps' = snaps
  BY <1>2 DEF storeVars
<1>4. \/ \E pc \in TurnPcs \ {"push", "truncate", "write"} : Goto(t, [pc |-> pc])
      \/ UNCHANGED task
  BY DEF BeginCall, Gate, RunShell, Plan, Execute, Applied, Undo, TurnPcs
<1>5. task' \in [Actors -> TaskRecords(snaps')] /\ \A b \in Actors : PcOk(b)'
  <2>1. CASE \E pc \in TurnPcs \ {"push", "truncate", "write"} : Goto(t, [pc |-> pc])
    <3>1. \E p, id, seen, then, extra : Fine(t, p, id, seen, then, extra)
      BY <1>1, <1>3, <2>1, MoveTo
    <3> QED BY <1>1, <1>3, <3>1, FineTyped
  <2>2. CASE UNCHANGED task
    BY <1>1, <1>3, <2>2 DEF PcOk
  <2> QED BY <1>4, <2>1, <2>2
<1>6. ws' = [f \in Files |-> ws'[f]]
  <2>1. \/ ws' = ws
        \/ \E file, text : Set(file, text)
    BY DEF BeginCall, Gate, RunShell, Plan, Execute, Applied, Undo
  <2> QED BY <1>1, <2>1 DEF SnapTyped, Set
<1>7. SnapTyped'
  BY <1>1, <1>2, <1>5, <1>6 DEF SnapTyped, storeVars
<1>8. CallTyped'
  <2>1. CASE BeginCall(t)
    BY <1>1, <2>1 DEF BeginCall, CallTyped
  <2>2. CASE Gate(t) \/ RunShell(t) \/ Applied(t)
    BY <1>1, <2>2 DEF Gate, RunShell, Applied, CallTyped, callVars
  <2>3. CASE Plan(t)
    BY <1>1, <2>3 DEF Plan, CallTyped
  <2>4. CASE Execute(t)
    <3>1. /\ UNCHANGED <<call, changes, left>>
          /\ clean' = [u \in Turns |-> clean'[u]]
      BY <1>1, <2>4 DEF Execute, CallTyped
    <3>2. next' = next \/ next' = [next EXCEPT ![t] = @ + 1]
      BY <2>4 DEF Execute
    <3>3. next' \in [Turns -> Nat \ {0}]
      BY <1>1, <3>2 DEF CallTyped
    <3> QED BY <1>1, <3>1, <3>3 DEF CallTyped
  <2>5. CASE Undo(t)
    <3>1. /\ UNCHANGED <<call, changes, left>>
          /\ clean' = [u \in Turns |-> clean'[u]]
      BY <1>1, <2>5 DEF Undo, CallTyped
    <3>2. next' = next \/ (next[t] # 1 /\ next' = [next EXCEPT ![t] = @ - 1])
      BY <2>5 DEF Undo
    <3>3. next' \in [Turns -> Nat \ {0}]
      BY <1>1, <3>2 DEF CallTyped
    <3> QED BY <1>1, <3>1, <3>3 DEF CallTyped
  <2> QED BY <2>1, <2>2, <2>3, <2>4, <2>5
<1> QED BY <1>2, <1>5, <1>7, <1>8 DEF TypeInv

LEMMA TypeInit == Init => TypeInv
<1> SUFFICES ASSUME Init PROVE TypeInv
  OBVIOUS
<1>1. Idle \in TaskRecords(0)
  BY DEF Idle, TaskRecords, TurnPcs, Thens, Nobody
<1>2. /\ Idle.pc = "idle" /\ Idle.id = Nobody
  BY DEF Idle
<1>3. task \in [Actors -> TaskRecords(snaps)] /\ \A a \in Actors : task[a] = Idle
  BY <1>1 DEF Init, SnapInit
<1>4. ws \in Trees /\ snaps = 0 /\ backend \in {"git", "tar"}
  BY SnapshotsAssumption DEF Init, SnapInit
<1>5. SnapTyped
  BY <1>3, <1>4, SnapshotsAssumption DEF Init, SnapInit, SnapTyped, Trees
<1>6. CallTyped
  BY WorkspaceAssumption DEF Init, CallTyped
<1>7. \A a \in Actors : PcOk(a)
  BY <1>2, <1>3 DEF PcOk, UiPcs, TurnPcs
<1> QED BY <1>5, <1>6, <1>7 DEF TypeInv

LEMMA TypeStep == TypeInv /\ [Next]_vars => TypeInv'
<1> SUFFICES ASSUME TypeInv, [Next]_vars PROVE TypeInv'
  OBVIOUS
<1>1. Ui \in Actors /\ (\A t \in Turns : t \in Actors) /\ SnapTyped /\ CallTyped
      /\ \A b \in Actors : PcOk(b)
  BY WorkspaceAssumption DEF TypeInv
<1>2. ASSUME NEW a \in Actors, SnapshotStep(a), UNCHANGED <<callVars, left>>
      PROVE  TypeInv'
  BY <1>1, <1>2, SnapshotTyped DEF TypeInv, CallTyped, callVars
<1>3. ASSUME NEW t \in Turns, TurnStep(t) PROVE TypeInv'
  BY <1>1, <1>2, <1>3, CallTypedStep, ReportTyped DEF TurnStep
<1>4. ASSUME Happens PROVE left' \in [calls : Nat, events : Nat] /\ left'.events <= MaxEvents
  BY <1>1, <1>4, WorkspaceAssumption DEF Happens, CallTyped
<1>5. CASE UiStep
  <2>1. CASE Happens /\ Clear(Ui) /\ UNCHANGED callVars
    BY <1>1, <1>4, <2>1, ClearTyped DEF TypeInv, CallTyped, callVars
  <2>2. CASE Happens /\ (\E id \in Ids : RestoreBegin(Ui, id)) /\ UNCHANGED callVars
    BY <1>1, <1>4, <2>2, RestoreTyped DEF TypeInv, CallTyped, callVars
  <2> QED BY <1>1, <1>2, <1>5, <2>1, <2>2, ReportTyped DEF UiStep
<1>6. CASE UserEdit
  <2>1. UNCHANGED <<storeVars, task, callVars>>
    BY <1>6 DEF UserEdit, diskVars
  <2>2. ws' = [f \in Files |-> ws'[f]]
    BY <1>1, <1>6 DEF UserEdit, SnapTyped, Set
  <2>3. SnapTyped' /\ \A b \in Actors : PcOk(b)'
    BY <1>1, <2>1, <2>2 DEF SnapTyped, storeVars, PcOk
  <2>4. CallTyped'
    BY <1>1, <1>4, <1>6, <2>1 DEF UserEdit, CallTyped, callVars
  <2> QED BY <2>3, <2>4 DEF TypeInv
<1>7. CASE Crash
  <2>1. Idle \in TaskRecords(0) /\ Idle.pc = "idle"
    BY DEF Idle, TaskRecords, TurnPcs, Thens, Nobody
  <2>2. snaps \in Nat /\ UNCHANGED <<storeVars, ws>>
    BY <1>1, <1>7, SnapshotsAssumption DEF Crash, diskVars, SnapTyped
  <2>3. Idle \in TaskRecords(snaps)
    BY <2>1, <2>2, Unmoved
  <2>4. task' \in [Actors -> TaskRecords(snaps)] /\ \A a \in Actors : task'[a] = Idle
    BY <1>7, <2>3 DEF Crash
  <2>5. SnapTyped'
    BY <1>1, <2>2, <2>4 DEF SnapTyped, storeVars
  <2>6. \A b \in Actors : PcOk(b)'
    BY <2>1, <2>4 DEF PcOk, UiPcs, TurnPcs
  <2>7. CallTyped'
    BY <1>4, <1>7 DEF Crash, CallTyped
  <2> QED BY <2>5, <2>6, <2>7 DEF TypeInv
<1>8. CASE UNCHANGED vars
  BY <1>1, <1>8 DEF vars, snapVars, callVars, TypeInv, SnapTyped, CallTyped, PcOk
<1> QED BY <1>3, <1>5, <1>6, <1>7, <1>8 DEF Next

-----------------------------------------------------------------------------
(* The store of snapshots.                                                 *)

\* Nothing becomes of a snapshot but what it captured, or its loss.
StoreSteps ==
    /\ backend' = backend /\ snaps' \in Nat /\ snaps <= snaps'
    /\ \A id \in 1..snaps :
          /\ taken'[id] = taken[id]
          /\ archives'[id] = archives[id] \/ (backend = "tar" /\ archives'[id] = Absent)

ArchInv ==
    \A id \in Ids : archives[id] \notin {Absent, Torn} =>
        id <= snaps /\ archives[id] = Captured(taken[id])

Emptied(tree, kept) == TreeWithout(tree, Included(tree) \ kept)
Unpacked(archive, tree) == [f \in Files |-> IF archive[f] # Absent THEN archive[f] ELSE tree[f]]

LEMMA SameCapture ==
    ASSUME backend' = backend
    PROVE  /\ \A tree : Captured(tree)' = Captured(tree) /\ Included(tree)' = Included(tree)
           /\ \A tree : Ignored(tree)' = Ignored(tree)
           /\ \A tree, kept : Emptied(tree, kept)' = Emptied(tree, kept)
           /\ \A old, new : ReportedAdded(old, new)' = ReportedAdded(old, new)
<1>1. \A tree : Included(tree)' = Included(tree) /\ Ignored(tree)' = Ignored(tree)
  BY DEF Included, Ignored, Present
<1>2. \A tree : Captured(tree)' = Captured(tree)
  BY <1>1 DEF Captured
<1>3. \A old, new : ReportedAdded(old, new)' = ReportedAdded(old, new)
  BY <1>1 DEF ReportedAdded
<1>4. \A tree, kept : Emptied(tree, kept)' = Emptied(tree, kept)
  BY <1>1 DEF Emptied, TreeWithout
<1> QED BY <1>1, <1>2, <1>3, <1>4

LEMMA ArchInit == Init => ArchInv
BY DEF Init, SnapInit, ArchInv

LEMMA StoreStep ==
    ASSUME TypeInv, ArchInv, [Next]_vars
    PROVE  StoreSteps /\ ArchInv'
<1>1. /\ snaps \in Nat /\ snaps <= MaxSnaps /\ MaxSnaps \in Nat
      /\ archives = [i \in Ids |-> archives[i]] /\ taken = [i \in Ids |-> taken[i]]
  BY SnapshotsAssumption DEF TypeInv, SnapTyped
<1>2. CASE /\ UNCHANGED <<backend, taken, snaps>>
           /\ \A id \in Ids : \/ archives'[id] = archives[id]
                              \/ backend = "tar" /\ archives'[id] = Absent
  <2>1. 1..snaps \subseteq Ids
    BY <1>1 DEF Ids
  <2>2. ArchInv'
    BY <1>2, SameCapture DEF ArchInv
  <2> QED BY <1>1, <1>2, <2>1, <2>2 DEF StoreSteps
<1>3. ASSUME NEW a \in Actors, Capture(a) PROVE StoreSteps /\ ArchInv'
  <2>1. CASE TooLarge(ws)
    BY <1>2, <1>3, <2>1 DEF Capture
  <2>2. CASE ~TooLarge(ws)
    <3>1. /\ snaps' = snaps + 1 /\ snaps < MaxSnaps /\ backend' = backend
          /\ taken' = [taken EXCEPT ![snaps + 1] = ws]
      BY <1>3, <2>2 DEF Capture
    <3>2. PICK x : /\ archives' = [archives EXCEPT ![snaps + 1] = x]
                   /\ x \in {Captured(ws), Torn, Absent}
      BY <1>3, <2>2 DEF Capture
    <3>3. snaps + 1 \in Ids
      BY <1>1, <3>1 DEF Ids
    <3>4. /\ taken'[snaps + 1] = ws /\ archives'[snaps + 1] = x
          /\ \A id \in Ids \ {snaps + 1} : taken'[id] = taken[id] /\ archives'[id] = archives[id]
      BY <1>1, <3>1, <3>2, <3>3
    <3>5. StoreSteps
      BY <1>1, <3>1, <3>4 DEF StoreSteps, Ids
    <3>6. ArchInv'
      <4> SUFFICES ASSUME NEW id \in Ids, archives'[id] \notin {Absent, Torn}
                   PROVE  id <= snaps' /\ archives'[id] = Captured(taken'[id])
        BY <3>1, SameCapture DEF ArchInv
      <4>1. CASE id = snaps + 1
        BY <1>1, <3>1, <3>2, <3>4, <4>1
      <4>2. CASE id # snaps + 1
        BY <1>1, <3>1, <3>4, <4>2 DEF ArchInv, Ids
      <4> QED BY <4>1, <4>2
    <3> QED BY <3>5, <3>6
  <2> QED BY <2>1, <2>2
<1>4. ASSUME NEW a \in Actors, SnapshotStep(a) PROVE StoreSteps /\ ArchInv'
  <2>1. CASE Prune(a)
    <3>1. UNCHANGED <<backend, taken, snaps>>
      BY <2>1 DEF Prune
    <3>2. archives' = archives \/ \E n : RemoveArchives(n)
      BY <2>1 DEF Prune
    <3> QED BY <1>2, <3>1, <3>2, Removed DEF TypeInv
  <2>2. CASE Truncate(a) \/ Write(a) \/ Push(a) \/ Unpack(a) \/ Discard(a)
    BY <1>2, <2>2 DEF Truncate, Write, Push, Unpack, Discard
  <2> QED BY <1>3, <1>4, <2>1, <2>2 DEF SnapshotStep
<1>5. CASE UNCHANGED storeVars
  BY <1>2, <1>5 DEF storeVars
<1>6. ASSUME NEW t \in Turns, TurnStep(t) PROVE StoreSteps /\ ArchInv'
  <2>1. t \in Actors
    BY WorkspaceAssumption
  <2> QED BY <1>4, <1>5, <1>6, <2>1, CallTypedStep DEF TurnStep, Report, diskVars
<1>7. CASE UiStep
  <2>1. CASE Clear(Ui)
    BY <1>2, <2>1, Removed DEF Clear, TypeInv
  <2>2. CASE \E id \in Ids : RestoreBegin(Ui, id)
    BY <1>2, <2>2 DEF RestoreBegin
  <2> QED BY <1>4, <1>5, <1>7, <2>1, <2>2, WorkspaceAssumption DEF UiStep, Report, diskVars
<1>8. CASE UserEdit \/ Crash \/ UNCHANGED vars
  BY <1>5, <1>8 DEF UserEdit, Crash, diskVars, vars, snapVars, storeVars
<1> QED BY <1>6, <1>7, <1>8 DEF Next

-----------------------------------------------------------------------------
(* Rewinding.                                                              *)

\* A rewind that nobody disturbs has the workspace it began with in hand, emptied as
\* far as that went or not, then that with the archive over it.
Unpacking ==
    task[Ui].pc = "unpack" /\ alone[Ui] =>
        \/ /\ backend = "tar" /\ ws = Emptied(start[Ui], task[Ui].extra)
           /\ task[Ui].extra \subseteq Included(start[Ui])
        \/ /\ backend = "git" /\ ws = start[Ui]
           /\ task[Ui].extra \in ReportedAdded(archives[task[Ui].id], start[Ui])

Discarding ==
    task[Ui].pc = "discard" /\ alone[Ui] =>
        /\ backend = "git"
        /\ ws = Unpacked(Captured(taken[task[Ui].id]), start[Ui])
        /\ task[Ui].extra \in ReportedAdded(Captured(taken[task[Ui].id]), start[Ui])

RewindInv ==
    /\ task[Ui].pc \in {"unpack", "discard", "rewound"} => task[Ui].id \in 1..snaps
    /\ Unpacking
    /\ Discarding
    /\ RestoreRewinds

\* What a rewind comes to that could not remove the files kept.
Rewound(then, now, after, kept) ==
    \A f \in Files :
        /\ f \in Included(then) => after[f] = then[f]
        /\ f \in Ignored(then) \intersect Ignored(now) => after[f] = now[f]
        /\ f \notin Present(then) \union Ignored(now) =>
              \/ after[f] = Absent
              \/ f \in kept
              \/ backend = "git" /\ \E g \in Present(then) \ Included(now) : then[g] = now[f]

LEMMA CapturedFacts ==
    ASSUME NEW tree
    PROVE  /\ Present(Captured(tree)) = Included(tree)
           /\ \A f \in Files : Captured(tree)[f] = IF f \in Included(tree) THEN tree[f] ELSE Absent
BY DEF Captured, Included, Present

LEMMA TarRewinds ==
    ASSUME NEW then, NEW now, NEW kept
    PROVE  Rewound(then, now, Unpacked(Captured(then), Emptied(now, kept)), kept)
<1> DEFINE after == Unpacked(Captured(then), Emptied(now, kept))
<1>1. ASSUME NEW f \in Files
      PROVE  after[f] = IF f \in Included(then) THEN then[f]
                        ELSE IF f \in Included(now) \ kept THEN Absent ELSE now[f]
  <2>1. f \in Included(then) => then[f] # Absent
    BY DEF Included, Present
  <2> QED BY <2>1, CapturedFacts DEF Unpacked, Emptied, TreeWithout
<1> HIDE DEF after
<1> SUFFICES ASSUME NEW f \in Files
             PROVE  /\ f \in Included(then) => after[f] = then[f]
                    /\ f \in Ignored(then) \intersect Ignored(now) => after[f] = now[f]
                    /\ f \notin Present(then) \union Ignored(now) =>
                          after[f] = Absent \/ f \in kept
  BY DEF Rewound, after
<1> QED BY <1>1 DEF Included, Present

\* Of the added files only those are spared for which a file with their text has gone.
LEMMA Spared ==
    ASSUME NEW old, NEW new, NEW extra \in ReportedAdded(old, new),
           NEW f \in Included(new) \ Present(old), f \notin extra
    PROVE  \E g \in Present(old) \ Included(new) : old[g] = new[f]
<1> DEFINE added == Included(new) \ Present(old)
           gone  == Present(old) \ Included(new)
           x     == new[f]
           A     == WithText(new, added, x)
           E     == WithText(new, extra, x)
           G     == WithText(old, gone, x)
<1>1. extra \subseteq added
  BY DEF ReportedAdded
<1>2. Cardinality(E) = Max({0, Cardinality(A) - Cardinality(G)})
  BY DEF ReportedAdded
<1>3. IsFiniteSet(A) /\ E \subseteq A /\ f \in A /\ f \notin E
  <2>1. A \subseteq Files
    BY DEF WithText, Included, Present
  <2>2. IsFiniteSet(A)
    BY <2>1, FS_Subset, SnapshotsAssumption
  <2> QED BY <1>1, <2>2 DEF WithText
<1> SUFFICES ASSUME G = {} PROVE FALSE
  BY DEF WithText
<1> HIDE DEF A, E, G, added, gone, x
<1>4. Cardinality(G) = 0
  BY FS_EmptySet
<1>5. /\ Cardinality(A) \in Nat /\ IsFiniteSet(E) /\ Cardinality(E) \in Nat
      /\ Cardinality(E) <= Cardinality(A) /\ Cardinality(E) # Cardinality(A)
  BY <1>3, FS_Subset, FS_CardinalityType
<1>6. Max({0, Cardinality(A)}) = Cardinality(A)
  BY <1>5 DEF Max
<1> QED BY <1>2, <1>4, <1>5, <1>6

LEMMA GitRewinds ==
    ASSUME NEW then, NEW now, backend = "git", NEW extra \in ReportedAdded(Captured(then), now),
           NEW kept
    PROVE  Rewound(then, now, TreeWithout(Unpacked(Captured(then), now), extra \ kept), kept)
<1> DEFINE after == TreeWithout(Unpacked(Captured(then), now), extra \ kept)
<1>1. extra \subseteq Included(now) \ Included(then)
  BY CapturedFacts DEF ReportedAdded
<1>2. ASSUME NEW f \in Files
      PROVE  after[f] = IF f \in extra \ kept THEN Absent
                        ELSE IF f \in Included(then) THEN then[f] ELSE now[f]
  <2>1. f \in Included(then) => then[f] # Absent
    BY DEF Included, Present
  <2> QED BY <2>1, CapturedFacts DEF Unpacked, TreeWithout
<1> HIDE DEF after
<1>3. ASSUME NEW f \in Files, f \notin Present(then) \union Ignored(now), after[f] # Absent,
             f \notin kept
      PROVE  \E g \in Present(then) \ Included(now) : then[g] = now[f]
  <2>1. f \notin extra /\ after[f] = now[f] /\ f \notin Included(then)
    BY <1>2, <1>3 DEF Included
  <2>2. f \in Included(now) \ Present(Captured(then))
    BY <1>3, <2>1, CapturedFacts DEF Included, Present
  <2>3. PICK g \in Present(Captured(then)) \ Included(now) : Captured(then)[g] = now[f]
    BY <2>1, <2>2, Spared
  <2>4. g \in Included(then) /\ g \in Files /\ g \in Present(then) /\ Captured(then)[g] = then[g]
    BY <2>3, CapturedFacts DEF Included, Present
  <2> QED BY <2>3, <2>4
<1>4. ASSUME NEW f \in Files
      PROVE  /\ f \in Included(then) => after[f] = then[f]
             /\ f \in Ignored(then) \intersect Ignored(now) => after[f] = now[f]
  BY <1>1, <1>2 DEF Included
<1>5. Rewound(then, now, after, kept)
  BY <1>3, <1>4 DEF Rewound
<1> QED BY <1>5 DEF after

-----------------------------------------------------------------------------
(* What an actor sees of the others' steps.                                *)

\* In a step of actor a, or of the user for which a is Nobody, nothing of actor b
\* moves; if b is still alone, the workspace is what it was or b has not begun.
Stays(b) ==
    /\ task'[b] = task[b] /\ start'[b] = start[b]
    /\ alone'[b] => alone[b] /\ (ws' = ws \/ task[b].pc = "idle")
    /\ b \in Turns => /\ call'[b] = call[b] /\ changes'[b] = changes[b]
                      /\ next'[b] = next[b] /\ clean'[b] = clean[b]

LEMMA GotoStays ==
    ASSUME TypeInv, NEW a \in Actors, NEW fields, Goto(a, fields)
    PROVE  \A b \in Actors \ {a} : task'[b] = task[b]
BY DEF Goto, TypeInv, SnapTyped

LEMMA SnapshotStays ==
    ASSUME TypeInv, NEW a \in Actors, SnapshotStep(a)
    PROVE  \A b \in Actors \ {a} : task'[b] = task[b]
BY GotoStays DEF SnapshotStep, Truncate, Write, Capture, Push, Prune, Unpack, Discard

LEMMA OthersStay ==
    ASSUME TypeInv, NEW a \in Actors \union {Nobody}, NEW b \in Actors \ {a}, Note(a),
           \/ a \in Turns /\ TurnStep(a)
           \/ a = Ui /\ UiStep
           \/ a = Nobody /\ UserEdit
    PROVE  Stays(b)
<1>1. /\ start'[b] = start[b]
      /\ alone'[b] => alone[b] /\ (ws' = ws \/ task[b].pc = "idle")
  BY DEF Note
<1>2. CASE a \in Turns /\ TurnStep(a)
  <2>1. task'[b] = task[b]
    <3>1. CASE SnapshotStep(a)
      BY <1>2, <3>1, SnapshotStays, WorkspaceAssumption
    <3>2. CASE Report(a)
      BY <3>2 DEF Report, TypeInv, SnapTyped
    <3>3. CASE BeginCall(a) \/ Gate(a) \/ RunShell(a) \/ Plan(a) \/ Applied(a)
      BY <1>2, <3>3, GotoStays, WorkspaceAssumption DEF BeginCall, Gate, RunShell, Plan, Applied
    <3>4. CASE Execute(a) \/ Undo(a)
      BY <1>2, <3>4, GotoStays, WorkspaceAssumption DEF Execute, Undo
    <3> QED BY <1>2, <3>1, <3>2, <3>3, <3>4 DEF TurnStep
  <2>2. ASSUME b \in Turns
        PROVE  /\ call'[b] = call[b] /\ changes'[b] = changes[b]
               /\ next'[b] = next[b] /\ clean'[b] = clean[b]
    <3>1. /\ DOMAIN call = Turns /\ DOMAIN changes = Turns
          /\ DOMAIN next = Turns /\ DOMAIN clean = Turns
      BY DEF TypeInv, CallTyped
    <3>2. CASE UNCHANGED callVars
      BY <3>2 DEF callVars
    <3>3. CASE BeginCall(a) \/ Report(a) \/ Plan(a)
      BY <1>2, <2>2, <3>1, <3>3 DEF BeginCall, Report, Plan
    <3>4. CASE Execute(a) \/ Undo(a)
      BY <1>2, <2>2, <3>1, <3>4 DEF Execute, Undo
    <3> QED BY <1>2, <3>2, <3>3, <3>4 DEF TurnStep, Gate, RunShell, Applied
  <2> QED BY <1>1, <2>1, <2>2 DEF Stays
<1>3. CASE a = Ui /\ UiStep
  <2>1. b \in Turns
    BY <1>3, WorkspaceAssumption
  <2>2. UNCHANGED callVars
    BY <1>3, WorkspaceAssumption DEF UiStep, Report
  <2>3. task'[b] = task[b]
    <3>1. CASE SnapshotStep(Ui)
      BY <1>3, <3>1, SnapshotStays, WorkspaceAssumption
    <3>2. CASE Report(Ui)
      BY <1>3, <3>2 DEF Report, TypeInv, SnapTyped
    <3>3. CASE Clear(Ui) \/ \E id \in Ids : RestoreBegin(Ui, id)
      BY <1>3, <3>3, GotoStays, WorkspaceAssumption DEF Clear, RestoreBegin
    <3> QED BY <1>3, <3>1, <3>2, <3>3 DEF UiStep
  <2> QED BY <1>1, <2>2, <2>3 DEF Stays, callVars
<1>4. CASE a = Nobody /\ UserEdit
  BY <1>1, <1>4 DEF UserEdit, Stays, callVars
<1> QED BY <1>2, <1>3, <1>4

\* In a step of its own an actor keeps its history, or begins one.
LEMMA OwnHistory ==
    ASSUME NEW a \in Actors, Note(a)
    PROVE  /\ task'[a].pc # "idle" =>
                 start'[a] = (IF task[a].pc \in {"idle", "plan"} THEN ws ELSE start[a])
           /\ task'[a].pc # "idle" /\ task[a].pc \notin {"idle", "plan"} /\ alone'[a] => alone[a]
BY DEF Note

-----------------------------------------------------------------------------
(* The invariant of a rewind.                                              *)

LEMMA RewindInit == Init => RewindInv
<1> SUFFICES ASSUME Init PROVE RewindInv
  OBVIOUS
<1>1. task[Ui].pc = "idle"
  BY WorkspaceAssumption DEF Init, SnapInit, Idle
<1> QED BY <1>1 DEF RewindInv, Unpacking, Discarding, RestoreRewinds, At

LEMMA RewindStep ==
    ASSUME TypeInv, ArchInv, RewindInv, [Next]_vars, StoreSteps
    PROVE  RewindInv'
<1>1. /\ Ui \in Actors /\ (\A t \in Turns : t \in Actors /\ t # Ui)
      /\ SnapTyped /\ (\A b \in Actors : PcOk(b)) /\ PcOk(Ui)
      /\ task \in [Actors -> TaskRecords(snaps)] /\ snaps \in Nat
  BY TaskFields, WorkspaceAssumption DEF TypeInv, SnapTyped
<1>2. /\ backend' = backend /\ snaps' \in Nat /\ snaps <= snaps'
      /\ \A tree : Captured(tree)' = Captured(tree) /\ Included(tree)' = Included(tree)
      /\ \A tree : Ignored(tree)' = Ignored(tree)
      /\ \A tree, kept : Emptied(tree, kept)' = Emptied(tree, kept)
      /\ \A old, new : ReportedAdded(old, new)' = ReportedAdded(old, new)
      /\ backend = "git" => \A id \in 1..snaps : archives'[id] = archives[id]
      /\ \A id \in 1..snaps : taken'[id] = taken[id]
  BY SameCapture DEF StoreSteps
<1>3. ASSUME task'[Ui].pc \notin {"unpack", "discard", "rewound"} PROVE RewindInv'
  BY <1>3 DEF RewindInv, Unpacking, Discarding, RestoreRewinds, At
<1>4. CASE Stays(Ui)
  <2> SUFFICES ASSUME task[Ui].pc \in {"unpack", "discard", "rewound"} PROVE RewindInv'
    BY <1>3, <1>4 DEF Stays
  <2>1. /\ task[Ui].id \in 1..snaps /\ task'[Ui] = task[Ui] /\ start'[Ui] = start[Ui]
        /\ alone'[Ui] => alone[Ui] /\ ws' = ws
    BY <1>4 DEF RewindInv, Stays
  <2>2. task[Ui].id \in 1..snaps'
    BY <2>1, <1>1 DEF StoreSteps
  <2>3. Unpacking'
    BY <1>2, <2>1 DEF RewindInv, Unpacking
  <2>4. Discarding'
    BY <1>2, <2>1 DEF RewindInv, Discarding
  <2>5. RestoreRewinds'
    BY <1>2, <2>1 DEF RewindInv, RestoreRewinds, At, Present
  <2> QED BY <2>1, <2>2, <2>3, <2>4, <2>5 DEF RewindInv
<1>5. CASE UiStep /\ Note(Ui)
  <2>1. CASE \E id \in Ids : RestoreBegin(Ui, id)
    <3>1. PICK id \in Ids : RestoreBegin(Ui, id)
      BY <2>1
    <3>2. /\ id \in 1..snaps
          /\ \E extra : Moves(Ui, "unpack", id, task[Ui].seen, task[Ui].then, extra)
      BY <1>1, <3>1, RestoreTyped
    <3>3. task'[Ui].pc = "unpack" /\ task'[Ui].id = id
      BY <1>1, <3>2, MovesFacts
    <3>4. start'[Ui] = ws
      BY <1>1, <1>5, <3>1, <3>3, OwnHistory DEF RestoreBegin, At
    <3>5. Unpacking'
      <4>1. CASE backend = "tar"
        <5>1. PICK kept \in SUBSET Included(ws) :
                 /\ ws' = Emptied(ws, kept)
                 /\ Goto(Ui, [pc |-> "unpack", id |-> id, extra |-> kept])
          BY <3>1, <4>1 DEF RestoreBegin, Emptied
        <5>2. Moves(Ui, "unpack", id, task[Ui].seen, task[Ui].then, kept)
          BY <1>1, <5>1, Gone
        <5>3. task'[Ui].extra = kept
          BY <1>1, <5>2, MovesFacts
        <5> QED BY <1>2, <3>4, <4>1, <5>1, <5>3 DEF Unpacking
      <4>2. CASE backend # "tar"
        <5>1. PICK extra \in ReportedAdded(archives[id], ws) :
                 ws' = ws /\ Goto(Ui, [pc |-> "unpack", id |-> id, extra |-> extra])
          BY <3>1, <4>2 DEF RestoreBegin
        <5>2. Moves(Ui, "unpack", id, task[Ui].seen, task[Ui].then, extra)
          BY <1>1, <5>1, Gone
        <5>3. task'[Ui].extra = extra
          BY <1>1, <5>2, MovesFacts
        <5>4. backend = "git" /\ archives'[id] = archives[id]
          BY <1>1, <1>2, <3>2, <4>2 DEF SnapTyped
        <5> QED BY <1>2, <3>3, <3>4, <5>1, <5>3, <5>4 DEF Unpacking
      <4> QED BY <4>1, <4>2
    <3>6. id \in 1..snaps'
      BY <1>1, <3>2 DEF StoreSteps
    <3> QED BY <3>3, <3>5, <3>6 DEF RewindInv, Discarding, RestoreRewinds, At
  <2>2. CASE Unpack(Ui)
    <3> DEFINE id == task[Ui].id
    <3>1. task[Ui].pc = "unpack" /\ id \in 1..snaps
      BY <2>2 DEF Unpack, At, RewindInv
    <3>2. CASE Goto(Ui, [pc |-> "failed"])
      <4>1. MovesTo(Ui, "failed")
        BY <1>1, <3>2, Gone
      <4> QED BY <1>1, <1>3, <4>1, MovesFacts DEF MovesTo
    <3>3. CASE /\ archives[id] \notin {Absent, Torn}
               /\ ws' = Unpacked(archives[id], ws)
               /\ Goto(Ui, [pc |-> IF backend = "git" THEN "discard" ELSE "rewound"])
      <4>1. archives[id] = Captured(taken[id])
        <5>1. id \in Ids
          BY <1>1, <3>1, SnapshotsAssumption DEF Ids, SnapTyped
        <5> QED BY <3>3, <5>1 DEF ArchInv
      <4>2. /\ ws' = Unpacked(Captured(taken[id]), ws)
            /\ MovesTo(Ui, IF backend = "git" THEN "discard" ELSE "rewound")
        BY <1>1, <3>3, <4>1, Gone
      <4>3. /\ task'[Ui].pc = IF backend = "git" THEN "discard" ELSE "rewound"
            /\ task'[Ui].id = id /\ task'[Ui].extra = task[Ui].extra
        BY <1>1, <4>2, MovesFacts DEF MovesTo
      <4>4. start'[Ui] = start[Ui] /\ (alone'[Ui] => alone[Ui])
        BY <1>1, <1>5, <3>1, <4>3, OwnHistory
      <4>5. id \in 1..snaps' /\ taken'[id] = taken[id]
        BY <1>1, <3>1 DEF StoreSteps
      <4>6. CASE backend = "git"
        <5>1. Discarding'
          BY <1>2, <3>1, <4>1, <4>2, <4>3, <4>4, <4>5, <4>6 DEF Discarding, Unpacking, RewindInv
        <5> QED BY <4>3, <4>5, <4>6, <5>1 DEF RewindInv, Unpacking, RestoreRewinds, At
      <4>7. CASE backend # "git"
        <5>1. alone'[Ui] =>
                 ws' = Unpacked(Captured(taken[id]), Emptied(start[Ui], task[Ui].extra))
          BY <3>1, <4>2, <4>4, <4>7 DEF Unpacking, RewindInv
        <5>2. alone'[Ui] => Rewound(taken[id], start[Ui], ws', task[Ui].extra)
          BY <5>1, TarRewinds
        <5>3. RestoreRewinds'
          BY <1>2, <4>3, <4>4, <4>5, <5>2 DEF RestoreRewinds, Rewound, Present
        <5> QED BY <4>3, <4>5, <4>7, <5>3 DEF RewindInv, Unpacking, Discarding
      <4> QED BY <4>6, <4>7
    <3>4. \/ Goto(Ui, [pc |-> "failed"])
          \/ /\ archives[id] \notin {Absent, Torn}
             /\ ws' = Unpacked(archives[id], ws)
             /\ Goto(Ui, [pc |-> IF backend = "git" THEN "discard" ELSE "rewound"])
      BY <2>2 DEF Unpack, Unpacked
    <3> QED BY <3>2, <3>3, <3>4
  <2>3. CASE Discard(Ui)
    <3> DEFINE id == task[Ui].id
    <3>0. PICK kept \in SUBSET task[Ui].extra :
             /\ ws' = TreeWithout(ws, task[Ui].extra \ kept)
             /\ Goto(Ui, [pc |-> "rewound", extra |-> kept])
      BY <2>3 DEF Discard
    <3>1. /\ task[Ui].pc = "discard" /\ id \in 1..snaps
          /\ Moves(Ui, "rewound", id, task[Ui].seen, task[Ui].then, kept)
      BY <1>1, <2>3, <3>0, Gone DEF Discard, At, RewindInv
    <3>2. task'[Ui].pc = "rewound" /\ task'[Ui].id = id /\ task'[Ui].extra = kept
      BY <1>1, <3>1, MovesFacts
    <3>3. start'[Ui] = start[Ui] /\ (alone'[Ui] => alone[Ui])
      BY <1>1, <1>5, <3>1, <3>2, OwnHistory
    <3>4. id \in 1..snaps' /\ taken'[id] = taken[id]
      BY <1>1, <3>1 DEF StoreSteps
    <3>5. alone'[Ui] => Rewound(taken[id], start[Ui], ws', kept)
      <4> SUFFICES ASSUME alone[Ui] PROVE Rewound(taken[id], start[Ui], ws', kept)
        BY <3>3
      <4>1. /\ backend = "git" /\ ws = Unpacked(Captured(taken[id]), start[Ui])
            /\ task[Ui].extra \in ReportedAdded(Captured(taken[id]), start[Ui])
        BY <3>1 DEF RewindInv, Discarding
      <4> QED BY <3>0, <4>1, GitRewinds
    <3>6. RestoreRewinds'
      BY <1>2, <3>2, <3>3, <3>4, <3>5 DEF RestoreRewinds, Rewound, Present
    <3> QED BY <3>2, <3>4, <3>6 DEF RewindInv, Unpacking, Discarding
  <2>4. CASE Clear(Ui)
    BY <1>1, <1>3, <2>4, ClearTyped, MovesFacts
  <2>5. CASE Report(Ui)
    BY <1>1, <1>3, <2>5, ReportTyped, MovesFacts
  <2>6. CASE Truncate(Ui) \/ Write(Ui) \/ Capture(Ui) \/ Push(Ui) \/ Prune(Ui)
    <3>1. Truncate(Ui) \/ Write(Ui)
      BY <1>1, <2>6 DEF PcOk, UiPcs, Capture, Push, Prune, At
    <3>2. \/ MovesTo(Ui, "write") \/ MovesTo(Ui, "cleared")
          \/ Moves(Ui, "failed", Nobody, task[Ui].seen, task[Ui].then, task[Ui].extra)
      <4>1. task[Ui].then = "cleared"
        BY <1>1, <3>1 DEF Truncate, Write, At, PcOk
      <4> QED BY <1>1, <3>1, <4>1, Gone DEF Truncate, Write
    <3>3. task'[Ui].pc \in {"write", "cleared", "failed"}
      BY <1>1, <3>2, MovesFacts DEF MovesTo
    <3> QED BY <1>3, <3>3
  <2> QED BY <1>5, <2>1, <2>2, <2>3, <2>4, <2>5, <2>6 DEF UiStep, SnapshotStep
<1>6. CASE Crash
  BY <1>1, <1>3, <1>6 DEF Crash, Idle
<1>7. CASE UNCHANGED vars
  <2>1. Stays(Ui)
    BY <1>7 DEF vars, snapVars, callVars, Stays
  <2> QED BY <1>4, <2>1
<1>8. CASE \E t \in Turns : TurnStep(t) /\ Note(t)
  BY <1>1, <1>4, <1>8, OthersStay
<1>9. CASE UserEdit
  BY <1>1, <1>4, <1>9, OthersStay, WorkspaceAssumption DEF UserEdit
<1> QED BY <1>5, <1>6, <1>7, <1>8, <1>9 DEF Next

\* A rewind that reports success has brought back what the snapshot captured, whatever
\* was done to the workspace between the two, with either backend and any ignore file,
\* and has taken away what was added since, but for the files whose removal failed and
\* those git sees as renamed.  Assumed is that nobody else writes to the workspace
\* while it runs.  (snapshots/mod.rs, restore)
THEOREM RestoreRewindsHolds == Spec => []RestoreRewinds
<1>1. Init => TypeInv /\ ArchInv /\ RewindInv
  BY TypeInit, ArchInit, RewindInit
<1>2. TypeInv /\ ArchInv /\ RewindInv /\ [Next]_vars => (TypeInv /\ ArchInv /\ RewindInv)'
  BY TypeStep, StoreStep, RewindStep
<1>3. RewindInv => RestoreRewinds
  BY DEF RewindInv
<1> QED BY <1>1, <1>2, <1>3, PTL DEF Spec

-----------------------------------------------------------------------------
(* All or nothing.                                                         *)

\* The changes of a plan and the workspace they were planned on: where the file to
\* be written back differs from it, a file that is not text is deleted.
Faithful(t) ==
    /\ DOMAIN changes[t] = 1..Len(changes[t]) /\ Len(changes[t]) \in Nat
    /\ \A k \in DOMAIN changes[t] :
          LET c == changes[t][k]
          IN  /\ c.file \in Files
              /\ start[t][c.file] = NoText => c.new = Absent
              /\ start[t][c.file] # NoText => c.original = start[t][c.file]

Textual(t) ==
    \A k \in DOMAIN changes[t] : changes[t][k].new = Absent => start[t][changes[t][k].file] # NoText

\* What differs from the workspace a patch began with is what its changes before
\* `next` say.
Undoable(t) ==
    alone[t] /\ clean[t] /\ Textual(t) =>
        \A f \in Files : ws[f] = start[t][f] \/ \E k \in 1..(next[t] - 1) : changes[t][k].file = f

UndoInvOf(t) ==
    /\ task[t].pc # "idle" => call[t] \in Calls
    /\ task[t].pc = "plan" => call[t].tool # "shell"
    /\ task[t].pc = "run" => call[t].tool = "shell"
    /\ task[t].pc \notin {"execute", "undo", "applied", "rolledBack"} => next[t] = 1
    /\ task[t].pc \in {"execute", "undo", "rolledBack"} =>
          /\ start[t] = [f \in Files |-> start[t][f]]
          /\ Faithful(t) /\ Undoable(t) /\ next[t] <= Len(changes[t]) + 1
    /\ task[t].pc = "rolledBack" => next[t] = 1

UndoInv == \A t \in Turns : UndoInvOf(t)

LEMMA UndoInit == Init => UndoInv
BY WorkspaceAssumption DEF Init, SnapInit, Idle, UndoInv, UndoInvOf

LEMMA UndoStays ==
    ASSUME TypeInv, NEW t \in Turns, UndoInvOf(t), Stays(t)
    PROVE  UndoInvOf(t)'
<1>1. /\ task'[t] = task[t] /\ start'[t] = start[t] /\ changes'[t] = changes[t]
      /\ next'[t] = next[t] /\ clean'[t] = clean[t] /\ call'[t] = call[t]
      /\ alone'[t] => alone[t] /\ (ws' = ws \/ task[t].pc = "idle")
  BY DEF Stays
<1>2. Faithful(t)' <=> Faithful(t)
  BY <1>1 DEF Faithful
<1>3. Textual(t)' <=> Textual(t)
  BY <1>1 DEF Textual
<1>4. task[t].pc # "idle" /\ Undoable(t) => Undoable(t)'
  BY <1>1, <1>3 DEF Undoable
<1> QED BY <1>1, <1>2, <1>4 DEF UndoInvOf

LEMMA PlanIsFaithful ==
    ASSUME TypeInv, NEW t \in Turns, UndoInvOf(t), Plan(t), Note(t)
    PROVE  UndoInvOf(t)'
<1> DEFINE ops == Parsed[call[t].patch]
<1>1. /\ t \in Actors /\ t # Ui /\ task \in [Actors -> TaskRecords(snaps)] /\ snaps \in Nat
      /\ ws = [f \in Files |-> ws[f]] /\ changes = [u \in Turns |-> changes[u]]
  BY TaskFields, WorkspaceAssumption DEF TypeInv, SnapTyped, CallTyped
<1>2. next' = next /\ next[t] = 1 /\ task[t].pc = "plan" /\ UNCHANGED <<ws, clean, call>>
      /\ call[t] \in Calls /\ call[t].tool # "shell"
  BY DEF Plan, At, UndoInvOf
<1>3. CASE Goto(t, [pc |-> "refused"])
  <2>1. MovesTo(t, "refused")
    BY <1>1, <1>3, Gone
  <2>2. task'[t].pc = "refused"
    BY <1>1, <2>1, MovesFacts DEF MovesTo
  <2> QED BY <1>2, <2>2 DEF UndoInvOf
<1>4. CASE /\ ops # <<>>
           /\ \A k \in DOMAIN ops : ops[k].file \in Files
           /\ \A k \in DOMAIN ops : CanPlan(ops[k], ws)
           /\ changes' = [changes EXCEPT ![t] = [k \in DOMAIN ops |-> Change(ops[k], ws)]]
           /\ Goto(t, [pc |-> "execute"])
  <2>1. MovesTo(t, "execute")
    BY <1>1, <1>4, Gone
  <2>2. task'[t].pc = "execute"
    BY <1>1, <2>1, MovesFacts DEF MovesTo
  <2>3. start'[t] = ws
    BY <1>1, <1>2, <2>2, OwnHistory
  <2>4. call[t].patch \in Patches
    BY <1>2 DEF Calls
  <2>5. PICK n \in Nat : /\ DOMAIN ops = 1..n
                         /\ \A k \in 1..n : ops[k].kind \in {"add", "delete", "update"}
    BY <2>4, PatchesAssumption
  <2>6. changes'[t] = [k \in 1..n |-> Change(ops[k], ws)]
    BY <1>1, <1>4, <2>5
  <2>7. DOMAIN changes'[t] = 1..n /\ Len(changes'[t]) = n
    <3> DEFINE e(k) == Change(ops[k], ws)
    <3>1. [k \in 1..n |-> e(k)] \in Seq({e(k) : k \in 1..n})
      OBVIOUS
    <3> QED BY <2>6, <3>1
  <2>8. ASSUME NEW k \in 1..n
        PROVE  LET c == changes'[t][k]
               IN  /\ c.file \in Files
                   /\ ws[c.file] = NoText => c.new = Absent
                   /\ ws[c.file] # NoText => c.original = ws[c.file]
    <3> DEFINE op == ops[k]
    <3>1. changes'[t][k] = Change(op, ws) /\ op.file \in Files /\ CanPlan(op, ws)
          /\ op.kind \in {"add", "delete", "update"}
      BY <1>4, <2>5, <2>6
    <3> HIDE DEF op
    <3>2. /\ Change(op, ws).file = op.file
          /\ Change(op, ws).original = (IF ws[op.file] = NoText THEN <<>> ELSE ws[op.file])
          /\ op.kind = "delete" => Change(op, ws).new = Absent
      BY DEF Change
    <3>3. ws[op.file] = NoText => op.kind = "delete"
      BY <3>1, WorkspaceAssumption, SnapshotsAssumption DEF CanPlan
    <3> QED BY <3>1, <3>2, <3>3
  <2>9. Faithful(t)'
    BY <2>3, <2>5, <2>7, <2>8 DEF Faithful
  <2>10. Undoable(t)'
    BY <1>2, <2>3 DEF Undoable
  <2> QED BY <1>1, <1>2, <2>2, <2>3, <2>5, <2>7, <2>9, <2>10 DEF UndoInvOf
<1> QED BY <1>3, <1>4 DEF Plan

LEMMA SnapshotPcs ==
    ASSUME TypeInv, NEW t \in Turns, SnapshotStep(t)
    PROVE  /\ task[t].pc \in {"take", "push", "truncate", "write", "prune"}
           /\ task'[t].pc \in {"push", "truncate", "write", "prune", "taken", "failed"}
<1>1. /\ t \in Actors /\ t # Ui /\ task \in [Actors -> TaskRecords(snaps)] /\ snaps \in Nat /\ PcOk(t)
  BY TaskFields, WorkspaceAssumption DEF TypeInv, SnapTyped
<1>2. task[t].pc \in {"take", "push", "truncate", "write", "prune"}
  BY <1>1 DEF SnapshotStep, Truncate, Write, Capture, Push, Prune, Unpack, Discard, At, PcOk, TurnPcs
<1>3. \E pc \in {"push", "truncate", "write", "prune", "taken", "failed"} :
         \E id, seen, then, extra : Moves(t, pc, id, seen, then, extra)
  <2>1. CASE Truncate(t)
    BY <1>1, <2>1, Gone DEF Truncate, MovesTo
  <2>2. CASE Write(t)
    <3>1. task[t].then \in {"prune", "taken"}
      BY <1>1, <2>2 DEF Write, At, PcOk
    <3> QED BY <1>1, <2>2, <3>1, Gone DEF Write, MovesTo
  <2>3. CASE Capture(t)
    BY <1>1, <2>3, Gone DEF Capture
  <2>4. CASE Push(t)
    BY <1>1, <2>4, Gone DEF Push
  <2>5. CASE Prune(t)
    BY <1>1, <2>5, Gone DEF Prune, MovesTo
  <2> QED BY <1>2, <2>1, <2>2, <2>3, <2>4, <2>5 DEF SnapshotStep, Unpack, Discard, At
<1> QED BY <1>1, <1>2, <1>3, MovesFacts

LEMMA UndoOwn ==
    ASSUME TypeInv, NEW t \in Turns, UndoInvOf(t), TurnStep(t), Note(t)
    PROVE  UndoInvOf(t)'
<1>1. /\ t \in Actors /\ t # Ui /\ task \in [Actors -> TaskRecords(snaps)] /\ snaps \in Nat
      /\ ws = [f \in Files |-> ws[f]] /\ changes = [u \in Turns |-> changes[u]]
      /\ next \in [Turns -> Nat \ {0}] /\ DOMAIN call = Turns /\ clean = [u \in Turns |-> clean[u]]
  BY TaskFields, WorkspaceAssumption DEF TypeInv, SnapTyped, CallTyped
<1>2. ASSUME NEW pc, Goto(t, [pc |-> pc]) PROVE task'[t].pc = pc
  <2>1. MovesTo(t, pc)
    BY <1>1, <1>2, Gone
  <2> QED BY <1>1, <2>1, MovesFacts DEF MovesTo
<1>3. CASE SnapshotStep(t) /\ UNCHANGED <<callVars, left>>
  BY <1>3, SnapshotPcs DEF UndoInvOf, callVars
<1>4. CASE BeginCall(t)
  <2>1. PICK c \in Calls :
           /\ call' = [call EXCEPT ![t] = c]
           /\ Goto(t, [pc |-> IF TakesSnapshot(c) THEN "take" ELSE "taken"])
    BY <1>4 DEF BeginCall
  <2>2. task'[t].pc \in {"take", "taken"}
    BY <1>2, <2>1
  <2>3. call'[t] \in Calls /\ next' = next /\ task[t].pc = "idle"
    BY <1>1, <1>4, <2>1 DEF BeginCall, At
  <2> QED BY <2>2, <2>3 DEF UndoInvOf
<1>5. CASE Gate(t)
  <2>1. /\ call' = call /\ next' = next /\ task[t].pc \in {"taken", "failed"}
    BY <1>5 DEF Gate, At, callVars
  <2>2. task'[t].pc = (IF call[t].tool = "shell" THEN "run" ELSE "plan") \/ task'[t].pc = "refused"
    BY <1>2, <1>5 DEF Gate
  <2> QED BY <2>1, <2>2 DEF UndoInvOf
<1>6. CASE RunShell(t)
  <2>1. call' = call /\ next' = next /\ task[t].pc = "run" /\ task'[t].pc = "applied"
    BY <1>2, <1>6 DEF RunShell, At, callVars
  <2> QED BY <2>1 DEF UndoInvOf
<1>7. CASE Plan(t)
  BY <1>7, PlanIsFaithful
<1>8. CASE Applied(t)
  <2>1. call' = call /\ next' = next /\ task[t].pc = "execute" /\ task'[t].pc = "applied"
    BY <1>2, <1>8 DEF Applied, At, callVars
  <2> QED BY <2>1 DEF UndoInvOf
<1>9. CASE Report(t)
  <2>1. task'[t].pc = "idle"
    BY <1>1, <1>9, ReportTyped, MovesFacts
  <2>2. next'[t] = 1
    BY <1>1, <1>9 DEF Report
  <2> QED BY <2>1, <2>2 DEF UndoInvOf
<1>10. ASSUME task[t].pc \in {"execute", "undo"}, task'[t].pc \in {"execute", "undo", "rolledBack"},
              UNCHANGED <<call, changes>>
       PROVE  /\ start'[t] = start[t] /\ (alone'[t] => alone[t])
              /\ call'[t] \in Calls
              /\ start'[t] = [f \in Files |-> start'[t][f]]
              /\ Faithful(t)' /\ (Textual(t)' <=> Textual(t))
              /\ Faithful(t) /\ Undoable(t) /\ next[t] <= Len(changes[t]) + 1
  <2>1. start'[t] = start[t] /\ (alone'[t] => alone[t])
    BY <1>1, <1>10, OwnHistory
  <2>2. Faithful(t)' /\ (Textual(t)' <=> Textual(t))
    BY <1>10, <2>1 DEF UndoInvOf, Faithful, Textual
  <2> QED BY <1>10, <2>1, <2>2 DEF UndoInvOf
<1>11. CASE Execute(t)
  <2> DEFINE c == changes[t][next[t]]
  <2>1. task[t].pc = "execute" /\ next[t] <= Len(changes[t]) /\ UNCHANGED <<call, changes>>
    BY <1>11 DEF Execute, At
  <2>2. CASE /\ Set(c.file, c.new) /\ next' = [next EXCEPT ![t] = @ + 1]
             /\ UNCHANGED <<task, faults, clean>>
    <3>1. task'[t].pc = "execute" /\ next'[t] = next[t] + 1 /\ clean'[t] = clean[t]
      BY <1>1, <2>1, <2>2
    <3>2. \A f \in Files : f # c.file => ws'[f] = ws[f]
      BY <1>1, <2>2 DEF Set
    <3>3. Undoable(t)'
      <4> SUFFICES ASSUME alone[t], clean[t], Textual(t), NEW f \in Files, ws'[f] # start[t][f]
                   PROVE  \E k \in 1..(next'[t] - 1) : changes[t][k].file = f
        BY <1>10, <2>1, <3>1 DEF Undoable
      <4>1. CASE f = c.file
        BY <1>1, <3>1, <4>1
      <4>2. CASE f # c.file
        <5>1. \E k \in 1..(next[t] - 1) : changes[t][k].file = f
          BY <1>10, <2>1, <3>1, <3>2, <4>2 DEF Undoable
        <5> QED BY <1>1, <3>1, <5>1
      <4> QED BY <4>1, <4>2
    <3>4. next'[t] <= Len(changes'[t]) + 1
      BY <1>1, <1>10, <2>1, <3>1 DEF Faithful
    <3> QED BY <1>10, <2>1, <3>1, <3>3, <3>4 DEF UndoInvOf
  <2>3. CASE Goto(t, [pc |-> "undo"]) /\ UNCHANGED <<ws, next, clean>>
    <3>1. task'[t].pc = "undo"
      BY <1>2, <2>3
    <3>2. Undoable(t)'
      BY <1>10, <2>1, <2>3, <3>1 DEF Undoable
    <3> QED BY <1>10, <2>1, <2>3, <3>1, <3>2 DEF UndoInvOf
  <2>4. CASE /\ clean' = [clean EXCEPT ![t] = FALSE] /\ Goto(t, [pc |-> "undo"])
             /\ UNCHANGED next
    <3>1. task'[t].pc = "undo" /\ ~clean'[t]
      BY <1>1, <1>2, <2>4
    <3>2. Undoable(t)'
      BY <3>1 DEF Undoable
    <3> QED BY <1>10, <2>1, <2>4, <3>1, <3>2 DEF UndoInvOf
  <2> QED BY <1>11, <2>2, <2>3, <2>4 DEF Execute
<1>12. CASE Undo(t)
  <2>1. task[t].pc = "undo" /\ UNCHANGED <<call, changes>>
    BY <1>12 DEF Undo, At
  <2>2. CASE next[t] = 1
    <3>1. task'[t].pc = "rolledBack" /\ UNCHANGED <<ws, next, clean>>
      BY <1>2, <1>12, <2>2 DEF Undo
    <3>2. Undoable(t)'
      BY <1>10, <2>1, <3>1 DEF Undoable
    <3> QED BY <1>10, <2>1, <2>2, <3>1, <3>2 DEF UndoInvOf
  <2>3. CASE next[t] # 1
    <3> DEFINE c == changes[t][next[t] - 1]
    <3>1. next' = [next EXCEPT ![t] = @ - 1] /\ UNCHANGED task
      BY <1>12, <2>3 DEF Undo
    <3>2. /\ next'[t] = next[t] - 1 /\ next[t] - 1 \in 1..Len(changes[t])
          /\ next'[t] <= Len(changes'[t]) + 1 /\ task'[t].pc = "undo"
      BY <1>1, <1>10, <2>1, <2>3, <3>1 DEF Faithful
    <3>3. CASE Set(c.file, c.original) /\ UNCHANGED clean
      <4>1. Undoable(t)'
        <5> SUFFICES ASSUME alone[t], clean[t], Textual(t), NEW f \in Files, ws'[f] # start[t][f]
                     PROVE  \E k \in 1..(next'[t] - 1) : changes[t][k].file = f
          BY <1>10, <2>1, <3>2, <3>3 DEF Undoable
        <5>1. /\ c.file \in Files
              /\ start[t][c.file] = NoText => c.new = Absent
              /\ start[t][c.file] # NoText => c.original = start[t][c.file]
              /\ c.new = Absent => start[t][c.file] # NoText
          BY <1>10, <2>1, <3>2 DEF Faithful, Textual
        <5>2. f # c.file /\ ws'[f] = ws[f]
          BY <1>1, <3>3, <5>1 DEF Set
        <5>3. PICK k \in 1..(next[t] - 1) : changes[t][k].file = f
          BY <1>10, <2>1, <3>2, <5>2 DEF Undoable
        <5>4. k # next[t] - 1
          BY <5>2, <5>3
        <5> QED BY <1>1, <3>2, <5>3, <5>4
      <4> QED BY <1>10, <2>1, <3>2, <4>1 DEF UndoInvOf
    <3>4. CASE clean' = [clean EXCEPT ![t] = FALSE]
      <4>1. Undoable(t)'
        BY <1>1, <3>4 DEF Undoable
      <4> QED BY <1>10, <2>1, <3>2, <4>1 DEF UndoInvOf
    <3> QED BY <1>12, <2>3, <3>3, <3>4 DEF Undo
  <2> QED BY <2>2, <2>3
<1> QED BY <1>3, <1>4, <1>5, <1>6, <1>7, <1>8, <1>9, <1>11, <1>12 DEF TurnStep

LEMMA UndoStep == TypeInv /\ UndoInv /\ [Next]_vars => UndoInv'
<1> SUFFICES ASSUME TypeInv, UndoInv, [Next]_vars, NEW t \in Turns PROVE UndoInvOf(t)'
  BY DEF UndoInv
<1>1. t \in Actors /\ t # Ui /\ t # Nobody /\ UndoInvOf(t) /\ \A u \in Turns : u \in Actors
  BY WorkspaceAssumption DEF UndoInv
<1>2. CASE Stays(t)
  BY <1>1, <1>2, UndoStays
<1>3. CASE TurnStep(t) /\ Note(t)
  BY <1>1, <1>3, UndoOwn
<1>4. CASE \E u \in Turns \ {t} : TurnStep(u) /\ Note(u)
  BY <1>1, <1>2, <1>4, OthersStay
<1>5. CASE UiStep /\ Note(Ui)
  BY <1>1, <1>2, <1>5, OthersStay, WorkspaceAssumption
<1>6. CASE UserEdit
  BY <1>1, <1>2, <1>6, OthersStay DEF UserEdit
<1>7. CASE Crash
  BY <1>1, <1>7 DEF Crash, Idle, UndoInvOf
<1>8. CASE UNCHANGED vars
  <2>1. Stays(t)
    BY <1>8 DEF vars, snapVars, callVars, Stays
  <2> QED BY <1>2, <2>1
<1> QED BY <1>3, <1>4, <1>5, <1>6, <1>7, <1>8 DEF Next

\* A patch that fails at any of its operations leaves the workspace as it found it,
\* whatever files its operations name and however often, unless a write was torn or
\* an undo failed, a file that is not text was deleted, or another actor wrote
\* meanwhile.  (tools/apply_patch.rs, execute and rollback)
THEOREM AllOrNothingHolds == Spec => []AllOrNothing
<1>1. TypeInv /\ UndoInv => AllOrNothing
  <2> SUFFICES ASSUME TypeInv, UndoInv, NEW t \in Turns, At(t, "rolledBack"), alone[t], clean[t],
                      Textual(t)
               PROVE  ws = start[t]
    BY DEF AllOrNothing, Textual
  <2>1. /\ next[t] = 1 /\ Undoable(t) /\ start[t] = [f \in Files |-> start[t][f]]
        /\ ws = [f \in Files |-> ws[f]]
    BY DEF UndoInv, UndoInvOf, At, TypeInv, SnapTyped
  <2>2. \A f \in Files : ws[f] = start[t][f]
    BY <2>1 DEF Undoable
  <2> QED BY <2>1, <2>2
<1> QED BY <1>1, TypeInit, UndoInit, TypeStep, UndoStep, PTL DEF Spec


-----------------------------------------------------------------------------
(* The newest snapshots, and the net under a call, while one turn runs.    *)

OneTurn == \A t, u \in Turns : t = u

\* The snapshots that can be rewound to, or were cleared by the user.
Kept == {i \in 1..snaps : i \in cleared \/ Restorable(i)}

Rising(s) == \A j, k \in 1..Len(s) : j < k => s[j] < s[k]
NewestKept(s) == \A k \in 1..Len(s) : k > Len(s) - Retain => s[k] \in Kept
EndsWith(s, id) == Len(s) > 0 /\ s[Len(s)] = id
Limit == Retain + (MaxEvents - left.events) + (MaxFaults - faults)

ListInv ==
    /\ Rising(Listed) /\ NewestKept(Listed)
    /\ Len(Listed) <= Limit + (IF \E t \in Turns : MayOvershoot(t) THEN 1 ELSE 0)

\* The only list the user interface writes is empty.
ClearInv ==
    /\ task[Ui].then = "cleared" => 1..snaps \subseteq cleared
    /\ task[Ui].pc \in {"truncate", "write"} => task[Ui].seen = <<>>

\* What a take has in hand, a list that may become the list among it.
TakeInv(t) ==
    /\ task[t].pc \in {"idle", "take", "failed"} => task[t].id = Nobody
    /\ task[t].pc = "push" =>
          /\ task[t].id = snaps /\ snaps \in Kept
          /\ \A k \in 1..Len(Listed) : Listed[k] < snaps
    /\ task[t].pc \in {"truncate", "write"} =>
          /\ Rising(task[t].seen) /\ NewestKept(task[t].seen)
          /\ Len(task[t].seen) <= IF task[t].then = "prune" THEN Limit + 1 ELSE Retain
    /\ task[t].pc = "write" => Listed = <<>>
    /\ task[t].pc \in Underway /\ task[t].id # Nobody => Len(Listed) <= Retain

StoreInv == faults \in 0..MaxFaults /\ ListInv /\ ClearInv /\ \A t \in Turns : TakeInv(t)

\* The snapshot of a call is the last of the list, or of that about to be written.
NetOf(t) ==
    task[t].id \notin cleared \union {Nobody} =>
        /\ task[t].id \in Kept
        /\ task[t].pc \in {"truncate", "write"} => EndsWith(task[t].seen, task[t].id)
        /\ task[t].pc \notin {"push", "truncate", "write"} => EndsWith(Listed, task[t].id)

NetInv == \A t \in Turns : NetOf(t)

\* What is kept stays so, but for the snapshots S whose archives go.
LEMMA KeptStays ==
    ASSUME snaps \in Nat, snaps' \in Nat, snaps <= snaps', NEW S,
           backend' = backend, cleared \subseteq cleared',
           \A i \in (1..snaps) \ S : /\ taken'[i] = taken[i]
                                     /\ archives'[i] = archives[i] \/ i \in cleared'
    PROVE  Kept \ S \subseteq Kept'
<1> SUFFICES ASSUME NEW i \in 1..snaps, i \notin S, i \in cleared \/ Restorable(i)
             PROVE  i \in 1..snaps' /\ (i \in cleared' \/ Restorable(i)')
  BY DEF Kept
<1>1. i \in 1..snaps'
  OBVIOUS
<1>2. CASE i \in cleared'
  BY <1>1, <1>2
<1>3. CASE i \notin cleared'
  <2>1. archives'[i] = archives[i] /\ taken'[i] = taken[i] /\ Restorable(i)
    BY <1>3
  <2>2. Restorable(i)'
    BY <2>1, SameCapture DEF Restorable
  <2> QED BY <1>1, <2>2
<1> QED BY <1>2, <1>3

\* A task that neither begins nor goes on with a take, and drops or keeps its snapshot.
Calmly(t) ==
    /\ task'[t].pc \notin {"push", "truncate", "write", "prune"}
    /\ MayOvershoot(t) => left'.events < left.events
    /\ \/ task'[t].id = Nobody
       \/ /\ task'[t].id = task[t].id
          /\ task[t].pc \in Underway
          /\ task'[t].pc \in Underway \union {"refused"}

\* A step that is not one of a take: if it takes anything from the store, or empties
\* the list, the user has cleared it.
Quiet ==
    /\ UNCHANGED <<backend, snaps, taken>>
    /\ cleared \subseteq cleared'
    /\ \A i \in 1..snaps : archives'[i] = archives[i] \/ i \in cleared'
    /\ Listed' = Listed \/ (Listed' = <<>> /\ 1..snaps \subseteq cleared')
    /\ left'.events \in Nat /\ left'.events <= left.events
    /\ \A t \in Turns : task'[t] = task[t] \/ Calmly(t)

TakeStep(t) == SnapshotStep(t) /\ UNCHANGED <<callVars, left>> /\ Note(t)

LEMMA NoteClears ==
    ASSUME NEW a, Note(a)
    PROVE  cleared \subseteq cleared' /\ (task'[Ui].then = "cleared" => 1..snaps' \subseteq cleared')
BY DEF Note

LEMMA CallIsQuiet ==
    ASSUME TypeInv, StoreInv, NEW t \in Turns, Note(t), OneTurn,
           BeginCall(t) \/ Gate(t) \/ RunShell(t) \/ Plan(t) \/ Execute(t) \/ Applied(t)
             \/ Undo(t) \/ Report(t)
    PROVE  Quiet
<1>1. /\ t \in Actors /\ task \in [Actors -> TaskRecords(snaps)] /\ snaps \in Nat
      /\ left.events \in Nat /\ TakeInv(t)
  BY TaskFields, WorkspaceAssumption DEF TypeInv, SnapTyped, CallTyped, StoreInv
<1>2. UNCHANGED storeVars /\ cleared \subseteq cleared'
  BY NoteClears DEF BeginCall, Gate, RunShell, Plan, Execute, Applied, Undo, Report, diskVars
<1>3. left'.events = left.events
  BY <1>1 DEF BeginCall, Gate, RunShell, Plan, Execute, Applied, Undo, Report, TypeInv, CallTyped
<1>4. \A pc : Goto(t, [pc |-> pc]) => task'[t].pc = pc /\ task'[t].id = task[t].id
  <2> SUFFICES ASSUME NEW pc, Goto(t, [pc |-> pc])
               PROVE  task'[t].pc = pc /\ task'[t].id = task[t].id
    OBVIOUS
  <2>1. MovesTo(t, pc)
    BY <1>1, Gone
  <2> QED BY <1>1, <2>1, MovesFacts DEF MovesTo
<1>5. task'[t] = task[t] \/ Calmly(t)
  <2>1. CASE BeginCall(t)
    BY <1>1, <1>4, <2>1 DEF BeginCall, At, TakeInv, Calmly, MayOvershoot, Underway
  <2>2. CASE Gate(t)
    BY <1>1, <1>4, <2>2 DEF Gate, At, TakeInv, Calmly, MayOvershoot, Underway
  <2>3. CASE RunShell(t) \/ Plan(t) \/ Applied(t)
    BY <1>1, <1>4, <2>3 DEF RunShell, Plan, Applied, At, Calmly, MayOvershoot, Underway
  <2>4. CASE Execute(t)
    BY <1>1, <1>4, <2>4 DEF Execute, At, Calmly, MayOvershoot, Underway
  <2>5. CASE Undo(t)
    BY <1>1, <1>4, <2>5 DEF Undo, At, Calmly, MayOvershoot, Underway
  <2>6. CASE Report(t)
    <3>1. task'[t].pc = "idle" /\ task'[t].id = Nobody
      BY <1>1, <2>6, ReportTyped, MovesFacts
    <3>2. task[t].pc \in TurnOver
      BY <2>6, WorkspaceAssumption DEF Report
    <3> QED BY <3>1, <3>2 DEF TurnOver, Calmly, MayOvershoot, At
  <2> QED BY <2>1, <2>2, <2>3, <2>4, <2>5, <2>6
<1> QED BY <1>1, <1>2, <1>3, <1>5 DEF Quiet, OneTurn, storeVars, Listed

LEMMA UiIsQuiet ==
    ASSUME TypeInv, StoreInv, UiStep, Note(Ui)
    PROVE  /\ Quiet
           /\ task'[Ui].pc \in {"truncate", "write"} => task'[Ui].seen = <<>>
<1>1. /\ Ui \in Actors /\ task \in [Actors -> TaskRecords(snaps)] /\ snaps \in Nat
      /\ left.events \in Nat /\ ClearInv /\ PcOk(Ui) /\ Listed \in Seq(1..snaps)
      /\ \A t \in Turns : t \in Actors \ {Ui}
      /\ SnapTyped /\ \A b \in Actors : PcOk(b)
  BY TaskFields, ListedTyped, WorkspaceAssumption DEF TypeInv, SnapTyped, CallTyped, StoreInv
<1>2. cleared \subseteq cleared' /\ (task'[Ui].then = "cleared" => 1..snaps' \subseteq cleared')
  BY NoteClears
<1>3. left'.events \in Nat /\ left'.events <= left.events
  <2>1. UNCHANGED left \/ Happens
    BY DEF UiStep, Report
  <2> QED BY <1>1, <2>1 DEF Happens, TypeInv, CallTyped
<1>4. SUFFICES /\ UNCHANGED <<backend, snaps, taken>>
               /\ \A i \in 1..snaps : archives'[i] = archives[i] \/ i \in cleared'
               /\ Listed' = Listed \/ (Listed' = <<>> /\ 1..snaps \subseteq cleared')
               /\ \A b \in Actors \ {Ui} : task'[b] = task[b]
               /\ task'[Ui].pc \in {"truncate", "write"} => task'[Ui].seen = <<>>
  BY <1>1, <1>2, <1>3 DEF Quiet
<1>5. ASSUME NEW pc, Goto(Ui, [pc |-> pc])
      PROVE  /\ task'[Ui].pc = pc /\ task'[Ui].seen = task[Ui].seen /\ task'[Ui].then = task[Ui].then
             /\ \A b \in Actors \ {Ui} : task'[b] = task[b]
  <2>1. MovesTo(Ui, pc)
    BY <1>1, <1>5, Gone
  <2> QED BY <1>1, <2>1, MovesFacts DEF MovesTo
<1>6. CASE Clear(Ui)
  <2>1. Moves(Ui, "truncate", task[Ui].id, <<>>, "cleared", task[Ui].extra)
    BY <1>1, <1>6, ClearTyped
  <2>2. /\ task'[Ui].seen = <<>> /\ task'[Ui].then = "cleared"
        /\ \A b \in Actors \ {Ui} : task'[b] = task[b]
    BY <1>1, <2>1, MovesFacts
  <2>3. UNCHANGED <<backend, index, snaps, taken>>
    BY <1>6 DEF Clear
  <2> QED BY <1>2, <2>2, <2>3 DEF Listed
<1>7. CASE \E id \in Ids : RestoreBegin(Ui, id)
  <2>1. PICK id \in Ids : RestoreBegin(Ui, id)
    BY <1>7
  <2>2. PICK extra : Moves(Ui, "unpack", id, task[Ui].seen, task[Ui].then, extra)
    BY <1>1, <2>1, RestoreTyped
  <2>3. task'[Ui].pc = "unpack" /\ \A b \in Actors \ {Ui} : task'[b] = task[b]
    BY <1>1, <2>2, MovesFacts
  <2> QED BY <2>1, <2>3 DEF RestoreBegin, Listed
<1>8. CASE Truncate(Ui)
  <2>1. /\ task[Ui].then = "cleared" /\ task[Ui].seen = <<>>
    BY <1>1, <1>8 DEF Truncate, At, PcOk, ClearInv
  <2>2. UNCHANGED <<backend, archives, snaps, taken>>
    BY <1>8 DEF Truncate
  <2>3. CASE index' = Torn /\ Goto(Ui, [pc |-> "write"])
    BY <1>2, <1>5, <2>1, <2>2, <2>3 DEF Listed
  <2>4. CASE index' = index /\ Goto(Ui, [pc |-> "failed", id |-> Nobody])
    <3>1. Moves(Ui, "failed", Nobody, task[Ui].seen, task[Ui].then, task[Ui].extra)
      BY <1>1, <2>4, Gone
    <3>2. task'[Ui].pc = "failed" /\ \A b \in Actors \ {Ui} : task'[b] = task[b]
      BY <1>1, <3>1, MovesFacts
    <3> QED BY <2>2, <2>4, <3>2 DEF Listed
  <2> QED BY <1>8, <2>3, <2>4 DEF Truncate
<1>9. CASE Write(Ui)
  <2>1. /\ task[Ui].then = "cleared" /\ task[Ui].seen = <<>>
    BY <1>1, <1>9 DEF Write, At, PcOk, ClearInv
  <2>2. UNCHANGED <<backend, archives, snaps, taken>>
    BY <1>9 DEF Write
  <2>3. CASE index' = task[Ui].seen /\ Goto(Ui, [pc |-> task[Ui].then])
    BY <1>2, <1>5, <2>1, <2>2, <2>3 DEF Listed
  <2>4. CASE index' = index /\ Goto(Ui, [pc |-> "failed", id |-> Nobody])
    <3>1. Moves(Ui, "failed", Nobody, task[Ui].seen, task[Ui].then, task[Ui].extra)
      BY <1>1, <2>4, Gone
    <3>2. task'[Ui].pc = "failed" /\ \A b \in Actors \ {Ui} : task'[b] = task[b]
      BY <1>1, <3>1, MovesFacts
    <3> QED BY <2>2, <2>4, <3>2 DEF Listed
  <2> QED BY <1>9, <2>3, <2>4 DEF Write
<1>10. CASE Capture(Ui) \/ Push(Ui) \/ Prune(Ui)
  BY <1>1, <1>10 DEF Capture, Push, Prune, At, PcOk, UiPcs
<1>11. CASE Unpack(Ui) \/ Discard(Ui)
  <2>1. UNCHANGED <<backend, archives, index, snaps, taken>>
    BY <1>11 DEF Unpack, Discard
  <2>2. \E pc \in {"failed", "discard", "rewound"} : \E extra :
           Moves(Ui, pc, task[Ui].id, task[Ui].seen, task[Ui].then, extra)
    <3>1. CASE Unpack(Ui)
      <4>1. \E pc \in {"failed", "discard", "rewound"} : Goto(Ui, [pc |-> pc])
        BY <3>1 DEF Unpack
      <4> QED BY <1>1, <4>1, Gone DEF MovesTo
    <3>2. CASE Discard(Ui)
      BY <1>1, <3>2, Gone DEF Discard
    <3> QED BY <1>11, <3>1, <3>2
  <2>3. /\ task'[Ui].pc \in {"failed", "discard", "rewound"}
        /\ \A b \in Actors \ {Ui} : task'[b] = task[b]
    BY <1>1, <2>2, MovesFacts
  <2> QED BY <2>1, <2>3 DEF Listed
<1>12. CASE Report(Ui)
  <2>1. Moves(Ui, "idle", Nobody, <<>>, "idle", {})
    BY <1>1, <1>12, ReportTyped
  <2>2. task'[Ui].pc = "idle" /\ \A b \in Actors \ {Ui} : task'[b] = task[b]
    BY <1>1, <2>1, MovesFacts
  <2> QED BY <1>12, <2>2 DEF Report, diskVars, storeVars, Listed
<1> QED BY <1>6, <1>7, <1>8, <1>9, <1>10, <1>11, <1>12 DEF UiStep, SnapshotStep

LEMMA QuietOrTake ==
    ASSUME TypeInv, StoreInv, OneTurn, [Next]_vars
    PROVE  Quiet \/ \E t \in Turns : TakeStep(t)
<1>1. /\ Ui \in Actors /\ left.events \in Nat /\ \A t \in Turns : t \in Actors
  BY WorkspaceAssumption DEF TypeInv, CallTyped
<1>2. CASE \E t \in Turns : TurnStep(t) /\ Note(t)
  BY <1>2, CallIsQuiet DEF TurnStep, TakeStep
<1>3. CASE UiStep /\ Note(Ui)
  BY <1>3, UiIsQuiet
<1>4. CASE UserEdit
  <2>1. UNCHANGED <<storeVars, task>> /\ left'.events = left.events - 1 /\ left'.events \in Nat
    BY <1>1, <1>4 DEF UserEdit, diskVars, Happens, TypeInv, CallTyped
  <2>2. cleared \subseteq cleared'
    BY <1>4, NoteClears DEF UserEdit
  <2> QED BY <1>1, <2>1, <2>2 DEF Quiet, storeVars, Listed
<1>5. CASE Crash
  <2>1. UNCHANGED <<storeVars, cleared>> /\ left'.events = left.events - 1 /\ left'.events \in Nat
    BY <1>1, <1>5 DEF Crash, diskVars, Happens, TypeInv, CallTyped
  <2>2. \A t \in Turns : task'[t].pc = "idle" /\ task'[t].id = Nobody
    BY <1>1, <1>5 DEF Crash, Idle
  <2> QED BY <1>1, <2>1, <2>2 DEF Quiet, Calmly, storeVars, Listed
<1>6. CASE UNCHANGED vars
  BY <1>1, <1>6 DEF vars, snapVars, Quiet, Listed
<1> QED BY <1>2, <1>3, <1>4, <1>5, <1>6 DEF Next

\* No step brings back a failure that has happened.
LEMMA Spending ==
    ASSUME faults \in 0..MaxFaults, [Next]_vars
    PROVE  faults' \in 0..MaxFaults /\ faults' <= faults
<1>1. UNCHANGED faults \/ Fails => faults' \in 0..MaxFaults /\ faults' <= faults
  BY SnapshotsAssumption DEF Fails
<1>2. ASSUME NEW a, SnapshotStep(a) PROVE UNCHANGED faults \/ Fails
  BY <1>2 DEF SnapshotStep, Truncate, Write, Capture, Push, Prune, RemoveArchives, Unpack,
              Discard, Unremoved
<1>3. ASSUME NEW t, TurnStep(t) PROVE UNCHANGED faults \/ Fails
  BY <1>2, <1>3 DEF TurnStep, BeginCall, Gate, RunShell, Plan, Execute, Applied, Undo, Report,
                    diskVars
<1>4. ASSUME UiStep PROVE UNCHANGED faults \/ Fails
  <2>1. Clear(Ui) => UNCHANGED faults \/ Fails
    BY DEF Clear, RemoveArchives, Unremoved
  <2>2. ASSUME NEW id, RestoreBegin(Ui, id) PROVE UNCHANGED faults \/ Fails
    BY <2>2 DEF RestoreBegin, Unremoved
  <2>3. Report(Ui) => UNCHANGED faults
    BY DEF Report, diskVars
  <2> QED BY <1>2, <1>4, <2>1, <2>2, <2>3 DEF UiStep
<1>5. UserEdit \/ Crash \/ UNCHANGED vars => UNCHANGED faults
  BY DEF UserEdit, Crash, diskVars, vars, snapVars
<1> QED BY <1>1, <1>3, <1>4, <1>5 DEF Next

LEMMA LimitRises ==
    ASSUME TypeInv, faults \in 0..MaxFaults, faults' \in 0..MaxFaults, faults' <= faults,
           left'.events \in Nat, left'.events <= left.events
    PROVE  /\ Limit \in Nat /\ Limit' \in Nat /\ Retain <= Limit /\ Limit <= Limit'
           /\ left'.events < left.events \/ faults' < faults => Limit + 1 <= Limit'
<1>1. /\ Retain \in Nat /\ MaxEvents \in Nat /\ MaxFaults \in Nat
      /\ left.events \in Nat /\ left.events <= MaxEvents
  BY SnapshotsAssumption, WorkspaceAssumption DEF TypeInv, CallTyped
<1>2. /\ Limit = Retain + (MaxEvents - left.events) + (MaxFaults - faults)
      /\ Limit' = Retain + (MaxEvents - left'.events) + (MaxFaults - faults')
  BY DEF Limit
<1> QED BY <1>1, <1>2

LEMMA QuietStore ==
    ASSUME TypeInv, TypeInv', ListInv, \A t \in Turns : TakeInv(t), Quiet,
           faults \in 0..MaxFaults, faults' \in 0..MaxFaults, faults' <= faults
    PROVE  /\ ListInv' /\ \A t \in Turns : TakeInv(t)'
           /\ NetInv => NetInv'
<1>1. /\ snaps \in Nat /\ Retain \in Nat /\ MaxEvents \in Nat /\ left.events \in Nat
      /\ Listed \in Seq(1..snaps)
      /\ \A t \in Turns : task[t].seen \in Seq(1..snaps) /\ task[t].id \in 0..snaps
  BY TaskFields, ListedTyped, SnapshotsAssumption, WorkspaceAssumption DEF TypeInv, CallTyped
<1>2. /\ snaps' = snaps /\ cleared \subseteq cleared'
      /\ Listed' = Listed \/ (Listed' = <<>> /\ 1..snaps \subseteq cleared')
      /\ left'.events \in Nat /\ left'.events <= left.events
      /\ \A t \in Turns : task'[t] = task[t] \/ Calmly(t)
  BY DEF Quiet
<1>3. Kept \subseteq Kept'
  <2>1. Kept \ {} \subseteq Kept'
    BY <1>1, KeptStays DEF Quiet
  <2> QED BY <2>1
<1>4. Limit \in Nat /\ Limit' \in Nat /\ Limit <= Limit' /\ Retain <= Limit'
      /\ (left'.events < left.events => Limit + 1 <= Limit')
  BY <1>1, <1>2, LimitRises
<1>5. ListInv'
  <2>1. CASE Listed' = <<>>
    <3>1. Len(Listed') = 0
      BY <2>1
    <3>2. Rising(Listed)' /\ NewestKept(Listed)'
      BY <3>1 DEF Rising, NewestKept
    <3>3. Len(Listed') <= Limit' + (IF \E t \in Turns : MayOvershoot(t)' THEN 1 ELSE 0)
      <4>1. \A n \in Nat : 0 <= n + 0 /\ 0 <= n + 1
        OBVIOUS
      <4>2. Limit' \in Nat
        BY <1>4
      <4>3. 0 <= Limit' + 0 /\ 0 <= Limit' + 1
        BY <4>1, <4>2
      <4> QED BY <3>1, <4>3
    <3> QED BY <3>2, <3>3 DEF ListInv
  <2>2. CASE Listed' = Listed
    <3>1. Rising(Listed)' /\ NewestKept(Listed)'
      BY <1>1, <1>3, <2>2 DEF ListInv, Rising, NewestKept
    <3>2. \A t \in Turns : MayOvershoot(t) => MayOvershoot(t)' \/ Limit + 1 <= Limit'
      BY <1>2, <1>4 DEF MayOvershoot, At, Calmly
    <3>3. Len(Listed) <= Limit' + (IF \E t \in Turns : MayOvershoot(t)' THEN 1 ELSE 0)
      BY <1>1, <1>4, <3>2 DEF ListInv
    <3> QED BY <2>2, <3>1, <3>3 DEF ListInv
  <2> QED BY <1>2, <2>1, <2>2
<1>6. ASSUME NEW t \in Turns PROVE TakeInv(t)'
  <2>1. TakeInv(t)
    OBVIOUS
  <2>2. CASE task'[t] = task[t]
    <3>1. task[t].pc = "push" => snaps' \in Kept' /\ \A k \in 1..Len(Listed') : Listed'[k] < snaps'
      BY <1>2, <1>3, <2>1 DEF TakeInv
    <3>2. task[t].pc \in {"truncate", "write"} => NewestKept(task[t].seen)'
      BY <1>1, <1>3, <2>1, <2>2 DEF TakeInv, NewestKept
    <3>3. task[t].pc \in {"truncate", "write"} =>
             /\ Rising(task[t].seen)'
             /\ Len(task[t].seen) <= IF task[t].then = "prune" THEN Limit' + 1 ELSE Retain
      <4>1. task[t].pc \in {"truncate", "write"} => Rising(task[t].seen)
        BY <2>1 DEF TakeInv
      <4>2. task[t].pc \in {"truncate", "write"} => Rising(task[t].seen)'
        BY ONLY <2>2, <4>1 DEF Rising
      <4>3. task[t].pc \in {"truncate", "write"} =>
               Len(task[t].seen) <= IF task[t].then = "prune" THEN Limit + 1 ELSE Retain
        BY <2>1 DEF TakeInv
      <4>4. Len(task[t].seen) \in Nat
        BY <1>1
      <4>5. task[t].pc \in {"truncate", "write"} =>
               Len(task[t].seen) <= IF task[t].then = "prune" THEN Limit' + 1 ELSE Retain
        BY ONLY <1>1, <1>4, <4>3, <4>4
      <4> QED BY <4>2, <4>5
    <3>4. task[t].pc = "write" => Listed' = <<>>
      BY <1>2, <2>1 DEF TakeInv
    <3>5. task[t].pc \in {"idle", "take", "failed"} => task[t].id = Nobody
      BY <2>1 DEF TakeInv
    <3>6. task[t].pc = "push" => task[t].id = snaps'
      BY <1>2, <2>1 DEF TakeInv
    <3>7. task[t].pc \in Underway /\ task[t].id # Nobody => Len(Listed') <= Retain
      BY <1>1, <1>2, <2>1 DEF TakeInv
    <3> QED BY <2>2, <3>1, <3>2, <3>3, <3>4, <3>5, <3>6, <3>7 DEF TakeInv
  <2>3. CASE Calmly(t)
    <3>1. task'[t].pc \in Underway /\ task'[t].id # Nobody => Len(Listed') <= Retain
      BY <1>1, <1>2, <2>1, <2>3 DEF TakeInv, Calmly
    <3>2. task'[t].pc \in {"idle", "take", "failed"} => task'[t].id = Nobody
      BY <2>3 DEF Calmly, Underway
    <3> QED BY <2>3, <3>1, <3>2 DEF Calmly, TakeInv
  <2> QED BY <1>2, <2>2, <2>3
<1>7. ASSUME NetInv, NEW t \in Turns, task'[t].id \notin cleared' \union {Nobody}
      PROVE  /\ task'[t].id \in Kept'
             /\ task'[t].pc \in {"truncate", "write"} => EndsWith(task[t].seen, task[t].id)'
             /\ task'[t].pc \notin {"push", "truncate", "write"} => EndsWith(Listed, task[t].id)'
  <2>1. task'[t].id = task[t].id
    BY <1>2, <1>7 DEF Calmly
  <2>2. /\ task[t].id \in Kept
        /\ task[t].pc \in {"truncate", "write"} => EndsWith(task[t].seen, task[t].id)
        /\ task[t].pc \notin {"push", "truncate", "write"} => EndsWith(Listed, task[t].id)
    BY <1>2, <1>7, <2>1 DEF NetInv, NetOf
  <2>3. Listed' = Listed
    BY <1>1, <1>2, <1>7, <2>1 DEF Nobody
  <2>4. CASE task'[t] = task[t]
    BY <1>3, <2>2, <2>3, <2>4 DEF EndsWith
  <2>5. CASE Calmly(t)
    BY <1>3, <1>7, <2>1, <2>2, <2>3, <2>5 DEF EndsWith, Calmly, Underway
  <2> QED BY <1>2, <2>4, <2>5
<1> QED BY <1>5, <1>6, <1>7 DEF NetInv, NetOf

\* What each step of a take has to show.
TakeGoal(t) == ListInv' /\ TakeInv(t)' /\ (Retain > 0 /\ NetOf(t) => NetOf(t)')

LEMMA TakeTypes ==
    ASSUME TypeInv, faults \in 0..MaxFaults, NEW t \in Turns
    PROVE  /\ t \in Actors /\ t # Ui /\ task \in [Actors -> TaskRecords(snaps)] /\ snaps \in Nat
           /\ Retain \in Nat /\ MaxEvents \in Nat /\ left.events \in Nat /\ Limit \in Nat
           /\ Retain <= Limit /\ Listed \in Seq(1..snaps) /\ task[t].seen \in Seq(1..snaps)
           /\ task[t].id \in 0..snaps /\ PcOk(t)
<1>1. /\ t \in Actors /\ t # Ui /\ task \in [Actors -> TaskRecords(snaps)] /\ PcOk(t)
      /\ Listed \in Seq(1..snaps)
  BY ListedTyped, WorkspaceAssumption DEF TypeInv, SnapTyped
<1>2. snaps \in Nat /\ task[t].seen \in Seq(1..snaps) /\ task[t].id \in 0..snaps
  BY <1>1, TaskFields DEF TypeInv
<1>3. /\ Retain \in Nat /\ MaxEvents \in Nat /\ left.events \in Nat /\ left.events <= MaxEvents
      /\ MaxFaults \in Nat
  BY SnapshotsAssumption, WorkspaceAssumption DEF TypeInv, CallTyped
<1>4. Limit \in Nat /\ Retain <= Limit
  BY <1>3 DEF Limit
<1> QED BY <1>1, <1>2, <1>3, <1>4

\* A step of a take that fails raises the limit.
LEMMA TakeLimits ==
    ASSUME TypeInv, StoreInv, NEW t \in Turns, TakeStep(t)
    PROVE  /\ Limit \in Nat /\ Limit' \in Nat /\ Retain <= Limit /\ Limit <= Limit'
           /\ UNCHANGED faults => Limit' = Limit
           /\ Fails => Limit + 1 <= Limit'
<1>1. faults \in 0..MaxFaults /\ faults' \in 0..MaxFaults /\ faults' <= faults
  BY Spending DEF StoreInv, TakeStep, Next, TurnStep
<1>2. UNCHANGED left /\ left.events \in Nat
  BY TakeTypes DEF TakeStep, StoreInv
<1>3. UNCHANGED faults => Limit' = Limit
  BY <1>2 DEF Limit
<1>4. Fails => faults' < faults
  BY <1>1 DEF Fails
<1> QED BY <1>1, <1>2, <1>3, <1>4, LimitRises

LEMMA TruncateStep ==
    ASSUME TypeInv, TypeInv', StoreInv, NEW t \in Turns, TakeStep(t), Truncate(t)
    PROVE  TakeGoal(t)
<1>1. /\ t \in Actors /\ task \in [Actors -> TaskRecords(snaps)] /\ snaps \in Nat
      /\ Limit \in Nat /\ Limit' \in Nat /\ Limit <= Limit'
      /\ task[t].seen \in Seq(1..snaps) /\ Listed \in Seq(1..snaps) /\ TakeInv(t)
  BY TakeTypes, TakeLimits DEF StoreInv
<1>2. /\ UNCHANGED <<backend, archives, snaps, taken, left>>
      /\ cleared \subseteq cleared' /\ task[t].pc = "truncate"
  BY NoteClears DEF Truncate, TakeStep, At
<1>3. Kept \subseteq Kept'
  <2>1. Kept \ {} \subseteq Kept'
    BY <1>1, <1>2, KeptStays
  <2> QED BY <2>1
<1>4. CASE index' = Torn /\ Goto(t, [pc |-> "write"]) /\ UNCHANGED faults
  <2>1. /\ task'[t].pc = "write" /\ task'[t].id = task[t].id /\ task'[t].seen = task[t].seen
        /\ task'[t].then = task[t].then
    <3>1. MovesTo(t, "write")
      BY <1>1, <1>4, Gone
    <3> QED BY <1>1, <3>1, MovesFacts DEF MovesTo
  <2>2. Listed' = <<>> /\ Limit' = Limit
    BY <1>4, TakeLimits DEF Listed
  <2>3. ListInv'
    BY <1>1, <2>2 DEF ListInv, Rising, NewestKept
  <2>4. TakeInv(t)'
    <3>1. NewestKept(task[t].seen)'
      BY <1>1, <1>2, <1>3, <2>1 DEF TakeInv, NewestKept
    <3>2. Rising(task[t].seen)'
      BY <1>1, <1>2, <2>1 DEF TakeInv, Rising
    <3> QED BY <1>1, <1>2, <2>1, <2>2, <3>1, <3>2 DEF TakeInv, Underway
  <2>5. NetOf(t) => NetOf(t)'
    BY <1>2, <1>3, <2>1 DEF NetOf, EndsWith
  <2> QED BY <2>3, <2>4, <2>5 DEF TakeGoal
<1>5. CASE index' = index /\ Goto(t, [pc |-> "failed", id |-> Nobody]) /\ Fails
  <2>1. task'[t].pc = "failed" /\ task'[t].id = Nobody
    <3>1. Moves(t, "failed", Nobody, task[t].seen, task[t].then, task[t].extra)
      BY <1>1, <1>5, Gone
    <3> QED BY <1>1, <3>1, MovesFacts
  <2>2. Listed' = Listed /\ Limit + 1 <= Limit'
    BY <1>5, TakeLimits DEF Listed
  <2>3. Rising(Listed)' /\ NewestKept(Listed)'
    BY <1>1, <1>3, <2>2 DEF StoreInv, ListInv, Rising, NewestKept
  <2>4. Len(Listed) <= Limit + 1
    BY <1>1 DEF StoreInv, ListInv
  <2>5. ListInv'
    BY <1>1, <2>2, <2>3, <2>4 DEF ListInv
  <2> QED BY <2>1, <2>5 DEF TakeGoal, TakeInv, NetOf, Underway
<1> QED BY <1>4, <1>5 DEF Truncate

LEMMA WriteStep ==
    ASSUME TypeInv, TypeInv', StoreInv, NEW t \in Turns, TakeStep(t), Write(t)
    PROVE  TakeGoal(t)
<1>1. /\ t \in Actors /\ task \in [Actors -> TaskRecords(snaps)] /\ snaps \in Nat
      /\ Limit \in Nat /\ Limit' \in Nat /\ Retain \in Nat /\ Retain <= Limit
      /\ task[t].seen \in Seq(1..snaps) /\ TakeInv(t)
  BY TakeTypes, TakeLimits DEF StoreInv
<1>2. /\ UNCHANGED <<backend, archives, snaps, taken, left>>
      /\ cleared \subseteq cleared' /\ task[t].pc = "write" /\ task[t].then \in {"prune", "taken"}
  BY TakeTypes, NoteClears DEF Write, TakeStep, At, PcOk, StoreInv
<1>3. UNCHANGED faults => Limit' = Limit
  BY TakeLimits
<1>4. Kept \subseteq Kept'
  <2>1. Kept \ {} \subseteq Kept'
    BY <1>1, <1>2, KeptStays
  <2> QED BY <2>1
<1>5. CASE index' = task[t].seen /\ Goto(t, [pc |-> task[t].then]) /\ UNCHANGED faults
  <2>1. MovesTo(t, task[t].then)
    BY <1>1, <1>5, Gone
  <2>2. /\ task'[t].pc = task[t].then /\ task'[t].id = task[t].id
    BY <1>1, <2>1, MovesFacts DEF MovesTo
  <2>3. Listed' = task[t].seen
    <3>1. 1..snaps \subseteq Ids
      BY SnapshotsAssumption DEF TypeInv, SnapTyped, Ids
    <3>2. task[t].seen \in Seq(Ids)
      BY <1>1, <3>1, SeqMonotonic
    <3> QED BY <1>5, <3>2, SnapshotsAssumption DEF Listed
  <2>4. Rising(Listed)' /\ NewestKept(Listed)'
    BY <1>1, <1>2, <1>4, <2>3 DEF TakeInv, Rising, NewestKept
  <2>5. Len(Listed') <= Limit + (IF MayOvershoot(t)' THEN 1 ELSE 0)
    BY <1>1, <1>2, <2>2, <2>3 DEF TakeInv, MayOvershoot, At
  <2>6. ListInv'
    BY <1>1, <1>3, <1>5, <2>3, <2>4, <2>5 DEF ListInv
  <2>7. TakeInv(t)'
    <3>1. task[t].then = "taken" => Len(Listed') <= Retain
      BY <1>1, <1>2, <2>3 DEF TakeInv
    <3>2. task'[t].pc \in {"prune", "taken"} /\ (task'[t].pc = "taken" => task[t].then = "taken")
      BY <1>2, <2>2
    <3> QED BY <3>1, <3>2 DEF TakeInv, Underway
  <2>8. NetOf(t) => NetOf(t)'
    <3> SUFFICES ASSUME NetOf(t), task[t].id \notin cleared \union {Nobody}
                 PROVE  task[t].id \in Kept' /\ EndsWith(Listed', task[t].id)
      BY <1>2, <2>2, <2>3 DEF NetOf, EndsWith
    <3> QED BY <1>2, <1>4, <2>3 DEF NetOf, EndsWith
  <2> QED BY <2>6, <2>7, <2>8 DEF TakeGoal
<1>6. CASE index' = index /\ Goto(t, [pc |-> "failed", id |-> Nobody])
  <2>1. Moves(t, "failed", Nobody, task[t].seen, task[t].then, task[t].extra)
    BY <1>1, <1>6, Gone
  <2>2. task'[t].pc = "failed" /\ task'[t].id = Nobody
    BY <1>1, <2>1, MovesFacts
  <2>3. Listed' = <<>>
    BY <1>1, <1>2, <1>6 DEF Listed, TakeInv
  <2>4. ListInv'
    <3>1. Rising(Listed)' /\ NewestKept(Listed)'
      BY <2>3 DEF Rising, NewestKept
    <3>2. Len(Listed') = 0
      BY <2>3
    <3>3. Limit' \in Nat /\ \A n \in Nat : 0 <= n + 0 /\ 0 <= n + 1
      BY <1>1
    <3>4. 0 <= Limit' + 0 /\ 0 <= Limit' + 1
      BY <3>3
    <3>5. Len(Listed') <= Limit' + (IF \E u \in Turns : MayOvershoot(u)' THEN 1 ELSE 0)
      BY <3>2, <3>4
    <3> QED BY <3>1, <3>5 DEF ListInv
  <2> QED BY <2>2, <2>4 DEF TakeGoal, TakeInv, NetOf, Underway
<1>7. \/ index' = task[t].seen /\ Goto(t, [pc |-> task[t].then]) /\ UNCHANGED faults
      \/ index' = index /\ Goto(t, [pc |-> "failed", id |-> Nobody])
  BY DEF Write
<1> QED BY <1>5, <1>6, <1>7

LEMMA CaptureStep ==
    ASSUME TypeInv, TypeInv', StoreInv, NEW t \in Turns, TakeStep(t), Capture(t)
    PROVE  TakeGoal(t)
<1>1. /\ t \in Actors /\ task \in [Actors -> TaskRecords(snaps)] /\ snaps \in Nat
      /\ snaps <= MaxSnaps /\ MaxSnaps \in Nat
      /\ Limit \in Nat /\ Limit' \in Nat /\ Limit <= Limit'
      /\ Listed \in Seq(1..snaps) /\ TakeInv(t)
      /\ archives = [i \in Ids |-> archives[i]] /\ taken = [i \in Ids |-> taken[i]]
  BY TakeTypes, TakeLimits, SnapshotsAssumption DEF StoreInv, TypeInv, SnapTyped
<1>2. /\ UNCHANGED <<backend, index, left>> /\ cleared \subseteq cleared'
      /\ task[t].pc = "take"
  BY NoteClears DEF Capture, TakeStep, At
<1>3. Listed' = Listed
  BY <1>2 DEF Listed
<1>4. \A pc, id : Goto(t, [pc |-> pc, id |-> id]) => task'[t].pc = pc /\ task'[t].id = id
  <2> SUFFICES ASSUME NEW pc, NEW id, Goto(t, [pc |-> pc, id |-> id])
               PROVE  task'[t].pc = pc /\ task'[t].id = id
    OBVIOUS
  <2>1. Moves(t, pc, id, task[t].seen, task[t].then, task[t].extra)
    BY <1>1, Gone
  <2> QED BY <1>1, <2>1, MovesFacts
<1>5. /\ snaps' \in Nat /\ snaps <= snaps'
      /\ \A i \in 1..snaps : taken'[i] = taken[i] /\ archives'[i] = archives[i]
  BY <1>1 DEF Capture, Ids
<1>6. Kept \subseteq Kept'
  <2>1. Kept \ {} \subseteq Kept'
    BY <1>1, <1>2, <1>5, KeptStays
  <2> QED BY <2>1
<1>7. ListInv'
  <2>1. Rising(Listed)' /\ NewestKept(Listed)'
    BY <1>1, <1>3, <1>6 DEF StoreInv, ListInv, Rising, NewestKept
  <2>2. \A u \in Turns : MayOvershoot(u) => MayOvershoot(u)'
    <3>1. \A u \in Turns \ {t} : task'[u] = task[u]
      BY <1>1, WorkspaceAssumption DEF Capture, Goto
    <3>2. ~MayOvershoot(t)
      BY <1>2 DEF MayOvershoot, At
    <3> QED BY <3>1, <3>2 DEF MayOvershoot, At
  <2> QED BY <1>1, <1>3, <2>1, <2>2 DEF StoreInv, ListInv
<1>8. CASE Goto(t, [pc |-> "taken", id |-> Nobody]) \/ Goto(t, [pc |-> "failed", id |-> Nobody])
  <2>1. task'[t].pc \in {"taken", "failed"} /\ task'[t].id = Nobody
    BY <1>4, <1>8
  <2> QED BY <1>7, <2>1 DEF TakeGoal, TakeInv, NetOf, Underway
<1>9. CASE /\ Goto(t, [pc |-> "push", id |-> snaps + 1])
           /\ snaps' = snaps + 1 /\ snaps < MaxSnaps
           /\ taken' = [taken EXCEPT ![snaps + 1] = ws]
           /\ archives' = [archives EXCEPT ![snaps + 1] = Captured(ws)]
  <2>1. task'[t].pc = "push" /\ task'[t].id = snaps + 1
    BY <1>4, <1>9
  <2>2. taken'[snaps + 1] = ws /\ archives'[snaps + 1] = Captured(ws)
    BY <1>1, <1>9 DEF Ids
  <2>3. Restorable(snaps)'
    <3>1. archives'[snaps'] = Captured(taken'[snaps'])
      BY <1>9, <2>2
    <3> QED BY <1>2, <1>9, <2>2, SameCapture DEF Restorable, Captured
  <2>4. snaps' \in Kept'
    BY <1>1, <1>9, <2>3 DEF Kept
  <2>5. \A k \in 1..Len(Listed') : Listed'[k] < snaps'
    BY <1>1, <1>3, <1>9
  <2>6. TakeInv(t)'
    BY <1>9, <2>1, <2>4, <2>5 DEF TakeInv, Underway
  <2>7. NetOf(t)'
    BY <1>9, <2>1, <2>4 DEF NetOf
  <2> QED BY <1>7, <2>6, <2>7 DEF TakeGoal
<1> QED BY <1>8, <1>9 DEF Capture

LEMMA PushStep ==
    ASSUME TypeInv, TypeInv', StoreInv, OneTurn, NEW t \in Turns, TakeStep(t), Push(t)
    PROVE  TakeGoal(t)
<1> DEFINE seen == Append(Listed, task[t].id)
<1>1. /\ t \in Actors /\ task \in [Actors -> TaskRecords(snaps)] /\ snaps \in Nat
      /\ Limit \in Nat /\ Retain \in Nat /\ Listed \in Seq(1..snaps) /\ TakeInv(t)
  BY TakeTypes DEF StoreInv
<1>2. /\ UNCHANGED <<backend, archives, index, snaps, taken, left>>
      /\ cleared \subseteq cleared' /\ task[t].pc = "push"
  BY NoteClears DEF Push, TakeStep, At
<1>3. Limit' = Limit /\ Listed' = Listed
  BY <1>2, TakeLimits DEF Push, Listed
<1>4. Kept \subseteq Kept'
  <2>1. Kept \ {} \subseteq Kept'
    BY <1>1, <1>2, KeptStays
  <2> QED BY <2>1
<1>5. /\ task'[t].pc = "truncate" /\ task'[t].id = task[t].id
      /\ task'[t].seen = seen /\ task'[t].then = "prune"
  <2>1. Moves(t, "truncate", task[t].id, seen, "prune", task[t].extra)
    BY <1>1, Gone DEF Push
  <2> HIDE DEF seen
  <2> QED BY <1>1, <2>1, MovesFacts
<1>6. /\ task[t].id = snaps /\ snaps \in Kept /\ snaps \in 1..snaps
      /\ \A k \in 1..Len(Listed) : Listed[k] < snaps
  BY <1>1, <1>2 DEF TakeInv, Kept
<1>7. /\ Len(seen) = Len(Listed) + 1 /\ seen[Len(Listed) + 1] = snaps
      /\ \A k \in 1..Len(Listed) : seen[k] = Listed[k]
  BY <1>1, <1>6
<1> HIDE DEF seen
<1>8. Rising(Listed) /\ NewestKept(Listed) /\ Len(Listed) <= Limit
  BY <1>1, <1>2 DEF StoreInv, ListInv, MayOvershoot, At, OneTurn
<1>9. Rising(seen) /\ \A k \in 1..Len(seen) : k > Len(seen) - Retain => seen[k] \in Kept
  <2>1. Rising(seen)
    <3> SUFFICES ASSUME NEW j \in 1..Len(seen), NEW k \in 1..Len(seen), j < k
                 PROVE  seen[j] < seen[k]
      BY DEF Rising
    <3>1. j \in 1..Len(Listed) /\ seen[j] = Listed[j]
      BY <1>1, <1>7
    <3>2. CASE k = Len(Listed) + 1
      BY <1>6, <1>7, <3>1, <3>2
    <3>3. CASE k \in 1..Len(Listed)
      BY <1>7, <1>8, <3>1, <3>3 DEF Rising
    <3> QED BY <1>1, <1>7, <3>2, <3>3
  <2>2. ASSUME NEW k \in 1..Len(seen), k > Len(seen) - Retain PROVE seen[k] \in Kept
    BY <1>1, <1>6, <1>7, <1>8, <2>2 DEF NewestKept
  <2> QED BY <2>1, <2>2
<1>10. ListInv'
  BY <1>1, <1>3, <1>4, <1>8 DEF ListInv, Rising, NewestKept
<1>11. TakeInv(t)'
  <2>1. Rising(task[t].seen)' /\ NewestKept(task[t].seen)'
    BY <1>4, <1>5, <1>9 DEF Rising, NewestKept
  <2>2. Len(task'[t].seen) <= Limit' + 1
    BY <1>1, <1>3, <1>5, <1>7, <1>8
  <2> QED BY <1>5, <2>1, <2>2 DEF TakeInv, Underway
<1>12. NetOf(t) => NetOf(t)'
  <2>1. Len(seen) > 0 /\ seen[Len(seen)] = task[t].id
    BY <1>1, <1>6, <1>7
  <2> QED BY <1>2, <1>4, <1>5, <1>6, <2>1 DEF NetOf, EndsWith
<1> QED BY <1>10, <1>11, <1>12 DEF TakeGoal

\* A list without its first m entries.
LEMMA Without ==
    ASSUME NEW T, NEW s \in Seq(T), NEW m \in Nat, m <= Len(s)
    PROVE  /\ Len(SubSeq(s, m + 1, Len(s))) = Len(s) - m
           /\ SubSeq(s, m + 1, Len(s)) \in Seq(T)
           /\ \A j \in 1..(Len(s) - m) : SubSeq(s, m + 1, Len(s))[j] = s[m + j]
<1>1. /\ m + 1 \in Int /\ Len(s) \in Int /\ Len(s) - (m + 1) + 1 = Len(s) - m
      /\ \A i \in (m + 1)..Len(s) : s[i] \in T
  OBVIOUS
<1>2. m + 1 <= Len(s) \/ Len(s) - m = 0
  OBVIOUS
<1>3. \A j \in 1..(Len(s) - m) : (m + 1) + j - 1 = m + j
  OBVIOUS
<1>4. /\ SubSeq(s, m + 1, Len(s)) \in Seq(T)
      /\ Len(SubSeq(s, m + 1, Len(s))) = IF m + 1 <= Len(s) THEN Len(s) - (m + 1) + 1 ELSE 0
      /\ \A j \in 1..(Len(s) - (m + 1) + 1) :
            SubSeq(s, m + 1, Len(s))[j] = s[(m + 1) + j - 1]
  <2> DEFINE from == m + 1
             to   == Len(s)
  <2>1. from \in Int /\ to \in Int /\ \A i \in from..to : s[i] \in T
    BY <1>1
  <2> HIDE DEF from, to
  <2>2. /\ SubSeq(s, from, to) \in Seq(T)
        /\ Len(SubSeq(s, from, to)) = IF from <= to THEN to - from + 1 ELSE 0
        /\ \A j \in 1..(to - from + 1) : SubSeq(s, from, to)[j] = s[from + j - 1]
    BY <2>1, SubSeqProperties
  <2> QED BY <2>2, Zenon DEF from, to
<1> DEFINE rest == SubSeq(s, m + 1, Len(s))
<1> HIDE DEF rest
<1>5. Len(rest) = Len(s) - m /\ rest \in Seq(T)
  BY <1>1, <1>2, <1>4, Zenon DEF rest
<1>6. ASSUME NEW j \in 1..(Len(s) - m) PROVE rest[j] = s[m + j]
  BY <1>1, <1>3, <1>4 DEF rest
<1> QED BY <1>5, <1>6 DEF rest

LEMMA PruneStep ==
    ASSUME TypeInv, TypeInv', StoreInv, NEW t \in Turns, TakeStep(t), Prune(t)
    PROVE  TakeGoal(t)
<1>1. /\ t \in Actors /\ task \in [Actors -> TaskRecords(snaps)] /\ snaps \in Nat
      /\ Limit \in Nat /\ Limit' \in Nat /\ Limit <= Limit'
      /\ Retain \in Nat /\ Retain <= Limit
      /\ Listed \in Seq(1..snaps) /\ TakeInv(t)
  BY TakeTypes, TakeLimits DEF StoreInv
<1>2. /\ UNCHANGED <<backend, index, snaps, taken, left>>
      /\ cleared \subseteq cleared' /\ task[t].pc = "prune"
  BY NoteClears DEF Prune, TakeStep, At
<1>3. Listed' = Listed
  BY <1>2 DEF Listed
<1>4. /\ Rising(Listed) /\ NewestKept(Listed)
      /\ Len(Listed) <= Limit + 1
  BY <1>1 DEF StoreInv, ListInv
<1>5. CASE Len(Listed) <= Retain
  <2>1. MovesTo(t, "taken") /\ UNCHANGED archives
    BY <1>1, <1>5, Gone DEF Prune
  <2>2. task'[t].pc = "taken" /\ task'[t].id = task[t].id
    BY <1>1, <2>1, MovesFacts DEF MovesTo
  <2>3. Kept \subseteq Kept'
    <3>1. Kept \ {} \subseteq Kept'
      BY <1>1, <1>2, <2>1, KeptStays
    <3> QED BY <3>1
  <2>4. ListInv'
    BY <1>1, <1>3, <1>4, <1>5, <2>3 DEF ListInv, Rising, NewestKept
  <2>5. TakeInv(t)' /\ (NetOf(t) => NetOf(t)')
    BY <1>2, <1>3, <1>5, <2>2, <2>3 DEF TakeInv, NetOf, EndsWith, Underway
  <2> QED BY <2>4, <2>5 DEF TakeGoal
<1>6. CASE Len(Listed) > Retain
  <2> DEFINE cutoff == Len(Listed) - Retain
             rest == SubSeq(Listed, cutoff + 1, Len(Listed))
             S == {Listed[k] : k \in 1..cutoff}
  <2>1. cutoff \in Nat /\ cutoff > 0 /\ cutoff + Retain = Len(Listed)
    BY <1>1, <1>6
  <2>2. Goto(t, [pc |-> "truncate", seen |-> rest, then |-> "taken"])
    BY <1>1, <1>6 DEF Prune
  <2>3. \A i \in (1..snaps) \ S : taken'[i] = taken[i] /\ archives'[i] = archives[i]
    <3>1. RemoveArchives(cutoff)
      BY <1>1, <1>6 DEF Prune
    <3>2. \A i \in Ids : archives'[i] = archives[i] \/ i \in S
      BY <3>1, Removed DEF TypeInv
    <3>3. 1..snaps \subseteq Ids
      BY SnapshotsAssumption DEF TypeInv, SnapTyped, Ids
    <3> QED BY <1>2, <3>2, <3>3
  <2>4. Kept \ S \subseteq Kept'
    <3> HIDE DEF S
    <3> QED BY <1>1, <1>2, <2>3, KeptStays
  <2>5. /\ Len(rest) = Retain /\ rest \in Seq(1..snaps)
        /\ \A j \in 1..Retain : rest[j] = Listed[cutoff + j]
    <3> HIDE DEF S, cutoff
    <3>1. Len(Listed) - cutoff = Retain /\ cutoff <= Len(Listed)
      BY <1>1, <2>1
    <3> QED BY <1>1, <2>1, <3>1, Without
  <2>6. \A k \in 1..Len(Listed) : k > cutoff => Listed[k] \in Kept'
    <3> SUFFICES ASSUME NEW k \in 1..Len(Listed), k > cutoff PROVE Listed[k] \in Kept \ S
      BY <2>4
    <3>1. Listed[k] \in Kept
      BY <1>4 DEF NewestKept
    <3>2. \A j \in 1..cutoff : Listed[j] < Listed[k]
      BY <1>1, <1>4, <2>1 DEF Rising
    <3>3. \A j \in 1..cutoff : Listed[j] # Listed[k]
      BY <1>1, <2>1, <3>2
    <3> QED BY <3>1, <3>3
  <2> HIDE DEF rest, S
  <2>7. /\ task'[t].pc = "truncate" /\ task'[t].id = task[t].id
        /\ task'[t].seen = rest /\ task'[t].then = "taken"
    <3>1. Moves(t, "truncate", task[t].id, rest, "taken", task[t].extra)
      BY <1>1, <2>2, Gone
    <3> QED BY <1>1, <3>1, MovesFacts
  <2>8. ListInv'
    <3>1. MayOvershoot(t)'
      BY <2>7 DEF MayOvershoot, At
    <3>2. Rising(Listed)' /\ NewestKept(Listed)'
      BY <1>1, <1>3, <1>4, <2>1, <2>6 DEF Rising, NewestKept
    <3> QED BY <1>1, <1>3, <1>4, <3>1, <3>2 DEF ListInv
  <2>9. TakeInv(t)'
    <3>1. Rising(rest)
      <4> SUFFICES ASSUME NEW j \in 1..Retain, NEW k \in 1..Retain, j < k
                   PROVE  rest[j] < rest[k]
        BY <2>5 DEF Rising
      <4>1. cutoff + j \in 1..Len(Listed) /\ cutoff + k \in 1..Len(Listed) /\ cutoff + j < cutoff + k
        BY <1>1, <2>1
      <4> QED BY <1>4, <2>5, <4>1 DEF Rising
    <3>2. ASSUME NEW k \in 1..Len(rest) PROVE rest[k] \in Kept'
      <4>1. cutoff + k \in 1..Len(Listed) /\ cutoff + k > cutoff
        BY <1>1, <2>1, <2>5
      <4> QED BY <2>5, <2>6, <4>1
    <3>3. Rising(task[t].seen)' /\ NewestKept(task[t].seen)'
      BY <2>7, <3>1, <3>2 DEF Rising, NewestKept
    <3> QED BY <1>1, <2>5, <2>7, <3>3 DEF TakeInv, Underway
  <2>10. ASSUME Retain > 0, NetOf(t) PROVE NetOf(t)'
    <3> SUFFICES ASSUME task[t].id \notin cleared \union {Nobody}
                 PROVE  task[t].id \in Kept' /\ EndsWith(rest, task[t].id)
      BY <1>2, <2>7 DEF NetOf, EndsWith
    <3>1. EndsWith(Listed, task[t].id)
      BY <1>2, <2>10 DEF NetOf
    <3>2. rest[Len(rest)] = Listed[Len(Listed)] /\ Len(rest) > 0
      BY <1>1, <2>1, <2>5, <2>10
    <3>3. Listed[Len(Listed)] \in Kept'
      <4>1. Len(Listed) \in 1..Len(Listed) /\ Len(Listed) > cutoff
        BY <1>1, <2>1, <2>10
      <4> QED BY <2>6, <4>1
    <3> QED BY <3>1, <3>2, <3>3 DEF EndsWith
  <2> QED BY <2>8, <2>9, <2>10 DEF TakeGoal
<1> QED BY <1>1, <1>5, <1>6

LEMMA TakeStepHolds ==
    ASSUME TypeInv, TypeInv', StoreInv, OneTurn, NEW t \in Turns, TakeStep(t)
    PROVE  TakeGoal(t)
<1>1. task[t].pc \in {"take", "push", "truncate", "write", "prune"}
  BY SnapshotPcs DEF TakeStep
<1>2. ~Unpack(t) /\ ~Discard(t)
  BY <1>1 DEF Unpack, Discard, At
<1> QED BY <1>2, TruncateStep, WriteStep, CaptureStep, PushStep, PruneStep
        DEF TakeStep, SnapshotStep

LEMMA ClearStep ==
    ASSUME TypeInv, StoreInv, [Next]_vars
    PROVE  ClearInv'
<1>1. ClearInv /\ Ui \in Actors /\ \A t \in Turns : t # Ui
  BY WorkspaceAssumption DEF StoreInv
<1>2. CASE \E t \in Turns : TurnStep(t) /\ Note(t)
  <2>1. PICK t \in Turns : TurnStep(t) /\ Note(t)
    BY <1>2
  <2>2. task'[Ui] = task[Ui]
    BY <1>1, <2>1, OthersStay, WorkspaceAssumption DEF Stays
  <2> QED BY <1>1, <2>1, <2>2, NoteClears DEF ClearInv
<1>3. CASE UiStep /\ Note(Ui)
  BY <1>3, UiIsQuiet, NoteClears DEF ClearInv
<1>4. CASE UserEdit
  <2>1. task' = task /\ Note(Nobody)
    BY <1>4 DEF UserEdit
  <2> QED BY <1>1, <2>1, NoteClears DEF ClearInv
<1>5. CASE Crash
  BY <1>1, <1>5 DEF Crash, Idle, ClearInv
<1>6. CASE UNCHANGED vars
  BY <1>1, <1>6 DEF vars, snapVars, ClearInv
<1> QED BY <1>2, <1>3, <1>4, <1>5, <1>6 DEF Next

LEMMA StoreNetStep ==
    ASSUME TypeInv, StoreInv, OneTurn, [Next]_vars
    PROVE  StoreInv' /\ (Retain > 0 /\ NetInv => NetInv')
<1>1. TypeInv' /\ ClearInv' /\ faults' \in 0..MaxFaults /\ faults' <= faults
  BY TypeStep, ClearStep, Spending DEF StoreInv
<1>2. CASE Quiet
  BY <1>1, <1>2, QuietStore DEF StoreInv
<1>3. CASE \E t \in Turns : TakeStep(t)
  BY <1>1, <1>3, TakeStepHolds DEF StoreInv, NetInv, OneTurn, TakeGoal
<1> QED BY <1>2, <1>3, QuietOrTake

LEMMA StoreNetInit == Init => StoreInv /\ NetInv
<1> SUFFICES ASSUME Init PROVE StoreInv /\ NetInv
  OBVIOUS
<1>1. /\ \A a \in Actors : task[a] = Idle
      /\ Listed = <<>> /\ snaps = 0 /\ Limit = Retain
  <2>1. /\ left.events = MaxEvents /\ index = <<>> /\ snaps = 0 /\ task = [a \in Actors |-> Idle]
        /\ faults = MaxFaults
    BY DEF Init, SnapInit
  <2> QED BY <2>1, SnapshotsAssumption, WorkspaceAssumption DEF Listed, Limit
<1>2. Ui \in Actors /\ (\A t \in Turns : t \in Actors) /\ Retain \in Nat /\ faults \in 0..MaxFaults
  BY WorkspaceAssumption, SnapshotsAssumption DEF Init, SnapInit
<1>3. ListInv
  BY <1>1, <1>2 DEF ListInv, Rising, NewestKept
<1>4. ClearInv /\ \A t \in Turns : TakeInv(t)
  BY <1>1, <1>2 DEF Idle, ClearInv, TakeInv
<1> QED BY <1>1, <1>2, <1>3, <1>4 DEF StoreInv, NetInv, NetOf, Idle

\* While one turn runs, each of the newest snapshots can be rewound to at every moment,
\* with a take or a prune half done, after a crash or a failed file operation anywhere in
\* them, unless the user has cleared it; and the list outgrows its limit by no more than
\* the take under way and one for each crash and failure before it, and never while a call
\* runs whose snapshot was taken.
\* (snapshots/mod.rs, take and prune; index.rs)
THEOREM NewestRestorableHolds == ASSUME OneTurn PROVE Spec => []NewestRestorable
<1>1. TypeInv /\ StoreInv => NewestRestorable
  <2> SUFFICES ASSUME TypeInv, StoreInv PROVE NewestRestorable
    OBVIOUS
  <2>1. /\ Listed \in Seq(1..snaps) /\ ListInv /\ Ui \in Actors /\ PcOk(Ui)
        /\ \A t \in Turns : t \in Actors
    BY ListedTyped, WorkspaceAssumption DEF TypeInv, StoreInv
  <2>2. \A k \in DOMAIN Listed :
           k > Len(Listed) - Retain => Restorable(Listed[k]) \/ Listed[k] \in cleared
    BY <2>1 DEF ListInv, NewestKept, Kept
  <2> DEFINE Over == {a \in Actors : MayOvershoot(a)}
  <2>3. Over = {} \/ \E t \in Turns : Over = {t}
    <3>1. ~MayOvershoot(Ui)
      BY <2>1 DEF MayOvershoot, At, PcOk, UiPcs
    <3> QED BY <3>1, WorkspaceAssumption DEF OneTurn
  <2>4. Cardinality(Over) = IF \E t \in Turns : MayOvershoot(t) THEN 1 ELSE 0
    <3>1. CASE Over = {}
      BY <2>1, <3>1, FS_EmptySet
    <3>2. CASE \E t \in Turns : Over = {t}
      <4>1. PICK t \in Turns : Over = {t}
        BY <3>2
      <4>2. Cardinality({t}) = 1
        BY FS_Singleton
      <4>3. MayOvershoot(t)
        BY <4>1
      <4> QED BY <4>1, <4>2, <4>3
    <3> QED BY <2>3, <3>1, <3>2
  <2>5. Len(Listed) <= Retain + Cardinality(Over) + (MaxEvents - left.events)
                       + (MaxFaults - faults)
    BY <2>1, <2>4, SnapshotsAssumption, WorkspaceAssumption
       DEF ListInv, Limit, StoreInv, TypeInv, CallTyped
  <2>6. \A t \in Turns :
           task[t].pc \in Underway /\ task[t].id # Nobody => Len(Listed) <= Retain
    BY DEF StoreInv, TakeInv
  <2> QED BY <2>2, <2>5, <2>6 DEF NewestRestorable
<1>2. TypeInv /\ StoreInv /\ [Next]_vars => StoreInv'
  BY StoreNetStep
<1> QED BY <1>1, <1>2, TypeInit, StoreNetInit, TypeStep, PTL DEF Spec

\* While one turn runs and at least one snapshot is retained, the snapshot the user was
\* told of before a call is listed and whole for as long as the call is at work: neither
\* the prune of its own take, nor a failed write, nor a rewind takes it away, only a
\* clear.  (agent/loop.rs, the snapshot before a call; snapshots/mod.rs, take)
THEOREM CallHasNetHolds == ASSUME OneTurn, Retain > 0 PROVE Spec => []CallHasNet
<1>1. TypeInv /\ NetInv => CallHasNet
  <2> SUFFICES ASSUME TypeInv, NetInv, NEW t \in Turns,
                      task[t].pc \in {"run", "plan", "execute", "undo", "applied", "rolledBack"},
                      task[t].id \notin cleared \union {Nobody}
               PROVE  /\ Restorable(task[t].id)
                      /\ \E k \in DOMAIN Listed : Listed[k] = task[t].id
    BY DEF CallHasNet
  <2>1. task[t].id \in Kept /\ EndsWith(Listed, task[t].id)
    BY DEF NetInv, NetOf
  <2>2. Listed \in Seq(1..snaps)
    BY ListedTyped DEF TypeInv
  <2> QED BY <2>1, <2>2 DEF Kept, EndsWith
<1>2. TypeInv /\ StoreInv /\ NetInv /\ [Next]_vars => StoreInv' /\ NetInv'
  BY StoreNetStep
<1> QED BY <1>1, <1>2, TypeInit, StoreNetInit, TypeStep, PTL DEF Spec


-----------------------------------------------------------------------------
(* The text side of apply_patch.                                           *)

\* A set of numbers has a least one.
LEMMA LeastExists ==
    ASSUME NEW S, S \subseteq Nat, S # {}
    PROVE  \E i \in S : \A j \in S : i <= j
<1>1. \E R : IsWellFoundedOn(R, Nat) /\ \A x, y \in Nat : <<x, y>> \in R <=> x < y
  <2>1. IsWellFoundedOn(OpToRel(<, Nat), Nat)
    BY NatLessThanWellFounded
  <2>2. \A x, y \in Nat : <<x, y>> \in OpToRel(<, Nat) <=> x < y
    BY DEF OpToRel
  <2> QED BY <2>1, <2>2
<1>2. PICK R : IsWellFoundedOn(R, Nat) /\ \A x, y \in Nat : <<x, y>> \in R <=> x < y
  BY ONLY <1>1
<1>3. PICK x \in S : \A y \in S : ~(<<y, x>> \in R)
  <2>1. S \subseteq Nat /\ S # {} /\ IsWellFoundedOn(R, Nat)
    BY <1>2
  <2> QED BY ONLY <2>1, WFMin
<1>4. \A y \in S : ~(y < x)
  BY ONLY <1>2, <1>3, S \subseteq Nat
<1>5. \A y \in S : x <= y
  BY ONLY <1>4, <1>3, S \subseteq Nat
<1> QED BY ONLY <1>3, <1>5

\* What holds of 0 and of every successor holds up to n.
LEMMA UpTo ==
    ASSUME NEW n \in Nat, NEW T, 0 \in T, \A i \in 1..n : i - 1 \in T => i \in T
    PROVE  \A i \in 0..n : i \in T
<1> DEFINE Bad == {i \in 0..n : i \notin T}
<1> SUFFICES ASSUME Bad # {} PROVE FALSE
  OBVIOUS
<1>1. PICK m \in Bad : \A j \in Bad : m <= j
  <2>1. Bad \subseteq Nat
    OBVIOUS
  <2> HIDE DEF Bad
  <2> QED BY <2>1, LeastExists
<1>2. m \in 1..n
  OBVIOUS
<1>3. m - 1 \notin Bad
  <2>1. ~(m <= m - 1)
    BY <1>2
  <2> HIDE DEF Bad
  <2> QED BY <1>1, <2>1
<1> QED BY <1>2, <1>3

\* The earliest of some places.
LEMMA EarliestFacts ==
    ASSUME NEW n \in Nat, NEW S, S \subseteq 1..n
    PROVE  \/ Earliest(S) = 0 /\ S = {}
           \/ Earliest(S) \in S /\ \A j \in 1..(Earliest(S) - 1) : j \notin S
<1>1. CASE S = {}
  BY <1>1 DEF Earliest
<1>2. CASE S # {}
  <2>0. S \subseteq Nat
    OBVIOUS
  <2>1. \E i \in S : \A j \in S : i <= j
    BY <1>2, <2>0, LeastExists
  <2>2. Earliest(S) = CHOOSE i \in S : \A j \in S : i <= j
    BY <1>2 DEF Earliest, Min
  <2>3. Earliest(S) \in S /\ \A j \in S : Earliest(S) <= j
    BY <2>1, <2>2
  <2>4. \A j \in 1..(Earliest(S) - 1) : ~(Earliest(S) <= j)
    <3>1. Earliest(S) \in Nat
      BY <2>0, <2>3
    <3> QED BY ONLY <3>1
  <2> QED BY <2>3, <2>4
<1> QED BY <1>1, <1>2

LEMMA HeadOfConcat ==
    ASSUME NEW S, NEW s \in Seq(S), NEW t \in Seq(S), s # <<>>
    PROVE  1 \in DOMAIN s /\ Head(s \o t) = s[1]
<1>1. Len(s) \in Nat \ {0} /\ DOMAIN s = 1..Len(s)
  OBVIOUS
<1>2. s \o t \in Seq(S) /\ Len(s \o t) = Len(s) + Len(t) /\ (s \o t)[1] = s[1]
  BY <1>1, ConcatProperties
<1>3. Head(s \o t) = (s \o t)[1]
  <2> DEFINE u == s \o t
  <2>1. u \in Seq(S) /\ u # <<>>
    BY <1>1, <1>2
  <2> HIDE DEF u
  <2> QED BY <2>1
<1> QED BY <1>1, <1>2, <1>3

\* A hunk goes to the first place where its removals stand, with regard to
\* indentation or without.
LEMMA FindFacts ==
    ASSUME NEW lines \in Seq(Lines), NEW hunk \in Hunks
    PROVE  LET pos == FindHunkPosition(lines, hunk)
           IN  /\ pos \in 0..(Len(lines) + 1)
               /\ hunk.removals # <<>> =>
                     \/ pos = 0
                     \/ /\ pos \in 1..Len(lines) /\ RemovalsAt(lines, pos, hunk)
                        /\ \A j \in 1..(pos - 1) : ~RemovalsAt(lines, j, hunk)
<1> DEFINE n      == Len(lines)
           wanted == Head(hunk.removals \o hunk.context)
           fit    == {i \in DOMAIN lines : RemovalsAt(lines, i, hunk)}
           Exact  == {i \in fit : SameLine(lines[i], wanted)}
           Fuzzy  == {i \in fit : SameWords(lines[i], wanted)}
<1>1. /\ n \in Nat /\ DOMAIN lines = 1..n
      /\ hunk.removals \in Seq(Lines) /\ hunk.context \in Seq(Lines)
  BY DEF Hunks
<1>2. FindHunkPosition(lines, hunk) =
         IF hunk.removals = <<>> /\ hunk.context = <<>> THEN n + 1
         ELSE IF Earliest(Exact) # 0 THEN Earliest(Exact) ELSE Earliest(Fuzzy)
  BY DEF FindHunkPosition
<1>3. fit \subseteq 1..n /\ Exact \subseteq fit /\ Fuzzy \subseteq fit
  BY <1>1
<1>4. ASSUME hunk.removals # <<>> PROVE Exact = fit
  <2>1. 1 \in DOMAIN hunk.removals /\ wanted = hunk.removals[1]
    BY <1>1, <1>4, HeadOfConcat
  <2> SUFFICES ASSUME NEW i \in fit PROVE i \in Exact
    BY <1>3
  <2>2. RemovalsAt(lines, i, hunk) /\ i \in 1..n /\ i + 1 - 1 = i
    BY <1>3
  <2>3. lines[i] = hunk.removals[1]
    BY <2>1, <2>2 DEF RemovalsAt, SameLine
  <2> QED BY <2>1, <2>3 DEF SameLine
<1>5. \A j \in 1..n : RemovalsAt(lines, j, hunk) => j \in fit
  BY <1>1
<1>6. \A j \in fit : RemovalsAt(lines, j, hunk)
  OBVIOUS
<1> HIDE DEF Exact, Fuzzy, fit
<1>7. /\ \/ Earliest(Exact) = 0 /\ Exact = {}
         \/ Earliest(Exact) \in Exact /\ \A j \in 1..(Earliest(Exact) - 1) : j \notin Exact
      /\ \/ Earliest(Fuzzy) = 0 /\ Fuzzy = {}
         \/ Earliest(Fuzzy) \in Fuzzy /\ \A j \in 1..(Earliest(Fuzzy) - 1) : j \notin Fuzzy
  <2>1. Exact \subseteq 1..n /\ Fuzzy \subseteq 1..n
    BY <1>3
  <2> QED BY <1>1, <2>1, EarliestFacts
<1>8. FindHunkPosition(lines, hunk) \in 0..(n + 1)
  <2>1. Earliest(Exact) \in 0..n /\ Earliest(Fuzzy) \in 0..n
    <3>1. \A i \in Exact \union Fuzzy : i \in 1..n
      BY <1>3
    <3>2. \A i \in 1..n : i \in 0..n
      BY <1>1
    <3>3. 0 \in 0..n
      BY <1>1
    <3> QED BY ONLY <1>7, <3>1, <3>2, <3>3
  <2>2. \A i \in 0..n : i \in 0..(n + 1)
    BY <1>1
  <2>3. n + 1 \in 0..(n + 1)
    BY <1>1
  <2> QED BY ONLY <1>2, <2>1, <2>2, <2>3
<1>9. ASSUME hunk.removals # <<>>
      PROVE  \/ FindHunkPosition(lines, hunk) = 0
             \/ /\ FindHunkPosition(lines, hunk) \in fit
                /\ \A j \in 1..(FindHunkPosition(lines, hunk) - 1) : j \notin fit
  <2>1. CASE Earliest(Exact) = 0
    <3>1. Earliest(Fuzzy) = 0
      <4>1. Exact = {} /\ Fuzzy = {}
        BY <1>1, <1>3, <1>4, <1>7, <1>9, <2>1
      <4> QED BY <4>1 DEF Earliest
    <3> QED BY <1>2, <1>9, <2>1, <3>1
  <2>2. CASE Earliest(Exact) # 0
    BY <1>2, <1>4, <1>7, <1>9, <2>2
  <2> QED BY <2>1, <2>2
<1>10. ASSUME hunk.removals # <<>>, FindHunkPosition(lines, hunk) # 0
       PROVE  /\ FindHunkPosition(lines, hunk) \in 1..n
              /\ RemovalsAt(lines, FindHunkPosition(lines, hunk), hunk)
              /\ \A j \in 1..(FindHunkPosition(lines, hunk) - 1) : ~RemovalsAt(lines, j, hunk)
  <2> DEFINE pos == FindHunkPosition(lines, hunk)
  <2>1. pos \in fit /\ \A j \in 1..(pos - 1) : j \notin fit
    BY <1>9, <1>10
  <2> HIDE DEF pos
  <2>2. pos \in 1..n /\ RemovalsAt(lines, pos, hunk)
    BY <1>3, <1>6, <2>1
  <2>3. \A j \in 1..(pos - 1) : j \in 1..n
    BY <1>1, <2>2
  <2>4. \A j \in 1..(pos - 1) : ~RemovalsAt(lines, j, hunk)
    BY <1>5, <2>1, <2>3
  <2> QED BY <2>2, <2>4 DEF pos
<1> QED BY <1>8, <1>10

\* r stands in s at k.
Stands(s, k, r) == \A j \in 1..Len(r) : k + j - 1 <= Len(s) /\ s[k + j - 1] = r[j]

LEMMA StandsAsSubSeq ==
    ASSUME NEW S, NEW s \in Seq(S), NEW r \in Seq(S), r # <<>>, NEW k \in 1..Len(s)
    PROVE  /\ Len(r) \in Nat \ {0} /\ Len(s) \in Nat
           /\ Stands(s, k, r) => k + Len(r) - 1 <= Len(s) /\ SubSeq(s, k, k + Len(r) - 1) = r
<1>1. Len(r) \in Nat \ {0} /\ Len(s) \in Nat /\ DOMAIN s = 1..Len(s)
  OBVIOUS
<1> DEFINE n == Len(r)
<1>2. ASSUME Stands(s, k, r)
      PROVE  k + n - 1 <= Len(s) /\ SubSeq(s, k, k + n - 1) = r
  <2> DEFINE t == SubSeq(s, k, k + n - 1)
  <2>0. n \in Nat \ {0} /\ n \in 1..n /\ k \in Int /\ k + n - 1 \in Int
    BY <1>1
  <2>1. k + n - 1 <= Len(s)
    BY <1>2, <2>0 DEF Stands
  <2>2. \A i \in k..(k + n - 1) : s[i] \in S
    BY <1>1, <2>0, <2>1
  <2>3. /\ t \in Seq(S)
        /\ Len(t) = IF k <= k + n - 1 THEN (k + n - 1) - k + 1 ELSE 0
        /\ \A i \in 1..((k + n - 1) - k + 1) : t[i] = s[k + i - 1]
    BY ONLY <2>0, <2>2, SubSeqProperties
  <2> HIDE DEF t
  <2>4. Len(t) = n /\ \A i \in 1..n : t[i] = s[k + i - 1]
    BY <2>0, <2>3
  <2>5. \A i \in 1..n : t[i] = r[i]
    BY <1>2, <2>4 DEF Stands
  <2>6. t = r
    BY <2>3, <2>4, <2>5, SeqEqual
  <2> QED BY <2>1, <2>6 DEF t
<1> QED BY <1>1, <1>2

\* To be a part of a sequence is to stand in it somewhere.
LEMMA PartsStand ==
    ASSUME NEW S, NEW s \in Seq(S), NEW r \in Seq(S), r # <<>>
    PROVE  r \in SubSeqs(s) <=> \E k \in 1..Len(s) : Stands(s, k, r)
<1>1. Len(r) \in Nat \ {0} /\ Len(s) \in Nat /\ DOMAIN s = 1..Len(s)
  OBVIOUS
<1>2. ASSUME r \in SubSeqs(s) PROVE \E k \in 1..Len(s) : Stands(s, k, r)
  <2>1. PICK i \in 0..Len(s), j \in 0..Len(s) : r = SubSeq(s, i + 1, j)
    BY <1>2 DEF SubSeqs
  <2>2. i + 1 \in Int /\ j \in Int /\ \A x \in (i + 1)..j : s[x] \in S
    BY <1>1
  <2>3. /\ Len(r) = IF i + 1 <= j THEN j - (i + 1) + 1 ELSE 0
        /\ \A x \in 1..(j - (i + 1) + 1) : r[x] = s[(i + 1) + x - 1]
    BY <2>1, <2>2, SubSeqProperties
  <2>4. i + 1 <= j /\ Len(r) = j - i
    BY <1>1, <2>3
  <2>5. ASSUME NEW x \in 1..Len(r)
        PROVE  (i + 1) + x - 1 <= Len(s) /\ s[(i + 1) + x - 1] = r[x]
    BY <1>1, <2>3, <2>4
  <2>6. Stands(s, i + 1, r)
    BY <2>5 DEF Stands
  <2>7. i + 1 \in 1..Len(s)
    BY <1>1, <2>4
  <2> QED BY <2>6, <2>7
<1>3. ASSUME NEW k \in 1..Len(s), Stands(s, k, r) PROVE r \in SubSeqs(s)
  <2>1. k + Len(r) - 1 <= Len(s) /\ SubSeq(s, k, k + Len(r) - 1) = r
    BY <1>3, StandsAsSubSeq
  <2>2. k - 1 \in 0..Len(s) /\ k + Len(r) - 1 \in 0..Len(s) /\ (k - 1) + 1 = k
    BY <1>1, <2>1
  <2> DEFINE i == k - 1
             j == k + Len(r) - 1
  <2>3. i \in 0..Len(s) /\ j \in 0..Len(s) /\ r = SubSeq(s, i + 1, j)
    BY <2>1, <2>2
  <2> HIDE DEF i, j
  <2>4. \E x, y \in 0..Len(s) : r = SubSeq(s, x + 1, y)
    BY <2>3
  <2> QED BY ONLY <2>4 DEF SubSeqs
<1> QED BY <1>2, <1>3

\* The index of a part is the first place where it stands.
LEMMA IndexIsFirst ==
    ASSUME NEW S, NEW s \in Seq(S), NEW r \in Seq(S), r # <<>>, NEW k \in 1..Len(s),
           Stands(s, k, r), \A j \in 1..(k - 1) : ~Stands(s, j, r)
    PROVE  IndexFirstSubSeq(r, s) = k
<1> DEFINE n == Len(r)
           end == k + n - 1
           In(i) == r \in SubSeqs(SubSeq(s, 1, i))
           Ends(i) == In(i) /\ \A j \in 0..i - 1 : ~In(j)
           last == CHOOSE i \in 0..Len(s) : Ends(i)
<1>1. n \in Nat \ {0} /\ Len(s) \in Nat /\ end \in 1..Len(s) /\ DOMAIN s = 1..Len(s)
  BY StandsAsSubSeq
<1>2. ASSUME NEW i \in 0..Len(s) PROVE In(i) <=> end <= i
  <2> DEFINE t == SubSeq(s, 1, i)
  <2>1. 1 \in Int /\ i \in Int /\ \A x \in 1..i : s[x] \in S
    BY <1>1
  <2>2. /\ t \in Seq(S) /\ Len(t) = IF 1 <= i THEN i - 1 + 1 ELSE 0
        /\ \A x \in 1..(i - 1 + 1) : t[x] = s[1 + x - 1]
    BY ONLY <2>1, SubSeqProperties
  <2>3. t \in Seq(S) /\ Len(t) = i /\ \A x \in 1..i : t[x] = s[x]
    BY <1>1, <2>2
  <2> HIDE DEF t
  <2>4. In(i) <=> \E x \in 1..i : Stands(t, x, r)
    BY <2>3, PartsStand DEF t
  <2> HIDE DEF In
  <2>5. ASSUME end <= i PROVE Stands(t, k, r) /\ k \in 1..i
    <3>1. ASSUME NEW j \in 1..n PROVE k + j - 1 <= i /\ t[k + j - 1] = r[j]
      <4>1. k + j - 1 \in 1..i /\ s[k + j - 1] = r[j]
        BY <1>1, <2>5 DEF Stands
      <4> QED BY <2>3, <4>1
    <3> QED BY <1>1, <2>3, <2>5, <3>1 DEF Stands
  <2>6. ASSUME NEW x \in 1..i, Stands(t, x, r) PROVE end <= i
    <3>1. ASSUME NEW j \in 1..n PROVE x + j - 1 <= Len(s) /\ s[x + j - 1] = r[j] /\ x + j - 1 <= i
      <4>1. x + j - 1 <= i /\ t[x + j - 1] = r[j]
        BY <2>3, <2>6 DEF Stands
      <4>2. x + j - 1 \in 1..i
        BY <1>1, <4>1
      <4> QED BY <1>1, <2>3, <4>1, <4>2
    <3>2. Stands(s, x, r)
      BY <3>1 DEF Stands
    <3>3. ~(x \in 1..(k - 1)) /\ x \in 1..Len(s)
      BY <1>1, <3>2
    <3>4. x >= k
      BY <1>1, <3>3
    <3>5. x + n - 1 <= i
      BY <1>1, <3>1
    <3> QED BY <1>1, <3>4, <3>5
  <2> QED BY <2>4, <2>5, <2>6
<1> HIDE DEF In
<1>3. \A i \in 0..Len(s) : Ends(i) <=> i = end
  <2>0. end \in 0..Len(s) /\ \A j \in 0..end - 1 : j \in 0..Len(s) /\ ~(end <= j)
    BY <1>1
  <2> HIDE DEF end
  <2>1. Ends(end)
    <3>1. In(end)
      BY <1>2, <2>0
    <3>2. \A j \in 0..end - 1 : ~In(j)
      BY <1>2, <2>0
    <3> QED BY <3>1, <3>2
  <2>2. ASSUME NEW i \in 0..Len(s), Ends(i) PROVE i = end
    <3>1. end <= i
      BY <1>2, <2>2
    <3>2. ~(end \in 0..i - 1)
      <4>1. In(end)
        BY <1>2, <2>0
      <4> QED BY <2>2, <4>1
    <3>3. end \in Nat /\ i \in Nat
      BY <1>1, <2>0
    <3> QED BY <3>1, <3>2, <3>3
  <2> QED BY <2>1, <2>2
<1>4. last = end
  <2>1. end \in 0..Len(s)
    BY <1>1
  <2> HIDE DEF Ends, end
  <2> QED BY <1>3, <2>1
<1>5. IndexFirstSubSeq(r, s) = last - (n - 1)
  BY DEF IndexFirstSubSeq, In
<1> HIDE DEF last
<1> QED BY <1>1, <1>4, <1>5

-----------------------------------------------------------------------------
(* What a hunk does is what it means.                                      *)

LEMMA HunkMeans ==
    ASSUME NEW lines \in Seq(Lines), NEW hunk \in Hunks, ApplyHunk(lines, hunk) # NoText
    PROVE  /\ ApplyHunk(lines, hunk) \in Seq(Lines)
           /\ MeansHunk(lines, hunk, ApplyHunk(lines, hunk))
<1> DEFINE r   == hunk.removals
           a   == hunk.additions
           pos == FindHunkPosition(lines, hunk)
           new == SubSeq(lines, 1, pos - 1) \o a \o SubSeq(lines, pos + Len(r), Len(lines))
<1>1. /\ r \in Seq(Lines) /\ a \in Seq(Lines) /\ Len(r) \in Nat /\ Len(lines) \in Nat
      /\ DOMAIN lines = 1..Len(lines) /\ DOMAIN r = 1..Len(r)
  BY DEF Hunks
<1>2. pos # 0 /\ ApplyHunk(lines, hunk) = new
  BY DEF ApplyHunk
<1>3. /\ pos \in 0..(Len(lines) + 1)
      /\ r # <<>> => \/ pos = 0
                     \/ /\ pos \in 1..Len(lines) /\ RemovalsAt(lines, pos, hunk)
                        /\ \A j \in 1..(pos - 1) : ~RemovalsAt(lines, j, hunk)
  BY FindFacts
<1> HIDE DEF pos
<1>4. new \in Seq(Lines)
  <2>1. /\ 1 \in Int /\ pos - 1 \in Int /\ pos + Len(r) \in Int /\ Len(lines) \in Int
        /\ \A i \in 1..(pos - 1) : lines[i] \in Lines
        /\ \A i \in (pos + Len(r))..Len(lines) : lines[i] \in Lines
    BY <1>1, <1>2, <1>3
  <2> HIDE DEF r
  <2>2. SubSeq(lines, 1, pos - 1) \in Seq(Lines)
    BY ONLY <2>1, SubSeqProperties
  <2>3. SubSeq(lines, pos + Len(r), Len(lines)) \in Seq(Lines)
    BY ONLY <2>1, SubSeqProperties
  <2> HIDE DEF a
  <2> QED BY <1>1, <2>2, <2>3, ConcatProperties
<1>5. CASE r = <<>>
  <2>1. pos - 1 \in 0..Len(lines) /\ (pos - 1) + 1 = pos + Len(r)
    BY <1>1, <1>2, <1>3, <1>5
  <2>2. new = SubSeq(lines, 1, pos - 1) \o a \o SubSeq(lines, (pos - 1) + 1, Len(lines))
    BY <2>1
  <2> HIDE DEF new
  <2>3. MeansHunk(lines, hunk, new)
    BY <1>5, <2>1, <2>2 DEF MeansHunk
  <2> QED BY <1>2, <1>4, <2>3
<1>6. CASE r # <<>>
  <2>1. /\ pos \in 1..Len(lines) /\ RemovalsAt(lines, pos, hunk)
        /\ \A j \in 1..(pos - 1) : ~RemovalsAt(lines, j, hunk)
    BY <1>2, <1>3, <1>6
  <2>2. \A k : RemovalsAt(lines, k, hunk) <=> Stands(lines, k, r)
    BY <1>1 DEF RemovalsAt, SameLine, Stands
  <2>3. Stands(lines, pos, r) /\ \A j \in 1..(pos - 1) : ~Stands(lines, j, r)
    BY <2>1, <2>2
  <2> HIDE DEF r, a
  <2>4. SubSeq(lines, pos, pos + Len(r) - 1) = r
    BY <1>1, <1>6, <2>1, <2>3, StandsAsSubSeq
  <2>5. r \in SubSeqs(lines)
    BY <1>1, <1>6, <2>1, <2>3, PartsStand
  <2>6. IndexFirstSubSeq(r, lines) = pos
    BY <1>1, <1>6, <2>1, <2>3, IndexIsFirst
  <2>7. ReplaceFirstSubSeq(a, r, lines) = new
    BY <2>5, <2>6 DEF ReplaceFirstSubSeq, ReplaceSubSeqAt
  <2> HIDE DEF new
  <2>8. MeansHunk(lines, hunk, new)
    BY <1>6, <2>1, <2>4, <2>7 DEF MeansHunk, r, a
  <2> QED BY <1>2, <1>4, <2>8
<1> QED BY <1>5, <1>6

-----------------------------------------------------------------------------
(* Hunks, one after the other.                                             *)

\* What is read of a file that is there.
Readings == Seq(Lines) \union {NoText}

LEMMA HunkReads ==
    ASSUME NEW x \in Readings, NEW hunk \in Hunks
    PROVE  ApplyHunk(x, hunk) \in Readings
<1>1. CASE x = NoText
  BY <1>1 DEF ApplyHunk, Readings
<1>2. CASE x # NoText /\ ApplyHunk(x, hunk) # NoText
  <2>1. x \in Seq(Lines)
    BY <1>2 DEF Readings
  <2> QED BY <1>2, <2>1, HunkMeans DEF Readings
<1> QED BY <1>1, <1>2 DEF Readings

LEMMA HunksFacts ==
    ASSUME NEW text \in Readings, NEW hunks \in Seq(Hunks)
    PROVE  /\ ApplyHunks(text, hunks) \in Readings
           /\ Len(hunks) = 0 => ApplyHunks(text, hunks) = text
           /\ Len(hunks) = 1 => ApplyHunks(text, hunks) = ApplyHunk(text, hunks[1])
<1> DEFINE n == Len(hunks)
           Rec(g)     == g = [k \in 0..n |->
                                IF k = 0 THEN text ELSE ApplyHunk(g[k - 1], hunks[k])]
           After      == CHOOSE g : Rec(g)
           Goes(g, m) == /\ g \in [0..n -> Readings]
                         /\ g[0] = text
                         /\ \A k \in 1..m : g[k] = ApplyHunk(g[k - 1], hunks[k])
           T == {m \in 0..n : \E g : Goes(g, m)}
<1>1. n \in Nat /\ \A k \in 1..n : hunks[k] \in Hunks
  OBVIOUS
<1>2. ApplyHunks(text, hunks) = After[n]
  BY DEF ApplyHunks
<1>3. 0 \in T
  <2>1. Goes([k \in 0..n |-> text], 0)
    BY <1>1
  <2> HIDE DEF Goes
  <2> QED BY <1>1, <2>1
<1>4. ASSUME NEW m \in 1..n, m - 1 \in T PROVE m \in T
  <2>1. PICK g : Goes(g, m - 1)
    BY <1>4
  <2> DEFINE x == ApplyHunk(g[m - 1], hunks[m])
             h == [g EXCEPT ![m] = x]
  <2>2. x \in Readings
    <3>1. m - 1 \in 0..n
      BY <1>1
    <3>2. g[m - 1] \in Readings
      BY <2>1, <3>1
    <3> QED BY <1>1, <3>2, HunkReads
  <2> HIDE DEF x
  <2>3. h \in [0..n -> Readings] /\ h[m] = x /\ \A k \in 0..n : k # m => h[k] = g[k]
    BY <1>1, <2>1, <2>2
  <2> HIDE DEF h
  <2>4. ASSUME NEW k \in 1..m PROVE h[k] = ApplyHunk(h[k - 1], hunks[k])
    <3>1. k - 1 # m /\ k - 1 \in 0..n /\ k \in 0..n
      BY <1>1
    <3>2. CASE k = m
      BY <2>3, <3>1, <3>2 DEF x
    <3>3. CASE k # m
      <4>1. k \in 1..(m - 1)
        BY <1>1, <3>3
      <4>2. g[k] = ApplyHunk(g[k - 1], hunks[k])
        BY <2>1, <4>1
      <4> QED BY <2>3, <3>1, <3>3, <4>2
    <3> QED BY <3>2, <3>3
  <2>5. 0 \in 0..n /\ 0 # m /\ h[0] = text
    BY <1>1, <2>1, <2>3
  <2>6. Goes(h, m)
    BY <2>3, <2>4, <2>5
  <2> HIDE DEF Goes
  <2> QED BY <2>6
<1>5. n \in T
  <2> HIDE DEF T
  <2>1. \A i \in 0..n : i \in T
    BY <1>1, <1>3, <1>4, UpTo
  <2> QED BY <1>1, <2>1
<1>6. PICK g : Goes(g, n)
  BY <1>5
<1>7. Rec(g)
  <2>1. g = [k \in 0..n |-> g[k]] /\ g[0] = text
    BY <1>6
  <2>2. \A k \in 0..n : g[k] = IF k = 0 THEN text ELSE ApplyHunk(g[k - 1], hunks[k])
    <3> SUFFICES ASSUME NEW k \in 0..n, k # 0 PROVE g[k] = ApplyHunk(g[k - 1], hunks[k])
      BY <2>1
    <3>1. k \in 1..n
      BY <1>1
    <3> QED BY <1>6, <3>1
  <2> HIDE DEF n
  <2> QED BY <2>1, <2>2, Zenon
<1>8. Rec(After)
  <2> HIDE DEF Rec
  <2> QED BY <1>7
<1> HIDE DEF After
<1>9. After[0] = text /\ \A k \in 1..n : After[k] = ApplyHunk(After[k - 1], hunks[k])
  BY <1>1, <1>8
<1> DEFINE U == {k \in 0..n : After[k] \in Readings}
<1>10. n \in U
  <2>1. 0 \in U
    BY <1>1, <1>9
  <2>2. ASSUME NEW k \in 1..n, k - 1 \in U PROVE k \in U
    <3>1. After[k] \in Readings
      BY <1>1, <1>9, <2>2, HunkReads
    <3> QED BY <1>1, <3>1
  <2> HIDE DEF U
  <2>3. \A i \in 0..n : i \in U
    BY <1>1, <2>1, <2>2, UpTo
  <2> QED BY <1>1, <2>3
<1>11. n = 1 => After[n] = ApplyHunk(text, hunks[1])
  <2>1. n = 1 => After[1] = ApplyHunk(After[1 - 1], hunks[1])
    BY <1>9
  <2> QED BY <1>9, <2>1
<1> QED BY <1>2, <1>9, <1>10, <1>11

-----------------------------------------------------------------------------
(* Whatever is in a file is a text.                                        *)

FileStates == Readings \union {Absent}

WsTexts      == \A f \in Files : ws[f] \in FileStates
TakenTexts   == \A id \in 1..snaps : \A f \in Files : taken[id][f] \in FileStates
ChangesTexts == \A t \in Turns : \A k \in DOMAIN changes[t] :
                   changes[t][k].original \in FileStates /\ changes[t][k].new \in FileStates

TextsInv == WsTexts /\ TakenTexts /\ ChangesTexts

LEMMA TextsAreStates ==
    /\ \A x \in Texts \union {Absent} : x \in FileStates
    /\ <<>> \in FileStates /\ Absent \in FileStates
BY WorkspaceAssumption DEF FileStates, Readings

LEMMA TextsInit == Init => TextsInv
<1> SUFFICES ASSUME Init PROVE TextsInv
  OBVIOUS
<1>1. ws \in [Files -> Texts \union {Absent}] /\ snaps = 0 /\ changes = [t \in Turns |-> <<>>]
  BY SnapshotsAssumption DEF Init, SnapInit, Trees
<1>2. WsTexts
  BY <1>1, TextsAreStates DEF WsTexts
<1>3. TakenTexts
  BY <1>1 DEF TakenTexts
<1>4. ChangesTexts
  BY <1>1 DEF ChangesTexts
<1> QED BY <1>2, <1>3, <1>4 DEF TextsInv

\* A file that is written with a text.
LEMMA WriteTexts ==
    ASSUME WsTexts, ws = [f \in Files |-> ws[f]], NEW file, NEW text \in FileStates, Set(file, text)
    PROVE  WsTexts'
BY DEF WsTexts, Set

\* The operations of a patch and what they are planned to do.
LEMMA OpsTyped ==
    ASSUME NEW t \in Turns, call[t] \in Calls, call[t].tool # "shell"
    PROVE  LET ops == Parsed[call[t].patch]
           IN  \E n \in Nat :
                 /\ DOMAIN ops = 1..n
                 /\ \A k \in 1..n : /\ ops[k].kind \in {"add", "delete", "update"}
                                    /\ ops[k].content \in Seq(Lines)
                                    /\ ops[k].hunks \in Seq(Hunks)
<1> DEFINE p == call[t].patch
<1>1. p \in Patches
  BY DEF Calls
<1> HIDE DEF p
<1>2. PICK n \in 0..Len(p) :
         /\ DOMAIN Parsed[p] = 1..n
         /\ \A k \in 1..n :
               LET op == Parsed[p][k]
               IN  /\ op.kind \in {"add", "delete", "update"}
                   /\ op.content \in Seq(Lines)
                   /\ op.hunks \in Seq(Hunks)
  BY <1>1, PatchesAssumption
<1>3. n \in Nat
  OBVIOUS
<1> QED BY <1>2, <1>3 DEF p

LEMMA ChangeMeans ==
    ASSUME WsTexts, NEW op, op.kind \in {"add", "delete", "update"}, op.file \in Files,
           op.content \in Seq(Lines), op.hunks \in Seq(Hunks), CanPlan(op, ws)
    PROVE  /\ Change(op, ws).file = op.file
           /\ Change(op, ws).original \in FileStates
           /\ Change(op, ws).new \in FileStates
           /\ Means(op, ws[op.file], Change(op, ws).new)
<1> DEFINE old == ws[op.file]
           c   == Change(op, ws)
<1>1. old \in FileStates
  BY DEF WsTexts
<1>2. /\ c.file = op.file
      /\ c.original = IF old = NoText THEN <<>> ELSE old
      /\ c.new = CASE op.kind = "add"    -> op.content
                   [] op.kind = "delete" -> Absent
                   [] op.kind = "update" -> Patched(op, ws)
  BY DEF Change
<1> HIDE DEF c
<1>3. c.original \in FileStates
  BY <1>1, <1>2, TextsAreStates
<1>4. CASE op.kind = "add"
  <2>1. c.new = op.content
    BY <1>2, <1>4
  <2>2. c.new \in FileStates
    BY <2>1 DEF FileStates, Readings
  <2>3. Means(op, old, c.new)
    BY <1>4, <2>1 DEF Means
  <2> QED BY <1>2, <1>3, <2>2, <2>3 DEF c
<1>5. CASE op.kind = "delete"
  <2>1. c.new = Absent
    BY <1>2, <1>5
  <2>2. Means(op, old, c.new)
    BY <1>5, <2>1 DEF Means
  <2> QED BY <1>2, <1>3, <2>1, <2>2, TextsAreStates DEF c
<1>6. CASE op.kind = "update"
  <2> DEFINE hunks == op.hunks
  <2>1. c.new = ApplyHunks(old, hunks) /\ old \notin {Absent, NoText} /\ c.new # NoText
    BY <1>2, <1>6 DEF CanPlan, Patched
  <2>2. old \in Seq(Lines) /\ old \in Readings
    BY <1>1, <2>1 DEF FileStates, Readings
  <2> HIDE DEF old
  <2>3. /\ c.new \in Readings
        /\ Len(hunks) = 0 => c.new = old
        /\ Len(hunks) = 1 => c.new = ApplyHunk(old, hunks[1])
    BY <2>1, <2>2, HunksFacts
  <2>4. Len(hunks) = 1 => MeansHunk(old, hunks[1], c.new)
    <3> SUFFICES ASSUME Len(hunks) = 1 PROVE MeansHunk(old, hunks[1], ApplyHunk(old, hunks[1]))
      BY <2>3
    <3>1. hunks[1] \in Hunks
      OBVIOUS
    <3> QED BY <2>1, <2>2, <2>3, <3>1, HunkMeans
  <2>5. Means(op, old, c.new)
    BY <1>6, <2>3, <2>4 DEF Means
  <2>6. c.new \in FileStates
    BY <2>3 DEF FileStates
  <2> QED BY <1>2, <1>3, <2>5, <2>6 DEF c, old
<1> QED BY <1>4, <1>5, <1>6

\* No step puts into a file what is not a text.
LEMMA SnapshotTexts ==
    ASSUME TypeInv, ArchInv, RewindInv, TextsInv, NEW a \in Actors, SnapshotStep(a)
    PROVE  WsTexts' /\ TakenTexts'
<1>1. /\ snaps \in Nat /\ snaps <= MaxSnaps /\ MaxSnaps \in Nat /\ PcOk(a)
      /\ ws = [f \in Files |-> ws[f]] /\ taken = [i \in Ids |-> taken[i]]
  BY SnapshotsAssumption DEF TypeInv, SnapTyped
<1>2. WsTexts /\ TakenTexts
  BY DEF TextsInv
<1>3. CASE UNCHANGED <<ws, snaps, taken>>
  BY <1>2, <1>3 DEF WsTexts, TakenTexts
<1>4. CASE Capture(a)
  <2>1. ws' = ws
    BY <1>4 DEF Capture
  <2>2. WsTexts'
    BY <1>2, <2>1 DEF WsTexts
  <2>3. CASE TooLarge(ws)
    BY <1>3, <1>4, <2>3 DEF Capture
  <2>4. CASE ~TooLarge(ws)
    <3>1. snaps' = snaps + 1 /\ snaps < MaxSnaps /\ taken' = [taken EXCEPT ![snaps + 1] = ws]
      BY <1>4, <2>4 DEF Capture
    <3>2. TakenTexts'
      <4> SUFFICES ASSUME NEW id \in 1..snaps', NEW f \in Files PROVE taken'[id][f] \in FileStates
        BY DEF TakenTexts
      <4>1. id \in Ids /\ (id = snaps + 1 \/ id \in 1..snaps)
        BY <1>1, <3>1 DEF Ids
      <4>2. CASE id = snaps + 1
        BY <1>1, <1>2, <3>1, <4>1, <4>2 DEF WsTexts
      <4>3. CASE id # snaps + 1
        BY <1>1, <1>2, <3>1, <4>1, <4>3 DEF TakenTexts
      <4> QED BY <4>2, <4>3
    <3> QED BY <2>2, <3>2
  <2> QED BY <2>3, <2>4
<1>5. CASE Unpack(a)
  <2> DEFINE archive == archives[task[a].id]
  <2>1. UNCHANGED <<snaps, taken>> /\ task[a].pc = "unpack"
    BY <1>5 DEF Unpack, At
  <2>2. TakenTexts'
    BY <1>2, <2>1 DEF TakenTexts
  <2>3. CASE archive \in {Absent, Torn}
    BY <1>3, <1>5, <2>1, <2>3 DEF Unpack
  <2>4. CASE archive \notin {Absent, Torn}
    <3>1. \A f \in Files : ws'[f] \in {archive[f], ws[f], <<>>}
      BY <1>5, <2>4 DEF Unpack
    <3>2. a = Ui
      BY <1>1, <2>1 DEF PcOk, TurnPcs
    <3>3. task[a].id \in 1..snaps
      BY <2>1, <3>2 DEF RewindInv
    <3>4. archive = Captured(taken[task[a].id])
      BY <1>1, <2>4, <3>3 DEF ArchInv, Ids
    <3>5. \A f \in Files : archive[f] \in FileStates
      BY <1>2, <3>3, <3>4, CapturedFacts, TextsAreStates DEF TakenTexts
    <3> HIDE DEF archive
    <3>6. WsTexts'
      BY <1>2, <3>1, <3>5, TextsAreStates DEF WsTexts
    <3> QED BY <2>2, <3>6
  <2> QED BY <2>3, <2>4
<1>6. CASE Discard(a)
  <2>1. /\ UNCHANGED <<snaps, taken>>
        /\ \E gone : ws' = [f \in Files |-> IF f \in gone THEN Absent ELSE ws[f]]
    BY <1>6 DEF Discard, TreeWithout
  <2>2. WsTexts' /\ TakenTexts'
    BY <1>2, <2>1, TextsAreStates DEF WsTexts, TakenTexts
  <2> QED BY <2>2
<1> QED BY <1>3, <1>4, <1>5, <1>6 DEF SnapshotStep, Truncate, Write, Push, Prune

LEMMA CallTexts ==
    ASSUME TypeInv, UndoInv, TextsInv, NEW t \in Turns,
           BeginCall(t) \/ Gate(t) \/ RunShell(t) \/ Plan(t) \/ Execute(t) \/ Applied(t)
             \/ Undo(t) \/ Report(t)
    PROVE  TextsInv'
<1>1. /\ ws = [f \in Files |-> ws[f]] /\ changes = [u \in Turns |-> changes[u]]
      /\ next \in [Turns -> Nat \ {0}] /\ UndoInvOf(t)
  BY DEF TypeInv, SnapTyped, CallTyped, UndoInv
<1>2. WsTexts /\ TakenTexts /\ ChangesTexts
  BY DEF TextsInv
<1>3. UNCHANGED <<snaps, taken>> => TakenTexts'
  BY <1>2 DEF TakenTexts
<1>4. UNCHANGED ws => WsTexts'
  BY <1>2 DEF WsTexts
<1>5. UNCHANGED changes => ChangesTexts'
  BY <1>2 DEF ChangesTexts
<1>6. CASE BeginCall(t) \/ Gate(t) \/ Applied(t)
  <2>1. UNCHANGED <<snaps, taken>> /\ UNCHANGED ws /\ UNCHANGED changes
    BY <1>6 DEF BeginCall, Gate, Applied, diskVars, storeVars, callVars
  <2> QED BY <1>3, <1>4, <1>5, <2>1 DEF TextsInv
<1>7. CASE RunShell(t)
  <2>1. UNCHANGED <<snaps, taken>> /\ UNCHANGED changes /\ task[t].pc = "run"
    BY <1>7 DEF RunShell, diskVars, storeVars, callVars, At
  <2>2. WsTexts'
    <3>1. CASE call[t].readOnly
      BY <1>4, <1>7, <3>1 DEF RunShell
    <3>2. CASE ~call[t].readOnly
      <4>1. call[t] \in Calls /\ call[t].tool = "shell"
        BY <1>1, <2>1 DEF UndoInvOf
      <4>2. CASE call[t] \in [tool : {"shell"}, edit : Edits, readOnly : {FALSE}]
        <5>1. call[t].edit \in Edits
          BY <4>2
        <5>2. call[t].edit[2] \in Texts \union {Absent}
          BY <5>1, WorkspaceAssumption
        <5>3. Set(call[t].edit[1], call[t].edit[2])
          BY <1>7, <3>2 DEF RunShell
        <5> QED BY <1>1, <1>2, <5>2, <5>3, TextsAreStates, WriteTexts
      <4>3. CASE call[t] \in [tool : {"apply_patch"}, patch : Patches]
        BY <4>1, <4>3
      <4>4. CASE call[t] \in [tool : {"shell"}, edit : {<<>>}, readOnly : {TRUE}]
        BY <3>2, <4>4
      <4> QED BY <4>1, <4>2, <4>3, <4>4 DEF Calls
    <3> QED BY <3>1, <3>2
  <2> QED BY <1>3, <1>5, <2>1, <2>2 DEF TextsInv
<1>8. CASE Plan(t)
  <2> DEFINE ops == Parsed[call[t].patch]
  <2>1. UNCHANGED <<snaps, taken>> /\ UNCHANGED ws /\ task[t].pc = "plan"
    BY <1>8 DEF Plan, diskVars, storeVars, At
  <2>2. call[t] \in Calls /\ call[t].tool # "shell"
    BY <1>1, <2>1 DEF UndoInvOf
  <2>3. CASE changes' = changes
    BY <1>3, <1>4, <1>5, <2>1, <2>3 DEF TextsInv
  <2>4. CASE /\ \A k \in DOMAIN ops : ops[k].file \in Files
             /\ \A k \in DOMAIN ops : CanPlan(ops[k], ws)
             /\ changes' = [changes EXCEPT ![t] = [k \in DOMAIN ops |-> Change(ops[k], ws)]]
    <3>1. PICK n \in Nat :
             /\ DOMAIN ops = 1..n
             /\ \A k \in 1..n : /\ ops[k].kind \in {"add", "delete", "update"}
                                /\ ops[k].content \in Seq(Lines)
                                /\ ops[k].hunks \in Seq(Hunks)
      BY <2>2, OpsTyped
    <3>2. changes'[t] = [k \in 1..n |-> Change(ops[k], ws)]
      BY <1>1, <2>4, <3>1
    <3>3. ASSUME NEW k \in 1..n
          PROVE  changes'[t][k].original \in FileStates /\ changes'[t][k].new \in FileStates
      <4> DEFINE op == ops[k]
      <4>1. /\ op.kind \in {"add", "delete", "update"} /\ op.content \in Seq(Lines)
            /\ op.hunks \in Seq(Hunks) /\ op.file \in Files /\ CanPlan(op, ws)
            /\ changes'[t][k] = Change(op, ws)
        BY <2>4, <3>1, <3>2
      <4> HIDE DEF op
      <4> QED BY <1>2, <4>1, ChangeMeans
    <3>4. DOMAIN changes'[t] = 1..n /\ \A u \in Turns \ {t} : changes'[u] = changes[u]
      BY <1>1, <2>4, <3>2
    <3>5. ChangesTexts'
      BY <1>2, <3>3, <3>4 DEF ChangesTexts
    <3> QED BY <1>3, <1>4, <2>1, <3>5 DEF TextsInv
  <2> QED BY <1>8, <2>3, <2>4 DEF Plan
<1>9. CASE Report(t)
  <2>1. UNCHANGED <<snaps, taken>> /\ UNCHANGED ws /\ changes' = [changes EXCEPT ![t] = <<>>]
    BY <1>9 DEF Report, diskVars, storeVars
  <2>2. ChangesTexts'
    <3>1. changes'[t] = <<>> /\ \A u \in Turns \ {t} : changes'[u] = changes[u]
      BY <1>1, <2>1
    <3> QED BY <1>2, <3>1 DEF ChangesTexts
  <2> QED BY <1>3, <1>4, <2>1, <2>2 DEF TextsInv
<1>10. task[t].pc \in {"execute", "undo"} => Faithful(t) /\ next[t] <= Len(changes[t]) + 1
  BY <1>1 DEF UndoInvOf
<1>11. CASE Execute(t)
  <2> DEFINE c == changes[t][next[t]]
  <2>1. /\ UNCHANGED <<snaps, taken>> /\ UNCHANGED changes /\ task[t].pc = "execute"
        /\ next[t] <= Len(changes[t])
    BY <1>11 DEF Execute, storeVars, At
  <2>2. next[t] \in DOMAIN changes[t]
    BY <1>1, <1>10, <2>1 DEF Faithful
  <2>3. c.new \in FileStates
    BY <1>2, <2>2 DEF ChangesTexts
  <2>4. Set(c.file, c.new) \/ UNCHANGED ws \/ Set(c.file, <<>>)
    BY <1>11 DEF Execute
  <2> HIDE DEF c
  <2>5. WsTexts'
    BY <1>1, <1>2, <1>4, <2>3, <2>4, TextsAreStates, WriteTexts
  <2> QED BY <1>3, <1>5, <2>1, <2>5 DEF TextsInv
<1>12. CASE Undo(t)
  <2>1. UNCHANGED <<snaps, taken>> /\ UNCHANGED changes /\ task[t].pc = "undo"
    BY <1>12 DEF Undo, storeVars, At
  <2>2. CASE next[t] = 1
    <3>1. UNCHANGED ws
      BY <1>12, <2>2 DEF Undo
    <3> QED BY <1>3, <1>4, <1>5, <2>1, <3>1 DEF TextsInv
  <2>3. CASE next[t] # 1
    <3> DEFINE c == changes[t][next[t] - 1]
    <3>1. next[t] - 1 \in DOMAIN changes[t]
      BY <1>1, <1>10, <2>1, <2>3 DEF Faithful
    <3>2. c.original \in FileStates
      BY <1>2, <3>1 DEF ChangesTexts
    <3>3. Set(c.file, c.original) \/ UNCHANGED ws \/ Set(c.file, <<>>)
      BY <1>12, <2>3 DEF Undo
    <3> HIDE DEF c
    <3>4. WsTexts'
      BY <1>1, <1>2, <1>4, <3>2, <3>3, TextsAreStates, WriteTexts
    <3> QED BY <1>3, <1>5, <2>1, <3>4 DEF TextsInv
  <2> QED BY <2>2, <2>3
<1> QED BY <1>6, <1>7, <1>8, <1>9, <1>11, <1>12

LEMMA TextsStep ==
    ASSUME TypeInv, ArchInv, RewindInv, UndoInv, TextsInv, [Next]_vars
    PROVE  TextsInv'
<1>1. /\ ws = [f \in Files |-> ws[f]] /\ WsTexts /\ TakenTexts /\ ChangesTexts
  BY DEF TypeInv, SnapTyped, TextsInv
<1>2. /\ UNCHANGED <<snaps, taken>> => TakenTexts'
      /\ UNCHANGED ws => WsTexts'
      /\ UNCHANGED changes => ChangesTexts'
  BY <1>1 DEF TakenTexts, WsTexts, ChangesTexts
<1>3. ASSUME NEW a \in Actors, SnapshotStep(a), UNCHANGED changes PROVE TextsInv'
  BY <1>2, <1>3, SnapshotTexts DEF TextsInv
<1>4. ASSUME NEW t \in Turns, TurnStep(t) PROVE TextsInv'
  <2>1. CASE SnapshotStep(t) /\ UNCHANGED <<callVars, left>>
    <3>1. t \in Actors
      BY WorkspaceAssumption
    <3> QED BY <1>3, <2>1, <3>1 DEF callVars
  <2> QED BY <1>4, <2>1, CallTexts DEF TurnStep
<1>5. CASE UiStep
  <2>1. Ui \in Actors /\ Ui \notin Turns
    BY WorkspaceAssumption
  <2>2. UNCHANGED changes
    BY <1>5, <2>1 DEF UiStep, Report, callVars
  <2>3. CASE SnapshotStep(Ui)
    BY <1>3, <2>1, <2>2, <2>3
  <2>4. CASE Clear(Ui) \/ Report(Ui)
    BY <1>2, <2>2, <2>4 DEF Clear, Report, diskVars, storeVars, TextsInv
  <2>5. CASE \E id \in Ids : RestoreBegin(Ui, id)
    <3>1. /\ UNCHANGED <<snaps, taken>>
          /\ \/ UNCHANGED ws
             \/ \E gone : ws' = [f \in Files |-> IF f \in gone THEN Absent ELSE ws[f]]
      BY <2>5 DEF RestoreBegin, TreeWithout
    <3>2. WsTexts'
      BY <1>1, <1>2, <3>1, TextsAreStates DEF WsTexts
    <3> QED BY <1>2, <2>2, <3>1, <3>2 DEF TextsInv
  <2> QED BY <1>5, <2>3, <2>4, <2>5 DEF UiStep
<1>6. CASE UserEdit
  <2>1. UNCHANGED <<snaps, taken>> /\ UNCHANGED changes
    BY <1>6 DEF UserEdit, diskVars, storeVars, callVars
  <2>2. PICK e \in Edits : Set(e[1], e[2])
    BY <1>6 DEF UserEdit
  <2>3. e[2] \in Texts \union {Absent}
    BY WorkspaceAssumption
  <2>4. WsTexts'
    BY <1>1, <2>2, <2>3, TextsAreStates, WriteTexts
  <2> QED BY <1>2, <2>1, <2>4 DEF TextsInv
<1>7. CASE Crash
  <2>1. UNCHANGED <<snaps, taken>> /\ UNCHANGED ws /\ changes' = [t \in Turns |-> <<>>]
    BY <1>7 DEF Crash, diskVars, storeVars
  <2>2. ChangesTexts'
    BY <2>1 DEF ChangesTexts
  <2> QED BY <1>2, <2>1, <2>2 DEF TextsInv
<1>8. CASE UNCHANGED vars
  BY <1>2, <1>8 DEF vars, snapVars, callVars, TextsInv
<1> QED BY <1>4, <1>5, <1>6, <1>7, <1>8 DEF Next

-----------------------------------------------------------------------------
(* A patch does what it says.                                              *)

\* The files are as the patch found them, but for those its changes before `next`
\* name: these are as the last of the changes has it.
Written(t) ==
    \A f \in Files :
        \/ /\ ws[f] = start[t][f]
           /\ \A k \in 1..(next[t] - 1) : changes[t][k].file # f
        \/ \E k \in 1..(next[t] - 1) :
              /\ changes[t][k].file = f
              /\ ws[f] = changes[t][k].new
              /\ \A j \in (k + 1)..(next[t] - 1) : changes[t][j].file # f

\* Each change is what its operation means for the workspace the patch found.
Planned(t) ==
    LET ops == Parsed[call[t].patch]
    IN  \E n \in Nat :
          /\ DOMAIN ops = 1..n /\ DOMAIN changes[t] = 1..n /\ Len(changes[t]) = n
          /\ \A k \in 1..n :
                /\ changes[t][k].file = ops[k].file
                /\ Means(ops[k], start[t][ops[k].file], changes[t][k].new)

MeansInvOf(t) ==
    task[t].pc \in {"execute", "applied"} /\ call[t].tool # "shell" =>
        /\ Planned(t)
        /\ next[t] <= Len(changes[t]) + 1
        /\ task[t].pc = "applied" => next[t] = Len(changes[t]) + 1
        /\ alone[t] => Written(t)

MeansInv == \A t \in Turns : MeansInvOf(t)

LEMMA MeansInit == Init => MeansInv
BY WorkspaceAssumption DEF Init, SnapInit, Idle, MeansInv, MeansInvOf

LEMMA MeansStays ==
    ASSUME TypeInv, NEW t \in Turns, MeansInvOf(t), Stays(t)
    PROVE  MeansInvOf(t)'
<1>1. /\ task'[t] = task[t] /\ start'[t] = start[t] /\ changes'[t] = changes[t]
      /\ next'[t] = next[t] /\ call'[t] = call[t]
      /\ alone'[t] => alone[t] /\ (ws' = ws \/ task[t].pc = "idle")
  BY DEF Stays
<1>2. Planned(t)' <=> Planned(t)
  BY <1>1 DEF Planned
<1>3. task[t].pc # "idle" /\ alone'[t] /\ Written(t) => Written(t)'
  BY <1>1 DEF Written
<1> QED BY <1>1, <1>2, <1>3 DEF MeansInvOf

LEMMA PlanMeans ==
    ASSUME TypeInv, WsTexts, NEW t \in Turns, UndoInvOf(t), Plan(t), Note(t)
    PROVE  MeansInvOf(t)'
<1> DEFINE ops == Parsed[call[t].patch]
<1>1. /\ t \in Actors /\ t # Ui /\ task \in [Actors -> TaskRecords(snaps)] /\ snaps \in Nat
      /\ changes = [u \in Turns |-> changes[u]]
  BY TaskFields, WorkspaceAssumption DEF TypeInv, SnapTyped, CallTyped
<1>2. next' = next /\ next[t] = 1 /\ task[t].pc = "plan" /\ UNCHANGED <<ws, call>>
      /\ call[t] \in Calls /\ call[t].tool # "shell"
  BY DEF Plan, At, UndoInvOf
<1>3. CASE Goto(t, [pc |-> "refused"])
  <2>1. MovesTo(t, "refused")
    BY <1>1, <1>3, Gone
  <2>2. task'[t].pc = "refused"
    BY <1>1, <2>1, MovesFacts DEF MovesTo
  <2> QED BY <2>2 DEF MeansInvOf
<1>4. CASE /\ \A k \in DOMAIN ops : ops[k].file \in Files
           /\ \A k \in DOMAIN ops : CanPlan(ops[k], ws)
           /\ changes' = [changes EXCEPT ![t] = [k \in DOMAIN ops |-> Change(ops[k], ws)]]
           /\ Goto(t, [pc |-> "execute"])
  <2>1. MovesTo(t, "execute")
    BY <1>1, <1>4, Gone
  <2>2. task'[t].pc = "execute"
    BY <1>1, <2>1, MovesFacts DEF MovesTo
  <2>3. start'[t] = ws
    BY <1>1, <1>2, <2>2, OwnHistory
  <2>4. PICK n \in Nat :
           /\ DOMAIN ops = 1..n
           /\ \A k \in 1..n : /\ ops[k].kind \in {"add", "delete", "update"}
                              /\ ops[k].content \in Seq(Lines)
                              /\ ops[k].hunks \in Seq(Hunks)
    BY <1>2, OpsTyped
  <2>5. changes'[t] = [k \in 1..n |-> Change(ops[k], ws)]
    BY <1>1, <1>4, <2>4
  <2>6. DOMAIN changes'[t] = 1..n /\ Len(changes'[t]) = n
    <3> DEFINE e(k) == Change(ops[k], ws)
    <3>1. [k \in 1..n |-> e(k)] \in Seq({e(k) : k \in 1..n})
      OBVIOUS
    <3> QED BY <2>5, <3>1
  <2>7. ASSUME NEW k \in 1..n
        PROVE  /\ changes'[t][k].file = ops[k].file
               /\ Means(ops[k], start'[t][ops[k].file], changes'[t][k].new)
    <3> DEFINE op == ops[k]
    <3>1. /\ op.kind \in {"add", "delete", "update"} /\ op.content \in Seq(Lines)
          /\ op.hunks \in Seq(Hunks) /\ op.file \in Files /\ CanPlan(op, ws)
          /\ changes'[t][k] = Change(op, ws)
      BY <1>4, <2>4, <2>5
    <3> HIDE DEF op
    <3>2. /\ Change(op, ws).file = op.file
          /\ Means(op, ws[op.file], Change(op, ws).new)
      BY <3>1, ChangeMeans
    <3>3. changes'[t][k].file = op.file /\ Means(op, start'[t][op.file], changes'[t][k].new)
      BY <2>3, <3>1, <3>2
    <3> QED BY <3>3 DEF op
  <2>8. Planned(t)'
    <3>1. Parsed[call'[t].patch] = ops
      BY <1>2
    <3> HIDE DEF ops
    <3> QED BY <2>4, <2>6, <2>7, <3>1 DEF Planned
  <2>9. Written(t)'
    BY <1>2, <2>3 DEF Written
  <2> QED BY <1>2, <2>2, <2>6, <2>8, <2>9 DEF MeansInvOf
<1> QED BY <1>3, <1>4 DEF Plan

LEMMA ExecuteMeans ==
    ASSUME TypeInv, NEW t \in Turns, MeansInvOf(t), Execute(t), Note(t)
    PROVE  MeansInvOf(t)'
<1> DEFINE c == changes[t][next[t]]
<1>1. /\ t \in Actors /\ t # Ui /\ task \in [Actors -> TaskRecords(snaps)] /\ snaps \in Nat
      /\ ws = [f \in Files |-> ws[f]] /\ next \in [Turns -> Nat \ {0}]
  BY TaskFields, WorkspaceAssumption DEF TypeInv, SnapTyped, CallTyped
<1>2. task[t].pc = "execute" /\ next[t] <= Len(changes[t]) /\ UNCHANGED <<call, changes>>
  BY DEF Execute, At
<1>3. CASE Goto(t, [pc |-> "undo"])
  <2>1. MovesTo(t, "undo")
    BY <1>1, <1>3, Gone
  <2>2. task'[t].pc = "undo"
    BY <1>1, <2>1, MovesFacts DEF MovesTo
  <2> QED BY <2>2 DEF MeansInvOf
<1>4. CASE Set(c.file, c.new) /\ next' = [next EXCEPT ![t] = @ + 1] /\ UNCHANGED task
  <2>1. task'[t].pc = "execute" /\ next'[t] = next[t] + 1 /\ next[t] \in Nat \ {0}
    BY <1>1, <1>2, <1>4
  <2>2. start'[t] = start[t] /\ (alone'[t] => alone[t])
    BY <1>1, <1>2, <2>1, OwnHistory
  <2> SUFFICES ASSUME call[t].tool # "shell"
               PROVE  /\ Planned(t)' /\ next'[t] <= Len(changes'[t]) + 1
                      /\ alone[t] => Written(t)'
    BY <1>2, <2>1, <2>2 DEF MeansInvOf
  <2>3. Planned(t) /\ (alone[t] => Written(t))
    BY <1>2 DEF MeansInvOf
  <2>4. Planned(t)'
    BY <1>2, <2>2, <2>3 DEF Planned
  <2>5. Len(changes[t]) \in Nat
    BY <2>3 DEF Planned
  <2>6. next'[t] <= Len(changes'[t]) + 1
    BY <1>2, <2>1, <2>5
  <2>7. ASSUME alone[t] PROVE Written(t)'
    <3> DEFINE n == next[t]
    <3>1. ASSUME NEW f \in Files
          PROVE  \/ /\ ws'[f] = start[t][f]
                    /\ \A k \in 1..n : changes[t][k].file # f
                 \/ \E k \in 1..n :
                       /\ changes[t][k].file = f
                       /\ ws'[f] = changes[t][k].new
                       /\ \A j \in (k + 1)..n : changes[t][j].file # f
      <4>0. n \in 1..n /\ n \in Nat /\ n - 1 \in Nat /\ c = changes[t][n]
        BY <2>1
      <4>1. CASE f = c.file
        <5>1. ws'[f] = c.new
          BY <1>1, <1>4, <4>1 DEF Set
        <5>2. \A j \in (n + 1)..n : changes[t][j].file # f
          BY <4>0
        <5> QED BY <4>0, <4>1, <5>1, <5>2
      <4>2. CASE f # c.file
        <5>1. ws'[f] = ws[f]
          BY <1>1, <1>4, <4>2 DEF Set
        <5>2. \A k \in 1..n : k \in 1..(n - 1) \/ k = n
          BY <4>0
        <5>3. CASE ws[f] = start[t][f] /\ \A k \in 1..(n - 1) : changes[t][k].file # f
          BY <4>0, <4>2, <5>1, <5>2, <5>3
        <5>4. CASE \E k \in 1..(n - 1) :
                      /\ changes[t][k].file = f
                      /\ ws[f] = changes[t][k].new
                      /\ \A j \in (k + 1)..(n - 1) : changes[t][j].file # f
          <6>1. PICK k \in 1..(n - 1) :
                      /\ changes[t][k].file = f
                      /\ ws[f] = changes[t][k].new
                      /\ \A j \in (k + 1)..(n - 1) : changes[t][j].file # f
            BY <5>4
          <6>2. k \in 1..n /\ \A j \in (k + 1)..n : j \in (k + 1)..(n - 1) \/ j = n
            BY <4>0
          <6>3. \A j \in (k + 1)..n : changes[t][j].file # f
            BY <4>0, <4>2, <6>1, <6>2
          <6> QED BY <5>1, <6>1, <6>2, <6>3
        <5>5. Written(t)
          BY <2>3, <2>7
        <5> QED BY <5>3, <5>4, <5>5 DEF Written
      <4> QED BY <4>1, <4>2
    <3>2. next'[t] - 1 = n
      BY <2>1
    <3> HIDE DEF n
    <3> QED BY <1>2, <2>2, <3>1, <3>2 DEF Written
  <2> QED BY <2>4, <2>6, <2>7
<1> QED BY <1>3, <1>4 DEF Execute

LEMMA MeansOwn ==
    ASSUME TypeInv, WsTexts, NEW t \in Turns, UndoInvOf(t), MeansInvOf(t), TurnStep(t), Note(t)
    PROVE  MeansInvOf(t)'
<1>1. /\ t \in Actors /\ t # Ui /\ task \in [Actors -> TaskRecords(snaps)] /\ snaps \in Nat
      /\ next \in [Turns -> Nat \ {0}]
  BY TaskFields, WorkspaceAssumption DEF TypeInv, SnapTyped, CallTyped
<1>2. ASSUME NEW pc, Goto(t, [pc |-> pc]) PROVE task'[t].pc = pc
  <2>1. MovesTo(t, pc)
    BY <1>1, <1>2, Gone
  <2> QED BY <1>1, <2>1, MovesFacts DEF MovesTo
<1>3. CASE SnapshotStep(t) /\ UNCHANGED <<callVars, left>>
  BY <1>3, SnapshotPcs DEF MeansInvOf
<1>4. CASE BeginCall(t)
  <2>1. task'[t].pc \in {"take", "taken"}
    <3>1. PICK c \in Calls : Goto(t, [pc |-> IF TakesSnapshot(c) THEN "take" ELSE "taken"])
      BY <1>4 DEF BeginCall
    <3> QED BY <1>2, <3>1
  <2> QED BY <2>1 DEF MeansInvOf
<1>5. CASE Gate(t)
  <2>1. task'[t].pc \in {"run", "plan", "refused"}
    BY <1>2, <1>5 DEF Gate
  <2> QED BY <2>1 DEF MeansInvOf
<1>6. CASE RunShell(t)
  <2>1. call' = call /\ task[t].pc = "run"
    BY <1>6 DEF RunShell, At, callVars
  <2>2. call'[t].tool = "shell"
    BY <2>1 DEF UndoInvOf
  <2> QED BY <2>2 DEF MeansInvOf
<1>7. CASE Plan(t)
  BY <1>7, PlanMeans
<1>8. CASE Execute(t)
  BY <1>8, ExecuteMeans
<1>9. CASE Applied(t)
  <2>1. /\ UNCHANGED <<call, changes, next, ws>> /\ task[t].pc = "execute"
        /\ task'[t].pc = "applied" /\ next[t] > Len(changes[t])
    BY <1>2, <1>9 DEF Applied, At, callVars
  <2>2. start'[t] = start[t] /\ (alone'[t] => alone[t])
    BY <1>1, <2>1, OwnHistory
  <2> SUFFICES ASSUME call[t].tool # "shell"
               PROVE  /\ Planned(t)' /\ next[t] = Len(changes[t]) + 1
                      /\ alone[t] => Written(t)'
    BY <1>1, <2>1, <2>2 DEF MeansInvOf
  <2>3. Planned(t) /\ next[t] <= Len(changes[t]) + 1 /\ (alone[t] => Written(t))
    BY <2>1 DEF MeansInvOf
  <2>4. Planned(t)' /\ (alone[t] => Written(t)')
    BY <2>1, <2>2, <2>3 DEF Planned, Written
  <2>5. Len(changes[t]) \in Nat /\ next[t] \in Nat
    BY <1>1, <2>3 DEF Planned
  <2> QED BY <2>1, <2>3, <2>4, <2>5
<1>10. CASE Undo(t)
  <2>1. task[t].pc = "undo" /\ (task' = task \/ Goto(t, [pc |-> "rolledBack"]))
    BY <1>10 DEF Undo, At
  <2>2. task'[t].pc \in {"undo", "rolledBack"}
    BY <1>2, <2>1
  <2> QED BY <2>2 DEF MeansInvOf
<1>11. CASE Report(t)
  <2>1. task'[t].pc = "idle"
    BY <1>1, <1>11, ReportTyped, MovesFacts
  <2> QED BY <2>1 DEF MeansInvOf
<1> QED BY <1>3, <1>4, <1>5, <1>6, <1>7, <1>8, <1>9, <1>10, <1>11 DEF TurnStep

LEMMA MeansStep ==
    ASSUME TypeInv, WsTexts, UndoInv, MeansInv, [Next]_vars
    PROVE  MeansInv'
<1> SUFFICES ASSUME NEW t \in Turns PROVE MeansInvOf(t)'
  BY DEF MeansInv
<1>1. t \in Actors /\ t # Ui /\ t # Nobody /\ UndoInvOf(t) /\ MeansInvOf(t)
      /\ \A u \in Turns : u \in Actors
  BY WorkspaceAssumption DEF UndoInv, MeansInv
<1>2. CASE Stays(t)
  BY <1>1, <1>2, MeansStays
<1>3. CASE TurnStep(t) /\ Note(t)
  BY <1>1, <1>3, MeansOwn
<1>4. CASE \E u \in Turns \ {t} : TurnStep(u) /\ Note(u)
  BY <1>1, <1>2, <1>4, OthersStay
<1>5. CASE UiStep /\ Note(Ui)
  BY <1>1, <1>2, <1>5, OthersStay, WorkspaceAssumption
<1>6. CASE UserEdit
  BY <1>1, <1>2, <1>6, OthersStay DEF UserEdit
<1>7. CASE Crash
  BY <1>1, <1>7 DEF Crash, Idle, MeansInvOf
<1>8. CASE UNCHANGED vars
  <2>1. Stays(t)
    BY <1>8 DEF vars, snapVars, callVars, Stays
  <2> QED BY <1>2, <2>1
<1> QED BY <1>3, <1>4, <1>5, <1>6, <1>7, <1>8 DEF Next

\* A patch that succeeds while nobody else writes has left the files alone that it
\* does not name, and what a file it names once holds is what the patch says of it:
\* the content to add, nothing, or the text it found with the added lines in the
\* first place where the removed lines stood in a row.
\* (tools/apply_patch.rs, plan, find_hunk_position, apply_hunks and execute)
THEOREM PatchMeansWhatItSaysHolds == Spec => []PatchMeansWhatItSays
<1>1. TypeInv /\ MeansInv => PatchMeansWhatItSays
  <2> SUFFICES ASSUME TypeInv, MeansInv, NEW t \in Turns, At(t, "applied"), alone[t],
                      call[t].tool = "apply_patch", NEW f \in Files
               PROVE  LET ops == Parsed[call[t].patch]
                          on  == {k \in DOMAIN ops : ops[k].file = f}
                      IN  /\ on = {} => ws[f] = start[t][f]
                          /\ Cardinality(on) = 1 =>
                                \A k \in on : Means(ops[k], start[t][f], ws[f])
    BY DEF PatchMeansWhatItSays
  <2> DEFINE ops == Parsed[call[t].patch]
             on  == {k \in DOMAIN ops : ops[k].file = f}
  <2>1. Planned(t) /\ Written(t) /\ next[t] = Len(changes[t]) + 1
    BY DEF MeansInv, MeansInvOf, At
  <2>2. PICK n \in Nat :
           /\ DOMAIN ops = 1..n /\ DOMAIN changes[t] = 1..n /\ Len(changes[t]) = n
           /\ \A k \in 1..n :
                 /\ changes[t][k].file = ops[k].file
                 /\ Means(ops[k], start[t][ops[k].file], changes[t][k].new)
    BY <2>1 DEF Planned
  <2>3. next[t] - 1 = n
    BY <2>1, <2>2
  <2> HIDE DEF ops
  <2>4. \/ ws[f] = start[t][f] /\ on = {}
        \/ \E k \in on : ws[f] = changes[t][k].new
    BY <2>1, <2>2, <2>3 DEF Written
  <2>5. ASSUME Cardinality(on) = 1, NEW k \in on PROVE Means(ops[k], start[t][f], ws[f])
    <3>1. IsFiniteSet(on)
      <4>1. on \subseteq 1..n
        BY <2>2
      <4> QED BY <4>1, FS_Interval, FS_Subset
    <3>2. \E x : on = {x}
      <4> HIDE DEF on
      <4> QED BY <2>5, <3>1, FS_Singleton
    <3>3. ws[f] = changes[t][k].new
      BY <2>4, <3>2
    <3>4. k \in 1..n /\ ops[k].file = f
      BY <2>2
    <3> QED BY <2>2, <3>3, <3>4
  <2> QED BY <2>4, <2>5 DEF ops
<1>2. TypeInv /\ ArchInv /\ RewindInv /\ UndoInv /\ TextsInv /\ MeansInv /\ [Next]_vars
        => (TextsInv /\ MeansInv)'
  BY TextsStep, MeansStep DEF TextsInv
<1>3. TypeInv /\ ArchInv /\ RewindInv /\ [Next]_vars => (ArchInv /\ RewindInv)'
  BY StoreStep, RewindStep
<1> QED BY <1>1, <1>2, <1>3, TypeInit, ArchInit, RewindInit, UndoInit, TextsInit, MeansInit,
           TypeStep, UndoStep, PTL DEF Spec
=============================================================================
