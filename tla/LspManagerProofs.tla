-------------------------- MODULE LspManagerProofs --------------------------
(***************************************************************************)
(* Proofs about LspManager, for any number of tasks, servers and calls.    *)
(***************************************************************************)
EXTENDS LspManager, SequenceTheorems, TLAPS

Messages == [kind : {"open", "change", "request", "abandoned"}, version : Nat, of : Int]

ClientRecords == [state : {"none", "starting", "ready", "dead"}, holder : Tasks \union {NoTask},
                  version : Nat, replied : BOOLEAN, diagnostics : Lists \union {Unpublished}]
ServerRecords == [doc : Int, version : Nat, wire : Seq(Messages), publishes : Nat]
Pcs == {"idle", "lookup", "spawn", "insert", "ask", "await", "askAgain", "awaitAgain", "apply",
        "list", "listing", "again", "write", "find", "track", "poll", "report"}
TaskRecords == [pc : Pcs, kind : Kinds \union {"none"}, using : Clients \union {NoClient},
                text : Int, tick : Nat]

TypeInv ==
    /\ disk \in Nat
    /\ client \in [Clients -> ClientRecords]
    /\ server \in [Clients -> ServerRecords]
    /\ \A p \in published : p.by \in Clients /\ p.list \in Lists
    /\ cached \in Clients \union {NoClient}
    /\ task \in [Tasks -> TaskRecords]
    /\ gone \in BOOLEAN /\ untold \in BOOLEAN /\ crossed \in BOOLEAN

-----------------------------------------------------------------------------
(* What is on the wire.                                                    *)

LEMMA AppendFacts ==
    ASSUME NEW S, NEW s \in Seq(S), NEW e
    PROVE  /\ Len(Append(s, e)) = Len(s) + 1
           /\ \A j \in 1..Len(s) : Append(s, e)[j] = s[j]
           /\ Append(s, e)[Len(s) + 1] = e
OBVIOUS

\* What is known depends on the notifications only.
LEMMA KnownSame ==
    ASSUME NEW s, NEW r, NEW n \in Nat,
           r.version = s.version, r.doc = s.doc,
           \A j \in 1..n : /\ IsNote(r.wire[j]) <=> IsNote(s.wire[j])
                           /\ IsNote(s.wire[j]) => r.wire[j] = s.wire[j]
    PROVE  Known(r, n) = Known(s, n)
<1> DEFINE R == {j \in 1..n : IsNote(r.wire[j]) /\ \A k \in (j + 1)..n : ~IsNote(r.wire[k])}
           S == {j \in 1..n : IsNote(s.wire[j]) /\ \A k \in (j + 1)..n : ~IsNote(s.wire[k])}
<1>1. \A j \in 1..n : (j + 1)..n \subseteq 1..n
  OBVIOUS
<1>2. R = S
  BY <1>1
<1>3. \A j \in S : r.wire[j].version = s.wire[j].version /\ r.wire[j].of = s.wire[j].of
  OBVIOUS
<1>4. {[version |-> r.wire[j].version, of |-> r.wire[j].of] : j \in R}
        = {[version |-> s.wire[j].version, of |-> s.wire[j].of] : j \in S}
  <2> HIDE DEF R, S
  <2> QED BY <1>2, <1>3
<1>5. (\A j \in 1..n : ~IsNote(r.wire[j])) <=> (\A j \in 1..n : ~IsNote(s.wire[j]))
  OBVIOUS
<1> QED BY <1>4, <1>5 DEF Known

LEMMA KnownNext ==
    ASSUME NEW s, NEW n \in Nat
    PROVE  /\ ~IsNote(s.wire[n + 1]) => Known(s, n + 1) = Known(s, n)
           /\ IsNote(s.wire[n + 1]) =>
                Known(s, n + 1) = {[version |-> s.wire[n + 1].version, of |-> s.wire[n + 1].of]}
<1>0. 1..(n + 1) = (1..n) \union {n + 1}
  OBVIOUS
<1>1. CASE ~IsNote(s.wire[n + 1])
  <2>1. (\A j \in 1..(n + 1) : ~IsNote(s.wire[j])) <=> (\A j \in 1..n : ~IsNote(s.wire[j]))
    BY <1>0, <1>1
  <2>2. \A j \in 1..n : (j + 1)..(n + 1) = ((j + 1)..n) \union {n + 1}
    OBVIOUS
  <2>3. {j \in 1..(n + 1) : IsNote(s.wire[j]) /\ \A k \in (j + 1)..(n + 1) : ~IsNote(s.wire[k])}
          = {j \in 1..n : IsNote(s.wire[j]) /\ \A k \in (j + 1)..n : ~IsNote(s.wire[k])}
    BY <1>0, <1>1, <2>2
  <2> QED BY <1>1, <2>1, <2>3 DEF Known
<1>2. CASE IsNote(s.wire[n + 1])
  <2>1. {j \in 1..(n + 1) : IsNote(s.wire[j]) /\ \A k \in (j + 1)..(n + 1) : ~IsNote(s.wire[k])}
          = {n + 1}
    BY <1>0, <1>2
  <2> QED BY <1>2, <2>1 DEF Known
<1> QED BY <1>1, <1>2

\* The notifications on the wire go on where the server is, in order.
Ordered(s) ==
    \A i \in DOMAIN s.wire :
        IsNote(s.wire[i]) => /\ \A known \in Known(s, i - 1) : s.wire[i].version = known.version + 1
                             /\ s.wire[i].kind = "open" <=> s.wire[i].version = 1

\* Whatever is put on the wire, what was there before stays as it was.
LEMMA Appended ==
    ASSUME NEW s \in ServerRecords, NEW m \in Messages, NEW r,
           r = [s EXCEPT !.wire = Append(@, m)]
    PROVE  /\ r \in ServerRecords
           /\ Told(r) = IF IsNote(m) THEN {[version |-> m.version, of |-> m.of]} ELSE Told(s)
           /\ /\ Ordered(s)
              /\ IsNote(m) => /\ \A known \in Told(s) : m.version = known.version + 1
                              /\ m.kind = "open" <=> m.version = 1
              => Ordered(r)
<1>1. s.wire \in Seq(Messages) /\ Len(s.wire) \in Nat
  BY DEF ServerRecords
<1>2. /\ r.wire = Append(s.wire, m) /\ r.version = s.version /\ r.doc = s.doc
      /\ r \in ServerRecords
  <2>1. Append(s.wire, m) \in Seq(Messages)
    BY <1>1
  <2> QED BY <2>1 DEF ServerRecords
<1>3. /\ Len(r.wire) = Len(s.wire) + 1 /\ r.wire[Len(s.wire) + 1] = m
      /\ \A j \in 1..Len(s.wire) : r.wire[j] = s.wire[j]
  BY <1>1, <1>2, AppendFacts
<1>4. \A n \in 0..Len(s.wire) : Known(r, n) = Known(s, n)
  <2> SUFFICES ASSUME NEW n \in 0..Len(s.wire) PROVE Known(r, n) = Known(s, n)
    OBVIOUS
  <2>1. n \in Nat /\ \A j \in 1..n : j \in 1..Len(s.wire)
    BY <1>1
  <2> QED BY <1>2, <1>3, <2>1, KnownSame
<1>5. Told(r) = IF IsNote(m) THEN {[version |-> m.version, of |-> m.of]} ELSE Told(s)
  <2>1. Len(s.wire) \in 0..Len(s.wire)
    BY <1>1
  <2>2. Known(r, Len(s.wire)) = Told(s)
    BY <1>4, <2>1 DEF Told
  <2>3. /\ ~IsNote(m) => Known(r, Len(s.wire) + 1) = Known(r, Len(s.wire))
        /\ IsNote(m) => Known(r, Len(s.wire) + 1) = {[version |-> m.version, of |-> m.of]}
    BY <1>1, <1>3, KnownNext
  <2> QED BY <1>3, <2>2, <2>3 DEF Told
<1>6. DOMAIN r.wire = 1..(Len(s.wire) + 1) /\ DOMAIN s.wire = 1..Len(s.wire)
  BY <1>1, <1>2, <1>3
<1>7. ASSUME Ordered(s),
             IsNote(m) => /\ \A known \in Told(s) : m.version = known.version + 1
                          /\ m.kind = "open" <=> m.version = 1
      PROVE  Ordered(r)
  <2> SUFFICES ASSUME NEW i \in 1..(Len(s.wire) + 1), IsNote(r.wire[i])
               PROVE  /\ \A known \in Known(r, i - 1) : r.wire[i].version = known.version + 1
                      /\ r.wire[i].kind = "open" <=> r.wire[i].version = 1
    BY <1>6 DEF Ordered
  <2>1. CASE i = Len(s.wire) + 1
    <3>1. r.wire[i] = m /\ i - 1 = Len(s.wire) /\ Len(s.wire) \in 0..Len(s.wire)
      BY <1>1, <1>3, <2>1
    <3>2. Known(r, i - 1) = Told(s)
      BY <1>4, <3>1 DEF Told
    <3> QED BY <1>7, <3>1, <3>2
  <2>2. CASE i \in 1..Len(s.wire)
    <3>1. r.wire[i] = s.wire[i] /\ i - 1 \in 0..Len(s.wire) /\ i \in DOMAIN s.wire
      BY <1>1, <1>3, <1>6, <2>2
    <3>2. Known(r, i - 1) = Known(s, i - 1)
      BY <1>4, <3>1
    <3>3. IsNote(s.wire[i])
      BY <3>1
    <3> QED BY <1>7, <3>1, <3>2, <3>3 DEF Ordered
  <2>3. i = Len(s.wire) + 1 \/ i \in 1..Len(s.wire)
    BY <1>1
  <2> QED BY <2>1, <2>2, <2>3
<1> QED BY <1>2, <1>5, <1>7

\* A request that nobody waits for is none that the server would be told of less.
LEMMA Abandoned ==
    ASSUME NEW s \in ServerRecords, NEW r,
           r = [s EXCEPT !.wire = [i \in DOMAIN @ |-> IF @[i].kind = "request"
                                                     THEN [@[i] EXCEPT !.kind = "abandoned"]
                                                     ELSE @[i]]]
    PROVE  r \in ServerRecords /\ Told(r) = Told(s) /\ (Ordered(s) => Ordered(r))
<1> DEFINE w == [i \in 1..Len(s.wire) |-> IF s.wire[i].kind = "request"
                                          THEN [s.wire[i] EXCEPT !.kind = "abandoned"]
                                          ELSE s.wire[i]]
<1>1. s.wire \in Seq(Messages) /\ Len(s.wire) \in Nat /\ DOMAIN s.wire = 1..Len(s.wire)
  BY DEF ServerRecords
<1>2. \A i \in 1..Len(s.wire) : s.wire[i] \in Messages
  BY <1>1
<1>3. \A i \in 1..Len(s.wire) : w[i] \in Messages
  BY <1>2 DEF Messages
<1>4. w \in Seq(Messages) /\ Len(w) = Len(s.wire) /\ DOMAIN w = 1..Len(s.wire)
  <2>1. w \in [1..Len(s.wire) -> Messages]
    BY <1>3
  <2>2. w \in Seq(Messages)
    BY <1>1, <2>1, SeqDef
  <2> QED BY <1>1, <2>2
<1>5. \A i \in 1..Len(s.wire) : /\ IsNote(w[i]) <=> IsNote(s.wire[i])
                                /\ IsNote(s.wire[i]) => w[i] = s.wire[i]
  BY <1>2 DEF IsNote, Messages
<1>6. r = [s EXCEPT !.wire = w]
  BY <1>1
<1> HIDE DEF w
<1>7. r.wire = w /\ r.version = s.version /\ r.doc = s.doc /\ r \in ServerRecords
  BY <1>4, <1>6 DEF ServerRecords
<1>8. \A n \in 0..Len(s.wire) : Known(r, n) = Known(s, n)
  <2> SUFFICES ASSUME NEW n \in 0..Len(s.wire) PROVE Known(r, n) = Known(s, n)
    OBVIOUS
  <2>1. n \in Nat /\ \A j \in 1..n : j \in 1..Len(s.wire)
    BY <1>1
  <2> QED BY <1>5, <1>7, <2>1, KnownSame
<1>9. \A i \in DOMAIN s.wire : i - 1 \in 0..Len(s.wire)
  BY <1>1
<1>10. Told(r) = Told(s)
  <2>1. Len(s.wire) \in 0..Len(s.wire)
    BY <1>1
  <2> QED BY <1>4, <1>7, <1>8, <2>1 DEF Told
<1>11. ASSUME Ordered(s) PROVE Ordered(r)
  <2> SUFFICES ASSUME NEW i \in 1..Len(s.wire), IsNote(w[i])
               PROVE  /\ \A known \in Known(r, i - 1) : w[i].version = known.version + 1
                      /\ w[i].kind = "open" <=> w[i].version = 1
    BY <1>4, <1>7 DEF Ordered
  <2>1. w[i] = s.wire[i] /\ IsNote(s.wire[i]) /\ Known(r, i - 1) = Known(s, i - 1)
    BY <1>1, <1>5, <1>8, <1>9
  <2> QED BY <1>1, <1>11, <2>1 DEF Ordered
<1> QED BY <1>7, <1>10, <1>11

\* The server takes the first message, and knows afterwards what it was going to.
LEMMA Taken ==
    ASSUME NEW s \in ServerRecords, s.wire # <<>>, NEW r,
           r = [s EXCEPT !.wire    = Tail(@),
                         !.doc     = IF IsNote(Head(s.wire)) THEN Head(s.wire).of ELSE @,
                         !.version = IF IsNote(Head(s.wire)) THEN Head(s.wire).version ELSE @]
    PROVE  r \in ServerRecords /\ Told(r) = Told(s) /\ (Ordered(s) => Ordered(r))
<1> DEFINE m == Head(s.wire)
<1>1. /\ s.wire \in Seq(Messages) /\ Len(s.wire) \in Nat \ {0} /\ DOMAIN s.wire = 1..Len(s.wire)
      /\ m = s.wire[1] /\ m \in Messages
  BY DEF ServerRecords
<1>2. /\ Tail(s.wire) \in Seq(Messages) /\ Len(Tail(s.wire)) = Len(s.wire) - 1
      /\ \A j \in 1..(Len(s.wire) - 1) : Tail(s.wire)[j] = s.wire[j + 1]
  BY <1>1
<1>3. /\ r.wire = Tail(s.wire)
      /\ r.doc = IF IsNote(m) THEN m.of ELSE s.doc
      /\ r.version = IF IsNote(m) THEN m.version ELSE s.version
  BY DEF ServerRecords
<1>4. r \in ServerRecords
  <2>1. m.of \in Int /\ m.version \in Nat
    BY <1>1 DEF Messages
  <2> QED BY <1>2, <2>1 DEF ServerRecords
<1>5. \A n \in 0..(Len(s.wire) - 1) : Known(r, n) = Known(s, n + 1)
  <2> SUFFICES ASSUME NEW n \in 0..(Len(s.wire) - 1) PROVE Known(r, n) = Known(s, n + 1)
    OBVIOUS
  <2>1. /\ n \in Nat
        /\ \A j \in 1..n : r.wire[j] = s.wire[j + 1]
    BY <1>1, <1>2, <1>3
  <2> DEFINE R == {j \in 1..n : IsNote(r.wire[j]) /\ \A k \in (j + 1)..n : ~IsNote(r.wire[k])}
             S == {j \in 1..(n + 1) : IsNote(s.wire[j]) /\ \A k \in (j + 1)..(n + 1) : ~IsNote(s.wire[k])}
  <2>2. CASE \A j \in 1..n : ~IsNote(r.wire[j])
    <3>1. \A j \in 2..(n + 1) : ~IsNote(s.wire[j])
      <4>1. \A j \in 2..(n + 1) : j - 1 \in 1..n /\ s.wire[j] = r.wire[j - 1]
        BY <2>1
      <4> QED BY <2>2, <4>1
    <3>2. CASE IsNote(m)
      <4>1. S = {1}
        BY <1>1, <2>1, <3>1, <3>2
      <4>2. ~\A j \in 1..(n + 1) : ~IsNote(s.wire[j])
        BY <1>1, <2>1, <3>2
      <4> QED BY <1>1, <1>3, <2>2, <3>2, <4>1, <4>2 DEF Known
    <3>3. CASE ~IsNote(m)
      <4>1. \A j \in 1..(n + 1) : ~IsNote(s.wire[j])
        BY <1>1, <2>1, <3>1, <3>3
      <4> QED BY <1>3, <2>2, <3>3, <4>1 DEF Known
    <3> QED BY <3>2, <3>3
  <2>3. CASE \E j \in 1..n : IsNote(r.wire[j])
    <3>1. PICK i \in 1..n : IsNote(r.wire[i])
      BY <2>3
    <3>2. i + 1 \in 2..(n + 1) /\ IsNote(s.wire[i + 1])
      BY <2>1, <3>1
    <3>3. \A j \in R : j + 1 \in S
      <4> SUFFICES ASSUME NEW j \in R PROVE j + 1 \in S
        OBVIOUS
      <4>1. j + 1 \in 1..(n + 1) /\ IsNote(s.wire[j + 1])
        BY <2>1
      <4>2. \A k \in ((j + 1) + 1)..(n + 1) : ~IsNote(s.wire[k])
        <5> SUFFICES ASSUME NEW k \in ((j + 1) + 1)..(n + 1) PROVE ~IsNote(s.wire[k])
          OBVIOUS
        <5>1. k - 1 \in (j + 1)..n /\ k - 1 \in 1..n /\ (k - 1) + 1 = k
          BY <2>1
        <5>2. s.wire[k] = r.wire[k - 1]
          BY <2>1, <5>1
        <5> QED BY <5>1, <5>2
      <4> QED BY <4>1, <4>2
    <3>4. \A j \in S : j - 1 \in R
      <4> SUFFICES ASSUME NEW j \in S PROVE j - 1 \in R
        OBVIOUS
      <4>1. j # 1
        BY <2>1, <3>2
      <4>2. j - 1 \in 1..n /\ IsNote(r.wire[j - 1])
        BY <2>1, <4>1
      <4>3. \A k \in j..n : ~IsNote(r.wire[k])
        <5> SUFFICES ASSUME NEW k \in j..n PROVE ~IsNote(r.wire[k])
          OBVIOUS
        <5>1. k \in 1..n /\ k + 1 \in (j + 1)..(n + 1)
          BY <2>1
        <5> QED BY <2>1, <5>1
      <4> QED BY <4>2, <4>3
    <3>5. \A j \in R : r.wire[j] = s.wire[j + 1]
      BY <2>1
    <3>6. {[version |-> r.wire[j].version, of |-> r.wire[j].of] : j \in R}
            = {[version |-> s.wire[j].version, of |-> s.wire[j].of] : j \in S}
      <4> DEFINE Left(j)  == [version |-> r.wire[j].version, of |-> r.wire[j].of]
                 Right(j) == [version |-> s.wire[j].version, of |-> s.wire[j].of]
      <4>1. \A j \in S : j - 1 \in R /\ r.wire[j - 1] = s.wire[j]
        <5>1. \A j \in S : (j - 1) + 1 = j
          OBVIOUS
        <5> HIDE DEF R, S
        <5> QED BY <3>4, <3>5, <5>1
      <4>2. \A j \in R : j + 1 \in S /\ r.wire[j] = s.wire[j + 1]
        BY <3>3, <3>5
      <4> HIDE DEF R, S
      <4>3. \A j \in R : \E k \in S : Left(j) = Right(k)
        BY <4>2
      <4>4. \A j \in S : \E k \in R : Right(j) = Left(k)
        BY <4>1
      <4>5. {Left(j) : j \in R} = {Right(j) : j \in S}
        <5> HIDE DEF Left, Right
        <5> QED BY <4>3, <4>4
      <4> QED BY <4>5
    <3>7. i + 1 \in 1..(n + 1)
      BY <2>1
    <3>8. /\ Known(r, n) = {[version |-> r.wire[j].version, of |-> r.wire[j].of] : j \in R}
          /\ Known(s, n + 1) = {[version |-> s.wire[j].version, of |-> s.wire[j].of] : j \in S}
      BY <3>1, <3>2, <3>7 DEF Known
    <3> QED BY <3>6, <3>8
  <2> QED BY <2>2, <2>3
<1>6. Told(r) = Told(s)
  <2>1. Known(r, Len(s.wire) - 1) = Known(s, (Len(s.wire) - 1) + 1)
    BY <1>1, <1>5
  <2> QED BY <1>1, <1>2, <1>3, <2>1 DEF Told
<1>7. ASSUME Ordered(s) PROVE Ordered(r)
  <2> SUFFICES ASSUME NEW i \in 1..(Len(s.wire) - 1), IsNote(r.wire[i])
               PROVE  /\ \A known \in Known(r, i - 1) : r.wire[i].version = known.version + 1
                      /\ r.wire[i].kind = "open" <=> r.wire[i].version = 1
    BY <1>1, <1>2, <1>3 DEF Ordered
  <2>1. r.wire[i] = s.wire[i + 1] /\ i + 1 \in DOMAIN s.wire
    BY <1>1, <1>2, <1>3
  <2>2. Known(r, i - 1) = Known(s, (i + 1) - 1)
    <3>1. i - 1 \in 0..(Len(s.wire) - 1) /\ (i - 1) + 1 = (i + 1) - 1
      BY <1>1
    <3>2. Known(r, i - 1) = Known(s, (i - 1) + 1)
      BY <1>5, <3>1
    <3> QED BY <3>1, <3>2
  <2> QED BY <1>7, <2>1, <2>2 DEF Ordered
<1> QED BY <1>4, <1>6, <1>7

\* A server that has been told nothing.
LEMMA NewServerFacts ==
    /\ NewServer \in ServerRecords /\ Ordered(NewServer)
    /\ Told(NewServer) = {[version |-> 0, of |-> NotOpen]}
BY DEF NewServer, ServerRecords, Ordered, Told, Known, NotOpen

\* Publishing diagnostics is no news to the server.
LEMMA Published ==
    ASSUME NEW s \in ServerRecords, NEW r, r = [s EXCEPT !.publishes = @ + 1]
    PROVE  r \in ServerRecords /\ Told(r) = Told(s) /\ (Ordered(s) => Ordered(r))
<1>1. r \in ServerRecords /\ r.wire = s.wire /\ r.version = s.version /\ r.doc = s.doc
  BY DEF ServerRecords
<1>2. \A n : Known(r, n) = Known(s, n)
  BY <1>1 DEF Known
<1> QED BY <1>1, <1>2 DEF Told, Ordered

-----------------------------------------------------------------------------
(* What a step does to a client and its server.                            *)

Quiet(s, r) == r \in ServerRecords /\ Told(r) = Told(s) /\ (Ordered(s) => Ordered(r))

\* The server is told nothing of the document,
Same(c) ==
    /\ client'[c].version = client[c].version
    /\ client'[c].state # "dead" => client[c].state # "dead"
    /\ Quiet(server[c], server'[c])

\* is gone,
Killed(c) ==
    /\ client'[c].version = client[c].version
    /\ client'[c].state = "dead"
    /\ server'[c] = NewServer

\* or is sent the text.
Tracked(c, of) ==
    LET version == client[c].version + 1
    IN  /\ client'[c].version = version
        /\ client'[c].state = client[c].state
        /\ server'[c] = [server[c] EXCEPT !.wire =
                            Append(@, Message(IF version = 1 THEN "open" ELSE "change", version, of))]

ClientsTyped ==
    /\ client' \in [Clients -> ClientRecords]
    /\ server' \in [Clients -> ServerRecords]

\* A client's state stays, or its server ends.
Ages == \A c \in Clients : \/ client'[c].state = client[c].state
                           \/ client[c].state = "ready" /\ client'[c].state = "dead"

LEMMA QuietSelf == ASSUME NEW s \in ServerRecords PROVE Quiet(s, s)
BY DEF Quiet

LEMMA Unaffected ==
    ASSUME TypeInv, UNCHANGED <<client, server>>
    PROVE  ClientsTyped /\ Ages /\ \A c \in Clients : Same(c)
BY QuietSelf DEF TypeInv, ClientsTyped, Ages, Same

LEMMA KillEffect ==
    ASSUME TypeInv, NEW c \in Clients, Kill(c)
    PROVE  /\ ClientsTyped
           /\ client' = [client EXCEPT ![c].state = "dead"]
           /\ Killed(c) /\ \A d \in Clients \ {c} : Same(d)
<1>1. client' \in [Clients -> ClientRecords]
  <2>1. client[c] \in ClientRecords
    BY DEF TypeInv
  <2>2. [client[c] EXCEPT !.state = "dead"] \in ClientRecords
    BY <2>1 DEF ClientRecords
  <2> QED BY <2>2 DEF Kill, TypeInv
<1>2. server' \in [Clients -> ServerRecords]
  BY NewServerFacts DEF Kill, TypeInv
<1>3. Killed(c)
  BY DEF Kill, Killed, TypeInv, ClientRecords
<1>4. ASSUME NEW d \in Clients \ {c} PROVE Same(d)
  <2>1. client'[d] = client[d] /\ server'[d] = server[d] /\ server[d] \in ServerRecords
    BY DEF Kill, TypeInv
  <2> QED BY <2>1, QuietSelf DEF Same
<1> QED BY <1>1, <1>2, <1>3, <1>4 DEF ClientsTyped, Kill

LEMMA TrackEffect ==
    ASSUME TypeInv, NEW c \in Clients, NEW of \in Int, Track(c, of)
    PROVE  /\ ClientsTyped /\ Ages
           /\ Tracked(c, of) /\ \A d \in Clients \ {c} : Same(d)
<1> DEFINE version == client[c].version + 1
           note == Message(IF version = 1 THEN "open" ELSE "change", version, of)
<1>1. client[c] \in ClientRecords /\ version \in Nat /\ server[c] \in ServerRecords
  BY DEF TypeInv, ClientRecords
<1>2. client' = [client EXCEPT ![c].version = version]
  BY DEF Track
<1>3. server' = [server EXCEPT ![c].wire = Append(@, note)]
  BY DEF Track
<1>4. note \in Messages
  BY <1>1 DEF Message, Messages
<1>5. [server[c] EXCEPT !.wire = Append(@, note)] \in ServerRecords
  BY <1>1, <1>4, Appended
<1>6. [client[c] EXCEPT !.version = version] \in ClientRecords
  BY <1>1 DEF ClientRecords
<1>7. ClientsTyped
  <2> HIDE DEF note, version
  <2> QED BY <1>2, <1>3, <1>5, <1>6 DEF TypeInv, ClientsTyped
<1>8. Tracked(c, of)
  BY <1>1, <1>2, <1>3 DEF Tracked, TypeInv, ClientRecords
<1>9. ASSUME NEW d \in Clients \ {c} PROVE client'[d] = client[d] /\ Same(d)
  <2>1. client'[d] = client[d] /\ server'[d] = server[d] /\ server[d] \in ServerRecords
    BY <1>2, <1>3 DEF TypeInv
  <2> QED BY <2>1, QuietSelf DEF Same
<1>10. Ages
  BY <1>8, <1>9 DEF Ages, Tracked
<1> QED BY <1>7, <1>8, <1>9, <1>10

LEMMA AskEffect ==
    ASSUME TypeInv, NEW c \in Clients, NEW t \in Tasks, Ask(c, t)
    PROVE  ClientsTyped /\ Ages /\ \A d \in Clients : Same(d)
<1> DEFINE request == Message("request", 0, NotOpen)
<1>1. client[c] \in ClientRecords /\ server[c] \in ServerRecords /\ request \in Messages
  BY DEF TypeInv, Message, Messages, NotOpen
<1>2. [client[c] EXCEPT !.holder = t] \in ClientRecords
  BY <1>1 DEF ClientRecords
<1>3. client' = [client EXCEPT ![c].holder = t]
  BY DEF Ask
<1>4. client' \in [Clients -> ClientRecords]
  BY <1>2, <1>3 DEF TypeInv
<1>5. \A d \in Clients : /\ client'[d].version = client[d].version
                         /\ client'[d].state = client[d].state
  BY <1>3 DEF TypeInv, ClientRecords
<1>6. \A d \in Clients : Quiet(server[d], server'[d])
  <2>1. CASE client[c].state = "dead"
    BY <2>1, QuietSelf DEF Ask, TypeInv
  <2>2. CASE client[c].state # "dead"
    <3>1. server' = [server EXCEPT ![c].wire = Append(@, request)]
      BY <2>2 DEF Ask
    <3>2. server'[c] = [server[c] EXCEPT !.wire = Append(@, request)]
      BY <3>1 DEF TypeInv
    <3>3. ~IsNote(request)
      BY DEF IsNote, Message
    <3>4. Quiet(server[c], server'[c])
      <4> HIDE DEF request
      <4> QED BY <1>1, <3>2, <3>3, Appended DEF Quiet
    <3>5. \A d \in Clients \ {c} : server'[d] = server[d] /\ server[d] \in ServerRecords
      BY <3>1 DEF TypeInv
    <3> QED BY <3>4, <3>5, QuietSelf
  <2> QED BY <2>1, <2>2
<1>7. server' \in [Clients -> ServerRecords]
  <2>1. DOMAIN server' = Clients /\ server' = [d \in Clients |-> server'[d]]
    BY DEF Ask, TypeInv
  <2> QED BY <1>6, <2>1 DEF Quiet
<1> QED BY <1>4, <1>5, <1>6, <1>7 DEF ClientsTyped, Ages, Same

LEMMA ReleaseEffect ==
    ASSUME TypeInv, NEW c \in Clients, Release(c)
    PROVE  ClientsTyped /\ Ages /\ \A d \in Clients : Same(d)
<1>1. client[c] \in ClientRecords /\ server[c] \in ServerRecords
  BY DEF TypeInv
<1>2. [client[c] EXCEPT !.holder = NoTask, !.replied = FALSE] \in ClientRecords
  BY <1>1 DEF ClientRecords
<1>3. client' = [client EXCEPT ![c].holder = NoTask, ![c].replied = FALSE]
  BY DEF Release
<1>4. client' \in [Clients -> ClientRecords]
  BY <1>2, <1>3 DEF TypeInv
<1>5. \A d \in Clients : /\ client'[d].version = client[d].version
                         /\ client'[d].state = client[d].state
  BY <1>3 DEF TypeInv, ClientRecords
<1>6. \A d \in Clients : Quiet(server[d], server'[d])
  <2>1. server'[c] = [server[c] EXCEPT !.wire =
                         [i \in DOMAIN @ |-> IF @[i].kind = "request"
                                            THEN [@[i] EXCEPT !.kind = "abandoned"] ELSE @[i]]]
    BY DEF Release, TypeInv
  <2>2. Quiet(server[c], server'[c])
    BY <1>1, <2>1, Abandoned DEF Quiet
  <2>3. \A d \in Clients \ {c} : server'[d] = server[d] /\ server[d] \in ServerRecords
    BY DEF Release, TypeInv
  <2> QED BY <2>2, <2>3, QuietSelf
<1>7. server' \in [Clients -> ServerRecords]
  <2>1. DOMAIN server' = Clients /\ server' = [d \in Clients |-> server'[d]]
    BY DEF Release, TypeInv
  <2> QED BY <1>6, <2>1 DEF Quiet
<1> QED BY <1>4, <1>5, <1>6, <1>7 DEF ClientsTyped, Ages, Same

LEMMA TakesEffect ==
    ASSUME TypeInv, NEW c \in Clients, ServerTakes(c)
    PROVE  ClientsTyped /\ Ages /\ \A d \in Clients : Same(d)
<1> DEFINE m == Head(server[c].wire)
<1>1. client[c] \in ClientRecords /\ server[c] \in ServerRecords
  BY DEF TypeInv
<1>2. [client[c] EXCEPT !.replied = @ \/ m.kind = "request"] \in ClientRecords
  BY <1>1 DEF ClientRecords
<1>3. client' = [client EXCEPT ![c].replied = @ \/ m.kind = "request"]
  BY DEF ServerTakes
<1>4. client' \in [Clients -> ClientRecords]
  BY <1>2, <1>3 DEF TypeInv
<1>5. \A d \in Clients : /\ client'[d].version = client[d].version
                         /\ client'[d].state = client[d].state
  BY <1>3 DEF TypeInv, ClientRecords
<1>6. \A d \in Clients : Quiet(server[d], server'[d])
  <2>1. /\ server[c].wire # <<>>
        /\ server' = [server EXCEPT ![c].wire    = Tail(@),
                                    ![c].doc     = IF IsNote(m) THEN m.of ELSE @,
                                    ![c].version = IF IsNote(m) THEN m.version ELSE @]
    BY DEF ServerTakes, IsNote
  <2>2. server'[c] = [server[c] EXCEPT !.wire    = Tail(@),
                                       !.doc     = IF IsNote(m) THEN m.of ELSE @,
                                       !.version = IF IsNote(m) THEN m.version ELSE @]
    BY <2>1 DEF TypeInv
  <2>3. Quiet(server[c], server'[c])
    BY <1>1, <2>1, <2>2, Taken DEF Quiet
  <2>4. \A d \in Clients \ {c} : server'[d] = server[d] /\ server[d] \in ServerRecords
    BY <2>1 DEF TypeInv
  <2> QED BY <2>3, <2>4, QuietSelf
<1>7. server' \in [Clients -> ServerRecords]
  <2>1. DOMAIN server' = Clients /\ server' = [d \in Clients |-> server'[d]]
    BY DEF ServerTakes, TypeInv
  <2> QED BY <1>6, <2>1 DEF Quiet
<1> QED BY <1>4, <1>5, <1>6, <1>7 DEF ClientsTyped, Ages, Same

LEMMA PublishesEffect ==
    ASSUME TypeInv, NEW c \in Clients, ServerPublishes(c)
    PROVE  ClientsTyped /\ Ages /\ \A d \in Clients : Same(d)
<1>1. server' = [server EXCEPT ![c].publishes = @ + 1] /\ client' = client
  BY DEF ServerPublishes
<1>2. \A d \in Clients : Quiet(server[d], server'[d])
  <2>1. server[c] \in ServerRecords /\ server'[c] = [server[c] EXCEPT !.publishes = @ + 1]
    BY <1>1 DEF TypeInv
  <2>2. \A d \in Clients \ {c} : server'[d] = server[d] /\ server[d] \in ServerRecords
    BY <1>1 DEF TypeInv
  <2>3. Quiet(server[c], server'[c])
    BY <2>1, Published DEF Quiet
  <2> QED BY <2>2, <2>3, QuietSelf
<1>3. server' \in [Clients -> ServerRecords]
  <2>1. DOMAIN server' = Clients /\ server' = [d \in Clients |-> server'[d]]
    BY <1>1 DEF TypeInv
  <2> QED BY <1>2, <2>1 DEF Quiet
<1> QED BY <1>1, <1>2, <1>3 DEF ClientsTyped, Ages, Same, TypeInv

LEMMA HandledEffect ==
    ASSUME TypeInv, NEW p \in published, HandleDiagnostics(p)
    PROVE  ClientsTyped /\ Ages /\ \A d \in Clients : Same(d)
<1>1. /\ client[p.by] \in ClientRecords /\ p.by \in Clients /\ p.list \in Lists
      /\ client' = [client EXCEPT ![p.by].diagnostics = p.list] /\ server' = server
  BY DEF TypeInv, HandleDiagnostics
<1>2. [client[p.by] EXCEPT !.diagnostics = p.list] \in ClientRecords
  BY <1>1 DEF ClientRecords
<1>3. client' \in [Clients -> ClientRecords]
  BY <1>1, <1>2 DEF TypeInv
<1>4. \A d \in Clients : /\ client'[d].version = client[d].version
                         /\ client'[d].state = client[d].state
  BY <1>1 DEF TypeInv, ClientRecords
<1>5. \A d \in Clients : Quiet(server[d], server'[d])
  BY <1>1, QuietSelf DEF TypeInv
<1> QED BY <1>1, <1>3, <1>4, <1>5 DEF ClientsTyped, Ages, Same, TypeInv

-----------------------------------------------------------------------------
(* What a step does to a task.                                             *)

Moved(t, pc, using, text) ==
    /\ task' \in [Tasks -> TaskRecords]
    /\ task'[t].pc = pc /\ task'[t].using = using /\ task'[t].text = text
    /\ \A u \in Tasks \ {t} : task'[u] = task[u]

LEMMA TaskSet ==
    ASSUME TypeInv, NEW t \in Tasks, NEW r \in TaskRecords, task' = [task EXCEPT ![t] = r]
    PROVE  Moved(t, r.pc, r.using, r.text)
BY DEF TypeInv, Moved

LEMMA Returned ==
    ASSUME TypeInv, NEW t \in Tasks, Return(t)
    PROVE  Moved(t, "idle", NoClient, NotOpen)
<1>1. Idle \in TaskRecords
  BY DEF Idle, TaskRecords, Pcs, NotOpen
<1> QED BY <1>1, TaskSet DEF Return, Idle

LEMMA Went ==
    ASSUME TypeInv, NEW t \in Tasks, NEW pc \in Pcs, NEW c \in Clients \union {NoClient},
           \/ Goto(t, pc) /\ c = task[t].using
           \/ task' = [task EXCEPT ![t].pc = pc, ![t].using = c]
    PROVE  Moved(t, pc, c, task[t].text)
<1> DEFINE r == [task[t] EXCEPT !.pc = pc, !.using = c]
<1>1. task[t] \in TaskRecords
  BY DEF TypeInv
<1>2. r \in TaskRecords /\ r.pc = pc /\ r.using = c /\ r.text = task[t].text
  BY <1>1 DEF TaskRecords
<1>3. task' = [task EXCEPT ![t] = r]
  <2>1. CASE Goto(t, pc) /\ c = task[t].using
    <3>1. [task[t] EXCEPT !.pc = pc] = r
      BY <1>1, <2>1 DEF TaskRecords
    <3> QED BY <2>1, <3>1 DEF Goto, TypeInv
  <2>2. CASE task' = [task EXCEPT ![t].pc = pc, ![t].using = c]
    BY <2>2 DEF TypeInv
  <2> QED BY <2>1, <2>2
<1> HIDE DEF r
<1> QED BY <1>2, <1>3, TaskSet

-----------------------------------------------------------------------------
(* The inductive invariants.                                               *)

Starting(t) == task[t].pc \in {"spawn", "insert"}

\* A client that is being started belongs to the one task that starts it, and is not
\* the cached one.
CacheInv ==
    /\ \A t \in Tasks : Starting(t) =>
          /\ task[t].using \in Clients \ {cached}
          /\ client[task[t].using].state \in
                IF At(t, "spawn") THEN {"starting"} ELSE {"ready", "dead"}
    /\ \A t, u \in Tasks : t # u /\ Starting(t) /\ Starting(u) => task[t].using # task[u].using
    /\ cached # NoClient => client[cached].state \in {"ready", "dead"}
    /\ \A t \in Tasks : task[t].pc \in Holding => task[t].using # NoClient
    /\ \A t \in Tasks : task[t].pc = "again" => cached # NoClient
    /\ OneServer

\* The versions that are counted are those that are sent, and only to the cached client.
DocumentInv ==
    \A c \in Clients :
        /\ c # cached => client[c].version = 0
        /\ client[c].state # "dead" =>
              \A known \in Told(server[c]) : known.version = client[c].version
        /\ Ordered(server[c])

\* As long as no two patches are under way, one that is has the text of the file unless
\* something changed it since, and once there is none the server has it.
DiskInv ==
    /\ ~crossed => \A t, u \in Tasks : UnderWay(t) /\ UnderWay(u) => t = u
    /\ ~untold => ~gone
    /\ ~untold /\ ~crossed =>
        /\ \A t \in Tasks : UnderWay(t) => task[t].text = disk
        /\ (\A t \in Tasks : ~UnderWay(t)) /\ IsOpen /\ client[cached].state = "ready" =>
              \A known \in Told(server[cached]) : disk = known.of

-----------------------------------------------------------------------------
(* Steps that only move a task, and steps of the servers, leave the cache  *)
(* in order.                                                               *)

LEMMA CacheAfterMove ==
    ASSUME TypeInv, CacheInv, ClientsTyped, Ages, cached' = cached,
           NEW t \in Tasks, NEW pc \in Pcs \ {"spawn", "insert"}, NEW using, NEW text,
           ~Starting(t), Moved(t, pc, using, text),
           pc \in Holding => using = cached /\ cached # NoClient,
           pc = "again" => cached # NoClient
    PROVE  CacheInv'
<1>1. \A u \in Tasks : Starting(u)' => u # t /\ Starting(u) /\ task'[u] = task[u]
  BY DEF Starting, Moved
<1>2. \A u \in Tasks : task'[u].pc \in Holding =>
          task'[u] = task[u] \/ (task'[u].using = cached /\ cached # NoClient)
  <2> SUFFICES ASSUME NEW u \in Tasks, task'[u].pc \in Holding
               PROVE  task'[u] = task[u] \/ (task'[u].using = cached /\ cached # NoClient)
    OBVIOUS
  <2>1. CASE u = t
    <3>1. task'[t].pc = pc /\ task'[t].using = using
      BY DEF Moved
    <3> QED BY <2>1, <3>1
  <2>2. CASE u # t
    BY <2>2 DEF Moved
  <2> QED BY <2>1, <2>2
<1>3. \A u \in Tasks : Starting(u) => task'[u] = task[u] /\ Starting(u)'
  BY DEF Moved, Starting
<1>4. (\A u \in Tasks : Starting(u) =>
          /\ task[u].using \in Clients \ {cached}
          /\ client[task[u].using].state \in
                IF At(u, "spawn") THEN {"starting"} ELSE {"ready", "dead"})'
  <2> SUFFICES ASSUME NEW u \in Tasks, Starting(u)'
               PROVE  /\ task'[u].using \in Clients \ {cached}
                      /\ client'[task'[u].using].state \in
                            IF task'[u].pc = "spawn" THEN {"starting"} ELSE {"ready", "dead"}
    BY DEF At
  <2>1. task'[u] = task[u] /\ Starting(u)
    BY <1>1
  <2>2. /\ task[u].using \in Clients \ {cached}
        /\ client[task[u].using].state \in
              IF task[u].pc = "spawn" THEN {"starting"} ELSE {"ready", "dead"}
    BY <2>1 DEF CacheInv, At
  <2> QED BY <2>1, <2>2 DEF Ages
<1>5. (\A u, v \in Tasks : u # v /\ Starting(u) /\ Starting(v) => task[u].using # task[v].using)'
  BY <1>1 DEF CacheInv
<1>6. (cached # NoClient => client[cached].state \in {"ready", "dead"})'
  BY DEF CacheInv, Ages, TypeInv
<1>7. (\A u \in Tasks : task[u].pc \in Holding => task[u].using # NoClient)'
  BY <1>2 DEF CacheInv
<1>8. OneServer'
  <2>1. \A u \in Tasks : task'[u].pc \in Holding => task'[u].using = cached'
    BY <1>2 DEF CacheInv, OneServer
  <2>2. \A c \in Clients : client'[c].state \in {"starting", "ready"} =>
            c = cached' \/ \E u \in Tasks : task'[u].using = c /\ task'[u].pc \in {"spawn", "insert"}
    BY <1>3 DEF CacheInv, OneServer, Ages, Starting
  <2> QED BY <2>1, <2>2 DEF OneServer
<1>9. (\A u \in Tasks : task[u].pc = "again" => cached # NoClient)'
  BY DEF Moved, CacheInv
<1> QED BY <1>4, <1>5, <1>6, <1>7, <1>8, <1>9 DEF CacheInv

LEMMA CacheAfterServer ==
    ASSUME TypeInv, CacheInv, Ages, UNCHANGED <<cached, task>>
    PROVE  CacheInv'
<1>1. (\A u \in Tasks : Starting(u) =>
          /\ task[u].using \in Clients \ {cached}
          /\ client[task[u].using].state \in
                IF At(u, "spawn") THEN {"starting"} ELSE {"ready", "dead"})'
  BY DEF CacheInv, Ages, Starting, At
<1>2. OneServer'
  BY DEF CacheInv, OneServer, Ages
<1> QED BY <1>1, <1>2 DEF CacheInv, Ages, TypeInv, Starting

\* The document is in order as long as nothing but the text is sent to the cached client.
LEMMA DocumentAfter ==
    ASSUME TypeInv, DocumentInv, cached' = cached \/ cached = NoClient,
           \A c \in Clients : \/ Same(c)
                              \/ Killed(c)
                              \/ c = cached /\ client[c].state # "dead" /\ \E of \in Int : Tracked(c, of)
    PROVE  DocumentInv'
<1> SUFFICES ASSUME NEW c \in Clients
             PROVE  /\ c # cached' => client'[c].version = 0
                    /\ client'[c].state # "dead" =>
                          \A known \in Told(server'[c]) : known.version = client'[c].version
                    /\ Ordered(server'[c])
  BY DEF DocumentInv, Told
<1>1. c # cached' => c # cached
  BY DEF Clients, NoClient
<1>2. /\ c # cached => client[c].version = 0
      /\ client[c].state # "dead" =>
            \A known \in Told(server[c]) : known.version = client[c].version
      /\ Ordered(server[c])
  BY DEF DocumentInv
<1>3. CASE Same(c)
  BY <1>1, <1>2, <1>3 DEF Same, Quiet
<1>4. CASE Killed(c)
  BY <1>1, <1>2, <1>4, NewServerFacts DEF Killed
<1>5. ASSUME c = cached, client[c].state # "dead", NEW of \in Int, Tracked(c, of)
      PROVE  /\ c # cached' => client'[c].version = 0
             /\ client'[c].state # "dead" =>
                   \A known \in Told(server'[c]) : known.version = client'[c].version
             /\ Ordered(server'[c])
  <2> DEFINE version == client[c].version + 1
             note == Message(IF version = 1 THEN "open" ELSE "change", version, of)
  <2>1. /\ version \in Nat /\ server[c] \in ServerRecords
        /\ client'[c].version = version
        /\ server'[c] = [server[c] EXCEPT !.wire = Append(@, note)]
    BY <1>5 DEF Tracked, TypeInv, ClientRecords
  <2>2. /\ note \in Messages /\ IsNote(note) /\ note.version = version
        /\ note.kind = "open" <=> note.version = 1
    BY <2>1 DEF Message, Messages, IsNote
  <2>3. \A known \in Told(server[c]) : note.version = known.version + 1
    BY <1>2, <1>5, <2>2
  <2> HIDE DEF note, version
  <2>4. Told(server'[c]) = {[version |-> note.version, of |-> note.of]} /\ Ordered(server'[c])
    BY <1>2, <2>1, <2>2, <2>3, Appended
  <2>5. c = cached'
    BY <1>5 DEF Clients, NoClient
  <2> QED BY <2>1, <2>2, <2>4, <2>5
<1> QED BY <1>3, <1>4, <1>5

\* Steps that neither write the file nor send it.
LEMMA DiskAfter ==
    ASSUME TypeInv, DiskInv, UNCHANGED <<disk, gone, untold, crossed>>,
           \/ cached' = cached
           \/ cached = NoClient /\ (cached' # NoClient => client'[cached'].version = 0),
           \A c \in Clients : Same(c) \/ Killed(c),
           cached # NoClient /\ client'[cached].state = "ready" => client[cached].state = "ready",
           \A t \in Tasks : /\ UnderWay(t)' => UnderWay(t) /\ task'[t].text = task[t].text
                            /\ UnderWay(t) => \/ UnderWay(t)'
                                              \/ cached' = NoClient
                                              \/ client'[cached'].state = "dead"
    PROVE  DiskInv'
<1>0. /\ (~crossed => \A t, u \in Tasks : UnderWay(t) /\ UnderWay(u) => t = u)'
      /\ (~untold => ~gone)'
  BY DEF DiskInv
<1> SUFFICES ASSUME ~untold, ~crossed
             PROVE  /\ \A t \in Tasks : UnderWay(t)' => task'[t].text = disk'
                    /\ (\A t \in Tasks : ~UnderWay(t)') /\ IsOpen' /\ client'[cached'].state = "ready" =>
                          \A known \in Told(server'[cached']) : disk' = known.of
  BY <1>0 DEF DiskInv, Told
<1>1. /\ \A t \in Tasks : UnderWay(t) => task[t].text = disk
      /\ (\A t \in Tasks : ~UnderWay(t)) /\ IsOpen /\ client[cached].state = "ready" =>
            \A known \in Told(server[cached]) : disk = known.of
  BY DEF DiskInv
<1>2. ASSUME \A t \in Tasks : ~UnderWay(t)', IsOpen', client'[cached'].state = "ready"
      PROVE  \A known \in Told(server'[cached']) : disk' = known.of
  <2>1. cached' # NoClient /\ client'[cached'].version > 0
    BY <1>2 DEF IsOpen
  <2>2. cached' = cached /\ cached \in Clients
    BY <2>1 DEF TypeInv
  <2>3. \A t \in Tasks : ~UnderWay(t)
    BY <1>2, <2>1
  <2>4. Same(cached)
    BY <1>2, <2>2 DEF Killed
  <2>5. IsOpen /\ client[cached].state = "ready"
    BY <1>2, <2>1, <2>2, <2>4 DEF IsOpen, Same
  <2> QED BY <1>1, <2>2, <2>3, <2>4, <2>5 DEF Same, Quiet
<1> QED BY <1>1, <1>2

-----------------------------------------------------------------------------
(* Each step preserves the invariants.                                     *)

Inv == TypeInv /\ CacheInv /\ DocumentInv /\ DiskInv

LEMMA InitInv == Init => Inv
<1> SUFFICES ASSUME Init PROVE Inv
  OBVIOUS
<1> USE DEF Init, ClientInit
<1>1. \A c \in Clients : client[c] = NewClient /\ server[c] = NewServer
  OBVIOUS
<1>2. \A t \in Tasks : task[t] = Idle
  OBVIOUS
<1>3. NewClient \in ClientRecords /\ Idle \in TaskRecords
  BY DEF NewClient, ClientRecords, Idle, TaskRecords, Pcs, NotOpen
<1>4. TypeInv
  BY <1>3, NewServerFacts DEF TypeInv
<1>5. CacheInv
  BY <1>1, <1>2 DEF CacheInv, OneServer, Starting, Holding, Idle, NewClient, NoClient
<1>6. DocumentInv
  BY <1>1, NewServerFacts DEF DocumentInv, NewClient
<1>7. DiskInv
  BY <1>2 DEF DiskInv, UnderWay, Idle, IsOpen
<1> QED BY <1>4, <1>5, <1>6, <1>7 DEF Inv

\* Tasks that wait, look or report, with the clients as they were.
LEMMA QuietTask ==
    ASSUME Inv, NEW t \in Tasks,
           \/ Call(t) \/ List(t) \/ Listed(t) \/ LookupAgain(t) \/ ReadDiagnostics(t)
           \/ Poll(t) \/ Deadline(t) \/ Report(t)
    PROVE  Inv'
<1>1. TypeInv /\ CacheInv /\ DocumentInv /\ DiskInv
  BY DEF Inv
<1>2. task[t] \in TaskRecords
  BY <1>1 DEF TypeInv
<1>3. UNCHANGED <<disk, client, server, published, cached, gone, untold, crossed>>
  BY DEF Call, List, Listed, LookupAgain, ReadDiagnostics, Poll, Deadline, Report,
         clientVars, histories, fileVars
<1>4. ClientsTyped /\ Ages /\ \A c \in Clients : Same(c)
  BY <1>1, <1>3, Unaffected
<1>5. /\ ~Starting(t) /\ ~UnderWay(t)
      /\ \E pc \in Pcs \ {"spawn", "insert", "find", "track"} : \E using, text :
            /\ Moved(t, pc, using, text)
            /\ pc \in Holding => using = cached /\ cached # NoClient
            /\ pc = "again" => cached # NoClient
  <2>1. CASE Call(t)
    <3>1. PICK kind \in Kinds :
             task' = [task EXCEPT ![t] = [Idle EXCEPT !.pc = FirstStep[kind], !.kind = kind]]
      BY <2>1 DEF Call
    <3>2. FirstStep[kind] \in {"write", "lookup", "list"}
      BY ManagerAssumption DEF FirstStep
    <3> DEFINE r == [Idle EXCEPT !.pc = FirstStep[kind], !.kind = kind]
    <3>3. r \in TaskRecords /\ r.pc = FirstStep[kind]
      <4>1. Idle \in TaskRecords
        BY DEF Idle, TaskRecords, Pcs, NotOpen
      <4>2. FirstStep[kind] \in Pcs /\ kind \in Kinds
        BY <3>2 DEF Pcs
      <4> HIDE DEF Idle
      <4> QED BY <4>1, <4>2 DEF TaskRecords
    <3>4. Moved(t, r.pc, r.using, r.text)
      <4> HIDE DEF r
      <4> QED BY <1>1, <3>1, <3>3, TaskSet DEF r
    <3>5. /\ r.pc \in Pcs \ {"spawn", "insert", "find", "track", "again"}
          /\ r.pc \notin Holding
      BY <3>2, <3>3 DEF Pcs, Holding
    <3>6. ~Starting(t) /\ ~UnderWay(t)
      BY <2>1 DEF Call, At, Starting, UnderWay
    <3> QED BY <3>4, <3>5, <3>6
  <2>2. CASE List(t)
    <3>1. Moved(t, "listing", task[t].using, task[t].text)
      BY <1>1, <1>2, <2>2, Went DEF List, Pcs, TaskRecords
    <3> QED BY <2>2, <3>1 DEF List, At, Starting, UnderWay, Pcs, Holding
  <2>3. CASE (Listed(t) \/ ReadDiagnostics(t) \/ Report(t)) /\ Return(t)
    <3>1. Moved(t, "idle", NoClient, NotOpen)
      BY <1>1, <2>3, Returned
    <3>2. ~Starting(t) /\ ~UnderWay(t)
      BY <2>3 DEF Listed, ReadDiagnostics, Report, At, Starting, UnderWay
    <3> QED BY <3>1, <3>2 DEF Pcs, Holding
  <2>6. CASE Listed(t) /\ cached # NoClient /\ Goto(t, "again")
    <3>1. Moved(t, "again", task[t].using, task[t].text)
      BY <1>1, <1>2, <2>6, Went DEF Pcs, TaskRecords
    <3>2. ~Starting(t) /\ ~UnderWay(t)
      BY <2>6 DEF Listed, At, Starting, UnderWay
    <3> QED BY <2>6, <3>1, <3>2 DEF Pcs, Holding
  <2>7. CASE LookupAgain(t)
    <3>1. /\ task' = [task EXCEPT ![t].pc = "ask", ![t].using = cached]
          /\ ~Starting(t) /\ ~UnderWay(t) /\ cached # NoClient /\ cached \in Clients
      BY <1>1, <2>7 DEF LookupAgain, At, Starting, UnderWay, CacheInv, TypeInv
    <3>2. Moved(t, "ask", cached, task[t].text)
      BY <1>1, <3>1, Went DEF Pcs
    <3> QED BY <3>1, <3>2 DEF Pcs
  <2>4. CASE Poll(t)
    <3>1. PICK pc \in {"report", "poll"}, tick \in Nat :
             task' = [task EXCEPT ![t] = [task[t] EXCEPT !.pc = pc, !.tick = tick]]
      <4>1. PICK pc \in {"report", "poll"} :
               task' = [task EXCEPT ![t].pc = pc, ![t].tick = IF @ < 2 THEN @ + 1 ELSE @]
        BY <2>4 DEF Poll, At, TypeInv
      <4>2. (IF task[t].tick < 2 THEN task[t].tick + 1 ELSE task[t].tick) \in Nat
        BY <1>2 DEF TaskRecords
      <4> QED BY <1>1, <4>1, <4>2 DEF TypeInv
    <3> DEFINE r == [task[t] EXCEPT !.pc = pc, !.tick = tick]
    <3>2. r \in TaskRecords /\ r.pc = pc /\ r.using = task[t].using
      BY <1>2, <3>1 DEF TaskRecords, Pcs
    <3>3. Moved(t, r.pc, r.using, r.text)
      BY <1>1, <3>1, <3>2, TaskSet
    <3>4. task[t].using = cached /\ cached # NoClient /\ ~Starting(t) /\ ~UnderWay(t)
      BY <1>1, <2>4 DEF Poll, At, CacheInv, OneServer, Holding, Starting, UnderWay
    <3> HIDE DEF r
    <3> QED BY <3>2, <3>3, <3>4 DEF Pcs
  <2>5. CASE Deadline(t)
    <3>1. Moved(t, "report", task[t].using, task[t].text)
      BY <1>1, <1>2, <2>5, Went DEF Deadline, Pcs, TaskRecords
    <3>2. task[t].using = cached /\ cached # NoClient /\ ~Starting(t) /\ ~UnderWay(t)
      BY <1>1, <2>5 DEF Deadline, At, CacheInv, OneServer, Holding, Starting, UnderWay
    <3> QED BY <3>1, <3>2 DEF Pcs
  <2> QED BY <2>1, <2>2, <2>3, <2>4, <2>5, <2>6, <2>7 DEF Listed, ReadDiagnostics, Report
<1>6a. PICK pc \in Pcs \ {"spawn", "insert", "find", "track"} : \E using, text :
         /\ Moved(t, pc, using, text)
         /\ pc \in Holding => using = cached /\ cached # NoClient
         /\ pc = "again" => cached # NoClient
  BY <1>5
<1>6. PICK using, text :
         /\ Moved(t, pc, using, text)
         /\ pc \in Holding => using = cached /\ cached # NoClient
         /\ pc = "again" => cached # NoClient
  BY <1>6a
<1>7. TypeInv'
  BY <1>1, <1>3, <1>6 DEF TypeInv, Moved
<1>8. CacheInv'
  BY <1>1, <1>3, <1>4, <1>5, <1>6, CacheAfterMove
<1>9. DocumentInv'
  BY <1>1, <1>3, <1>4, DocumentAfter
<1>10. DiskInv'
  <2>1. \A u \in Tasks : /\ UnderWay(u)' => UnderWay(u) /\ task'[u].text = task[u].text
                         /\ UnderWay(u) => UnderWay(u)'
    BY <1>5, <1>6 DEF UnderWay, Moved
  <2> QED BY <1>1, <1>3, <1>4, <2>1, DiskAfter
<1> QED BY <1>7, <1>8, <1>9, <1>10 DEF Inv

\* Requests: they go to the cached client, and say nothing of the document.
LEMMA RequestTask ==
    ASSUME Inv, NEW t \in Tasks, SendRequest(t) \/ HearReply(t) \/ GiveUp(t)
    PROVE  Inv'
<1> DEFINE c == task[t].using
<1>1. TypeInv /\ CacheInv /\ DocumentInv /\ DiskInv
  BY DEF Inv
<1>2. task[t] \in TaskRecords /\ task[t].pc \in {"ask", "askAgain", "await", "awaitAgain"}
  BY <1>1 DEF TypeInv, SendRequest, HearReply, GiveUp, At
<1>3. c = cached /\ cached # NoClient /\ c \in Clients
  BY <1>1, <1>2 DEF CacheInv, OneServer, Holding, TypeInv
<1>4. UNCHANGED <<disk, published, cached, gone, untold, crossed>>
  BY DEF SendRequest, HearReply, GiveUp, histories, fileVars
<1>5. Ask(c, t) \/ Release(c)
  BY DEF SendRequest, HearReply, GiveUp
<1>6. ClientsTyped /\ Ages /\ \A d \in Clients : Same(d)
  BY <1>1, <1>3, <1>5, AskEffect, ReleaseEffect
<1>7. \E pc \in Pcs \ {"spawn", "insert", "find", "track", "again"} :
         Return(t) \/ Goto(t, pc)
  BY DEF SendRequest, HearReply, GiveUp, Pcs
<1>8a. PICK pc \in Pcs \ {"spawn", "insert", "find", "track", "again"} : \E using, text :
         Moved(t, pc, using, text) /\ (pc \in Holding => using = cached /\ cached # NoClient)
  <2>1. PICK pc \in Pcs \ {"spawn", "insert", "find", "track", "again"} :
           Return(t) \/ Goto(t, pc)
    BY <1>7
  <2>2. CASE Return(t)
    <3>1. Moved(t, "idle", NoClient, NotOpen)
      BY <1>1, <2>2, Returned
    <3> QED BY <3>1 DEF Pcs, Holding
  <2>3. CASE Goto(t, pc)
    <3>1. Moved(t, pc, c, task[t].text)
      BY <1>1, <1>3, <2>3, Went
    <3> QED BY <1>3, <3>1
  <2> QED BY <2>1, <2>2, <2>3
<1>8. PICK using, text :
         Moved(t, pc, using, text) /\ (pc \in Holding => using = cached /\ cached # NoClient)
  BY <1>8a
<1>9. ~Starting(t) /\ ~UnderWay(t)
  BY <1>2 DEF Starting, UnderWay
<1>10. TypeInv'
  BY <1>1, <1>4, <1>6, <1>8 DEF TypeInv, Moved, ClientsTyped
<1>11. CacheInv'
  BY <1>1, <1>4, <1>6, <1>8, <1>9, CacheAfterMove
<1>12. DocumentInv'
  BY <1>1, <1>4, <1>6, DocumentAfter
<1>13. DiskInv'
  <2>1. \A u \in Tasks : /\ UnderWay(u)' => UnderWay(u) /\ task'[u].text = task[u].text
                         /\ UnderWay(u) => UnderWay(u)'
    BY <1>8, <1>9 DEF UnderWay, Moved
  <2>2. client'[cached].state = "ready" => client[cached].state = "ready"
    BY <1>3, <1>6 DEF Ages
  <2> QED BY <1>1, <1>4, <1>6, <2>1, <2>2, DiskAfter
<1> QED BY <1>10, <1>11, <1>12, <1>13 DEF Inv

\* The servers' own steps.
LEMMA ServerSteps ==
    ASSUME Inv, ServerStep, UNCHANGED <<cached, readers, task, histories>>
    PROVE  Inv'
<1>1. TypeInv /\ CacheInv /\ DocumentInv /\ DiskInv
  BY Zenon DEF Inv
<1>2. UNCHANGED <<disk, cached, task, gone, untold, crossed>>
  BY DEF ServerStep, ServerTakes, ServerPublishes, ServerDies, HandleDiagnostics, histories, fileVars
<1>3. ClientsTyped /\ Ages /\ \A d \in Clients : Same(d) \/ Killed(d)
  <2>1. ASSUME NEW c \in Clients, ServerTakes(c) \/ ServerPublishes(c)
        PROVE  ClientsTyped /\ Ages /\ \A d \in Clients : Same(d)
    BY <1>1, <2>1, TakesEffect, PublishesEffect
  <2>2. ASSUME NEW c \in Clients, ServerDies(c)
        PROVE  ClientsTyped /\ Ages /\ \A d \in Clients : Same(d) \/ Killed(d)
    <3>1. Kill(c) /\ client[c].state = "ready"
      BY <2>2 DEF ServerDies
    <3>2. /\ ClientsTyped /\ client' = [client EXCEPT ![c].state = "dead"]
          /\ Killed(c) /\ \A d \in Clients \ {c} : Same(d)
      BY <1>1, <3>1, KillEffect
    <3>3. Ages
      BY <1>1, <3>1, <3>2 DEF Ages, TypeInv, Killed
    <3> QED BY <3>2, <3>3
  <2>3. ASSUME NEW p \in published, HandleDiagnostics(p)
        PROVE  ClientsTyped /\ Ages /\ \A d \in Clients : Same(d)
    BY <1>1, <2>3, HandledEffect
  <2> QED BY <2>1, <2>2, <2>3 DEF ServerStep
<1>4. TypeInv'
  <2>1. (\A p \in published : p.by \in Clients /\ p.list \in Lists)'
    <3>1. ASSUME NEW c \in Clients, ServerPublishes(c)
          PROVE  \A p \in published' : p.by \in Clients /\ p.list \in Lists
      <4>1. PICK list \in Lists : published' = published \union
                                    {[by |-> c, n |-> server[c].publishes, list |-> list]}
        BY <3>1 DEF ServerPublishes
      <4>2. \A p \in published : p.by \in Clients /\ p.list \in Lists
        BY <1>1 DEF TypeInv
      <4> QED BY ONLY <4>1, <4>2
    <3>2. published' \subseteq published \/ \E c \in Clients : ServerPublishes(c)
      <4>1. \A c \in Clients : ServerTakes(c) \/ ServerDies(c) => published' = published
        BY Zenon DEF ServerTakes, ServerDies
      <4>2. \A p \in published : HandleDiagnostics(p) => published' \subseteq published
        BY DEF HandleDiagnostics
      <4> QED BY <4>1, <4>2, Zenon DEF ServerStep
    <3> QED BY <1>1, <3>1, <3>2 DEF TypeInv
  <2> QED BY <1>1, <1>2, <1>3, <2>1 DEF TypeInv, ClientsTyped
<1>5. CacheInv'
  BY <1>1, <1>2, <1>3, CacheAfterServer
<1>6. DocumentInv'
  BY <1>1, <1>2, <1>3, DocumentAfter
<1>7. DiskInv'
  <2>1. \A u \in Tasks : /\ UnderWay(u)' => UnderWay(u) /\ task'[u].text = task[u].text
                         /\ UnderWay(u) => UnderWay(u)'
    BY <1>2 DEF UnderWay
  <2>2. cached # NoClient /\ client'[cached].state = "ready" => client[cached].state = "ready"
    BY <1>1, <1>3 DEF Ages, TypeInv
  <2> QED BY <1>1, <1>2, <1>3, <2>1, <2>2, DiskAfter
<1> QED BY <1>4, <1>5, <1>6, <1>7 DEF Inv

\* A task that had started a server lets go of it, which ends it.
LEMMA CacheAfterKill ==
    ASSUME TypeInv, CacheInv, NEW t \in Tasks, Starting(t), Kill(task[t].using), cached' = cached,
           NEW pc \in Pcs \ {"spawn", "insert", "again"}, NEW using, NEW text,
           Moved(t, pc, using, text),
           pc \in Holding => using = cached /\ cached # NoClient
    PROVE  CacheInv'
<1> DEFINE c == task[t].using
<1>1. c \in Clients \ {cached}
  BY DEF CacheInv
<1>2. client' = [client EXCEPT ![c].state = "dead"]
  BY <1>1, KillEffect
<1>3. client'[c].state = "dead" /\ \A d \in Clients \ {c} : client'[d] = client[d]
  BY <1>1, <1>2 DEF TypeInv, ClientRecords
<1>4. \A u \in Tasks : Starting(u)' => /\ u # t /\ Starting(u) /\ task'[u] = task[u]
                                       /\ task[u].using \in Clients \ {cached, c}
  BY DEF Starting, Moved, CacheInv
<1>5. \A u \in Tasks \ {t} : Starting(u) => Starting(u)' /\ task'[u] = task[u]
  BY DEF Moved, Starting
<1>6. (\A u \in Tasks : Starting(u) =>
          /\ task[u].using \in Clients \ {cached}
          /\ client[task[u].using].state \in
                IF At(u, "spawn") THEN {"starting"} ELSE {"ready", "dead"})'
  BY <1>3, <1>4 DEF CacheInv, At
<1>7. (\A u, v \in Tasks : u # v /\ Starting(u) /\ Starting(v) => task[u].using # task[v].using)'
  BY <1>4 DEF CacheInv
<1>8. (cached # NoClient => client[cached].state \in {"ready", "dead"})'
  BY <1>1, <1>3 DEF CacheInv, TypeInv
<1>9. \A u \in Tasks : task'[u].pc \in Holding =>
          (u = t \/ task'[u] = task[u]) /\ task'[u].using = cached /\ cached # NoClient
  <2> SUFFICES ASSUME NEW u \in Tasks, task'[u].pc \in Holding
               PROVE  (u = t \/ task'[u] = task[u]) /\ task'[u].using = cached /\ cached # NoClient
    OBVIOUS
  <2>1. CASE u = t
    <3>1. task'[t].pc = pc /\ task'[t].using = using
      BY DEF Moved
    <3> QED BY <2>1, <3>1
  <2>2. CASE u # t
    BY <2>2 DEF Moved, CacheInv, OneServer
  <2> QED BY <2>1, <2>2
<1>10. OneServer'
  <2>1. \A d \in Clients : client'[d].state \in {"starting", "ready"} =>
            d = cached' \/ \E u \in Tasks : task'[u].using = d /\ task'[u].pc \in {"spawn", "insert"}
    <3> SUFFICES ASSUME NEW d \in Clients, client'[d].state \in {"starting", "ready"}, d # cached
                 PROVE  \E u \in Tasks : task'[u].using = d /\ task'[u].pc \in {"spawn", "insert"}
      OBVIOUS
    <3>1. d # c /\ client'[d] = client[d]
      BY <1>3
    <3>2. PICK u \in Tasks : task[u].using = d /\ Starting(u)
      BY <3>1 DEF CacheInv, OneServer, Starting
    <3> QED BY <1>5, <3>1, <3>2 DEF Starting
  <2> QED BY <1>9, <2>1 DEF OneServer
<1>11. (\A u \in Tasks : task[u].pc = "again" => cached # NoClient)'
  BY DEF Moved, CacheInv
<1> QED BY <1>6, <1>7, <1>8, <1>9, <1>10, <1>11 DEF CacheInv

\* A cached client is taken; or a new one is started, while the cache may be empty for
\* others as well.
LEMMA LookupTask == ASSUME Inv, NEW t \in Tasks, Lookup(t) PROVE Inv'
<1>1. /\ TypeInv /\ CacheInv /\ DocumentInv /\ DiskInv
      /\ task[t] \in TaskRecords /\ ~Starting(t) /\ ~UnderWay(t)
      /\ UNCHANGED <<disk, server, published, cached, gone, untold, crossed>>
  BY DEF Inv, TypeInv, Lookup, At, Starting, UnderWay, histories, fileVars
<1>2. CASE /\ client' = client
           /\ \/ Return(t)
              \/ cached # NoClient /\ task' = [task EXCEPT ![t].pc = "ask", ![t].using = cached]
  <2>1a. PICK pc \in {"idle", "ask"} : \E using, text :
           Moved(t, pc, using, text) /\ (pc \in Holding => using = cached /\ cached # NoClient)
    <3>1. CASE Return(t)
      BY <1>1, <3>1, Returned DEF Holding
    <3>2. CASE cached # NoClient /\ task' = [task EXCEPT ![t].pc = "ask", ![t].using = cached]
      <4>1. Moved(t, "ask", cached, task[t].text)
        BY <1>1, <3>2, Went DEF Pcs, TypeInv
      <4> QED BY <3>2, <4>1
    <3> QED BY <1>2, <3>1, <3>2
  <2>1. PICK using, text :
           Moved(t, pc, using, text) /\ (pc \in Holding => using = cached /\ cached # NoClient)
    BY <2>1a
  <2>2. ClientsTyped /\ Ages /\ \A c \in Clients : Same(c)
    BY <1>1, <1>2, Unaffected
  <2>3. TypeInv'
    BY <1>1, <1>2, <2>1 DEF TypeInv, Moved
  <2>4. CacheInv'
    BY <1>1, <2>1, <2>2, CacheAfterMove DEF Pcs
  <2>5. DocumentInv'
    BY <1>1, <2>2, DocumentAfter
  <2>6. \A u \in Tasks : /\ UnderWay(u)' => UnderWay(u) /\ task'[u].text = task[u].text
                         /\ UnderWay(u) => UnderWay(u)'
    BY <1>1, <2>1 DEF UnderWay, Moved
  <2>7. DiskInv'
    BY <1>1, <1>2, <2>2, <2>6, DiskAfter
  <2> QED BY <2>3, <2>4, <2>5, <2>7 DEF Inv
<1>3. ASSUME NEW c \in Clients, client[c].state = "none",
             task' = [task EXCEPT ![t].pc = "spawn", ![t].using = c],
             client' = [client EXCEPT ![c].state = "starting"]
      PROVE  Inv'
  <2>1. Moved(t, "spawn", c, task[t].text)
    BY <1>1, <1>3, Went DEF Pcs
  <2>2. client' \in [Clients -> ClientRecords]
    <3>1. [client[c] EXCEPT !.state = "starting"] \in ClientRecords
      BY <1>1 DEF TypeInv, ClientRecords
    <3> QED BY <1>1, <1>3, <3>1 DEF TypeInv
  <2>3. /\ client'[c].state = "starting"
        /\ \A d \in Clients : client'[d].version = client[d].version
        /\ \A d \in Clients \ {c} : client'[d] = client[d]
    BY <1>1, <1>3 DEF TypeInv, ClientRecords
  <2>4. \A d \in Clients : Same(d)
    BY <1>1, <1>3, <2>3, QuietSelf DEF Same, TypeInv
  <2>5. TypeInv'
    BY <1>1, <2>1, <2>2 DEF TypeInv, Moved
  <2>6. CacheInv'
    <3>1. c # cached
      BY <1>1, <1>3 DEF CacheInv, Clients, NoClient
    <3>2. \A u \in Tasks \ {t} : task'[u] = task[u] /\ (Starting(u) => task[u].using # c)
      BY <1>1, <1>3, <2>1 DEF CacheInv, Moved
    <3>3. task'[t].using = c /\ task'[t].pc = "spawn"
      BY <2>1 DEF Moved
    <3>4. (\A u \in Tasks : Starting(u) =>
              /\ task[u].using \in Clients \ {cached}
              /\ client[task[u].using].state \in
                    IF At(u, "spawn") THEN {"starting"} ELSE {"ready", "dead"})'
      <4>1. ASSUME NEW u \in Tasks \ {t}, Starting(u)'
            PROVE  /\ task'[u].using \in Clients \ {cached}
                   /\ client'[task'[u].using].state \in
                         IF task'[u].pc = "spawn" THEN {"starting"} ELSE {"ready", "dead"}
        <5>1. task'[u] = task[u] /\ Starting(u)
          BY <3>2, <4>1 DEF Starting
        <5>2. /\ task[u].using \in Clients \ {cached, c}
              /\ client[task[u].using].state \in
                    IF task[u].pc = "spawn" THEN {"starting"} ELSE {"ready", "dead"}
          BY <1>1, <3>2, <5>1 DEF CacheInv, At
        <5> QED BY <2>3, <5>1, <5>2
      <4> QED BY <1>1, <2>3, <3>1, <3>3, <4>1 DEF At
    <3>5. (\A u, v \in Tasks : u # v /\ Starting(u) /\ Starting(v) => task[u].using # task[v].using)'
      BY <1>1, <3>2, <3>3 DEF CacheInv, Starting
    <3>6. (cached # NoClient => client[cached].state \in {"ready", "dead"})'
      BY <1>1, <2>3, <3>1 DEF CacheInv, TypeInv
    <3>7. (\A u \in Tasks : task[u].pc \in Holding => task[u].using # NoClient)'
      BY <1>1, <3>2, <3>3 DEF CacheInv, Holding
    <3>8. OneServer'
      <4>1. \A u \in Tasks : task'[u].pc \in Holding => task'[u].using = cached'
        BY <1>1, <3>2, <3>3 DEF CacheInv, OneServer, Holding
      <4>2. \A d \in Clients : client'[d].state \in {"starting", "ready"} =>
                d = cached' \/ \E u \in Tasks : task'[u].using = d /\ task'[u].pc \in {"spawn", "insert"}
        <5> SUFFICES ASSUME NEW d \in Clients \ {c}, client'[d].state \in {"starting", "ready"},
                            d # cached
                     PROVE  \E u \in Tasks : task'[u].using = d /\ task'[u].pc \in {"spawn", "insert"}
          BY <1>1, <3>3
        <5>1. PICK u \in Tasks : task[u].using = d /\ Starting(u)
          BY <1>1, <2>3 DEF CacheInv, OneServer, Starting
        <5>2. u # t
          BY <1>1, <5>1
        <5> QED BY <3>2, <5>1, <5>2 DEF Starting
      <4> QED BY <4>1, <4>2 DEF OneServer
    <3>9. (\A u \in Tasks : task[u].pc = "again" => cached # NoClient)'
      BY <1>1, <3>2, <3>3 DEF CacheInv
    <3> QED BY <3>4, <3>5, <3>6, <3>7, <3>8, <3>9 DEF CacheInv
  <2>7. DocumentInv'
    BY <1>1, <2>4, DocumentAfter
  <2>8. DiskInv'
    <3>1. \A u \in Tasks : /\ UnderWay(u)' => UnderWay(u) /\ task'[u].text = task[u].text
                           /\ UnderWay(u) => UnderWay(u)'
      BY <1>1, <2>1 DEF UnderWay, Moved
    <3>2. cached # NoClient /\ client'[cached].state = "ready" => client[cached].state = "ready"
      BY <1>1, <2>3 DEF TypeInv
    <3> QED BY <1>1, <2>4, <3>1, <3>2, DiskAfter
  <2> QED BY <2>5, <2>6, <2>7, <2>8 DEF Inv
<1> QED BY <1>2, <1>3 DEF Lookup

\* The new client is ready; it is not cached, but by the task that started it.
LEMMA SpawnedTask == ASSUME Inv, NEW t \in Tasks, Spawned(t) PROVE Inv'
<1> DEFINE c == task[t].using
<1>1. /\ TypeInv /\ CacheInv /\ DocumentInv /\ DiskInv
      /\ task[t] \in TaskRecords /\ Starting(t) /\ ~UnderWay(t)
      /\ UNCHANGED <<disk, server, published, cached, gone, untold, crossed>>
  BY DEF Inv, TypeInv, Spawned, At, Starting, UnderWay, histories, fileVars
<1>2. c \in Clients \ {cached} /\ client[c].state = "starting"
  BY <1>1 DEF CacheInv, Spawned, At
<1>3. Moved(t, "insert", c, task[t].text)
  BY <1>1, <1>2, Went DEF Spawned, Pcs
<1>4. client' = [client EXCEPT ![c].state = "ready"]
  BY DEF Spawned
<1>5. client' \in [Clients -> ClientRecords]
  <2>1. [client[c] EXCEPT !.state = "ready"] \in ClientRecords
    BY <1>1, <1>2 DEF TypeInv, ClientRecords
  <2> QED BY <1>1, <1>4, <2>1 DEF TypeInv
<1>6. /\ client'[c].state = "ready"
      /\ \A d \in Clients : client'[d].version = client[d].version
      /\ \A d \in Clients \ {c} : client'[d] = client[d]
  BY <1>1, <1>2, <1>4 DEF TypeInv, ClientRecords
<1>7. \A d \in Clients : Same(d)
  BY <1>1, <1>2, <1>6, QuietSelf DEF Same, TypeInv
<1>8. TypeInv'
  BY <1>1, <1>3, <1>5 DEF TypeInv, Moved
<1>9. CacheInv'
  <2>1. \A u \in Tasks \ {t} : task'[u] = task[u] /\ (Starting(u) => task[u].using # c)
    BY <1>1, <1>3 DEF CacheInv, Moved
  <2>2. task'[t].using = c /\ task'[t].pc = "insert"
    BY <1>3 DEF Moved
  <2>3. (\A u \in Tasks : Starting(u) =>
            /\ task[u].using \in Clients \ {cached}
            /\ client[task[u].using].state \in
                  IF At(u, "spawn") THEN {"starting"} ELSE {"ready", "dead"})'
    <3>1. ASSUME NEW u \in Tasks \ {t}, Starting(u)'
          PROVE  /\ task'[u].using \in Clients \ {cached}
                 /\ client'[task'[u].using].state \in
                       IF task'[u].pc = "spawn" THEN {"starting"} ELSE {"ready", "dead"}
      <4>1. task'[u] = task[u] /\ Starting(u)
        BY <2>1, <3>1 DEF Starting
      <4>2. /\ task[u].using \in Clients \ {cached, c}
            /\ client[task[u].using].state \in
                  IF task[u].pc = "spawn" THEN {"starting"} ELSE {"ready", "dead"}
        BY <1>1, <2>1, <4>1 DEF CacheInv, At
      <4> QED BY <1>6, <4>1, <4>2
    <3> QED BY <1>1, <1>2, <1>6, <2>2, <3>1 DEF At
  <2>4. (\A u, v \in Tasks : u # v /\ Starting(u) /\ Starting(v) => task[u].using # task[v].using)'
    BY <1>1, <2>1, <2>2 DEF CacheInv, Starting
  <2>5. (cached # NoClient => client[cached].state \in {"ready", "dead"})'
    BY <1>1, <1>2, <1>6 DEF CacheInv, TypeInv
  <2>6. (\A u \in Tasks : task[u].pc \in Holding => task[u].using # NoClient)'
    BY <1>1, <2>1, <2>2 DEF CacheInv, Holding
  <2>7. OneServer'
    <3>1. \A u \in Tasks : task'[u].pc \in Holding => task'[u].using = cached'
      BY <1>1, <2>1, <2>2 DEF CacheInv, OneServer, Holding
    <3>2. \A d \in Clients : client'[d].state \in {"starting", "ready"} =>
              d = cached' \/ \E u \in Tasks : task'[u].using = d /\ task'[u].pc \in {"spawn", "insert"}
      <4> SUFFICES ASSUME NEW d \in Clients \ {c}, client'[d].state \in {"starting", "ready"},
                          d # cached
                   PROVE  \E u \in Tasks : task'[u].using = d /\ task'[u].pc \in {"spawn", "insert"}
        BY <1>1, <2>2
      <4>1. PICK u \in Tasks : task[u].using = d /\ Starting(u)
        BY <1>1, <1>6 DEF CacheInv, OneServer, Starting
      <4>2. u # t
        BY <4>1
      <4> QED BY <2>1, <4>1, <4>2 DEF Starting
    <3> QED BY <3>1, <3>2 DEF OneServer
  <2>8. (\A u \in Tasks : task[u].pc = "again" => cached # NoClient)'
    BY <1>1, <2>1, <2>2 DEF CacheInv
  <2> QED BY <2>3, <2>4, <2>5, <2>6, <2>7, <2>8 DEF CacheInv
<1>10. DocumentInv'
  BY <1>1, <1>7, DocumentAfter
<1>11. DiskInv'
  <2>1. \A u \in Tasks : /\ UnderWay(u)' => UnderWay(u) /\ task'[u].text = task[u].text
                         /\ UnderWay(u) => UnderWay(u)'
    BY <1>1, <1>3 DEF UnderWay, Moved
  <2>2. cached # NoClient /\ client'[cached].state = "ready" => client[cached].state = "ready"
    BY <1>1, <1>2, <1>6 DEF TypeInv
  <2> QED BY <1>1, <1>7, <2>1, <2>2, DiskAfter
<1> QED BY <1>8, <1>9, <1>10, <1>11 DEF Inv

\* A client that nobody else has seen is dropped: it could not be started, or another
\* one is in the cache by then.
LEMMA DropTask ==
    ASSUME Inv, NEW t \in Tasks,
           SpawnFails(t) \/ (Insert(t) /\ cached # NoClient)
    PROVE  Inv'
<1> DEFINE c == task[t].using
<1>1. /\ TypeInv /\ CacheInv /\ DocumentInv /\ DiskInv
      /\ task[t] \in TaskRecords /\ Starting(t) /\ ~UnderWay(t)
      /\ Kill(c)
      /\ UNCHANGED <<disk, published, cached, gone, untold, crossed>>
  BY DEF Inv, TypeInv, SpawnFails, Insert, At, Starting, UnderWay, histories, fileVars
<1>2. c \in Clients \ {cached}
  BY <1>1 DEF CacheInv
<1>3a. PICK pc \in {"idle", "ask"} : \E using, text :
         Moved(t, pc, using, text) /\ (pc \in Holding => using = cached /\ cached # NoClient)
  <2>1. CASE SpawnFails(t)
    <3>1. Moved(t, "idle", NoClient, NotOpen)
      BY <1>1, <2>1, Returned DEF SpawnFails
    <3> QED BY <3>1 DEF Holding
  <2>2. CASE Insert(t) /\ cached # NoClient
    <3>1. task' = [task EXCEPT ![t].pc = "ask", ![t].using = cached]
      BY <2>2 DEF Insert
    <3>2. Moved(t, "ask", cached, task[t].text)
      BY <1>1, <3>1, Went DEF Pcs, TypeInv
    <3> QED BY <2>2, <3>2
  <2> QED BY <2>1, <2>2
<1>3. PICK using, text :
         Moved(t, pc, using, text) /\ (pc \in Holding => using = cached /\ cached # NoClient)
  BY <1>3a
<1>4. /\ ClientsTyped /\ client' = [client EXCEPT ![c].state = "dead"]
      /\ \A d \in Clients : Same(d) \/ Killed(d)
  BY <1>1, <1>2, KillEffect
<1>5. TypeInv'
  BY <1>1, <1>3, <1>4 DEF TypeInv, Moved, ClientsTyped
<1>6. CacheInv'
  BY <1>1, <1>3, CacheAfterKill DEF Pcs
<1>7. DocumentInv'
  BY <1>1, <1>4, DocumentAfter
<1>8. DiskInv'
  <2>1. \A u \in Tasks : /\ UnderWay(u)' => UnderWay(u) /\ task'[u].text = task[u].text
                         /\ UnderWay(u) => UnderWay(u)'
    BY <1>1, <1>3 DEF UnderWay, Moved
  <2>2. cached # NoClient /\ client'[cached].state = "ready" => client[cached].state = "ready"
    BY <1>1, <1>2, <1>4 DEF TypeInv
  <2> QED BY <1>1, <1>4, <2>1, <2>2, DiskAfter
<1> QED BY <1>5, <1>6, <1>7, <1>8 DEF Inv

\* The first to come puts its client into the cache; nobody has a client from it, and the
\* client has been sent nothing.
LEMMA InsertTask ==
    ASSUME Inv, NEW t \in Tasks, Insert(t), cached = NoClient
    PROVE  Inv'
<1> DEFINE c == task[t].using
<1>1. /\ TypeInv /\ CacheInv /\ DocumentInv /\ DiskInv
      /\ task[t] \in TaskRecords /\ Starting(t) /\ ~UnderWay(t)
      /\ cached' = c /\ Goto(t, "ask")
      /\ UNCHANGED <<disk, client, server, published, gone, untold, crossed>>
  BY DEF Inv, TypeInv, Insert, At, Starting, UnderWay, histories, fileVars, clientVars
<1>2. c \in Clients /\ client[c].state \in {"ready", "dead"} /\ client[c].version = 0
  BY <1>1 DEF CacheInv, DocumentInv, Insert, At
<1>3. Moved(t, "ask", c, task[t].text)
  BY <1>1, <1>2, Went DEF Pcs
<1>4. ClientsTyped /\ Ages /\ \A d \in Clients : Same(d)
  BY <1>1, Unaffected
<1>5. TypeInv'
  BY <1>1, <1>2, <1>3 DEF TypeInv, Moved
<1>6. CacheInv'
  <2>1. \A u \in Tasks \ {t} : /\ task'[u] = task[u] /\ task[u].pc \notin Holding
                               /\ Starting(u) => task[u].using # c
    BY <1>1, <1>3 DEF CacheInv, OneServer, Moved
  <2>2. task'[t].using = c /\ task'[t].pc = "ask"
    BY <1>3 DEF Moved
  <2>3. (\A u \in Tasks : Starting(u) =>
            /\ task[u].using \in Clients \ {cached}
            /\ client[task[u].using].state \in
                  IF At(u, "spawn") THEN {"starting"} ELSE {"ready", "dead"})'
    BY <1>1, <2>1, <2>2 DEF CacheInv, Starting, At
  <2>4. (\A u, v \in Tasks : u # v /\ Starting(u) /\ Starting(v) => task[u].using # task[v].using)'
    BY <1>1, <2>1, <2>2 DEF CacheInv, Starting
  <2>5. (\A u \in Tasks : task[u].pc \in Holding => task[u].using # NoClient)'
    BY <1>2, <2>1, <2>2 DEF Clients, NoClient
  <2>6. OneServer'
    <3>1. \A u \in Tasks : task'[u].pc \in Holding => task'[u].using = cached'
      BY <1>1, <2>1, <2>2
    <3>2. \A d \in Clients : client'[d].state \in {"starting", "ready"} =>
              d = cached' \/ \E u \in Tasks : task'[u].using = d /\ task'[u].pc \in {"spawn", "insert"}
      <4> SUFFICES ASSUME NEW d \in Clients, client[d].state \in {"starting", "ready"}, d # c
                   PROVE  \E u \in Tasks : task'[u].using = d /\ task'[u].pc \in {"spawn", "insert"}
        BY <1>1
      <4>1. PICK u \in Tasks : task[u].using = d /\ Starting(u)
        BY <1>1 DEF CacheInv, OneServer, Starting, Clients, NoClient
      <4>2. u # t
        BY <4>1
      <4> QED BY <2>1, <4>1, <4>2 DEF Starting
    <3> QED BY <3>1, <3>2 DEF OneServer
  <2> QED BY <1>1, <1>2, <2>3, <2>4, <2>5, <2>6 DEF CacheInv
<1>7. DocumentInv'
  BY <1>1, <1>4, DocumentAfter
<1>8. DiskInv'
  <2>1. \A u \in Tasks : /\ UnderWay(u)' => UnderWay(u) /\ task'[u].text = task[u].text
                         /\ UnderWay(u) => UnderWay(u)'
    BY <1>1, <1>3 DEF UnderWay, Moved
  <2> QED BY <1>1, <1>2, <1>4, <2>1, DiskAfter
<1> QED BY <1>5, <1>6, <1>7, <1>8 DEF Inv

\* A patch writes the file, and the server will be told of it.
LEMMA WriteTask ==
    ASSUME Inv, NEW t \in Tasks, WriteFile(t)
    PROVE  Inv'
<1>1. /\ TypeInv /\ CacheInv /\ DocumentInv /\ DiskInv
      /\ task[t] \in TaskRecords /\ ~Starting(t) /\ ~UnderWay(t)
      /\ disk' = disk + 1 /\ disk \in Nat /\ gone' = FALSE /\ untold' = FALSE
      /\ crossed' = (crossed \/ \E u \in Tasks \ {t} : UnderWay(u))
      /\ task' = [task EXCEPT ![t].pc = "find", ![t].text = disk + 1]
      /\ UNCHANGED <<client, server, published, cached>>
  BY DEF Inv, TypeInv, WriteFile, At, Starting, UnderWay
<1>2. ClientsTyped /\ Ages /\ \A c \in Clients : Same(c)
  BY <1>1, Unaffected
<1>3. Moved(t, "find", task[t].using, disk + 1)
  <2> DEFINE r == [task[t] EXCEPT !.pc = "find", !.text = disk + 1]
  <2>1. r \in TaskRecords /\ r.pc = "find" /\ r.using = task[t].using /\ r.text = disk + 1
    <3>1. disk + 1 \in Int /\ "find" \in Pcs
      BY <1>1 DEF Pcs
    <3> QED BY <1>1, <3>1 DEF TaskRecords
  <2>2. task' = [task EXCEPT ![t] = r]
    BY <1>1 DEF TypeInv
  <2> HIDE DEF r
  <2> QED BY <1>1, <2>1, <2>2, TaskSet
<1>4. TypeInv'
  <2>1. (gone \in BOOLEAN /\ untold \in BOOLEAN /\ crossed \in BOOLEAN)'
    BY <1>1, Zenon
  <2> QED BY <1>1, <1>3, <2>1 DEF TypeInv, Moved
<1>5. CacheInv'
  BY <1>1, <1>2, <1>3, CacheAfterMove DEF Pcs, Holding
<1>6. DocumentInv'
  BY <1>1, <1>2, DocumentAfter
<1>7. DiskInv'
  <2> SUFFICES ASSUME ~crossed, \A u \in Tasks \ {t} : ~UnderWay(u)
               PROVE  /\ \A u, v \in Tasks : UnderWay(u)' /\ UnderWay(v)' => u = v
                      /\ \A u \in Tasks : UnderWay(u)' => task'[u].text = disk'
                      /\ ~\A u \in Tasks : ~UnderWay(u)'
    BY <1>1 DEF DiskInv
  <2>1. UnderWay(t)' /\ task'[t].text = disk'
    BY <1>1, <1>3 DEF UnderWay, Moved
  <2>2. \A u \in Tasks \ {t} : ~UnderWay(u)'
    BY <1>3 DEF UnderWay, Moved
  <2> QED BY <2>1, <2>2
<1> QED BY <1>4, <1>5, <1>6, <1>7 DEF Inv

\* The file is left alone, or changed by what no server is told of.
LEMMA UntoldTask ==
    ASSUME Inv, NEW t \in Tasks, ApplyEdit(t) \/ DeleteFile(t) \/ WriteUntold(t)
    PROVE  Inv'
<1>1. /\ TypeInv /\ CacheInv /\ DocumentInv /\ DiskInv
      /\ task[t] \in TaskRecords /\ ~Starting(t) /\ ~UnderWay(t) /\ Return(t)
      /\ UNCHANGED <<client, server, published, cached, crossed>>
      /\ \/ UNCHANGED <<disk, gone, untold>>
         \/ disk' = disk + 1 /\ gone' \in BOOLEAN /\ untold' = TRUE
  BY DEF Inv, TypeInv, ApplyEdit, DeleteFile, WriteUntold, At, Starting, UnderWay
<1>2. ClientsTyped /\ Ages /\ \A c \in Clients : Same(c)
  BY <1>1, Unaffected
<1>3. Moved(t, "idle", NoClient, NotOpen)
  BY <1>1, Returned
<1>4. TypeInv'
  <2>1. (gone \in BOOLEAN /\ untold \in BOOLEAN /\ crossed \in BOOLEAN)'
    BY <1>1, Zenon DEF TypeInv
  <2>2. disk' \in Nat
    BY <1>1 DEF TypeInv
  <2> QED BY <1>1, <1>3, <2>1, <2>2 DEF TypeInv, Moved
<1>5. CacheInv'
  BY <1>1, <1>2, <1>3, CacheAfterMove DEF Pcs, Holding
<1>6. DocumentInv'
  BY <1>1, <1>2, DocumentAfter
<1>7. DiskInv'
  <2>1. \A u \in Tasks : /\ UnderWay(u)' => UnderWay(u) /\ task'[u].text = task[u].text
                         /\ UnderWay(u) => UnderWay(u)'
    BY <1>1, <1>3 DEF UnderWay, Moved
  <2>2. CASE UNCHANGED <<disk, gone, untold>>
    BY <1>1, <1>2, <2>1, <2>2, DiskAfter
  <2>3. CASE untold' = TRUE
    BY <1>1, <2>1, <2>3 DEF DiskInv
  <2> QED BY <1>1, <2>2, <2>3
<1> QED BY <1>4, <1>5, <1>6, <1>7 DEF Inv

\* The writethrough looks for a server, and there is one or not.
LEMMA FindTask == ASSUME Inv, NEW t \in Tasks, Find(t) PROVE Inv'
<1>1. /\ TypeInv /\ CacheInv /\ DocumentInv /\ DiskInv
      /\ task[t] \in TaskRecords /\ ~Starting(t)
      /\ UNCHANGED <<disk, client, server, published, cached, gone, untold, crossed>>
  BY DEF Inv, TypeInv, Find, At, Starting, histories, fileVars, clientVars
<1>2. ClientsTyped /\ Ages /\ \A c \in Clients : Same(c)
  BY <1>1, Unaffected
<1>3. \/ cached = NoClient /\ Moved(t, "idle", NoClient, NotOpen)
      \/ cached # NoClient /\ Moved(t, "track", cached, task[t].text)
  <2>1. CASE cached = NoClient
    BY <1>1, <2>1, Returned DEF Find
  <2>2. CASE cached # NoClient
    <3>1. task' = [task EXCEPT ![t].pc = "track", ![t].using = cached]
      BY <2>2 DEF Find
    <3> QED BY <1>1, <2>2, <3>1, Went DEF Pcs, TypeInv
  <2> QED BY <2>1, <2>2
<1>4. TypeInv'
  BY <1>1, <1>3 DEF TypeInv, Moved
<1>5. CacheInv'
  BY <1>1, <1>2, <1>3, CacheAfterMove DEF Pcs, Holding
<1>6. DocumentInv'
  BY <1>1, <1>2, DocumentAfter
<1>7. DiskInv'
  <2>1. UnderWay(t)
    BY DEF Find, At, UnderWay
  <2>2. \A u \in Tasks : /\ UnderWay(u)' => UnderWay(u) /\ task'[u].text = task[u].text
                         /\ UnderWay(u) => UnderWay(u)' \/ cached' = NoClient
    BY <1>1, <1>3, <2>1 DEF UnderWay, Moved
  <2> QED BY <1>1, <1>2, <2>2, DiskAfter
<1> QED BY <1>4, <1>5, <1>6, <1>7 DEF Inv

\* The server is told what the patch has written, if it is still there.
LEMMA TrackTask == ASSUME Inv, NEW t \in Tasks, TrackEdit(t) PROVE Inv'
<1> DEFINE c == task[t].using
<1>1. /\ TypeInv /\ CacheInv /\ DocumentInv /\ DiskInv
      /\ task[t] \in TaskRecords /\ ~Starting(t) /\ UnderWay(t) /\ task[t].pc \in Holding
      /\ UNCHANGED <<disk, published, cached, gone, untold, crossed>>
  BY DEF Inv, TypeInv, TrackEdit, At, Starting, UnderWay, histories, fileVars, Holding
<1>2. c = cached /\ cached # NoClient /\ c \in Clients /\ task[t].text \in Int
  BY <1>1 DEF CacheInv, OneServer, TaskRecords
<1>3. CASE client[c].state = "dead"
  <2>1. UNCHANGED <<client, server>> /\ Return(t)
    BY <1>3 DEF TrackEdit
  <2>2. Moved(t, "idle", NoClient, NotOpen)
    BY <1>1, <2>1, Returned
  <2>3. ClientsTyped /\ Ages /\ \A d \in Clients : Same(d)
    BY <1>1, <2>1, Unaffected
  <2>4. TypeInv'
    BY <1>1, <2>1, <2>2 DEF TypeInv, Moved
  <2>5. CacheInv'
    BY <1>1, <2>2, <2>3, CacheAfterMove DEF Pcs, Holding
  <2>6. DocumentInv'
    BY <1>1, <2>3, DocumentAfter
  <2>7. DiskInv'
    <3>1. \A u \in Tasks : /\ UnderWay(u)' => UnderWay(u) /\ task'[u].text = task[u].text
                           /\ UnderWay(u) => UnderWay(u)' \/ client'[cached'].state = "dead"
      BY <1>1, <1>2, <1>3, <2>1, <2>2 DEF UnderWay, Moved
    <3> QED BY <1>1, <2>1, <2>3, <3>1, DiskAfter
  <2> QED BY <2>4, <2>5, <2>6, <2>7 DEF Inv
<1>4. CASE client[c].state # "dead"
  <2>1. /\ Track(c, task[t].text)
        /\ task' = [task EXCEPT ![t].pc = "poll", ![t].text = NotOpen]
    BY <1>4 DEF TrackEdit
  <2>2. Moved(t, "poll", c, NotOpen)
    <3> DEFINE r == [task[t] EXCEPT !.pc = "poll", !.text = NotOpen]
    <3>1. r \in TaskRecords /\ r.pc = "poll" /\ r.using = task[t].using /\ r.text = NotOpen
      <4>1. NotOpen \in Int /\ "poll" \in Pcs
        BY DEF NotOpen, Pcs
      <4> QED BY <1>1, <4>1 DEF TaskRecords
    <3>2. task' = [task EXCEPT ![t] = r]
      BY <1>1, <2>1 DEF TypeInv
    <3> HIDE DEF r
    <3> QED BY <1>1, <3>1, <3>2, TaskSet
  <2>3. /\ ClientsTyped /\ Ages
        /\ Tracked(c, task[t].text) /\ \A d \in Clients \ {c} : Same(d)
    BY <1>1, <1>2, <2>1, TrackEffect
  <2>4. TypeInv'
    BY <1>1, <2>2, <2>3 DEF TypeInv, Moved, ClientsTyped
  <2>5. CacheInv'
    BY <1>1, <1>2, <2>2, <2>3, CacheAfterMove DEF Pcs
  <2>6. DocumentInv'
    BY <1>1, <1>2, <1>4, <2>3, DocumentAfter
  <2>7. DiskInv'
    <3>0. ~crossed => \A u \in Tasks : ~UnderWay(u)'
      BY <1>1, <2>2 DEF DiskInv, UnderWay, Moved
    <3> SUFFICES ASSUME ~untold, ~crossed
                 PROVE  /\ \A u \in Tasks : UnderWay(u)' => task'[u].text = disk'
                        /\ \A known \in Told(server'[cached']) : disk' = known.of
      BY <1>1, <3>0 DEF DiskInv, Told
    <3>1. task[t].text = disk
      BY <1>1 DEF DiskInv
    <3>2. \A u \in Tasks : ~UnderWay(u)'
      BY <3>0
    <3> DEFINE version == client[c].version + 1
               note == Message(IF version = 1 THEN "open" ELSE "change", version, task[t].text)
    <3>3. server[c] \in ServerRecords /\ note \in Messages /\ IsNote(note) /\ note.of = disk
      BY <1>1, <1>2, <3>1 DEF TypeInv, ClientRecords, Message, Messages, IsNote
    <3>4. server'[c] = [server[c] EXCEPT !.wire = Append(@, note)]
      BY <2>3 DEF Tracked
    <3>5. Told(server'[c]) = {[version |-> note.version, of |-> note.of]}
      <4> HIDE DEF note
      <4> QED BY <3>3, <3>4, Appended
    <3> HIDE DEF note
    <3> QED BY <1>1, <1>2, <3>2, <3>3, <3>5
  <2> QED BY <2>4, <2>5, <2>6, <2>7 DEF Inv
<1> QED BY <1>3, <1>4

LEMMA NextInv == Inv /\ [Next]_vars => Inv'
<1> SUFFICES ASSUME Inv, [Next]_vars PROVE Inv'
  OBVIOUS
<1>1. ASSUME NEW t \in Tasks, Call(t) PROVE Inv'
  BY <1>1, QuietTask
<1>2. ASSUME NEW t \in Tasks, GoOn(t) PROVE Inv'
  <2>1. CASE \/ List(t) \/ Listed(t) \/ LookupAgain(t) \/ ReadDiagnostics(t)
             \/ Poll(t) \/ Deadline(t) \/ Report(t)
    BY <2>1, QuietTask
  <2>2. CASE SendRequest(t) \/ HearReply(t) \/ GiveUp(t)
    BY <2>2, RequestTask
  <2>3. CASE Lookup(t)
    BY <2>3, LookupTask
  <2>4. CASE Spawned(t)
    BY <2>4, SpawnedTask
  <2>5. CASE SpawnFails(t) \/ Insert(t)
    BY <2>5, DropTask, InsertTask
  <2>6. CASE WriteFile(t) \/ ApplyEdit(t) \/ DeleteFile(t) \/ WriteUntold(t)
    BY <2>6, WriteTask, UntoldTask
  <2>7. CASE Find(t)
    BY <2>7, FindTask
  <2>8. CASE TrackEdit(t)
    BY <2>8, TrackTask
  <2> QED BY <1>2, <2>1, <2>2, <2>3, <2>4, <2>5, <2>6, <2>7, <2>8 DEF GoOn
<1>3. CASE ServerStep /\ UNCHANGED <<cached, readers, task, histories>>
  BY <1>3, ServerSteps
<1>4. CASE UNCHANGED vars
  BY <1>4 DEF vars, clientVars, Inv, TypeInv, CacheInv, OneServer, Starting, At, DocumentInv,
              DiskInv, UnderWay, IsOpen, Told
<1> QED BY <1>1, <1>2, <1>3, <1>4 DEF Next

LEMMA InvHolds == Spec => []Inv
BY InitInv, NextInv, PTL DEF Spec

-----------------------------------------------------------------------------
(* What follows.                                                           *)

\* get_or_spawn checks the cache again before it inserts, and drops what it started when it
\* lost: a task never works with another client than the cached one, and no server is left
\* running that is not cached and that nobody is about to cache or to drop.
THEOREM OneServerHolds == Spec => []OneServer
<1>1. Inv => OneServer
  BY DEF Inv, CacheInv
<1> QED BY <1>1, InvHolds, PTL

\* track counts the version and queues the text under one lock: the server reads one didOpen
\* and then didChange whose versions follow on what it knows, with requests, given up or
\* not, between them, and whichever server dies or is started.
THEOREM DocumentInOrderHolds == Spec => []DocumentInOrder
<1>1. Inv => DocumentInOrder
  BY DEF Inv, DocumentInv, DocumentInOrder, Ordered
<1> QED BY <1>1, InvHolds, PTL

\* Once the writethrough of a patch is through, the server has been told what the file
\* holds, until something else than a patch changes it or a patch deletes it or fails, and
\* again after the next patch, unless two patches were under way at a time.
THEOREM ServerSeesDiskHolds == Spec => []ServerSeesDisk
<1>1. Inv => ServerSeesDisk
  BY DEF Inv, DiskInv, ServerSeesDisk, IsOpen
<1> QED BY <1>1, InvHolds, PTL
=============================================================================
