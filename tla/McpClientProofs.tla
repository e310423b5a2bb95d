-------------------------- MODULE McpClientProofs --------------------------
(***************************************************************************)
(* Proofs about McpClient, for any number of callers, requests and lines.  *)
(***************************************************************************)
EXTENDS McpClient, FiniteSetTheorems, TLAPS

-----------------------------------------------------------------------------
(* The invariant.                                                          *)

\* Ids are counted, so the id of a request is its number.
Twins   == {s \in [id : Requests, number : Requests] : s.id = s.number}
Unused  == [id |-> 0, number |-> 0]
Lines   == {l \in [kind : {"line"}, id : Requests,
                    of : Twins \union {ServersOwn}, says : {"ok", "bad"}] :
               l.of # ServersOwn => l.of.id = l.id}

Processes == [reads : BOOLEAN, writes : BOOLEAN, working : SUBSET Twins, noise : Nat]

Shape ==
    /\ status \in Statuses
    /\ pc \in [Users -> PcStates]
    /\ mine \in [Users -> Twins \union {Unused}]
    /\ nextId \in Nat \ {0}
    /\ pending \subseteq Twins
    /\ lock \in Users \union {Nobody}
    /\ answer \in [Requests -> Lines \union {NoReply}]
    /\ input \in Seq([kind : {"request"}, of : Twins] \union {Notification})
    /\ output \in Seq(Lines \union {Noise})
    /\ server \in Processes
    /\ reader \in Lines \union {Reading, Ended}

\* Every user who is about to take an id will find one.
Locking == {u \in Users : pc[u] = "locking"}
IdsLeft == nextId + Cardinality(Locking) <= MaxRequests + 1

Mutex == \A u \in Users : pc[u] = "writing" <=> lock = u

\* What has an id was given it.
Counted ==
    /\ \A u \in Users : mine[u].id < nextId
    /\ \A s \in pending : s.id < nextId
    /\ \A n \in Requests : answer[n] # NoReply => n < nextId

\* No two users have made the same request.
OwnRequests == \A u, v \in Users : mine[u] = mine[v] /\ mine[u] # Unused => u = v

MainStarts == pc[Main] # "idle" => status \in Stages

\* Who writes a request has its slot; who writes the notification has none, unless
\* a failed write has left one.
WriterHasSlot ==
    \A u \in Users : pc[u] = "writing" =>
        IF IsNotification(u) THEN mine[u] \in pending => ~server.reads
                             ELSE mine[u] \in pending

OpenSlots == \A s \in pending : answer[s.number] = NoReply

WaiterIsServed ==
    \A u \in Users : pc[u] = "waiting" =>
        mine[u] # Unused /\ (mine[u] \in pending \/ answer[mine[u].number] # NoReply)

\* A slot belongs to a call, or to a write that has failed.
SlotsHaveCalls ==
    \A s \in pending :
        \/ \E u \in Users : mine[u] = s /\ pc[u] \in {"writing", "waiting", "reclaiming"}
        \/ ~server.reads

\* The table leads a line to the request that bears its id.
OwnAnswers == \A n \in Requests : answer[n] # NoReply => answer[n].id = n

TableInv ==
    /\ Shape /\ IdsLeft /\ Mutex /\ Counted /\ OwnRequests /\ MainStarts
    /\ WriterHasSlot /\ OpenSlots /\ WaiterIsServed /\ SlotsHaveCalls /\ OwnAnswers

\* The invariant is strong enough.
LEMMA TableIsTyped == TableInv => TypeOK
<1> SUFFICES ASSUME TableInv PROVE TypeOK
  OBVIOUS
<1>1. status \in Statuses /\ pc \in [Users -> PcStates] /\ lock \in Users \union {Nobody}
  BY DEF TableInv, Shape
<1>2. mine \in [Users -> Stamps] /\ pending \subseteq Stamps
  BY McpAssumption DEF TableInv, Shape, Twins, Unused, Stamps, Requests
<1>3. nextId \in 1..(MaxRequests + 1)
  <2>1. IsFiniteSet(Locking)
    <3>1. IsFiniteSet(Users)
      BY McpAssumption, FS_AddElement DEF Users
    <3> QED BY <3>1, FS_Subset DEF Locking
  <2>2. Cardinality(Locking) \in Nat
    BY <2>1, FS_CardinalityType
  <2> QED BY <2>2, McpAssumption DEF TableInv, Shape, IdsLeft
<1>4. \A u \in Users : pc[u] = "writing" <=> lock = u
  BY DEF TableInv, Mutex
<1>5. ASSUME NEW u \in Users, pc[u] = "waiting"
      PROVE  (mine[u] \in pending) # (answer[mine[u].number] # NoReply)
  BY <1>5 DEF TableInv, OpenSlots, WaiterIsServed
<1>6. \A s \in pending :
         \/ \E u \in Users : mine[u] = s /\ pc[u] \in {"writing", "waiting", "reclaiming"}
         \/ ~server.reads
  BY DEF TableInv, SlotsHaveCalls
<1> QED BY <1>1, <1>2, <1>3, <1>4, <1>5, <1>6 DEF TypeOK

LEMMA TableGivesOwnReply == TableInv => ReplyIsOwn
<1> DEFINE line(u) == answer[mine[u].number]
<1> SUFFICES ASSUME TableInv, NEW u \in Users, pc[u] = "waiting", line(u) # NoReply
             PROVE  \/ line(u).of = mine[u]
                    \/ line(u).of = ServersOwn /\ line(u).id = mine[u].id
  BY DEF ReplyIsOwn
<1>1. mine[u] \in Twins /\ mine[u].number \in Requests /\ mine[u].id = mine[u].number
  BY DEF TableInv, Shape, WaiterIsServed, Twins
<1>2. line(u) \in Lines /\ line(u).id = mine[u].id
  BY <1>1 DEF TableInv, Shape, OwnAnswers
<1>3. CASE line(u).of = ServersOwn
  BY <1>2, <1>3
<1>4. CASE line(u).of # ServersOwn
  <2>1. line(u).of \in Twins /\ line(u).of.id = mine[u].id
    BY <1>2, <1>4 DEF Lines
  <2> QED BY <1>1, <2>1 DEF Twins
<1> QED BY <1>3, <1>4

LEMMA InitTable == Init => TableInv
<1> SUFFICES ASSUME Init PROVE TableInv
  OBVIOUS
<1>1. status \in {"initialize", "failed", "disabled", Absent}
  BY DEF Init, RegisterServer, Spawn
<1>2. Shape
  BY <1>1, McpAssumption
     DEF Init, Shape, Processes, Statuses, Stages, PcStates, Twins, Unused, Reading, Ended,
         Nobody
<1>3. IdsLeft
  <2>1. Locking = {}
    BY DEF Init, Locking
  <2> QED BY <2>1, FS_EmptySet, McpAssumption DEF Init, IdsLeft
<1>4. Mutex
  BY McpAssumption DEF Init, Mutex
<1>5. Counted /\ OwnRequests /\ OpenSlots /\ OwnAnswers
  BY DEF Init, Counted, OwnRequests, OpenSlots, OwnAnswers, Unused
<1>6. MainStarts /\ WriterHasSlot /\ WaiterIsServed /\ SlotsHaveCalls
  BY DEF Init, MainStarts, WriterHasSlot, WaiterIsServed, SlotsHaveCalls, Users
<1> QED BY <1>2, <1>3, <1>4, <1>5, <1>6 DEF TableInv

-----------------------------------------------------------------------------
(* The steps of a user.                                                    *)

LEMMA LockingIsFinite == IsFiniteSet(Locking)
<1>1. IsFiniteSet(Users)
  BY McpAssumption, FS_AddElement DEF Users
<1> QED BY <1>1, FS_Subset DEF Locking

LEMMA StartKeepsTable ==
    ASSUME TableInv, NEW u \in Users, Start(u)
    PROVE  TableInv'
<1> USE DEF TableInv
<1>1. pc' = [pc EXCEPT ![u] = "locking"] /\ pc[u] = "idle" /\ MayCall(u)
  BY DEF Start
<1>2. UNCHANGED <<status, mine, lock, nextId, pending, answer, input, output, server, reader>>
  BY DEF Start
<1>3. Shape'
  BY <1>1, <1>2 DEF Shape, PcStates
<1>4. \A v \in Users : pc'[v] = IF v = u THEN "locking" ELSE pc[v]
  BY <1>1 DEF Shape
<1>5. IdsLeft'
  <2>1. Locking' = Locking \union {u} /\ u \notin Locking
    BY <1>1, <1>4 DEF Locking
  <2>2. Cardinality(Locking') = Cardinality(Locking) + 1
    BY <2>1, LockingIsFinite, FS_AddElement
  <2>3. nextId + Cardinality(Locking) <= MaxRequests
    BY DEF Start, Locking
  <2>4. Cardinality(Locking) \in Nat
    BY LockingIsFinite, FS_CardinalityType
  <2> QED BY <1>2, <2>2, <2>3, <2>4, McpAssumption DEF IdsLeft, Shape
<1>6. Mutex' /\ Counted' /\ OwnRequests' /\ OpenSlots' /\ OwnAnswers'
  BY <1>1, <1>2, <1>4 DEF Mutex, Counted, OwnRequests, OpenSlots, OwnAnswers
<1>7. MainStarts'
  BY <1>1, <1>2, <1>4 DEF MainStarts, MayCall, Users
<1>8. WriterHasSlot' /\ WaiterIsServed'
  BY <1>2, <1>4 DEF WriterHasSlot, WaiterIsServed, IsNotification
<1>9. SlotsHaveCalls'
  BY <1>1, <1>2, <1>4 DEF SlotsHaveCalls
<1> QED BY <1>3, <1>5, <1>6, <1>7, <1>8, <1>9

LEMMA LockKeepsTable ==
    ASSUME TableInv, NEW u \in Users, Lock(u)
    PROVE  TableInv'
<1> USE DEF TableInv
<1>1. /\ pc[u] = "locking" /\ lock = Nobody
      /\ pc' = [pc EXCEPT ![u] = "writing"] /\ lock' = u
      /\ UNCHANGED <<status, answer, input, output, server, reader>>
  BY DEF Lock
<1>2. \A v \in Users : pc'[v] = IF v = u THEN "writing" ELSE pc[v]
  BY <1>1 DEF Shape
<1>3. /\ Cardinality(Locking') = Cardinality(Locking) - 1
      /\ Cardinality(Locking) \in Nat /\ Cardinality(Locking') \in Nat
  <2>1. Locking' = Locking \ {u} /\ u \in Locking
    BY <1>1, <1>2 DEF Locking
  <2>2. IsFiniteSet(Locking')
    BY <2>1, LockingIsFinite, FS_Subset
  <2> QED BY <2>1, <2>2, LockingIsFinite, FS_RemoveElement, FS_CardinalityType
<1>4. \A v \in Users : pc[v] # "writing"
  BY <1>1, McpAssumption DEF Mutex
<1>5. MainStarts' /\ Mutex'
  BY <1>1, <1>2, <1>4 DEF MainStarts, Mutex, Users
<1>6. OwnAnswers'
  BY <1>1 DEF OwnAnswers
<1>7. CASE IsNotification(u)
  <2>1. UNCHANGED <<mine, nextId, pending>>
    BY <1>7 DEF Lock
  <2>2. Shape'
    BY <1>1, <2>1 DEF Shape, PcStates
  <2>3. IdsLeft'
    BY <1>3, <2>1, McpAssumption DEF IdsLeft, Shape
  <2>4. Counted' /\ OwnRequests' /\ OpenSlots'
    BY <1>1, <2>1 DEF Counted, OwnRequests, OpenSlots
  <2>5. WaiterIsServed'
    BY <1>1, <1>2, <2>1 DEF WaiterIsServed
  <2>6. WriterHasSlot'
    <3> SUFFICES ASSUME mine[u] \in pending PROVE ~server.reads
      BY <1>1, <1>2, <1>4, <1>7, <2>1 DEF WriterHasSlot, IsNotification
    <3>1. mine[u] # Unused
      BY McpAssumption DEF Shape, Unused, Twins, Requests
    <3> QED BY <1>1, <3>1 DEF SlotsHaveCalls, OwnRequests
  <2>7. SlotsHaveCalls'
    BY <1>1, <1>2, <2>1 DEF SlotsHaveCalls
  <2> QED BY <1>5, <1>6, <2>2, <2>3, <2>4, <2>5, <2>6, <2>7
<1>8. CASE ~IsNotification(u)
  <2> DEFINE s == [id |-> nextId, number |-> nextId]
  <2>1. /\ mine' = [mine EXCEPT ![u] = s]
        /\ pending' = pending \union {s}
        /\ nextId' = nextId + 1
    BY <1>8 DEF Lock, Request, NewId
  <2>2. nextId \in Requests /\ s \in Twins
    <3>1. nextId \in Requests
      BY <1>3, McpAssumption DEF IdsLeft, Shape, Requests
    <3> QED BY <3>1 DEF Twins
  <2> HIDE DEF s
  <2>3. s.id = nextId /\ s.number = nextId
    BY DEF s
  <2>4. \A v \in Users : mine'[v] = IF v = u THEN s ELSE mine[v]
    BY <2>1 DEF Shape
  <2>5. /\ nextId \in Nat /\ s \notin pending /\ s # Unused
        /\ \A v \in Users : mine[v] # s
    BY <2>3 DEF Counted, Shape, Unused
  <2>6. Shape'
    BY <1>1, <2>1, <2>2, <2>5 DEF Shape, PcStates
  <2>7. IdsLeft'
    BY <1>3, <2>1, <2>5, McpAssumption DEF IdsLeft
  <2>8. Counted'
    <3>1. \A v \in Users : mine[v].id \in Nat
      BY DEF Shape, Twins, Unused, Requests
    <3>2. \A r \in pending : r.id \in Nat
      BY DEF Shape, Twins, Requests
    <3>3. \A v \in Users : mine'[v].id < nextId'
      BY <2>1, <2>3, <2>4, <2>5, <3>1 DEF Counted
    <3>4. \A r \in pending' : r.id < nextId'
      BY <2>1, <2>3, <2>5, <3>2 DEF Counted
    <3>5. \A n \in Requests : answer'[n] # NoReply => n < nextId'
      BY <1>1, <2>1, <2>5 DEF Counted, Requests
    <3> QED BY <3>3, <3>4, <3>5 DEF Counted
  <2>9. OwnRequests'
    BY <2>4, <2>5 DEF OwnRequests
  <2>10. OpenSlots'
    <3>1. answer[nextId] = NoReply
      BY <2>2, <2>5 DEF Counted
    <3> QED BY <1>1, <2>1, <2>3, <3>1 DEF OpenSlots
  <2>11. WaiterIsServed'
    BY <1>1, <1>2, <2>1, <2>4 DEF WaiterIsServed
  <2>12. WriterHasSlot'
    BY <1>1, <1>2, <1>4, <1>8, <2>1, <2>4 DEF WriterHasSlot, IsNotification
  <2>13. SlotsHaveCalls'
    <3> SUFFICES ASSUME NEW r \in pending', server.reads
                 PROVE  \E v \in Users : /\ mine'[v] = r
                                         /\ pc'[v] \in {"writing", "waiting", "reclaiming"}
      BY <1>1 DEF SlotsHaveCalls
    <3>1. CASE r = s
      BY <1>2, <2>4, <3>1
    <3>2. CASE r \in pending
      BY <1>1, <1>2, <2>4, <3>2 DEF SlotsHaveCalls
    <3> QED BY <2>1, <3>1, <3>2
  <2> QED BY <1>5, <1>6, <2>6, <2>7, <2>8, <2>9, <2>10, <2>11, <2>12, <2>13
<1> QED BY <1>7, <1>8

\* A user who was not about to take an id moves on, and is not then.
LEMMA MoveKeepsIds ==
    ASSUME Shape, IdsLeft, UNCHANGED nextId, NEW u \in Users, pc[u] # "locking",
           NEW at \in PcStates \ {"locking"}, pc' = [pc EXCEPT ![u] = at]
    PROVE  IdsLeft'
<1>1. Locking' = Locking
  BY DEF Locking, Shape
<1> QED BY <1>1 DEF IdsLeft

\* The end of a call keeps the start-up where it belongs.
LEMMA ReturnKeepsStatus ==
    ASSUME Shape, MainStarts, NEW u \in Users, pc[u] # "idle",
           NEW worked \in BOOLEAN, Return(u, worked)
    PROVE  /\ status' \in Statuses
           /\ pc' = [pc EXCEPT ![u] = "idle"]
           /\ MainStarts'
           /\ u # Main => status' = status
<1>1. pc' = [pc EXCEPT ![u] = "idle"] /\ pc'[u] = "idle"
  BY DEF Return, Shape
<1>2. CASE u = Main
  <2>1. NextStage[status] \in Statuses
    BY <1>2 DEF MainStarts, NextStage, Stages, Statuses
  <2> QED BY <1>1, <1>2, <2>1 DEF Return, MainStarts, Statuses
<1>3. CASE u # Main
  BY <1>1, <1>3 DEF Return, MainStarts, Shape, Users
<1> QED BY <1>2, <1>3

\* A call that is not writing comes to its end: its slot is gone.
LEMMA ReturnKeepsTable ==
    ASSUME TableInv, NEW u \in Users, pc[u] \in {"waiting", "reclaiming"},
           NEW worked \in BOOLEAN, Return(u, worked),
           pending' = pending \ {mine[u]},
           UNCHANGED <<mine, lock, nextId, answer, input, output, server, reader>>
    PROVE  TableInv'
<1> USE DEF TableInv
<1>1. /\ status' \in Statuses /\ MainStarts'
      /\ pc' = [pc EXCEPT ![u] = "idle"]
      /\ u # Main => status' = status
  BY ReturnKeepsStatus
<1>2. \A v \in Users : pc'[v] = IF v = u THEN "idle" ELSE pc[v]
  BY <1>1 DEF Shape
<1>3. Shape'
  BY <1>1 DEF Shape, PcStates
<1>4. IdsLeft'
  BY <1>1, MoveKeepsIds DEF PcStates
<1>5. Mutex' /\ Counted' /\ OwnRequests' /\ OpenSlots' /\ OwnAnswers'
  BY <1>2 DEF Mutex, Counted, OwnRequests, OpenSlots, OwnAnswers
<1>6. ASSUME NEW v \in Users, v # u, mine[v] \in pending, mine[v] \notin pending'
      PROVE  FALSE
  <2>1. mine[v] # Unused
    BY <1>6 DEF Shape, Unused, Twins, Requests
  <2> QED BY <1>6, <2>1 DEF OwnRequests
<1>7. WriterHasSlot'
  <2> SUFFICES ASSUME NEW v \in Users, pc'[v] = "writing"
               PROVE  IF IsNotification(v)' THEN mine[v] \in pending' => ~server.reads
                                           ELSE mine[v] \in pending'
    BY DEF WriterHasSlot
  <2>1. v # u /\ pc[v] = "writing"
    BY <1>2
  <2>2. IsNotification(v)' <=> IsNotification(v)
    BY <1>1, <2>1 DEF IsNotification
  <2> QED BY <1>6, <2>1, <2>2 DEF WriterHasSlot
<1>8. WaiterIsServed'
  <2> SUFFICES ASSUME NEW v \in Users, pc'[v] = "waiting"
               PROVE  /\ mine[v] # Unused
                      /\ mine[v] \in pending' \/ answer[mine[v].number] # NoReply
    BY DEF WaiterIsServed
  <2>1. v # u /\ pc[v] = "waiting"
    BY <1>2
  <2> QED BY <1>6, <2>1 DEF WaiterIsServed
<1>9. SlotsHaveCalls'
  BY <1>2 DEF SlotsHaveCalls
<1> QED BY <1>1, <1>3, <1>4, <1>5, <1>7, <1>8, <1>9

LEMMA TakeReplyKeepsTable ==
    ASSUME TableInv, NEW u \in Users, TakeReply(u)
    PROVE  TableInv'
<1>1. pc[u] = "waiting" /\ answer[mine[u].number] # NoReply
  BY DEF TakeReply
<1>2. pending' = pending \ {mine[u]}
  BY <1>1 DEF TakeReply, TableInv, OpenSlots
<1>3. PICK worked \in BOOLEAN : Return(u, worked)
  BY DEF TakeReply, Accepted
<1> QED BY <1>1, <1>2, <1>3, ReturnKeepsTable DEF TakeReply

LEMMA ReclaimKeepsTable ==
    ASSUME TableInv, NEW u \in Users, Reclaim(u)
    PROVE  TableInv'
BY ReturnKeepsTable DEF Reclaim

\* A write ends, and the mutex is given back: the call waits, or is over.
LEMMA WriteLineKeepsTable ==
    ASSUME TableInv, NEW u \in Users, WriteLine(u)
    PROVE  TableInv'
<1> USE DEF TableInv
<1>1. /\ pc[u] = "writing" /\ server.reads /\ lock' = Nobody /\ lock = u
      /\ UNCHANGED <<mine, nextId, pending, answer, output, server, reader>>
  BY DEF WriteLine, Mutex
<1> DEFINE at == IF IsNotification(u) THEN "idle" ELSE "waiting"
<1>2. /\ pc' = [pc EXCEPT ![u] = at]
      /\ status' \in Statuses /\ MainStarts'
      /\ u # Main => status' = status
  <2>1. CASE IsNotification(u)
    <3>1. Return(u, TRUE)
      BY <2>1 DEF WriteLine
    <3> QED BY <1>1, <2>1, <3>1, ReturnKeepsStatus
  <2>2. CASE ~IsNotification(u)
    BY <1>1, <2>2 DEF WriteLine, MainStarts, Shape, Users
  <2> QED BY <2>1, <2>2
<1>3. \A v \in Users : pc'[v] = IF v = u THEN at ELSE pc[v]
  BY <1>2 DEF Shape
<1>4. ~IsNotification(u) => mine[u] \in pending /\ mine[u] \in Twins /\ mine[u] # Unused
  BY <1>1 DEF WriterHasSlot, Shape, Twins, Unused, Requests
<1>5. Shape'
  <2>1. input' \in Seq([kind : {"request"}, of : Twins] \union {Notification})
    BY <1>4 DEF WriteLine, Shape
  <2> QED BY <1>1, <1>2, <2>1 DEF Shape, PcStates
<1>6. IdsLeft'
  BY <1>1, <1>2, MoveKeepsIds DEF PcStates
<1>7. Mutex'
  BY <1>1, <1>3, McpAssumption DEF Mutex
<1>8. Counted' /\ OwnRequests' /\ OpenSlots' /\ OwnAnswers'
  BY <1>1 DEF Counted, OwnRequests, OpenSlots, OwnAnswers
<1>9. WriterHasSlot'
  BY <1>1, <1>3 DEF WriterHasSlot, Mutex
<1>10. WaiterIsServed'
  BY <1>1, <1>3, <1>4 DEF WaiterIsServed
<1>11. SlotsHaveCalls'
  <2> SUFFICES ASSUME NEW s \in pending
               PROVE  \E v \in Users : /\ mine[v] = s
                                       /\ pc'[v] \in {"writing", "waiting", "reclaiming"}
    BY <1>1 DEF SlotsHaveCalls
  <2>1. PICK v \in Users : mine[v] = s /\ pc[v] \in {"writing", "waiting", "reclaiming"}
    BY <1>1 DEF SlotsHaveCalls
  <2>2. v = u => ~IsNotification(u)
    BY <1>1, <2>1 DEF WriterHasSlot
  <2> QED BY <1>3, <2>1, <2>2
<1> QED BY <1>2, <1>5, <1>6, <1>7, <1>8, <1>9, <1>10, <1>11

LEMMA WriteFailsKeepsTable ==
    ASSUME TableInv, NEW u \in Users, WriteFails(u)
    PROVE  TableInv'
<1> USE DEF TableInv
<1>1. /\ pc[u] = "writing" /\ ~server.reads /\ lock' = Nobody /\ lock = u
      /\ UNCHANGED <<mine, nextId, pending, answer, input, output, server, reader>>
  BY DEF WriteFails, Mutex
<1>2. /\ status' \in Statuses /\ MainStarts'
      /\ pc' = [pc EXCEPT ![u] = "idle"]
      /\ u # Main => status' = status
  BY <1>1, ReturnKeepsStatus DEF WriteFails
<1>3. \A v \in Users : pc'[v] = IF v = u THEN "idle" ELSE pc[v]
  BY <1>2 DEF Shape
<1>4. Shape'
  BY <1>1, <1>2 DEF Shape, PcStates
<1>5. IdsLeft'
  BY <1>1, <1>2, MoveKeepsIds DEF PcStates
<1>6. Mutex'
  BY <1>1, <1>3, McpAssumption DEF Mutex
<1>7. Counted' /\ OwnRequests' /\ OpenSlots' /\ OwnAnswers'
  BY <1>1 DEF Counted, OwnRequests, OpenSlots, OwnAnswers
<1>8. WriterHasSlot' /\ WaiterIsServed' /\ SlotsHaveCalls'
  BY <1>1, <1>3 DEF WriterHasSlot, WaiterIsServed, SlotsHaveCalls, Mutex
<1> QED BY <1>2, <1>4, <1>5, <1>6, <1>7, <1>8

LEMMA TimeOutKeepsTable ==
    ASSUME TableInv, NEW u \in Users, TimeOut(u)
    PROVE  TableInv'
<1> USE DEF TableInv
<1>1. /\ pc[u] = "waiting" /\ pc' = [pc EXCEPT ![u] = "reclaiming"]
      /\ UNCHANGED <<status, mine, lock, nextId, pending, answer, input, output, server, reader>>
  BY DEF TimeOut
<1>2. \A v \in Users : pc'[v] = IF v = u THEN "reclaiming" ELSE pc[v]
  BY <1>1 DEF Shape
<1>3. Shape'
  BY <1>1 DEF Shape, PcStates
<1>4. IdsLeft'
  BY <1>1, MoveKeepsIds DEF PcStates
<1>5. Mutex' /\ Counted' /\ OwnRequests' /\ OpenSlots' /\ OwnAnswers'
  BY <1>1, <1>2 DEF Mutex, Counted, OwnRequests, OpenSlots, OwnAnswers
<1>6. MainStarts' /\ WriterHasSlot' /\ WaiterIsServed' /\ SlotsHaveCalls'
  BY <1>1, <1>2
     DEF MainStarts, WriterHasSlot, WaiterIsServed, SlotsHaveCalls, IsNotification, Users
<1> QED BY <1>3, <1>4, <1>5, <1>6

-----------------------------------------------------------------------------
(* The steps of the reader and of the server.                              *)

LEMMA DeliverKeepsTable ==
    ASSUME TableInv, Deliver
    PROVE  TableInv'
<1> USE DEF TableInv
<1> DEFINE slots == {s \in pending : s.id = reader.id}
<1>1. /\ lock = Nobody /\ reader' = Reading
      /\ UNCHANGED <<status, pc, mine, lock, nextId, input, output, server>>
      /\ pending' = pending \ slots
      /\ answer' = [n \in Requests |-> IF \E s \in slots : s.number = n
                                       THEN reader ELSE answer[n]]
  BY DEF Deliver
<1>2. reader \in Lines /\ reader # NoReply
  BY DEF Deliver, HasReply, Shape, Lines, NoReply
<1>3. \A s \in slots : s.number = reader.id
  BY <1>2 DEF Shape, Twins, Lines
<1>4. \A n \in Requests : answer'[n] = IF \E s \in slots : s.number = n
                                       THEN reader ELSE answer[n]
  BY <1>1
<1>5. \A v \in Users : pc[v] # "writing"
  BY <1>1, McpAssumption DEF Mutex
<1> HIDE DEF slots
<1>6. slots \subseteq pending /\ pending \subseteq Twins
  BY DEF slots, Shape
<1>7. Shape'
  BY <1>1, <1>2 DEF Shape
<1>8. IdsLeft' /\ Mutex' /\ OwnRequests' /\ MainStarts'
  BY <1>1 DEF IdsLeft, Locking, Mutex, OwnRequests, MainStarts
<1>9. Counted'
  <2>1. \A n \in Requests : answer'[n] # NoReply => n < nextId
    BY <1>4, <1>6 DEF Counted, Twins
  <2> QED BY <1>1, <2>1 DEF Counted
<1>10. WriterHasSlot'
  BY <1>1, <1>5 DEF WriterHasSlot
<1>11. OpenSlots'
  <2> SUFFICES ASSUME NEW s \in pending, s \notin slots
               PROVE  answer'[s.number] = NoReply
    BY <1>1 DEF OpenSlots
  <2>1. s.number \in Requests /\ answer[s.number] = NoReply
    BY <1>6 DEF OpenSlots, Twins
  <2>2. \A r \in slots : r.number # s.number
    BY <1>6 DEF Twins
  <2> QED BY <1>4, <2>1, <2>2
<1>12. WaiterIsServed'
  <2> SUFFICES ASSUME NEW v \in Users, pc[v] = "waiting"
               PROVE  /\ mine[v] # Unused
                      /\ mine[v] \in pending' \/ answer'[mine[v].number] # NoReply
    BY <1>1 DEF WaiterIsServed
  <2>1. mine[v] \in Twins /\ mine[v] # Unused /\ mine[v].number \in Requests
    BY DEF WaiterIsServed, Shape, Twins
  <2>2. CASE mine[v] \in slots
    BY <1>2, <1>4, <2>1, <2>2
  <2>3. CASE mine[v] \notin slots
    BY <1>1, <1>2, <1>4, <2>1, <2>3 DEF WaiterIsServed
  <2> QED BY <2>1, <2>2, <2>3
<1>13. SlotsHaveCalls'
  BY <1>1 DEF SlotsHaveCalls
<1>14. OwnAnswers'
  <2> SUFFICES ASSUME NEW n \in Requests, answer'[n] # NoReply
               PROVE  answer'[n].id = n
    BY DEF OwnAnswers
  <2> QED BY <1>3, <1>4 DEF OwnAnswers
<1> QED BY <1>7, <1>8, <1>9, <1>10, <1>11, <1>12, <1>13, <1>14

\* What happens in the pipes and in the process leaves the table alone.
LEMMA TableAlone ==
    ASSUME TableInv, Shape', server.reads \/ ~server'.reads,
           UNCHANGED <<status, pc, mine, lock, nextId, pending, answer>>
    PROVE  TableInv'
<1> USE DEF TableInv
<1>1. IdsLeft' /\ Mutex' /\ Counted' /\ OwnRequests' /\ MainStarts' /\ OpenSlots' /\ OwnAnswers'
  BY DEF IdsLeft, Locking, Mutex, Counted, OwnRequests, MainStarts, OpenSlots, OwnAnswers
<1>2. WaiterIsServed' /\ SlotsHaveCalls'
  BY DEF WaiterIsServed, SlotsHaveCalls
<1> QED BY <1>1, <1>2 DEF WriterHasSlot, IsNotification

LEMMA ReadKeepsTable ==
    ASSUME TableInv, Read
    PROVE  TableInv'
<1>1. output \in Seq(Lines \union {Noise}) /\ output # <<>>
  BY DEF TableInv, Shape, Read
<1>2. /\ Head(output) \in Lines \union {Noise}
      /\ Tail(output) \in Seq(Lines \union {Noise})
  BY <1>1
<1>3. reader' \in Lines \union {Reading, Ended}
  BY <1>2 DEF Read, Noise
<1>4. Shape'
  BY <1>2, <1>3 DEF TableInv, Shape, Read
<1> QED BY <1>4, TableAlone DEF Read

LEMMA EndOfOutputKeepsTable ==
    ASSUME TableInv, EndOfOutput
    PROVE  TableInv'
<1>1. Shape'
  BY DEF TableInv, Shape, EndOfOutput
<1> QED BY <1>1, TableAlone DEF EndOfOutput

LEMMA ServerKeepsTable ==
    ASSUME TableInv, ServerStep
    PROVE  TableInv'
<1> DEFINE InLines  == [kind : {"request"}, of : Twins] \union {Notification}
           OutLines == Lines \union {Noise}
<1>1. input \in Seq(InLines) /\ output \in Seq(OutLines) /\ server \in Processes
  BY DEF TableInv, Shape
<1>2. CASE ServerReads
  <2>1. Head(input) \in InLines /\ Tail(input) \in Seq(InLines)
    BY <1>1, <1>2 DEF ServerReads
  <2>2. server' \in Processes /\ server'.reads = server.reads
    <3>1. CASE Head(input).kind = "request"
      <4>1. Head(input).of \in Twins
        BY <2>1, <3>1 DEF Notification
      <4> QED BY <1>1, <1>2, <3>1, <4>1 DEF ServerReads, Processes
    <3>2. CASE Head(input).kind # "request"
      BY <1>1, <1>2, <3>2 DEF ServerReads
    <3> QED BY <3>1, <3>2
  <2>3. Shape'
    BY <1>2, <2>1, <2>2 DEF TableInv, Shape, ServerReads
  <2> QED BY <1>2, <2>2, <2>3, TableAlone DEF ServerReads
<1>3. ASSUME NEW line \in OutLines, ServerWrites(line),
             server' \in Processes, server'.reads = server.reads
      PROVE  TableInv'
  <2>1. output' \in Seq(OutLines)
    BY <1>1, <1>3 DEF ServerWrites
  <2>2. Shape'
    BY <1>3, <2>1 DEF TableInv, Shape, ServerWrites
  <2> QED BY <1>3, <2>2, TableAlone DEF ServerWrites
<1>4. CASE ServerReplies
  <2>1. PICK of \in server.working, says \in {"ok", "bad"} :
           /\ ServerWrites(Line(of.id, of, says))
           /\ server' = [server EXCEPT !.working = @ \ {of}]
    BY <1>4 DEF ServerReplies
  <2>2. of \in Twins /\ of.id \in Requests
    BY <1>1 DEF Processes, Twins
  <2>3. Line(of.id, of, says) \in OutLines
    BY <2>2 DEF Line, Lines
  <2>4. server' \in Processes /\ server'.reads = server.reads
    BY <1>1, <2>1 DEF Processes
  <2> QED BY <1>3, <2>1, <2>3, <2>4
<1>5. CASE ServerChatters
  <2>1. server' \in Processes /\ server'.reads = server.reads
    <3>1. server.noise + 1 \in Nat /\ server' = [server EXCEPT !.noise = server.noise + 1]
      BY <1>1, <1>5 DEF ServerChatters, Processes
    <3> QED BY <1>1, <3>1 DEF Processes
  <2>2. ASSUME NEW id \in Requests PROVE Line(id, ServersOwn, "ok") \in OutLines
    BY <2>2 DEF Line, Lines
  <2> QED BY <1>3, <1>5, <2>1, <2>2 DEF ServerChatters
<1>6. CASE ServerCloses
  <2>1. PICK reads, writes \in BOOLEAN :
           /\ reads => server.reads
           /\ server' = [server EXCEPT !.reads = reads, !.writes = writes]
           /\ input' = IF reads THEN input ELSE <<>>
    BY <1>6 DEF ServerCloses
  <2>2. server' \in Processes /\ server'.reads = reads
    BY <1>1, <2>1 DEF Processes
  <2>3. input' \in Seq(InLines)
    BY <1>1, <2>1
  <2>4. Shape'
    BY <1>6, <2>2, <2>3 DEF TableInv, Shape, ServerCloses
  <2> QED BY <1>6, <2>1, <2>2, <2>4, TableAlone DEF ServerCloses
<1> QED BY <1>2, <1>4, <1>5, <1>6 DEF ServerStep

-----------------------------------------------------------------------------
(* The theorems.                                                           *)

LEMMA NextTable == TableInv /\ [Next]_mcpVars => TableInv'
<1> SUFFICES ASSUME TableInv, [Next]_mcpVars PROVE TableInv'
  OBVIOUS
<1>1. ASSUME NEW u \in Users, Start(u) \/ UserStep(u) PROVE TableInv'
  BY <1>1, StartKeepsTable, LockKeepsTable, WriteLineKeepsTable, WriteFailsKeepsTable,
     TakeReplyKeepsTable, TimeOutKeepsTable, ReclaimKeepsTable DEF UserStep
<1>2. CASE ReaderStep
  BY <1>2, ReadKeepsTable, DeliverKeepsTable, EndOfOutputKeepsTable DEF ReaderStep
<1>3. CASE ServerStep
  BY <1>3, ServerKeepsTable
<1>4. CASE UNCHANGED mcpVars
  <2>1. Shape'
    BY <1>4 DEF TableInv, Shape, mcpVars
  <2> QED BY <1>4, <2>1, TableAlone DEF mcpVars
<1> QED BY <1>1, <1>2, <1>3, <1>4 DEF Next

LEMMA TableInvariant == Spec => []TableInv
<1>1. Init => TableInv
  BY InitTable
<1>2. TableInv /\ [Next]_mcpVars => TableInv'
  BY NextTable
<1> QED BY <1>1, <1>2, PTL DEF Spec

\* The mutex is held by whoever writes and nobody else, no slot outlives its call
\* unless the server has stopped reading, and who waits can be answered or has been.
\* (McpClient::request, spawn_reader)
THEOREM RequestsTypeCorrect == Spec => []TypeOK
BY TableInvariant, TableIsTyped, PTL

\* However late and in whatever order a server answers, and whatever it asks itself,
\* what a call is handed is the reply to its own request or a line of the server's
\* own with its id.  (McpClient::request, spawn_reader)
THEOREM ReplyIsOwnHolds == Spec => []ReplyIsOwn
BY TableInvariant, TableGivesOwnReply, PTL
=============================================================================
