-------------------------- MODULE CredentialsProofs -------------------------
(***************************************************************************)
(* Proofs about Credentials, for any number of tasks, logins, starts and   *)
(* faults, with or without a token from elsewhere.                         *)
(***************************************************************************)
EXTENDS Credentials, FiniteSetTheorems, TLAPS

CopilotPcs == {"candidates", "cached", "exchange", "saveSession", "models", "saveModels",
               "saveUsage", "saveFetched", "send"}
SavingPcs  == {"open", "write", "rename"}
Pcs        == {"idle", "authorise", "remove", "credentials", "refresh", "upsert"}
                 \union CopilotPcs \union SavingPcs

\* Where a task goes on after it has saved.
Thens == {"candidates", "models", "saveFetched", "send", "idle"}

Files == [state : {"empty", "json", "garbled"}, records : [Providers -> Record]]
TaskRecords ==
    [pc : Pcs, kind : DOMAIN FirstStep \union {"none"}, seen : 0..MaxGrants, session : 0..Env,
     retried : BOOLEAN, asks : 0..MaxGrants \union {Nobody}, rec : Record,
     out : [Providers -> Record], saving : BOOLEAN, fd : Inodes \union {Nothing},
     then : Thens]

TypeInv ==
    /\ path \in Inodes \union {Nothing} /\ tmp \in Inodes \union {Nothing}
    /\ disk \in [Inodes -> Files]
    /\ task \in [Actors -> TaskRecords]
    /\ live \in [1..MaxGrants -> Nat] /\ grants \in 0..MaxGrants
    /\ current \in [Providers -> 0..MaxGrants] /\ raced \in [Providers -> BOOLEAN]
    /\ overlap \in BOOLEAN /\ lost \in BOOLEAN

ProviderOfTask(a) == ProviderOf(task[a].kind)
HasRecord(a) == task[a].pc \in {"refresh", "upsert"} \union SavingPcs
\* The record that a has in hand.
Hand(a) == IF task[a].saving THEN task[a].out[ProviderOfTask(a)] ELSE task[a].rec

WellFormed(rec) == rec = NoRecord \/ rec.grant \in 1..grants

\* Which fields go with which program counters.
Shape(t) ==
    /\ t.pc = "idle" => t = Idle
    /\ t.saving <=> t.pc \in SavingPcs
    /\ t.fd # Nothing <=> t.pc \in {"write", "rename"}
    /\ t.rec # NoRecord <=> t.pc \in {"upsert", "refresh"}
    /\ t.asks # Nobody => t.pc \in {"upsert"} \union SavingPcs /\ t.seen = 0
    /\ t.pc \in CopilotPcs => ProviderOf(t.kind) = "copilot"
    /\ t.then # "idle" => ProviderOf(t.kind) = "copilot"
    /\ t.pc \in {"credentials", "refresh"} => t.kind = "chat"
    /\ t.pc \in {"authorise", "remove"} => t.seen = 0
    /\ t.pc = "authorise" => t.kind \in {"login", "env", "signin"}
    /\ t.pc = "remove" => t.kind \in {"logout", "signout"}
    /\ t.pc \in {"cached", "exchange", "saveSession"} => t.seen # 0
    /\ t.pc = "saveSession" => t.session = t.seen
    /\ t.kind = "chat" => t.asks = Nobody
    /\ t.kind \in {"signin", "signout"} /\ t.pc \in {"upsert"} \union SavingPcs => t.asks # Nobody

\* What a has in hand: its own login or logout; or the current login, if not raced.
InHand(a) ==
    LET p == ProviderOfTask(a)
        rec == Hand(a)
    IN  /\ WellFormed(rec)
        /\ task[a].asks # Nobody => rec = [NoRecord EXCEPT !.grant = task[a].asks]
        /\ task[a].asks = Nobody =>
              /\ rec # NoRecord
              /\ raced[p] \/ rec.grant = current[p]
              /\ p = "copilot" => raced[p] \/ rec.session \in {0, rec.grant}

FileOf(a) ==
    /\ task[a].saving => \A q \in Providers \ {ProviderOfTask(a)} : task[a].out[q] = Loaded[q]
    /\ At(a, "write") => tmp = task[a].fd /\ disk[tmp] = NoFile
    /\ At(a, "rename") => tmp = task[a].fd /\ disk[tmp] = [state |-> "json", records |-> task[a].out]

Chat(a) == task[a].kind = "chat" /\ HasRecord(a)

\* asks > 0 of a sign-in: nobody else has used that login yet.
Token(a) ==
    /\ Chat(a) => IF Refreshed(a) THEN Hand(a).refresh = live[Hand(a).grant]
                                  ELSE Hand(a).refresh <= live[Hand(a).grant]
    /\ Refreshed(a) /\ Loaded["openai_account"].grant = Hand(a).grant =>
          Loaded["openai_account"].refresh < live[Hand(a).grant]
    /\ ProviderOfTask(a) = "openai_account" /\ task[a].asks > 0 =>
          live[task[a].asks] = 0 /\ Loaded["openai_account"].grant # task[a].asks

ActorInv(a) ==
    /\ Shape(task[a])
    /\ HasRecord(a) => InHand(a)
    /\ ProviderOfTask(a) = "copilot" /\ task[a].seen # 0 =>
          raced["copilot"] \/ task[a].seen = current["copilot"]
    /\ FileOf(a)
    /\ Token(a)

Apart(a, b) ==
    /\ ~(task[a].saving /\ task[b].saving)
    /\ task[a].asks > 0 => task[a].asks # task[b].asks
    /\ Chat(b) /\ Refreshed(a) /\ Hand(a).grant = Hand(b).grant =>
          ~Refreshed(b) /\ Hand(b).refresh < live[Hand(b).grant]
    /\ Chat(b) /\ ProviderOfTask(a) = "openai_account" /\ task[a].asks > 0 =>
          Hand(b).grant # task[a].asks

StoreInv ==
    /\ Readable
    /\ tmp # Nothing => tmp # path
    /\ \A p \in Providers : /\ WellFormed(Loaded[p])
                            /\ raced[p] \/ Loaded[p].grant = current[p]
    /\ raced["copilot"] \/ Loaded["copilot"].session \in {0, Loaded["copilot"].grant}
    /\ \A g \in 1..MaxGrants : g > grants => live[g] = 0
    /\ Loaded["openai_account"] # NoRecord =>
          Loaded["openai_account"].refresh <= live[Loaded["openai_account"].grant]

Kept ==
    LET rec == Loaded["openai_account"]
    IN  ~lost /\ rec # NoRecord /\ (\A a \in Actors : Refreshed(a) => Hand(a).grant # rec.grant)
            => rec.refresh = live[rec.grant]

Inv ==
    /\ TypeInv /\ StoreInv /\ Kept
    /\ \A a \in Actors : ActorInv(a)
    /\ \A a, b \in Actors : a # b => Apart(a, b)
SafeInv == ~overlap => Inv

-----------------------------------------------------------------------------
(* How a task moves.                                                       *)

LEMMA ActorsMany ==
    /\ Cardinality(Actors) \in Nat /\ {1, 2} \subseteq Inodes /\ Nothing \notin Inodes
    /\ \A i \in Inodes : i \in Nat
BY StoreAssumption, FS_CardinalityType DEF Inodes, Nothing

LEMMA RecordTypes ==
    /\ NoRecord \in Record /\ NoRecords \in [Providers -> Record] /\ Idle \in TaskRecords
    /\ 0 \in 0..MaxGrants /\ Env \in 0..Env /\ 0 \in 0..Env
<1>1. NoRecord \in Record /\ 0 \in 0..MaxGrants /\ Env \in 0..Env /\ 0 \in 0..Env
  BY StoreAssumption DEF NoRecord, Record, Env
<1>2. NoRecords \in [Providers -> Record]
  BY <1>1 DEF NoRecords
<1>3. Idle \in TaskRecords
  BY <1>1, <1>2 DEF Idle, TaskRecords, Pcs, Thens, Nothing
<1> QED BY <1>1, <1>2, <1>3

LEMMA IdleShape ==
    /\ Shape(Idle) /\ Idle.pc = "idle" /\ Idle.asks = Nobody /\ Idle.seen = 0 /\ ~Idle.saving
    /\ Idle.kind = "none" /\ Idle.then = "idle" /\ Idle.rec = NoRecord /\ Idle.fd = Nothing
    /\ Idle.session = 0
BY DEF Idle, Shape, CopilotPcs, SavingPcs, NoRecord, Nothing

FieldNames == {"pc", "kind", "seen", "session", "retried", "asks", "rec", "out", "saving",
               "fd", "then"}

LEMMA TaskFields ==
    ASSUME NEW t \in TaskRecords
    PROVE  /\ DOMAIN t = FieldNames
           /\ t.pc \in Pcs /\ t.kind \in DOMAIN FirstStep \union {"none"} /\ t.seen \in 0..MaxGrants
           /\ t.session \in 0..Env /\ t.retried \in BOOLEAN /\ t.asks \in 0..MaxGrants \union {Nobody}
           /\ t.rec \in Record /\ t.out \in [Providers -> Record] /\ t.saving \in BOOLEAN
           /\ t.fd \in Inodes \union {Nothing} /\ t.then \in Thens
BY DEF TaskRecords, FieldNames

LEMMA Fields ==
    ASSUME NEW t \in TaskRecords, NEW s, NEW fields,
           s = [f \in DOMAIN t |-> IF f \in DOMAIN fields THEN fields[f] ELSE t[f]],
           "pc" \in DOMAIN fields => fields.pc \in Pcs,
           "kind" \in DOMAIN fields => fields.kind \in DOMAIN FirstStep \union {"none"},
           "seen" \in DOMAIN fields => fields.seen \in 0..MaxGrants,
           "session" \in DOMAIN fields => fields.session \in 0..Env,
           "retried" \in DOMAIN fields => fields.retried \in BOOLEAN,
           "asks" \in DOMAIN fields => fields.asks \in 0..MaxGrants \union {Nobody},
           "rec" \in DOMAIN fields => fields.rec \in Record,
           "out" \in DOMAIN fields => fields.out \in [Providers -> Record],
           "saving" \in DOMAIN fields => fields.saving \in BOOLEAN,
           "fd" \in DOMAIN fields => fields.fd \in Inodes \union {Nothing},
           "then" \in DOMAIN fields => fields.then \in Thens
    PROVE  s \in TaskRecords
<1>1. DOMAIN t = FieldNames
  BY TaskFields
<1>2. s = [pc |-> s.pc, kind |-> s.kind, seen |-> s.seen, session |-> s.session,
           retried |-> s.retried, asks |-> s.asks, rec |-> s.rec, out |-> s.out,
           saving |-> s.saving, fd |-> s.fd, then |-> s.then]
  BY <1>1 DEF FieldNames
<1>3. /\ s.pc \in Pcs /\ s.kind \in DOMAIN FirstStep \union {"none"} /\ s.seen \in 0..MaxGrants
      /\ s.session \in 0..Env /\ s.retried \in BOOLEAN /\ s.asks \in 0..MaxGrants \union {Nobody}
      /\ s.rec \in Record /\ s.out \in [Providers -> Record] /\ s.saving \in BOOLEAN
      /\ s.fd \in Inodes \union {Nothing} /\ s.then \in Thens
  BY <1>1, TaskFields DEF FieldNames
<1> QED BY <1>2, <1>3 DEF TaskRecords

LEMMA GoneTo ==
    ASSUME TypeInv, NEW a \in Actors, NEW fields, Goto(a, fields)
    PROVE  /\ \A b \in Actors \ {a} : task'[b] = task[b]
           /\ task' = [task EXCEPT ![a] = task'[a]]
           /\ task[a] \in TaskRecords /\ DOMAIN task[a] = FieldNames
           /\ fields.pc = "idle" => task'[a] = Idle
           /\ fields.pc # "idle" =>
                 task'[a] = [f \in FieldNames |-> IF f \in DOMAIN fields THEN fields[f]
                                                                         ELSE task[a][f]]
<1>1. task[a] \in TaskRecords /\ DOMAIN task[a] = FieldNames
  BY TaskFields DEF TypeInv
<1> QED BY <1>1 DEF Goto, Stop, TypeInv

LEMMA Stopped ==
    ASSUME TypeInv, NEW a \in Actors, Stop(a)
    PROVE  /\ \A b \in Actors \ {a} : task'[b] = task[b]
           /\ task' = [task EXCEPT ![a] = task'[a]]
           /\ task'[a] = Idle
BY DEF Stop, TypeInv

LEMMA SameTask ==
    ASSUME NEW b, task'[b] = task[b]
    PROVE  /\ Hand(b)' = Hand(b) /\ ProviderOfTask(b)' = ProviderOfTask(b)
           /\ Chat(b)' <=> Chat(b)
           /\ Refreshed(b)' <=> Refreshed(b)
           /\ HasRecord(b)' <=> HasRecord(b)
           /\ \A pc : At(b, pc)' <=> At(b, pc)
BY DEF Hand, ProviderOfTask, Chat, Refreshed, HasRecord, At

LEMMA RefreshedIsChat ==
    ASSUME NEW a \in Actors
    PROVE  /\ Refreshed(a) => Chat(a)
           /\ Chat(a) => ProviderOfTask(a) = "openai_account" /\ HasRecord(a)
           /\ task[a].saving => (Shape(task[a]) => HasRecord(a))
BY DEF Refreshed, Chat, HasRecord, SavingPcs, ProviderOfTask, ProviderOf, Shape

\* What b has stays well as long as nothing is saved or refreshed.
LEMMA OthersStay ==
    ASSUME NEW b \in Actors, ActorInv(b), task'[b] = task[b],
           Loaded' = Loaded, UNCHANGED <<live, current, raced>>,
           grants \in Nat, grants' \in Nat, grants' >= grants,
           task[b].saving => UNCHANGED <<tmp, disk>>
    PROVE  ActorInv(b)'
<1>1. /\ Hand(b)' = Hand(b) /\ ProviderOfTask(b)' = ProviderOfTask(b)
      /\ Chat(b)' <=> Chat(b)
      /\ Refreshed(b)' <=> Refreshed(b)
      /\ HasRecord(b)' <=> HasRecord(b)
      /\ \A pc : At(b, pc)' <=> At(b, pc)
  BY SameTask
<1>2. WellFormed(Hand(b)) => WellFormed(Hand(b))'
  BY <1>1 DEF WellFormed
<1>3. HasRecord(b)' => InHand(b)'
  BY <1>1, <1>2 DEF ActorInv, InHand
<1>4. Shape(task[b])' /\ (task[b].saving <=> task[b].pc \in SavingPcs)
  <2>1. Shape(task[b])
    BY DEF ActorInv
  <2> QED BY <2>1 DEF Shape
<1>5. FileOf(b)'
  <2>1. task[b].saving \/ (~At(b, "write") /\ ~At(b, "rename"))
    BY <1>4 DEF At, SavingPcs
  <2> QED BY <1>1, <2>1 DEF ActorInv, FileOf, At
<1>6. Token(b)'
  BY <1>1 DEF ActorInv, Token
<1> QED BY <1>1, <1>3, <1>4, <1>5, <1>6 DEF ActorInv

LEMMA OthersApart ==
    ASSUME NEW b \in Actors, NEW c \in Actors, Apart(b, c), task'[b] = task[b], task'[c] = task[c],
           live' = live
    PROVE  Apart(b, c)'
<1>1. /\ Hand(b)' = Hand(b) /\ ProviderOfTask(b)' = ProviderOfTask(b) /\ (Refreshed(b)' <=> Refreshed(b))
      /\ Hand(c)' = Hand(c) /\ (Chat(c)' <=> Chat(c)) /\ (Refreshed(c)' <=> Refreshed(c))
  BY SameTask
<1> QED BY <1>1 DEF Apart

\* It is enough to look at a, and at a with each of the others.
LEMMA OneActs ==
    ASSUME Inv, NEW a \in Actors, \A b \in Actors \ {a} : task'[b] = task[b],
           Loaded' = Loaded, UNCHANGED <<live, current, raced>>,
           grants' \in Nat, grants' >= grants,
           \A b \in Actors \ {a} : task[b].saving => UNCHANGED <<tmp, disk>>,
           TypeInv', StoreInv', Kept', ActorInv(a)',
           \A b \in Actors \ {a} : Apart(a, b)' /\ Apart(b, a)'
    PROVE  Inv'
<1>1. grants \in Nat
  BY StoreAssumption DEF Inv, TypeInv
<1>2. \A b \in Actors : ActorInv(b)'
  <2> SUFFICES ASSUME NEW b \in Actors, b # a
               PROVE  ActorInv(b)'
    OBVIOUS
  <2>1. ActorInv(b) /\ task'[b] = task[b] /\ (task[b].saving => UNCHANGED <<tmp, disk>>)
    BY DEF Inv
  <2> QED BY <1>1, <2>1, OthersStay
<1>3. \A b, c \in Actors : b # c => Apart(b, c)'
  <2> SUFFICES ASSUME NEW b \in Actors, NEW c \in Actors, b # c
               PROVE  Apart(b, c)'
    OBVIOUS
  <2>1. CASE b = a \/ c = a
    BY <2>1
  <2>2. CASE b # a /\ c # a
    <3>1. Apart(b, c)
      BY DEF Inv
    <3> QED BY <2>2, <3>1, OthersApart
  <2> QED BY <2>1, <2>2
<1> QED BY <1>2, <1>3 DEF Inv

\* Steps of a task, and failures, that leave the files and the server alone and after which a
\* holds at most a record for Copilot that it has not begun to save.
Outside == <<path, tmp, disk, live, grants, current, raced>>

LEMMA QuietStep ==
    ASSUME Inv, NEW a \in Actors, UNCHANGED Outside, overlap' \in BOOLEAN, lost' \in BOOLEAN,
           lost \/ Refreshed(a) => lost',
           \A b \in Actors \ {a} : task'[b] = task[b],
           task' = [task EXCEPT ![a] = task'[a]], task'[a] \in TaskRecords,
           Shape(task'[a]), ~task'[a].saving, task'[a].asks = Nobody, ~Chat(a)',
           HasRecord(a)' => InHand(a)',
           ProviderOfTask(a)' = "copilot" /\ task'[a].seen # 0 =>
              raced["copilot"] \/ task'[a].seen = current["copilot"]
    PROVE  Inv'
<1>1. /\ TypeInv /\ StoreInv /\ Kept
      /\ UNCHANGED <<path, tmp, disk, live, grants, current, raced>>
  BY DEF Inv, Outside
<1>2. Loaded' = Loaded /\ (Readable' <=> Readable)
  BY <1>1 DEF Loaded, Readable
<1>3. TypeInv'
  BY <1>1 DEF TypeInv
<1>4. StoreInv'
  BY <1>1, <1>2 DEF StoreInv, WellFormed
<1>5. ~Refreshed(a)' /\ ~At(a, "write")' /\ ~At(a, "rename")'
  BY DEF Refreshed, Chat, HasRecord, SavingPcs, Shape, At
<1>6. \A b \in Actors \ {a} : Hand(b)' = Hand(b) /\ (Refreshed(b)' <=> Refreshed(b))
  BY SameTask
<1>7. Kept'
  <2> SUFFICES ASSUME ~lost', Loaded'["openai_account"] # NoRecord,
                      \A b \in Actors : Refreshed(b)' => Hand(b)'.grant # Loaded'["openai_account"].grant
               PROVE  Loaded'["openai_account"].refresh = live'[Loaded'["openai_account"].grant]
    BY DEF Kept
  <2>1. \A b \in Actors : Refreshed(b) => Hand(b).grant # Loaded["openai_account"].grant
    BY <1>2, <1>6
  <2> QED BY <1>1, <1>2, <2>1 DEF Kept
<1>8. ActorInv(a)'
  <2>1. FileOf(a)'
    BY <1>5 DEF FileOf
  <2>2. Token(a)'
    BY <1>5 DEF Token, Nobody
  <2> QED BY <1>1, <2>1, <2>2 DEF ActorInv
<1>9. \A b \in Actors \ {a} : Apart(a, b)' /\ Apart(b, a)'
  <2> SUFFICES ASSUME NEW b \in Actors \ {a}
               PROVE  Apart(a, b)' /\ Apart(b, a)'
    OBVIOUS
  <2>1. Apart(a, b)'
    BY <1>5 DEF Apart, Nobody
  <2>2. Apart(b, a)'
    BY <1>5 DEF Apart, Nobody
  <2> QED BY <2>1, <2>2
<1>10. grants \in Nat /\ grants' \in Nat /\ grants' >= grants
  BY <1>1, StoreAssumption DEF TypeInv
<1> QED BY <1>1, <1>2, <1>3, <1>4, <1>7, <1>8, <1>9, <1>10, OneActs

LEMMA StopStep ==
    ASSUME Inv, NEW a \in Actors, Stop(a), UNCHANGED Outside, overlap' \in BOOLEAN, lost' \in BOOLEAN,
           lost \/ Refreshed(a) => lost'
    PROVE  Inv'
<1>1. /\ \A b \in Actors \ {a} : task'[b] = task[b]
      /\ task' = [task EXCEPT ![a] = task'[a]]
      /\ task'[a] = Idle
  BY Stopped DEF Inv
<1>2. ~Chat(a)' /\ ~HasRecord(a)'
  BY <1>1, IdleShape DEF Chat, HasRecord, SavingPcs
<1> QED BY <1>1, <1>2, IdleShape, RecordTypes, QuietStep

-----------------------------------------------------------------------------
(* Copilot sessions.                                                       *)

LEMMA CopilotTask ==
    ASSUME Inv, NEW a \in Actors, task[a].pc \in CopilotPcs
    PROVE  /\ TypeInv /\ task[a] \in TaskRecords /\ Shape(task[a])
           /\ task[a].asks = Nobody /\ task[a].rec = NoRecord /\ task[a].fd = Nothing
           /\ ~task[a].saving /\ ProviderOf(task[a].kind) = "copilot" /\ ~Refreshed(a)
           /\ task[a].kind # "chat"
           /\ task[a].seen # 0 => raced["copilot"] \/ task[a].seen = current["copilot"]
<1>1. ActorInv(a) /\ TypeInv
  BY DEF Inv
<1>2. Shape(task[a]) /\ task[a] \in TaskRecords
  BY <1>1 DEF ActorInv, TypeInv
<1>3. /\ task[a].pc # "upsert" /\ task[a].pc \notin SavingPcs /\ task[a].pc # "refresh"
      /\ ~Refreshed(a)
  BY DEF CopilotPcs, SavingPcs, Refreshed
<1>4. /\ task[a].asks = Nobody /\ task[a].rec = NoRecord /\ task[a].fd = Nothing
      /\ ~task[a].saving /\ ProviderOf(task[a].kind) = "copilot"
  BY <1>2, <1>3 DEF Shape, SavingPcs
<1>5. ProviderOfTask(a) = "copilot" /\ task[a].kind # "chat"
  BY <1>4 DEF ProviderOf, ProviderOfTask
<1> QED BY <1>1, <1>2, <1>3, <1>4, <1>5 DEF ActorInv

LEMMA CopilotGoes ==
    ASSUME Inv, NEW a \in Actors, task[a].pc \in CopilotPcs, UNCHANGED <<Outside, overlap, lost>>,
           NEW fields, Goto(a, fields), "pc" \in DOMAIN fields, fields.pc \in CopilotPcs,
           DOMAIN fields \subseteq {"pc", "seen", "session", "retried"},
           "retried" \in DOMAIN fields => fields.retried \in BOOLEAN,
           "session" \in DOMAIN fields => fields.session \in 0..Env,
           "seen" \in DOMAIN fields =>
              /\ fields.seen \in 0..MaxGrants
              /\ fields.seen # 0 => raced["copilot"] \/ fields.seen = current["copilot"],
           fields.pc \in {"cached", "exchange", "saveSession"} =>
              IF "seen" \in DOMAIN fields THEN fields.seen # 0 ELSE task[a].seen # 0,
           fields.pc = "saveSession" =>
              /\ DOMAIN fields = {"pc", "session"}
              /\ fields.session = task[a].seen
    PROVE  Inv'
<1> DEFINE t == task[a]
           s == task'[a]
<1>1. /\ TypeInv /\ t \in TaskRecords /\ Shape(t) /\ DOMAIN t = FieldNames
      /\ t.asks = Nobody /\ t.rec = NoRecord /\ t.fd = Nothing /\ ~t.saving
      /\ ProviderOf(t.kind) = "copilot" /\ ~Refreshed(a) /\ t.kind # "chat"
      /\ t.seen # 0 => raced["copilot"] \/ t.seen = current["copilot"]
  BY CopilotTask, TaskFields
<1>2. fields.pc # "idle" /\ fields.pc \in Pcs /\ fields.pc \notin SavingPcs
      /\ fields.pc \notin {"upsert", "refresh", "write", "rename", "credentials", "authorise", "remove"}
  BY DEF CopilotPcs, Pcs, SavingPcs
<1>3. /\ \A b \in Actors \ {a} : task'[b] = task[b]
      /\ task' = [task EXCEPT ![a] = s]
      /\ s = [f \in FieldNames |-> IF f \in DOMAIN fields THEN fields[f] ELSE t[f]]
  BY <1>1, <1>2, GoneTo
<1>4. s \in TaskRecords
  BY <1>1, <1>2, <1>3, Fields
<1>5. /\ s.pc = fields.pc /\ s.kind = t.kind /\ s.asks = t.asks /\ s.rec = t.rec /\ s.fd = t.fd
      /\ s.saving = t.saving /\ s.then = t.then
      /\ s.seen = IF "seen" \in DOMAIN fields THEN fields.seen ELSE t.seen
      /\ s.session = IF "session" \in DOMAIN fields THEN fields.session ELSE t.session
  BY <1>3 DEF FieldNames
<1>6. Shape(s)
  <2>1. t.then # "idle" => ProviderOf(t.kind) = "copilot"
    BY <1>1
  <2>2. /\ s.pc # "idle" /\ s.pc \notin SavingPcs /\ s.pc \in CopilotPcs
        /\ s.pc \notin {"upsert", "refresh", "write", "rename", "credentials", "authorise", "remove"}
    BY <1>2, <1>5
  <2>3. s.pc = "saveSession" => s.session = s.seen
    BY <1>5
  <2>4. s.pc \in {"cached", "exchange", "saveSession"} => s.seen # 0
    BY <1>5
  <2> QED BY <1>1, <1>5, <2>1, <2>2, <2>3, <2>4 DEF Shape
<1>7. ~Chat(a)' /\ ~HasRecord(a)'
  BY <1>1, <1>2, <1>5 DEF Chat, HasRecord
<1>8. s.seen # 0 => raced["copilot"] \/ s.seen = current["copilot"]
  BY <1>1, <1>5
<1>9. overlap' \in BOOLEAN /\ lost' \in BOOLEAN /\ (lost => lost') /\ UNCHANGED Outside
  BY <1>1 DEF TypeInv
<1> QED BY <1>1, <1>3, <1>4, <1>5, <1>6, <1>7, <1>8, <1>9, QuietStep

\* A record of Copilot is read, or made from the one that is there.
LEMMA CopilotReads ==
    ASSUME Inv, NEW a \in Actors, task[a].pc \in CopilotPcs, UNCHANGED <<Outside, overlap, lost>>,
           NEW rec \in Record, NEW then \in Thens,
           Loaded["copilot"] # NoRecord, rec.grant = Loaded["copilot"].grant,
           rec.session = Loaded["copilot"].session \/ (rec.session = task[a].seen /\ task[a].seen # 0),
           Goto(a, [pc |-> "upsert", rec |-> rec, then |-> then])
    PROVE  Inv'
<1> DEFINE t == task[a]
           s == task'[a]
           fields == [pc |-> "upsert", rec |-> rec, then |-> then]
<1>1. /\ TypeInv /\ t \in TaskRecords /\ Shape(t) /\ DOMAIN t = FieldNames
      /\ t.asks = Nobody /\ t.rec = NoRecord /\ t.fd = Nothing /\ ~t.saving
      /\ ProviderOf(t.kind) = "copilot" /\ ~Refreshed(a) /\ t.kind # "chat"
      /\ t.seen # 0 => raced["copilot"] \/ t.seen = current["copilot"]
  BY CopilotTask, TaskFields
<1>2. /\ \A b \in Actors \ {a} : task'[b] = task[b]
      /\ task' = [task EXCEPT ![a] = s]
      /\ s = [f \in FieldNames |-> IF f \in DOMAIN fields THEN fields[f] ELSE t[f]]
  BY <1>1, GoneTo
<1>3. DOMAIN fields = {"pc", "rec", "then"} /\ fields.pc = "upsert" /\ fields.rec = rec /\ fields.then = then
  OBVIOUS
<1>4. s \in TaskRecords
  <2>1. "upsert" \in Pcs
    BY DEF Pcs
  <2> HIDE DEF fields
  <2> QED BY <1>1, <1>2, <1>3, <2>1, Fields
<1>5. /\ s.pc = "upsert" /\ s.kind = t.kind /\ s.asks = t.asks /\ s.rec = rec /\ s.fd = t.fd
      /\ s.saving = t.saving /\ s.then = then /\ s.seen = t.seen
  <2> HIDE DEF fields
  <2> QED BY <1>2, <1>3 DEF FieldNames
<1>6. /\ StoreInv /\ "copilot" \in Providers
      /\ raced' = raced /\ current' = current /\ grants' = grants
  BY CredentialsAssumption DEF Inv, Outside
<1>7. rec # NoRecord /\ rec.grant \in 1..grants
  <2>1. Loaded["copilot"].grant \in 1..grants
    BY <1>6 DEF StoreInv, WellFormed
  <2>2. grants \in Nat /\ NoRecord.grant = 0
    BY <1>1, StoreAssumption DEF TypeInv, NoRecord
  <2> QED BY <2>1, <2>2
<1>8. raced["copilot"] \/ rec.grant = current["copilot"]
  BY <1>6 DEF StoreInv
<1>9. raced["copilot"] \/ rec.session \in {0, rec.grant}
  <2>1. CASE rec.session = Loaded["copilot"].session
    BY <1>6, <2>1 DEF StoreInv
  <2>2. CASE rec.session = t.seen /\ t.seen # 0
    BY <1>1, <1>8, <2>2
  <2> QED BY <2>1, <2>2
<1>10. Shape(s)
  BY <1>1, <1>5, <1>7 DEF Shape, SavingPcs, CopilotPcs, ProviderOf
<1>11. ProviderOfTask(a)' = "copilot" /\ ~Chat(a)' /\ Hand(a)' = rec
  BY <1>1, <1>5 DEF ProviderOfTask, Chat, Hand
<1>12. InHand(a)'
  BY <1>1, <1>5, <1>6, <1>7, <1>8, <1>9, <1>11 DEF InHand, WellFormed
<1>13. overlap' \in BOOLEAN /\ lost' \in BOOLEAN /\ (lost => lost') /\ UNCHANGED Outside
  BY <1>1 DEF TypeInv
<1> QED BY <1>1, <1>2, <1>4, <1>5, <1>10, <1>11, <1>12, <1>13, QuietStep

\* The steps of a turn or a discovery of models that use the store without saving.
CopilotStep(a) ==
    \/ Candidates(a) \/ Cached(a) \/ Exchange(a) \/ SaveSession(a) \/ Models(a)
    \/ SaveModels(a) \/ SaveUsage(a) \/ SaveFetched(a) \/ Send(a)

LEMMA StopHere ==
    ASSUME Inv, NEW a \in Actors, task[a].pc \in CopilotPcs, UNCHANGED <<Outside, overlap, lost>>, Stop(a)
    PROVE  Inv'
<1>1. ~Refreshed(a) /\ TypeInv
  BY CopilotTask
<1>2. overlap' \in BOOLEAN /\ lost' \in BOOLEAN /\ (lost => lost') /\ UNCHANGED Outside
  BY <1>1 DEF TypeInv
<1> QED BY <1>1, <1>2, StopStep

LEMMA NextCandidateStep ==
    ASSUME Inv, NEW a \in Actors, task[a].pc \in CopilotPcs, UNCHANGED <<Outside, overlap, lost>>,
           NextCandidate(a)
    PROVE  Inv'
<1>1. CASE HasEnv
  <2> DEFINE fields == [pc |-> "models", seen |-> 0, session |-> Env]
  <2>1. Goto(a, fields)
    BY <1>1 DEF NextCandidate
  <2>2. DOMAIN fields = {"pc", "seen", "session"} /\ fields.pc = "models" /\ fields.seen = 0 /\ fields.session = Env
    OBVIOUS
  <2>3. "models" \in CopilotPcs
    BY DEF CopilotPcs
  <2> HIDE DEF fields
  <2> QED BY <2>1, <2>2, <2>3, RecordTypes, CopilotGoes
<1>2. CASE ~HasEnv
  BY <1>2, StopHere DEF NextCandidate
<1> QED BY <1>1, <1>2

LEMMA ReadToUpsertStep ==
    ASSUME Inv, NEW a \in Actors, NEW from \in CopilotPcs, NEW then \in {"send", "saveFetched", "idle"},
           ReadToUpsert(a, from, then), UNCHANGED <<current, raced, overlap, lost>>
    PROVE  Inv'
<1>1. task[a].pc \in CopilotPcs /\ UNCHANGED <<Outside, overlap, lost>>
  BY DEF ReadToUpsert, At, fileVars, Outside
<1>2. CASE Stop(a)
  BY <1>1, <1>2, StopHere
<1>3. CASE Goto(a, [pc |-> then])
  <2>1. CASE then = "idle"
    BY <1>1, <1>3, <2>1, StopHere DEF Goto
  <2>2. CASE then # "idle"
    <3> DEFINE fields == [pc |-> then]
    <3>1. DOMAIN fields = {"pc"} /\ fields.pc = then /\ Goto(a, fields)
      BY <1>3
    <3>2. then \in CopilotPcs /\ then \notin {"cached", "exchange", "saveSession"}
      BY <2>2 DEF CopilotPcs
    <3> HIDE DEF fields
    <3> QED BY <1>1, <3>1, <3>2, CopilotGoes
  <2> QED BY <2>1, <2>2
<1>4. CASE /\ Loaded["copilot"] # NoRecord
           /\ Goto(a, [pc |-> "upsert", rec |-> Loaded["copilot"], then |-> then])
  <2>1. TypeInv /\ "copilot" \in Providers
    BY CredentialsAssumption DEF Inv
  <2>2. Loaded["copilot"] \in Record
    BY <2>1, RecordTypes DEF TypeInv, Loaded, Files
  <2>3. then \in Thens
    BY DEF Thens
  <2> DEFINE rec == Loaded["copilot"]
  <2>4. /\ Goto(a, [pc |-> "upsert", rec |-> rec, then |-> then]) /\ rec # NoRecord /\ rec \in Record
        /\ rec.grant = Loaded["copilot"].grant /\ rec.session = Loaded["copilot"].session
    BY <1>4, <2>2
  <2>5. Loaded["copilot"] # NoRecord
    BY <1>4
  <2> HIDE DEF rec
  <2> QED BY <1>1, <2>3, <2>4, <2>5, CopilotReads
<1> QED BY <1>2, <1>3, <1>4 DEF ReadToUpsert

LEMMA CopilotStepKeeps ==
    ASSUME Inv, NEW a \in Actors, CopilotStep(a), UNCHANGED <<current, raced, overlap, lost>>
    PROVE  Inv'
<1>1. task[a].pc \in CopilotPcs /\ UNCHANGED <<Outside, overlap, lost>>
  BY DEF CopilotStep, Candidates, Cached, Exchange, SaveSession, Models, SaveModels, SaveUsage,
         SaveFetched, Send, ReadToUpsert, At, fileVars, Outside, CopilotPcs
<1>2. /\ TypeInv /\ task[a] \in TaskRecords /\ Shape(task[a]) /\ StoreInv
  BY <1>1, CopilotTask DEF Inv
<1>3. /\ "copilot" \in Providers /\ Loaded["copilot"] \in Record /\ grants \in 0..MaxGrants
      /\ MaxGrants \in Nat
  BY <1>2, StoreAssumption, CredentialsAssumption, RecordTypes DEF TypeInv, Loaded, Files
<1>4. CASE Stop(a)
  BY <1>1, <1>4, StopHere
<1>5. CASE NextCandidate(a)
  BY <1>1, <1>5, NextCandidateStep
<1>6. CASE Candidates(a)
  <2>1. CASE /\ Loaded["copilot"] # NoRecord
             /\ Goto(a, [pc |-> IF task[a].retried THEN "exchange" ELSE "cached",
                         seen |-> Loaded["copilot"].grant])
    <3> DEFINE fields == [pc |-> IF task[a].retried THEN "exchange" ELSE "cached",
                          seen |-> Loaded["copilot"].grant]
    <3>1. /\ DOMAIN fields = {"pc", "seen"} /\ fields.pc \in {"exchange", "cached"}
          /\ fields.seen = Loaded["copilot"].grant /\ Goto(a, fields)
      BY <2>1
    <3>2. /\ Loaded["copilot"].grant \in 1..grants
          /\ raced["copilot"] \/ Loaded["copilot"].grant = current["copilot"]
      BY <1>2, <1>3, <2>1 DEF StoreInv, WellFormed
    <3>3. fields.seen # 0 /\ fields.seen \in 0..MaxGrants
      BY <1>3, <3>1, <3>2
    <3>4. {"exchange", "cached"} \subseteq CopilotPcs
      BY DEF CopilotPcs
    <3> HIDE DEF fields
    <3> QED BY <1>1, <3>1, <3>2, <3>3, <3>4, CopilotGoes
  <2> QED BY <1>4, <1>5, <1>6, <2>1 DEF Candidates
<1>7. CASE Cached(a)
  <2>1. CASE Goto(a, [pc |-> "exchange"])
    <3> DEFINE fields == [pc |-> "exchange"]
    <3>1. DOMAIN fields = {"pc"} /\ fields.pc = "exchange" /\ Goto(a, fields)
      BY <2>1
    <3>2. task[a].seen # 0
      BY <1>2, <1>7 DEF Cached, At, Shape
    <3>3. "exchange" \in CopilotPcs
      BY DEF CopilotPcs
    <3> HIDE DEF fields
    <3> QED BY <1>1, <3>1, <3>2, <3>3, CopilotGoes
  <2>2. CASE Goto(a, [pc |-> "models", session |-> Loaded["copilot"].session])
    <3> DEFINE fields == [pc |-> "models", session |-> Loaded["copilot"].session]
    <3>1. /\ DOMAIN fields = {"pc", "session"} /\ fields.pc = "models" /\ Goto(a, fields)
          /\ fields.session = Loaded["copilot"].session
      BY <2>2
    <3>2. "models" \in CopilotPcs
      BY DEF CopilotPcs
    <3>3. fields.session \in 0..Env
      BY <1>3, <3>1 DEF Record, Env
    <3> HIDE DEF fields
    <3> QED BY <1>1, <3>1, <3>2, <3>3, CopilotGoes
  <2> QED BY <1>5, <1>7, <2>1, <2>2 DEF Cached
<1>8. CASE Exchange(a)
  <2>1. CASE Goto(a, [pc |-> "saveSession", session |-> task[a].seen])
    <3> DEFINE fields == [pc |-> "saveSession", session |-> task[a].seen]
    <3>1. /\ DOMAIN fields = {"pc", "session"} /\ fields.pc = "saveSession" /\ Goto(a, fields)
          /\ fields.session = task[a].seen
      BY <2>1
    <3>2. task[a].seen # 0
      BY <1>2, <1>8 DEF Exchange, At, Shape
    <3>3. "saveSession" \in CopilotPcs
      BY DEF CopilotPcs
    <3>4. fields.session \in 0..Env
      BY <1>2, <1>3, <3>1, TaskFields DEF Env
    <3> HIDE DEF fields
    <3> QED BY <1>1, <3>1, <3>2, <3>3, <3>4, CopilotGoes
  <2> QED BY <1>5, <1>8, <2>1 DEF Exchange
<1>9. CASE SaveSession(a)
  <2>1. CASE Goto(a, [pc |-> "models"])
    <3> DEFINE fields == [pc |-> "models"]
    <3>1. DOMAIN fields = {"pc"} /\ fields.pc = "models" /\ Goto(a, fields)
      BY <2>1
    <3>2. "models" \in CopilotPcs
      BY DEF CopilotPcs
    <3> HIDE DEF fields
    <3> QED BY <1>1, <3>1, <3>2, CopilotGoes
  <2>2. CASE /\ Loaded["copilot"] # NoRecord
             /\ Goto(a, [pc   |-> "upsert",
                         rec  |-> [Loaded["copilot"] EXCEPT !.session = task[a].session],
                         then |-> "models"])
    <3> DEFINE rec == [Loaded["copilot"] EXCEPT !.session = task[a].session]
    <3>1. task[a].session = task[a].seen /\ task[a].seen # 0 /\ task[a].seen \in 0..MaxGrants
      BY <1>2, <1>9, TaskFields DEF SaveSession, At, Shape
    <3>2. rec \in Record /\ rec.grant = Loaded["copilot"].grant /\ rec.session = task[a].seen
      BY <1>3, <3>1 DEF Record
    <3>3. "models" \in Thens
      BY DEF Thens
    <3> QED BY <1>1, <2>2, <3>1, <3>2, <3>3, CopilotReads
  <2> QED BY <1>5, <1>9, <2>1, <2>2 DEF SaveSession
<1>10. CASE Models(a)
  <2>1. CASE Goto(a, [pc |-> IF task[a].kind = "turn" THEN "saveModels" ELSE "saveUsage",
                      seen |-> 0, session |-> 0])
    <3> DEFINE fields == [pc |-> IF task[a].kind = "turn" THEN "saveModels" ELSE "saveUsage",
                          seen |-> 0, session |-> 0]
    <3>1. /\ DOMAIN fields = {"pc", "seen", "session"} /\ fields.pc \in {"saveModels", "saveUsage"}
          /\ fields.seen = 0 /\ fields.session = 0 /\ Goto(a, fields)
      BY <2>1
    <3>2. {"saveModels", "saveUsage"} \subseteq CopilotPcs
      BY DEF CopilotPcs
    <3> HIDE DEF fields
    <3> QED BY <1>1, <3>1, <3>2, RecordTypes, CopilotGoes
  <2> QED BY <1>4, <1>5, <1>10, <2>1 DEF Models
<1>11. CASE SaveModels(a) \/ SaveUsage(a) \/ SaveFetched(a)
  <2>1. {"saveModels", "saveUsage", "saveFetched"} \subseteq CopilotPcs
    BY DEF CopilotPcs
  <2> QED BY <1>11, <2>1, ReadToUpsertStep DEF SaveModels, SaveUsage, SaveFetched
<1>12. CASE Send(a)
  <2>1. ASSUME NEW pc \in {"candidates", "saveModels"}, Goto(a, [pc |-> pc, retried |-> TRUE])
        PROVE  Inv'
    <3> DEFINE fields == [pc |-> pc, retried |-> TRUE]
    <3>1. DOMAIN fields = {"pc", "retried"} /\ fields.pc = pc /\ Goto(a, fields) /\ fields.retried = TRUE
      BY <2>1
    <3>2. pc \in CopilotPcs
      BY DEF CopilotPcs
    <3> HIDE DEF fields
    <3> QED BY <1>1, <3>1, <3>2, CopilotGoes
  <2> QED BY <1>4, <1>12, <2>1 DEF Send
<1> QED BY <1>6, <1>7, <1>8, <1>9, <1>10, <1>11, <1>12 DEF CopilotStep

-----------------------------------------------------------------------------
(* Tasks begin, and tokens come from the server.                           *)

LEMMA StartStep ==
    ASSUME Inv, NEW a \in Actors, Start(a), UNCHANGED <<current, raced, overlap, lost>>
    PROVE  Inv'
<1>1. PICK kind \in DOMAIN FirstStep : Goto(a, [pc |-> FirstStep[kind], kind |-> kind])
  BY DEF Start, FirstStep, UiKinds
<1> DEFINE fields == [pc |-> FirstStep[kind], kind |-> kind]
           s == task'[a]
<1>2. TypeInv /\ ActorInv(a)
  BY DEF Inv
<1>3. task[a] = Idle
  BY <1>2 DEF Start, At, ActorInv, Shape
<1>4. /\ DOMAIN fields = {"pc", "kind"} /\ fields.kind = kind /\ fields.pc = FirstStep[kind]
      /\ Goto(a, fields)
  BY <1>1
<1>5. /\ FirstStep[kind] \in {"candidates", "credentials", "authorise", "remove"}
      /\ FirstStep[kind] = "candidates" => kind \in {"turn", "discover"}
      /\ FirstStep[kind] = "credentials" => kind = "chat"
      /\ FirstStep[kind] = "authorise" => kind \in {"login", "env", "signin"}
      /\ FirstStep[kind] = "remove" => kind \in {"logout", "signout"}
  BY DEF FirstStep
<1>6. FirstStep[kind] \in Pcs
  BY <1>5 DEF Pcs, CopilotPcs
<1> HIDE DEF fields
<1>7. /\ \A b \in Actors \ {a} : task'[b] = task[b]
      /\ task' = [task EXCEPT ![a] = s]
      /\ s = [f \in FieldNames |-> IF f \in DOMAIN fields THEN fields[f] ELSE task[a][f]]
      /\ task[a] \in TaskRecords /\ DOMAIN task[a] = FieldNames
  BY <1>2, <1>4, <1>5, GoneTo
<1>8. s \in TaskRecords
  BY <1>4, <1>6, <1>7, Fields
<1>9. /\ s.pc = FirstStep[kind] /\ s.kind = kind /\ s.asks = Nobody /\ s.rec = NoRecord
      /\ s.fd = Nothing /\ ~s.saving /\ s.then = "idle" /\ s.seen = 0 /\ s.session = 0
  BY <1>3, <1>4, <1>7, IdleShape DEF FieldNames
<1>10. s.pc \in CopilotPcs => s.pc = "candidates" /\ ProviderOf(s.kind) = "copilot"
  BY <1>5, <1>9 DEF CopilotPcs, ProviderOf
<1>11. s.pc \notin SavingPcs /\ s.pc \notin {"idle", "upsert", "refresh", "cached", "exchange", "saveSession"}
  BY <1>5, <1>9 DEF SavingPcs
<1>12. Shape(s)
  BY <1>5, <1>9, <1>10, <1>11 DEF Shape, SavingPcs
<1>13. ~Chat(a)' /\ ~HasRecord(a)'
  BY <1>11 DEF Chat, HasRecord
<1>14. ~Refreshed(a)
  BY <1>3, IdleShape DEF Refreshed
<1>15. overlap' \in BOOLEAN /\ lost' \in BOOLEAN /\ (lost => lost') /\ UNCHANGED Outside
  BY <1>2 DEF TypeInv, Start, Outside, fileVars
<1> QED BY <1>7, <1>8, <1>9, <1>12, <1>13, <1>14, <1>15, QuietStep

LEMMA AuthoriseStep ==
    ASSUME Inv, NEW a \in Actors, Authorise(a), UNCHANGED <<current, raced, overlap, lost>>
    PROVE  Inv'
<1>1. /\ TypeInv /\ StoreInv /\ Kept /\ Shape(task[a]) /\ task[a] \in TaskRecords
      /\ UNCHANGED <<path, tmp, disk, live, current, raced, overlap, lost>>
      /\ At(a, "authorise")
  BY DEF Inv, ActorInv, TypeInv, Authorise, fileVars
<1>2. Loaded' = Loaded /\ (Readable' <=> Readable)
  BY <1>1 DEF Loaded, Readable
<1>3. /\ grants \in Nat /\ MaxGrants \in Nat /\ grants \in 0..MaxGrants
      /\ "copilot" \in Providers /\ "openai_account" \in Providers
      /\ live \in [1..MaxGrants -> Nat]
  BY <1>1, StoreAssumption, CredentialsAssumption DEF TypeInv
<1>4. ~Refreshed(a)
  BY <1>1 DEF At, Refreshed
<1>5. CASE Stop(a) /\ UNCHANGED grants
  <2>1. UNCHANGED Outside /\ overlap' \in BOOLEAN /\ lost' \in BOOLEAN /\ (lost => lost')
    BY <1>1, <1>5 DEF Outside, TypeInv
  <2> QED BY <1>4, <1>5, <2>1, StopStep
<1>6. ASSUME grants < MaxGrants, grants' = grants + 1,
             Goto(a, [pc   |-> "upsert",
                      rec  |-> [NoRecord EXCEPT !.grant = grants + 1],
                      asks |-> grants + 1,
                      then |-> IF task[a].kind = "login" THEN "candidates" ELSE "idle"])
      PROVE  Inv'
  <2> DEFINE new == grants + 1
             rec == [NoRecord EXCEPT !.grant = new]
             next == IF task[a].kind = "login" THEN "candidates" ELSE "idle"
             fields == [pc |-> "upsert", rec |-> rec, asks |-> new, then |-> next]
             t == task[a]
             s == task'[a]
  <2>1. /\ DOMAIN fields = {"pc", "rec", "asks", "then"} /\ fields.pc = "upsert" /\ fields.rec = rec
        /\ fields.asks = new /\ fields.then = next /\ Goto(a, fields)
    BY <1>6
  <2>2. /\ new \in 1..MaxGrants /\ new \in 0..MaxGrants /\ rec \in Record /\ rec.grant = new
        /\ rec.session = 0 /\ rec.refresh = 0 /\ rec # NoRecord /\ "upsert" \in Pcs /\ next \in Thens
        /\ new # Nobody /\ new > grants
    <3>1. new \in 1..MaxGrants /\ new \in 0..MaxGrants /\ new # Nobody /\ new > grants
      BY <1>3, <1>6 DEF Nobody
    <3>2. "upsert" \in Pcs /\ next \in Thens
      BY DEF Pcs, Thens
    <3> HIDE DEF new
    <3>3. /\ rec \in Record /\ rec.grant = new /\ rec.session = 0 /\ rec.refresh = 0
          /\ rec # NoRecord
      BY <1>3, <3>1, RecordTypes DEF Record, NoRecord, Nobody
    <3> QED BY <3>1, <3>2, <3>3
  <2> HIDE DEF fields
  <2>3. /\ \A b \in Actors \ {a} : task'[b] = task[b]
        /\ task' = [task EXCEPT ![a] = s]
        /\ s = [f \in FieldNames |-> IF f \in DOMAIN fields THEN fields[f] ELSE t[f]]
        /\ DOMAIN t = FieldNames
    BY <1>1, <2>1, GoneTo
  <2>4. s \in TaskRecords
    BY <1>1, <2>1, <2>2, <2>3, Fields
  <2>5. /\ s.pc = "upsert" /\ s.rec = rec /\ s.asks = new /\ s.then = next /\ s.kind = t.kind
        /\ s.seen = t.seen /\ s.saving = t.saving /\ s.fd = t.fd
    BY <2>1, <2>3 DEF FieldNames
  <2>6. /\ t.kind \in {"login", "env", "signin"} /\ t.seen = 0 /\ ~t.saving /\ t.fd = Nothing
    BY <1>1 DEF Shape, At, SavingPcs
  <2>7. Shape(s)
    <3>1. next # "idle" => ProviderOf(s.kind) = "copilot"
      BY <2>5 DEF ProviderOf
    <3>2. s.pc \notin SavingPcs /\ s.pc \notin CopilotPcs
      BY <2>5 DEF SavingPcs, CopilotPcs
    <3> QED BY <2>2, <2>5, <2>6, <3>1, <3>2 DEF Shape, SavingPcs
  <2>8. ~Chat(a)' /\ ~Refreshed(a)' /\ Hand(a)' = rec
    BY <2>5, <2>6 DEF Chat, Refreshed, Hand
  <2>9. TypeInv'
    <3>1. grants' \in 0..MaxGrants
      BY <1>3, <1>6
    <3>2. task' \in [Actors -> TaskRecords]
      BY <1>1, <2>3, <2>4 DEF TypeInv
    <3> QED BY <1>1, <3>1, <3>2 DEF TypeInv
  <2>10. StoreInv'
    <3>1. \A p \in Providers : WellFormed(Loaded[p])'
      <4> SUFFICES ASSUME NEW p \in Providers
                   PROVE  WellFormed(Loaded[p])'
        OBVIOUS
      <4>1. WellFormed(Loaded[p])
        BY <1>1 DEF StoreInv
      <4> QED BY <1>2, <1>3, <1>6, <4>1 DEF WellFormed
    <3>2. \A g \in 1..MaxGrants : g > grants' => live'[g] = 0
      BY <1>1, <1>3, <1>6 DEF StoreInv
    <3> QED BY <1>1, <1>2, <3>1, <3>2 DEF StoreInv
  <2>11. \A b \in Actors \ {a} : Hand(b)' = Hand(b) /\ (Refreshed(b)' <=> Refreshed(b))
                                 /\ (Chat(b)' <=> Chat(b)) /\ (HasRecord(b)' <=> HasRecord(b))
    BY <2>3, SameTask
  <2>12. Kept'
    <3> SUFFICES ASSUME ~lost', Loaded'["openai_account"] # NoRecord,
                        \A b \in Actors : Refreshed(b)' => Hand(b)'.grant # Loaded'["openai_account"].grant
                 PROVE  Loaded'["openai_account"].refresh = live'[Loaded'["openai_account"].grant]
      BY DEF Kept
    <3>1. \A b \in Actors : Refreshed(b) => Hand(b).grant # Loaded["openai_account"].grant
      BY <1>2, <1>4, <2>11
    <3> QED BY <1>1, <1>2, <3>1 DEF Kept
  <2>13. ActorInv(a)'
    <3>1. InHand(a)'
      BY <1>6, <2>2, <2>5, <2>8, <1>3 DEF InHand, WellFormed
    <3>2. FileOf(a)'
      BY <2>5, <2>6 DEF FileOf, At
    <3>3. live[new] = 0 /\ Loaded["openai_account"].grant # new
      <4>1. WellFormed(Loaded["openai_account"]) /\ NoRecord.grant = 0
        BY <1>1, <1>3 DEF StoreInv, NoRecord
      <4> QED BY <1>1, <1>3, <2>2, <4>1 DEF StoreInv, WellFormed
    <3>4. Token(a)'
      BY <1>1, <1>2, <2>5, <2>8, <3>3 DEF Token
    <3> QED BY <2>5, <2>6, <2>7, <3>1, <3>2, <3>4 DEF ActorInv
  <2>14. ASSUME NEW b \in Actors \ {a}
         PROVE  Apart(a, b)' /\ Apart(b, a)'
    <3>1. ActorInv(b) /\ (task[b].asks # Nobody => HasRecord(b))
      BY DEF Inv, ActorInv, Shape, HasRecord, SavingPcs
    <3>2. task[b].asks # new
      <4>1. task[b].asks # Nobody => task[b].asks = Hand(b).grant /\ WellFormed(Hand(b))
        BY <3>1 DEF ActorInv, InHand, NoRecord
      <4> QED BY <1>3, <2>2, <4>1 DEF WellFormed, NoRecord
    <3>3. Chat(b) => Hand(b).grant # new
      <4>1. Chat(b) => WellFormed(Hand(b))
        BY <3>1, RefreshedIsChat DEF ActorInv, InHand
      <4> QED BY <1>3, <2>2, <4>1 DEF WellFormed, NoRecord
    <3>4. Apart(a, b)'
      BY <2>3, <2>5, <2>6, <2>8, <2>11, <3>2, <3>3 DEF Apart
    <3>5. Apart(b, a)'
      BY <2>3, <2>5, <2>6, <2>8, <2>11, <3>2 DEF Apart
    <3> QED BY <3>4, <3>5
  <2>15. grants' \in Nat /\ grants' >= grants
    BY <1>3, <1>6
  <2> QED BY <1>1, <1>2, <2>3, <2>9, <2>10, <2>12, <2>13, <2>14, <2>15, OneActs
<1> QED BY <1>5, <1>6 DEF Authorise

LEMMA CredentialsStep ==
    ASSUME Inv, NEW a \in Actors, Credentials(a), UNCHANGED <<current, raced, overlap, lost>>
    PROVE  Inv'
<1>1. /\ TypeInv /\ StoreInv /\ Kept /\ Shape(task[a]) /\ task[a] \in TaskRecords
      /\ UNCHANGED <<path, tmp, disk, live, grants, current, raced, overlap, lost>>
      /\ At(a, "credentials")
  BY DEF Inv, ActorInv, TypeInv, Credentials, fileVars
<1>2. Loaded' = Loaded /\ (Readable' <=> Readable)
  BY <1>1 DEF Loaded, Readable
<1>3. /\ grants \in Nat /\ "copilot" \in Providers /\ "openai_account" \in Providers
  BY <1>1, StoreAssumption, CredentialsAssumption DEF TypeInv
<1>4. ~Refreshed(a)
  BY <1>1 DEF At, Refreshed
<1>5. CASE Stop(a)
  <2>1. UNCHANGED Outside /\ overlap' \in BOOLEAN /\ lost' \in BOOLEAN /\ (lost => lost')
    BY <1>1, <1>5 DEF Outside, TypeInv
  <2> QED BY <1>4, <1>5, <2>1, StopStep
<1>6. ASSUME Loaded["openai_account"] # NoRecord,
             Goto(a, [pc |-> "refresh", rec |-> Loaded["openai_account"]])
      PROVE  Inv'
  <2> DEFINE rec == Loaded["openai_account"]
             fields == [pc |-> "refresh", rec |-> rec]
             t == task[a]
             s == task'[a]
  <2>1. /\ DOMAIN fields = {"pc", "rec"} /\ fields.pc = "refresh" /\ fields.rec = rec
        /\ Goto(a, fields) /\ rec # NoRecord
    BY <1>6
  <2>2. rec \in Record
    BY <1>1, <1>3, RecordTypes DEF TypeInv, Loaded, Files
  <2>3. rec.grant \in 1..grants /\ (raced["openai_account"] \/ rec.grant = current["openai_account"])
        /\ rec.refresh <= live[rec.grant]
    BY <1>1, <1>3, <2>1 DEF StoreInv, WellFormed
  <2>4. "refresh" \in Pcs
    BY DEF Pcs
  <2> HIDE DEF fields, rec
  <2>5. /\ \A b \in Actors \ {a} : task'[b] = task[b]
        /\ task' = [task EXCEPT ![a] = s]
        /\ s = [f \in FieldNames |-> IF f \in DOMAIN fields THEN fields[f] ELSE t[f]]
        /\ DOMAIN t = FieldNames
    BY <1>1, <2>1, GoneTo
  <2>6. s \in TaskRecords
    BY <1>1, <2>1, <2>2, <2>4, <2>5, Fields
  <2>7. /\ s.pc = "refresh" /\ s.rec = rec /\ s.asks = t.asks /\ s.then = t.then /\ s.kind = t.kind
        /\ s.seen = t.seen /\ s.saving = t.saving /\ s.fd = t.fd
    BY <2>1, <2>5 DEF FieldNames
  <2>8. /\ t.kind = "chat" /\ t.asks = Nobody /\ ~t.saving /\ t.fd = Nothing /\ t.then = "idle"
    BY <1>1 DEF Shape, At, SavingPcs, ProviderOf
  <2>9. Shape(s)
    BY <2>1, <2>7, <2>8 DEF Shape, SavingPcs, CopilotPcs
  <2>10. Chat(a)' /\ ~Refreshed(a)' /\ Hand(a)' = rec /\ ProviderOfTask(a)' = "openai_account"
    BY <2>7, <2>8 DEF Chat, Refreshed, Hand, HasRecord, ProviderOfTask, ProviderOf
  <2>11. TypeInv'
    BY <1>1, <2>5, <2>6 DEF TypeInv
  <2>12. StoreInv'
    BY <1>1, <1>2 DEF StoreInv, WellFormed
  <2>13. \A b \in Actors \ {a} : /\ Hand(b)' = Hand(b) /\ (Refreshed(b)' <=> Refreshed(b))
                                 /\ ProviderOfTask(b)' = ProviderOfTask(b) /\ (Chat(b)' <=> Chat(b))
    BY <2>5, SameTask
  <2>14. Kept'
    <3> SUFFICES ASSUME ~lost', Loaded'["openai_account"] # NoRecord,
                        \A b \in Actors : Refreshed(b)' => Hand(b)'.grant # Loaded'["openai_account"].grant
                 PROVE  Loaded'["openai_account"].refresh = live'[Loaded'["openai_account"].grant]
      BY DEF Kept
    <3>1. \A b \in Actors : Refreshed(b) => Hand(b).grant # Loaded["openai_account"].grant
      BY <1>2, <1>4, <2>13
    <3> QED BY <1>1, <1>2, <3>1 DEF Kept
  <2>15. ActorInv(a)'
    <3>1. InHand(a)'
      BY <1>1, <2>1, <2>3, <2>7, <2>8, <2>10 DEF InHand, WellFormed
    <3>2. FileOf(a)'
      BY <2>7, <2>8 DEF FileOf, At
    <3>3. Token(a)'
      BY <1>1, <2>3, <2>7, <2>8, <2>10 DEF Token, Nobody
    <3> QED BY <2>9, <2>10, <3>1, <3>2, <3>3 DEF ActorInv
  <2>16. ASSUME NEW b \in Actors \ {a}
         PROVE  Apart(a, b)' /\ Apart(b, a)'
    <3>1. Token(b) /\ task'[b] = task[b]
      BY <2>5 DEF Inv, ActorInv
    <3>2. /\ Refreshed(b) /\ Hand(b).grant = rec.grant => rec.refresh < live[rec.grant]
          /\ ProviderOfTask(b) = "openai_account" /\ task[b].asks > 0 => rec.grant # task[b].asks
      BY <3>1 DEF Token, rec
    <3>3. Apart(a, b)'
      BY <2>7, <2>8, <2>10 DEF Apart, Nobody
    <3>4. Apart(b, a)'
      BY <1>1, <2>7, <2>8, <2>10, <2>13, <3>1, <3>2 DEF Apart, Nobody
    <3> QED BY <3>3, <3>4
  <2>17. grants' \in Nat /\ grants' >= grants
    BY <1>1, <1>3
  <2> QED BY <1>1, <1>2, <2>5, <2>11, <2>12, <2>14, <2>15, <2>16, <2>17, OneActs
<1> QED BY <1>5, <1>6 DEF Credentials

\* The server takes the refresh token that a has read.
Spends(a) ==
    /\ At(a, "refresh")
    /\ task[a].rec.refresh = live[task[a].rec.grant]
    /\ live' = [live EXCEPT ![task[a].rec.grant] = @ + 1]
    /\ UNCHANGED <<path, tmp, disk, grants, current, raced, overlap>>

LEMMA AboutToRefresh ==
    ASSUME Inv, NEW a \in Actors, At(a, "refresh")
    PROVE  /\ TypeInv /\ StoreInv /\ Kept /\ Shape(task[a]) /\ task[a] \in TaskRecords
           /\ task[a].kind = "chat" /\ task[a].asks = Nobody /\ ~task[a].saving
           /\ task[a].fd = Nothing /\ task[a].then = "idle"
           /\ Hand(a) = task[a].rec /\ Chat(a) /\ ~Refreshed(a) /\ ProviderOfTask(a) = "openai_account"
           /\ task[a].rec \in Record /\ task[a].rec # NoRecord /\ task[a].rec.grant \in 1..grants
           /\ raced["openai_account"] \/ task[a].rec.grant = current["openai_account"]
           /\ grants \in 0..MaxGrants /\ MaxGrants \in Nat /\ live \in [1..MaxGrants -> Nat]
           /\ "openai_account" \in Providers
<1>1. /\ TypeInv /\ StoreInv /\ Kept /\ Shape(task[a]) /\ task[a] \in TaskRecords /\ ActorInv(a)
  BY DEF Inv, ActorInv, TypeInv
<1>2. task[a].kind = "chat" /\ task[a].asks = Nobody /\ ~task[a].saving
      /\ task[a].fd = Nothing /\ task[a].rec # NoRecord
  BY <1>1 DEF Shape, At, SavingPcs
<1>3. task[a].then = "idle"
  BY <1>1, <1>2 DEF Shape, ProviderOf
<1>4. Hand(a) = task[a].rec /\ Chat(a) /\ ~Refreshed(a) /\ ProviderOfTask(a) = "openai_account"
  BY <1>2 DEF Hand, Chat, HasRecord, Refreshed, ProviderOfTask, ProviderOf, At
<1>5. task[a].rec \in Record
  BY <1>1, TaskFields
<1>6. HasRecord(a)
  BY DEF At, HasRecord
<1>7. task[a].rec.grant \in 1..grants
      /\ (raced["openai_account"] \/ task[a].rec.grant = current["openai_account"])
  BY <1>1, <1>2, <1>4, <1>6 DEF ActorInv, InHand, WellFormed
<1>8. grants \in 0..MaxGrants /\ MaxGrants \in Nat /\ live \in [1..MaxGrants -> Nat]
      /\ "openai_account" \in Providers
  BY <1>1, StoreAssumption, CredentialsAssumption DEF TypeInv
<1> QED BY <1>1, <1>2, <1>3, <1>4, <1>5, <1>7, <1>8

LEMMA SpentElsewhere ==
    ASSUME Inv, NEW a \in Actors, Spends(a), \A b \in Actors \ {a} : task'[b] = task[b]
    PROVE  /\ Loaded' = Loaded /\ (Readable' <=> Readable) /\ StoreInv'
           /\ live' \in [1..MaxGrants -> Nat]
           /\ live'[task[a].rec.grant] = live[task[a].rec.grant] + 1
           /\ \A g \in 1..MaxGrants : g # task[a].rec.grant => live'[g] = live[g]
           /\ \A b \in Actors \ {a} : ActorInv(b)'
           /\ \A b, c \in Actors \ {a} : b # c => Apart(b, c)'
           /\ \A b \in Actors \ {a} :
                 /\ Hand(b)' = Hand(b) /\ (Refreshed(b)' <=> Refreshed(b)) /\ (Chat(b)' <=> Chat(b))
                 /\ ProviderOfTask(b)' = ProviderOfTask(b)
                 /\ Chat(b) /\ Hand(b).grant = task[a].rec.grant =>
                       ~Refreshed(b) /\ Hand(b).refresh < live'[task[a].rec.grant]
                 /\ ProviderOfTask(b) = "openai_account" /\ task[b].asks > 0 =>
                       task[b].asks # task[a].rec.grant
<1> DEFINE rec == task[a].rec
           g == rec.grant
<1>1. /\ TypeInv /\ StoreInv /\ Hand(a) = rec /\ Chat(a) /\ rec \in Record /\ g \in 1..grants
      /\ grants \in 0..MaxGrants /\ MaxGrants \in Nat /\ live \in [1..MaxGrants -> Nat]
      /\ "openai_account" \in Providers
  BY AboutToRefresh DEF Spends
<1>2. UNCHANGED <<path, tmp, disk, grants, current, raced>> /\ rec.refresh = live[g]
      /\ live' = [live EXCEPT ![g] = @ + 1]
  BY DEF Spends
<1>3. Loaded' = Loaded /\ (Readable' <=> Readable)
  BY <1>2 DEF Loaded, Readable
<1>4. /\ g \in 1..MaxGrants /\ live' \in [1..MaxGrants -> Nat] /\ live'[g] = live[g] + 1
      /\ \A h \in 1..MaxGrants : h # g => live'[h] = live[h]
      /\ live[g] \in Nat
  BY <1>1, <1>2
<1>5. StoreInv'
  <2>1. \A h \in 1..MaxGrants : h > grants' => live'[h] = 0
    BY <1>1, <1>2, <1>4 DEF StoreInv
  <2>2. Loaded["openai_account"] # NoRecord =>
           Loaded["openai_account"].refresh <= live'[Loaded["openai_account"].grant]
    <3>1. Loaded["openai_account"] \in Record
      BY <1>1, RecordTypes DEF TypeInv, Loaded, Files
    <3>2. Loaded["openai_account"] # NoRecord =>
             /\ Loaded["openai_account"].grant \in 1..MaxGrants
             /\ Loaded["openai_account"].refresh <= live[Loaded["openai_account"].grant]
      BY <1>1 DEF StoreInv, WellFormed
    <3> QED BY <1>4, <3>1, <3>2 DEF Record
  <2> QED BY <1>1, <1>2, <1>3, <2>1, <2>2 DEF StoreInv, WellFormed
<1>6. ASSUME NEW b \in Actors \ {a}
      PROVE  /\ Hand(b)' = Hand(b) /\ (Refreshed(b)' <=> Refreshed(b)) /\ (Chat(b)' <=> Chat(b))
             /\ ProviderOfTask(b)' = ProviderOfTask(b) /\ (HasRecord(b)' <=> HasRecord(b))
             /\ \A pc : At(b, pc)' <=> At(b, pc)
             /\ Chat(b) /\ Hand(b).grant = g => ~Refreshed(b) /\ Hand(b).refresh < live'[g]
             /\ ProviderOfTask(b) = "openai_account" /\ task[b].asks > 0 => task[b].asks # g
             /\ Chat(b) => Hand(b).grant \in 1..MaxGrants /\ Hand(b).refresh \in Nat
             /\ task[b].asks > 0 => task[b].asks \in 1..MaxGrants
             /\ ActorInv(b) /\ Token(b) /\ task'[b] = task[b]
  <2>1. /\ Hand(b)' = Hand(b) /\ (Refreshed(b)' <=> Refreshed(b)) /\ (Chat(b)' <=> Chat(b))
        /\ ProviderOfTask(b)' = ProviderOfTask(b) /\ (HasRecord(b)' <=> HasRecord(b))
        /\ \A pc : At(b, pc)' <=> At(b, pc)
    BY SameTask
  <2>2. Apart(a, b) /\ Apart(b, a) /\ Token(b) /\ ActorInv(b) /\ task[b] \in TaskRecords
    BY DEF Inv, ActorInv, TypeInv
  <2>3. Chat(b) => Hand(b) \in Record /\ Hand(b).grant \in 1..MaxGrants
    <3>1. Chat(b) => Hand(b) = task[b].rec \/ Hand(b) = task[b].out["openai_account"]
      BY RefreshedIsChat DEF Hand
    <3>2. Hand(b) = task[b].rec \/ Hand(b) = task[b].out["openai_account"] => Hand(b) \in Record
      BY <1>1, <2>2, TaskFields
    <3>3. Chat(b) => WellFormed(Hand(b)) /\ task[b].asks = Nobody /\ Hand(b) # NoRecord
      BY <2>2, RefreshedIsChat DEF ActorInv, InHand, Shape, Chat
    <3> QED BY <1>1, <3>1, <3>2, <3>3 DEF WellFormed
  <2>4. task[b].asks > 0 => task[b].asks \in 1..MaxGrants
    BY <1>1, <2>2, TaskFields DEF Nobody
  <2>5. Chat(b) /\ Hand(b).grant = g => ~Refreshed(b)
    <3>1. Refreshed(b) /\ Hand(b).grant = g => rec.refresh < live[g]
      BY <1>1, <2>2 DEF Apart
    <3> QED BY <1>2, <1>4, <3>1
  <2>6. Chat(b) /\ Hand(b).grant = g => Hand(b).refresh < live'[g]
    <3>1. Chat(b) /\ Hand(b).grant = g => Hand(b).refresh <= live[g] /\ Hand(b).refresh \in Nat
      BY <2>2, <2>3, <2>5 DEF Token, Record
    <3> QED BY <1>4, <3>1
  <2>7. ProviderOfTask(b) = "openai_account" /\ task[b].asks > 0 => task[b].asks # g
    BY <1>1, <2>2 DEF Apart
  <2> QED BY <2>1, <2>2, <2>3, <2>4, <2>5, <2>6, <2>7 DEF Record
<1>7. ASSUME NEW b \in Actors \ {a}
      PROVE  ActorInv(b)'
  <2>1. WellFormed(Hand(b)) => WellFormed(Hand(b))'
    BY <1>2, <1>6 DEF WellFormed
  <2>2. HasRecord(b)' => InHand(b)'
    BY <1>2, <1>6, <2>1 DEF ActorInv, InHand
  <2>3. FileOf(b)'
    BY <1>2, <1>3, <1>6 DEF ActorInv, FileOf
  <2>4. Chat(b) => IF Refreshed(b) THEN Hand(b).refresh = live'[Hand(b).grant]
                                   ELSE Hand(b).refresh <= live'[Hand(b).grant]
    <3>1. CASE Hand(b).grant # g
      BY <1>4, <1>6, <3>1 DEF Token
    <3>2. CASE Hand(b).grant = g
      BY <1>4, <1>6, <3>2
    <3> QED BY <3>1, <3>2
  <2>5. Refreshed(b) /\ Loaded["openai_account"].grant = Hand(b).grant =>
           Loaded["openai_account"].refresh < live'[Hand(b).grant]
    BY <1>4, <1>6, RefreshedIsChat DEF Token
  <2>6. ProviderOfTask(b) = "openai_account" /\ task[b].asks > 0 =>
           live'[task[b].asks] = 0 /\ Loaded["openai_account"].grant # task[b].asks
    BY <1>4, <1>6 DEF Token
  <2>7. Token(b)'
    BY <1>3, <1>6, <2>4, <2>5, <2>6 DEF Token
  <2> QED BY <1>2, <1>6, <2>2, <2>3, <2>7 DEF ActorInv
<1>8. ASSUME NEW b \in Actors \ {a}, NEW c \in Actors \ {a}, b # c
      PROVE  Apart(b, c)'
  <2>1. Apart(b, c)
    <3>1. b \in Actors /\ c \in Actors /\ (\A d, e \in Actors : d # e => Apart(d, e))
      BY DEF Inv
    <3> QED BY ONLY <3>1, b # c
  <2>2. Chat(c) /\ Refreshed(b) /\ Hand(b).grant = Hand(c).grant =>
           ~Refreshed(c) /\ Hand(c).refresh < live'[Hand(c).grant]
    BY <1>4, <1>6, <2>1, RefreshedIsChat DEF Apart
  <2> QED BY <1>6, <2>1, <2>2 DEF Apart
<1> QED BY <1>3, <1>4, <1>5, <1>6, <1>7, <1>8

LEMMA RefreshStep ==
    ASSUME Inv, NEW a \in Actors, Refresh(a), UNCHANGED <<current, raced, overlap>>
    PROVE  Inv'
<1> DEFINE rec == task[a].rec
           g == rec.grant
           t == task[a]
           s == task'[a]
<1>1. /\ TypeInv /\ StoreInv /\ Kept /\ Shape(t) /\ t \in TaskRecords
      /\ t.kind = "chat" /\ t.asks = Nobody /\ ~t.saving /\ t.fd = Nothing /\ t.then = "idle"
      /\ Hand(a) = rec /\ Chat(a) /\ ~Refreshed(a) /\ ProviderOfTask(a) = "openai_account"
      /\ rec \in Record /\ rec # NoRecord /\ g \in 1..grants
      /\ raced["openai_account"] \/ g = current["openai_account"]
      /\ grants \in 0..MaxGrants /\ MaxGrants \in Nat /\ live \in [1..MaxGrants -> Nat]
      /\ "openai_account" \in Providers
  BY AboutToRefresh DEF Refresh
<1>2. UNCHANGED <<path, tmp, disk, grants, current, raced, overlap>> /\ At(a, "refresh")
  BY DEF Refresh, fileVars
<1>3. CASE Stop(a) /\ UNCHANGED <<live, left, lost>>
  <2>1. UNCHANGED Outside /\ overlap' \in BOOLEAN /\ lost' \in BOOLEAN /\ (lost => lost')
    BY <1>1, <1>2, <1>3 DEF Outside, TypeInv
  <2> QED BY <1>1, <1>3, <2>1, StopStep
<1>4. ASSUME rec.refresh = live[g], live' = [live EXCEPT ![g] = @ + 1], lost' = TRUE, Stop(a)
      PROVE  Inv'
  <2>1. Spends(a)
    BY <1>2, <1>4 DEF Spends
  <2>2. /\ \A b \in Actors \ {a} : task'[b] = task[b]
        /\ task' = [task EXCEPT ![a] = s]
        /\ s = Idle
    BY <1>1, <1>4, Stopped
  <2>3. /\ StoreInv' /\ live' \in [1..MaxGrants -> Nat]
        /\ \A b \in Actors \ {a} : ActorInv(b)'
        /\ \A b, c \in Actors \ {a} : b # c => Apart(b, c)'
    BY <2>1, <2>2, SpentElsewhere
  <2>4. TypeInv'
    <3>1. task' \in [Actors -> TaskRecords]
      BY <1>1, <2>2, RecordTypes DEF TypeInv
    <3> QED BY <1>1, <1>2, <1>4, <2>3, <3>1 DEF TypeInv
  <2>5. Kept'
    BY <1>4 DEF Kept
  <2>6. ~Chat(a)' /\ ~HasRecord(a)' /\ ~Refreshed(a)' /\ ~At(a, "write")' /\ ~At(a, "rename")'
    BY <2>2, IdleShape DEF Chat, HasRecord, Refreshed, SavingPcs, At
  <2>7. ActorInv(a)'
    <3>1. FileOf(a)'
      BY <2>2, <2>6, IdleShape DEF FileOf
    <3>2. Token(a)'
      BY <2>2, <2>6, IdleShape DEF Token, Nobody
    <3> QED BY <2>2, <2>6, <3>1, <3>2, IdleShape DEF ActorInv
  <2>8. \A b \in Actors \ {a} : Apart(a, b)' /\ Apart(b, a)'
    BY <2>2, <2>6, IdleShape DEF Apart, Nobody
  <2> QED BY <2>3, <2>4, <2>5, <2>7, <2>8 DEF Inv
<1>5. ASSUME rec.refresh = live[g], live' = [live EXCEPT ![g] = @ + 1], lost' = lost,
             Goto(a, [pc |-> "upsert", rec |-> [rec EXCEPT !.refresh = @ + 1], then |-> "idle"])
      PROVE  Inv'
  <2> DEFINE new == [rec EXCEPT !.refresh = @ + 1]
             fields == [pc |-> "upsert", rec |-> new, then |-> "idle"]
  <2>1. /\ DOMAIN fields = {"pc", "rec", "then"} /\ fields.pc = "upsert" /\ fields.rec = new
        /\ fields.then = "idle" /\ Goto(a, fields)
    BY <1>5
  <2>2. /\ new \in Record /\ new.grant = g /\ new.refresh = rec.refresh + 1 /\ new.session = rec.session
        /\ "upsert" \in Pcs /\ "idle" \in Thens /\ new # NoRecord
    BY <1>1 DEF Record, NoRecord, Pcs, Thens
  <2> HIDE DEF fields, new
  <2>3. /\ \A b \in Actors \ {a} : task'[b] = task[b]
        /\ task' = [task EXCEPT ![a] = s]
        /\ s = [f \in FieldNames |-> IF f \in DOMAIN fields THEN fields[f] ELSE t[f]]
        /\ DOMAIN t = FieldNames
    BY <1>1, <2>1, GoneTo
  <2>4. s \in TaskRecords
    <3>1. /\ t \in TaskRecords
          /\ s = [f \in DOMAIN t |-> IF f \in DOMAIN fields THEN fields[f] ELSE t[f]]
      BY <1>1, <2>3
    <3> HIDE DEF s, t
    <3> QED BY ONLY <3>1, <2>1, <2>2, Fields
  <2>5. /\ s.pc = "upsert" /\ s.rec = new /\ s.asks = t.asks /\ s.then = "idle" /\ s.kind = t.kind
        /\ s.seen = t.seen /\ s.saving = t.saving /\ s.fd = t.fd
    BY <2>1, <2>3 DEF FieldNames
  <2>6. Spends(a)
    BY <1>2, <1>5 DEF Spends
  <2>7. /\ Loaded' = Loaded /\ StoreInv' /\ live' \in [1..MaxGrants -> Nat]
        /\ live'[g] = live[g] + 1
        /\ \A h \in 1..MaxGrants : h # g => live'[h] = live[h]
        /\ \A b \in Actors \ {a} : ActorInv(b)'
        /\ \A b, c \in Actors \ {a} : b # c => Apart(b, c)'
        /\ \A b \in Actors \ {a} :
              /\ Hand(b)' = Hand(b) /\ (Refreshed(b)' <=> Refreshed(b)) /\ (Chat(b)' <=> Chat(b))
              /\ ProviderOfTask(b)' = ProviderOfTask(b)
              /\ Chat(b) /\ Hand(b).grant = g => ~Refreshed(b) /\ Hand(b).refresh < live'[g]
              /\ ProviderOfTask(b) = "openai_account" /\ task[b].asks > 0 => task[b].asks # g
    BY <2>3, <2>6, SpentElsewhere
  <2>8. Shape(s)
    BY <1>1, <2>2, <2>5 DEF Shape, SavingPcs, CopilotPcs
  <2>9. Chat(a)' /\ Refreshed(a)' /\ Hand(a)' = new /\ ProviderOfTask(a)' = "openai_account"
    BY <1>1, <2>5 DEF Chat, Refreshed, Hand, HasRecord, ProviderOfTask, ProviderOf
  <2>10. TypeInv'
    <3>1. task' \in [Actors -> TaskRecords]
      BY <1>1, <2>3, <2>4 DEF TypeInv
    <3> QED BY <1>1, <1>2, <1>5, <2>7, <3>1 DEF TypeInv
  <2>11. /\ Loaded["openai_account"] \in Record
         /\ WellFormed(Loaded["openai_account"]) /\ NoRecord.grant = 0
         /\ Loaded["openai_account"] # NoRecord =>
               Loaded["openai_account"].refresh <= live[Loaded["openai_account"].grant]
    BY <1>1, RecordTypes DEF TypeInv, Loaded, Files, StoreInv, NoRecord
  <2>12. Kept'
    <3> SUFFICES ASSUME ~lost', Loaded'["openai_account"] # NoRecord,
                        \A b \in Actors : Refreshed(b)' => Hand(b)'.grant # Loaded'["openai_account"].grant
                 PROVE  Loaded'["openai_account"].refresh = live'[Loaded'["openai_account"].grant]
      BY DEF Kept
    <3>1. \A b \in Actors : Refreshed(b) => Hand(b).grant # Loaded["openai_account"].grant
      BY <1>1, <2>7
    <3>2. Loaded["openai_account"].refresh = live[Loaded["openai_account"].grant]
      BY <1>5, <2>7, <3>1, <1>1 DEF Kept
    <3>3. Loaded["openai_account"].grant # g
      BY <2>2, <2>7, <2>9
    <3>4. Loaded["openai_account"].grant \in 1..MaxGrants
      BY <1>1, <2>7, <2>11 DEF WellFormed
    <3> QED BY <2>7, <3>2, <3>3, <3>4
  <2>13. ActorInv(a)'
    <3>1. InHand(a)'
      BY <1>1, <1>2, <2>2, <2>5, <2>9 DEF InHand, WellFormed
    <3>2. FileOf(a)'
      BY <1>1, <2>5 DEF FileOf, At
    <3>3. Token(a)'
      <4>1. new.refresh = live'[g]
        BY <1>5, <2>2, <2>7
      <4>2. Loaded["openai_account"].grant = g => Loaded["openai_account"].refresh < live'[g]
        <5>1. live[g] \in Nat /\ g # 0
          BY <1>1
        <5>2. Loaded["openai_account"].refresh \in Nat
          BY <2>11 DEF Record
        <5>3. Loaded["openai_account"].grant = g => Loaded["openai_account"].refresh <= live[g]
          BY <2>11, <5>1
        <5> QED BY <2>7, <5>1, <5>2, <5>3
      <4> QED BY <1>1, <2>2, <2>5, <2>7, <2>9, <4>1, <4>2 DEF Token, Nobody
    <3> QED BY <2>5, <2>8, <2>9, <3>1, <3>2, <3>3 DEF ActorInv
  <2>14. ASSUME NEW b \in Actors \ {a}
         PROVE  Apart(a, b)' /\ Apart(b, a)'
    <3>1. Apart(a, b)'
      <4>1. ~s.saving /\ s.asks = Nobody
        BY <1>1, <2>5
      <4>2. Chat(b)' /\ Hand(a)'.grant = Hand(b)'.grant =>
               ~Refreshed(b)' /\ Hand(b)'.refresh < live'[Hand(b)'.grant]
        BY <2>2, <2>7, <2>9
      <4> QED BY <4>1, <4>2 DEF Apart, Nobody
    <3>2. Apart(b, a)'
      <4>1. task'[b] = task[b] /\ Apart(b, a)
        BY <2>3 DEF Inv
      <4>2. Refreshed(b) => Hand(b).grant # g
        BY <2>7, RefreshedIsChat
      <4> QED BY <1>1, <2>2, <2>5, <2>7, <2>9, <4>1, <4>2 DEF Apart, Nobody
    <3> QED BY <3>1, <3>2
  <2> QED BY <2>7, <2>10, <2>12, <2>13, <2>14 DEF Inv
<1> QED BY <1>3, <1>4, <1>5 DEF Refresh

-----------------------------------------------------------------------------
(* Saving.                                                                 *)

LEMMA OneSaver ==
    ASSUME NEW a \in Actors, NoteSave(a), overlap \in BOOLEAN, ~overlap',
           NEW b \in Actors, NEW c \in Actors, task'[b].saving, task'[c].saving
    PROVE  b = c
<1> DEFINE Savers == {d \in Actors : task'[d].saving}
<1>1. ~(Cardinality(Savers) > 1)
  BY DEF NoteSave
<1>2. IsFiniteSet(Savers)
  BY StoreAssumption, FS_Subset, Savers \subseteq Actors
<1>3. SUFFICES ASSUME b # c PROVE FALSE
  OBVIOUS
<1>4. {b, c} \subseteq Savers
  OBVIOUS
<1> HIDE DEF Savers
<1>5. IsFiniteSet({b}) /\ Cardinality({b}) = 1
  BY FS_Singleton
<1>6. Cardinality({b} \union {c}) = 2
  <2>1. c \notin {b}
    BY <1>3
  <2> HIDE DEF Savers
  <2>2. Cardinality({b} \union {c}) = Cardinality({b}) + 1
    BY <1>5, <2>1, FS_AddElement
  <2> QED BY <1>5, <2>2
<1>7. {b} \union {c} = {b, c}
  OBVIOUS
<1>8. Cardinality({b, c}) <= Cardinality(Savers)
  BY <1>2, <1>4, FS_Subset
<1>9. Cardinality(Savers) \in Nat
  BY <1>2, FS_CardinalityType
<1> QED BY <1>1, <1>6, <1>7, <1>8, <1>9

\* The record in hand stays the same while the store is not touched.
LEMMA SaveGoesOn ==
    ASSUME Inv, NEW a \in Actors, \A b \in Actors \ {a} : task'[b] = task[b],
           task' = [task EXCEPT ![a] = task'[a]], task'[a] \in TaskRecords, Shape(task'[a]),
           Loaded' = Loaded, Readable', UNCHANGED <<path, live, grants, current, raced, lost>>,
           overlap' \in BOOLEAN, tmp' \in Inodes \union {Nothing}, disk' \in [Inodes -> Files],
           tmp' # Nothing => tmp' # path,
           \A b \in Actors \ {a} : ~task[b].saving,
           Hand(a)' = Hand(a), task'[a].kind = task[a].kind, task'[a].asks = task[a].asks,
           task'[a].seen = task[a].seen, HasRecord(a), HasRecord(a)', Refreshed(a)' <=> Refreshed(a),
           FileOf(a)'
    PROVE  Inv'
<1>1. TypeInv /\ StoreInv /\ Kept /\ ActorInv(a)
  BY DEF Inv
<1>2. grants \in Nat /\ grants' \in Nat /\ grants' >= grants
  BY <1>1, StoreAssumption DEF TypeInv
<1>3. TypeInv'
  BY <1>1 DEF TypeInv
<1>4. StoreInv'
  BY <1>1 DEF StoreInv, WellFormed
<1>5. (Chat(a)' <=> Chat(a)) /\ ProviderOfTask(a)' = ProviderOfTask(a)
  BY DEF Chat, ProviderOfTask
<1>6. \A b \in Actors \ {a} : /\ Hand(b)' = Hand(b) /\ (Refreshed(b)' <=> Refreshed(b))
                              /\ (Chat(b)' <=> Chat(b)) /\ ProviderOfTask(b)' = ProviderOfTask(b)
  BY SameTask
<1>7. Kept'
  <2> SUFFICES ASSUME ~lost', Loaded'["openai_account"] # NoRecord,
                      \A b \in Actors : Refreshed(b)' => Hand(b)'.grant # Loaded'["openai_account"].grant
               PROVE  Loaded'["openai_account"].refresh = live'[Loaded'["openai_account"].grant]
    BY DEF Kept
  <2>1. \A b \in Actors : Refreshed(b) => Hand(b).grant # Loaded["openai_account"].grant
    BY <1>6
  <2> QED BY <1>1, <2>1 DEF Kept
<1>8. ActorInv(a)'
  <2>1. InHand(a)'
    BY <1>1, <1>5 DEF ActorInv, InHand, WellFormed
  <2>2. Token(a)'
    BY <1>1, <1>5 DEF ActorInv, Token
  <2> QED BY <1>1, <1>5, <2>1, <2>2 DEF ActorInv
<1>9. ASSUME NEW b \in Actors \ {a}
      PROVE  Apart(a, b)' /\ Apart(b, a)'
  <2>1. Apart(a, b) /\ Apart(b, a) /\ task'[b] = task[b]
    BY DEF Inv
  <2>2. Apart(a, b)'
    BY <1>5, <1>6, <2>1 DEF Apart
  <2>3. Apart(b, a)'
    BY <1>5, <1>6, <2>1 DEF Apart
  <2> QED BY <2>2, <2>3
<1> QED BY <1>2, <1>3, <1>4, <1>7, <1>8, <1>9, OneActs

LEMMA UpsertStep ==
    ASSUME Inv, NEW a \in Actors, Upsert(a, ProviderOfTask(a)), NoteSave(a), ~overlap',
           UNCHANGED <<live, grants, lost>>
    PROVE  Inv'
<1> DEFINE t == task[a]
           s == task'[a]
           p == ProviderOfTask(a)
           file == [Loaded EXCEPT ![p] = t.rec]
           fields == [pc |-> "open", saving |-> TRUE, out |-> file, rec |-> NoRecord]
<1>1. /\ TypeInv /\ StoreInv /\ Shape(t) /\ t \in TaskRecords /\ At(a, "upsert")
      /\ UNCHANGED <<path, tmp, disk, live, grants, lost>> /\ Readable
  BY DEF Inv, ActorInv, TypeInv, StoreInv, Upsert
<1>2. UNCHANGED <<current, raced>>
  BY <1>1 DEF NoteSave, At
<1>3. /\ DOMAIN fields = {"pc", "saving", "out", "rec"} /\ fields.pc = "open" /\ fields.saving = TRUE
      /\ fields.out = file /\ fields.rec = NoRecord /\ Goto(a, fields)
  BY <1>1 DEF Upsert
<1>4. p \in Providers /\ Loaded \in [Providers -> Record] /\ t.rec \in Record /\ DOMAIN t = FieldNames
  BY <1>1, CredentialsAssumption, RecordTypes, TaskFields
     DEF ProviderOfTask, ProviderOf, TypeInv, Loaded, Files
<1>5. /\ file \in [Providers -> Record] /\ file[p] = t.rec
      /\ \A q \in Providers \ {p} : file[q] = Loaded[q]
      /\ "open" \in Pcs
  BY <1>4 DEF Pcs, SavingPcs
<1> HIDE DEF fields, file
<1>6. /\ \A b \in Actors \ {a} : task'[b] = task[b]
      /\ task' = [task EXCEPT ![a] = s]
      /\ s = [f \in DOMAIN t |-> IF f \in DOMAIN fields THEN fields[f] ELSE t[f]]
  BY <1>1, <1>3, <1>4, GoneTo
<1>7. s \in TaskRecords
  <2>1. NoRecord \in Record /\ TRUE \in BOOLEAN
    BY RecordTypes
  <2> HIDE DEF s, t
  <2> QED BY ONLY <1>1, <1>3, <1>5, <1>6, <2>1, Fields, ZenonT(60)
<1>8. /\ s.pc = "open" /\ s.rec = NoRecord /\ s.saving = TRUE /\ s.out = file /\ s.kind = t.kind
      /\ s.asks = t.asks /\ s.seen = t.seen /\ s.then = t.then /\ s.fd = t.fd
  BY <1>3, <1>4, <1>6 DEF FieldNames
<1>9. ~t.saving /\ t.fd = Nothing /\ t.pc = "upsert"
  BY <1>1 DEF Shape, At, SavingPcs
<1>10. Shape(s)
  BY <1>1, <1>8, <1>9 DEF Shape, SavingPcs, CopilotPcs
<1>11. /\ ProviderOfTask(a)' = p /\ Hand(a)' = Hand(a) /\ (Refreshed(a)' <=> Refreshed(a))
       /\ HasRecord(a) /\ HasRecord(a)'
  BY <1>5, <1>8, <1>9 DEF ProviderOfTask, Hand, Refreshed, HasRecord, SavingPcs
<1>12. Loaded' = Loaded /\ Readable'
  BY <1>1 DEF Loaded, Readable
<1>13. FileOf(a)'
  BY <1>5, <1>8, <1>11, <1>12 DEF FileOf, At
<1>14. \A b \in Actors \ {a} : ~task[b].saving
  <2>1. overlap \in BOOLEAN
    BY <1>1 DEF TypeInv
  <2> QED BY <1>6, <1>8, <2>1, OneSaver
<1>15. overlap' \in BOOLEAN
  BY <1>1 DEF TypeInv, NoteSave
<1>16. tmp' \in Inodes \union {Nothing} /\ disk' \in [Inodes -> Files] /\ (tmp' # Nothing => tmp' # path)
  BY <1>1 DEF TypeInv, StoreInv
<1> QED BY <1>1, <1>2, <1>6, <1>7, <1>8, <1>10, <1>11, <1>12, <1>13, <1>14, <1>15, <1>16, SaveGoesOn

LEMMA RemoveStep ==
    ASSUME Inv, NEW a \in Actors, Remove(a, ProviderOfTask(a)), NoteSave(a), ~overlap',
           UNCHANGED <<live, grants, lost>>
    PROVE  Inv'
<1> DEFINE t == task[a]
           s == task'[a]
           p == ProviderOfTask(a)
           file == [Loaded EXCEPT ![p] = NoRecord]
           fields == [pc |-> "open", saving |-> TRUE, asks |-> 0, out |-> file]
<1>1. /\ TypeInv /\ StoreInv /\ Kept /\ Shape(t) /\ t \in TaskRecords /\ At(a, "remove")
      /\ UNCHANGED <<path, tmp, disk, live, grants, lost>> /\ Readable
  BY DEF Inv, ActorInv, TypeInv, StoreInv, Remove
<1>2. UNCHANGED <<current, raced>>
  BY <1>1 DEF NoteSave, At
<1>3. overlap' \in BOOLEAN /\ ~Refreshed(a)
  BY <1>1 DEF TypeInv, NoteSave, Refreshed, At
<1>4. CASE Stop(a)
  <2>1. UNCHANGED Outside /\ lost' \in BOOLEAN /\ (lost => lost')
    BY <1>1, <1>2 DEF Outside, TypeInv
  <2> QED BY <1>3, <1>4, <2>1, StopStep
<1>5. CASE Goto(a, fields)
  <2>1. /\ DOMAIN fields = {"pc", "saving", "out", "asks"} /\ fields.pc = "open" /\ fields.saving = TRUE
        /\ fields.out = file /\ fields.asks = 0
    OBVIOUS
  <2>2. p \in Providers /\ Loaded \in [Providers -> Record] /\ DOMAIN t = FieldNames
    BY <1>1, CredentialsAssumption, RecordTypes, TaskFields
       DEF ProviderOfTask, ProviderOf, TypeInv, Loaded, Files
  <2>3. /\ file \in [Providers -> Record] /\ file[p] = NoRecord
        /\ \A q \in Providers \ {p} : file[q] = Loaded[q]
        /\ "open" \in Pcs /\ 0 \in 0..MaxGrants \union {Nobody} /\ 0 # Nobody
    BY <2>2, RecordTypes DEF Pcs, SavingPcs, Nobody
  <2> HIDE DEF fields, file
  <2>4. /\ \A b \in Actors \ {a} : task'[b] = task[b]
        /\ task' = [task EXCEPT ![a] = s]
        /\ s = [f \in DOMAIN t |-> IF f \in DOMAIN fields THEN fields[f] ELSE t[f]]
    BY <1>1, <1>5, <2>1, <2>2, GoneTo
  <2>5. s \in TaskRecords
    <3>1. /\ DOMAIN fields = {"pc", "saving", "out", "asks"}
          /\ fields.pc \in Pcs /\ fields.saving \in BOOLEAN /\ fields.out \in [Providers -> Record]
          /\ fields.asks \in 0..MaxGrants \union {Nobody}
      BY <2>1, <2>3
    <3>2. /\ t \in TaskRecords
          /\ s = [f \in DOMAIN t |-> IF f \in DOMAIN fields THEN fields[f] ELSE t[f]]
      BY <1>1, <2>4
    <3> HIDE DEF s, t
    <3> QED BY ONLY <3>1, <3>2, Fields
  <2>6. /\ s.pc = "open" /\ s.rec = t.rec /\ s.saving = TRUE /\ s.out = file /\ s.kind = t.kind
        /\ s.asks = 0 /\ s.seen = t.seen /\ s.then = t.then /\ s.fd = t.fd
    BY <2>1, <2>2, <2>4 DEF FieldNames
  <2>7. /\ t.fd = Nothing /\ t.rec = NoRecord /\ t.seen = 0 /\ t.kind \in {"logout", "signout"}
    BY <1>1 DEF Shape, At, SavingPcs
  <2>8. Shape(s)
    BY <1>1, <2>3, <2>6, <2>7 DEF Shape, SavingPcs, CopilotPcs
  <2>9. /\ ProviderOfTask(a)' = p /\ Hand(a)' = NoRecord /\ ~Refreshed(a)' /\ ~Chat(a)'
    BY <2>3, <2>6, <2>7 DEF ProviderOfTask, Hand, Refreshed, Chat
  <2>10. Loaded' = Loaded /\ (Readable' <=> Readable)
    BY <1>1 DEF Loaded, Readable
  <2>11. \A b \in Actors \ {a} : ~task[b].saving /\ ~task'[b].saving
    <3>1. overlap \in BOOLEAN
      BY <1>1 DEF TypeInv
    <3> QED BY <2>4, <2>6, <3>1, OneSaver
  <2>12. TypeInv'
    <3>1. task' \in [Actors -> TaskRecords]
      BY <1>1, <2>4, <2>5 DEF TypeInv
    <3> QED BY <1>1, <1>2, <1>3, <3>1 DEF TypeInv
  <2>13. StoreInv'
    BY <1>1, <1>2, <2>10 DEF StoreInv, WellFormed
  <2>14. \A b \in Actors \ {a} : Hand(b)' = Hand(b) /\ (Refreshed(b)' <=> Refreshed(b))
    BY <2>4, SameTask
  <2>15. Kept'
    <3> SUFFICES ASSUME ~lost', Loaded'["openai_account"] # NoRecord,
                        \A b \in Actors : Refreshed(b)' => Hand(b)'.grant # Loaded'["openai_account"].grant
                 PROVE  Loaded'["openai_account"].refresh = live'[Loaded'["openai_account"].grant]
      BY DEF Kept
    <3>1. \A b \in Actors : Refreshed(b) => Hand(b).grant # Loaded["openai_account"].grant
      BY <1>3, <2>10, <2>14
    <3> QED BY <1>1, <2>10, <3>1 DEF Kept
  <2>16. ActorInv(a)'
    <3>1. InHand(a)'
      BY <2>3, <2>6, <2>9 DEF InHand, WellFormed, NoRecord
    <3>2. FileOf(a)'
      BY <2>3, <2>6, <2>9, <2>10 DEF FileOf, At
    <3>3. Token(a)'
      BY <2>6, <2>9 DEF Token
    <3> QED BY <2>6, <2>7, <2>8, <3>1, <3>2, <3>3 DEF ActorInv
  <2>17. \A b \in Actors \ {a} : Apart(a, b)' /\ Apart(b, a)'
    <3> SUFFICES ASSUME NEW b \in Actors \ {a}
                 PROVE  Apart(a, b)' /\ Apart(b, a)'
      OBVIOUS
    <3>1. task'[b].asks > 0 => task'[b].asks # s.asks
      BY <2>6
    <3>2. Apart(a, b)'
      BY <2>6, <2>9, <2>11 DEF Apart
    <3>3. Apart(b, a)'
      BY <2>9, <2>11, <3>1 DEF Apart
    <3> QED BY <3>2, <3>3
  <2>18. grants \in Nat /\ grants' \in Nat /\ grants' >= grants
    BY <1>1, StoreAssumption DEF TypeInv
  <2> QED BY <1>1, <1>2, <2>4, <2>10, <2>11, <2>12, <2>13, <2>15, <2>16, <2>17, <2>18, OneActs
<1> QED BY <1>4, <1>5 DEF Remove

LEMMA AboutToSave ==
    ASSUME Inv, NEW a \in Actors, task[a].pc \in SavingPcs
    PROVE  /\ TypeInv /\ StoreInv /\ Kept /\ Shape(task[a]) /\ ActorInv(a)
           /\ task[a] \in TaskRecords /\ DOMAIN task[a] = FieldNames
           /\ task[a].saving /\ task[a].rec = NoRecord /\ HasRecord(a) /\ InHand(a)
           /\ task[a].pc # "idle" /\ task[a].pc \notin {"upsert", "refresh"}
           /\ ProviderOfTask(a) \in Providers /\ Hand(a) = task[a].out[ProviderOfTask(a)]
           /\ Refreshed(a) <=> task[a].kind = "chat"
           /\ Chat(a) <=> task[a].kind = "chat"
           /\ \A b \in Actors \ {a} : ~task[b].saving /\ task[b].fd = Nothing
           /\ \A b \in Actors \ {a} : b \in Actors /\ ActorInv(b) /\ Shape(task[b])
<1>1. /\ TypeInv /\ StoreInv /\ Kept /\ Shape(task[a]) /\ ActorInv(a) /\ task[a] \in TaskRecords
  BY DEF Inv, ActorInv, TypeInv
<1>2. /\ task[a].saving /\ task[a].rec = NoRecord /\ HasRecord(a)
      /\ task[a].pc # "idle" /\ task[a].pc \notin {"upsert", "refresh"}
  BY <1>1 DEF Shape, SavingPcs, HasRecord
<1>3. ProviderOfTask(a) \in Providers /\ Hand(a) = task[a].out[ProviderOfTask(a)]
  BY <1>2, CredentialsAssumption DEF Hand, ProviderOfTask, ProviderOf
<1>4. (Refreshed(a) <=> task[a].kind = "chat") /\ (Chat(a) <=> task[a].kind = "chat")
  BY <1>2 DEF Refreshed, Chat, SavingPcs
<1>5. ASSUME NEW b \in Actors \ {a}
      PROVE  ~task[b].saving /\ task[b].fd = Nothing /\ ActorInv(b) /\ Shape(task[b])
  <2>1. Apart(a, b) /\ ActorInv(b)
    BY DEF Inv
  <2>2. ~task[b].saving /\ Shape(task[b])
    BY <1>2, <2>1 DEF Apart, ActorInv
  <2> QED BY <2>1, <2>2 DEF Shape, SavingPcs
<1> QED BY <1>1, <1>2, <1>3, <1>4, <1>5, TaskFields DEF ActorInv

LEMMA InodeIsFree ==
    ASSUME TypeInv, tmp = Nothing, \A b \in Actors : task[b].fd = Nothing
    PROVE  FreeInode \in Inodes /\ FreeInode # path
<1>1. PICK i \in {1, 2} : i # path
  OBVIOUS
<1>2. i \in Inodes /\ i # Nothing
  BY ActorsMany DEF Nothing
<1>3. i \notin {path, tmp} \union {task[b].fd : b \in Actors}
  BY <1>1, <1>2
<1> QED BY <1>2, <1>3 DEF FreeInode

LEMMA OpenStep ==
    ASSUME Inv, NEW a \in Actors, Open(a), NoteSave(a), ~overlap', UNCHANGED <<live, grants, lost>>
    PROVE  Inv'
<1> DEFINE t == task[a]
           s == task'[a]
           inode == IF tmp # Nothing THEN tmp ELSE FreeInode
           fields == [pc |-> "write", fd |-> inode]
<1>1. t.pc = "open" /\ t.pc \in SavingPcs
  BY DEF Open, At, SavingPcs
<1>2. /\ TypeInv /\ StoreInv /\ Kept /\ Shape(t) /\ ActorInv(a)
      /\ t \in TaskRecords /\ DOMAIN t = FieldNames
      /\ t.saving /\ t.rec = NoRecord /\ HasRecord(a)
      /\ \A b \in Actors \ {a} : ~task[b].saving /\ task[b].fd = Nothing
  BY <1>1, AboutToSave
<1>3. t.fd = Nothing
  BY <1>1, <1>2 DEF Shape
<1>4. inode \in Inodes /\ inode # path /\ inode # Nothing
  <2>1. CASE tmp # Nothing
    BY <1>2, <2>1 DEF TypeInv, StoreInv
  <2>2. CASE tmp = Nothing
    <3>1. FreeInode \in Inodes /\ FreeInode # path
      BY <1>2, <1>3, <2>2, InodeIsFree
    <3> QED BY <2>2, <3>1, ActorsMany
  <2> QED BY <2>1, <2>2, ActorsMany
<1>5. /\ DOMAIN fields = {"pc", "fd"} /\ fields.pc = "write" /\ fields.fd = inode /\ Goto(a, fields)
      /\ tmp' = inode /\ disk' = [disk EXCEPT ![inode] = NoFile]
      /\ path' = path
  BY DEF Open
<1> HIDE DEF fields, inode
<1>6. /\ \A b \in Actors \ {a} : task'[b] = task[b]
      /\ task' = [task EXCEPT ![a] = s]
      /\ s = [f \in DOMAIN t |-> IF f \in DOMAIN fields THEN fields[f] ELSE t[f]]
  BY <1>2, <1>5, GoneTo
<1>7. s \in TaskRecords
  <2>1. "write" \in Pcs
    BY DEF Pcs, SavingPcs
  <2> HIDE DEF s, t
  <2> QED BY ONLY <1>2, <1>4, <1>5, <1>6, <2>1, Fields
<1>8. /\ s.pc = "write" /\ s.rec = t.rec /\ s.saving = t.saving /\ s.out = t.out /\ s.kind = t.kind
      /\ s.asks = t.asks /\ s.seen = t.seen /\ s.then = t.then /\ s.fd = inode
  <2>1. s = [f \in FieldNames |-> IF f \in DOMAIN fields THEN fields[f] ELSE t[f]]
    BY <1>2, <1>6
  <2> HIDE DEF s, t
  <2> QED BY ONLY <2>1, <1>5 DEF FieldNames
<1>9. Shape(s)
  BY <1>1, <1>2, <1>4, <1>8 DEF Shape, SavingPcs, CopilotPcs
<1>10. /\ ProviderOfTask(a)' = ProviderOfTask(a) /\ Hand(a)' = Hand(a)
       /\ Refreshed(a)' <=> Refreshed(a)
       /\ HasRecord(a)'
  BY <1>1, <1>2, <1>8 DEF ProviderOfTask, Hand, Refreshed, HasRecord, SavingPcs
<1>11. disk' \in [Inodes -> Files] /\ disk'[inode] = NoFile
       /\ \A i \in Inodes : i # inode => disk'[i] = disk[i]
  <2>1. NoFile \in Files
    BY RecordTypes DEF NoFile, Files
  <2> QED BY <1>2, <1>4, <1>5, <2>1 DEF TypeInv
<1>12. Loaded' = Loaded /\ Readable'
  <2>1. path # Nothing => path \in Inodes
    BY <1>2 DEF TypeInv
  <2>2. path # Nothing => disk'[path] = disk[path]
    BY <1>4, <1>11, <2>1
  <2> QED BY <1>2, <1>5, <2>2 DEF Loaded, Readable, StoreInv
<1>13. FileOf(a)'
  BY <1>2, <1>5, <1>8, <1>10, <1>11, <1>12 DEF FileOf, At, ActorInv
<1>14. UNCHANGED <<current, raced>> /\ overlap' \in BOOLEAN
  BY <1>1, <1>2 DEF NoteSave, At, TypeInv
<1>15. tmp' \in Inodes \union {Nothing} /\ tmp' # path
  BY <1>4, <1>5
<1> QED BY <1>2, <1>5, <1>6, <1>7, <1>8, <1>9, <1>10, <1>11, <1>12, <1>13, <1>14, <1>15, SaveGoesOn

LEMMA WriteStep ==
    ASSUME Inv, NEW a \in Actors, Write(a), NoteSave(a), ~overlap', UNCHANGED <<live, grants, lost>>
    PROVE  Inv'
<1> DEFINE t == task[a]
           s == task'[a]
           whole == [state |-> "json", records |-> t.out]
           fields == [pc |-> "rename"]
<1>1. t.pc = "write" /\ t.pc \in SavingPcs
  BY DEF Write, At, SavingPcs
<1>2. /\ TypeInv /\ StoreInv /\ Kept /\ Shape(t) /\ ActorInv(a)
      /\ t \in TaskRecords /\ DOMAIN t = FieldNames
      /\ t.saving /\ t.rec = NoRecord /\ HasRecord(a)
      /\ \A b \in Actors \ {a} : ~task[b].saving /\ task[b].fd = Nothing
  BY <1>1, AboutToSave
<1>3. t.fd \in Inodes /\ tmp = t.fd /\ disk[tmp] = NoFile /\ tmp # path /\ tmp # Nothing
  <2>1. t.fd # Nothing /\ t.fd \in Inodes \union {Nothing}
    BY <1>1, <1>2, TaskFields DEF Shape
  <2>2. tmp = t.fd /\ disk[tmp] = NoFile
    BY <1>1, <1>2 DEF ActorInv, FileOf, At
  <2> QED BY <1>2, <2>1, <2>2 DEF StoreInv
<1>4. disk' = [disk EXCEPT ![t.fd] = whole] /\ path' = path /\ tmp' = tmp
  BY <1>3 DEF Write
<1>5. DOMAIN fields = {"pc"} /\ fields.pc = "rename" /\ Goto(a, fields)
  BY DEF Write
<1> HIDE DEF fields
<1>6. /\ \A b \in Actors \ {a} : task'[b] = task[b]
      /\ task' = [task EXCEPT ![a] = s]
      /\ s = [f \in DOMAIN t |-> IF f \in DOMAIN fields THEN fields[f] ELSE t[f]]
  BY <1>2, <1>5, GoneTo
<1>7. s \in TaskRecords
  <2>1. "rename" \in Pcs
    BY DEF Pcs, SavingPcs
  <2> HIDE DEF s, t
  <2> QED BY ONLY <1>2, <1>5, <1>6, <2>1, Fields
<1>8. /\ s.pc = "rename" /\ s.rec = t.rec /\ s.saving = t.saving /\ s.out = t.out /\ s.kind = t.kind
      /\ s.asks = t.asks /\ s.seen = t.seen /\ s.then = t.then /\ s.fd = t.fd
  <2>1. s = [f \in FieldNames |-> IF f \in DOMAIN fields THEN fields[f] ELSE t[f]]
    BY <1>2, <1>6
  <2> HIDE DEF s, t
  <2> QED BY ONLY <2>1, <1>5 DEF FieldNames
<1>9. Shape(s)
  BY <1>1, <1>2, <1>8 DEF Shape, SavingPcs, CopilotPcs
<1>10. /\ ProviderOfTask(a)' = ProviderOfTask(a) /\ Hand(a)' = Hand(a)
       /\ Refreshed(a)' <=> Refreshed(a)
       /\ HasRecord(a)'
  BY <1>1, <1>2, <1>8 DEF ProviderOfTask, Hand, Refreshed, HasRecord, SavingPcs
<1>11. /\ disk' \in [Inodes -> Files] /\ disk'[tmp] = whole
       /\ \A i \in Inodes : i # tmp => disk'[i] = disk[i]
  <2>1. whole \in Files
    BY <1>2, TaskFields DEF Files
  <2> HIDE DEF whole, t
  <2> QED BY <1>2, <1>3, <1>4, <2>1 DEF TypeInv
<1>12. Loaded' = Loaded /\ Readable'
  <2>1. path # Nothing => path \in Inodes
    BY <1>2 DEF TypeInv
  <2>2. path # Nothing => disk'[path] = disk[path]
    BY <1>3, <1>11, <2>1
  <2> QED BY <1>2, <1>4, <2>2 DEF Loaded, Readable, StoreInv
<1>13. FileOf(a)'
  BY <1>2, <1>3, <1>4, <1>8, <1>10, <1>11, <1>12 DEF FileOf, At, ActorInv
<1>14. UNCHANGED <<current, raced>> /\ overlap' \in BOOLEAN
  BY <1>1, <1>2 DEF NoteSave, At, TypeInv
<1>15. tmp' \in Inodes \union {Nothing} /\ tmp' # path
  BY <1>3, <1>4
<1> QED BY <1>2, <1>4, <1>6, <1>7, <1>8, <1>9, <1>10, <1>11, <1>12, <1>13, <1>14, <1>15, SaveGoesOn

\* What a has saved is the store now, and a has nothing in hand any more.
LEMMA Renamed ==
    ASSUME Inv, NEW a \in Actors, Rename(a)
    PROVE  /\ path' = tmp /\ tmp' = Nothing /\ tmp \in Inodes /\ tmp # path
           /\ disk' \in [Inodes -> Files] /\ Readable' /\ Loaded' = task[a].out
           /\ \A b \in Actors \ {a} : task'[b] = task[b]
           /\ task' = [task EXCEPT ![a] = task'[a]] /\ task'[a] \in TaskRecords /\ Shape(task'[a])
           /\ ~task'[a].saving /\ task'[a].asks = Nobody
           /\ ~Chat(a)' /\ ~HasRecord(a)' /\ ~Refreshed(a)' /\ ~At(a, "write")' /\ ~At(a, "rename")'
           /\ task'[a].seen # 0 =>
                 task'[a].seen = task[a].seen /\ ProviderOfTask(a)' = ProviderOfTask(a)
<1> DEFINE t == task[a]
           s == task'[a]
           fields == [pc |-> t.then, saving |-> FALSE, asks |-> Nobody, out |-> NoRecords,
                      fd |-> Nothing]
<1>1. t.pc = "rename" /\ t.pc \in SavingPcs
  BY DEF Rename, At, SavingPcs
<1>2. /\ TypeInv /\ StoreInv /\ Shape(t) /\ ActorInv(a)
      /\ t \in TaskRecords /\ DOMAIN t = FieldNames /\ t.saving /\ t.rec = NoRecord
  BY <1>1, AboutToSave
<1>3. t.fd \in Inodes /\ tmp = t.fd /\ tmp # path /\ tmp # Nothing
      /\ disk[tmp] = [state |-> "json", records |-> t.out]
  <2>1. t.fd # Nothing /\ t.fd \in Inodes \union {Nothing}
    BY <1>1, <1>2, TaskFields DEF Shape
  <2>2. tmp = t.fd /\ disk[tmp] = [state |-> "json", records |-> t.out]
    BY <1>1, <1>2 DEF ActorInv, FileOf, At
  <2> QED BY <1>2, <2>1, <2>2 DEF StoreInv
<1>4. /\ path' = tmp /\ tmp' = Nothing /\ Goto(a, fields)
      /\ disk' = [i \in Inodes |-> IF i = path' \/ (\E b \in Actors \ {a} : task[b].fd = i)
                                   THEN disk[i] ELSE NoFile]
  BY <1>3 DEF Rename
<1>5. disk' \in [Inodes -> Files]
  <2>1. NoFile \in Files /\ disk \in [Inodes -> Files]
    BY <1>2, RecordTypes DEF NoFile, Files, TypeInv
  <2> QED BY <1>4, <2>1
<1>6. Readable' /\ Loaded' = t.out
  <2>1. disk'[path'] = [state |-> "json", records |-> t.out] /\ path' # Nothing
    BY <1>3, <1>4
  <2> QED BY <2>1 DEF Readable, Loaded
<1>7. CASE t.then = "idle"
  <2>1. s = Idle /\ (\A b \in Actors \ {a} : task'[b] = task[b]) /\ task' = [task EXCEPT ![a] = s]
    <3>1. Goto(a, fields) /\ fields.pc = "idle"
      BY <1>4, <1>7
    <3> HIDE DEF fields
    <3> QED BY <1>2, <3>1, GoneTo
  <2>2. ~Chat(a)' /\ ~HasRecord(a)' /\ ~Refreshed(a)' /\ ~At(a, "write")' /\ ~At(a, "rename")'
    BY <2>1, IdleShape DEF Chat, HasRecord, Refreshed, SavingPcs, At
  <2> QED BY <1>3, <1>4, <1>5, <1>6, <2>1, <2>2, IdleShape, RecordTypes
<1>8. CASE t.then # "idle"
  <2>1. /\ DOMAIN fields = {"pc", "saving", "asks", "out", "fd"} /\ fields.pc = t.then
        /\ fields.saving = FALSE /\ fields.asks = Nobody /\ fields.out = NoRecords
        /\ fields.fd = Nothing
    OBVIOUS
  <2>2. t.then \in {"candidates", "models", "saveFetched", "send"} /\ ProviderOf(t.kind) = "copilot"
    BY <1>2, <1>8, TaskFields DEF Thens, Shape
  <2> HIDE DEF fields
  <2>3. /\ \A b \in Actors \ {a} : task'[b] = task[b]
        /\ task' = [task EXCEPT ![a] = s]
        /\ s = [f \in DOMAIN t |-> IF f \in DOMAIN fields THEN fields[f] ELSE t[f]]
    BY <1>2, <1>4, <1>8, <2>1, GoneTo
  <2>4. s \in TaskRecords
    <3>1. /\ fields.pc \in Pcs /\ fields.saving \in BOOLEAN /\ fields.out \in [Providers -> Record]
          /\ fields.asks \in 0..MaxGrants \union {Nobody} /\ fields.fd \in Inodes \union {Nothing}
      BY <2>1, <2>2, RecordTypes DEF Pcs, CopilotPcs
    <3> HIDE DEF s, t
    <3> QED BY ONLY <1>2, <2>1, <2>3, <3>1, Fields
  <2>5. /\ s.pc = t.then /\ s.rec = t.rec /\ s.saving = FALSE /\ s.kind = t.kind /\ s.asks = Nobody
        /\ s.seen = t.seen /\ s.then = t.then /\ s.fd = Nothing
    <3>1. s = [f \in FieldNames |-> IF f \in DOMAIN fields THEN fields[f] ELSE t[f]]
      BY <1>2, <2>3
    <3> HIDE DEF s, t
    <3> QED BY ONLY <2>1, <3>1 DEF FieldNames
  <2>6. Shape(s)
    BY <1>2, <2>2, <2>5 DEF Shape, SavingPcs, CopilotPcs
  <2>7. /\ ~Chat(a)' /\ ~HasRecord(a)' /\ ~Refreshed(a)' /\ ~At(a, "write")' /\ ~At(a, "rename")'
        /\ ProviderOfTask(a)' = ProviderOfTask(a)
    BY <2>2, <2>5 DEF Chat, HasRecord, Refreshed, SavingPcs, At, ProviderOfTask
  <2> QED BY <1>3, <1>4, <1>5, <1>6, <2>3, <2>4, <2>5, <2>6, <2>7
<1> QED BY <1>7, <1>8

LEMMA RenameStep ==
    ASSUME Inv, NEW a \in Actors, Rename(a), NoteSave(a), ~overlap', UNCHANGED <<live, grants, lost>>
    PROVE  Inv'
<1> DEFINE t == task[a]
           p == ProviderOfTask(a)
           h == Hand(a)
           openai == "openai_account"
<1>1. t.pc = "rename" /\ t.pc \in SavingPcs
  BY DEF Rename, At, SavingPcs
<1>2. /\ TypeInv /\ StoreInv /\ Kept /\ Shape(t) /\ ActorInv(a) /\ t \in TaskRecords
      /\ t.saving /\ HasRecord(a) /\ InHand(a)
      /\ p \in Providers /\ h = t.out[p]
      /\ Refreshed(a) <=> t.kind = "chat"
      /\ Chat(a) <=> t.kind = "chat"
      /\ \A b \in Actors \ {a} : ~task[b].saving /\ task[b].fd = Nothing
      /\ \A b \in Actors \ {a} : ActorInv(b) /\ Shape(task[b])
  BY <1>1, AboutToSave
<1>3. /\ path' = tmp /\ tmp' = Nothing /\ tmp \in Inodes /\ tmp # path
      /\ disk' \in [Inodes -> Files] /\ Readable' /\ Loaded' = t.out
      /\ \A b \in Actors \ {a} : task'[b] = task[b]
      /\ task' = [task EXCEPT ![a] = task'[a]] /\ task'[a] \in TaskRecords /\ Shape(task'[a])
      /\ ~task'[a].saving /\ task'[a].asks = Nobody
      /\ ~Chat(a)' /\ ~HasRecord(a)' /\ ~Refreshed(a)' /\ ~At(a, "write")' /\ ~At(a, "rename")'
      /\ task'[a].seen # 0 => task'[a].seen = t.seen /\ ProviderOfTask(a)' = p
  BY Renamed
<1>4. Loaded'[p] = h /\ \A q \in Providers \ {p} : Loaded'[q] = Loaded[q]
  BY <1>2, <1>3 DEF ActorInv, FileOf
<1>5. /\ "copilot" \in Providers /\ openai \in Providers /\ Providers = {"copilot", openai}
      /\ live' = live /\ grants' = grants /\ lost' = lost
      /\ grants \in 0..MaxGrants /\ MaxGrants \in Nat
      /\ current \in [Providers -> 0..MaxGrants] /\ raced \in [Providers -> BOOLEAN]
      /\ NoRecord.grant = 0 /\ NoRecord.session = 0 /\ NoRecord.refresh = 0
  BY <1>2, StoreAssumption, CredentialsAssumption DEF TypeInv, NoRecord
<1>6. t.asks = Nobody => UNCHANGED <<current, raced>>
  BY DEF NoteSave
<1>7. t.asks # Nobody => /\ current' = [current EXCEPT ![p] = t.asks]
                         /\ raced' = [raced EXCEPT ![p] = \E b \in Actors \ {a} : Holds(b, p)]
  BY <1>1, <1>3 DEF NoteSave, At, ProviderOfTask
<1>8. /\ current' \in [Providers -> 0..MaxGrants] /\ raced' \in [Providers -> BOOLEAN]
      /\ \A q \in Providers \ {p} : current'[q] = current[q] /\ raced'[q] = raced[q]
      /\ t.asks # Nobody =>
            current'[p] = t.asks /\ (raced'[p] <=> \E b \in Actors \ {a} : Holds(b, p))
  <2>1. t.asks # Nobody => t.asks \in 0..MaxGrants
    BY <1>2, TaskFields
  <2>2. CASE t.asks = Nobody
    BY <1>5, <1>6, <2>2
  <2>3. CASE t.asks # Nobody
    <3> DEFINE held == \E b \in Actors \ {a} : Holds(b, p)
    <3>1. held \in BOOLEAN /\ raced' = [raced EXCEPT ![p] = held] /\ current' = [current EXCEPT ![p] = t.asks]
      BY <1>7, <2>3
    <3> HIDE DEF held
    <3>2. raced'[p] = held /\ raced' \in [Providers -> BOOLEAN]
          /\ \A q \in Providers \ {p} : raced'[q] = raced[q]
      BY <1>2, <1>5, <3>1
    <3>3. current'[p] = t.asks /\ current' \in [Providers -> 0..MaxGrants]
          /\ \A q \in Providers \ {p} : current'[q] = current[q]
      BY <1>2, <1>5, <2>1, <2>3, <3>1
    <3> QED BY <3>2, <3>3 DEF held
  <2> QED BY <2>2, <2>3
<1>9. TypeInv'
  <2>1. task' \in [Actors -> TaskRecords]
    BY <1>2, <1>3 DEF TypeInv
  <2>2. overlap' \in BOOLEAN
    BY <1>2 DEF TypeInv, NoteSave
  <2>3. live' \in [1..MaxGrants -> Nat] /\ lost' \in BOOLEAN
    BY <1>2, <1>5 DEF TypeInv
  <2> QED BY <1>3, <1>5, <1>8, <2>1, <2>2, <2>3 DEF TypeInv
\* The record that is saved.
<1>10. /\ WellFormed(h)
       /\ t.asks # Nobody => h = [NoRecord EXCEPT !.grant = t.asks]
       /\ t.asks = Nobody => /\ h # NoRecord
                             /\ raced[p] \/ h.grant = current[p]
                             /\ p = "copilot" => raced[p] \/ h.session \in {0, h.grant}
  BY <1>2 DEF InHand
<1>11. t.asks # Nobody => h.grant = t.asks /\ h.session = 0 /\ h.refresh = 0
  BY <1>10 DEF NoRecord
<1>12. p = openai => \/ t.kind = "chat" /\ t.asks = Nobody
                     \/ t.kind # "chat" /\ t.asks # Nobody
  BY <1>2 DEF ProviderOfTask, ProviderOf, Shape
<1>13. WellFormed(Loaded[openai])
  BY <1>2, <1>5 DEF StoreInv
<1>14. p # openai => Loaded'[openai] = Loaded[openai] /\ ~Refreshed(a)
  BY <1>2, <1>4, <1>5 DEF ProviderOfTask, ProviderOf
<1>15. p = openai =>
          /\ Loaded'[openai] = h
          /\ Refreshed(a) => h.refresh = live[h.grant] /\ h.grant \in 1..grants
          /\ ~Refreshed(a) => h = [NoRecord EXCEPT !.grant = t.asks] /\ t.asks \in 0..grants
          /\ t.asks > 0 => live[t.asks] = 0
  <2>1. Refreshed(a) => h.refresh = live[h.grant]
    BY <1>2 DEF ActorInv, Token, Chat
  <2>2. p = openai /\ Refreshed(a) => h.grant \in 1..grants
    BY <1>2, <1>10, <1>12 DEF WellFormed
  <2>3. p = openai /\ ~Refreshed(a) => h = [NoRecord EXCEPT !.grant = t.asks] /\ t.asks \in 0..grants
    BY <1>2, <1>5, <1>10, <1>11, <1>12 DEF WellFormed
  <2>4. p = openai /\ t.asks > 0 => live[t.asks] = 0
    BY <1>2 DEF ActorInv, Token
  <2> QED BY <1>4, <2>1, <2>2, <2>3, <2>4
<1>16. StoreInv'
  <2>1. ASSUME NEW q \in Providers
        PROVE  WellFormed(Loaded[q])' /\ (raced'[q] \/ Loaded'[q].grant = current'[q])
    <3>1. CASE q # p
      <4>1. WellFormed(Loaded[q]) /\ (raced[q] \/ Loaded[q].grant = current[q])
        BY <1>2 DEF StoreInv
      <4> QED BY <1>4, <1>5, <1>8, <3>1, <4>1 DEF WellFormed
    <3>2. CASE q = p
      <4>1. WellFormed(Loaded[q])'
        BY <1>4, <1>5, <1>10, <3>2 DEF WellFormed
      <4>2. raced'[q] \/ Loaded'[q].grant = current'[q]
        BY <1>4, <1>6, <1>8, <1>10, <1>11, <3>2
      <4> QED BY <4>1, <4>2
    <3> QED BY <3>1, <3>2
  <2>2. raced'["copilot"] \/ Loaded'["copilot"].session \in {0, Loaded'["copilot"].grant}
    <3>1. CASE p = "copilot"
      BY <1>4, <1>6, <1>8, <1>10, <1>11, <3>1
    <3>2. CASE p # "copilot"
      <4>1. raced["copilot"] \/ Loaded["copilot"].session \in {0, Loaded["copilot"].grant}
        BY <1>2 DEF StoreInv
      <4> QED BY <1>4, <1>5, <1>8, <3>2, <4>1
    <3> QED BY <3>1, <3>2
  <2>3. Loaded'[openai] # NoRecord => Loaded'[openai].refresh <= live'[Loaded'[openai].grant]
    <3>1. CASE p # openai
      BY <1>2, <1>5, <1>14, <3>1 DEF StoreInv
    <3>2. CASE p = openai /\ Refreshed(a)
      <4>1. live[h.grant] \in Nat
        BY <1>2, <1>5, <1>15, <3>2 DEF TypeInv
      <4> QED BY <1>5, <1>15, <3>2, <4>1
    <3>3. CASE p = openai /\ ~Refreshed(a)
      <4>1. h.grant = t.asks /\ h.refresh = 0
        BY <1>11, <1>12, <1>2, <3>3
      <4>2. t.asks = 0 => h = NoRecord
        BY <1>15, <3>3 DEF NoRecord
      <4>3. t.asks # 0 => live[t.asks] = 0
        BY <1>5, <1>15, <3>3
      <4> QED BY <1>5, <1>15, <3>3, <4>1, <4>2, <4>3
    <3> QED BY <3>1, <3>2, <3>3
  <2>4. \A g \in 1..MaxGrants : g > grants' => live'[g] = 0
    BY <1>2, <1>5 DEF StoreInv
  <2> QED BY <1>3, <2>1, <2>2, <2>3, <2>4 DEF StoreInv
<1>17. \A b \in Actors \ {a} : Hand(b)' = Hand(b) /\ (Refreshed(b)' <=> Refreshed(b))
  BY <1>3, SameTask
<1>18. Kept'
  <2> SUFFICES ASSUME ~lost', Loaded'[openai] # NoRecord,
                      \A b \in Actors : Refreshed(b)' => Hand(b)'.grant # Loaded'[openai].grant
               PROVE  Loaded'[openai].refresh = live'[Loaded'[openai].grant]
    BY DEF Kept
  <2>1. CASE p # openai
    <3>1. \A b \in Actors : Refreshed(b) => Hand(b).grant # Loaded[openai].grant
      BY <1>14, <1>17, <2>1
    <3> QED BY <1>2, <1>5, <1>14, <2>1, <3>1 DEF Kept
  <2>2. CASE p = openai /\ Refreshed(a)
    BY <1>5, <1>15, <2>2
  <2>3. CASE p = openai /\ ~Refreshed(a)
    <3>1. h.grant = t.asks /\ h.refresh = 0
      BY <1>11, <1>12, <1>2, <2>3
    <3>2. t.asks = 0 => h = NoRecord
      BY <1>15, <2>3 DEF NoRecord
    <3>3. t.asks # 0 => live[t.asks] = 0
      BY <1>5, <1>15, <2>3
    <3> QED BY <1>5, <1>15, <2>3, <3>1, <3>2, <3>3
  <2> QED BY <2>1, <2>2, <2>3
<1>19. ActorInv(a)'
  <2>1. task'[a].seen # 0 /\ ProviderOfTask(a)' = "copilot" =>
           raced'["copilot"] \/ task'[a].seen = current'["copilot"]
    <3>1. t.asks # Nobody => t.seen = 0
      BY <1>2 DEF Shape
    <3>2. p = "copilot" /\ t.seen # 0 => raced["copilot"] \/ t.seen = current["copilot"]
      BY <1>2 DEF ActorInv
    <3> QED BY <1>3, <1>6, <3>1, <3>2
  <2>2. FileOf(a)'
    BY <1>3 DEF FileOf
  <2>3. Token(a)'
    BY <1>3 DEF Token, Nobody
  <2> QED BY <1>3, <2>1, <2>2, <2>3 DEF ActorInv
<1>20. ASSUME NEW b \in Actors \ {a}
       PROVE  /\ ActorInv(b) /\ Token(b) /\ Shape(task[b]) /\ task'[b] = task[b] /\ ~task[b].saving
              /\ Apart(a, b) /\ Apart(b, a)
              /\ Hand(b)' = Hand(b) /\ (Refreshed(b)' <=> Refreshed(b)) /\ (Chat(b)' <=> Chat(b))
              /\ ProviderOfTask(b)' = ProviderOfTask(b) /\ (HasRecord(b)' <=> HasRecord(b))
              /\ \A pc : At(b, pc)' <=> At(b, pc)
  <2>1. ActorInv(b) /\ Shape(task[b]) /\ task'[b] = task[b] /\ ~task[b].saving
    BY <1>2, <1>3
  <2>2. Token(b) /\ Apart(a, b) /\ Apart(b, a)
    BY <2>1 DEF Inv, ActorInv
  <2> QED BY <2>1, <2>2, SameTask
<1>21. ASSUME NEW b \in Actors \ {a}
       PROVE  ActorInv(b)'
  <2>1. HasRecord(b)' => InHand(b)'
    <3> SUFFICES ASSUME HasRecord(b)
                 PROVE  InHand(b)'
      BY <1>20
    <3>1. InHand(b) /\ Hand(b) = task[b].rec
      BY <1>20 DEF ActorInv, Hand
    <3>2. WellFormed(Hand(b))'
      BY <1>5, <1>20, <3>1 DEF InHand, WellFormed
    <3>3. task[b].asks # Nobody => Hand(b) = [NoRecord EXCEPT !.grant = task[b].asks]
      BY <3>1 DEF InHand
    <3>4. ASSUME task[b].asks = Nobody
          PROVE  LET q == ProviderOfTask(b)
                 IN  /\ Hand(b) # NoRecord
                     /\ raced'[q] \/ Hand(b).grant = current'[q]
                     /\ q = "copilot" => raced'[q] \/ Hand(b).session \in {0, Hand(b).grant}
      <4> DEFINE q == ProviderOfTask(b)
      <4>1. /\ Hand(b) # NoRecord /\ q \in Providers
            /\ raced[q] \/ Hand(b).grant = current[q]
            /\ q = "copilot" => raced[q] \/ Hand(b).session \in {0, Hand(b).grant}
        BY <1>5, <3>1, <3>4 DEF InHand, ProviderOfTask, ProviderOf
      <4>2. CASE q # p \/ t.asks = Nobody
        BY <1>6, <1>8, <4>1, <4>2
      <4>3. CASE q = p /\ t.asks # Nobody
        <5>1. Holds(b, p)
          BY <3>1, <4>1, <4>3 DEF Holds, ProviderOfTask
        <5> QED BY <1>8, <4>1, <4>3, <5>1
      <4> QED BY <4>2, <4>3
    <3> QED BY <1>20, <3>2, <3>3, <3>4 DEF InHand
  <2>2. ProviderOfTask(b) = "copilot" /\ task[b].seen # 0 =>
           raced'["copilot"] \/ task[b].seen = current'["copilot"]
    <3> SUFFICES ASSUME ProviderOfTask(b) = "copilot", task[b].seen # 0
                 PROVE  raced'["copilot"] \/ task[b].seen = current'["copilot"]
      OBVIOUS
    <3>1. raced["copilot"] \/ task[b].seen = current["copilot"]
      BY <1>20 DEF ActorInv
    <3>2. CASE p # "copilot" \/ t.asks = Nobody
      BY <1>5, <1>6, <1>8, <3>1, <3>2
    <3>3. CASE p = "copilot" /\ t.asks # Nobody
      <4>1. Holds(b, p)
        BY <3>3 DEF Holds, ProviderOfTask
      <4> QED BY <1>8, <3>3, <4>1
    <3> QED BY <3>2, <3>3
  <2>3. FileOf(b)'
    <3>1. ~At(b, "write") /\ ~At(b, "rename")
      BY <1>20 DEF Shape, At, SavingPcs
    <3> QED BY <1>20, <3>1 DEF FileOf
  <2>4. Chat(b) => b \in Actors /\ Hand(b).grant \in 1..grants
    <3>1. Chat(b) => HasRecord(b) /\ task[b].asks = Nobody
      BY <1>20 DEF Chat, Shape
    <3> QED BY <1>20, <3>1 DEF ActorInv, InHand, WellFormed
  <2>5. Refreshed(b) /\ Loaded'[openai].grant = Hand(b).grant =>
           Loaded'[openai].refresh < live[Hand(b).grant]
    <3> SUFFICES ASSUME Refreshed(b), Loaded'[openai].grant = Hand(b).grant
                 PROVE  Loaded'[openai].refresh < live[Hand(b).grant]
      OBVIOUS
    <3>1. Chat(b)
      BY RefreshedIsChat
    <3>2. CASE p # openai
      BY <1>14, <1>20, <3>2 DEF Token
    <3>3. CASE p = openai /\ Refreshed(a)
      <4>1. h.grant = Hand(b).grant
        BY <1>15, <3>3
      <4>2. ~Refreshed(b)
        BY <1>20, <3>1, <3>3, <4>1 DEF Apart
      <4> QED BY <4>2
    <3>4. CASE p = openai /\ ~Refreshed(a)
      <4>1. h.grant = t.asks /\ t.asks \in 0..grants /\ Loaded'[openai].grant = t.asks
        BY <1>2, <1>11, <1>12, <1>15, <3>4
      <4>2. t.asks > 0
        BY <1>5, <2>4, <3>1, <4>1
      <4>3. Hand(b).grant # t.asks
        BY <1>20, <3>1, <3>4, <4>2 DEF Apart
      <4> QED BY <4>1, <4>3
    <3> QED BY <3>2, <3>3, <3>4
  <2>6. ProviderOfTask(b) = openai /\ task[b].asks > 0 =>
           live[task[b].asks] = 0 /\ Loaded'[openai].grant # task[b].asks
    <3> SUFFICES ASSUME ProviderOfTask(b) = openai, task[b].asks > 0
                 PROVE  live[task[b].asks] = 0 /\ Loaded'[openai].grant # task[b].asks
      OBVIOUS
    <3>1. live[task[b].asks] = 0 /\ Loaded[openai].grant # task[b].asks
      BY <1>20 DEF Token
    <3>2. CASE p # openai
      BY <1>14, <3>1, <3>2
    <3>3. CASE p = openai /\ Refreshed(a)
      <4>1. h.grant # task[b].asks
        BY <1>2, <1>20, <3>3 DEF Apart
      <4> QED BY <1>15, <3>1, <3>3, <4>1
    <3>4. CASE p = openai /\ ~Refreshed(a)
      <4>1. Loaded'[openai].grant = t.asks
        BY <1>2, <1>11, <1>12, <1>15, <3>4
      <4>2. task[b].asks # t.asks
        BY <1>20 DEF Apart
      <4> QED BY <3>1, <4>1, <4>2
    <3> QED BY <3>2, <3>3, <3>4
  <2>7. Chat(b) => IF Refreshed(b) THEN Hand(b).refresh = live[Hand(b).grant]
                                   ELSE Hand(b).refresh <= live[Hand(b).grant]
    BY <1>20 DEF Token
  <2>8. Token(b)'
    BY <1>5, <1>20, <2>5, <2>6, <2>7 DEF Token
  <2> QED BY <1>20, <2>1, <2>2, <2>3, <2>8 DEF ActorInv
<1>22. \A b, c \in Actors : b # c => Apart(b, c)'
  <2> SUFFICES ASSUME NEW b \in Actors, NEW c \in Actors, b # c
               PROVE  Apart(b, c)'
    OBVIOUS
  <2>1. CASE b = a
    BY <1>3, <2>1 DEF Apart, Nobody
  <2>2. CASE c = a
    BY <1>3, <2>2 DEF Apart, Nobody
  <2>3. CASE b # a /\ c # a
    <3>1. Apart(b, c) /\ task'[b] = task[b] /\ task'[c] = task[c]
      BY <1>3, <2>3 DEF Inv
    <3> QED BY <1>5, <3>1, OthersApart
  <2> QED BY <2>1, <2>2, <2>3
<1>23. \A b \in Actors : ActorInv(b)'
  BY <1>19, <1>21
<1> QED BY <1>9, <1>16, <1>18, <1>22, <1>23 DEF Inv

-----------------------------------------------------------------------------
(* Failures, and the whole.                                                *)

LEMMA SaveFailsStep ==
    ASSUME Inv, NEW a \in Actors, SaveFails(a), ~overlap'
    PROVE  Inv'
<1>1. /\ TypeInv /\ Stop(a) /\ At(a, "write") /\ NoteSave(a)
      /\ UNCHANGED <<path, tmp, disk, live, grants>> /\ lost' = (lost \/ Refreshed(a))
  BY DEF Inv, SaveFails, WriteFails
<1>2. UNCHANGED Outside /\ overlap' \in BOOLEAN /\ lost' \in BOOLEAN
  BY <1>1 DEF Outside, NoteSave, At, TypeInv, Refreshed
<1> QED BY <1>1, <1>2, StopStep

LEMMA CrashStep ==
    ASSUME Inv, Crash
    PROVE  Inv'
<1>1. /\ TypeInv /\ StoreInv /\ Kept
      /\ UNCHANGED <<path, tmp, disk, live, grants, current, raced, overlap>>
      /\ lost' = (lost \/ \E a \in Actors : Refreshed(a))
      /\ task' = [a \in Actors |-> Idle]
  BY DEF Inv, Crash, fileVars
<1>2. Loaded' = Loaded /\ (Readable' <=> Readable)
  BY <1>1 DEF Loaded, Readable
<1>3. TypeInv'
  <2>1. task' \in [Actors -> TaskRecords]
    BY <1>1, RecordTypes
  <2>2. lost' \in BOOLEAN
    BY <1>1 DEF TypeInv
  <2> QED BY <1>1, <2>1, <2>2 DEF TypeInv
<1>4. StoreInv'
  BY <1>1, <1>2 DEF StoreInv, WellFormed
<1>5. Kept'
  BY <1>1, <1>2 DEF Kept
<1>6. ASSUME NEW a \in Actors
      PROVE  /\ task'[a] = Idle /\ ~HasRecord(a)' /\ ~Chat(a)' /\ ~Refreshed(a)'
             /\ ~At(a, "write")' /\ ~At(a, "rename")'
  BY <1>1, IdleShape DEF HasRecord, Chat, Refreshed, SavingPcs, At
<1>7. ASSUME NEW a \in Actors
      PROVE  ActorInv(a)'
  <2>1. FileOf(a)'
    BY <1>6, IdleShape DEF FileOf
  <2>2. Token(a)'
    BY <1>6, IdleShape DEF Token, Nobody
  <2> QED BY <1>6, <2>1, <2>2, IdleShape DEF ActorInv
<1>8. ASSUME NEW a \in Actors, NEW b \in Actors, a # b
      PROVE  Apart(a, b)'
  BY <1>6, IdleShape DEF Apart, Nobody
<1> QED BY <1>3, <1>4, <1>5, <1>7, <1>8 DEF Inv

LEMMA InitSafe == Init => Inv
<1> SUFFICES ASSUME Init PROVE Inv
  OBVIOUS
<1> DEFINE first == [p \in Providers |-> [NoRecord EXCEPT !.grant = 1]]
<1>1. /\ path \in {Nothing, 1} /\ tmp = Nothing
      /\ disk = [i \in Inodes |-> IF i = path THEN [state |-> "json", records |-> first] ELSE NoFile]
      /\ task = [a \in Actors |-> Idle]
      /\ live = [g \in 1..MaxGrants |-> 0]
      /\ grants = (IF path = Nothing THEN 0 ELSE 1)
      /\ current = [p \in Providers |-> grants] /\ raced = [p \in Providers |-> FALSE]
      /\ overlap = FALSE /\ lost = FALSE
  BY DEF Init, StoreInit
<1>2. /\ MaxGrants \in Nat /\ 1 \in 1..MaxGrants /\ 1 \in 0..MaxGrants /\ 0 \in 0..MaxGrants
      /\ "copilot" \in Providers /\ "openai_account" \in Providers
  BY StoreAssumption, CredentialsAssumption
<1>3. /\ first \in [Providers -> Record] /\ NoRecord.grant = 0 /\ NoRecord.session = 0
      /\ NoRecord.refresh = 0
      /\ \A p \in Providers : first[p].grant = 1 /\ first[p].session = 0 /\ first[p].refresh = 0
  BY <1>2, RecordTypes DEF NoRecord, Record
<1> HIDE DEF first
<1>4. /\ [state |-> "json", records |-> first] \in Files /\ NoFile \in Files
      /\ 1 \in Inodes /\ Nothing \notin Inodes /\ 1 # Nothing
  BY <1>3, RecordTypes, ActorsMany DEF Files, NoFile, Nothing
<1>5. TypeInv
  <2>1. disk \in [Inodes -> Files]
    BY <1>1, <1>4
  <2>2. task \in [Actors -> TaskRecords]
    BY <1>1, RecordTypes
  <2>3. grants \in 0..MaxGrants
    BY <1>1, <1>2
  <2>4. current \in [Providers -> 0..MaxGrants] /\ raced \in [Providers -> BOOLEAN]
        /\ live \in [1..MaxGrants -> Nat]
    BY <1>1, <2>3
  <2> QED BY <1>1, <1>4, <2>1, <2>2, <2>3, <2>4 DEF TypeInv
<1>6. Readable /\ (Loaded = IF path = Nothing THEN NoRecords ELSE first)
  BY <1>1, <1>4 DEF Readable, Loaded
<1>7. \A p \in Providers : /\ Loaded[p].grant = grants /\ Loaded[p].session = 0
                           /\ Loaded[p].refresh = 0
                           /\ Loaded[p] = NoRecord \/ grants = 1
  <2>1. CASE path = Nothing
    BY <1>1, <1>3, <1>6, <2>1 DEF NoRecords
  <2>2. CASE path # Nothing
    BY <1>1, <1>3, <1>6, <2>2
  <2> QED BY <2>1, <2>2
<1>8. StoreInv
  <2>1. \A p \in Providers : WellFormed(Loaded[p]) /\ (raced[p] \/ Loaded[p].grant = current[p])
    BY <1>1, <1>7 DEF WellFormed
  <2>2. Loaded["openai_account"] # NoRecord =>
           Loaded["openai_account"].refresh <= live[Loaded["openai_account"].grant]
    BY <1>1, <1>2, <1>7
  <2> QED BY <1>1, <1>2, <1>6, <1>7, <2>1, <2>2 DEF StoreInv
<1>9. Kept
  BY <1>1, <1>2, <1>7 DEF Kept
<1>10. ASSUME NEW a \in Actors
       PROVE  /\ task[a] = Idle /\ ~HasRecord(a) /\ ~Chat(a) /\ ~Refreshed(a)
              /\ ~At(a, "write") /\ ~At(a, "rename")
  BY <1>1, IdleShape DEF HasRecord, Chat, Refreshed, SavingPcs, At
<1>11. ASSUME NEW a \in Actors
       PROVE  ActorInv(a)
  <2>1. FileOf(a)
    BY <1>10, IdleShape DEF FileOf
  <2>2. Token(a)
    BY <1>10, IdleShape DEF Token, Nobody
  <2> QED BY <1>10, <2>1, <2>2, IdleShape DEF ActorInv
<1>12. ASSUME NEW a \in Actors, NEW b \in Actors, a # b
       PROVE  Apart(a, b)
  BY <1>10, IdleShape DEF Apart, Nobody
<1> QED BY <1>5, <1>8, <1>9, <1>11, <1>12 DEF Inv

LEMMA OverlapStays ==
    ASSUME [Next]_vars, ~overlap'
    PROVE  ~overlap
BY DEF Next, vars, TaskStep, StoreStep, SaveFails, NoteSave, Crash

LEMMA NextSafe ==
    ASSUME SafeInv, [Next]_vars
    PROVE  SafeInv'
<1> SUFFICES ASSUME ~overlap' PROVE Inv'
  BY DEF SafeInv
<1>1. Inv
  BY OverlapStays DEF SafeInv
<1>2. ASSUME NEW a \in Actors, TaskStep(a)
      PROVE  Inv'
  <2>1. UNCHANGED <<current, raced, overlap, lost>>
    BY <1>2 DEF TaskStep
  <2>2. CopilotStep(a) => Inv'
    BY <1>1, <2>1, CopilotStepKeeps
  <2>3. Start(a) \/ Authorise(a) \/ Credentials(a) \/ CopilotStep(a)
    BY <1>2 DEF TaskStep, CopilotStep
  <2> QED BY <1>1, <2>1, <2>2, <2>3, StartStep, AuthoriseStep, CredentialsStep
<1>3. ASSUME NEW a \in Actors, StoreStep(a)
      PROVE  Inv'
  <2>1. NoteSave(a) /\ UNCHANGED <<live, grants, lost>>
    BY <1>3 DEF StoreStep
  <2>2. \/ Upsert(a, ProviderOfTask(a))
        \/ Remove(a, ProviderOfTask(a))
        \/ Open(a) \/ Write(a) \/ Rename(a)
    BY <1>3 DEF StoreStep, ProviderOfTask
  <2> QED BY <1>1, <2>1, <2>2, UpsertStep, RemoveStep, OpenStep, WriteStep, RenameStep
<1>4. ASSUME UNCHANGED vars
      PROVE  Inv'
  <2>1. /\ UNCHANGED <<path, tmp, disk, task, live, grants, current, raced, overlap, lost>>
        /\ TypeInv /\ StoreInv /\ Kept
    BY <1>1, <1>4 DEF vars, storeVars, Inv
  <2>2. Loaded' = Loaded /\ (Readable' <=> Readable)
    BY <2>1 DEF Loaded, Readable
  <2>3. \A b \in Actors : ActorInv(b)'
    <3> SUFFICES ASSUME NEW b \in Actors
                 PROVE  ActorInv(b)'
      OBVIOUS
    <3>1. ActorInv(b)
      BY <1>1 DEF Inv
    <3>2. grants \in Nat /\ grants' \in Nat /\ grants' >= grants
      BY <2>1, StoreAssumption DEF TypeInv
    <3> QED BY <2>1, <2>2, <3>1, <3>2, OthersStay
  <2>4. \A b, c \in Actors : b # c => Apart(b, c)'
    <3> SUFFICES ASSUME NEW b \in Actors, NEW c \in Actors, b # c
                 PROVE  Apart(b, c)'
      OBVIOUS
    <3>1. Apart(b, c)
      BY <1>1 DEF Inv
    <3> QED BY <2>1, <3>1, OthersApart
  <2>5. \A b \in Actors : Hand(b)' = Hand(b) /\ (Refreshed(b)' <=> Refreshed(b))
    BY <2>1, SameTask
  <2>6. TypeInv' /\ StoreInv'
    BY <2>1, <2>2 DEF TypeInv, StoreInv, WellFormed
  <2>7. Kept'
    BY <2>1, <2>2, <2>5 DEF Kept
  <2> QED BY <2>3, <2>4, <2>6, <2>7 DEF Inv
<1> QED BY <1>1, <1>2, <1>3, <1>4, RefreshStep, SaveFailsStep, CrashStep DEF Next

\* While no two saves have overlapped, the store is whole, what the tasks hold
\* is no older than it unless the histories say so, and the tasks do not hold
\* each other's tokens.
LEMMA AlwaysSafe == Spec => []SafeInv
<1>1. Init => SafeInv
  BY InitSafe DEF SafeInv
<1>2. SafeInv /\ [Next]_vars => SafeInv'
  BY NextSafe
<1> QED BY <1>1, <1>2, PTL DEF Spec

\* Whatever fails or crashes, auth.json can be parsed as long as no two saves
\* have overlapped, for any number of tasks: save_file writes a temporary file
\* and renames it.
THEOREM ReadableHolds == Spec => []ReadableUnlessOverlap
<1>1. SafeInv => ReadableUnlessOverlap
  BY DEF SafeInv, Inv, StoreInv, ReadableUnlessOverlap
<1> QED BY <1>1, AlwaysSafe, PTL

\* The stored record is that of the last login, and gone after a logout, unless
\* a task had read an older one before that login or logout was saved: upsert
\* and remove write the file as it is then, but the record as the task has it.
THEOREM CurrentHolds == Spec => []CurrentUnlessRaced
<1>1. SafeInv => CurrentUnlessRaced
  BY DEF SafeInv, Inv, StoreInv, CurrentUnlessRaced
<1> QED BY <1>1, AlwaysSafe, PTL

\* The cached Copilot session belongs to the stored login, whichever turn or
\* discovery saves sessions meanwhile: save_cached_copilot_session puts it into
\* the record it has just loaded, and a login drops it with the old record.
THEOREM SessionOfAccountHolds == Spec => []SessionOfAccount
<1>1. SafeInv => SessionOfAccount
  BY CredentialsAssumption DEF SafeInv, Inv, StoreInv, SessionOfAccount
<1> QED BY <1>1, AlwaysSafe, PTL

\* Turns may refresh the same token at once: the stored refresh token is the one
\* the server takes, unless one is on its way into the store or was lost with a
\* reply, a failed save or the process.  (refresh_into)
THEOREM RefreshTokenIsLiveHolds == Spec => []RefreshTokenIsLive
<1>1. SafeInv => RefreshTokenIsLive
  BY DEF SafeInv, Inv, Kept, RefreshTokenIsLive
<1> QED BY <1>1, AlwaysSafe, PTL
=============================================================================
