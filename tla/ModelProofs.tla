---------------------------- MODULE ModelProofs -----------------------------
(***************************************************************************)
(* Proofs about the way to the model.  About ModelStream, for every        *)
(* provider, transcript and length of the response: how often a request is *)
(* sent, what is sent of a transcript, how a call of the model ends for    *)
(* the turn that listens to it, and what the turn has heard by then.       *)
(* About Composer, for every limit, list and number of tasks: that the     *)
(* tags of the input line lead to what is attached, that what is shown is  *)
(* what is asked, and that the picker points at a model.                   *)
(***************************************************************************)
EXTENDS ModelStream, Composer, SequenceTheorems, FiniteSetTheorems, WellFoundedInduction,
        TLAPS

-----------------------------------------------------------------------------
(* Sequences, whatever is in them.                                         *)

IsSeq(s) == s \in Seq({s[i] : i \in DOMAIN s})

LEMMA SeqIsSeq ==
    ASSUME NEW S, NEW s \in Seq(S)
    PROVE  IsSeq(s) /\ DOMAIN s = 1..Len(s) /\ Len(s) \in Nat
<1>1. DOMAIN s = 1..Len(s) /\ Len(s) \in Nat
  OBVIOUS
<1>2. s = [i \in 1..Len(s) |-> s[i]]
  OBVIOUS
<1> DEFINE R == {s[i] : i \in DOMAIN s}
<1>3. \A i \in 1..Len(s) : s[i] \in R
  BY <1>1
<1>4. s \in Seq(R)
  <2> HIDE DEF R
  <2> QED BY <1>1, <1>2, <1>3
<1> QED BY <1>1, <1>4 DEF IsSeq

LEMMA EmptyIsSeq == IsSeq(<<>>) /\ Len(<<>>) = 0
BY DEF IsSeq

LEMMA OneIsSeq ==
    ASSUME NEW e
    PROVE  IsSeq(<<e>>) /\ Len(<<e>>) = 1 /\ <<e>>[1] = e
<1>1. <<e>> \in Seq({e})
  OBVIOUS
<1> QED BY <1>1, SeqIsSeq

LEMMA TwoIsSeq ==
    ASSUME NEW d, NEW e
    PROVE  IsSeq(<<d, e>>) /\ Len(<<d, e>>) = 2 /\ <<d, e>>[1] = d /\ <<d, e>>[2] = e
<1>1. <<d, e>> \in Seq({d, e})
  OBVIOUS
<1> QED BY <1>1, SeqIsSeq

LEMMA ListIsSeq ==
    ASSUME NEW n \in Nat, NEW f, DOMAIN f = 1..n, f = [i \in 1..n |-> f[i]]
    PROVE  IsSeq(f) /\ Len(f) = n
<1> DEFINE R == {f[i] : i \in DOMAIN f}
<1>1. \A i \in 1..n : f[i] \in R
  OBVIOUS
<1>2. f \in Seq(R)
  <2> HIDE DEF R
  <2> QED BY <1>1
<1>3. Len(f) = n
  <2> HIDE DEF R
  <2> QED BY <1>2
<1> QED BY <1>2, <1>3 DEF IsSeq

\* An empty sequence and one of no length are the same.
LEMMA NoLength ==
    ASSUME NEW s, IsSeq(s)
    PROVE  s = <<>> <=> Len(s) = 0
BY DEF IsSeq

LEMMA ConcatFacts ==
    ASSUME NEW s, NEW t, IsSeq(s), IsSeq(t)
    PROVE  /\ IsSeq(s \o t)
           /\ Len(s) \in Nat /\ Len(t) \in Nat
           /\ DOMAIN s = 1..Len(s) /\ DOMAIN t = 1..Len(t) /\ DOMAIN (s \o t) = 1..Len(s \o t)
           /\ Len(s \o t) = Len(s) + Len(t)
           /\ \A i \in 1..Len(s) : (s \o t)[i] = s[i]
           /\ \A i \in 1..Len(t) : (s \o t)[Len(s) + i] = t[i]
           /\ \A i \in (Len(s) + 1)..(Len(s) + Len(t)) : (s \o t)[i] = t[i - Len(s)]
<1> DEFINE S == {s[i] : i \in DOMAIN s}
           T == {t[i] : i \in DOMAIN t}
<1>1. s \in Seq(S) /\ t \in Seq(T)
  BY DEF IsSeq
<1> HIDE DEF S, T
<1>2. s \in Seq(S \union T) /\ t \in Seq(S \union T)
  BY <1>1
<1>3. s \o t \in Seq(S \union T)
  BY <1>2
<1>4. IsSeq(s \o t)
  BY <1>3, SeqIsSeq
<1> QED BY <1>2, <1>3, <1>4, ConcatProperties

LEMMA AppendFacts ==
    ASSUME NEW s, NEW e, IsSeq(s)
    PROVE  /\ IsSeq(Append(s, e))
           /\ Len(s) \in Nat /\ DOMAIN s = 1..Len(s)
           /\ DOMAIN Append(s, e) = 1..(Len(s) + 1)
           /\ Len(Append(s, e)) = Len(s) + 1
           /\ \A i \in 1..Len(s) : Append(s, e)[i] = s[i]
           /\ Append(s, e)[Len(s) + 1] = e
<1> DEFINE S == {s[i] : i \in DOMAIN s}
<1>1. s \in Seq(S)
  BY DEF IsSeq
<1> HIDE DEF S
<1>2. s \in Seq(S \union {e})
  BY <1>1
<1>3. Append(s, e) \in Seq(S \union {e})
  BY <1>2
<1>4. IsSeq(Append(s, e)) /\ IsSeq(s)
  BY <1>3, SeqIsSeq
<1> QED BY <1>2, <1>3, <1>4, AppendProperties

LEMMA SubSeqFacts ==
    ASSUME NEW s, IsSeq(s), NEW m \in 1..(Len(s) + 1), NEW n \in Nat, n <= Len(s), m <= n + 1
    PROVE  /\ IsSeq(SubSeq(s, m, n))
           /\ DOMAIN SubSeq(s, m, n) = 1..(n - m + 1)
           /\ Len(SubSeq(s, m, n)) = n - m + 1
           /\ \A i \in 1..(n - m + 1) : SubSeq(s, m, n)[i] = s[m + i - 1]
<1> DEFINE S == {s[i] : i \in DOMAIN s}
<1>1. s \in Seq(S)
  BY DEF IsSeq
<1> HIDE DEF S
<1>2. Len(s) \in Nat /\ \A i \in m..n : s[i] \in S
  BY <1>1
<1>3. /\ SubSeq(s, m, n) \in Seq(S)
      /\ Len(SubSeq(s, m, n)) = n - m + 1
      /\ \A i \in 1..(n - m + 1) : SubSeq(s, m, n)[i] = s[m + i - 1]
  BY <1>2, SubSeqProperties
<1> QED BY <1>3, SeqIsSeq

\* Sequences of the same length and members are the same.
LEMMA SameSeq ==
    ASSUME NEW a, NEW b, IsSeq(a), IsSeq(b), Len(a) = Len(b), \A i \in 1..Len(a) : a[i] = b[i]
    PROVE  a = b
<1>1. DOMAIN a = 1..Len(a) /\ DOMAIN b = 1..Len(b)
  BY AppendFacts
<1>2. a = [i \in DOMAIN a |-> a[i]] /\ b = [i \in DOMAIN b |-> b[i]]
  BY DEF IsSeq
<1> QED BY <1>1, <1>2

\* What is put together in either order is the same.
LEMMA SeqAssociative ==
    ASSUME NEW a, NEW b, NEW c, IsSeq(a), IsSeq(b), IsSeq(c)
    PROVE  (a \o b) \o c = a \o (b \o c)
<1> DEFINE A == {a[i] : i \in DOMAIN a}
           B == {b[i] : i \in DOMAIN b}
           C == {c[i] : i \in DOMAIN c}
           D == A \union B \union C
<1>1. a \in Seq(A) /\ b \in Seq(B) /\ c \in Seq(C)
  BY DEF IsSeq
<1> HIDE DEF A, B, C
<1>2. a \in Seq(D) /\ b \in Seq(D) /\ c \in Seq(D)
  BY <1>1
<1> HIDE DEF D
<1> QED BY <1>2, ConcatAssociative

-----------------------------------------------------------------------------
(* The requests of one call.                                               *)

Key(attempt) == <<attempt.session, attempt.model, attempt.api>>

Attempts == [session : {1, 2}, model : {"active", "listed"}, api : Apis, outcome : Outcomes]

\* The last request says which have been sent: no later session, and none for the
\* model of a fresh list while it is for the active one.
AttemptInv ==
    /\ attempts \in Seq(Attempts)
    /\ \A i, j \in DOMAIN attempts : i # j => Key(attempts[i]) # Key(attempts[j])
    /\ \A i \in DOMAIN attempts :
          /\ attempts[i].session <= Latest.session
          /\ Latest.model = "active" => attempts[i].model = "active"

\* A request that is like none before keeps the invariant.
LEMMA AttemptIsNew ==
    ASSUME AttemptInv, NEW session \in {1, 2}, NEW model \in {"active", "listed"}, NEW api \in Apis,
           Attempt(session, model, api),
           \A i \in DOMAIN attempts :
              /\ Key(attempts[i]) # <<session, model, api>>
              /\ attempts[i].session <= session
              /\ model = "active" => attempts[i].model = "active"
    PROVE  AttemptInv'
<1>1. PICK o \in Outcomes :
         attempts' = Append(attempts, [session |-> session, model |-> model,
                                       api |-> api, outcome |-> o])
  BY DEF Attempt
<1> DEFINE new == [session |-> session, model |-> model, api |-> api, outcome |-> o]
<1>2. new \in Attempts /\ new.session = session /\ new.model = model /\ new.api = api
  BY DEF Attempts
<1>3. Key(new) = <<session, model, api>>
  BY <1>2 DEF Key
<1>4. attempts' = Append(attempts, new)
  BY <1>1
<1> HIDE DEF new
<1>5. attempts \in Seq(Attempts)
  BY DEF AttemptInv
<1>6. /\ attempts' \in Seq(Attempts)
      /\ Len(attempts') = Len(attempts) + 1
      /\ DOMAIN attempts' = 1..(Len(attempts) + 1) /\ DOMAIN attempts = 1..Len(attempts)
      /\ \A i \in 1..Len(attempts) : attempts'[i] = attempts[i]
      /\ attempts'[Len(attempts) + 1] = new
  BY <1>2, <1>4, <1>5
<1>7. \A i, j \in DOMAIN attempts' : i # j => Key(attempts'[i]) # Key(attempts'[j])
  <2> SUFFICES ASSUME NEW i \in DOMAIN attempts', NEW j \in DOMAIN attempts', i < j
               PROVE  Key(attempts'[i]) # Key(attempts'[j])
    BY <1>6
  <2>1. i \in DOMAIN attempts /\ attempts'[i] = attempts[i]
    BY <1>5, <1>6
  <2>2. CASE j \in DOMAIN attempts
    BY <1>6, <2>1, <2>2 DEF AttemptInv
  <2>3. CASE j = Len(attempts) + 1
    BY <1>3, <1>6, <2>1, <2>3
  <2> QED BY <1>5, <1>6, <2>2, <2>3
<1>8. Latest' = new
  BY <1>6 DEF Latest
<1>9. \A i \in DOMAIN attempts' :
         /\ attempts'[i].session <= session
         /\ model = "active" => attempts'[i].model = "active"
  <2> TAKE i \in DOMAIN attempts'
  <2>1. CASE i \in DOMAIN attempts
    BY <1>6, <2>1
  <2>2. CASE i = Len(attempts) + 1
    BY <1>2, <1>6, <2>2
  <2> QED BY <1>5, <1>6, <2>1, <2>2
<1> QED BY <1>2, <1>6, <1>7, <1>8, <1>9 DEF AttemptInv

LEMMA AttemptInit == Init => AttemptInv
BY DEF Init, AttemptInv

LEMMA AttemptStep == AttemptInv /\ [Next]_streamVars => AttemptInv'
<1> SUFFICES ASSUME AttemptInv, [Next]_streamVars
             PROVE  AttemptInv'
  OBVIOUS
<1>1. CASE UNCHANGED attempts
  BY <1>1 DEF AttemptInv, Latest
<1>2. CASE attempts' = <<>>
  BY <1>2 DEF AttemptInv
<1>3. CASE SendFirst
  <2>1. CASE \E api \in Apis : Attempt(1, "active", api)
    <3>1. PICK api \in Apis : Attempt(1, "active", api)
      BY <2>1
    <3>2. DOMAIN attempts = {}
      BY <1>3 DEF SendFirst
    <3> QED BY <3>1, <3>2, AttemptIsNew
  <2> QED BY <1>2, <1>3, <2>1 DEF SendFirst, Fail
<1>4. ASSUME attempts # <<>>
      PROVE  /\ Latest \in Attempts /\ Len(attempts) \in DOMAIN attempts
             /\ Latest = attempts[Len(attempts)]
             /\ \A i \in DOMAIN attempts : attempts[i] \in Attempts
  <2>1. attempts \in Seq(Attempts)
    BY DEF AttemptInv
  <2>2. Len(attempts) \in DOMAIN attempts
    BY <1>4, <2>1
  <2> QED BY <2>1, <2>2 DEF Latest
<1>5. CASE FallBack
  <2>1. /\ attempts # <<>>
        /\ Attempt(Latest.session, "active", OtherApi(Latest.api))
        /\ Latest.model = "active" /\ Latest.api # "messages"
        /\ Cardinality({i \in DOMAIN attempts : attempts[i].session = Latest.session}) = 1
    BY <1>5 DEF FallBack, MayFallBack
  <2> DEFINE S == {i \in DOMAIN attempts : attempts[i].session = Latest.session}
  <2>2. IsFiniteSet(S)
    <3>1. DOMAIN attempts = 1..Len(attempts) /\ Len(attempts) \in Nat
      BY DEF AttemptInv
    <3>2. IsFiniteSet(1..Len(attempts))
      BY <3>1, FS_Interval
    <3> QED BY <3>1, <3>2, FS_Subset
  <2>3. PICK x : S = {x}
    BY <2>1, <2>2, FS_Singleton
  <2>4. \A i \in S : i = Len(attempts)
    BY <1>4, <2>1, <2>3
  <2>5. OtherApi(Latest.api) \in Apis /\ OtherApi(Latest.api) # Latest.api
    BY <1>4, <2>1 DEF OtherApi, Apis, Attempts
  <2>6. \A i \in DOMAIN attempts :
           /\ Key(attempts[i]) # <<Latest.session, "active", OtherApi(Latest.api)>>
           /\ attempts[i].session <= Latest.session
           /\ attempts[i].model = "active"
    BY <1>4, <2>1, <2>4, <2>5 DEF AttemptInv, Key
  <2>7. Latest.session \in {1, 2}
    BY <1>4, <2>1 DEF Attempts
  <2> QED BY <2>1, <2>5, <2>6, <2>7, AttemptIsNew
<1>6. ASSUME NEW outcome, attempts # <<>>, FirstTry(outcome)
      PROVE  \A i \in DOMAIN attempts : attempts[i].session = 1 /\ attempts[i].model = "active"
  BY <1>4, <1>6 DEF FirstTry, AttemptInv, Attempts
<1>7. CASE Refresh
  <2>1. attempts # <<>> /\ FirstTry("unauthorized")
    BY <1>7 DEF Refresh
  <2>2. CASE \E api \in Apis : Attempt(2, "active", api)
    <3>1. PICK api \in Apis : Attempt(2, "active", api)
      BY <2>2
    <3> QED BY <1>6, <2>1, <3>1, AttemptIsNew DEF Key
  <2> QED BY <1>2, <1>7, <2>2 DEF Refresh, Fail
<1>8. CASE SendListed
  <2>1. attempts # <<>> /\ FirstTry("model_not_supported")
    BY <1>8 DEF SendListed
  <2>2. CASE \E api \in Apis : Attempt(1, "listed", api)
    <3>1. PICK api \in Apis : Attempt(1, "listed", api)
      BY <2>2
    <3> QED BY <1>6, <2>1, <3>1, AttemptIsNew DEF Key
  <2> QED BY <1>2, <1>8, <2>2 DEF SendListed, Fail
<1>9. CASE SendOnce \/ Conclude \/ ReadFails
  BY <1>2, <1>9 DEF SendOnce, Conclude, ReadFails, Open, Fail
<1>10. CASE Prepare \/ Say \/ Close \/ Receive \/ ReadLine \/ ReadRest \/ Finish
  BY <1>1, <1>10 DEF Prepare, Say, Close, Receive, ReadLine, ReadRest, Finish
<1> QED BY <1>1, <1>3, <1>5, <1>7, <1>8, <1>9, <1>10 DEF Next, streamVars

\* Copilot is never asked the same thing twice: however the server refuses, no
\* request goes out again with the session, model and API of one before it, so the
\* fallbacks of stream_turn end.  (providers/copilot.rs, stream_turn)
THEOREM EachAttemptOnceHolds == Spec => []EachAttemptOnce
<1>1. AttemptInv => EachAttemptOnce
  BY DEF AttemptInv, EachAttemptOnce, Key
<1> QED BY <1>1, AttemptInit, AttemptStep, PTL DEF Spec

-----------------------------------------------------------------------------
(* What a response becomes.                                                *)

\* s has no end in it; the n-th event of s is its first end.
Silent(s)    == \A i \in DOMAIN s : ~IsEnd(s[i])
EndsAt(s, n) == n \in DOMAIN s /\ IsEnd(s[n]) /\ \A i \in 1..(n - 1) : ~IsEnd(s[i])

\* A provider that does not look has met a last line without its end.
Overlooked == said.cut /\ provider \in {"openai_compat", "account"}

\* A last part that is not the end of a line was the last the server said.
Whole(s) == s # <<>> => s[Len(s)].part = "end"

StreamInv ==
    /\ IsSeq(events) /\ IsSeq(wire) /\ IsSeq(buffer)
    /\ IsFiniteSet(DOMAIN calls) /\ (provider = "account" => DOMAIN calls = {})
    /\ DOMAIN said = {"text", "calls", "lines", "last", "cut"} /\ said.cut \in BOOLEAN
    /\ provider \in Providers
    /\ pc \in {"preparing", "sending", "reading", "finishing", "done"}

WholeInv == ~said.cut => Whole(wire) /\ (wire = <<>> => Whole(buffer))

EndInv ==
    /\ pc \notin {"finishing", "done"} => Silent(events)
    /\ pc = "finishing" =>
          Silent(events) \/ (EndsAt(events, Len(events)) /\ Overlooked /\ DOMAIN calls = {})
    /\ pc = "done" =>
          \/ EndsAt(events, Len(events))
          \/ /\ Len(events) > 1 /\ EndsAt(events, Len(events) - 1)
             /\ events[Len(events)] = Done /\ Overlooked

\* What the events of a step come to: none of them an end, or the last alone.
Adds(new) == IsSeq(new) /\ events' = events \o new
Quietly   == \E new : Adds(new) /\ Silent(new)
Ending(e) == \E new : Adds(new) /\ EndsAt(new, Len(new)) /\ new[Len(new)] = e

LEMMA QuietlyFacts ==
    ASSUME IsSeq(events), Quietly
    PROVE  /\ IsSeq(events')
           /\ Silent(events) => Silent(events')
<1>1. PICK new : Adds(new) /\ Silent(new)
  BY DEF Quietly
<1> QED BY <1>1, ConcatFacts DEF Adds, Silent

LEMMA EndingFacts ==
    ASSUME IsSeq(events), NEW e, Ending(e)
    PROVE  /\ IsSeq(events') /\ Len(events') \in Nat
           /\ Silent(events) => EndsAt(events', Len(events')) /\ events'[Len(events')] = e
<1>1. PICK new : Adds(new) /\ EndsAt(new, Len(new)) /\ new[Len(new)] = e
  BY DEF Ending
<1>2. /\ IsSeq(events') /\ Len(events') = Len(events) + Len(new)
      /\ Len(events) \in Nat /\ Len(new) \in Nat
      /\ DOMAIN events = 1..Len(events) /\ DOMAIN new = 1..Len(new)
      /\ DOMAIN events' = 1..Len(events')
      /\ \A i \in 1..Len(events) : events'[i] = events[i]
      /\ \A i \in 1..Len(new) : events'[Len(events) + i] = new[i]
      /\ \A i \in (Len(events) + 1)..(Len(events) + Len(new)) : events'[i] = new[i - Len(events)]
  BY <1>1, ConcatFacts DEF Adds
<1>3. Len(new) \in 1..Len(new) /\ events'[Len(events')] = new[Len(new)]
  BY <1>1, <1>2 DEF EndsAt
<1>4. ASSUME Silent(events) PROVE \A i \in 1..(Len(events') - 1) : ~IsEnd(events'[i])
  <2> TAKE i \in 1..(Len(events') - 1)
  <2>1. CASE i <= Len(events)
    BY <1>2, <1>4, <2>1 DEF Silent
  <2>2. CASE i > Len(events)
    <3>1. i - Len(events) \in 1..(Len(new) - 1) /\ events'[i] = new[i - Len(events)]
      BY <1>2, <2>2
    <3> QED BY <1>1, <3>1 DEF EndsAt
  <2> QED BY <1>2, <2>1, <2>2
<1> QED BY <1>1, <1>2, <1>3, <1>4 DEF EndsAt

LEMMA QuietEmit ==
    ASSUME NEW new, IsSeq(new), Silent(new), Emit(new)
    PROVE  Quietly /\ calls' = calls
BY DEF Emit, Quietly, Adds

LEMMA NoEmit ==
    ASSUME Emit(<<>>)
    PROVE  Quietly /\ calls' = calls
BY QuietEmit, EmptyIsSeq DEF Silent

LEMMA OneEmit ==
    ASSUME NEW e, Emit(<<e>>)
    PROVE  /\ ~IsEnd(e) => Quietly
           /\ IsEnd(e) => Ending(e)
           /\ calls' = calls
<1>1. DOMAIN <<e>> = {1}
  OBVIOUS
<1>2. ASSUME ~IsEnd(e) PROVE Quietly
  BY <1>1, <1>2, QuietEmit, OneIsSeq DEF Silent
<1>3. ASSUME IsEnd(e) PROVE Ending(e)
  <2>1. Adds(<<e>>) /\ EndsAt(<<e>>, 1)
    BY <1>1, <1>3, OneIsSeq DEF Emit, Adds, EndsAt
  <2> QED BY <2>1, OneIsSeq DEF Ending
<1> QED BY <1>2, <1>3 DEF Emit

\* The accumulators are drained into ends of calls and what follows them.
LEMMA Drained ==
    ASSUME NEW then, IsFiniteSet(DOMAIN calls), IsSeq(events), EmitPendingToolEnds(then)
    PROVE  /\ then = <<>> => Quietly
           /\ \A e : then = <<e>> /\ IsEnd(e) => Ending(e)
           /\ IsFiniteSet(DOMAIN calls') /\ DOMAIN calls' = {}
           /\ DOMAIN calls = {} => events' = events \o then
<1> DEFINE S == {i \in DOMAIN calls : calls[i].started}
           EndsOf(order) == [k \in DOMAIN order |-> [kind |-> "call_end", id |-> order[k],
                                                  args |-> calls[order[k]].args]]
<1>1. PICK order \in SetToSeqs(S) : events' = events \o EndsOf(order) \o then
  BY DEF EmitPendingToolEnds
<1>2. Cardinality(S) \in Nat
  BY FS_Subset, FS_CardinalityType
<1>3. DOMAIN order = 1..Cardinality(S)
  <2> HIDE DEF S
  <2> QED BY <1>1 DEF SetToSeqs
<1> DEFINE ends == EndsOf(order)
<1>4. IsSeq(ends) /\ DOMAIN ends = 1..Len(ends) /\ Len(ends) \in Nat
  <2>1. DOMAIN ends = 1..Cardinality(S) /\ ends = [k \in 1..Cardinality(S) |-> ends[k]]
    BY <1>3
  <2> HIDE DEF ends, S
  <2> QED BY <1>2, <2>1, ListIsSeq
<1>5. Silent(ends)
  BY DEF Silent, IsEnd
<1>6. IsFiniteSet(DOMAIN calls') /\ DOMAIN calls' = {}
  <2>1. calls' = <<>>
    BY DEF EmitPendingToolEnds
  <2>2. DOMAIN calls' = {}
    BY <2>1
  <2> QED BY <2>2, FS_EmptySet
<1>7. events' = (events \o ends) \o then
  BY <1>1
<1>7a. DOMAIN calls = {} => ends = <<>>
  <2> SUFFICES ASSUME DOMAIN calls = {} PROVE ends = <<>>
    OBVIOUS
  <2>1. S = {}
    OBVIOUS
  <2>2. DOMAIN ends = 1..0
    <3> HIDE DEF S
    <3> QED BY <1>3, <2>1, FS_EmptySet
  <2> HIDE DEF ends
  <2> QED BY <1>4, <2>2, NoLength
<1> HIDE DEF ends, S
<1>7b. ASSUME DOMAIN calls = {} PROVE events' = events \o then
  <2>1. events \o <<>> = events
    BY ConcatEmptySeq DEF IsSeq
  <2> QED BY <1>7, <1>7a, <1>7b, <2>1
<1>8. ASSUME then = <<>> PROVE Quietly
  <2>1. events' = events \o ends
    BY <1>4, <1>7, <1>8, ConcatFacts, EmptyIsSeq DEF IsSeq
  <2> QED BY <1>4, <1>5, <2>1 DEF Quietly, Adds
<1>9. ASSUME NEW e, then = <<e>>, IsEnd(e) PROVE Ending(e)
  <2>1. IsSeq(<<e>>) /\ Len(<<e>>) = 1 /\ <<e>>[1] = e
    BY OneIsSeq
  <2> DEFINE all == ends \o <<e>>
  <2>2. /\ IsSeq(all) /\ Len(all) = Len(ends) + 1 /\ DOMAIN all = 1..(Len(ends) + 1)
        /\ \A i \in 1..Len(ends) : all[i] = ends[i]
        /\ all[Len(ends) + 1] = e
    BY <1>4, <2>1, ConcatFacts
  <2>3. events' = events \o all
    <3>1. (events \o ends) \o <<e>> = events \o (ends \o <<e>>)
      BY <1>4, <2>1, SeqAssociative
    <3> QED BY <1>7, <1>9, <3>1
  <2> HIDE DEF all
  <2>4. EndsAt(all, Len(all)) /\ all[Len(all)] = e
    BY <1>4, <1>5, <1>9, <2>2 DEF EndsAt, Silent
  <2> QED BY <2>2, <2>3, <2>4 DEF Ending, Adds
<1> QED BY <1>6, <1>7b, <1>8, <1>9

LEMMA AccumulateIsQuiet ==
    ASSUME NEW ln, IsFiniteSet(DOMAIN calls), IsSeq(events), Accumulate(ln)
    PROVE  Quietly /\ IsFiniteSet(DOMAIN calls')
<1> DEFINE call   == Accumulated(ln)
           starts == call.started /\ ~(ln.index \in DOMAIN calls /\ calls[ln.index].started)
           one    == IF starts THEN <<[kind |-> "call_start", id |-> ln.index]>> ELSE <<>>
           two    == IF call.started /\ ln.args # <<>>
                     THEN <<[kind |-> "call_args", id |-> ln.index, args |-> ln.args]>>
                     ELSE <<>>
<1>1. events' = (events \o one) \o two
  BY DEF Accumulate
<1>2. IsSeq(one) /\ Silent(one)
  BY EmptyIsSeq, OneIsSeq DEF Silent, IsEnd
<1>3. IsSeq(two) /\ Silent(two)
  BY EmptyIsSeq, OneIsSeq DEF Silent, IsEnd
<1>4. DOMAIN calls' = {ln.index} \union DOMAIN calls
  BY DEF Accumulate
<1>5. IsFiniteSet(DOMAIN calls')
  BY <1>4, FS_AddElement
<1> HIDE DEF one, two
<1>6. events' = events \o (one \o two)
  <2>1. (events \o one) \o two = events \o (one \o two)
    BY <1>2, <1>3, SeqAssociative
  <2> QED BY <1>1, <2>1
<1>7. IsSeq(one \o two) /\ Silent(one \o two)
  <2>1. DOMAIN (one \o two) = 1..(Len(one) + Len(two))
    BY <1>2, <1>3, ConcatFacts
  <2>2. ASSUME NEW i \in DOMAIN (one \o two) PROVE ~IsEnd((one \o two)[i])
    <3>1. CASE i \in 1..Len(one)
      BY <1>2, <1>3, <3>1, ConcatFacts DEF Silent
    <3>2. CASE i \in (Len(one) + 1)..(Len(one) + Len(two))
      <4>1. (one \o two)[i] = two[i - Len(one)]
        BY <1>2, <1>3, <3>2, ConcatFacts
      <4>2. DOMAIN two = 1..Len(two) /\ Len(two) \in Nat /\ Len(one) \in Nat
        BY <1>2, <1>3, ConcatFacts
      <4>3. i - Len(one) \in DOMAIN two
        BY <3>2, <4>2
      <4> QED BY <1>3, <4>1, <4>3 DEF Silent
    <3> QED BY <1>2, <1>3, <2>1, <3>1, <3>2, ConcatFacts
  <2> QED BY <1>2, <1>3, <2>2, ConcatFacts DEF Silent
<1> QED BY <1>5, <1>6, <1>7 DEF Quietly, Adds

\* A line adds no end when there is more to come, and one as its last event when
\* it was the end or the provider fails.
LEMMA PartsHandled ==
    ASSUME NEW parts, NEW then \in Outcome,
           IsFiniteSet(DOMAIN calls), IsSeq(events), HandleParts(parts, then)
    PROVE  /\ then = "more" => Quietly
           /\ then # "more" => \E e : Ending(e)
           /\ IsFiniteSet(DOMAIN calls')
<1> DEFINE ln == parts[1].line
           number == parts[1].number
<1>1. IsEnd(Done) /\ IsEnd(Error) /\ ~IsEnd(Event("usage")) /\ ~IsEnd(Event("reasoning"))
      /\ ~IsEnd([kind |-> "text", number |-> number])
  BY DEF IsEnd, Done, Error, Event
<1>2. CASE HandleGarbage(then)
  BY <1>1, <1>2, NoEmit, OneEmit DEF HandleGarbage
<1>3. CASE HandleLine(ln, number, then)
  <2>1. CASE ln.kind \in {"text", "usage"}
    BY <1>1, <1>3, <2>1, OneEmit DEF HandleLine
  <2>2. CASE ln.kind = "call"
    BY <1>3, <2>2, AccumulateIsQuiet DEF HandleLine
  <2>3. CASE ln.kind = "finish"
    BY <1>3, <2>3, Drained DEF HandleLine
  <2>4. CASE ln.kind = "end"
    BY <1>1, <1>3, <2>4, Drained DEF HandleLine
  <2>5. CASE ln.kind = "failed" /\ provider = "ollama"
    BY <1>1, <1>3, <2>5, OneEmit DEF HandleLine
  <2>6. CASE /\ ln.kind \notin {"text", "usage", "call", "finish", "end"}
             /\ ~(ln.kind = "failed" /\ provider = "ollama")
    BY <1>3, <2>6, NoEmit DEF HandleLine
  <2> QED BY <2>1, <2>2, <2>3, <2>4, <2>5, <2>6
<1>4. CASE HandleBlock(ln, number, then)
  <2>1. CASE ln.kind = "text"
    BY <1>1, <1>4, <2>1, OneEmit DEF HandleBlock
  <2>2. CASE ln.kind = "reasoning"
    BY <1>1, <1>4, <2>2, OneEmit DEF HandleBlock
  <2>3. CASE ln.kind = "end"
    <3>1. then = "end" /\ Emit(<<Event("usage"), Done>>)
      BY <1>4, <2>3 DEF HandleBlock
    <3> DEFINE two == <<Event("usage"), Done>>
    <3>2. IsSeq(two) /\ Len(two) = 2 /\ two[1] = Event("usage") /\ two[2] = Done
      BY TwoIsSeq
    <3>3. DOMAIN two = 1..2
      OBVIOUS
    <3>4. EndsAt(two, Len(two)) /\ Adds(two)
      <4> HIDE DEF two
      <4>1. events' = events \o two
        BY <3>1 DEF Emit, two
      <4> QED BY <1>1, <3>2, <3>3, <4>1 DEF EndsAt, Adds
    <3> QED BY <3>1, <3>4 DEF Ending, Emit
  <2>4. CASE ln.kind = "failed"
    BY <1>1, <1>4, <2>4, OneEmit DEF HandleBlock
  <2>5. CASE ln.kind \notin {"text", "reasoning", "end", "failed"}
    BY <1>4, <2>5, NoEmit DEF HandleBlock
  <2> QED BY <2>1, <2>2, <2>3, <2>4, <2>5
<1> QED BY <1>2, <1>3, <1>4 DEF HandleParts

\* What ends a response leaves no accumulators, and ChatGPT's blocks fill none.
LEMMA CallsHandled ==
    ASSUME NEW parts, NEW then \in Outcome,
           IsFiniteSet(DOMAIN calls), IsSeq(events), HandleParts(parts, then),
           provider = "account" => DOMAIN calls = {}
    PROVE  /\ provider = "account" => DOMAIN calls' = {}
           /\ then = "end" => DOMAIN calls' = {}
<1> DEFINE ln == parts[1].line
           number == parts[1].number
<1>1. CASE HandleGarbage(then)
  BY <1>1 DEF HandleGarbage, Emit
<1>2. CASE provider = "account" /\ HandleBlock(ln, number, then)
  BY <1>2 DEF HandleBlock, Emit
<1>3. CASE provider # "account" /\ HandleLine(ln, number, then)
  <2>1. CASE ln.kind = "end"
    BY <1>3, <2>1, Drained DEF HandleLine
  <2>2. CASE ln.kind # "end"
    <3>1. then # "end"
      BY <1>3, <2>2 DEF HandleLine
    <3> QED BY <1>3, <3>1
  <2> QED BY <2>1, <2>2
<1> QED BY <1>1, <1>2, <1>3 DEF HandleParts

-----------------------------------------------------------------------------
(* The invariant of the response.                                          *)

StreamInvs == StreamInv /\ WholeInv /\ EndInv

LEMMA StreamInit == Init => StreamInvs
<1> SUFFICES ASSUME Init PROVE StreamInvs
  OBVIOUS
<1>1. IsFiniteSet(DOMAIN calls) /\ DOMAIN calls = {}
  <2>1. DOMAIN calls = {}
    BY DEF Init
  <2> QED BY <2>1, FS_EmptySet
<1>2. StreamInv
  BY <1>1, EmptyIsSeq DEF Init, StreamInv
<1> QED BY <1>2 DEF StreamInvs, WholeInv, EndInv, Init, Whole, Silent

\* The only event of a call that fails.
LEMMA FailEnds ==
    ASSUME StreamInvs, pc \notin {"finishing", "done"}, Fail
    PROVE  StreamInvs'
<1>1. IsSeq(events) /\ Silent(events)
  BY DEF StreamInvs, StreamInv, EndInv
<1>2. EndsAt(events', Len(events')) /\ IsSeq(events')
  BY <1>1, AppendFacts DEF Fail, EndsAt, Silent, IsEnd, Error, Event
<1>3. StreamInv' /\ WholeInv'
  BY <1>2 DEF StreamInvs, StreamInv, WholeInv, Whole, Fail
<1> QED BY <1>2, <1>3 DEF StreamInvs, EndInv, Fail

\* What leaves the response and the events alone.
LEMMA NothingHeard ==
    ASSUME StreamInvs, pc \notin {"finishing", "done"}, pc' \notin {"finishing", "done"},
           pc' \in {"preparing", "sending", "reading"},
           UNCHANGED <<provider, said, wire, buffer, calls, events>>
    PROVE  StreamInvs'
BY DEF StreamInvs, StreamInv, WholeInv, Whole, EndInv

LEMMA SayStep == StreamInvs /\ Say => StreamInvs'
<1> SUFFICES ASSUME StreamInvs, Say PROVE StreamInvs'
  OBVIOUS
<1>1. PICK ln \in Lines, n \in 1..Len(Parts) :
         /\ said' = [(IF n > 1 THEN Saying(ln) ELSE said) EXCEPT
                        !.lines = @ + 1,
                        !.last = IF @ = "finish" /\ ln.kind # "end" THEN @ ELSE ln.kind,
                        !.cut = n < Len(Parts)]
         /\ wire' = wire \o [i \in 1..n |-> [line |-> ln, part |-> Parts[i],
                                            number |-> said.text]]
  BY DEF Say
<1> DEFINE new == [i \in 1..n |-> [line |-> ln, part |-> Parts[i], number |-> said.text]]
<1>2. Len(Parts) \in {3, 4} /\ Parts[Len(Parts)] = "end"
  BY DEF Parts
<1>3. IsSeq(new) /\ Len(new) = n
  <2>1. n \in Nat /\ DOMAIN new = 1..n /\ new = [i \in 1..n |-> new[i]]
    BY <1>2
  <2> HIDE DEF new
  <2> QED BY <2>1, ListIsSeq
<1>4. IsSeq(wire) /\ wire' = wire \o new
  BY <1>1 DEF StreamInvs, StreamInv
<1>5. /\ DOMAIN said' = {"text", "calls", "lines", "last", "cut"}
      /\ said'.cut = (n < Len(Parts))
  <2>1. DOMAIN said = {"text", "calls", "lines", "last", "cut"}
    BY DEF StreamInvs, StreamInv
  <2> DEFINE now == IF n > 1 THEN Saying(ln) ELSE said
  <2>2. DOMAIN now = {"text", "calls", "lines", "last", "cut"}
    BY <2>1 DEF Saying
  <2>3. said' = [now EXCEPT !.lines = @ + 1,
                            !.last = IF @ = "finish" /\ ln.kind # "end" THEN @ ELSE ln.kind,
                            !.cut = n < Len(Parts)]
    BY <1>1
  <2> HIDE DEF now
  <2> QED BY <2>2, <2>3
<1>6. new[n].part = Parts[n]
  OBVIOUS
<1> HIDE DEF new
<1>7. IsSeq(wire') /\ Len(wire') = Len(wire) + n /\ wire'[Len(wire')] = new[n] /\ wire' # <<>>
  <2>1. /\ IsSeq(wire \o new) /\ Len(wire \o new) = Len(wire) + n
        /\ (wire \o new)[Len(wire) + n] = new[n] /\ Len(wire) \in Nat
    BY <1>2, <1>3, <1>4, ConcatFacts
  <2>2. Len(wire') # 0
    BY <1>2, <1>4, <2>1
  <2> QED BY <1>4, <2>1, <2>2, NoLength
<1>8. ~said'.cut => wire'[Len(wire')].part = "end"
  <2>0. ~said'.cut => ~(n < Len(Parts))
    BY ONLY <1>5, Zenon
  <2>1. ~said'.cut => n = Len(Parts)
    BY <1>2, <2>0
  <2> QED BY <1>2, <1>6, <1>7, <2>1
<1>9. StreamInv'
  BY <1>5, <1>7 DEF StreamInvs, StreamInv, Say
<1>10. WholeInv'
  BY <1>7, <1>8 DEF WholeInv, Whole
<1>11. EndInv'
  BY DEF StreamInvs, EndInv, Say
<1> QED BY <1>9, <1>10, <1>11 DEF StreamInvs

LEMMA ReceiveStep == StreamInvs /\ Receive => StreamInvs'
<1> SUFFICES ASSUME StreamInvs, Receive PROVE StreamInvs'
  OBVIOUS
<1>1. PICK n \in 1..Len(wire) :
         /\ buffer' = buffer \o SubSeq(wire, 1, n)
         /\ wire' = SubSeq(wire, n + 1, Len(wire))
  BY DEF Receive
<1>2. IsSeq(buffer) /\ IsSeq(wire) /\ Len(wire) \in Nat /\ Len(buffer) \in Nat
  <2>1. IsSeq(buffer) /\ IsSeq(wire)
    BY DEF StreamInvs, StreamInv
  <2> QED BY <2>1, AppendFacts
<1> DEFINE new == SubSeq(wire, 1, n)
<1>3. IsSeq(new) /\ Len(new) = n /\ new[n] = wire[n]
  BY <1>2, SubSeqFacts
<1>4. /\ IsSeq(wire') /\ Len(wire') = Len(wire) - n
      /\ \A i \in 1..(Len(wire) - n) : wire'[i] = wire[n + i]
  <2>1. n + 1 \in 1..(Len(wire) + 1)
    BY <1>2
  <2> DEFINE rest == SubSeq(wire, n + 1, Len(wire))
  <2>2. /\ IsSeq(rest) /\ Len(rest) = Len(wire) - (n + 1) + 1
        /\ \A i \in 1..(Len(wire) - (n + 1) + 1) : rest[i] = wire[(n + 1) + i - 1]
    <3>1. IsSeq(wire) /\ Len(wire) \in Nat /\ Len(wire) <= Len(wire) /\ n + 1 <= Len(wire) + 1
      BY <1>2
    <3> QED BY ONLY <2>1, <3>1, SubSeqFacts
  <2>3. wire' = rest
    BY <1>1
  <2> HIDE DEF rest
  <2>4. n \in Nat /\ Len(wire) - (n + 1) + 1 = Len(wire) - n
    BY <1>2
  <2>5. \A i \in 1..(Len(wire) - n) : rest[i] = wire[n + i]
    <3> TAKE i \in 1..(Len(wire) - n)
    <3>1. (n + 1) + i - 1 = n + i
      BY <2>4
    <3> QED BY <2>2, <2>4, <3>1
  <2> QED BY <2>2, <2>3, <2>4, <2>5
<1> HIDE DEF new
<1>5. IsSeq(buffer') /\ Len(buffer') = Len(buffer) + n /\ buffer'[Len(buffer')] = wire[n]
  BY <1>1, <1>2, <1>3, ConcatFacts DEF new
<1>6. StreamInv'
  BY <1>4, <1>5 DEF StreamInvs, StreamInv, Receive
<1>7. WholeInv'
  <2> SUFFICES ASSUME ~said.cut PROVE Whole(wire') /\ (wire' = <<>> => Whole(buffer'))
    BY DEF WholeInv, Receive
  <2>1. wire # <<>> /\ wire[Len(wire)].part = "end"
    BY <1>2, NoLength DEF StreamInvs, WholeInv, Whole
  <2>2. CASE wire' = <<>>
    <3>1. n = Len(wire)
      BY <1>2, <1>4, <2>2, NoLength
    <3> QED BY <1>5, <2>1, <2>2, <3>1 DEF Whole
  <2>3. CASE wire' # <<>>
    <3>1. Len(wire) - n \in 1..(Len(wire) - n)
      BY <1>2, <1>4, <2>3, NoLength
    <3>2. wire'[Len(wire')] = wire[Len(wire)]
      BY <1>2, <1>4, <3>1
    <3> QED BY <2>1, <2>3, <3>2 DEF Whole
  <2> QED BY <2>2, <2>3
<1>8. EndInv'
  BY DEF StreamInvs, EndInv, Receive
<1> QED BY <1>6, <1>7, <1>8 DEF StreamInvs

\* A set of numbers has a least one.
LEMMA LeastExists ==
    ASSUME NEW S, S \subseteq Nat, S # {}
    PROVE  \E i \in S : \A j \in S : i <= j
<1>1. \E R : IsWellFoundedOn(R, Nat) /\ \A x, y \in Nat : <<x, y>> \in R <=> x < y
  <2>1. IsWellFoundedOn(OpToRel(<, Nat), Nat)
    BY NatLessThanWellFounded
  <2>2. \A x, y \in Nat : <<x, y>> \in OpToRel(<, Nat) <=> x < y
    BY DEF OpToRel
  <2> QED BY <2>1, <2>2
<1>2. PICK R : IsWellFoundedOn(R, Nat) /\ \A x, y \in Nat : <<x, y>> \in R <=> x < y
  BY ONLY <1>1
<1>3. \E x \in S : \A y \in S : ~(<<y, x>> \in R)
  <2>1. S \subseteq Nat /\ S # {} /\ IsWellFoundedOn(R, Nat)
    BY <1>2
  <2> QED BY ONLY <2>1, WFMin
<1>4. PICK x \in S : \A y \in S : ~(<<y, x>> \in R)
  BY ONLY <1>3
<1>5. \A y \in S : ~(y < x)
  BY ONLY <1>2, <1>4, S \subseteq Nat
<1>6. \A y \in S : x <= y
  BY ONLY <1>5, <1>4, S \subseteq Nat
<1> QED BY ONLY <1>6

\* The first line, if there is one, ends in the buffer.
LEMMA FirstLineFacts ==
    ASSUME IsSeq(buffer)
    PROVE  /\ FirstLine # 0 => /\ FirstLine \in 1..Len(buffer)
                              /\ buffer[FirstLine].part = "end"
                              /\ \A i \in 1..(FirstLine - 1) : buffer[i].part # "end"
           /\ FirstLine = 0 => \A i \in DOMAIN buffer : buffer[i].part # "end"
<1> DEFINE ends == {i \in DOMAIN buffer : buffer[i].part = "end"}
<1>1. DOMAIN buffer = 1..Len(buffer) /\ Len(buffer) \in Nat
  BY AppendFacts
<1>2. ASSUME ends # {} PROVE \E i \in ends : \A j \in ends : i <= j
  <2>1. ends \subseteq Nat
    BY <1>1
  <2> HIDE DEF ends
  <2> QED BY <2>1, <1>2, LeastExists
<1>3. CASE ends = {}
  BY <1>3 DEF FirstLine
<1>4. CASE ends # {}
  <2>1. FirstLine = CHOOSE i \in ends : \A j \in ends : i <= j
    BY <1>4 DEF FirstLine
  <2>2. ends \subseteq 1..Len(buffer)
    BY <1>1
  <2> HIDE DEF ends
  <2>3. FirstLine \in ends /\ \A j \in ends : FirstLine <= j
    BY <1>2, <1>4, <2>1, Zenon
  <2>4. ASSUME NEW i \in 1..(FirstLine - 1) PROVE i \notin ends
    <3>1. FirstLine \in 1..Len(buffer) /\ ~(FirstLine <= i)
      BY <1>1, <2>2, <2>3
    <3> QED BY <2>3, <3>1
  <2>5. FirstLine \in 1..Len(buffer) /\ 1..(FirstLine - 1) \subseteq DOMAIN buffer
    BY <1>1, <2>2, <2>3
  <2> QED BY <1>1, <2>3, <2>4, <2>5 DEF ends
<1> QED BY <1>3, <1>4

LEMMA ReadLineStep == StreamInvs /\ ReadLine => StreamInvs'
<1> SUFFICES ASSUME StreamInvs, ReadLine PROVE StreamInvs'
  OBVIOUS
<1>1. /\ IsSeq(events) /\ IsSeq(wire) /\ IsSeq(buffer) /\ IsFiniteSet(DOMAIN calls)
      /\ Silent(events) /\ pc = "reading"
  BY DEF StreamInvs, StreamInv, EndInv, ReadLine
<1>2. PICK then \in Outcome :
         /\ HandleParts(SubSeq(buffer, 1, FirstLine), then)
         /\ pc' = IF then = "more" THEN "reading" ELSE "done"
  BY DEF ReadLine
<1>3. /\ then = "more" => Quietly
      /\ then # "more" => \E e : Ending(e)
      /\ IsFiniteSet(DOMAIN calls')
      /\ provider = "account" => DOMAIN calls' = {}
      /\ then = "end" => DOMAIN calls' = {}
  <2>1. provider = "account" => DOMAIN calls = {}
    BY DEF StreamInvs, StreamInv
  <2> QED BY <1>1, <1>2, <2>1, PartsHandled, CallsHandled
<1>4. FirstLine \in 1..Len(buffer) /\ Len(buffer) \in Nat
  BY <1>1, FirstLineFacts, AppendFacts DEF ReadLine
<1> DEFINE n == FirstLine
<1> HIDE DEF n
<1>5. /\ IsSeq(buffer') /\ Len(buffer') = Len(buffer) - n
      /\ \A i \in 1..(Len(buffer) - n) : buffer'[i] = buffer[n + i]
  <2>1. n + 1 \in 1..(Len(buffer) + 1)
    BY <1>4 DEF n
  <2> DEFINE rest == SubSeq(buffer, n + 1, Len(buffer))
  <2>2. buffer' = rest
    BY DEF ReadLine, n
  <2>3. /\ IsSeq(rest) /\ Len(rest) = Len(buffer) - (n + 1) + 1
        /\ \A i \in 1..(Len(buffer) - (n + 1) + 1) : rest[i] = buffer[(n + 1) + i - 1]
    BY <1>1, <1>4, <2>1, SubSeqFacts
  <2> HIDE DEF rest
  <2>4. n \in Nat /\ Len(buffer) - (n + 1) + 1 = Len(buffer) - n
    BY <1>4 DEF n
  <2>5. \A i \in 1..(Len(buffer) - n) : rest[i] = buffer[n + i]
    <3> TAKE i \in 1..(Len(buffer) - n)
    <3>1. (n + 1) + i - 1 = n + i
      BY <2>4
    <3> QED BY <2>3, <2>4, <3>1
  <2> QED BY <2>2, <2>3, <2>4, <2>5
<1>6. Whole(buffer) => Whole(buffer')
  <2> SUFFICES ASSUME Whole(buffer), buffer' # <<>> PROVE buffer'[Len(buffer')].part = "end"
    BY DEF Whole
  <2>1. Len(buffer) - n \in 1..(Len(buffer) - n)
    BY <1>4, <1>5, NoLength DEF n
  <2>2. buffer'[Len(buffer')] = buffer[Len(buffer)]
    BY <1>4, <1>5, <2>1 DEF n
  <2> QED BY <1>1, <1>4, <2>2, NoLength DEF Whole
<1>7. IsSeq(events')
  BY <1>1, <1>3, QuietlyFacts, EndingFacts DEF Outcome
<1>8. StreamInv'
  BY <1>2, <1>3, <1>5, <1>7 DEF StreamInvs, StreamInv, ReadLine
<1>9. WholeInv'
  BY <1>6 DEF StreamInvs, WholeInv, ReadLine
<1>10. EndInv'
  <2>1. CASE then = "more"
    BY <1>1, <1>2, <1>3, <2>1, QuietlyFacts DEF EndInv
  <2>2. CASE then # "more"
    BY <1>1, <1>2, <1>3, <2>2, EndingFacts DEF EndInv
  <2> QED BY <2>1, <2>2
<1> QED BY <1>8, <1>9, <1>10 DEF StreamInvs

\* Only a line without its end is left when the response is over.
LEMMA ReadRestStep == StreamInvs /\ ReadRest => StreamInvs'
<1> SUFFICES ASSUME StreamInvs, ReadRest PROVE StreamInvs'
  OBVIOUS
<1>1. /\ IsSeq(events) /\ IsSeq(wire) /\ IsSeq(buffer) /\ IsFiniteSet(DOMAIN calls)
      /\ Silent(events) /\ pc = "reading" /\ wire = <<>> /\ buffer # <<>> /\ FirstLine = 0
  BY DEF StreamInvs, StreamInv, EndInv, ReadRest, EndOfStream
<1>2. PICK then \in Outcome :
         HandleParts(buffer, then) /\ pc' = IF IsOver(then) THEN "done" ELSE "finishing"
  BY DEF ReadRest
<1>3. /\ then = "more" => Quietly
      /\ then # "more" => \E e : Ending(e)
      /\ IsFiniteSet(DOMAIN calls')
      /\ provider = "account" => DOMAIN calls' = {}
      /\ then = "end" => DOMAIN calls' = {}
  <2>1. provider = "account" => DOMAIN calls = {}
    BY DEF StreamInvs, StreamInv
  <2> QED BY <1>1, <1>2, <2>1, PartsHandled, CallsHandled
<1>4. IsSeq(events')
  BY <1>1, <1>3, QuietlyFacts, EndingFacts DEF Outcome
<1>5. IsSeq(<<>>)
  BY EmptyIsSeq
<1>6. said.cut
  <2> SUFFICES ASSUME ~said.cut PROVE FALSE
    OBVIOUS
  <2>1. buffer[Len(buffer)].part = "end"
    BY <1>1 DEF StreamInvs, WholeInv, Whole
  <2>2. Len(buffer) \in DOMAIN buffer
    BY <1>1, NoLength, AppendFacts
  <2> QED BY <1>1, <2>1, <2>2, FirstLineFacts
<1>7. StreamInv'
  BY <1>2, <1>3, <1>4, <1>5 DEF StreamInvs, StreamInv, ReadRest
<1>8. WholeInv'
  BY <1>1 DEF WholeInv, Whole, ReadRest
<1>9. EndInv'
  <2>1. CASE then = "more"
    BY <1>1, <1>2, <1>3, <2>1, QuietlyFacts DEF EndInv, IsOver
  <2>2. CASE then # "more" /\ IsOver(then)
    BY <1>1, <1>2, <1>3, <2>2, EndingFacts DEF EndInv
  <2>3. CASE then # "more" /\ ~IsOver(then)
    <3>1. provider \in {"openai_compat", "account"}
      BY <2>3, StreamAssumption DEF StreamInvs, StreamInv, IsOver, Outcome
    <3>2. Overlooked'
      BY <1>6, <3>1 DEF Overlooked, ReadRest
    <3>3. EndsAt(events', Len(events'))
      BY <1>1, <1>3, <2>3, EndingFacts
    <3>4. DOMAIN calls' = {}
      BY <1>3, <2>3 DEF IsOver, Outcome
    <3> QED BY <1>2, <2>3, <3>2, <3>3, <3>4 DEF EndInv
  <2> QED BY <2>1, <2>2, <2>3
<1> QED BY <1>7, <1>8, <1>9 DEF StreamInvs

LEMMA FinishStep == StreamInvs /\ Finish => StreamInvs'
<1> SUFFICES ASSUME StreamInvs, Finish PROVE StreamInvs'
  OBVIOUS
<1>1. /\ IsSeq(events) /\ IsFiniteSet(DOMAIN calls)
      /\ pc \in {"reading", "finishing"} /\ pc' = "done"
  BY DEF StreamInvs, StreamInv, Finish, EndOfStream
<1>2. IsEnd(Done)
  BY DEF IsEnd, Done, Event
<1>3. Ending(Done) /\ IsFiniteSet(DOMAIN calls')
  BY <1>1, <1>2, Drained DEF Finish
<1>4. IsSeq(events')
  BY <1>1, <1>3, EndingFacts
<1>4a. DOMAIN calls' = {}
  BY <1>1, Drained DEF Finish
<1>5. StreamInv' /\ WholeInv'
  BY <1>1, <1>3, <1>4, <1>4a DEF StreamInvs, StreamInv, WholeInv, Whole, Finish
<1>6. EndInv'
  <2>1. CASE Silent(events)
    BY <1>1, <1>3, <2>1, EndingFacts DEF EndInv
  <2>2. CASE ~Silent(events)
    <3>1. EndsAt(events, Len(events)) /\ Overlooked /\ DOMAIN calls = {}
      BY <1>1, <2>2 DEF StreamInvs, EndInv
    <3>2. events' = events \o <<Done>>
      BY <1>1, <1>2, <3>1, Drained DEF Finish
    <3>3. /\ Len(events') = Len(events) + 1 /\ Len(events) \in Nat
          /\ DOMAIN events = 1..Len(events) /\ DOMAIN events' = 1..(Len(events) + 1)
          /\ \A i \in 1..Len(events) : events'[i] = events[i]
          /\ events'[Len(events) + 1] = Done
      BY <1>1, <3>2, OneIsSeq, ConcatFacts
    <3>4. EndsAt(events', Len(events') - 1) /\ Len(events') > 1
      BY <3>1, <3>3 DEF EndsAt
    <3>5. Overlooked'
      BY <3>1 DEF Overlooked, Finish
    <3> QED BY <1>1, <3>3, <3>4, <3>5 DEF EndInv
  <2> QED BY <2>1, <2>2
<1> QED BY <1>5, <1>6 DEF StreamInvs

LEMMA StreamStep == StreamInvs /\ [Next]_streamVars => StreamInvs'
<1> SUFFICES ASSUME StreamInvs, [Next]_streamVars PROVE StreamInvs'
  OBVIOUS
<1>1. CASE Prepare
  BY <1>1, NothingHeard DEF Prepare
<1>2. CASE Open /\ pc = "sending"
  BY <1>2, NothingHeard DEF Open
<1>3. CASE Fail /\ pc \in {"sending", "reading"}
  BY <1>3, FailEnds
<1>4. CASE SendOnce
  BY <1>2, <1>3, <1>4 DEF SendOnce
<1>5. ASSUME NEW session, NEW model, NEW api, pc = "sending", Attempt(session, model, api)
      PROVE  StreamInvs'
  BY <1>5, NothingHeard DEF Attempt
<1>6. CASE SendFirst
  BY <1>3, <1>5, <1>6 DEF SendFirst, Copilot
<1>7. CASE FallBack
  BY <1>5, <1>7 DEF FallBack, Copilot
<1>8. CASE Refresh
  BY <1>3, <1>5, <1>8 DEF Refresh, Copilot
<1>9. CASE SendListed
  BY <1>3, <1>5, <1>9 DEF SendListed, Copilot
<1>10. CASE Conclude
  BY <1>2, <1>3, <1>10 DEF Conclude, Copilot
<1>11. CASE Close
  BY <1>11, NothingHeard DEF Close
<1>12. CASE ReadFails
  BY <1>3, <1>12 DEF ReadFails
<1>13. CASE UNCHANGED streamVars
  BY <1>13 DEF streamVars, StreamInvs, StreamInv, WholeInv, Whole, EndInv, Silent, EndsAt,
                Overlooked
<1> QED BY <1>1, <1>4, <1>6, <1>7, <1>8, <1>9, <1>10, <1>11, <1>12, <1>13,
           SayStep, ReceiveStep, ReadLineStep, ReadRestStep, FinishStep DEF Next

LEMMA FirstEndIs ==
    ASSUME IsSeq(events), NEW n \in Nat, EndsAt(events, n)
    PROVE  FirstEnd = n
<1>1. DOMAIN events = 1..Len(events) /\ Len(events) \in Nat
  BY AppendFacts
<1>2. \A i \in DOMAIN events :
         IsEnd(events[i]) /\ (\A j \in 1..(i - 1) : ~IsEnd(events[j])) => i = n
  BY <1>1 DEF EndsAt
<1> QED BY <1>2 DEF FirstEnd, EndsAt

\* However the response ends, in time, cut off, in an error of the server or of the
\* connection, the turn hears an end, the first is the last event, and if it is not
\* only a second Done follows, when a last line has come without its end.
\* (the stream functions of providers/)
THEOREM EndsOnceHolds == Spec => []EndsOnce
<1>1. StreamInvs => EndsOnce
  <2> SUFFICES ASSUME StreamInvs, pc = "done"
               PROVE  /\ \E i \in DOMAIN events : IsEnd(events[i])
                      /\ FirstEnd # Len(events) =>
                            /\ said.cut /\ provider \in {"openai_compat", "account"}
                            /\ FirstEnd = Len(events) - 1 /\ events[Len(events)] = Done
    BY DEF EndsOnce
  <2>1. IsSeq(events) /\ Len(events) \in Nat
    BY AppendFacts DEF StreamInvs, StreamInv
  <2>2. CASE EndsAt(events, Len(events))
    BY <2>1, <2>2, FirstEndIs DEF EndsAt
  <2>3. CASE /\ Len(events) > 1 /\ EndsAt(events, Len(events) - 1)
             /\ events[Len(events)] = Done /\ Overlooked
    <3>1. FirstEnd = Len(events) - 1
      BY <2>1, <2>3, FirstEndIs
    <3> QED BY <2>3, <3>1 DEF EndsAt, Overlooked
  <2> QED BY <2>2, <2>3 DEF StreamInvs, EndInv
<1> QED BY <1>1, StreamInit, StreamStep, PTL DEF Spec

-----------------------------------------------------------------------------
(* What the turn hears.                                                    *)

\* The first n events tell t pieces of text, in order.
TextTold(ev, n, t) ==
    /\ \A i \in 1..n : ev[i].kind = "text" => ev[i].number \in 0..(t - 1)
    /\ \A x \in 0..(t - 1) : \E i \in 1..n : ev[i].kind = "text" /\ ev[i].number = x
    /\ \A i, j \in 1..n : /\ ev[i].kind = "text" /\ ev[j].kind = "text" /\ i < j
                          => ev[i].number < ev[j].number

\* They tell start and end of the calls cs that have arguments, and the end of no other.
CallsTold(ev, n, cs) ==
    /\ \A j \in 1..n : ev[j].kind = "call_end" =>
          ev[j].id \in DOMAIN cs /\ cs[ev[j].id] # <<>> /\ ev[j].args = cs[ev[j].id]
    /\ \A i \in DOMAIN cs : cs[i] # <<>> =>
          \E l, j \in 1..n : /\ l < j
                             /\ ev[l].kind = "call_start" /\ ev[l].id = i
                             /\ ev[j].kind = "call_end" /\ ev[j].id = i

\* The accumulators hold the calls cs; those with arguments have been started.
Gathered(ev, cl, cs) ==
    /\ DOMAIN cl = DOMAIN cs
    /\ \A i \in DOMAIN cs : /\ cl[i].args = cs[i] /\ cl[i].named
                            /\ cl[i].started <=> cs[i] # <<>>
    /\ \A j \in 1..Len(ev) : ev[j].kind # "call_end"
    /\ \A i \in DOMAIN cs : cs[i] # <<>> =>
          \E j \in 1..Len(ev) : ev[j].kind = "call_start" /\ ev[j].id = i

\* Nothing but what was said up to k has been told, or waits in the accumulators.
HeardOf(ev, cl, k) ==
    /\ k.text \in Nat /\ k.calls \in Seq(Seq(Nat)) /\ k.fin \in BOOLEAN
    /\ TextTold(ev, Len(ev), k.text)
    /\ k.fin  => DOMAIN cl = {} /\ CallsTold(ev, Len(ev), k.calls)
    /\ ~k.fin => Gathered(ev, cl, k.calls)

\* What a sequence and another behind it have in common with both.
LEMMA JoinFacts ==
    ASSUME NEW ev, NEW new, NEW all, IsSeq(ev), IsSeq(new), all = ev \o new
    PROVE  /\ Len(ev) \in Nat /\ Len(new) \in Nat /\ Len(all) = Len(ev) + Len(new)
           /\ DOMAIN new = 1..Len(new)
           /\ \A i \in 1..Len(ev) : i \in 1..Len(all) /\ all[i] = ev[i]
           /\ \A i \in 1..Len(new) : Len(ev) + i \in 1..Len(all) /\ all[Len(ev) + i] = new[i]
           /\ \A i \in 1..Len(all) : i \notin 1..Len(ev) =>
                 i - Len(ev) \in 1..Len(new) /\ all[i] = new[i - Len(ev)]
<1>1. /\ Len(ev) \in Nat /\ Len(new) \in Nat /\ Len(all) = Len(ev) + Len(new)
      /\ DOMAIN new = 1..Len(new)
      /\ \A i \in 1..Len(ev) : all[i] = ev[i]
      /\ \A i \in 1..Len(new) : all[Len(ev) + i] = new[i]
      /\ \A i \in (Len(ev) + 1)..(Len(ev) + Len(new)) : all[i] = new[i - Len(ev)]
  BY ConcatFacts
<1>2. \A i \in 1..Len(all) : i \notin 1..Len(ev) =>
         i \in (Len(ev) + 1)..(Len(ev) + Len(new)) /\ i - Len(ev) \in 1..Len(new)
  BY <1>1
<1>3. \A i \in 1..Len(ev) : i \in 1..Len(all)
  BY <1>1
<1>4. \A i \in 1..Len(new) : Len(ev) + i \in 1..Len(all)
  BY <1>1
<1> QED BY <1>1, <1>2, <1>3, <1>4

\* Events that tell no text leave the text told as it is.
LEMMA NoMoreText ==
    ASSUME NEW ev, NEW new, IsSeq(ev), IsSeq(new), NEW t \in Nat,
           TextTold(ev, Len(ev), t), \A i \in DOMAIN new : new[i].kind # "text"
    PROVE  TextTold(ev \o new, Len(ev \o new), t)
<1> DEFINE all == ev \o new
<1>1. /\ \A i \in 1..Len(ev) : i \in 1..Len(all) /\ all[i] = ev[i]
      /\ \A i \in 1..Len(all) : i \notin 1..Len(ev) =>
            i - Len(ev) \in 1..Len(new) /\ all[i] = new[i - Len(ev)]
      /\ DOMAIN new = 1..Len(new)
  BY JoinFacts
<1> HIDE DEF all
<1>2. \A i \in 1..Len(all) : all[i].kind = "text" => i \in 1..Len(ev) /\ all[i] = ev[i]
  BY <1>1
<1>3. ASSUME NEW x \in 0..(t - 1)
      PROVE  \E i \in 1..Len(all) : all[i].kind = "text" /\ all[i].number = x
  <2>1. PICK i \in 1..Len(ev) : ev[i].kind = "text" /\ ev[i].number = x
    BY DEF TextTold
  <2> QED BY <1>1, <2>1
<1>4. \A i \in 1..Len(all) : all[i].kind = "text" => all[i].number \in 0..(t - 1)
  BY <1>2 DEF TextTold
<1>5. \A i, j \in 1..Len(all) : /\ all[i].kind = "text" /\ all[j].kind = "text" /\ i < j
                                 => all[i].number < all[j].number
  BY <1>2 DEF TextTold
<1>6. TextTold(all, Len(all), t)
  BY <1>3, <1>4, <1>5, Zenon DEF TextTold
<1> QED BY <1>6 DEF all

\* The next piece of text.
LEMMA OneMoreText ==
    ASSUME NEW ev, NEW e, IsSeq(ev), NEW t \in Nat,
           TextTold(ev, Len(ev), t), e.kind = "text", e.number = t
    PROVE  TextTold(ev \o <<e>>, Len(ev \o <<e>>), t + 1)
<1> DEFINE new == <<e>>
           all == ev \o new
<1>0. IsSeq(new) /\ Len(new) = 1 /\ new[1] = e
  BY OneIsSeq
<1> HIDE DEF new
<1>1. /\ \A i \in 1..Len(ev) : i \in 1..Len(all) /\ all[i] = ev[i]
      /\ \A i \in 1..Len(all) : i \notin 1..Len(ev) =>
            i - Len(ev) \in 1..Len(new) /\ all[i] = new[i - Len(ev)]
      /\ Len(ev) \in Nat /\ Len(all) = Len(ev) + 1 /\ all[Len(ev) + 1] = e
  <2>1. 1 \in 1..Len(new)
    BY <1>0
  <2>2. /\ \A i \in 1..Len(ev) : i \in 1..Len(all) /\ all[i] = ev[i]
        /\ \A i \in 1..Len(all) : i \notin 1..Len(ev) =>
              i - Len(ev) \in 1..Len(new) /\ all[i] = new[i - Len(ev)]
        /\ \A i \in 1..Len(new) : all[Len(ev) + i] = new[i]
        /\ Len(ev) \in Nat /\ Len(all) = Len(ev) + Len(new)
    <3>1. IsSeq(new) /\ all = ev \o new
      BY <1>0
    <3> HIDE DEF all
    <3> QED BY ONLY IsSeq(ev), <3>1, JoinFacts
  <2> HIDE DEF all
  <2> QED BY <1>0, <2>1, <2>2
<1> HIDE DEF all
<1> DEFINE n == Len(ev)
<1>2. \A i \in 1..Len(all) : i \in 1..n \/ i = n + 1
  BY <1>1
<1> HIDE DEF n
<1>3. n \in Nat /\ Len(all) = n + 1 /\ all[n + 1] = e /\ n + 1 \in 1..Len(all)
      /\ \A i \in 1..n : i \in 1..Len(all) /\ all[i] = ev[i]
  BY <1>1 DEF n
<1>4. TextTold(ev, n, t)
  BY DEF n
<1>5. ASSUME NEW i \in 1..Len(all), all[i].kind = "text"
      PROVE  all[i].number \in 0..(t + 1 - 1)
  <2>1. CASE i \in 1..n
    <3>1. all[i].number \in 0..(t - 1)
      BY <1>3, <1>4, <1>5, <2>1 DEF TextTold
    <3> QED BY <3>1
  <2>2. CASE i = n + 1
    <3>1. all[i].number = t
      BY <1>3, <2>2
    <3> QED BY <3>1
  <2> QED BY <1>2, <2>1, <2>2
<1>6. ASSUME NEW x \in 0..(t + 1 - 1)
      PROVE \E i \in 1..Len(all) : all[i].kind = "text" /\ all[i].number = x
  <2>1. CASE x = t
    BY <1>3, <2>1
  <2>2. CASE x # t
    <3>1. x \in 0..(t - 1)
      BY <2>2
    <3>2. PICK i \in 1..n : ev[i].kind = "text" /\ ev[i].number = x
      BY <1>4, <3>1 DEF TextTold
    <3> QED BY <1>3, <3>2
  <2> QED BY <2>1, <2>2
<1>7. ASSUME NEW i \in 1..Len(all), NEW j \in 1..Len(all), all[i].kind = "text",
             all[j].kind = "text", i < j
      PROVE  all[i].number < all[j].number
  <2>1. i \in 1..n
    BY <1>2, <1>3, <1>7
  <2>2. CASE j \in 1..n
    BY <1>3, <1>4, <1>7, <2>1, <2>2 DEF TextTold
  <2>3. CASE j = n + 1
    <3>1. all[i].number \in 0..(t - 1)
      BY <1>3, <1>4, <1>7, <2>1 DEF TextTold
    <3> QED BY <1>3, <2>3, <3>1
  <2> QED BY <1>2, <2>2, <2>3
<1>8. TextTold(all, Len(all), t + 1)
  BY <1>5, <1>6, <1>7 DEF TextTold
<1> QED BY <1>8 DEF all, new

\* Events that end no call leave the calls told as they are.
LEMMA NoMoreCalls ==
    ASSUME NEW ev, NEW new, IsSeq(ev), IsSeq(new), NEW cs,
           CallsTold(ev, Len(ev), cs), \A i \in DOMAIN new : new[i].kind # "call_end"
    PROVE  CallsTold(ev \o new, Len(ev \o new), cs)
<1> DEFINE all == ev \o new
<1>1. /\ \A i \in 1..Len(ev) : i \in 1..Len(all) /\ all[i] = ev[i]
      /\ \A i \in 1..Len(all) : i \notin 1..Len(ev) =>
            i - Len(ev) \in 1..Len(new) /\ all[i] = new[i - Len(ev)]
      /\ DOMAIN new = 1..Len(new)
  BY JoinFacts
<1> HIDE DEF all
<1>2. \A i \in 1..Len(all) : all[i].kind = "call_end" => i \in 1..Len(ev) /\ all[i] = ev[i]
  BY <1>1
<1>3. CallsTold(all, Len(all), cs)
  BY <1>1, <1>2 DEF CallsTold
<1> QED BY <1>3 DEF all

\* They leave the calls in the accumulators as well.
LEMMA StillGathered ==
    ASSUME NEW ev, NEW new, IsSeq(ev), IsSeq(new), NEW cl, NEW cs,
           Gathered(ev, cl, cs), \A i \in DOMAIN new : new[i].kind # "call_end"
    PROVE  Gathered(ev \o new, cl, cs)
<1> DEFINE all == ev \o new
<1>1. /\ \A i \in 1..Len(ev) : i \in 1..Len(all) /\ all[i] = ev[i]
      /\ \A i \in 1..Len(all) : i \notin 1..Len(ev) =>
            i - Len(ev) \in 1..Len(new) /\ all[i] = new[i - Len(ev)]
      /\ DOMAIN new = 1..Len(new)
  BY JoinFacts
<1> HIDE DEF all
<1>2. ASSUME NEW j \in 1..Len(all) PROVE all[j].kind # "call_end"
  <2>1. CASE j \in 1..Len(ev)
    <3>1. ev[j].kind # "call_end"
      BY <2>1 DEF Gathered
    <3> QED BY <1>1, <2>1, <3>1
  <2>2. CASE j \notin 1..Len(ev)
    BY <1>1, <2>2
  <2> QED BY <2>1, <2>2
<1>3. ASSUME NEW i \in DOMAIN cs, cs[i] # <<>>
      PROVE  \E j \in 1..Len(all) : all[j].kind = "call_start" /\ all[j].id = i
  <2>1. PICK j \in 1..Len(ev) : ev[j].kind = "call_start" /\ ev[j].id = i
    BY <1>3 DEF Gathered
  <2> QED BY <1>1, <2>1
<1>4. Gathered(all, cl, cs)
  BY <1>2, <1>3 DEF Gathered
<1> QED BY <1>4 DEF all

\* What tells neither text nor the end of a call changes nothing.
LEMMA StillHeard ==
    ASSUME NEW ev, NEW new, IsSeq(ev), IsSeq(new), NEW cl, NEW k, HeardOf(ev, cl, k),
           \A i \in DOMAIN new : new[i].kind \notin {"text", "call_end"}
    PROVE  HeardOf(ev \o new, cl, k)
<1>1. k.text \in Nat /\ TextTold(ev, Len(ev), k.text)
  BY DEF HeardOf
<1>2. TextTold(ev \o new, Len(ev \o new), k.text)
  BY <1>1, NoMoreText
<1>3. k.fin => CallsTold(ev \o new, Len(ev \o new), k.calls)
  BY NoMoreCalls DEF HeardOf
<1>4. ~k.fin => Gathered(ev \o new, cl, k.calls)
  BY StillGathered DEF HeardOf
<1> QED BY <1>2, <1>3, <1>4 DEF HeardOf

\* What the server has said after a line, and the lines it may say.
After(k, ln) ==
    [text  |-> IF ln.kind = "text" THEN k.text + 1 ELSE k.text,
     calls |-> IF ln.kind # "call" THEN k.calls
               ELSE IF ln.first THEN Append(k.calls, ln.args)
               ELSE [k.calls EXCEPT ![ln.index] = @ \o ln.args],
     fin   |-> k.fin \/ ln.kind = "finish"]

Fits(p, k, ln) ==
    /\ ln.kind = "call" => /\ p = "openai_compat" /\ ~k.fin
                           /\ ln.args \in Seq(Nat) /\ ln.first \in BOOLEAN
                           /\ ln.first => ln.index = Len(k.calls) + 1
                           /\ ~ln.first => ln.index \in DOMAIN k.calls /\ ln.args # <<>>
    /\ ln.kind = "finish" => p = "openai_compat"

\* The calls after a line that opens or continues one.
LEMMA CallSaid ==
    ASSUME NEW cs \in Seq(Seq(Nat)), NEW x, NEW args \in Seq(Nat), NEW first \in BOOLEAN,
           first => x = Len(cs) + 1,
           ~first => x \in DOMAIN cs,
           NEW now, now = IF first THEN Append(cs, args) ELSE [cs EXCEPT ![x] = @ \o args],
           NEW old, old = IF x \in DOMAIN cs THEN cs[x] ELSE <<>>
    PROVE  /\ now \in Seq(Seq(Nat)) /\ DOMAIN now = DOMAIN cs \union {x}
           /\ \A i \in DOMAIN cs : i # x => now[i] = cs[i]
           /\ now[x] = old \o args /\ x \in DOMAIN now
           /\ first <=> x \notin DOMAIN cs
           /\ old \in Seq(Nat)
<1>1. Len(cs) \in Nat /\ DOMAIN cs = 1..Len(cs) /\ \A i \in 1..Len(cs) : cs[i] \in Seq(Nat)
  OBVIOUS
<1>2. CASE first
  <2> DEFINE new == Append(cs, args)
  <2>1. /\ new \in Seq(Seq(Nat)) /\ Len(new) = Len(cs) + 1 /\ new[Len(cs) + 1] = args
        /\ \A i \in 1..Len(cs) : new[i] = cs[i]
    OBVIOUS
  <2> HIDE DEF new
  <2>2. x = Len(cs) + 1 /\ x \notin DOMAIN cs
    BY <1>1, <1>2
  <2>3. DOMAIN new = DOMAIN cs \union {x}
    <3> DEFINE n == Len(cs)
    <3>1. DOMAIN new = 1..(n + 1) /\ DOMAIN cs = 1..n /\ n \in Nat /\ x = n + 1
      BY <1>1, <2>1, <2>2
    <3> HIDE DEF n
    <3>2. 1..(n + 1) = 1..n \union {n + 1}
      BY <3>1
    <3> QED BY <3>1, <3>2
  <2>4. <<>> \o args = args
    OBVIOUS
  <2> QED BY <1>1, <1>2, <2>1, <2>2, <2>3, <2>4 DEF new
<1>3. CASE ~first
  <2> DEFINE new == [cs EXCEPT ![x] = cs[x] \o args]
  <2>1. x \in 1..Len(cs) /\ cs[x] \in Seq(Nat) /\ cs[x] \o args \in Seq(Nat)
    BY <1>1, <1>3
  <2>2. /\ new \in Seq(Seq(Nat)) /\ DOMAIN new = DOMAIN cs /\ new[x] = cs[x] \o args
        /\ \A i \in DOMAIN cs : i # x => new[i] = cs[i]
    BY <1>1, <2>1
  <2> HIDE DEF new
  <2> QED BY <1>1, <1>3, <2>1, <2>2 DEF new
<1> QED BY <1>2, <1>3

\* Arguments put together are none only if both were none.
LEMMA NoArguments ==
    ASSUME NEW a \in Seq(Nat), NEW b \in Seq(Nat)
    PROVE  a \o b # <<>> <=> a # <<>> \/ b # <<>>
<1>1. Len(a \o b) = Len(a) + Len(b) /\ a \o b \in Seq(Nat)
  OBVIOUS
<1>2. /\ (a = <<>> <=> Len(a) = 0) /\ (b = <<>> <=> Len(b) = 0)
      /\ Len(a) \in Nat /\ Len(b) \in Nat
  OBVIOUS
<1>3. a \o b = <<>> <=> Len(a \o b) = 0
  BY <1>1
<1> QED BY <1>1, <1>2, <1>3

\* A fragment of a call goes into its accumulator.
LEMMA Gathers ==
    ASSUME NEW k, NEW ln, IsSeq(events), HeardOf(events, calls, k), Fits(provider, k, ln),
           ln.kind = "call", Accumulate(ln)
    PROVE  HeardOf(events', calls', After(k, ln))
<1> DEFINE cs   == k.calls
           x    == ln.index
           args == ln.args
           next == After(k, ln)
           old  == IF x \in DOMAIN cs THEN cs[x] ELSE <<>>
           call == Accumulated(ln)
           starts == call.started /\ ~(x \in DOMAIN calls /\ calls[x].started)
           one  == IF starts THEN <<[kind |-> "call_start", id |-> x]>> ELSE <<>>
           two  == IF call.started /\ args # <<>>
                   THEN <<[kind |-> "call_args", id |-> x, args |-> args]>> ELSE <<>>
           ev   == events \o one
<1>1. /\ k.text \in Nat /\ cs \in Seq(Seq(Nat)) /\ k.fin = FALSE
      /\ TextTold(events, Len(events), k.text) /\ Gathered(events, calls, cs)
      /\ args \in Seq(Nat) /\ ln.first \in BOOLEAN
      /\ ln.first => x = Len(cs) + 1
      /\ ~ln.first => x \in DOMAIN cs
  BY DEF HeardOf, Fits
<1>2. /\ next.calls = IF ln.first THEN Append(cs, args) ELSE [cs EXCEPT ![x] = @ \o args]
      /\ next.text = k.text /\ next.fin = FALSE
  <2>1. k.fin \/ ln.kind = "finish" <=> FALSE
    BY <1>1
  <2> QED BY <2>1 DEF After
<1>3. /\ next.calls \in Seq(Seq(Nat)) /\ DOMAIN next.calls = DOMAIN cs \union {x}
      /\ \A i \in DOMAIN cs : i # x => next.calls[i] = cs[i]
      /\ next.calls[x] = old \o args
      /\ ln.first <=> x \notin DOMAIN cs
      /\ old \in Seq(Nat)
  <2> HIDE DEF next, cs, x, args
  <2>1. old = IF x \in DOMAIN cs THEN cs[x] ELSE <<>>
    BY DEF old
  <2> HIDE DEF old
  <2>2. /\ cs \in Seq(Seq(Nat)) /\ args \in Seq(Nat) /\ ln.first \in BOOLEAN
        /\ ln.first => x = Len(cs) + 1
        /\ ~ln.first => x \in DOMAIN cs
    BY <1>1
  <2>3. next.calls = IF ln.first THEN Append(cs, args) ELSE [cs EXCEPT ![x] = @ \o args]
    BY <1>2
  <2> DEFINE now == next.calls
             first == ln.first
  <2> HIDE DEF now, first
  <2>4. /\ now \in Seq(Seq(Nat)) /\ DOMAIN now = DOMAIN cs \union {x}
        /\ \A i \in DOMAIN cs : i # x => now[i] = cs[i]
        /\ now[x] = old \o args
        /\ first <=> x \notin DOMAIN cs
        /\ old \in Seq(Nat)
    <3>1. /\ cs \in Seq(Seq(Nat)) /\ args \in Seq(Nat) /\ first \in BOOLEAN
          /\ first => x = Len(cs) + 1
          /\ ~first => x \in DOMAIN cs
      BY <2>2 DEF first
    <3>2. now = IF first THEN Append(cs, args) ELSE [cs EXCEPT ![x] = @ \o args]
      BY <2>3 DEF first, now
    <3> QED BY ONLY <2>1, <3>1, <3>2, CallSaid, SMTT(30)
  <2> QED BY <2>4 DEF now, first
<1>4. /\ DOMAIN calls = DOMAIN cs
      /\ \A i \in DOMAIN cs : /\ calls[i].args = cs[i] /\ calls[i].named
                              /\ calls[i].started <=> cs[i] # <<>>
  BY <1>1 DEF Gathered
<1>5. call.named /\ call.args = old \o args /\ (call.started <=> old \o args # <<>>)
  <2> DEFINE known == IF x \in DOMAIN calls THEN calls[x] ELSE NewCall
  <2>1. /\ call.args = known.args \o args
        /\ call.named = (known.named \/ ln.first)
        /\ call.started = (known.started \/ ((known.named \/ ln.first) /\ args # <<>>))
    BY DEF Accumulated
  <2>2. known.args = old /\ (known.started <=> old # <<>>) /\ (known.named \/ ln.first)
    <3>1. CASE x \in DOMAIN cs
      <4>1. known = calls[x] /\ old = cs[x]
        BY <1>4, <3>1
      <4> QED BY <1>4, <3>1, <4>1
    <3>2. CASE x \notin DOMAIN cs
      <4>1. known = NewCall /\ old = <<>> /\ ln.first
        BY <1>3, <1>4, <3>2
      <4> QED BY <4>1 DEF NewCall
    <3> QED BY <3>1, <3>2
  <2>3. old \o args # <<>> <=> old # <<>> \/ args # <<>>
    <3> HIDE DEF old, args
    <3> QED BY <1>1, <1>3, NoArguments
  <2> HIDE DEF known, call, old, args
  <2> QED BY <2>1, <2>2, <2>3, Zenon
<1>6. /\ calls' = [i \in DOMAIN calls \union {x} |-> IF i = x THEN call ELSE calls[i]]
      /\ events' = ev \o two
  BY DEF Accumulate
<1>7. /\ IsSeq(one) /\ IsSeq(two)
      /\ \A i \in DOMAIN one : one[i].kind \notin {"text", "call_end"}
      /\ \A i \in DOMAIN two : two[i].kind \notin {"text", "call_end"}
  BY EmptyIsSeq, OneIsSeq
<1>8. starts => DOMAIN one = 1..1 /\ one[1] = [kind |-> "call_start", id |-> x]
  OBVIOUS
<1> HIDE DEF one, two, call
<1>9. IsSeq(ev) /\ Len(events) \in Nat /\ Len(one) \in Nat
  BY <1>7, ConcatFacts
<1>10. /\ \A i \in 1..Len(events) : i \in 1..Len(ev) /\ ev[i] = events[i]
       /\ \A i \in 1..Len(one) : Len(events) + i \in 1..Len(ev) /\ ev[Len(events) + i] = one[i]
       /\ DOMAIN one = 1..Len(one)
  BY <1>7, JoinFacts
<1>11. TextTold(ev, Len(ev), k.text)
  BY <1>1, <1>7, NoMoreText
<1>12. Gathered(ev, calls, cs)
  BY <1>1, <1>7, StillGathered
<1> HIDE DEF ev, next, cs, x, args, old
<1>13. DOMAIN calls' = DOMAIN next.calls
  BY <1>3, <1>4, <1>6
<1>14. ASSUME NEW i \in DOMAIN next.calls
       PROVE  /\ calls'[i].args = next.calls[i] /\ calls'[i].named
              /\ calls'[i].started <=> next.calls[i] # <<>>
  <2>1. CASE i = x
    <3>1. calls'[i] = call
      BY <1>3, <1>4, <1>6, <2>1
    <3> QED BY <1>3, <1>5, <2>1, <3>1
  <2>2. CASE i # x
    <3>1. calls'[i] = calls[i] /\ i \in DOMAIN cs /\ next.calls[i] = cs[i]
      BY <1>3, <1>4, <1>6, <2>2
    <3> QED BY <1>4, <3>1
  <2> QED BY <2>1, <2>2
<1>15. ASSUME NEW i \in DOMAIN next.calls, next.calls[i] # <<>>
       PROVE  \E j \in 1..Len(ev) : ev[j].kind = "call_start" /\ ev[j].id = i
  <2>1. CASE i \in DOMAIN cs /\ cs[i] # <<>>
    BY <1>12, <2>1 DEF Gathered
  <2>2. CASE ~(i \in DOMAIN cs /\ cs[i] # <<>>)
    <3>1. i = x
      BY <1>3, <1>15, <2>2
    <3>2. call.started
      BY <1>3, <1>5, <1>15, <3>1
    <3>3. starts
      BY <1>4, <2>2, <3>1, <3>2
    <3>4. 1 \in 1..Len(one) /\ one[1] = [kind |-> "call_start", id |-> x]
      <4>1. DOMAIN one = 1..1 /\ one[1] = [kind |-> "call_start", id |-> x]
        BY <1>8, <3>3
      <4> QED BY <1>10, <4>1
    <3>5. Len(events) + 1 \in 1..Len(ev) /\ ev[Len(events) + 1] = one[1]
      BY <1>10, <3>4
    <3> QED BY <3>1, <3>4, <3>5
  <2> QED BY <2>1, <2>2
<1>16. Gathered(ev, calls', next.calls)
  BY <1>12, <1>13, <1>14, <1>15 DEF Gathered
<1>17. HeardOf(ev, calls', next)
  BY <1>1, <1>2, <1>3, <1>11, <1>16 DEF HeardOf
<1>18. HeardOf(ev \o two, calls', next)
  BY <1>7, <1>9, <1>17, StillHeard
<1> QED BY <1>6, <1>18 DEF next

\* An order of a finite set has all of it.
LEMMA OrderedAll ==
    ASSUME NEW S, IsFiniteSet(S), NEW order \in SetToSeqs(S)
    PROVE  /\ Cardinality(S) \in Nat /\ order \in [1..Cardinality(S) -> S]
           /\ \A x \in S : \E i \in 1..Cardinality(S) : order[i] = x
<1> DEFINE D == 1..Cardinality(S)
<1>1. /\ Cardinality(S) \in Nat
      /\ order \in [D -> S] /\ \A i, j \in D : i # j => order[i] # order[j]
  BY FS_CardinalityType DEF SetToSeqs
<1>2. ASSUME NEW x \in S, \A i \in D : order[i] # x PROVE FALSE
  <2> DEFINE T == S \ {x}
  <2>1. IsFiniteSet(T) /\ Cardinality(T) = Cardinality(S) - 1
    BY FS_RemoveElement
  <2>2. IsFiniteSet(D) /\ Cardinality(D) = Cardinality(S)
    <3>1. 1 \in Int /\ Cardinality(S) \in Int
      BY <1>1
    <3>2. /\ IsFiniteSet(D)
          /\ Cardinality(D) = IF 1 > Cardinality(S) THEN 0 ELSE Cardinality(S) - 1 + 1
      BY ONLY <3>1, FS_Interval
    <3> QED BY <1>1, <3>2
  <2>3. order \in [D -> T]
    BY <1>1, <1>2
  <2>4. Cardinality(T) < Cardinality(D)
    BY <1>1, <2>1, <2>2
  <2> HIDE DEF T, D
  <2>5. \E i, j \in D : i # j /\ order[i] = order[j]
    BY <2>1, <2>2, <2>3, <2>4, FS_PigeonHole
  <2> QED BY <1>1, <2>5
<1> QED BY <1>1, <1>2

\* What has waited in the accumulators is told.
LEMMA DrainTells ==
    ASSUME NEW k, NEW then, then \in {<<>>, <<Done>>},
           IsSeq(events), IsFiniteSet(DOMAIN calls), HeardOf(events, calls, k),
           EmitPendingToolEnds(then)
    PROVE  /\ TextTold(events', Len(events'), k.text)
           /\ CallsTold(events', Len(events'), k.calls)
           /\ DOMAIN calls' = {}
<1>1. /\ IsSeq(then) /\ \A i \in DOMAIN then : then[i].kind \notin {"text", "call_end"}
  <2>1. IsSeq(<<>>) /\ DOMAIN <<>> = {}
    BY EmptyIsSeq
  <2>2. IsSeq(<<Done>>) /\ DOMAIN <<Done>> = {1} /\ <<Done>>[1] = Done
    BY OneIsSeq
  <2>3. Done.kind = "done"
    BY DEF Done, Event
  <2> QED BY <2>1, <2>2, <2>3
<1>2. DOMAIN calls' = {} /\ (DOMAIN calls = {} => events' = events \o then)
  BY Drained
<1>3. k.text \in Nat /\ TextTold(events, Len(events), k.text)
  BY DEF HeardOf
<1>4. CASE k.fin
  <2>1. events' = events \o then /\ CallsTold(events, Len(events), k.calls)
    BY <1>2, <1>4 DEF HeardOf
  <2> QED BY <1>1, <1>2, <1>3, <2>1, NoMoreText, NoMoreCalls
<1>5. CASE ~k.fin
  <2> DEFINE cs == k.calls
             S == {i \in DOMAIN calls : calls[i].started}
             EndOf(i) == [kind |-> "call_end", id |-> i, args |-> calls[i].args]
             EndsOf(order) == [q \in DOMAIN order |-> [kind |-> "call_end", id |-> order[q],
                                                       args |-> calls[order[q]].args]]
  <2>1. Gathered(events, calls, cs)
    BY <1>5 DEF HeardOf
  <2>2. PICK order \in SetToSeqs(S) : events' = events \o EndsOf(order) \o then
    BY DEF EmitPendingToolEnds
  <2>3. IsFiniteSet(S)
    BY FS_Subset
  <2>4. S = {i \in DOMAIN cs : cs[i] # <<>>} /\ \A i \in S : calls[i].args = cs[i]
    BY <2>1 DEF Gathered
  <2> HIDE DEF S
  <2> DEFINE n == Cardinality(S)
  <2>5. /\ n \in Nat /\ order \in [1..n -> S]
        /\ \A x \in S : \E i \in 1..n : order[i] = x
    BY <2>3, OrderedAll
  <2> HIDE DEF n
  <2> DEFINE ends == EndsOf(order)
             ev == events \o ends
  <2>6. /\ DOMAIN ends = 1..n /\ ends = [q \in 1..n |-> ends[q]]
        /\ \A q \in 1..n : ends[q] = EndOf(order[q])
    BY <2>5
  <2>7. events' = ev \o then
    BY <2>2
  <2> HIDE DEF ends, EndsOf
  <2>8. IsSeq(ends) /\ Len(ends) = n
    BY <2>5, <2>6, ListIsSeq
  <2>9. \A q \in 1..n : /\ ends[q].kind = "call_end" /\ ends[q].id = order[q] /\ order[q] \in S
                        /\ ends[q].args = cs[order[q]]
    BY <2>4, <2>5, <2>6
  <2> HIDE DEF EndOf
  <2>10. IsSeq(ev)
    BY <2>8, ConcatFacts
  <2>11. /\ \A i \in 1..Len(events) : i \in 1..Len(ev) /\ ev[i] = events[i]
         /\ \A i \in 1..n : Len(events) + i \in 1..Len(ev) /\ ev[Len(events) + i] = ends[i]
         /\ \A i \in 1..Len(ev) : i \notin 1..Len(events) =>
               i - Len(events) \in 1..n /\ ev[i] = ends[i - Len(events)]
         /\ Len(events) \in Nat
    BY <2>8, JoinFacts
  <2>12. TextTold(ev, Len(ev), k.text)
    <3>1. \A i \in DOMAIN ends : ends[i].kind # "text"
      BY <2>6, <2>9
    <3> QED BY <1>3, <2>8, <3>1, NoMoreText
  <2> HIDE DEF ev, cs
  <2>13. ASSUME NEW j \in 1..Len(ev), ev[j].kind = "call_end"
         PROVE  ev[j].id \in DOMAIN cs /\ cs[ev[j].id] # <<>> /\ ev[j].args = cs[ev[j].id]
    <3>1. j \notin 1..Len(events)
      BY <2>1, <2>11, <2>13 DEF Gathered
    <3>2. j - Len(events) \in 1..n /\ ev[j] = ends[j - Len(events)]
      BY <2>11, <3>1
    <3> QED BY <2>4, <2>9, <3>2
  <2>14. ASSUME NEW i \in DOMAIN cs, cs[i] # <<>>
         PROVE  \E l, j \in 1..Len(ev) : /\ l < j
                                         /\ ev[l].kind = "call_start" /\ ev[l].id = i
                                         /\ ev[j].kind = "call_end" /\ ev[j].id = i
    <3>1. PICK l \in 1..Len(events) : events[l].kind = "call_start" /\ events[l].id = i
      BY <2>1, <2>14 DEF Gathered
    <3>2. PICK q \in 1..n : order[q] = i
      BY <2>4, <2>5, <2>14
    <3>3. l < Len(events) + q
      BY <2>5, <2>11
    <3>4. /\ l \in 1..Len(ev) /\ ev[l] = events[l]
          /\ Len(events) + q \in 1..Len(ev) /\ ev[Len(events) + q] = ends[q]
      BY <2>11
    <3> QED BY <2>9, <3>1, <3>2, <3>3, <3>4
  <2>15. CallsTold(ev, Len(ev), cs)
    BY <2>13, <2>14 DEF CallsTold
  <2>16. /\ TextTold(ev \o then, Len(ev \o then), k.text)
         /\ CallsTold(ev \o then, Len(ev \o then), cs)
    BY <1>1, <1>3, <2>10, <2>12, <2>15, NoMoreText, NoMoreCalls
  <2> QED BY <1>2, <2>7, <2>16 DEF cs
<1> QED BY <1>4, <1>5

\* What matters of a moment of the response is what had been said.
LEMMA SameHeard ==
    ASSUME NEW ev, NEW cl, NEW k, NEW l, HeardOf(ev, cl, k),
           l.text = k.text, l.calls = k.calls, l.fin = k.fin
    PROVE  HeardOf(ev, cl, l)
BY DEF HeardOf

\* What tells nothing that was said.
LEMMA EmitHeard ==
    ASSUME NEW k, NEW new, IsSeq(events), IsSeq(new), HeardOf(events, calls, k), Emit(new),
           \A i \in DOMAIN new : new[i].kind \notin {"text", "call_end"}
    PROVE  HeardOf(events', calls', k)
BY StillHeard DEF Emit

\* An error that is told is the last event.
LEMMA ErrorHeard ==
    ASSUME IsSeq(events), events' = events \o <<Error>>
    PROVE  events'[Len(events')] = Error
<1>1. /\ Len(events') = Len(events) + 1 /\ Len(events) \in Nat
      /\ events'[Len(events) + 1] = Error
  BY OneIsSeq, ConcatFacts
<1> QED BY <1>1

\* What makes no sense tells nothing, or an error.
LEMMA GarbageHeard ==
    ASSUME NEW k, NEW then \in Outcome, IsSeq(events), HeardOf(events, calls, k),
           HandleGarbage(then)
    PROVE  /\ then = "more" => HeardOf(events', calls', k)
           /\ then # "more" => events'[Len(events')] = Error
<1>1. (then = "more" /\ Emit(<<>>)) \/ (then = "fail" /\ Emit(<<Error>>))
  BY Zenon DEF HandleGarbage
<1>2. Emit(<<>>) => HeardOf(events', calls', k)
  BY EmitHeard, EmptyIsSeq
<1>3. Emit(<<Error>>) => events'[Len(events')] = Error
  BY ErrorHeard DEF Emit
<1> QED BY <1>1, <1>2, <1>3

\* What a line tells.
LineTold(k, ln, then) ==
    /\ then = "more" => HeardOf(events', calls', After(k, ln))
    /\ then # "more" =>
          \/ events'[Len(events')] = Error
          \/ /\ ln.kind = "end"
             /\ TextTold(events', Len(events'), k.text)
             /\ CallsTold(events', Len(events'), k.calls)

\* A line is told, and with the end all that was said.
LEMMA LineHeard ==
    ASSUME NEW k, NEW parts, NEW then \in Outcome,
           IsSeq(events), IsFiniteSet(DOMAIN calls), provider = "account" => DOMAIN calls = {},
           HeardOf(events, calls, k),
           \E i \in DOMAIN parts : parts[i].part = "body",
           parts[1].number = k.text, Fits(provider, k, parts[1].line),
           HandleParts(parts, then)
    PROVE  LineTold(k, parts[1].line, then)
<1> DEFINE ln == parts[1].line
           number == parts[1].number
           next == After(k, ln)
           Good == LineTold(k, ln, then)
<1> HIDE DEF next
<1>0. /\ k.text \in Nat /\ k.calls \in Seq(Seq(Nat)) /\ k.fin \in BOOLEAN
      /\ TextTold(events, Len(events), k.text)
  BY DEF HeardOf
<1>1. /\ next.text = IF ln.kind = "text" THEN k.text + 1 ELSE k.text
      /\ ln.kind # "call" => next.calls = k.calls
      /\ next.fin = (k.fin \/ ln.kind = "finish")
  BY DEF next, After
<1>2. ASSUME NEW new, IsSeq(new), Emit(new), then = "more",
             ln.kind \notin {"text", "call", "finish"},
             \A i \in DOMAIN new : new[i].kind \notin {"text", "call_end"}
      PROVE  Good
  <2>1. HeardOf(events', calls', k)
    BY <1>2, EmitHeard
  <2>2. next.text = k.text /\ next.calls = k.calls /\ next.fin = k.fin
    BY <1>0, <1>1, <1>2
  <2>3. HeardOf(events', calls', next)
    BY <2>1, <2>2, SameHeard
  <2> QED BY <1>2, <2>3 DEF LineTold, next
<1>3. ASSUME Emit(<<Error>>), then # "more" PROVE Good
  BY <1>3, ErrorHeard DEF Emit, LineTold
<1>4. ASSUME Emit(<<[kind |-> "text", number |-> number]>>), then = "more", ln.kind = "text"
      PROVE  Good
  <2> DEFINE e == [kind |-> "text", number |-> number]
  <2>1. e.kind = "text" /\ e.number = k.text
    OBVIOUS
  <2>2. events' = events \o <<e>> /\ calls' = calls
    BY <1>4 DEF Emit
  <2> HIDE DEF e
  <2>3. IsSeq(<<e>>) /\ \A i \in DOMAIN <<e>> : <<e>>[i].kind # "call_end"
    <3>1. IsSeq(<<e>>) /\ DOMAIN <<e>> = {1} /\ <<e>>[1] = e
      BY OneIsSeq
    <3> QED BY <2>1, <3>1
  <2>4. TextTold(events', Len(events'), k.text + 1)
    BY <1>0, <2>1, <2>2, OneMoreText
  <2>5. k.fin => DOMAIN calls' = {} /\ CallsTold(events', Len(events'), k.calls)
    BY <2>2, <2>3, NoMoreCalls DEF HeardOf
  <2>6. ~k.fin => Gathered(events', calls', k.calls)
    BY <2>2, <2>3, StillGathered DEF HeardOf
  <2>7. next.text = k.text + 1 /\ next.calls = k.calls /\ next.fin = k.fin
    BY <1>0, <1>1, <1>4
  <2>8. HeardOf(events', calls', next)
    BY <1>0, <2>4, <2>5, <2>6, <2>7 DEF HeardOf
  <2> QED BY <1>4, <2>8 DEF LineTold, next
<1>5. IsSeq(<<>>) /\ DOMAIN <<>> = {}
  BY EmptyIsSeq
<1>6. ASSUME NEW kind
      PROVE  /\ IsSeq(<<Event(kind)>>)
             /\ \A i \in DOMAIN <<Event(kind)>> : <<Event(kind)>>[i].kind = kind
  <2>1. IsSeq(<<Event(kind)>>) /\ DOMAIN <<Event(kind)>> = {1} /\ <<Event(kind)>>[1].kind = kind
    BY OneIsSeq DEF Event
  <2> QED BY <2>1
<1>7. CASE provider # "account" /\ HandleLine(ln, number, then)
  <2>1. CASE ln.kind = "text"
    <3>1. then = "more" /\ Emit(<<[kind |-> "text", number |-> number]>>)
      BY <1>7, <2>1 DEF HandleLine
    <3> QED BY <1>4, <2>1, <3>1, Zenon
  <2>2. CASE ln.kind = "usage"
    <3>1. then = "more" /\ Emit(<<Event("usage")>>)
      BY <1>7, <2>2 DEF HandleLine
    <3> DEFINE new == <<Event("usage")>>
    <3>2. IsSeq(new) /\ \A i \in DOMAIN new : new[i].kind \notin {"text", "call_end"}
      <4>1. IsSeq(new) /\ \A i \in DOMAIN new : new[i].kind = "usage"
        BY <1>6
      <4> HIDE DEF new
      <4> QED BY <4>1
    <3> HIDE DEF new
    <3>3. then = "more" /\ Emit(new) /\ ln.kind \notin {"text", "call", "finish"}
      BY <2>2, <3>1 DEF new
    <3> QED BY <1>2, <3>2, <3>3, Zenon
  <2>3. CASE ln.kind = "call"
    <3>1. then = "more" /\ Accumulate(ln)
      BY <1>7, <2>3 DEF HandleLine
    <3>2. HeardOf(events', calls', next)
      BY <2>3, <3>1, Gathers, Zenon DEF next
    <3> QED BY <3>1, <3>2 DEF LineTold, next
  <2>4. CASE ln.kind = "finish"
    <3>1. then = "more" /\ EmitPendingToolEnds(<<>>)
      BY <1>7, <2>4 DEF HandleLine
    <3>2. /\ TextTold(events', Len(events'), k.text)
          /\ CallsTold(events', Len(events'), k.calls)
          /\ DOMAIN calls' = {}
      BY <3>1, DrainTells
    <3>3. next.text = k.text /\ next.calls = k.calls /\ next.fin = TRUE
      BY <1>0, <1>1, <2>4
    <3>4. HeardOf(events', calls', next)
      BY <1>0, <3>2, <3>3 DEF HeardOf
    <3> QED BY <3>1, <3>4 DEF LineTold, next
  <2>5. CASE ln.kind = "end"
    <3>1. then = "end" /\ EmitPendingToolEnds(<<Done>>)
      BY <1>7, <2>5 DEF HandleLine
    <3>2. /\ TextTold(events', Len(events'), k.text)
          /\ CallsTold(events', Len(events'), k.calls)
      BY <3>1, DrainTells
    <3> QED BY <2>5, <3>1, <3>2 DEF LineTold
  <2>6. CASE ln.kind = "failed" /\ provider = "ollama"
    <3>1. then = "fail" /\ Emit(<<Error>>)
      BY <1>7, <2>6 DEF HandleLine
    <3> QED BY <1>3, <3>1, Zenon
  <2>7. CASE /\ ln.kind \notin {"text", "usage", "call", "finish", "end"}
             /\ ~(ln.kind = "failed" /\ provider = "ollama")
    <3>1. then = "more" /\ Emit(<<>>)
      BY <1>7, <2>7 DEF HandleLine
    <3>2. IsSeq(<<>>) /\ \A i \in DOMAIN <<>> : <<>>[i].kind \notin {"text", "call_end"}
      BY <1>5
    <3>3. ln.kind \notin {"text", "call", "finish"}
      BY <2>7
    <3> QED BY <1>2, <3>1, <3>2, <3>3, Zenon
  <2> QED BY <2>1, <2>2, <2>3, <2>4, <2>5, <2>6, <2>7
<1>8. CASE provider = "account" /\ HandleBlock(ln, number, then)
  <2>0. ln.kind \notin {"call", "finish"}
    BY <1>8 DEF Fits
  <2>1. CASE ln.kind = "text"
    <3>1. then = "more" /\ Emit(<<[kind |-> "text", number |-> number]>>)
      BY <1>8, <2>1 DEF HandleBlock
    <3> QED BY <1>4, <2>1, <3>1, Zenon
  <2>2. CASE ln.kind = "reasoning"
    <3>1. then = "more" /\ Emit(<<Event("reasoning")>>)
      BY <1>8, <2>2 DEF HandleBlock
    <3> DEFINE new == <<Event("reasoning")>>
    <3>2. IsSeq(new) /\ \A i \in DOMAIN new : new[i].kind \notin {"text", "call_end"}
      <4>1. IsSeq(new) /\ \A i \in DOMAIN new : new[i].kind = "reasoning"
        BY <1>6
      <4> HIDE DEF new
      <4> QED BY <4>1
    <3> HIDE DEF new
    <3>3. then = "more" /\ Emit(new) /\ ln.kind \notin {"text", "call", "finish"}
      BY <2>2, <3>1 DEF new
    <3> QED BY <1>2, <3>2, <3>3, Zenon
  <2>3. CASE ln.kind = "end"
    <3>1. then = "end" /\ events' = events \o <<Event("usage"), Done>>
      BY <1>8, <2>3 DEF HandleBlock, Emit
    <3> DEFINE two == <<Event("usage"), Done>>
    <3>2. IsSeq(two) /\ \A i \in DOMAIN two : two[i].kind \notin {"text", "call_end"}
      <4>1. IsSeq(two) /\ DOMAIN two = {1, 2} /\ two[1] = Event("usage") /\ two[2] = Done
        BY TwoIsSeq
      <4>2. two[1].kind = "usage" /\ two[2].kind = "done"
        BY <4>1 DEF Event, Done
      <4> HIDE DEF two
      <4> QED BY <4>1, <4>2
    <3>3. CallsTold(events, Len(events), k.calls)
      <4>1. CASE k.fin
        BY <4>1 DEF HeardOf
      <4>2. CASE ~k.fin
        <5>1. Gathered(events, calls, k.calls) /\ DOMAIN k.calls = {}
          BY <1>8, <4>2 DEF HeardOf, Gathered
        <5> QED BY <5>1 DEF Gathered, CallsTold
      <4> QED BY <4>1, <4>2
    <3> HIDE DEF two
    <3>4. events' = events \o two
      BY <3>1 DEF two
    <3>5. TextTold(events', Len(events'), k.text) /\ CallsTold(events', Len(events'), k.calls)
      BY <1>0, <3>2, <3>3, <3>4, NoMoreText, NoMoreCalls
    <3> QED BY <2>3, <3>1, <3>5 DEF LineTold
  <2>4. CASE ln.kind = "failed"
    <3>1. then = "end" /\ Emit(<<Error>>)
      BY <1>8, <2>4 DEF HandleBlock
    <3> QED BY <1>3, <3>1, Zenon
  <2>5. CASE ln.kind \notin {"text", "reasoning", "end", "failed"}
    <3>1. then = "more" /\ Emit(<<>>)
      BY <1>8, <2>5 DEF HandleBlock
    <3>2. IsSeq(<<>>) /\ \A i \in DOMAIN <<>> : <<>>[i].kind \notin {"text", "call_end"}
      BY <1>5
    <3>3. ln.kind \notin {"text", "call", "finish"}
      BY <2>0, <2>5
    <3> QED BY <1>2, <3>1, <3>2, <3>3, Zenon
  <2> QED BY <2>1, <2>2, <2>3, <2>4, <2>5
<1>9. Good
  <2>1. ~(\A i \in DOMAIN parts : parts[i].part # "body")
    OBVIOUS
  <2>2. IF provider = "account" THEN HandleBlock(ln, number, then)
                                ELSE HandleLine(ln, number, then)
    BY <2>1, Zenon DEF HandleParts
  <2> QED BY <1>7, <1>8, <2>2
<1> QED BY <1>9

\* Parts in a row are those of lines.
Follows(p, a, b) ==
    IF a.part = "end" THEN b.part = "head"
    ELSE /\ b.line = a.line
         /\ b.part = IF a.part = "head" THEN "body"
                     ELSE IF a.part = "body" /\ p = "account" THEN "break" ELSE "end"

\* A line is said with its body.
Means(p, k, a, l) ==
    /\ a.part = "body" => Fits(p, k, a.line) /\ l = After(k, a.line)
    /\ a.part # "body" => l = k
    /\ a.part = "head" => a.number = k.text

\* What the server had said before each of the parts that have not been read, and
\* behind them.
Links(p, s, h) ==
    /\ DOMAIN h = 1..(Len(s) + 1)
    /\ Len(s) > 0 => s[1].part = "head"
    /\ \A i \in 1..(Len(s) - 1) : Follows(p, s[i], s[i + 1])
    /\ \A i \in 1..Len(s) : Means(p, h[i], s[i], h[i + 1])
    /\ \A i \in 1..Len(s) : s[i].part = "body" /\ s[i].line.kind = "end" =>
                               h[i + 1] = h[Len(s) + 1]

\* Some history leads from first to last along the parts s.
Linked(p, s, first, last) == \E h : Links(p, s, h) /\ h[1] = first /\ h[Len(s) + 1] = last

\* The parts of the first line.
LEMMA LineParts ==
    ASSUME NEW p, NEW s, NEW h, Len(s) \in Nat, Links(p, s, h), NEW m \in 1..Len(s),
           \A i \in 1..(m - 1) : s[i].part # "end"
    PROVE  /\ s[1].part = "head" /\ s[1].number = h[1].text
           /\ m = 1 => h[m + 1] = h[1]
           /\ m > 1 => /\ s[2].part = "body" /\ Fits(p, h[1], s[1].line)
                       /\ h[m + 1] = After(h[1], s[1].line)
                       /\ s[1].line.kind = "end" => h[m + 1] = h[Len(s) + 1]
<1> DEFINE n == Len(s)
<1>1. /\ n \in Nat /\ n > 0 /\ m \in Nat /\ m <= n /\ m > 0
  OBVIOUS
<1>2. /\ s[1].part = "head"
      /\ \A i \in 1..(n - 1) : Follows(p, s[i], s[i + 1])
      /\ \A i \in 1..n : Means(p, h[i], s[i], h[i + 1])
      /\ \A i \in 1..n : s[i].part = "body" /\ s[i].line.kind = "end" => h[i + 1] = h[n + 1]
  BY <1>1 DEF Links
<1> HIDE DEF n
<1>3. Means(p, h[1], s[1], h[2])
  <2>1. 1 \in 1..n /\ 1 + 1 = 2
    BY <1>1
  <2> QED BY <1>2, <2>1
<1>4. h[2] = h[1] /\ s[1].number = h[1].text
  BY <1>2, <1>3 DEF Means
<1>5. CASE m = 1
  BY <1>2, <1>4, <1>5
<1>6. CASE m > 1
  <2>1. Follows(p, s[1], s[2]) /\ Means(p, h[2], s[2], h[3])
        /\ (s[2].part = "body" /\ s[2].line.kind = "end" => h[3] = h[n + 1])
    <3>1. 1 \in 1..(n - 1) /\ 1 + 1 = 2 /\ 2 \in 1..n /\ 2 + 1 = 3
      BY <1>1, <1>6
    <3> QED BY <1>2, <3>1
  <2>2. s[2].part = "body" /\ s[2].line = s[1].line
    BY <1>2, <2>1 DEF Follows
  <2>3. Fits(p, h[1], s[1].line) /\ h[3] = After(h[1], s[1].line)
        /\ (s[1].line.kind = "end" => h[3] = h[n + 1])
    BY <1>4, <2>1, <2>2 DEF Means
  <2>4. CASE m = 2
    BY <1>2, <1>4, <2>2, <2>3, <2>4 DEF n
  <2>5. CASE m > 2
    <3>1. Follows(p, s[2], s[3]) /\ Means(p, h[3], s[3], h[4])
      <4>1. 2 \in 1..(n - 1) /\ 2 + 1 = 3 /\ 3 \in 1..n /\ 3 + 1 = 4
        BY <1>1, <2>5
      <4> QED BY <1>2, <4>1
    <3>2. s[3].part \in {"break", "end"}
      BY <2>2, <3>1 DEF Follows
    <3>3. h[4] = h[3]
      BY <3>1, <3>2 DEF Means
    <3>4. CASE m = 3
      BY <1>2, <1>4, <2>2, <2>3, <3>3, <3>4 DEF n
    <3>5. CASE m > 3
      <4>1. 3 \in 1..(m - 1) /\ 3 \in 1..(n - 1) /\ 3 + 1 = 4 /\ 4 \in 1..n /\ 4 + 1 = 5
        BY <1>1, <3>5
      <4>2. s[3].part = "break" /\ Follows(p, s[3], s[4]) /\ Means(p, h[4], s[4], h[5])
        BY <1>2, <3>2, <4>1
      <4>3. s[4].part = "end" /\ h[5] = h[4]
        BY <4>2 DEF Follows, Means
      <4>4. m = 4
        <5>1. ~(4 \in 1..(m - 1))
          BY <4>3
        <5> QED BY <1>1, <3>5, <5>1
      <4> QED BY <1>2, <1>4, <2>2, <2>3, <3>3, <4>3, <4>4 DEF n
    <3> QED BY <1>1, <2>5, <3>4, <3>5
  <2> QED BY <1>1, <1>6, <2>4, <2>5
<1> QED BY <1>1, <1>5, <1>6

\* What is left when a line has been read.
LEMMA LinksDrop ==
    ASSUME NEW p, NEW s, NEW h, Len(s) \in Nat, Links(p, s, h), NEW m \in 1..Len(s),
           s[m].part = "end",
           NEW rest, Len(rest) = Len(s) - m, \A i \in 1..(Len(s) - m) : rest[i] = s[m + i]
    PROVE  Linked(p, rest, h[m + 1], h[Len(s) + 1])
<1> DEFINE n == Len(s)
           l == n - m
           g == [i \in 1..(l + 1) |-> h[m + i]]
<1>1. n \in Nat /\ m \in Nat /\ m > 0 /\ l \in Nat /\ l = Len(rest)
  OBVIOUS
<1>2. DOMAIN g = 1..(l + 1) /\ \A i \in 1..(l + 1) : g[i] = h[m + i]
  OBVIOUS
<1> HIDE DEF g
<1>3. g[1] = h[m + 1] /\ g[l + 1] = h[n + 1]
  <2>1. 1 \in 1..(l + 1) /\ l + 1 \in 1..(l + 1) /\ m + (l + 1) = n + 1
    BY <1>1
  <2> QED BY <1>2, <2>1
<1>4. /\ \A i \in 1..(n - 1) : Follows(p, s[i], s[i + 1])
      /\ \A i \in 1..n : Means(p, h[i], s[i], h[i + 1])
      /\ \A i \in 1..n : s[i].part = "body" /\ s[i].line.kind = "end" => h[i + 1] = h[n + 1]
  BY DEF Links
<1>5. ASSUME l > 0 PROVE rest[1].part = "head"
  <2>1. m \in 1..(n - 1) /\ 1 \in 1..l
    BY <1>1, <1>5
  <2>2. Follows(p, s[m], s[m + 1]) /\ rest[1] = s[m + 1]
    BY <1>4, <2>1
  <2> QED BY <2>2 DEF Follows
<1>6. ASSUME NEW i \in 1..(l - 1) PROVE Follows(p, rest[i], rest[i + 1])
  <2>1. i \in 1..l /\ i + 1 \in 1..l /\ m + i \in 1..(n - 1) /\ m + (i + 1) = (m + i) + 1
    BY <1>1
  <2>2. rest[i] = s[m + i] /\ rest[i + 1] = s[(m + i) + 1]
    BY <2>1
  <2> QED BY <1>4, <2>1, <2>2
<1>7. ASSUME NEW i \in 1..l
      PROVE  /\ Means(p, g[i], rest[i], g[i + 1])
             /\ rest[i].part = "body" /\ rest[i].line.kind = "end" => g[i + 1] = g[l + 1]
  <2>1. i \in 1..(l + 1) /\ i + 1 \in 1..(l + 1) /\ m + i \in 1..n /\ m + (i + 1) = (m + i) + 1
    BY <1>1
  <2>2. rest[i] = s[m + i] /\ g[i] = h[m + i] /\ g[i + 1] = h[(m + i) + 1]
    BY <1>2, <2>1
  <2> QED BY <1>3, <1>4, <2>1, <2>2
<1>8. Links(p, rest, g)
  BY <1>1, <1>2, <1>5, <1>6, <1>7 DEF Links
<1> QED BY <1>1, <1>3, <1>8 DEF Linked

\* The parts of a line, of which the last may be missing.
IsLine(p, ln, number, new) ==
    /\ IsSeq(new) /\ Len(new) > 0 /\ new[1].number = number
    /\ \A i \in 1..Len(new) : /\ new[i].line = ln
                              /\ new[i].part = "head" <=> i = 1
                              /\ new[i].part = "body" <=> i = 2
    /\ \A i \in 1..(Len(new) - 1) : Follows(p, new[i], new[i + 1])

\* Nothing is behind the parts that have not been read, and more may follow.
GoesOn(s) ==
    /\ Len(s) > 0 => s[Len(s)].part = "end"
    /\ \A i \in 1..Len(s) : s[i].line.kind # "end"

\* What is left when a line has been said.
LEMMA LinksMore ==
    ASSUME NEW p, NEW s, NEW h, IsSeq(s), Links(p, s, h), GoesOn(s),
           NEW k, k = h[Len(s) + 1], NEW ln, NEW new, IsLine(p, ln, k.text, new),
           Len(new) > 1 => Fits(p, k, ln)
    PROVE  Linked(p, s \o new, h[1], IF Len(new) > 1 THEN After(k, ln) ELSE k)
<1> DEFINE all == s \o new
           n == Len(s)
           m == Len(new)
           g == [i \in 1..(n + m + 1) |-> IF i <= n + 1 THEN h[i]
                                          ELSE IF i = n + 2 THEN k ELSE After(k, ln)]
<1>1. /\ n \in Nat /\ m \in Nat /\ m > 0 /\ Len(all) = n + m
      /\ \A i \in 1..n : all[i] = s[i]
      /\ \A i \in 1..m : all[n + i] = new[i]
  BY JoinFacts DEF IsLine
<1> HIDE DEF all
<1>2. /\ \A i \in 1..(n - 1) : Follows(p, s[i], s[i + 1])
      /\ \A i \in 1..n : Means(p, h[i], s[i], h[i + 1])
      /\ n > 0 => s[1].part = "head" /\ s[n].part = "end"
      /\ \A i \in 1..n : s[i].line.kind # "end"
  BY DEF Links, GoesOn
<1>3. /\ new[1].number = k.text
      /\ \A i \in 1..m : /\ new[i].line = ln
                         /\ new[i].part = "head" <=> i = 1
                         /\ new[i].part = "body" <=> i = 2
      /\ \A i \in 1..(m - 1) : Follows(p, new[i], new[i + 1])
      /\ m > 1 => Fits(p, k, ln)
      /\ k = h[n + 1]
  BY DEF IsLine
<1>4. 1 \in 1..m /\ new[1].part = "head"
  BY <1>1, <1>3
<1> HIDE DEF n, m
<1>5. /\ DOMAIN g = 1..(n + m + 1)
      /\ \A i \in 1..(n + 1) : g[i] = h[i]
      /\ g[n + 2] = k
      /\ \A i \in 3..(m + 1) : g[n + i] = After(k, ln)
  <2>1. \A i \in 1..(n + 1) : i \in 1..(n + m + 1) /\ i <= n + 1
    BY <1>1
  <2>2. n + 2 \in 1..(n + m + 1) /\ ~(n + 2 <= n + 1)
    BY <1>1
  <2>3. \A i \in 3..(m + 1) : n + i \in 1..(n + m + 1) /\ ~(n + i <= n + 1) /\ n + i # n + 2
    BY <1>1
  <2> QED BY <2>1, <2>2, <2>3
<1> HIDE DEF g
<1>6. g[n + 1] = k
  BY <1>1, <1>3, <1>5
<1>7. \A j \in 1..(n + m) : j \in 1..n \/ \E i \in 1..m : j = n + i
  <2> TAKE j \in 1..(n + m)
  <2>1. j \in 1..n \/ (j - n \in 1..m /\ j = n + (j - n))
    BY <1>1
  <2> QED BY <2>1
<1>8. ASSUME NEW i \in 1..m PROVE Means(p, g[n + i], new[i], g[n + i + 1])
  <2>1. CASE i = 1
    <3>1. g[n + i] = k /\ g[n + i + 1] = k
      <4>1. n + i = n + 1 /\ n + i + 1 = n + 2
        BY <1>1, <2>1
      <4> QED BY <1>5, <1>6, <4>1
    <3> QED BY <1>3, <1>4, <2>1, <3>1 DEF Means
  <2>2. CASE i = 2
    <3>1. g[n + i] = k /\ g[n + i + 1] = After(k, ln)
      <4>1. n + i = n + 2 /\ n + i + 1 = n + 3 /\ 3 \in 3..(m + 1)
        BY <1>1, <2>2
      <4> QED BY <1>5, <4>1
    <3>2. m > 1
      BY <1>1, <2>2
    <3> QED BY <1>3, <2>2, <3>1, <3>2 DEF Means
  <2>3. CASE i > 2
    <3>1. g[n + i] = After(k, ln) /\ g[n + i + 1] = After(k, ln)
      <4>1. i \in 3..(m + 1) /\ i + 1 \in 3..(m + 1) /\ n + i + 1 = n + (i + 1)
        BY <1>1, <2>3
      <4> QED BY <1>5, <4>1
    <3>2. i # 1 /\ i # 2
      BY <2>3
    <3> QED BY <1>3, <3>1, <3>2 DEF Means
  <2> QED BY <2>1, <2>2, <2>3
<1>9. g[n + m + 1] = IF m > 1 THEN After(k, ln) ELSE k
  <2>1. CASE m > 1
    <3>1. m + 1 \in 3..(m + 1) /\ n + m + 1 = n + (m + 1)
      BY <1>1, <2>1
    <3> QED BY <1>5, <2>1, <3>1
  <2>2. CASE ~(m > 1)
    <3>1. n + m + 1 = n + 2
      BY <1>1, <2>2
    <3> QED BY <1>5, <2>2, <3>1
  <2> QED BY <2>1, <2>2
<1>10. all[1].part = "head"
  <2>1. CASE n > 0
    <3>1. 1 \in 1..n
      BY <1>1, <2>1
    <3> QED BY <1>1, <1>2, <2>1, <3>1
  <2>2. CASE ~(n > 0)
    <3>1. n + 1 = 1
      BY <1>1, <2>2
    <3> QED BY <1>1, <1>4, <3>1
  <2> QED BY <2>1, <2>2
<1>11. ASSUME NEW j \in 1..(n + m - 1) PROVE Follows(p, all[j], all[j + 1])
  <2>1. CASE j < n
    <3>1. j \in 1..(n - 1) /\ j \in 1..n /\ j + 1 \in 1..n
      BY <1>1, <2>1
    <3> QED BY <1>1, <1>2, <3>1
  <2>2. CASE j = n
    <3>1. n > 0 /\ n \in 1..n
      BY <1>1, <2>2
    <3>2. all[j].part = "end" /\ all[j + 1].part = "head"
      BY <1>1, <1>2, <1>4, <2>2, <3>1
    <3> QED BY <3>2 DEF Follows
  <2>3. CASE j > n
    <3> DEFINE i == j - n
    <3>1. i \in 1..(m - 1) /\ i \in 1..m /\ i + 1 \in 1..m /\ j = n + i /\ j + 1 = n + (i + 1)
      BY <1>1, <2>3
    <3> HIDE DEF i
    <3>2. all[j] = new[i] /\ all[j + 1] = new[i + 1]
      BY <1>1, <3>1
    <3> QED BY <1>3, <3>1, <3>2
  <2> QED BY <1>1, <2>1, <2>2, <2>3
<1>12. ASSUME NEW j \in 1..(n + m)
       PROVE  /\ Means(p, g[j], all[j], g[j + 1])
              /\ all[j].part = "body" /\ all[j].line.kind = "end" => g[j + 1] = g[n + m + 1]
  <2>1. CASE j \in 1..n
    <3>1. j \in 1..(n + 1) /\ j + 1 \in 1..(n + 1)
      BY <1>1, <2>1
    <3>2. all[j] = s[j] /\ g[j] = h[j] /\ g[j + 1] = h[j + 1]
      BY <1>1, <1>5, <2>1, <3>1
    <3> QED BY <1>2, <2>1, <3>2
  <2>2. ASSUME NEW i \in 1..m, j = n + i
        PROVE  /\ Means(p, g[j], all[j], g[j + 1])
               /\ all[j].part = "body" /\ all[j].line.kind = "end" => g[j + 1] = g[n + m + 1]
    <3>1. all[j] = new[i] /\ j + 1 = n + i + 1
      BY <1>1, <2>2
    <3>2. Means(p, g[j], all[j], g[j + 1])
      BY <1>8, <2>2, <3>1
    <3>3. ASSUME all[j].part = "body" PROVE g[j + 1] = g[n + m + 1]
      <4>1. i = 2
        BY <1>3, <3>1, <3>3
      <4>2. j + 1 = n + 3 /\ 3 \in 3..(m + 1) /\ m > 1
        BY <1>1, <2>2, <4>1
      <4> QED BY <1>5, <1>9, <4>2
    <3> QED BY <3>2, <3>3
  <2> QED BY <1>7, <2>1, <2>2
<1>13. Links(p, all, g)
  BY <1>1, <1>5, <1>10, <1>11, <1>12 DEF Links
<1>14. g[1] = h[1]
  <2>1. 1 \in 1..(n + 1)
    BY <1>1
  <2> QED BY <1>5, <2>1
<1> QED BY <1>1, <1>9, <1>13, <1>14 DEF Linked, all, n, m

\* What the server has said so far.
SaidInv == said.text \in Nat /\ said.calls \in Seq(Seq(Nat)) /\ said.lines \in Nat

\* The parts on their way to being read.
Unread == buffer \o wire

\* While the connection is open the last line is whole, and something may follow it.
Continues(s, last, k) ==
    /\ Len(s) > 0 => s[Len(s)].part = "end"
    /\ last \notin {"end", "failed"} => /\ \A i \in 1..Len(s) : s[i].line.kind # "end"
                                        /\ k.fin => last = "finish"

\* k is all that has been said.
Reaches(k) == k.text = said.text /\ k.calls = said.calls

\* What has been told and what is to be read make up what was said.
ListensAt(h) ==
    /\ Links(provider, Unread, h)
    /\ HeardOf(events, calls, h[1])
    /\ Reaches(h[Len(Unread) + 1])
    /\ connection = "open" => Continues(Unread, said.last, h[Len(Unread) + 1])

\* A first end that is Done comes behind all that was said.
AllTold ==
    \A n \in Nat : EndsAt(events, n) /\ events[n] = Done =>
                      TextTold(events, n, said.text) /\ CallsTold(events, n, said.calls)

HeardInv ==
    /\ SaidInv
    /\ pc \notin {"finishing", "done"} => \E h : ListensAt(h)
    /\ pc = "finishing" /\ Silent(events) => \E k : HeardOf(events, calls, k) /\ Reaches(k)
    /\ pc \in {"finishing", "done"} => AllTold

LEMMA HeardInit == Init => HeardInv
<1> SUFFICES ASSUME Init PROVE HeardInv
  OBVIOUS
<1>1. /\ said = [text |-> 0, calls |-> <<>>, lines |-> 0, last |-> "nothing", cut |-> FALSE]
      /\ wire = <<>> /\ buffer = <<>> /\ calls = <<>> /\ events = <<>> /\ pc = "preparing"
  BY DEF Init
<1> DEFINE k == [text |-> 0, calls |-> <<>>, fin |-> FALSE]
           h == [i \in 1..1 |-> k]
<1>2. Unread = <<>> /\ Len(Unread) = 0
  BY <1>1 DEF Unread
<1>3. SaidInv
  BY <1>1 DEF SaidInv
<1>4. HeardOf(events, calls, k)
  <2>1. TextTold(<<>>, 0, 0)
    BY DEF TextTold
  <2>2. Gathered(<<>>, <<>>, <<>>)
    BY DEF Gathered
  <2>3. Len(<<>>) = 0 /\ <<>> \in Seq(Seq(Nat))
    OBVIOUS
  <2> QED BY <1>1, <2>1, <2>2, <2>3 DEF HeardOf
<1>5. Links(provider, Unread, h)
  BY <1>2 DEF Links
<1>6. h[1] = k /\ h[0 + 1] = k
  OBVIOUS
<1>7. Reaches(k) /\ Continues(Unread, said.last, k)
  BY <1>1, <1>2 DEF Reaches, Continues
<1> HIDE DEF h, k
<1>8. ListensAt(h)
  BY <1>2, <1>4, <1>5, <1>6, <1>7 DEF ListensAt
<1> QED BY <1>1, <1>3, <1>8 DEF HeardInv

\* What says, moves and tells nothing.
LEMMA NothingTold ==
    ASSUME HeardInv, pc \notin {"finishing", "done"}, pc' \notin {"finishing", "done"},
           UNCHANGED <<provider, said, calls, events>>, Unread' = Unread,
           connection' # "open" \/ connection' = connection
    PROVE  HeardInv'
<1>1. PICK h : ListensAt(h)
  BY DEF HeardInv
<1>2. ListensAt(h)'
  BY <1>1 DEF ListensAt, Reaches
<1>3. SaidInv'
  BY DEF HeardInv, SaidInv
<1> QED BY <1>2, <1>3 DEF HeardInv

\* An end has been told behind an error, or behind all that was said.
LEMMA EndTold ==
    ASSUME IsSeq(events'), EndsAt(events', Len(events')),
           \/ events'[Len(events')] = Error
           \/ /\ TextTold(events', Len(events'), said'.text)
              /\ CallsTold(events', Len(events'), said'.calls)
    PROVE  AllTold'
<1> SUFFICES ASSUME NEW n \in Nat, EndsAt(events', n), events'[n] = Done
             PROVE  TextTold(events', n, said'.text) /\ CallsTold(events', n, said'.calls)
  BY Zenon DEF AllTold
<1>1. n = Len(events')
  <2>1. DOMAIN events' = 1..Len(events') /\ Len(events') \in Nat
    BY AppendFacts
  <2>2. n \in DOMAIN events' /\ IsEnd(events'[n])
    BY Zenon DEF EndsAt
  <2>3. \A i \in 1..(Len(events') - 1) : ~IsEnd(events'[i])
    BY Zenon DEF EndsAt
  <2>4. n \notin 1..(Len(events') - 1)
    BY ONLY <2>2, <2>3
  <2> DEFINE l == Len(events')
  <2>5. n \in 1..l /\ n \notin 1..(l - 1) /\ l \in Nat
    BY ONLY <2>1, <2>2, <2>4
  <2> HIDE DEF l
  <2>6. n = l
    BY ONLY <2>5
  <2> QED BY <2>6 DEF l
<1>2. Done # Error
  BY DEF Done, Error, Event
<1> QED BY <1>1, <1>2

\* A call that fails tells no Done.
LEMMA FailTold ==
    ASSUME StreamInvs, HeardInv, pc \notin {"finishing", "done"}, Fail
    PROVE  HeardInv'
<1>1. IsSeq(events) /\ Silent(events)
  BY DEF StreamInvs, StreamInv, EndInv
<1>2. /\ IsSeq(events') /\ EndsAt(events', Len(events')) /\ events'[Len(events')] = Error
  BY <1>1, AppendFacts DEF Fail, EndsAt, Silent, IsEnd, Error, Event
<1>3. AllTold'
  BY <1>2, EndTold
<1>4. SaidInv' /\ pc' = "done"
  BY DEF HeardInv, SaidInv, Fail
<1> QED BY <1>3, <1>4 DEF HeardInv

\* Parts that are received stay where they were among the unread.
LEMMA ReceiveTold == StreamInvs /\ HeardInv /\ Receive => HeardInv'
<1> SUFFICES ASSUME StreamInvs, HeardInv, Receive PROVE HeardInv'
  OBVIOUS
<1>1. PICK n \in 1..Len(wire) :
         /\ buffer' = buffer \o SubSeq(wire, 1, n)
         /\ wire' = SubSeq(wire, n + 1, Len(wire))
  BY DEF Receive
<1>2. IsSeq(buffer) /\ IsSeq(wire) /\ Len(wire) \in Nat
  <2>1. IsSeq(buffer) /\ IsSeq(wire)
    BY DEF StreamInvs, StreamInv
  <2> QED BY <2>1, AppendFacts
<1> DEFINE a == SubSeq(wire, 1, n)
           b == SubSeq(wire, n + 1, Len(wire))
<1>3. /\ IsSeq(a) /\ Len(a) = n /\ \A i \in 1..n : a[i] = wire[i]
  <2>1. 1 \in 1..(Len(wire) + 1) /\ n \in Nat /\ n <= Len(wire) /\ 1 <= n + 1
    BY <1>2
  <2>2. /\ IsSeq(a) /\ Len(a) = n - 1 + 1 /\ \A i \in 1..(n - 1 + 1) : a[i] = wire[1 + i - 1]
    BY ONLY <1>2, <2>1, SubSeqFacts
  <2> HIDE DEF a
  <2>3. n - 1 + 1 = n /\ \A i \in 1..n : 1 + i - 1 = i
    BY <2>1
  <2> QED BY <2>2, <2>3
<1>4. IsSeq(b) /\ Len(b) = Len(wire) - n /\ \A i \in 1..(Len(wire) - n) : b[i] = wire[n + i]
  <2>1. /\ n + 1 \in 1..(Len(wire) + 1) /\ Len(wire) <= Len(wire) /\ n + 1 <= Len(wire) + 1
        /\ n \in Nat
    BY <1>2
  <2>2. /\ IsSeq(b) /\ Len(b) = Len(wire) - (n + 1) + 1
        /\ \A i \in 1..(Len(wire) - (n + 1) + 1) : b[i] = wire[n + 1 + i - 1]
    BY ONLY <1>2, <2>1, SubSeqFacts
  <2> HIDE DEF b
  <2>3. /\ Len(wire) - (n + 1) + 1 = Len(wire) - n
        /\ \A i \in 1..(Len(wire) - n) : n + 1 + i - 1 = n + i
    BY <1>2, <2>1
  <2> QED BY <2>2, <2>3
<1> HIDE DEF a, b
<1>5. a \o b = wire
  <2>1. /\ IsSeq(a \o b) /\ Len(a \o b) = Len(a) + Len(b)
        /\ \A i \in 1..Len(a) : (a \o b)[i] = a[i]
        /\ \A i \in (Len(a) + 1)..(Len(a) + Len(b)) : (a \o b)[i] = b[i - Len(a)]
    <3>1. IsSeq(a) /\ IsSeq(b)
      BY <1>3, <1>4
    <3> QED BY ONLY <3>1, ConcatFacts
  <2> DEFINE all == a \o b
  <2> HIDE DEF all
  <2>2. Len(all) = Len(wire)
    BY <1>2, <1>3, <1>4, <2>1 DEF all
  <2>3. ASSUME NEW i \in 1..Len(all) PROVE all[i] = wire[i]
    <3>1. CASE i <= n
      <4>1. i \in 1..n
        BY <1>2, <3>1
      <4> QED BY <1>3, <2>1, <4>1 DEF all
    <3>2. CASE i > n
      <4>1. /\ i \in (Len(a) + 1)..(Len(a) + Len(b)) /\ i - n \in 1..(Len(wire) - n)
            /\ n + (i - n) = i
        BY <1>2, <1>3, <1>4, <2>2, <3>2
      <4> QED BY <1>3, <1>4, <2>1, <4>1 DEF all
    <3> QED BY <1>2, <2>2, <3>1, <3>2
  <2> QED BY <1>2, <2>1, <2>2, <2>3, SameSeq DEF all
<1>6. Unread' = Unread
  <2>1. Unread' = (buffer \o a) \o b
    BY <1>1 DEF Unread, a, b
  <2>2. (buffer \o a) \o b = buffer \o (a \o b)
    <3>1. IsSeq(buffer) /\ IsSeq(a) /\ IsSeq(b)
      BY <1>2, <1>3, <1>4
    <3> QED BY ONLY <3>1, SeqAssociative
  <2> QED BY <1>5, <2>1, <2>2 DEF Unread
<1> QED BY <1>6, NothingTold DEF Receive

\* What the server may say next makes sense after what it has said.
LEMMA LineFits ==
    ASSUME SaidInv, NEW ln \in Lines, NEW k, Reaches(k),
           k.fin => ln.kind \in {"usage", "end", "comment"}
    PROVE  Fits(provider, k, ln)
<1>1. \/ ln.kind \notin {"call", "finish"}
      \/ provider = "openai_compat" /\ ln = Line("finish")
      \/ provider = "openai_compat" /\ \E a \in {<<>>, <<said.lines>>} : ln = Opening(a)
      \/ provider = "openai_compat" /\ \E i \in DOMAIN said.calls :
                                          ln = Fragment(i, FALSE, <<said.lines>>)
  <2>1. CASE \E kind \in {"text", "end", "failed", "comment", "reasoning", "usage"} :
                ln = Line(kind)
    <3>1. PICK kind \in {"text", "end", "failed", "comment", "reasoning", "usage"} :
             ln = Line(kind)
      BY <2>1
    <3>2. ln.kind = kind
      BY <3>1 DEF Line
    <3> QED BY <3>2
  <2>2. CASE provider = "openai_compat"
    BY <2>1, <2>2 DEF Lines
  <2>3. CASE provider # "openai_compat"
    BY <2>1, <2>3 DEF Lines
  <2> QED BY <2>2, <2>3
<1>2. ASSUME ln = Line("finish"), provider = "openai_compat" PROVE Fits(provider, k, ln)
  BY <1>2 DEF Fits, Line
<1>3. <<said.lines>> \in Seq(Nat) /\ <<said.lines>> # <<>> /\ <<>> \in Seq(Nat)
  BY DEF SaidInv
<1>4. ASSUME NEW a \in Seq(Nat), provider = "openai_compat", ln = Opening(a)
      PROVE  Fits(provider, k, ln)
  BY <1>4 DEF Fits, Opening, Fragment, Reaches
<1>5. ASSUME NEW i \in DOMAIN said.calls, provider = "openai_compat",
             ln = Fragment(i, FALSE, <<said.lines>>)
      PROVE  Fits(provider, k, ln)
  BY <1>3, <1>5 DEF Fits, Fragment, Reaches
<1>6. ASSUME ln.kind \notin {"call", "finish"} PROVE Fits(provider, k, ln)
  BY <1>6 DEF Fits
<1> QED BY <1>1, <1>2, <1>3, <1>4, <1>5, <1>6

\* A line makes what was said one longer.
LEMMA SaysLine ==
    ASSUME SaidInv, DOMAIN said = {"text", "calls", "lines", "last", "cut"},
           NEW ln, NEW k, Reaches(k), Fits(provider, k, ln)
    PROVE  /\ Saying(ln).text = After(k, ln).text
           /\ Saying(ln).calls = After(k, ln).calls
           /\ Saying(ln).text \in Nat /\ Saying(ln).calls \in Seq(Seq(Nat))
           /\ Saying(ln).lines = said.lines /\ Saying(ln).last = said.last
           /\ DOMAIN Saying(ln) = DOMAIN said
<1> DEFINE now == Saying(ln)
           cs  == said.calls
<1>1. /\ DOMAIN now = DOMAIN said /\ now.lines = said.lines /\ now.last = said.last
      /\ now.text = IF ln.kind = "text" THEN said.text + 1 ELSE said.text
      /\ now.calls = IF ln.kind # "call" THEN cs
                     ELSE IF ln.first THEN Append(cs, ln.args)
                     ELSE [cs EXCEPT ![ln.index] = @ \o ln.args]
  <2> DEFINE t == IF ln.kind = "text" THEN said.text + 1 ELSE said.text
             c == IF ln.kind # "call" THEN cs
                  ELSE IF ln.first THEN Append(cs, ln.args)
                  ELSE [cs EXCEPT ![ln.index] = @ \o ln.args]
  <2>1. now = [said EXCEPT !.text = t, !.calls = c]
    BY DEF Saying
  <2> HIDE DEF t, c, now
  <2>2. /\ DOMAIN now = DOMAIN said /\ now.lines = said.lines /\ now.last = said.last
        /\ now.text = t /\ now.calls = c
    BY <2>1
  <2> QED BY <2>2 DEF t, c
<1>2. k.text = said.text /\ k.calls = cs /\ said.text \in Nat /\ cs \in Seq(Seq(Nat))
  BY DEF Reaches, SaidInv
<1> HIDE DEF now, cs
<1>3. now.text = After(k, ln).text /\ now.calls = After(k, ln).calls
  BY <1>1, <1>2 DEF After
<1>4. now.text \in Nat
  BY <1>1, <1>2
<1>5. CASE ln.kind # "call"
  BY <1>1, <1>2, <1>3, <1>4, <1>5 DEF now
<1>6. CASE ln.kind = "call"
  <2>1. /\ ln.args \in Seq(Nat) /\ ln.first \in BOOLEAN
        /\ ln.first => ln.index = Len(cs) + 1
        /\ ~ln.first => ln.index \in DOMAIN cs
    BY <1>2, <1>6 DEF Fits
  <2> DEFINE x == ln.index
             args == ln.args
             first == ln.first
             calls1 == now.calls
             old == IF x \in DOMAIN cs THEN cs[x] ELSE <<>>
  <2>2. /\ args \in Seq(Nat) /\ first \in BOOLEAN
        /\ first => x = Len(cs) + 1
        /\ ~first => x \in DOMAIN cs
        /\ calls1 = IF first THEN Append(cs, args) ELSE [cs EXCEPT ![x] = @ \o args]
    BY <1>1, <1>6, <2>1
  <2>3. old = IF x \in DOMAIN cs THEN cs[x] ELSE <<>>
    OBVIOUS
  <2> HIDE DEF x, args, first, calls1, old
  <2>4. calls1 \in Seq(Seq(Nat))
    BY ONLY <1>2, <2>2, <2>3, CallSaid, SMTT(30)
  <2> QED BY <1>1, <1>3, <1>4, <2>4 DEF now, calls1
<1> QED BY <1>5, <1>6

\* The first n parts of a line.
PartsOf(ln, n, number) == [i \in 1..n |-> [line |-> ln, part |-> Parts[i], number |-> number]]

\* They are those of a line.
LEMMA PartsFollow ==
    ASSUME NEW n \in 1..Len(Parts), NEW ln, NEW number, NEW new, new = PartsOf(ln, n, number)
    PROVE  /\ Len(Parts) \in {3, 4} /\ n \in Nat
           /\ IsLine(provider, ln, number, new) /\ Len(new) = n
           /\ n = Len(Parts) => new[n].part = "end"
<1>0. new = [i \in 1..n |-> [line |-> ln, part |-> Parts[i], number |-> number]]
  BY DEF PartsOf
<1>1. CASE provider = "account"
  <2>1. /\ Len(Parts) = 4 /\ Parts[1] = "head" /\ Parts[2] = "body" /\ Parts[3] = "break"
        /\ Parts[4] = "end"
    BY <1>1 DEF Parts
  <2>2. /\ n \in {1, 2, 3, 4}
        /\ \A i \in 1..n : i \in {1, 2, 3, 4} /\ new[i].line = ln /\ new[i].part = Parts[i]
        /\ new[1].number = number
    BY <1>0, <2>1
  <2>3. ASSUME NEW i \in 1..(n - 1) PROVE Follows(provider, new[i], new[i + 1])
    <3>1. i \in 1..n /\ i + 1 \in 1..n /\ i \in {1, 2, 3}
      BY <2>2
    <3>2. CASE i = 1
      BY <2>1, <2>2, <3>1, <3>2 DEF Follows
    <3>3. CASE i = 2
      BY <1>1, <2>1, <2>2, <3>1, <3>3 DEF Follows
    <3>4. CASE i = 3
      BY <2>1, <2>2, <3>1, <3>4 DEF Follows
    <3> QED BY <3>1, <3>2, <3>3, <3>4
  <2>4. IsSeq(new) /\ Len(new) = n
    <3>1. n \in Nat /\ DOMAIN new = 1..n /\ new = [i \in 1..n |-> new[i]]
      BY <1>0, <2>2
    <3> QED BY <3>1, ListIsSeq
  <2>5. \A i \in 1..n : /\ new[i].part = "head" <=> i = 1
                        /\ new[i].part = "body" <=> i = 2
    <3> TAKE i \in 1..n
    <3>1. i \in 1..4 /\ new[i].part = Parts[i]
      BY <2>2
    <3> QED BY <2>1, <2>2, <3>1
  <2>6. n = Len(Parts) => new[n].part = "end"
    BY <2>1, <2>2
  <2>7. Len(Parts) \in {3, 4} /\ n \in Nat
    BY <2>1, <2>2
  <2> QED BY <2>2, <2>3, <2>4, <2>5, <2>6, <2>7 DEF IsLine
<1>2. CASE provider # "account"
  <2>1. Len(Parts) = 3 /\ Parts[1] = "head" /\ Parts[2] = "body" /\ Parts[3] = "end"
    BY <1>2 DEF Parts
  <2>2. /\ n \in {1, 2, 3}
        /\ \A i \in 1..n : i \in {1, 2, 3} /\ new[i].line = ln /\ new[i].part = Parts[i]
        /\ new[1].number = number
    BY <1>0, <2>1
  <2>3. ASSUME NEW i \in 1..(n - 1) PROVE Follows(provider, new[i], new[i + 1])
    <3>1. i \in 1..n /\ i + 1 \in 1..n /\ i \in {1, 2}
      BY <2>2
    <3>2. CASE i = 1
      BY <2>1, <2>2, <3>1, <3>2 DEF Follows
    <3>3. CASE i = 2
      BY <1>2, <2>1, <2>2, <3>1, <3>3 DEF Follows
    <3> QED BY <3>1, <3>2, <3>3
  <2>4. IsSeq(new) /\ Len(new) = n
    <3>1. n \in Nat /\ DOMAIN new = 1..n /\ new = [i \in 1..n |-> new[i]]
      BY <1>0, <2>2
    <3> QED BY <3>1, ListIsSeq
  <2>5. \A i \in 1..n : /\ new[i].part = "head" <=> i = 1
                        /\ new[i].part = "body" <=> i = 2
    <3> TAKE i \in 1..n
    <3>1. i \in 1..4 /\ new[i].part = Parts[i]
      BY <2>2
    <3> QED BY <2>1, <2>2, <3>1
  <2>6. n = Len(Parts) => new[n].part = "end"
    BY <2>1, <2>2
  <2>7. Len(Parts) \in {3, 4} /\ n \in Nat
    BY <2>1, <2>2
  <2> QED BY <2>2, <2>3, <2>4, <2>5, <2>6, <2>7 DEF IsLine
<1> QED BY <1>1, <1>2

\* A line that is said is behind all that is unread.
LEMMA SayTold == StreamInvs /\ HeardInv /\ Say => HeardInv'
<1> SUFFICES ASSUME StreamInvs, HeardInv, Say PROVE HeardInv'
  OBVIOUS
<1>1. PICK ln \in Lines, n \in 1..Len(Parts) :
         /\ said.last = "finish" => ln.kind \in {"usage", "end", "comment"}
         /\ said' = [(IF n > 1 THEN Saying(ln) ELSE said) EXCEPT
                        !.lines = @ + 1,
                        !.last = IF @ = "finish" /\ ln.kind # "end" THEN @ ELSE ln.kind,
                        !.cut = n < Len(Parts)]
         /\ wire' = wire \o [i \in 1..n |-> [line |-> ln, part |-> Parts[i],
                                            number |-> said.text]]
         /\ connection' = IF n < Len(Parts) THEN "closed" ELSE "open"
  BY DEF Say
<1> DEFINE new == PartsOf(ln, n, said.text)
           now == IF n > 1 THEN Saying(ln) ELSE said
<1>2. /\ Len(Parts) \in {3, 4} /\ n \in Nat
      /\ IsLine(provider, ln, said.text, new) /\ IsSeq(new) /\ Len(new) = n
      /\ \A i \in 1..n : new[i].line = ln
      /\ n = Len(Parts) => new[n].part = "end"
  <2>1. new = PartsOf(ln, n, said.text) /\ n \in 1..Len(Parts)
    OBVIOUS
  <2> HIDE DEF new
  <2>2. /\ Len(Parts) \in {3, 4} /\ n \in Nat
        /\ IsLine(provider, ln, said.text, new) /\ Len(new) = n
        /\ n = Len(Parts) => new[n].part = "end"
    BY ONLY <2>1, PartsFollow
  <2> QED BY <2>2 DEF IsLine
<1>3. wire' = wire \o new
  BY <1>1 DEF PartsOf
<1> HIDE DEF new
<1>4. /\ IsSeq(buffer) /\ IsSeq(wire) /\ DOMAIN said = {"text", "calls", "lines", "last", "cut"}
      /\ pc = "reading" /\ pc' = "reading" /\ buffer' = buffer /\ connection = "open"
      /\ provider' = provider /\ calls' = calls /\ events' = events
      /\ said.last \notin {"end", "failed"}
  BY DEF StreamInvs, StreamInv, Say
<1>5. Unread' = Unread \o new /\ IsSeq(Unread)
  <2>1. IsSeq(buffer) /\ IsSeq(wire) /\ IsSeq(new)
    BY <1>2, <1>4
  <2>2. (buffer \o wire) \o new = buffer \o (wire \o new)
    BY ONLY <2>1, SeqAssociative, SMTT(30)
  <2>3. IsSeq(buffer \o wire)
    BY ONLY <2>1, ConcatFacts
  <2>4. Unread' = buffer \o (wire \o new)
    BY <1>3, <1>4 DEF Unread
  <2> QED BY <2>2, <2>3, <2>4 DEF Unread
<1>6. PICK h : ListensAt(h)
  BY <1>4 DEF HeardInv
<1> DEFINE k == h[Len(Unread) + 1]
<1>7. /\ Links(provider, Unread, h) /\ HeardOf(events, calls, h[1]) /\ Reaches(k)
      /\ Len(Unread) > 0 => Unread[Len(Unread)].part = "end"
      /\ \A i \in 1..Len(Unread) : Unread[i].line.kind # "end"
      /\ k.fin => said.last = "finish"
  BY <1>4, <1>6 DEF ListensAt, Continues
<1>8. SaidInv
  BY DEF HeardInv
<1> HIDE DEF k
<1>9. Fits(provider, k, ln)
  BY <1>1, <1>7, <1>8, LineFits
<1> DEFINE next == IF n > 1 THEN After(k, ln) ELSE k
<1>10. /\ now.text = next.text /\ now.calls = next.calls
       /\ now.text \in Nat /\ now.calls \in Seq(Seq(Nat)) /\ now.lines = said.lines
       /\ now.last = said.last /\ DOMAIN now = DOMAIN said
  <2>1. CASE n > 1
    BY <1>4, <1>7, <1>8, <1>9, <2>1, SaysLine
  <2>2. CASE ~(n > 1)
    BY <1>7, <1>8, <2>2 DEF SaidInv, Reaches
  <2> QED BY <2>1, <2>2
<1>11. said' = [now EXCEPT !.lines = @ + 1,
                           !.last = IF @ = "finish" /\ ln.kind # "end" THEN @ ELSE ln.kind,
                           !.cut = n < Len(Parts)]
  BY <1>1
<1> HIDE DEF now
<1>12. /\ said'.text = now.text /\ said'.calls = now.calls /\ said'.lines = said.lines + 1
       /\ said'.last = IF said.last = "finish" /\ ln.kind # "end" THEN said.last ELSE ln.kind
  <2> DEFINE last == IF now.last = "finish" /\ ln.kind # "end" THEN now.last ELSE ln.kind
             cut  == n < Len(Parts)
  <2>1. said' = [now EXCEPT !.lines = now.lines + 1, !.last = last, !.cut = cut]
    BY <1>11
  <2> HIDE DEF last, cut
  <2>2. /\ said'.text = now.text /\ said'.calls = now.calls /\ said'.lines = now.lines + 1
        /\ said'.last = last
    BY <1>4, <1>10, <2>1
  <2> QED BY <1>10, <2>2 DEF last
<1>13. SaidInv'
  BY <1>8, <1>10, <1>12 DEF SaidInv
<1>14. PICK g : Links(provider, Unread \o new, g) /\ g[1] = h[1] /\ g[Len(Unread \o new) + 1] = next
  <2>1. IsSeq(Unread) /\ Links(provider, Unread, h) /\ GoesOn(Unread)
    BY <1>5, <1>7 DEF GoesOn
  <2>2. k = h[Len(Unread) + 1]
    BY DEF k
  <2>3. Len(new) > 1 => Fits(provider, k, ln)
    BY <1>9
  <2>4. IsLine(provider, ln, k.text, new)
    BY <1>2, <1>7 DEF Reaches
  <2>5. Linked(provider, Unread \o new, h[1], IF Len(new) > 1 THEN After(k, ln) ELSE k)
    BY ONLY <2>1, <2>2, <2>3, <2>4, LinksMore
  <2> QED BY <1>2, <2>5 DEF Linked
<1>15. ASSUME connection' = "open" PROVE Continues(Unread \o new, said'.last, next)
  <2>1. n = Len(Parts)
    BY <1>1, <1>2, <1>15
  <2> DEFINE all == Unread \o new
  <2>2. /\ Len(all) = Len(Unread) + n /\ Len(Unread) \in Nat
        /\ \A i \in 1..Len(Unread) : all[i] = Unread[i]
        /\ \A i \in 1..n : all[Len(Unread) + i] = new[i]
        /\ \A i \in 1..Len(all) : i \notin 1..Len(Unread) =>
              i - Len(Unread) \in 1..n /\ all[i] = new[i - Len(Unread)]
    <3>1. IsSeq(Unread) /\ IsSeq(new) /\ all = Unread \o new
      BY <1>2, <1>5
    <3> HIDE DEF all
    <3>2. /\ Len(Unread) \in Nat /\ Len(all) = Len(Unread) + Len(new)
          /\ \A i \in 1..Len(Unread) : i \in 1..Len(all) /\ all[i] = Unread[i]
          /\ \A i \in 1..Len(new) : Len(Unread) + i \in 1..Len(all)
                                    /\ all[Len(Unread) + i] = new[i]
          /\ \A i \in 1..Len(all) : i \notin 1..Len(Unread) =>
                i - Len(Unread) \in 1..Len(new) /\ all[i] = new[i - Len(Unread)]
      BY ONLY <3>1, JoinFacts
    <3> QED BY <1>2, <3>2
  <2> HIDE DEF all
  <2>3. all[Len(all)].part = "end"
    BY <1>2, <2>1, <2>2
  <2>4. ASSUME said'.last \notin {"end", "failed"}
        PROVE  /\ \A i \in 1..Len(all) : all[i].line.kind # "end"
               /\ next.fin => said'.last = "finish"
    <3>1. ln.kind # "end"
      BY <1>12, <2>4
    <3>2. ASSUME NEW i \in 1..Len(all) PROVE all[i].line.kind # "end"
      BY <1>2, <1>7, <2>2, <3>1
    <3>3. next.fin => k.fin \/ ln.kind = "finish"
      BY DEF After
    <3>4. next.fin => said'.last = "finish"
      BY <1>7, <1>12, <3>1, <3>3
    <3> QED BY <3>2, <3>4
  <2> QED BY <2>3, <2>4 DEF Continues, all
<1>16. /\ Links(provider', Unread', g) /\ HeardOf(events', calls', g[1])
       /\ next.text = said'.text /\ next.calls = said'.calls
       /\ g[Len(Unread') + 1] = next
       /\ connection' = "open" => Continues(Unread', said'.last, next)
  BY <1>4, <1>5, <1>7, <1>10, <1>12, <1>14, <1>15
<1>17. ListensAt(g)'
  BY <1>16 DEF ListensAt, Reaches
<1> QED BY <1>4, <1>13, <1>17 DEF HeardInv

\* The parts of the first line that has not been read tell what it says.
LEMMA PartsTold ==
    ASSUME StreamInvs, pc = "reading", NEW h, ListensAt(h), NEW parts, NEW m \in 1..Len(Unread),
           DOMAIN parts = 1..m, \A i \in 1..m : parts[i] = Unread[i],
           \A i \in 1..(m - 1) : Unread[i].part # "end",
           NEW then \in Outcome, HandleParts(parts, then), said' = said
    PROVE  /\ then = "more" => HeardOf(events', calls', h[m + 1])
           /\ then # "more" => AllTold'
<1>1. /\ IsSeq(events) /\ IsFiniteSet(DOMAIN calls) /\ Silent(events)
      /\ provider = "account" => DOMAIN calls = {}
      /\ IsSeq(buffer) /\ IsSeq(wire)
  BY DEF StreamInvs, StreamInv, EndInv
<1>2. IsSeq(Unread) /\ Len(Unread) \in Nat
  <2>1. IsSeq(Unread)
    BY <1>1, ConcatFacts DEF Unread
  <2> QED BY <2>1, AppendFacts
<1> DEFINE s == Unread
           n == Len(s)
           k == h[1]
           ln == s[1].line
<1>3. /\ Links(provider, s, h) /\ HeardOf(events, calls, k)
      /\ h[n + 1].text = said.text /\ h[n + 1].calls = said.calls
  BY DEF ListensAt, Reaches
<1> HIDE DEF s
<1>4. /\ s[1].part = "head" /\ s[1].number = k.text
      /\ m = 1 => h[m + 1] = k
      /\ m > 1 => /\ s[2].part = "body" /\ Fits(provider, k, ln)
                  /\ h[m + 1] = After(k, ln)
                  /\ ln.kind = "end" => h[m + 1] = h[n + 1]
  <2>1. /\ Len(s) \in Nat /\ m \in 1..Len(s) /\ Links(provider, s, h)
        /\ \A i \in 1..(m - 1) : s[i].part # "end"
    BY <1>2, <1>3 DEF s
  <2> QED BY ONLY <2>1, LineParts
<1>5. /\ m \in Nat /\ m > 0 /\ 1 \in 1..m /\ parts[1] = s[1]
      /\ m > 1 => 2 \in 1..m /\ parts[2] = s[2]
  BY <1>2 DEF s
<1> HIDE DEF n, k, ln
<1>6. ASSUME then # "more"
      PROVE  IsSeq(events') /\ EndsAt(events', Len(events'))
  BY <1>1, <1>6, PartsHandled, EndingFacts
<1>7. CASE m = 1
  <2>1. HandleGarbage(then)
    <3>1. \A i \in DOMAIN parts : parts[i].part # "body"
      BY <1>4, <1>5, <1>7
    <3> QED BY <3>1, Zenon DEF HandleParts
  <2>2. /\ then = "more" => HeardOf(events', calls', k)
        /\ then # "more" => events'[Len(events')] = Error
    BY <1>1, <1>3, <2>1, GarbageHeard
  <2>3. then # "more" => AllTold'
    BY <1>6, <2>2, EndTold
  <2> QED BY <1>4, <1>7, <2>2, <2>3
<1>8. CASE m > 1
  <2>1. LineTold(k, parts[1].line, then)
    <3>1. \E i \in DOMAIN parts : parts[i].part = "body"
      BY <1>4, <1>5, <1>8
    <3>2. parts[1].number = k.text /\ Fits(provider, k, parts[1].line)
      BY <1>4, <1>5, <1>8 DEF ln
    <3> QED BY <1>1, <1>3, <3>1, <3>2, LineHeard
  <2>2. parts[1].line = ln
    BY <1>5 DEF ln
  <2>3. then = "more" => HeardOf(events', calls', h[m + 1])
    BY <1>4, <1>8, <2>1, <2>2 DEF LineTold
  <2>4. ASSUME then # "more" PROVE AllTold'
    <3>1. \/ events'[Len(events')] = Error
          \/ /\ ln.kind = "end"
             /\ TextTold(events', Len(events'), k.text)
             /\ CallsTold(events', Len(events'), k.calls)
      BY <2>1, <2>2, <2>4 DEF LineTold
    <3>2. ln.kind = "end" => k.text = said'.text /\ k.calls = said'.calls
      <4>1. ln.kind = "end" => After(k, ln).text = k.text /\ After(k, ln).calls = k.calls
        BY DEF After
      <4> QED BY <1>3, <1>4, <1>8, <4>1
    <3>3. \/ events'[Len(events')] = Error
          \/ /\ TextTold(events', Len(events'), said'.text)
             /\ CallsTold(events', Len(events'), said'.calls)
      BY <3>1, <3>2
    <3> QED BY <1>6, <2>4, <3>3, EndTold
  <2> QED BY <2>3, <2>4
<1> QED BY <1>5, <1>7, <1>8

\* The first line is read off the unread parts.
LEMMA ReadLineTold == StreamInvs /\ HeardInv /\ ReadLine => HeardInv'
<1> SUFFICES ASSUME StreamInvs, HeardInv, ReadLine PROVE HeardInv'
  OBVIOUS
<1>1. /\ IsSeq(wire) /\ IsSeq(buffer) /\ pc = "reading" /\ FirstLine # 0
      /\ buffer' = SubSeq(buffer, FirstLine + 1, Len(buffer))
      /\ UNCHANGED <<provider, said, connection, wire>>
  BY DEF StreamInvs, StreamInv, ReadLine
<1>2. PICK then \in Outcome :
         /\ HandleParts(SubSeq(buffer, 1, FirstLine), then)
         /\ pc' = IF then = "more" THEN "reading" ELSE "done"
  BY DEF ReadLine
<1> DEFINE m == FirstLine
           parts == SubSeq(buffer, 1, m)
           rest  == SubSeq(buffer, m + 1, Len(buffer))
<1>3. /\ m \in 1..Len(buffer) /\ buffer[m].part = "end" /\ Len(buffer) \in Nat
      /\ \A i \in 1..(m - 1) : buffer[i].part # "end"
  BY <1>1, FirstLineFacts, AppendFacts
<1> HIDE DEF m
<1>4. DOMAIN parts = 1..m /\ \A i \in 1..m : parts[i] = buffer[i]
  <2>1. 1 \in 1..(Len(buffer) + 1) /\ m \in Nat /\ m <= Len(buffer) /\ 1 <= m + 1
    BY <1>3
  <2>2. /\ DOMAIN parts = 1..(m - 1 + 1) /\ \A i \in 1..(m - 1 + 1) : parts[i] = buffer[1 + i - 1]
    BY ONLY <1>1, <2>1, SubSeqFacts
  <2> HIDE DEF parts
  <2>3. m - 1 + 1 = m /\ \A i \in 1..m : 1 + i - 1 = i
    BY <2>1
  <2> QED BY <2>2, <2>3
<1>5. /\ IsSeq(rest) /\ Len(rest) = Len(buffer) - m
      /\ \A i \in 1..(Len(buffer) - m) : rest[i] = buffer[m + i]
  <2>1. /\ m + 1 \in 1..(Len(buffer) + 1) /\ Len(buffer) <= Len(buffer)
        /\ m + 1 <= Len(buffer) + 1 /\ m \in Nat /\ Len(buffer) \in Nat
    BY <1>3
  <2>2. /\ IsSeq(rest) /\ Len(rest) = Len(buffer) - (m + 1) + 1
        /\ \A i \in 1..(Len(buffer) - (m + 1) + 1) : rest[i] = buffer[m + 1 + i - 1]
    BY ONLY <1>1, <2>1, SubSeqFacts
  <2> HIDE DEF rest
  <2>3. /\ Len(buffer) - (m + 1) + 1 = Len(buffer) - m
        /\ \A i \in 1..(Len(buffer) - m) : m + 1 + i - 1 = m + i
    BY <2>1
  <2> QED BY <2>2, <2>3
<1>6. HandleParts(parts, then) /\ Unread' = rest \o wire
  BY <1>1, <1>2 DEF m, Unread
<1> HIDE DEF parts, rest
<1> DEFINE s == Unread
           t == rest \o wire
<1>7. /\ IsSeq(s) /\ Len(s) = Len(buffer) + Len(wire) /\ Len(wire) \in Nat
      /\ \A i \in 1..Len(buffer) : s[i] = buffer[i]
      /\ \A i \in 1..Len(wire) : s[Len(buffer) + i] = wire[i]
  BY <1>1, ConcatFacts DEF Unread
<1>8. /\ Len(t) = Len(rest) + Len(wire)
      /\ \A i \in 1..Len(rest) : t[i] = rest[i]
      /\ \A i \in (Len(rest) + 1)..(Len(rest) + Len(wire)) : t[i] = wire[i - Len(rest)]
  BY <1>1, <1>5, ConcatFacts, SMTT(20)
<1> HIDE DEF s, t
<1>9. /\ m \in 1..Len(s) /\ Len(s) \in Nat /\ s[m].part = "end"
      /\ \A i \in 1..(m - 1) : s[i].part # "end"
      /\ \A i \in 1..m : parts[i] = s[i]
  <2>1. /\ m \in 1..Len(buffer) /\ Len(buffer) <= Len(s) /\ Len(s) \in Nat
        /\ \A i \in 1..m : i \in 1..Len(buffer)
        /\ \A i \in 1..(m - 1) : i \in 1..Len(buffer)
    BY <1>3, <1>7
  <2>2. m \in 1..Len(s)
    BY <1>3, <2>1
  <2> QED BY <1>3, <1>4, <1>7, <2>1, <2>2
<1>10. Len(t) = Len(s) - m /\ \A i \in 1..(Len(s) - m) : t[i] = s[m + i]
  <2>1. Len(t) = Len(s) - m
    BY <1>3, <1>5, <1>7, <1>8
  <2>2. ASSUME NEW i \in 1..(Len(s) - m) PROVE t[i] = s[m + i]
    <3>1. CASE i \in 1..Len(rest)
      <4>1. t[i] = buffer[m + i] /\ m + i \in 1..Len(buffer)
        BY <1>3, <1>5, <1>8, <3>1
      <4> QED BY <1>7, <4>1
    <3>2. CASE i \notin 1..Len(rest)
      <4> DEFINE j == i - Len(rest)
      <4>1. /\ i \in (Len(rest) + 1)..(Len(rest) + Len(wire)) /\ j \in 1..Len(wire)
            /\ m + i = Len(buffer) + j
        BY <1>3, <1>5, <1>7, <3>2
      <4>2. t[i] = wire[j]
        BY <1>8, <4>1
      <4> HIDE DEF j
      <4> QED BY <1>7, <4>1, <4>2
    <3> QED BY <3>1, <3>2
  <2> QED BY <2>1, <2>2
<1>11. PICK h : ListensAt(h)
  BY <1>1 DEF HeardInv
<1>12. /\ then = "more" => HeardOf(events', calls', h[m + 1])
       /\ then # "more" => AllTold'
  BY <1>1, <1>4, <1>6, <1>9, <1>11, PartsTold DEF s
<1>13. SaidInv'
  BY <1>1 DEF HeardInv, SaidInv
<1>14. CASE then # "more"
  BY <1>2, <1>12, <1>13, <1>14 DEF HeardInv
<1>15. CASE then = "more"
  <2>1. /\ Links(provider, s, h) /\ Reaches(h[Len(s) + 1])
        /\ connection = "open" => Continues(s, said.last, h[Len(s) + 1])
    BY <1>11 DEF ListensAt, s
  <2>2. Linked(provider, t, h[m + 1], h[Len(s) + 1])
    <3>1. /\ Len(s) \in Nat /\ Links(provider, s, h) /\ m \in 1..Len(s) /\ s[m].part = "end"
          /\ Len(t) = Len(s) - m /\ \A i \in 1..(Len(s) - m) : t[i] = s[m + i]
      BY <1>9, <1>10, <2>1
    <3> QED BY ONLY <3>1, LinksDrop
  <2>3. PICK g : /\ Links(provider, t, g) /\ g[1] = h[m + 1] /\ g[Len(t) + 1] = h[Len(s) + 1]
    BY <2>2 DEF Linked
  <2>4. ASSUME connection = "open" PROVE Continues(t, said.last, h[Len(s) + 1])
    <3>1. Continues(s, said.last, h[Len(s) + 1])
      BY <2>1, <2>4
    <3>2. Len(t) > 0 => t[Len(t)] = s[Len(s)] /\ Len(s) > 0
      <4> SUFFICES ASSUME Len(t) > 0 PROVE t[Len(t)] = s[Len(s)] /\ Len(s) > 0
        OBVIOUS
      <4>1. Len(t) \in 1..(Len(s) - m) /\ m + Len(t) = Len(s) /\ Len(s) > 0
        BY <1>9, <1>10
      <4> QED BY <1>10, <4>1
    <3>3. \A i \in 1..Len(t) : t[i] = s[m + i] /\ m + i \in 1..Len(s)
      BY <1>9, <1>10
    <3> QED BY <3>1, <3>2, <3>3 DEF Continues
  <2>5. /\ Links(provider', Unread', g) /\ HeardOf(events', calls', g[1])
        /\ g[Len(Unread') + 1] = h[Len(s) + 1]
        /\ h[Len(s) + 1].text = said'.text /\ h[Len(s) + 1].calls = said'.calls
        /\ connection' = "open" => Continues(Unread', said'.last, h[Len(s) + 1])
    BY <1>1, <1>6, <1>12, <1>15, <2>1, <2>3, <2>4 DEF t, Reaches
  <2>6. ListensAt(g)'
    BY <2>5 DEF ListensAt, Reaches
  <2> QED BY <1>2, <1>13, <1>15, <2>6 DEF HeardInv
<1> QED BY <1>14, <1>15

\* A line without its end is all that is unread.
LEMMA ReadRestTold == StreamInvs /\ HeardInv /\ ReadRest => HeardInv'
<1> SUFFICES ASSUME StreamInvs, HeardInv, ReadRest PROVE HeardInv'
  OBVIOUS
<1>1. /\ IsSeq(wire) /\ IsSeq(buffer) /\ pc = "reading" /\ wire = <<>> /\ buffer # <<>>
      /\ FirstLine = 0 /\ buffer' = <<>>
      /\ UNCHANGED <<provider, said, connection, wire>>
  BY DEF StreamInvs, StreamInv, ReadRest, EndOfStream
<1>2. PICK then \in Outcome :
         HandleParts(buffer, then) /\ pc' = IF IsOver(then) THEN "done" ELSE "finishing"
  BY DEF ReadRest
<1>3. Unread = buffer
  BY <1>1, ConcatEmptySeq DEF Unread, IsSeq
<1> DEFINE m == Len(buffer)
<1>4. DOMAIN buffer = 1..m /\ m \in 1..m
  BY <1>1, NoLength, AppendFacts
<1>5. \A i \in 1..(m - 1) : buffer[i].part # "end"
  BY <1>1, <1>4, FirstLineFacts
<1>6. PICK h : ListensAt(h)
  BY <1>1 DEF HeardInv
<1>7. /\ then = "more" => HeardOf(events', calls', h[m + 1])
      /\ then # "more" => AllTold'
  <2>1. /\ m \in 1..Len(Unread) /\ DOMAIN buffer = 1..m
        /\ \A i \in 1..m : buffer[i] = Unread[i]
        /\ \A i \in 1..(m - 1) : Unread[i].part # "end"
    BY <1>3, <1>4, <1>5
  <2> HIDE DEF m
  <2> QED BY <1>1, <1>2, <1>6, <2>1, PartsTold
<1>8. h[m + 1].text = said'.text /\ h[m + 1].calls = said'.calls
  BY <1>1, <1>3, <1>6 DEF ListensAt, Reaches
<1> HIDE DEF m
<1>9. SaidInv'
  BY <1>1 DEF HeardInv, SaidInv
<1>10. /\ StreamInvs' /\ IsSeq(events') /\ Len(events') \in Nat
       /\ pc' \in {"finishing", "done"}
  <2>1. StreamInvs' /\ IsSeq(events')
    BY ReadRestStep DEF StreamInvs, StreamInv
  <2> QED BY <1>2, <2>1, AppendFacts
<1>11. CASE then = "more"
  <2>1. /\ IsSeq(events) /\ Silent(events) /\ IsFiniteSet(DOMAIN calls)
    BY <1>1 DEF StreamInvs, StreamInv, EndInv
  <2>2. Silent(events')
    BY <1>2, <1>11, <2>1, PartsHandled, QuietlyFacts
  <2>3. AllTold'
    <3>1. \A n \in Nat : ~EndsAt(events', n)
      BY <2>2 DEF Silent, EndsAt
    <3> QED BY <3>1 DEF AllTold
  <2>4. (\E k : HeardOf(events, calls, k) /\ Reaches(k))'
    BY <1>7, <1>8, <1>11 DEF Reaches
  <2> QED BY <1>9, <1>10, <2>3, <2>4 DEF HeardInv
<1>12. CASE then # "more"
  <2>1. /\ IsSeq(events) /\ Silent(events) /\ IsFiniteSet(DOMAIN calls)
    BY <1>1 DEF StreamInvs, StreamInv, EndInv
  <2>2. EndsAt(events', Len(events'))
    BY <1>2, <1>12, <2>1, PartsHandled, EndingFacts
  <2>3. ~Silent(events')
    BY <2>2 DEF Silent, EndsAt
  <2> QED BY <1>7, <1>9, <1>10, <1>12, <2>3 DEF HeardInv
<1> QED BY <1>11, <1>12

\* What comes after an end changes nothing.
LEMMA ToldBefore ==
    ASSUME NEW ev, NEW new, NEW n \in 1..Len(ev), NEW t, NEW cs, IsSeq(ev), IsSeq(new)
    PROVE  /\ TextTold(ev, n, t) => TextTold(ev \o new, n, t)
           /\ CallsTold(ev, n, cs) => CallsTold(ev \o new, n, cs)
<1> DEFINE all == ev \o new
<1>1. \A i \in 1..n : all[i] = ev[i]
  <2>1. \A i \in 1..Len(ev) : all[i] = ev[i]
    BY ConcatFacts
  <2>2. \A i \in 1..n : i \in 1..Len(ev)
    BY AppendFacts
  <2> QED BY <2>1, <2>2
<1> HIDE DEF all
<1>2. TextTold(ev, n, t) => TextTold(all, n, t)
  BY <1>1 DEF TextTold
<1>3. CallsTold(ev, n, cs) => CallsTold(all, n, cs)
  BY <1>1 DEF CallsTold
<1> QED BY <1>2, <1>3 DEF all

\* When nothing is unread, all that was said has been told or is drained.
LEMMA FinishTold == StreamInvs /\ HeardInv /\ Finish => HeardInv'
<1> SUFFICES ASSUME StreamInvs, HeardInv, Finish PROVE HeardInv'
  OBVIOUS
<1>1. /\ IsSeq(events) /\ IsFiniteSet(DOMAIN calls)
      /\ EmitPendingToolEnds(<<Done>>) /\ pc' = "done" /\ said' = said
      /\ \/ pc = "reading" /\ wire = <<>> /\ buffer = <<>>
         \/ pc = "finishing"
  BY DEF StreamInvs, StreamInv, Finish, EndOfStream
<1>2. IsEnd(Done)
  BY DEF IsEnd, Done, Event
<1>3. SaidInv'
  BY <1>1 DEF HeardInv, SaidInv
<1>4. Ending(Done) /\ (DOMAIN calls = {} => events' = events \o <<Done>>)
  BY <1>1, <1>2, Drained
<1>5. CASE Silent(events)
  <2>1. PICK k : HeardOf(events, calls, k) /\ Reaches(k)
    <3>1. CASE pc = "finishing"
      BY <1>5, <3>1 DEF HeardInv
    <3>2. CASE pc = "reading" /\ wire = <<>> /\ buffer = <<>>
      <4>1. PICK h : ListensAt(h)
        BY <3>2 DEF HeardInv
      <4>2. Unread = <<>>
        BY <3>2 DEF Unread
      <4>3. Len(Unread) + 1 = 1
        BY <4>2
      <4>4. Reaches(h[1])
        BY <4>1, <4>3 DEF ListensAt
      <4> QED BY <4>1, <4>4 DEF ListensAt
    <3> QED BY <1>1, <3>1, <3>2
  <2>2. /\ TextTold(events', Len(events'), k.text)
        /\ CallsTold(events', Len(events'), k.calls)
    BY <1>1, <2>1, DrainTells
  <2>3. /\ TextTold(events', Len(events'), said'.text)
        /\ CallsTold(events', Len(events'), said'.calls)
    BY <1>1, <2>1, <2>2 DEF Reaches
  <2>4. IsSeq(events') /\ EndsAt(events', Len(events'))
    BY <1>1, <1>4, <1>5, EndingFacts
  <2>5. AllTold'
    BY <2>3, <2>4, EndTold
  <2> QED BY <1>1, <1>3, <2>5 DEF HeardInv
<1>6. CASE ~Silent(events)
  <2>1. pc = "finishing" /\ EndsAt(events, Len(events)) /\ DOMAIN calls = {}
    BY <1>1, <1>6 DEF StreamInvs, EndInv
  <2>2. events' = events \o <<Done>> /\ AllTold /\ Len(events) \in Nat
    BY <1>1, <1>4, <2>1, AppendFacts DEF HeardInv
  <2> DEFINE l == Len(events)
  <2>3. /\ IsSeq(<<Done>>) /\ l \in Nat /\ DOMAIN events = 1..l
        /\ DOMAIN events' = 1..(l + 1) /\ \A i \in 1..l : events'[i] = events[i]
    BY <1>1, <2>2, OneIsSeq, ConcatFacts
  <2>4. l \in 1..l /\ IsEnd(events[l]) /\ IsEnd(events'[l]) /\ EndsAt(events, l)
    BY <2>1, <2>3 DEF EndsAt
  <2>5. ASSUME NEW n \in Nat, EndsAt(events', n), events'[n] = Done
        PROVE  TextTold(events', n, said'.text) /\ CallsTold(events', n, said'.calls)
    <3>1. n \in DOMAIN events' /\ IsEnd(events'[n]) /\ \A i \in 1..(n - 1) : ~IsEnd(events'[i])
      BY <2>5, Zenon DEF EndsAt
    <3>2. l \notin 1..(n - 1)
      BY <2>4, <3>1
    <3> HIDE DEF l
    <3>3. n \in 1..l
      BY <2>3, <2>4, <3>1, <3>2
    <3>4. \A i \in 1..(l - 1) : ~IsEnd(events[i])
      BY <2>4, Zenon DEF EndsAt
    <3>5. IsEnd(events[n])
      BY <2>3, <3>1, <3>3
    <3>6. n = l
      BY <2>3, <3>3, <3>4, <3>5
    <3>7. TextTold(events, n, said.text) /\ CallsTold(events, n, said.calls)
      <4>1. events[n] = Done
        BY <2>3, <2>5, <3>3
      <4> QED BY <2>2, <2>4, <3>6, <4>1 DEF AllTold
    <3>8. n \in 1..Len(events)
      BY <3>3 DEF l
    <3> QED BY <1>1, <2>2, <2>3, <3>7, <3>8, ToldBefore
  <2>6. AllTold'
    BY <2>5 DEF AllTold
  <2> QED BY <1>1, <1>3, <2>6 DEF HeardInv
<1> QED BY <1>5, <1>6

\* The invariant of the response and of what is heard of it.
HeardInvs == StreamInvs /\ HeardInv

LEMMA HeardStep == HeardInvs /\ [Next]_streamVars => HeardInvs'
<1> SUFFICES ASSUME StreamInvs, HeardInv, [Next]_streamVars PROVE HeardInv'
  BY StreamStep DEF HeardInvs
<1>1. CASE Prepare
  BY <1>1, NothingTold DEF Prepare, Unread
<1>2. CASE Open /\ pc = "sending"
  BY <1>2, NothingTold DEF Open, Unread
<1>3. CASE Fail /\ pc \in {"sending", "reading"}
  BY <1>3, FailTold
<1>4. CASE SendOnce
  BY <1>2, <1>3, <1>4 DEF SendOnce
<1>5. ASSUME NEW session, NEW model, NEW api, pc = "sending", Attempt(session, model, api)
      PROVE  HeardInv'
  BY <1>5, NothingTold DEF Attempt, Unread
<1>6. CASE SendFirst
  BY <1>3, <1>5, <1>6 DEF SendFirst, Copilot
<1>7. CASE FallBack
  BY <1>5, <1>7 DEF FallBack, Copilot
<1>8. CASE Refresh
  BY <1>3, <1>5, <1>8 DEF Refresh, Copilot
<1>9. CASE SendListed
  BY <1>3, <1>5, <1>9 DEF SendListed, Copilot
<1>10. CASE Conclude
  BY <1>2, <1>3, <1>10 DEF Conclude, Copilot
<1>11. CASE Close
  <2>1. connection' # "open"
    BY <1>11 DEF Close
  <2> QED BY <1>11, <2>1, NothingTold DEF Close, Unread
<1>12. CASE ReadFails
  BY <1>3, <1>12 DEF ReadFails
<1>13. CASE UNCHANGED streamVars
  <2>1. SaidInv' /\ AllTold' = AllTold
    BY <1>13 DEF streamVars, HeardInv, SaidInv, AllTold
  <2>2. \A h : ListensAt(h)' <=> ListensAt(h)
    BY <1>13 DEF streamVars, ListensAt, Unread, Reaches
  <2>3. \A k : (HeardOf(events, calls, k) /\ Reaches(k))'
                 <=> HeardOf(events, calls, k) /\ Reaches(k)
    BY <1>13 DEF streamVars, Reaches
  <2>4. pc' = pc /\ (Silent(events') <=> Silent(events))
    BY <1>13 DEF streamVars
  <2> QED BY <2>1, <2>2, <2>3, <2>4 DEF HeardInv
<1> QED BY <1>1, <1>4, <1>6, <1>7, <1>8, <1>9, <1>10, <1>11, <1>12, <1>13,
           SayTold, ReceiveTold, ReadLineTold, ReadRestTold, FinishTold DEF Next

\* However the chunks fall and wherever the response is cut off, a turn that hears
\* Done has heard the text as far as it was said, in order, and every call with its
\* own arguments in the order they were said.  (the stream functions of providers/)
THEOREM HeardAsSaidHolds == Spec => []HeardAsSaid
<1>1. HeardInvs => HeardAsSaid
  <2> SUFFICES ASSUME HeardInvs, pc = "done", events[FirstEnd] = Done
               PROVE  /\ {Hearing[i].number : i \in TextHeard} = 0..(said.text - 1)
                      /\ \A i, j \in TextHeard : i < j => Hearing[i].number < Hearing[j].number
                      /\ Dispatched = {[id |-> i, args |-> said.calls[i]] :
                                          i \in {i \in DOMAIN said.calls : said.calls[i] # <<>>}}
    BY DEF HeardAsSaid
  <2>1. IsSeq(events) /\ Len(events) \in Nat /\ DOMAIN events = 1..Len(events)
    BY AppendFacts DEF HeardInvs, StreamInvs, StreamInv
  <2>2. PICK n \in Nat : EndsAt(events, n)
    <3>1. EndsAt(events, Len(events)) \/ (Len(events) > 1 /\ EndsAt(events, Len(events) - 1))
      BY DEF HeardInvs, StreamInvs, EndInv
    <3>2. Len(events) > 1 => Len(events) - 1 \in Nat
      BY <2>1
    <3> QED BY <2>1, <3>1, <3>2
  <2>3. FirstEnd = n /\ n \in 1..Len(events)
    BY <2>1, <2>2, FirstEndIs DEF EndsAt
  <2>4. TextTold(events, n, said.text) /\ CallsTold(events, n, said.calls)
    BY <2>2, <2>3 DEF HeardInvs, HeardInv, AllTold
  <2>5. DOMAIN Hearing = 1..n /\ \A i \in 1..n : Hearing[i] = events[i]
    <3>1. 1 \in 1..(Len(events) + 1) /\ n <= Len(events) /\ 1 <= n + 1 /\ n \in Nat
      BY <2>1, <2>3
    <3> DEFINE told == SubSeq(events, 1, n)
    <3>2. /\ DOMAIN told = 1..(n - 1 + 1) /\ \A i \in 1..(n - 1 + 1) : told[i] = events[1 + i - 1]
      BY ONLY <2>1, <3>1, SubSeqFacts
    <3>3. Hearing = told
      BY <2>3 DEF Hearing
    <3> HIDE DEF told
    <3>4. n - 1 + 1 = n /\ \A i \in 1..n : 1 + i - 1 = i
      BY <3>1
    <3> QED BY <3>2, <3>3, <3>4
  <2>6. {Hearing[i].number : i \in TextHeard} = 0..(said.text - 1)
    <3>1. TextHeard = {i \in 1..n : events[i].kind = "text"}
      BY <2>5 DEF TextHeard
    <3>2. \A i \in TextHeard : i \in 1..n /\ events[i].kind = "text" /\ Hearing[i] = events[i]
      BY <2>5, <3>1
    <3>3. ASSUME NEW x \in 0..(said.text - 1) PROVE \E i \in TextHeard : Hearing[i].number = x
      <4>1. PICK i \in 1..n : events[i].kind = "text" /\ events[i].number = x
        BY <2>4 DEF TextTold
      <4> QED BY <3>1, <3>2, <4>1
    <3>4. \A i \in TextHeard : Hearing[i].number \in 0..(said.text - 1)
      BY <2>4, <3>2 DEF TextTold
    <3> QED BY <3>3, <3>4
  <2>7. \A i, j \in TextHeard : i < j => Hearing[i].number < Hearing[j].number
    BY <2>4, <2>5 DEF TextTold, TextHeard
  <2> DEFINE cs == said.calls
             ends == {j \in DOMAIN Hearing :
                        /\ Hearing[j].kind = "call_end"
                        /\ \E i \in 1..(j - 1) : /\ Hearing[i].kind = "call_start"
                                               /\ Hearing[i].id = Hearing[j].id}
             full == {i \in DOMAIN cs : cs[i] # <<>>}
             call(i) == [id |-> i, args |-> cs[i]]
  <2>8. ASSUME NEW j \in ends
        PROVE  Hearing[j].id \in full /\ [id |-> Hearing[j].id, args |-> Hearing[j].args]
                                            = call(Hearing[j].id)
    <3>1. j \in 1..n /\ events[j].kind = "call_end" /\ Hearing[j] = events[j]
      BY <2>5
    <3> QED BY <2>4, <3>1 DEF CallsTold
  <2>9. ASSUME NEW i \in full PROVE \E j \in ends : Hearing[j].id = i
    <3>1. PICK l \in 1..n, j \in 1..n : /\ l < j
                                        /\ events[l].kind = "call_start" /\ events[l].id = i
                                        /\ events[j].kind = "call_end" /\ events[j].id = i
      BY <2>4 DEF CallsTold
    <3>2. l \in 1..(j - 1)
      BY <3>1
    <3>3. j \in ends /\ Hearing[j].id = i
      BY <2>5, <3>1, <3>2
    <3> QED BY <3>3
  <2>10. Dispatched = {[id |-> Hearing[j].id, args |-> Hearing[j].args] : j \in ends}
    BY DEF Dispatched
  <2> HIDE DEF ends, full, cs
  <2>11. Dispatched = {call(i) : i \in full}
    <3>1. \A j \in ends : \E i \in full :
             [id |-> Hearing[j].id, args |-> Hearing[j].args] = call(i)
      BY <2>8
    <3>2. \A i \in full : \E j \in ends :
             [id |-> Hearing[j].id, args |-> Hearing[j].args] = call(i)
      BY <2>8, <2>9
    <3> HIDE DEF call
    <3> QED BY <2>10, <3>1, <3>2
  <2> QED BY <2>6, <2>7, <2>11 DEF full, cs
<1>2. Init => HeardInvs
  BY StreamInit, HeardInit DEF HeardInvs
<1> QED BY <1>1, <1>2, HeardStep, PTL DEF Spec

-----------------------------------------------------------------------------
(* What is sent of a transcript.                                           *)

\* What holds of 0 and of every successor holds up to n.
LEMMA UpTo ==
    ASSUME NEW n \in Nat, NEW T, 0 \in T, \A i \in 1..n : i - 1 \in T => i \in T
    PROVE  \A i \in 0..n : i \in T
<1> DEFINE Bad == {i \in 0..n : i \notin T}
<1> SUFFICES ASSUME Bad # {} PROVE FALSE
  OBVIOUS
<1>1. PICK m \in Bad : \A j \in Bad : m <= j
  <2>1. Bad \subseteq Nat
    OBVIOUS
  <2> HIDE DEF Bad
  <2> QED BY <2>1, LeastExists
<1>2. m \in Nat /\ m \in 1..n
  OBVIOUS
<1>3. m - 1 \notin Bad
  <2>1. ~(m <= m - 1)
    BY <1>2
  <2> HIDE DEF Bad
  <2> QED BY <1>1, <2>1
<1> QED BY <1>2, <1>3

\* A recursion along the numbers up to n defines a function.
Recurses(g, n, R, base, step) ==
    g \in [0..n -> R] /\ g[0] = base /\ \A i \in 1..n : g[i] = step[i][g[i - 1]]

LEMMA RecursionExists ==
    ASSUME NEW n \in Nat, NEW R, NEW base \in R, NEW step, step \in [1..n -> [R -> R]]
    PROVE  \E g : Recurses(g, n, R, base, step)
<1> DEFINE Goes(g, m) == /\ g \in [0..n -> R]
                         /\ g[0] = base
                         /\ \A i \in 1..m : g[i] = step[i][g[i - 1]]
           T == {m \in 0..n : \E g : Goes(g, m)}
<1>1. 0 \in T
  <2>1. Goes([i \in 0..n |-> base], 0)
    OBVIOUS
  <2> HIDE DEF Goes
  <2> QED BY <2>1
<1>2. ASSUME NEW m \in 1..n, m - 1 \in T PROVE m \in T
  <2>1. PICK g : Goes(g, m - 1)
    BY <1>2
  <2> DEFINE h == [g EXCEPT ![m] = step[m][g[m - 1]]]
  <2>2. step[m][g[m - 1]] \in R
    BY <2>1
  <2>3. h \in [0..n -> R] /\ h[m] = step[m][g[m - 1]] /\ \A i \in 0..n : i # m => h[i] = g[i]
    BY <2>1, <2>2
  <2> HIDE DEF h
  <2>4. ASSUME NEW i \in 1..m PROVE h[i] = step[i][h[i - 1]]
    <3>1. i - 1 # m /\ i - 1 \in 0..n /\ i \in 0..n
      OBVIOUS
    <3>2. CASE i = m
      BY <2>3, <3>1, <3>2
    <3>3. CASE i # m
      <4>1. i \in 1..(m - 1)
        BY <3>3
      <4> QED BY <2>1, <2>3, <3>1, <3>3, <4>1
    <3> QED BY <3>2, <3>3
  <2>5. Goes(h, m)
    BY <2>1, <2>3, <2>4
  <2> HIDE DEF Goes
  <2> QED BY <2>5
<1>3. n \in T
  <2> HIDE DEF T
  <2>1. \A i \in 0..n : i \in T
    BY <1>1, <1>2, UpTo
  <2> QED BY <2>1
<1>4. PICK g : Goes(g, n)
  BY <1>3
<1> QED BY <1>4 DEF Recurses

\* The sums of the first so many.
LEMMA SumsFacts ==
    ASSUME NEW n \in Nat, NEW c \in [1..n -> Nat]
    PROVE  /\ Sums(c) \in [0..n -> Nat] /\ Sums(c)[0] = 0
           /\ \A i \in 1..n : Sums(c)[i] = Sums(c)[i - 1] + c[i]
<1> DEFINE step == [i \in 1..n |-> [sum \in Nat |-> sum + c[i]]]
           Rec(g) == g = [i \in 0..n |-> IF i = 0 THEN 0 ELSE g[i - 1] + c[i]]
           Sum == CHOOSE g : Rec(g)
<1>1. Len(c) = n
  OBVIOUS
<1>2. Sums(c) = Sum
  BY <1>1 DEF Sums
<1>3. step \in [1..n -> [Nat -> Nat]]
  OBVIOUS
<1>4. \A a \in Nat, i \in 1..n : step[i][a] = a + c[i]
  OBVIOUS
<1> HIDE DEF step
<1>5. PICK g : /\ g \in [0..n -> Nat] /\ g[0] = 0
               /\ \A i \in 1..n : g[i] = step[i][g[i - 1]]
  <2>1. 0 \in Nat /\ n \in Nat
    OBVIOUS
  <2>2. \E g : Recurses(g, n, Nat, 0, step)
    BY ONLY <1>3, <2>1, RecursionExists, Zenon
  <2> QED BY <2>2 DEF Recurses
<1>6. Rec(g)
  <2>1. \A i \in 0..n : g[i] = IF i = 0 THEN 0 ELSE step[i][g[i - 1]]
    BY <1>5
  <2>2. \A i \in 1..n : g[i - 1] \in Nat
    BY <1>5
  <2>3. \A i \in 1..n : step[i][g[i - 1]] = g[i - 1] + c[i]
    BY <1>4, <2>2
  <2>4. \A i \in 0..n : g[i] = IF i = 0 THEN 0 ELSE g[i - 1] + c[i]
    BY <2>1, <2>3
  <2>5. g = [i \in 0..n |-> g[i]]
    BY <1>5
  <2> QED BY <2>4, <2>5
<1>7. Rec(Sum)
  <2> HIDE DEF Rec
  <2> QED BY <1>6
<1> HIDE DEF Sum
<1>8. Sum[0] = 0 /\ \A i \in 1..n : Sum[i] = Sum[i - 1] + c[i]
  BY <1>7
<1> DEFINE T == {i \in 0..n : Sum[i] \in Nat}
<1>9. \A i \in 0..n : i \in T
  <2>1. 0 \in T
    BY <1>8
  <2>2. \A i \in 1..n : i - 1 \in T => i \in T
    BY <1>8
  <2> HIDE DEF T
  <2> QED BY <2>1, <2>2, UpTo
<1>10. Sum \in [0..n -> Nat]
  BY <1>7, <1>9
<1> QED BY <1>2, <1>8, <1>10

\* Sums of the same numbers are the same.
LEMMA SumsAgree ==
    ASSUME NEW n \in Nat, NEW c \in [1..n -> Nat], NEW m \in Nat, NEW d \in [1..m -> Nat],
           m <= n, \A i \in 1..m : d[i] = c[i]
    PROVE  \A i \in 0..m : Sums(d)[i] = Sums(c)[i]
<1> DEFINE T == {i \in 0..m : Sums(d)[i] = Sums(c)[i]}
<1>1. 0 \in T
  <2>1. Sums(d)[0] = 0 /\ Sums(c)[0] = 0
    BY SumsFacts
  <2> QED BY <2>1
<1>2. ASSUME NEW i \in 1..m, i - 1 \in T PROVE i \in T
  <2>1. i \in 1..n
    OBVIOUS
  <2>2. Sums(d)[i] = Sums(d)[i - 1] + d[i]
    BY SumsFacts
  <2>3. Sums(c)[i] = Sums(c)[i - 1] + c[i]
    BY <2>1, SumsFacts
  <2> QED BY <1>2, <2>2, <2>3
<1> HIDE DEF T
<1>3. \A i \in 0..m : i \in T
  BY <1>1, <1>2, UpTo
<1> QED BY <1>3 DEF T

\* What comes first and what comes then make up the whole.
LEMMA SumsFrom ==
    ASSUME NEW n \in Nat, NEW c \in [1..n -> Nat], NEW k \in 0..n,
           NEW d \in [1..(n - k) -> Nat], \A i \in 1..(n - k) : d[i] = c[k + i]
    PROVE  \A i \in 0..(n - k) : Sums(c)[k + i] = Sums(c)[k] + Sums(d)[i]
<1> DEFINE m == n - k
           T == {i \in 0..m : Sums(c)[k + i] = Sums(c)[k] + Sums(d)[i]}
<1>0. m \in Nat /\ k \in Nat
  OBVIOUS
<1>1. /\ Sums(c) \in [0..n -> Nat] /\ \A i \in 1..n : Sums(c)[i] = Sums(c)[i - 1] + c[i]
      /\ Sums(d) \in [0..m -> Nat] /\ \A i \in 1..m : Sums(d)[i] = Sums(d)[i - 1] + d[i]
      /\ Sums(d)[0] = 0
  BY <1>0, SumsFacts
<1>2. 0 \in T
  BY <1>0, <1>1
<1>3. ASSUME NEW i \in 1..m, i - 1 \in T PROVE i \in T
  <2>1. k + i \in 1..n /\ k + i - 1 = k + (i - 1) /\ i - 1 \in 0..m
    BY <1>0
  <2>2. Sums(c)[k + i] = Sums(c)[k + (i - 1)] + c[k + i]
    BY <1>1, <2>1
  <2>3. Sums(d)[i] = Sums(d)[i - 1] + d[i] /\ Sums(d)[i - 1] \in Nat /\ Sums(c)[k] \in Nat
    BY <1>1, <2>1
  <2>4. Sums(c)[k + (i - 1)] = Sums(c)[k] + Sums(d)[i - 1] /\ d[i] = c[k + i] /\ c[k + i] \in Nat
    BY <1>3, <2>1
  <2>5. Sums(c)[k + i] = Sums(c)[k] + Sums(d)[i]
    BY ONLY <2>2, <2>3, <2>4, Sums(d)[i - 1] \in Nat, SMTT(30)
  <2> QED BY <2>5
<1> HIDE DEF T
<1>4. \A i \in 0..m : i \in T
  BY <1>0, <1>2, <1>3, UpTo
<1> QED BY <1>4 DEF T

\* What is counted from the end is what is left of the whole.
LEMMA SumsReversed ==
    ASSUME NEW n \in Nat, NEW c \in [1..n -> Nat], NEW d \in [1..n -> Nat],
           \A i \in 1..n : d[i] = c[n - i + 1]
    PROVE  \A i \in 0..n : Sums(c)[n] = Sums(c)[n - i] + Sums(d)[i]
<1> DEFINE T == {i \in 0..n : Sums(c)[n] = Sums(c)[n - i] + Sums(d)[i]}
<1>1. /\ Sums(c) \in [0..n -> Nat] /\ \A i \in 1..n : Sums(c)[i] = Sums(c)[i - 1] + c[i]
      /\ Sums(d) \in [0..n -> Nat] /\ \A i \in 1..n : Sums(d)[i] = Sums(d)[i - 1] + d[i]
      /\ Sums(d)[0] = 0
  BY SumsFacts
<1>2. 0 \in T
  BY <1>1
<1>3. ASSUME NEW i \in 1..n, i - 1 \in T PROVE i \in T
  <2>1. n - i + 1 \in 1..n /\ n - (i - 1) = n - i + 1 /\ n - i + 1 - 1 = n - i /\ i - 1 \in 0..n
        /\ n - i \in 0..n
    OBVIOUS
  <2>2. Sums(c)[n - i + 1] = Sums(c)[n - i] + c[n - i + 1]
    BY <1>1, <2>1
  <2>3. Sums(d)[i] = Sums(d)[i - 1] + c[n - i + 1] /\ Sums(d)[i - 1] \in Nat
        /\ Sums(c)[n - i] \in Nat /\ c[n - i + 1] \in Nat
    BY <1>1, <2>1
  <2>4. Sums(c)[n] = Sums(c)[n - i + 1] + Sums(d)[i - 1]
    BY <1>3, <2>1
  <2>5. Sums(c)[n] = Sums(c)[n - i] + Sums(d)[i]
    BY ONLY <2>2, <2>3, <2>4, SMTT(30)
  <2> QED BY <2>5
<1> HIDE DEF T
<1>4. \A i \in 0..n : i \in T
  BY <1>2, <1>3, UpTo
<1> QED BY <1>4 DEF T

\* What is counted of a transcript is numbers.
LEMMA CostsFacts ==
    ASSUME NEW t \in Seq(Messages)
    PROVE  /\ Len(t) \in Nat /\ DOMAIN t = 1..Len(t)
           /\ Costs(t) \in [1..Len(t) -> Nat] /\ \A i \in 1..Len(t) : Costs(t)[i] = Cost(t[i])
           /\ EstimateTokens(t) \in Nat
<1>1. Len(t) \in Nat /\ DOMAIN t = 1..Len(t)
  OBVIOUS
<1>2. \A i \in 1..Len(t) : t[i].size \in Nat
  <2>1. \A i \in 1..Len(t) : t[i] \in Messages
    OBVIOUS
  <2>2. \A m \in Messages : m.size \in Nat
    BY DEF Messages
  <2> QED BY <2>1, <2>2
<1>3. \A i \in 1..Len(t) : Cost(t[i]) \in Nat
  BY <1>2 DEF Cost
<1>4. Costs(t) \in [1..Len(t) -> Nat] /\ \A i \in 1..Len(t) : Costs(t)[i] = Cost(t[i])
  BY <1>1, <1>3 DEF Costs
<1>5. Sizes(t) \in [1..Len(t) -> Nat]
  BY <1>1, <1>2 DEF Sizes
<1>6. Sums(Sizes(t))[Len(t)] \in Nat
  <2>1. Sums(Sizes(t)) \in [0..Len(t) -> Nat]
    BY <1>1, <1>5, SumsFacts
  <2> QED BY <1>1, <2>1
<1>7. EstimateTokens(t) \in Nat
  BY <1>6 DEF EstimateTokens
<1> QED BY <1>1, <1>4, <1>7

\* Where a walk ends.
LEMMA WalkFacts ==
    ASSUME NEW t \in Seq(Messages), NEW budget \in Nat
    PROVE  /\ Walk(t, budget).at \in 0..Len(t)
           /\ Walk(t, budget).stopped =>
                 /\ Walk(t, budget).at \in 1..Len(t)
                 /\ Sums(Costs(t))[Walk(t, budget).at] >= budget
           /\ ~Walk(t, budget).stopped => Walk(t, budget).at = Len(t)
           /\ \A i \in 1..(Walk(t, budget).at - 1) : Sums(Costs(t))[i] < budget
<1> DEFINE S == Sums(Costs(t))
           reached == {i \in DOMAIN t : S[i] >= budget}
           w == Walk(t, budget)
<1>1. Len(t) \in Nat /\ DOMAIN t = 1..Len(t) /\ S \in [0..Len(t) -> Nat]
  BY CostsFacts, SumsFacts
<1>2. w.stopped = (reached # {}) /\ w.at = IF reached = {} THEN Len(t) ELSE Min(reached)
  BY DEF Walk
<1> HIDE DEF w, S
<1>3. reached \subseteq 1..Len(t)
  BY <1>1
<1>4. ASSUME reached # {} PROVE Min(reached) \in reached /\ \A j \in reached : Min(reached) <= j
  <2>1. PICK i \in reached : \A j \in reached : i <= j
    <3>1. reached \subseteq Nat
      BY <1>1
    <3> HIDE DEF reached
    <3> QED BY <1>4, <3>1, LeastExists
  <2> HIDE DEF reached
  <2> QED BY <2>1 DEF Min
<1>5. CASE reached = {}
  <2>1. \A i \in 1..Len(t) : S[i] < budget
    BY <1>1, <1>5
  <2>2. w.at = Len(t) /\ ~w.stopped
    BY <1>2, <1>5
  <2>3. \A i \in 1..(w.at - 1) : S[i] < budget
    BY <1>1, <2>1, <2>2
  <2> QED BY <1>1, <2>2, <2>3 DEF w, S
<1>6. CASE reached # {}
  <2>1. w.at \in reached /\ (\A j \in reached : w.at <= j) /\ w.stopped
    <3> HIDE DEF reached
    <3> QED BY <1>2, <1>4, <1>6
  <2>2. w.at \in 1..Len(t) /\ S[w.at] >= budget
    BY <1>1, <2>1
  <2>3. \A i \in 1..(w.at - 1) : S[i] < budget
    <3> TAKE i \in 1..(w.at - 1)
    <3>1. i \in 1..Len(t) /\ ~(w.at <= i)
      BY <1>1, <2>2
    <3>2. i \notin reached
      <4> HIDE DEF reached
      <4> QED BY <2>1, <3>1
    <3> QED BY <1>1, <3>1, <3>2
  <2> QED BY <1>1, <2>1, <2>2, <2>3 DEF w, S
<1> QED BY <1>5, <1>6

\* The tokens of the beginning and of the rest of a transcript.
LEMMA TokensFacts ==
    ASSUME NEW t \in Seq(Messages), NEW k \in 0..Len(t)
    PROVE  /\ TokensOf(SubSeq(t, 1, k)) = Sums(Costs(t))[k]
           /\ Sums(Costs(t))[Len(t)] = Sums(Costs(t))[k] + TokensOf(SubSeq(t, k + 1, Len(t)))
           /\ TokensOf(SubSeq(t, k + 1, Len(t))) \in Nat /\ Sums(Costs(t))[k] \in Nat
<1> DEFINE n == Len(t)
           p == SubSeq(t, 1, k)
           s == SubSeq(t, k + 1, n)
<1>1. n \in Nat /\ DOMAIN t = 1..n /\ k \in Nat /\ k <= n
  OBVIOUS
<1>2. p \in Seq(Messages) /\ Len(p) = k /\ \A i \in 1..k : p[i] = t[i]
  BY <1>1
<1>3. s \in Seq(Messages) /\ Len(s) = n - k /\ \A i \in 1..(n - k) : s[i] = t[k + i]
  <2>1. k + 1 \in Int /\ n \in Int /\ \A i \in (k + 1)..n : t[i] \in Messages
    BY <1>1
  <2>2. /\ s \in Seq(Messages)
        /\ Len(s) = IF k + 1 <= n THEN n - (k + 1) + 1 ELSE 0
        /\ \A i \in 1..(n - (k + 1) + 1) : s[i] = t[(k + 1) + i - 1]
    BY ONLY <2>1, SubSeqProperties
  <2> HIDE DEF s, n
  <2>3. n \in Nat /\ k \in Nat /\ k <= n
    BY ONLY <1>1
  <2>4. n - (k + 1) + 1 = n - k /\ \A i \in 1..(n - k) : (k + 1) + i - 1 = k + i
    BY ONLY <2>3
  <2>5. Len(s) = n - k
    BY ONLY <2>2, <2>3
  <2>6. \A i \in 1..(n - k) : s[i] = t[k + i]
    BY ONLY <2>2, <2>3, <2>4
  <2> QED BY <2>2, <2>5, <2>6
<1> HIDE DEF p, s
<1>4. /\ Costs(t) \in [1..n -> Nat] /\ \A i \in 1..n : Costs(t)[i] = Cost(t[i])
  BY CostsFacts
<1>5. /\ Costs(p) \in [1..k -> Nat] /\ \A i \in 1..k : Costs(p)[i] = Cost(p[i])
  BY <1>2, CostsFacts
<1>6. /\ Costs(s) \in [1..(n - k) -> Nat] /\ \A i \in 1..(n - k) : Costs(s)[i] = Cost(s[i])
  BY <1>3, CostsFacts
<1>7. Sums(Costs(p))[k] = Sums(Costs(t))[k]
  <2>1. \A i \in 1..k : Costs(p)[i] = Costs(t)[i]
    BY <1>1, <1>2, <1>4, <1>5
  <2>2. \A i \in 0..k : Sums(Costs(p))[i] = Sums(Costs(t))[i]
    BY <1>1, <1>4, <1>5, <2>1, SumsAgree
  <2> QED BY <1>1, <2>2
<1>8. Sums(Costs(t))[k + (n - k)] = Sums(Costs(t))[k] + Sums(Costs(s))[n - k]
  <2>1. \A i \in 1..(n - k) : Costs(s)[i] = Costs(t)[k + i]
    BY <1>1, <1>3, <1>4, <1>6
  <2>2. \A i \in 0..(n - k) : Sums(Costs(t))[k + i] = Sums(Costs(t))[k] + Sums(Costs(s))[i]
    BY <1>1, <1>4, <1>6, <2>1, SumsFrom
  <2>3. n - k \in 0..(n - k)
    BY <1>1
  <2> QED BY <2>2, <2>3
<1>9. k + (n - k) = n
  BY <1>1
<1>10. Sums(Costs(t))[k] \in Nat /\ Sums(Costs(s))[n - k] \in Nat
  <2>1. Sums(Costs(t)) \in [0..n -> Nat]
    BY <1>1, <1>4, SumsFacts
  <2>2. Sums(Costs(s)) \in [0..(n - k) -> Nat]
    <3>1. n - k \in Nat
      BY <1>1
    <3> QED BY <1>6, <3>1, SumsFacts
  <2> QED BY <1>1, <2>1, <2>2
<1>11. TokensOf(p) = Sums(Costs(p))[k] /\ TokensOf(s) = Sums(Costs(s))[n - k]
  BY <1>2, <1>3 DEF TokensOf
<1> QED BY <1>7, <1>8, <1>9, <1>10, <1>11 DEF p, s

\* A walk from the newest message counts what comes last.
LEMMA FromNewest ==
    ASSUME NEW t \in Seq(Messages)
    PROVE  /\ Reverse(t) \in Seq(Messages) /\ Len(Reverse(t)) = Len(t)
           /\ \A i \in 1..Len(t) : Sums(Costs(Reverse(t)))[i]
                                      = TokensOf(SubSeq(t, Len(t) - i + 1, Len(t)))
<1> DEFINE n == Len(t)
           r == Reverse(t)
<1>1. n \in Nat /\ DOMAIN t = 1..n /\ \A i \in 1..n : t[i] \in Messages
  OBVIOUS
<1>2. r = [i \in 1..n |-> t[n - i + 1]]
  BY DEF Reverse
<1>3. \A i \in 1..n : n - i + 1 \in 1..n
  BY <1>1
<1>4. r \in [1..n -> Messages] /\ \A i \in 1..n : r[i] = t[n - i + 1]
  BY <1>1, <1>2, <1>3
<1> HIDE DEF r
<1>5. r \in Seq(Messages) /\ Len(r) = n
  BY <1>1, <1>4
<1>6. /\ Costs(t) \in [1..n -> Nat] /\ \A i \in 1..n : Costs(t)[i] = Cost(t[i])
      /\ Costs(r) \in [1..n -> Nat] /\ \A i \in 1..n : Costs(r)[i] = Cost(r[i])
  BY <1>5, CostsFacts
<1>7. \A i \in 1..n : Costs(r)[i] = Costs(t)[n - i + 1]
  BY <1>3, <1>4, <1>6
<1>8. \A i \in 0..n : Sums(Costs(t))[n] = Sums(Costs(t))[n - i] + Sums(Costs(r))[i]
  BY <1>1, <1>6, <1>7, SumsReversed
<1>9. Sums(Costs(r)) \in [0..n -> Nat]
  BY <1>1, <1>6, SumsFacts
<1>10. ASSUME NEW i \in 1..n PROVE Sums(Costs(r))[i] = TokensOf(SubSeq(t, n - i + 1, n))
  <2>1. n - i \in 0..n /\ i \in 0..n
    BY <1>1
  <2>2. /\ Sums(Costs(t))[n] = Sums(Costs(t))[n - i] + TokensOf(SubSeq(t, n - i + 1, n))
        /\ TokensOf(SubSeq(t, n - i + 1, n)) \in Nat /\ Sums(Costs(t))[n - i] \in Nat
    BY <2>1, TokensFacts
  <2>3. Sums(Costs(t))[n] = Sums(Costs(t))[n - i] + Sums(Costs(r))[i] /\ Sums(Costs(r))[i] \in Nat
    BY <1>8, <1>9, <2>1
  <2> QED BY ONLY <2>2, <2>3
<1> QED BY <1>5, <1>10 DEF r

\* What is left of a transcript.
LEMMA NewestKept ==
    ASSUME NEW t \in Seq(Messages) \ {<<>>}, NEW keep \in Nat, NEW summarised \in BOOLEAN
    PROVE  \E k \in DOMAIN t :
             /\ CompactMessages(t, keep, summarised)
                   = (IF k = 1 THEN <<>> ELSE <<Summary>>) \o SubSeq(t, k, Len(t))
             /\ k > 1 => /\ k > 2
                         /\ \/ /\ TokensOf(SubSeq(t, k, Len(t))) >= keep
                               /\ k < Len(t) => TokensOf(SubSeq(t, k + 1, Len(t))) < keep
                            \/ /\ TokensOf(SubSeq(t, 2, Len(t))) < keep
                               /\ TokensOf(SubSeq(t, 1, k - 2)) * 10 < EstimateTokens(t) * 6
<1> DEFINE n == Len(t)
           r == Reverse(t)
           split == Split(t, keep)
           list == <<Summary>> \o SubSeq(t, split + 1, n)
           shorter == n > 2 /\ split # 0 /\ summarised /\ Len(list) < n
<1>1. n \in Nat /\ n > 0 /\ DOMAIN t = 1..n /\ t \in Seq(Messages)
  <2>1. t \in Seq(Messages) /\ t # <<>>
    OBVIOUS
  <2> QED BY <2>1
<1>2. CompactMessages(t, keep, summarised) = IF shorter THEN list ELSE t
  BY DEF CompactMessages
<1> HIDE DEF shorter, split
<1>3. CASE ~shorter
  <2>1. 1 \in DOMAIN t
    BY <1>1
  <2>2. <<>> \o SubSeq(t, 1, n) = t
    <3>1. SubSeq(t, 1, n) = t
      BY <1>1
    <3>2. <<>> \o t = t
      BY <1>1
    <3> QED BY <3>1, <3>2
  <2>3. CompactMessages(t, keep, summarised) = <<>> \o SubSeq(t, 1, n)
    BY <1>2, <1>3, <2>2
  <2> QED BY <2>1, <2>3
<1>4. CASE shorter
  <2> DEFINE kept == Walk(r, keep)
             budget == (EstimateTokens(t) * 6) \div 10
             old == Walk(t, budget)
  <2>1. split = IF kept.at < n THEN n - kept.at
                ELSE IF old.stopped /\ old.at < n THEN old.at ELSE 0
    BY DEF split, Split
  <2>2. n > 2 /\ split # 0 /\ Len(list) < n
    BY <1>4 DEF shorter
  <2>3. EstimateTokens(t) \in Nat /\ budget \in Nat /\ budget * 10 <= EstimateTokens(t) * 6
    <3>1. EstimateTokens(t) \in Nat
      BY <1>1, CostsFacts
    <3>2. \A e \in Nat : (e * 6) \div 10 \in Nat /\ ((e * 6) \div 10) * 10 <= e * 6
      OBVIOUS
    <3> QED BY <3>1, <3>2
  <2>4. r \in Seq(Messages) /\ Len(r) = n
    BY <1>1, FromNewest
  <2>5. /\ kept.at \in 0..n
        /\ kept.stopped => kept.at \in 1..n /\ Sums(Costs(r))[kept.at] >= keep
        /\ ~kept.stopped => kept.at = n
        /\ \A i \in 1..(kept.at - 1) : Sums(Costs(r))[i] < keep
    BY <2>4, WalkFacts
  <2>6. /\ old.at \in 0..n
        /\ old.stopped => old.at \in 1..n /\ Sums(Costs(t))[old.at] >= budget
        /\ \A i \in 1..(old.at - 1) : Sums(Costs(t))[i] < budget
    BY <1>1, <2>3, WalkFacts
  <2>7. \A i \in 1..n : Sums(Costs(r))[i] = TokensOf(SubSeq(t, n - i + 1, n))
    BY <1>1, FromNewest
  <2> HIDE DEF kept, old, budget, r
  <2>8. split \in 1..(n - 1)
    BY <1>1, <2>1, <2>2, <2>5, <2>6, SMTT(20)
  <2> DEFINE k == split + 1
  <2>9. k \in 2..n /\ k \in DOMAIN t /\ split \in Nat
    BY <1>1, <2>8
  <2>10. k > 2
    <3>1. Len(SubSeq(t, k, n)) = n - split
      BY <1>1, <2>9
    <3>2. SubSeq(t, k, n) \in Seq(Messages)
      BY <1>1, <2>9
    <3>3. Len(<<Summary>> \o SubSeq(t, k, n)) = 1 + (n - split)
      <4> DEFINE rest == SubSeq(t, k, n)
      <4>1. rest \in Seq(Messages) /\ Len(rest) = n - split
        BY <3>1, <3>2
      <4>2. Summary \in Messages
        BY DEF Summary, Messages
      <4> HIDE DEF rest, k
      <4>3. <<Summary>> \in Seq(Messages) /\ Len(<<Summary>>) = 1
        BY <4>2
      <4>4. Len(<<Summary>> \o rest) = Len(<<Summary>>) + Len(rest)
        BY <4>1, <4>3
      <4> QED BY <4>1, <4>3, <4>4 DEF rest
    <3> QED BY <1>1, <2>2, <2>8, <3>3
  <2>11. CompactMessages(t, keep, summarised)
            = (IF k = 1 THEN <<>> ELSE <<Summary>>) \o SubSeq(t, k, n)
    <3>1. CompactMessages(t, keep, summarised) = list
      <4> HIDE DEF list
      <4> QED BY <1>2, <1>4
    <3>2. list = <<Summary>> \o SubSeq(t, k, n)
      OBVIOUS
    <3> HIDE DEF list, k
    <3>3. k # 1
      BY <2>10
    <3>4. (IF k = 1 THEN <<>> ELSE <<Summary>>) = <<Summary>>
      BY <3>3
    <3> QED BY <3>1, <3>2, <3>4, Zenon
  <2> HIDE DEF k, list
  <2>12. CASE kept.at < n
    <3>1. split = n - kept.at /\ kept.at \in 1..n /\ Sums(Costs(r))[kept.at] >= keep
      BY <2>1, <2>5, <2>12
    <3>2. n - kept.at + 1 = k /\ kept.at \in Nat
      BY <1>1, <3>1 DEF k
    <3>3. TokensOf(SubSeq(t, k, n)) >= keep
      BY <2>7, <3>1, <3>2
    <3>4. ASSUME k < n PROVE TokensOf(SubSeq(t, k + 1, n)) < keep
      <4> DEFINE i == kept.at - 1
      <4>1. i \in 1..(kept.at - 1) /\ i \in 1..n /\ n - i + 1 = k + 1
        BY <1>1, <3>1, <3>2, <3>4
      <4>2. Sums(Costs(r))[i] < keep
        BY <2>5, <4>1
      <4> HIDE DEF i
      <4>3. Sums(Costs(r))[i] = TokensOf(SubSeq(t, n - i + 1, n))
        BY <2>7, <4>1
      <4> QED BY <4>1, <4>2, <4>3
    <3> QED BY <2>9, <2>10, <2>11, <3>3, <3>4
  <2>13. CASE ~(kept.at < n)
    <3>1. split = old.at /\ old.stopped /\ kept.at = n
      BY <1>1, <2>1, <2>2, <2>5, <2>13
    <3>2. TokensOf(SubSeq(t, 2, n)) < keep
      <4> DEFINE i == n - 1
      <4>1. i \in 1..(kept.at - 1) /\ i \in 1..n /\ n - i + 1 = 2
        BY <1>1, <2>2, <3>1
      <4>2. Sums(Costs(r))[i] < keep
        BY <2>5, <4>1
      <4> HIDE DEF i
      <4>3. Sums(Costs(r))[i] = TokensOf(SubSeq(t, n - i + 1, n))
        BY <2>7, <4>1
      <4> QED BY <4>1, <4>2, <4>3
    <3>3. TokensOf(SubSeq(t, 1, k - 2)) * 10 < EstimateTokens(t) * 6
      <4> DEFINE i == k - 2
      <4>1. i \in 1..(old.at - 1) /\ i \in 0..n
        BY <1>1, <2>8, <2>10, <3>1 DEF k
      <4>2. Sums(Costs(t))[i] < budget
        BY <2>6, <4>1
      <4> HIDE DEF i
      <4>3. TokensOf(SubSeq(t, 1, i)) = Sums(Costs(t))[i] /\ Sums(Costs(t))[i] \in Nat
        BY <1>1, <4>1, TokensFacts
      <4>4. \A a, b, e \in Nat : a < b /\ b * 10 <= e * 6 => a * 10 < e * 6
        OBVIOUS
      <4>5. Sums(Costs(t))[i] * 10 < EstimateTokens(t) * 6
        BY <2>3, <4>2, <4>3, <4>4
      <4> QED BY <4>3, <4>5 DEF i
    <3> QED BY <2>9, <2>10, <2>11, <3>2, <3>3
  <2> QED BY <2>12, <2>13
<1> QED BY <1>3, <1>4

\* The request on its way is one of the turn's.
Asked ==
    pc \in {"preparing", "sending"} =>
        /\ request.transcript \in Transcripts
        /\ request.keep \in Keeps
        /\ request = [kind |-> "request", transcript |-> request.transcript,
                      messages |-> request.messages, keep |-> request.keep]

NewestInv == Asked /\ NewestAreSent

\* What is prepared is the newest of what is asked about.
LEMMA PreparedAreNewest ==
    ASSUME StreamAssumption, Asked, Prepare
    PROVE  NewestInv'
<1> DEFINE t == request.transcript
           keep == request.keep
<1>1. /\ t \in Transcripts /\ keep \in Keeps
      /\ request = [kind |-> "request", transcript |-> t,
                    messages |-> request.messages, keep |-> keep]
  BY DEF Asked, Prepare
<1>2. t \in Seq(Messages) \ {<<>>} /\ keep \in Nat
  BY <1>1 DEF StreamAssumption
<1>3. PICK summarised \in BOOLEAN :
        request' = [request EXCEPT !.messages = Conversation(provider,
                      IF NeedsCompaction(t, Window, Reserve)
                      THEN CompactMessages(t, keep, summarised) ELSE t)]
  BY DEF Prepare
<1> DEFINE all == IF NeedsCompaction(t, Window, Reserve)
                  THEN CompactMessages(t, keep, summarised) ELSE t
           new == Conversation(provider, all)
<1>4. /\ request'.transcript = t /\ request'.keep = keep /\ request'.messages = new
      /\ request' = [kind |-> "request", transcript |-> t, messages |-> new, keep |-> keep]
  <2>1. request' = [request EXCEPT !.messages = new]
    BY <1>3, Zenon
  <2> HIDE DEF new, t, keep
  <2> QED BY <1>1, <2>1
<1>5. Asked'
  <2> HIDE DEF new, t, keep
  <2> QED BY <1>1, <1>4 DEF Asked
<1>6. provider' = provider /\ pc' = "sending"
  BY DEF Prepare
<1> HIDE DEF t, keep
<1>7. \E k \in DOMAIN t :
        /\ all = (IF k = 1 THEN <<>> ELSE <<Summary>>) \o SubSeq(t, k, Len(t))
        /\ k > 1 => /\ k > 2
                    /\ EstimateTokens(t) >= UsableTokens(Window, Reserve)
                    /\ \/ /\ TokensOf(SubSeq(t, k, Len(t))) >= keep
                          /\ k < Len(t) => TokensOf(SubSeq(t, k + 1, Len(t))) < keep
                       \/ /\ TokensOf(SubSeq(t, 2, Len(t))) < keep
                          /\ TokensOf(SubSeq(t, 1, k - 2)) * 10 < EstimateTokens(t) * 6
  <2>1. CASE NeedsCompaction(t, Window, Reserve)
    <3>1. EstimateTokens(t) >= UsableTokens(Window, Reserve)
      BY <2>1 DEF NeedsCompaction
    <3>2. all = CompactMessages(t, keep, summarised)
      BY <2>1
    <3> HIDE DEF all
    <3> QED BY <1>2, <3>1, <3>2, NewestKept
  <2>2. CASE ~NeedsCompaction(t, Window, Reserve)
    <3>1. t \in Seq(Messages) /\ t # <<>>
      BY <1>2
    <3>2. 1 \in DOMAIN t
      BY <3>1
    <3>3. <<>> \o SubSeq(t, 1, Len(t)) = t
      <4>1. SubSeq(t, 1, Len(t)) = t
        BY <3>1
      <4>2. <<>> \o t = t
        BY <3>1
      <4> QED BY <4>1, <4>2
    <3>4. all = <<>> \o SubSeq(t, 1, Len(t))
      BY <2>2, <3>3
    <3> HIDE DEF all
    <3> QED BY <3>2, <3>4, SMTT(30)
  <2> QED BY <2>1, <2>2
<1>8. \E k \in DOMAIN t :
        /\ new = Conversation(provider, (IF k = 1 THEN <<>> ELSE <<Summary>>)
                                            \o SubSeq(t, k, Len(t)))
        /\ k > 1 => /\ k > 2
                    /\ EstimateTokens(t) >= UsableTokens(Window, Reserve)
                    /\ \/ /\ TokensOf(SubSeq(t, k, Len(t))) >= keep
                          /\ k < Len(t) => TokensOf(SubSeq(t, k + 1, Len(t))) < keep
                       \/ /\ TokensOf(SubSeq(t, 2, Len(t))) < keep
                          /\ TokensOf(SubSeq(t, 1, k - 2)) * 10 < EstimateTokens(t) * 6
  <2> HIDE DEF all
  <2> QED BY <1>7, Zenon
<1>9. NewestAreSent'
  <2> HIDE DEF new
  <2> QED BY <1>4, <1>6, <1>8 DEF NewestAreSent
<1> QED BY <1>5, <1>9 DEF NewestInv

\* Nothing else changes a request that is not answered.
LEMMA NewestStep ==
    ASSUME StreamAssumption, NewestInv, [Next]_streamVars
    PROVE  NewestInv'
<1>1. CASE Prepare
  BY <1>1, PreparedAreNewest DEF NewestInv
<1>2. ASSUME UNCHANGED <<pc, request, provider>> PROVE NewestInv'
  BY <1>2 DEF NewestInv, Asked, NewestAreSent
<1>3. ASSUME pc' \notin {"preparing", "sending"} PROVE NewestInv'
  BY <1>3 DEF NewestInv, Asked, NewestAreSent
<1>4. ASSUME Fail \/ Open PROVE NewestInv'
  BY <1>3, <1>4 DEF Fail, Open
<1>5. ASSUME NEW a, NEW b, NEW c, Attempt(a, b, c) PROVE NewestInv'
  BY <1>2, <1>5 DEF Attempt
<1>6. CASE SendOnce
  BY <1>4, <1>6 DEF SendOnce
<1>7. CASE SendFirst
  BY <1>4, <1>5, <1>7 DEF SendFirst
<1>8. CASE FallBack
  BY <1>5, <1>8 DEF FallBack
<1>9. CASE Refresh
  BY <1>4, <1>5, <1>9 DEF Refresh
<1>10. CASE SendListed
  BY <1>4, <1>5, <1>10 DEF SendListed
<1>11. CASE Conclude
  BY <1>4, <1>11 DEF Conclude
<1>12. CASE Say \/ Close \/ Receive
  BY <1>2, <1>12 DEF Say, Close, Receive
<1>13. CASE ReadLine
  BY <1>3, <1>13 DEF ReadLine
<1>14. CASE ReadRest
  BY <1>3, <1>14 DEF ReadRest
<1>15. CASE Finish
  BY <1>3, <1>15 DEF Finish
<1>16. CASE ReadFails
  BY <1>4, <1>16 DEF ReadFails
<1>17. CASE UNCHANGED streamVars
  BY <1>2, <1>17 DEF streamVars
<1> QED BY <1>1, <1>6, <1>7, <1>8, <1>9, <1>10, <1>11, <1>12, <1>13, <1>14, <1>15, <1>16, <1>17
        DEF Next

\* Of any transcript, what is sent is the end of it, with the newest message, and
\* before it the summary of what is missing; something is missing only if the
\* transcript has outgrown the window, and no more than the budget for recent
\* messages asks for: `compact_messages` and the builders of the providers'
\* messages.
THEOREM NewestAreSentHolds == Spec => []NewestAreSent
<1>1. Init => NewestInv
  BY DEF Init, NewestInv, Asked, NewestAreSent
<1>2. NewestInv /\ [Next]_streamVars => NewestInv'
  BY StreamAssumption, NewestStep
<1>3. NewestInv => NewestAreSent
  BY DEF NewestInv
<1> QED BY <1>1, <1>2, <1>3, PTL DEF Spec

-----------------------------------------------------------------------------
(* Lists of models and of rows, and what is found in them.                 *)

\* The recursion of Unique defines a function.
LEMMA UniqueExists ==
    ASSUME NEW models, IsSeq(models), NEW n \in 0..Len(models)
    PROVE  \E g : g = [i \in 0..n |->
                IF i = 0 THEN <<>>
                ELSE IF models[i] \in ToSet(g[i - 1]) THEN g[i - 1]
                ELSE Append(g[i - 1], models[i])]
<1> DEFINE Step1(g, i) == IF i = 0 THEN <<>>
                        ELSE IF models[i] \in ToSet(g[i - 1]) THEN g[i - 1]
                        ELSE Append(g[i - 1], models[i])
           Rec(g, m) == g = [i \in 0..m |-> Step1(g, i)]
           Bad == {m \in 0..Len(models) : ~(\E g : Rec(g, m))}
<1>1. Len(models) \in Nat
  BY AppendFacts
<1>2. SUFFICES ASSUME Bad # {} PROVE FALSE
  BY <1>1
<1>3. PICK m \in Bad : \A j \in Bad : m <= j
  <2>1. Bad \subseteq Nat
    BY <1>1
  <2> HIDE DEF Bad
  <2> QED BY <2>1, <1>2, LeastExists
<1>4. m \in Nat
  BY <1>1
<1>5. CASE m = 0
  <2>1. Rec([i \in 0..0 |-> <<>>], 0)
    OBVIOUS
  <2> QED BY <2>1, <1>5
<1>6. CASE m # 0
  <2>1. m - 1 \in 0..Len(models) /\ m - 1 \notin Bad
    <3>1. m \in 0..Len(models) /\ ~(m <= m - 1)
      BY <1>1, <1>3, <1>4
    <3> HIDE DEF Bad
    <3> QED BY <1>1, <1>3, <1>4, <1>6, <3>1
  <2>2. PICK g : Rec(g, m - 1)
    BY <2>1
  <2> DEFINE h == [i \in 0..m |-> IF i < m THEN g[i] ELSE Step1(g, m)]
  <2>3. \A i \in 0..m : h[i] = Step1(h, i)
    <3> TAKE i \in 0..m
    <3>0. i \in Nat /\ m \in Nat /\ i <= m
      BY <1>4
    <3>1. CASE i = m
      <4>1. h[i - 1] = g[i - 1]
        BY <3>0, <3>1, <1>6
      <4>2. h[i] = Step1(g, i)
        BY <3>0, <3>1
      <4> HIDE DEF h
      <4> QED BY <4>1, <4>2
    <3>2. CASE i < m
      <4>1. i \in 0..(m - 1)
        BY <3>0, <3>2
      <4>2. g[i] = Step1(g, i)
        <5> HIDE DEF Step1
        <5> QED BY <4>1, <2>2
      <4>3. i # 0 => h[i - 1] = g[i - 1]
        BY <3>0, <3>2
      <4>4. h[i] = g[i]
        BY <3>2
      <4> HIDE DEF h
      <4> QED BY <4>2, <4>3, <4>4
    <3> QED BY <3>0, <3>1, <3>2
  <2>4. Rec(h, m)
    <3>1. h = [i \in 0..m |-> h[i]]
      OBVIOUS
    <3> HIDE DEF h, Step1
    <3> QED BY <3>1, <2>3
  <2> HIDE DEF h, Rec
  <2> QED BY <2>4, <1>3
<1> QED BY <1>5, <1>6

\* Unique keeps every name, and nothing else.
LEMMA UniqueFacts ==
    ASSUME NEW models, IsSeq(models)
    PROVE  IsSeq(Unique(models)) /\ ToSet(Unique(models)) = ToSet(models)
<1> DEFINE Step1(g, i) == IF i = 0 THEN <<>>
                        ELSE IF models[i] \in ToSet(g[i - 1]) THEN g[i - 1]
                        ELSE Append(g[i - 1], models[i])
           Rec(g) == g = [i \in 0..Len(models) |-> Step1(g, i)]
           known == CHOOSE g : Rec(g)
           Good(i) == IsSeq(known[i]) /\ ToSet(known[i]) = {models[j] : j \in 1..i}
           Bad == {i \in 0..Len(models) : ~Good(i)}
<1>1. Len(models) \in Nat /\ DOMAIN models = 1..Len(models)
  BY AppendFacts
<1>2. Unique(models) = known[Len(models)]
  BY DEF Unique
<1>3. Rec(known)
  <2>1. \E g : Rec(g)
    <3>1. Len(models) \in 0..Len(models)
      BY <1>1
    <3> QED BY <3>1, UniqueExists, Zenon
  <2> HIDE DEF Rec
  <2> QED BY <2>1
<1>4. \A i \in 0..Len(models) : known[i] = Step1(known, i)
  <2> HIDE DEF known, Step1
  <2> QED BY <1>3
<1> HIDE DEF known
<1>5. ASSUME Bad # {} PROVE FALSE
  <2>1. PICK m \in Bad : \A j \in Bad : m <= j
    <3>1. Bad \subseteq Nat
      BY <1>1
    <3> HIDE DEF Bad
    <3> QED BY <3>1, <1>5, LeastExists
  <2>2. m \in Nat /\ m <= Len(models)
    BY <1>1
  <2>3. CASE m = 0
    <3>1. known[0] = <<>>
      BY <1>1, <1>4
    <3> QED BY <3>1, <2>1, <2>3, EmptyIsSeq DEF ToSet
  <2>4. CASE m # 0
    <3>1. m - 1 \in 0..Len(models) /\ m - 1 \notin Bad
      <4>1. ~(m <= m - 1)
        BY <2>2
      <4> HIDE DEF Bad
      <4> QED BY <1>1, <2>1, <2>2, <2>4, <4>1
    <3>2. Good(m - 1)
      BY <3>1
    <3>3. known[m] = IF models[m] \in ToSet(known[m - 1]) THEN known[m - 1]
                     ELSE Append(known[m - 1], models[m])
      BY <2>1, <1>4, <2>4
    <3>4. {models[j] : j \in 1..m} = {models[j] : j \in 1..(m - 1)} \union {models[m]}
      BY <2>2, <2>4
    <3>5. CASE models[m] \in ToSet(known[m - 1])
      <4>1. known[m] = known[m - 1]
        BY <3>3, <3>5
      <4> HIDE DEF Bad
      <4>2. Good(m)
        BY <3>2, <3>4, <3>5, <4>1
      <4> QED BY <4>2, <2>1 DEF Bad
    <3>6. CASE models[m] \notin ToSet(known[m - 1])
      <4>1. known[m] = Append(known[m - 1], models[m])
        BY <3>3, <3>6
      <4>2. IsSeq(known[m])
        BY <3>2, <4>1, AppendFacts
      <4>3. ToSet(known[m]) = ToSet(known[m - 1]) \union {models[m]}
        BY <3>2, <4>1, AppendFacts DEF ToSet
      <4>4. Good(m)
        BY <3>2, <3>4, <4>2, <4>3
      <4> HIDE DEF Good
      <4> QED BY <4>4, <2>1
    <3> QED BY <3>5, <3>6
  <2> QED BY <2>3, <2>4
<1>6. Good(Len(models))
  <2>1. Len(models) \in 0..Len(models)
    BY <1>1
  <2> HIDE DEF Good
  <2> QED BY <2>1, <1>5
<1> QED BY <1>1, <1>2, <1>6 DEF ToSet

\* The elements of two sequences, one after the other.
LEMMA ConcatIn ==
    ASSUME NEW s, NEW t, IsSeq(s), IsSeq(t)
    PROVE  IsSeq(s \o t) /\ ToSet(s \o t) = ToSet(s) \union ToSet(t)
<1> DEFINE u == s \o t
<1>1. /\ IsSeq(u) /\ Len(s) \in Nat /\ Len(t) \in Nat
      /\ DOMAIN s = 1..Len(s) /\ DOMAIN t = 1..Len(t) /\ DOMAIN u = 1..Len(u)
      /\ Len(u) = Len(s) + Len(t)
      /\ \A i \in 1..Len(s) : u[i] = s[i]
      /\ \A i \in 1..Len(t) : u[Len(s) + i] = t[i]
      /\ \A i \in (Len(s) + 1)..(Len(s) + Len(t)) : u[i] = t[i - Len(s)]
  BY ConcatFacts
<1> HIDE DEF u
<1>2. \A i \in DOMAIN u : u[i] \in ToSet(s) \union ToSet(t)
  <2> SUFFICES ASSUME NEW i \in DOMAIN u PROVE u[i] \in ToSet(s) \union ToSet(t)
    OBVIOUS
  <2>1. CASE i <= Len(s)
    BY <1>1, <2>1 DEF ToSet
  <2>2. CASE i > Len(s)
    <3>1. i - Len(s) \in DOMAIN t /\ u[i] = t[i - Len(s)]
      BY <1>1, <2>2
    <3> QED BY <3>1 DEF ToSet
  <2> QED BY <1>1, <2>1, <2>2
<1>3. \A i \in DOMAIN s : s[i] \in ToSet(u)
  BY <1>1 DEF ToSet
<1>4. \A i \in DOMAIN t : t[i] \in ToSet(u)
  <2> SUFFICES ASSUME NEW i \in DOMAIN t PROVE t[i] \in ToSet(u)
    OBVIOUS
  <2>1. Len(s) + i \in DOMAIN u /\ u[Len(s) + i] = t[i]
    BY <1>1
  <2> QED BY <2>1 DEF ToSet
<1>5. ToSet(u) = ToSet(s) \union ToSet(t)
  BY <1>2, <1>3, <1>4 DEF ToSet
<1> QED BY <1>1, <1>5 DEF u

\* Four lists of rows, one after the other.
LEMMA FlattenFour ==
    ASSUME NEW s, DOMAIN s = 1..4, s = [i \in 1..4 |-> s[i]], \A i \in 1..4 : IsSeq(s[i])
    PROVE  /\ IsSeq(FlattenSeq(s))
           /\ \A i \in DOMAIN FlattenSeq(s) : \E k \in 1..4 : FlattenSeq(s)[i] \in ToSet(s[k])
           /\ \A k \in 1..4 : ToSet(s[k]) \subseteq ToSet(FlattenSeq(s))
<1> DEFINE two == s[1] \o s[2]
           three == two \o s[3]
           four == three \o s[4]
           f == [i \in 1..4 |-> CASE i = 1 -> s[1] [] i = 2 -> two
                                [] i = 3 -> three [] i = 4 -> four]
           Is(g) == g = [i \in 1..4 |-> IF i = 1 THEN s[i] ELSE g[i - 1] \o s[i]]
           c == CHOOSE g : Is(g)
<1>1. Len(s) = 4
  BY ListIsSeq
<1>2. FlattenSeq(s) = c[4]
  BY <1>1 DEF FlattenSeq
<1>3. Is(f)
  <2> HIDE DEF two, three, four
  <2>1. f[1] = s[1] /\ f[2] = two /\ f[3] = three /\ f[4] = four
    OBVIOUS
  <2>2. f[2] = f[1] \o s[2] /\ f[3] = f[2] \o s[3] /\ f[4] = f[3] \o s[4]
    BY <2>1 DEF two, three, four
  <2>3. \A i \in 1..4 : f[i] = IF i = 1 THEN s[i] ELSE f[i - 1] \o s[i]
    <3>1. \A i \in 1..4 : i = 1 \/ i = 2 \/ i = 3 \/ i = 4
      OBVIOUS
    <3> HIDE DEF f
    <3>2. f[2 - 1] = f[1] /\ f[3 - 1] = f[2] /\ f[4 - 1] = f[3]
      OBVIOUS
    <3> TAKE i \in 1..4
    <3>3. CASE i = 1
      BY <3>3, <2>1
    <3>4. CASE i = 2
      BY <3>4, <2>2, <3>2
    <3>5. CASE i = 3
      BY <3>5, <2>2, <3>2
    <3>6. CASE i = 4
      BY <3>6, <2>2, <3>2
    <3> QED BY <3>1, <3>3, <3>4, <3>5, <3>6
  <2>4. f = [i \in 1..4 |-> f[i]]
    OBVIOUS
  <2> HIDE DEF f
  <2> QED BY <2>3, <2>4
<1>4. Is(c)
  <2> HIDE DEF f, Is
  <2> QED BY <1>3
<1>5. c[1] = s[1] /\ c[2] = c[1] \o s[2] /\ c[3] = c[2] \o s[3] /\ c[4] = c[3] \o s[4]
  <2> HIDE DEF c
  <2>1. \A i \in 1..4 : c[i] = IF i = 1 THEN s[i] ELSE c[i - 1] \o s[i]
    BY <1>4
  <2>2. c[2 - 1] = c[1] /\ c[3 - 1] = c[2] /\ c[4 - 1] = c[3]
    OBVIOUS
  <2> HIDE DEF Is
  <2> QED BY <2>1, <2>2
<1>6. FlattenSeq(s) = four
  <2> HIDE DEF c
  <2> QED BY <1>2, <1>5
<1>7. /\ IsSeq(two) /\ IsSeq(three) /\ IsSeq(four)
      /\ ToSet(two) = ToSet(s[1]) \union ToSet(s[2])
      /\ ToSet(three) = ToSet(two) \union ToSet(s[3])
      /\ ToSet(four) = ToSet(three) \union ToSet(s[4])
  <2>1. IsSeq(two) /\ ToSet(two) = ToSet(s[1]) \union ToSet(s[2])
    BY ConcatIn
  <2> HIDE DEF two
  <2>2. IsSeq(three) /\ ToSet(three) = ToSet(two) \union ToSet(s[3])
    BY <2>1, ConcatIn
  <2> HIDE DEF three
  <2>3. IsSeq(four) /\ ToSet(four) = ToSet(three) \union ToSet(s[4])
    BY <2>2, ConcatIn
  <2> QED BY <2>1, <2>2, <2>3
<1>8. ToSet(four) = ToSet(s[1]) \union ToSet(s[2]) \union ToSet(s[3]) \union ToSet(s[4])
  <2> HIDE DEF two, three, four
  <2> QED BY <1>7
<1>9. \A i \in DOMAIN four : four[i] \in ToSet(four)
  <2> HIDE DEF four
  <2> QED BY DEF ToSet
<1> HIDE DEF four, three, two
<1>10. \A k \in 1..4 : k = 1 \/ k = 2 \/ k = 3 \/ k = 4
  OBVIOUS
<1>11. \A k \in 1..4 : ToSet(s[k]) \subseteq ToSet(four)
  BY <1>8, <1>10
<1>12. \A i \in DOMAIN four : \E k \in 1..4 : four[i] \in ToSet(s[k])
  BY <1>8, <1>9
<1> QED BY <1>6, <1>7, <1>11, <1>12

LEMMA MinFacts ==
    ASSUME NEW S, S \subseteq Nat, S # {}
    PROVE  (CHOOSE x \in S : \A y \in S : x <= y) \in S
BY LeastExists, Zenon

\* Where there is a model among the rows, the first row that is wanted is one.
LEMMA FirstRowFacts ==
    ASSUME NEW rows, IsSeq(rows), NEW wanted, \A r \in wanted : IsModel(r),
           \E r \in ToSet(rows) : IsModel(r)
    PROVE  FirstRow(rows, wanted) \in DOMAIN rows /\ IsModel(rows[FirstRow(rows, wanted)])
<1> DEFINE I == {i \in 1..Len(rows) : rows[i] \in wanted}
           J == {i \in 1..Len(rows) : IsModel(rows[i])}
           Least(S) == CHOOSE x \in S : \A y \in S : x <= y
<1>1. Len(rows) \in Nat /\ DOMAIN rows = 1..Len(rows)
  BY AppendFacts
<1>2. J # {} /\ I \subseteq J /\ J \subseteq 1..Len(rows)
  BY <1>1 DEF ToSet
<1>3. I \subseteq Nat /\ J \subseteq Nat
  BY <1>1
<1>4. /\ SelectInSeq(rows, LAMBDA r : r \in wanted) = IF I # {} THEN Least(I) ELSE 0
      /\ SelectInSeq(rows, IsModel) = IF J # {} THEN Least(J) ELSE 0
  BY DEF SelectInSeq, Min
<1>5. I # {} => Least(I) \in I
  <2> HIDE DEF I
  <2> QED BY <1>3, MinFacts
<1>6. Least(J) \in J
  <2> HIDE DEF J
  <2> QED BY <1>2, <1>3, MinFacts
<1>7. FirstRow(rows, wanted) \in J
  <2>1. 0 \notin I /\ 0 \notin J
    BY <1>1
  <2>2. I # {} => FirstRow(rows, wanted) = Least(I)
    <3> HIDE DEF I, J, Least
    <3> QED BY <1>4, <1>5, <2>1 DEF FirstRow
  <2>3. I = {} => FirstRow(rows, wanted) = Least(J)
    <3> HIDE DEF I, J, Least
    <3> QED BY <1>2, <1>4, <1>6, <2>1 DEF FirstRow
  <2> HIDE DEF I, J, Least
  <2> QED BY <1>2, <1>5, <1>6, <2>2, <2>3
<1> QED BY <1>1, <1>7

\* The effort after any effort is a supported one.
LEMMA NextInFacts ==
    ASSUME NEW supported, "auto" \in supported, NEW e \in ToSet(Efforts)
    PROVE  NextIn(supported, e) \in supported \intersect ToSet(Efforts)
<1> DEFINE place(x) == CHOOSE i \in DOMAIN Efforts : Efforts[i] = x
           from == IF e \in supported THEN place(e) ELSE 1
           I == {i \in (from + 1)..Len(Efforts) : Efforts[i] \in supported}
           after == IF I # {} THEN CHOOSE x \in I : \A y \in I : x <= y ELSE 0
<1>1. NextIn(supported, e) = IF after # 0 THEN Efforts[after] ELSE "auto"
  BY DEF NextIn, SelectInSubSeq, Min
<1>2. from \in 1..5
  <2>1. DOMAIN Efforts = 1..5 /\ Len(Efforts) = 5
    BY DEF Efforts
  <2>2. \E i \in 1..5 : Efforts[i] = e
    BY <2>1 DEF ToSet
  <2>3. place(e) \in 1..5
    BY <2>1, <2>2, Zenon
  <2> HIDE DEF place
  <2> QED BY <2>3
<1>3. "auto" \in ToSet(Efforts)
  BY DEF Efforts, ToSet
<1> HIDE DEF from
<1>4. CASE I = {}
  BY <1>1, <1>3, <1>4
<1>5. CASE I # {}
  <2>1. I \subseteq 1..5 /\ I \subseteq Nat
    BY <1>2 DEF Efforts
  <2>2. after \in I
    <3> HIDE DEF I
    <3> QED BY <1>5, <2>1, MinFacts
  <2>3. after \in DOMAIN Efforts /\ after # 0 /\ Efforts[after] \in supported
    <3> HIDE DEF after
    <3> QED BY <2>1, <2>2 DEF Efforts
  <2> HIDE DEF after, I
  <2> QED BY <1>1, <2>3 DEF ToSet
<1> QED BY <1>4, <1>5

-----------------------------------------------------------------------------
(* The rows of the model picker.                                           *)

Names == ToSet(AllProviders)

LEMMA NamesAre ==
    /\ Names = {"ollama", "openai_compat", "copilot", "openai_account"}
    /\ DOMAIN AllProviders = 1..4
    /\ AllProviders[1] = "ollama" /\ AllProviders[2] = "openai_compat"
    /\ AllProviders[3] = "copilot" /\ AllProviders[4] = "openai_account"
<1>1. /\ DOMAIN AllProviders = 1..4
      /\ AllProviders[1] = "ollama" /\ AllProviders[2] = "openai_compat"
      /\ AllProviders[3] = "copilot" /\ AllProviders[4] = "openai_account"
  BY DEF AllProviders
<1>2. \A i \in 1..4 : i = 1 \/ i = 2 \/ i = 3 \/ i = 4
  OBVIOUS
<1>3. 1 \in 1..4 /\ 2 \in 1..4 /\ 3 \in 1..4 /\ 4 \in 1..4
  OBVIOUS
<1>4. Names = {AllProviders[i] : i \in 1..4}
  BY <1>1 DEF Names, ToSet
<1> QED BY <1>1, <1>2, <1>3, <1>4

Listed == CopilotLists \union {NoList}

ConfigInv(cfg) ==
    /\ cfg.provider \in Names
    /\ \A p \in Names : p \in DOMAIN cfg.default /\ cfg.default[p] # "header"
    /\ cfg.copilot \in Listed

LEMMA ListedFacts ==
    ASSUME NEW l \in Listed
    PROVE  IsSeq(l) /\ "header" \notin ToSet(l)
           /\ (l # NoList => l \in CopilotLists /\ Len(l) > 0 /\ l[1] \in ToSet(l))
<1>1. CASE l \in CopilotLists
  <2>1. l \in Seq(ToSet(l)) /\ "header" \notin ToSet(l) /\ l # <<>>
    BY <1>1, ChoiceAssumption DEF ListOfModels
  <2>2. IsSeq(l)
    BY <2>1 DEF IsSeq, ToSet
  <2>3. Len(l) > 0 /\ 1 \in DOMAIN l
    BY <2>1, <2>2, AppendFacts, NoLength
  <2> QED BY <1>1, <2>1, <2>2, <2>3 DEF ToSet
<1>2. CASE l = NoList
  BY <1>2, EmptyIsSeq DEF NoList, ToSet
<1> QED BY <1>1, <1>2 DEF Listed

LEMMA RowsOfFacts ==
    ASSUME NEW p, NEW models, IsSeq(models), "header" \notin ToSet(models)
    PROVE  /\ IsSeq(RowsOf(p, models))
           /\ \A r \in ToSet(RowsOf(p, models)) :
                 r.provider = p /\ (IsModel(r) => r.model \in ToSet(models))
           /\ \A m \in ToSet(models) : \E r \in ToSet(RowsOf(p, models)) : IsModel(r)
<1> DEFINE tail == [k \in DOMAIN models |-> Row(p, models[k])]
<1>1. Len(models) \in Nat /\ DOMAIN models = 1..Len(models)
  BY AppendFacts
<1>2. IsSeq(tail)
  <2>1. DOMAIN tail = 1..Len(models) /\ tail = [k \in 1..Len(models) |-> tail[k]]
    BY <1>1
  <2> HIDE DEF tail
  <2> QED BY <1>1, <2>1, ListIsSeq
<1>3. IsSeq(<<Header(p)>>) /\ ToSet(<<Header(p)>>) = {Header(p)}
  BY OneIsSeq DEF ToSet
<1>4. /\ IsSeq(RowsOf(p, models))
      /\ ToSet(RowsOf(p, models)) = {Header(p)} \union ToSet(tail)
  <2> HIDE DEF tail
  <2>1. /\ IsSeq(<<Header(p)>> \o tail)
        /\ ToSet(<<Header(p)>> \o tail) = {Header(p)} \union ToSet(tail)
    BY <1>2, <1>3, ConcatIn
  <2> USE DEF tail
  <2> QED BY <2>1 DEF RowsOf
<1>5. ToSet(tail) = {Row(p, m) : m \in ToSet(models)}
  BY DEF ToSet
<1> HIDE DEF tail
<1>6. \A m \in ToSet(models) : Row(p, m).provider = p /\ Row(p, m).model = m /\ IsModel(Row(p, m))
  BY DEF Row, IsModel
<1>7. Header(p).provider = p /\ ~IsModel(Header(p))
  BY DEF Header, IsModel
<1> QED BY <1>4, <1>5, <1>6, <1>7

\* Whatever the configuration and the store, there is a model to choose; and if
\* the store has a list, the models of Copilot are those of the list.
LEMMA OptionsFacts ==
    ASSUME NEW cfg, NEW st, ConfigInv(cfg), st["copilot"].models \in Listed
    PROVE  /\ IsSeq(AvailableModelOptions(cfg, st))
           /\ \E r \in ToSet(AvailableModelOptions(cfg, st)) : IsModel(r)
           /\ \A r \in ToSet(AvailableModelOptions(cfg, st)) :
                 /\ r.provider \in Names
                 /\ r.provider = "copilot" /\ IsModel(r) /\ st["copilot"].models # NoList
                       => r.model \in ToSet(st["copilot"].models)
<1> DEFINE named(p) == IF p = "copilot" THEN CopilotCurrent(cfg, st) \o CopilotDiscovered(cfg, st)
                                        ELSE OtherModels(cfg, p)
           part(p) == IF Include(cfg, st, p) THEN RowsOf(p, ModelsOf(cfg, st, p)) ELSE <<>>
           s == [i \in DOMAIN AllProviders |-> part(AllProviders[i])]
<1>1. ASSUME NEW p \in Names
      PROVE  IsSeq(named(p)) /\ "header" \notin ToSet(named(p))
  <2>1. CASE p = "copilot"
    <3>1. CopilotDiscovered(cfg, st) \in Listed
      BY DEF CopilotDiscovered, ConfigInv
    <3>2. \/ CopilotCurrent(cfg, st) = <<>>
          \/ CopilotCurrent(cfg, st) = <<cfg.default["copilot"]>>
      BY DEF CopilotCurrent
    <3>3. IsSeq(CopilotCurrent(cfg, st)) /\ "header" \notin ToSet(CopilotCurrent(cfg, st))
      BY <3>2, <2>1, EmptyIsSeq, OneIsSeq DEF ToSet, ConfigInv
    <3>4. IsSeq(CopilotDiscovered(cfg, st)) /\ "header" \notin ToSet(CopilotDiscovered(cfg, st))
      BY <3>1, ListedFacts
    <3> QED BY <2>1, <3>3, <3>4, ConcatIn
  <2>2. CASE p # "copilot"
    <3>1. IsSeq(<<cfg.default[p]>>) /\ "header" \notin ToSet(<<cfg.default[p]>>)
      BY OneIsSeq DEF ToSet, ConfigInv
    <3>2. IsSeq(Discovered[p]) /\ "header" \notin ToSet(Discovered[p])
      BY ChoiceAssumption DEF ListOfModels, IsSeq, ToSet, Names
    <3>3. named(p) = <<cfg.default[p]>> \o Discovered[p]
      BY <2>2 DEF OtherModels
    <3>4. /\ IsSeq(<<cfg.default[p]>> \o Discovered[p])
          /\ "header" \notin ToSet(<<cfg.default[p]>> \o Discovered[p])
      BY <3>1, <3>2, ConcatIn
    <3> HIDE DEF named
    <3> QED BY <3>3, <3>4
  <2> QED BY <2>1, <2>2
<1>2. ASSUME NEW p \in Names
      PROVE  /\ IsSeq(ModelsOf(cfg, st, p)) /\ "header" \notin ToSet(ModelsOf(cfg, st, p))
             /\ ToSet(ModelsOf(cfg, st, p)) = ToSet(named(p))
  <2>1. ModelsOf(cfg, st, p) = Unique(named(p))
    BY DEF ModelsOf
  <2> HIDE DEF named
  <2> QED BY <1>1, <2>1, UniqueFacts
<1>3. ASSUME NEW p \in Names
      PROVE  /\ IsSeq(part(p))
             /\ \A r \in ToSet(part(p)) :
                   r.provider = p /\ (IsModel(r) => r.model \in ToSet(named(p)))
  <2>1. CASE Include(cfg, st, p)
    BY <2>1, <1>2, RowsOfFacts
  <2>2. CASE ~Include(cfg, st, p)
    BY <2>2, EmptyIsSeq DEF ToSet
  <2> QED BY <2>1, <2>2
<1>4. \E r \in ToSet(part("ollama")) : IsModel(r)
  <2>1. Include(cfg, st, "ollama") /\ "ollama" \in Names
    BY NamesAre DEF Include
  <2>2. cfg.default["ollama"] \in ToSet(named("ollama"))
    <3>1. /\ IsSeq(<<cfg.default["ollama"]>>)
          /\ cfg.default["ollama"] \in ToSet(<<cfg.default["ollama"]>>)
      BY OneIsSeq DEF ToSet
    <3>2. IsSeq(Discovered["ollama"])
      BY <2>1, ChoiceAssumption DEF ListOfModels, IsSeq, ToSet, Names
    <3>3. named("ollama") = <<cfg.default["ollama"]>> \o Discovered["ollama"]
      BY DEF OtherModels
    <3>4. cfg.default["ollama"] \in ToSet(<<cfg.default["ollama"]>> \o Discovered["ollama"])
      BY <3>1, <3>2, ConcatIn
    <3> HIDE DEF named
    <3> QED BY <3>3, <3>4
  <2>3. part("ollama") = RowsOf("ollama", ModelsOf(cfg, st, "ollama"))
    BY <2>1
  <2> HIDE DEF part, named
  <2> QED BY <2>1, <2>2, <2>3, <1>2, RowsOfFacts
<1>5. ASSUME st["copilot"].models # NoList
      PROVE  ToSet(named("copilot")) \subseteq ToSet(st["copilot"].models)
  <2> DEFINE list == st["copilot"].models
  <2>1. CopilotDiscovered(cfg, st) = list /\ IsSeq(list)
    BY <1>5, ListedFacts DEF CopilotDiscovered
  <2>2. \/ CopilotCurrent(cfg, st) = <<>>
        \/ /\ CopilotCurrent(cfg, st) = <<cfg.default["copilot"]>>
           /\ cfg.default["copilot"] \in ToSet(list)
    BY <2>1, <1>5 DEF CopilotCurrent, NoList
  <2> HIDE DEF list
  <2>3. IsSeq(CopilotCurrent(cfg, st)) /\ ToSet(CopilotCurrent(cfg, st)) \subseteq ToSet(list)
    BY <2>2, EmptyIsSeq, OneIsSeq DEF ToSet
  <2> QED BY <2>1, <2>3, ConcatIn DEF list
<1>6. AvailableModelOptions(cfg, st) = FlattenSeq(s)
  BY DEF AvailableModelOptions
<1>7. /\ DOMAIN s = 1..4 /\ s = [i \in 1..4 |-> s[i]]
      /\ \A i \in 1..4 : AllProviders[i] \in Names /\ s[i] = part(AllProviders[i])
  <2> HIDE DEF part
  <2> QED BY NamesAre DEF Names, ToSet
<1>8. \A i \in 1..4 : IsSeq(s[i])
  <2> HIDE DEF part, s
  <2> QED BY <1>3, <1>7
<1> HIDE DEF s, part, named
<1>9. /\ IsSeq(FlattenSeq(s))
      /\ \A i \in DOMAIN FlattenSeq(s) : \E k \in 1..4 : FlattenSeq(s)[i] \in ToSet(s[k])
      /\ \A k \in 1..4 : ToSet(s[k]) \subseteq ToSet(FlattenSeq(s))
  BY <1>7, <1>8, FlattenFour
<1>10. \A r \in ToSet(FlattenSeq(s)) : \E p \in Names : r \in ToSet(part(p))
  <2>1. \A r \in ToSet(FlattenSeq(s)) : \E k \in 1..4 : r \in ToSet(s[k])
    BY <1>9 DEF ToSet
  <2> QED BY <2>1, <1>7
<1>11. \E r \in ToSet(FlattenSeq(s)) : IsModel(r)
  <2>1. s[1] = part("ollama") /\ 1 \in 1..4
    BY <1>7, NamesAre
  <2> QED BY <2>1, <1>4, <1>9
<1>12. ASSUME NEW r \in ToSet(FlattenSeq(s))
       PROVE  /\ r.provider \in Names
              /\ r.provider = "copilot" /\ IsModel(r) /\ st["copilot"].models # NoList
                    => r.model \in ToSet(st["copilot"].models)
  <2>1. PICK p \in Names : r \in ToSet(part(p))
    BY <1>10
  <2>2. r.provider = p /\ (IsModel(r) => r.model \in ToSet(named(p)))
    BY <1>3, <2>1
  <2> QED BY <2>2, <1>5
<1> QED BY <1>6, <1>9, <1>11, <1>12

-----------------------------------------------------------------------------
(* The choice of the model: what is true of it between two steps.          *)

Stored == store["copilot"]

Told == UNION {ToSet(l) : l \in CopilotLists}

Records == [there : BOOLEAN, models : Listed, endpoints : SUBSET Told, number : Nat]

StoreInv ==
    /\ store \in [Accounts -> Records]
    /\ lists \in Nat /\ heard \in 0..lists
    /\ Stored.number <= lists
    /\ ~Stored.there => Stored.models = NoList

ConfigShape ==
    /\ config = [provider |-> config.provider, default |-> config.default,
                 copilot |-> config.copilot]
    /\ ConfigInv(config)

\* A list on its way is the one that is stored, or has another number.
InStep(models, number) ==
    /\ number <= lists
    /\ number = Stored.number /\ Stored.models # NoList => models = Stored.models

LoginTasks == [pc : {"idle", "authorising", "asking", "saving", "telling"},
               kind : {"none", "refresh"} \union Accounts, models : Listed, number : Nat]

TasksInv ==
    /\ task \in [Tasks -> LoginTasks]
    /\ \A t \in Tasks :
          /\ task[t].pc \in {"authorising", "asking", "saving"} => task[t].number = 0
          /\ task[t].pc \in {"saving", "telling"} => task[t].models # NoList
          /\ task[t].pc = "telling" => InStep(task[t].models, task[t].number)

NewsInv ==
    /\ news \in Seq([models : Listed, number : Nat])
    /\ \A i \in DOMAIN news : news[i].models # NoList => InStep(news[i].models, news[i].number)

BuiltInv == built = [provider |-> config.provider, model |-> ActiveModel]

EffortInv ==
    /\ effort \in ToSet(Efforts)
    /\ ~moved => effort \in Supported(config, store)

\* The App was told of the list that is stored.
InSight == heard = Stored.number /\ Stored.models # NoList

AskedInv ==
    InSight /\ config.provider = "copilot" /\ origin \in {"picked", "heard"}
        => ActiveModel \in ToSet(Stored.models)

RowsInv ==
    /\ IsSeq(picker.rows)
    /\ picker.cursor \in DOMAIN picker.rows
    /\ IsModel(Pointed) \/ picker.lost
    /\ \A r \in ToSet(picker.rows) :
          /\ r.provider \in Names
          /\ InSight /\ r.provider = "copilot" /\ IsModel(r) => r.model \in ToSet(Stored.models)

PickerInv ==
    /\ picker = [open |-> picker.open, rows |-> picker.rows, cursor |-> picker.cursor,
                 lost |-> picker.lost]
    /\ PickerIs("model") => RowsInv

ChoiceInv ==
    /\ StoreInv /\ ConfigShape /\ TasksInv /\ NewsInv
    /\ BuiltInv /\ EffortInv /\ AskedInv /\ PickerInv

\* What can become of the list in the store: it stays, it goes, or a new one with
\* a number of its own takes its place.
StoreMoves ==
    \/ lists' = lists /\ Stored'.models = Stored.models /\ Stored'.number = Stored.number
    \/ lists' = lists /\ Stored'.models = NoList
    \/ lists' = lists + 1 /\ Stored'.number = lists + 1

\* A list in step after the move.
InStepThen(models, number) ==
    /\ number <= lists'
    /\ number = Stored'.number /\ Stored'.models # NoList => models = Stored'.models

LEMMA InStepKept ==
    ASSUME StoreInv, StoreMoves, NEW m, NEW n \in Nat, InStep(m, n)
    PROVE  InStepThen(m, n)
BY DEF StoreInv, StoreMoves, InStep, InStepThen

LEMMA TasksKept == StoreInv /\ StoreMoves /\ TasksInv /\ task' = task => TasksInv'
<1> SUFFICES ASSUME StoreInv, StoreMoves, TasksInv, task' = task PROVE TasksInv'
  OBVIOUS
<1>1. \A t \in Tasks : task[t].number \in Nat
  BY DEF TasksInv, LoginTasks
<1>2. \A t \in Tasks : task[t].pc = "telling" => InStepThen(task[t].models, task[t].number)
  BY <1>1, InStepKept DEF TasksInv
<1>3. task' \in [Tasks -> LoginTasks]
  BY DEF TasksInv
<1> QED BY <1>2, <1>3 DEF TasksInv, InStep, InStepThen

LEMMA NewsKept == StoreInv /\ StoreMoves /\ NewsInv /\ news' = news => NewsInv'
<1> SUFFICES ASSUME StoreInv, StoreMoves, NewsInv, news' = news PROVE NewsInv'
  OBVIOUS
<1>1. \A i \in DOMAIN news : news[i].number \in Nat
  <2>1. news \in Seq([models : Listed, number : Nat])
    BY DEF NewsInv
  <2>2. \A i \in DOMAIN news : news[i] \in [models : Listed, number : Nat]
    BY <2>1, ElementOfSeq, SeqIsSeq
  <2> QED BY <2>2
<1>2. \A i \in DOMAIN news :
         news[i].models # NoList => InStepThen(news[i].models, news[i].number)
  BY <1>1, InStepKept DEF NewsInv
<1> QED BY <1>2 DEF NewsInv, InStep, InStepThen

LEMMA SightKept ==
    ASSUME StoreInv, StoreMoves, heard' = heard, InSight'
    PROVE  InSight /\ Stored'.models = Stored.models
BY DEF StoreInv, StoreMoves, InSight

LEMMA AskedKept ==
    ASSUME StoreInv, StoreMoves, heard' = heard, AskedInv, origin' = origin,
           config'.provider = config.provider, config'.default = config.default
    PROVE  AskedInv'
BY SightKept DEF AskedInv, ActiveModel

LEMMA PickerKept ==
    ASSUME StoreInv, StoreMoves, heard' = heard, PickerInv, picker' = picker
    PROVE  PickerInv'
<1>1. PickerIs("model")' => PickerIs("model")
  BY DEF PickerIs
<1>2. ASSUME RowsInv PROVE RowsInv'
  BY <1>2, SightKept DEF RowsInv, Pointed
<1> QED BY <1>1, <1>2 DEF PickerInv

LEMMA EffortKept ==
    ASSUME EffortInv, effort' = effort,
           moved' = (moved \/ Supported(config', store') # Supported(config, store))
    PROVE  EffortInv'
BY DEF EffortInv

LEMMA AutoSupported == ASSUME NEW cfg, NEW st PROVE "auto" \in Supported(cfg, st)
BY DEF Supported

LEMMA ListingFacts ==
    ASSUME NEW l \in CopilotLists, NEW n \in Nat
    PROVE  /\ Listing(l, n) \in Records /\ Listing(l, n).models = l /\ Listing(l, n).number = n
           /\ Listing(l, n).there /\ l # NoList
<1>1. ToSet(l) \in SUBSET Told
  BY DEF Told
<1>2. l # NoList
  BY ChoiceAssumption DEF NoList
<1> QED BY <1>1, <1>2 DEF Listing, Records, Listed

LEMMA NoRecordFacts ==
    /\ NoRecord \in Records /\ NoRecord.models = NoList /\ NoRecord.number = 0 /\ ~NoRecord.there
    /\ Fresh \in Records /\ Fresh.models = NoList /\ Fresh.number = 0 /\ Fresh.there
BY DEF NoRecord, Fresh, Records, Listed

LEMMA IdleFacts ==
    /\ IdleTask \in LoginTasks /\ IdleTask.pc = "idle" /\ IdleTask.number = 0
    /\ \A kind \in {"refresh"} \union Accounts, pc1 \in {"authorising", "asking"} :
          /\ [IdleTask EXCEPT !.kind = kind, !.pc = pc1] \in LoginTasks
          /\ [IdleTask EXCEPT !.kind = kind, !.pc = pc1].pc = pc1
          /\ [IdleTask EXCEPT !.kind = kind, !.pc = pc1].number = 0
BY DEF IdleTask, LoginTasks, Listed

LEMMA ChoiceStart == ChoiceInit => ChoiceInv
<1> SUFFICES ASSUME ChoiceInit PROVE ChoiceInv
  OBVIOUS
<1>1. StoreInv
  <2>1. \A a \in Accounts : \/ store[a] = NoRecord \/ store[a] = Fresh
                            \/ \E l \in CopilotLists : store[a] = Listing(l, 0)
    BY DEF ChoiceInit
  <2>2. \A a \in Accounts : store[a] \in Records /\ store[a].number = 0
                            /\ (~store[a].there => store[a].models = NoList)
    BY <2>1, NoRecordFacts, ListingFacts
  <2>3. store = [a \in Accounts |-> store[a]]
    BY DEF ChoiceInit
  <2>4. store \in [Accounts -> Records]
    BY <2>2, <2>3
  <2>5. Stored.number = 0 /\ (~Stored.there => Stored.models = NoList)
    BY <2>2 DEF Stored, Accounts
  <2>6. lists = 0 /\ heard = 0
    BY DEF ChoiceInit
  <2> QED BY <2>4, <2>5, <2>6 DEF StoreInv
<1>2. ConfigShape
  <2>1. PICK p \in Defaults : config = [provider |-> p, default |-> Configured, copilot |-> NoList]
    BY DEF ChoiceInit
  <2>2. p \in Names
    BY ChoiceAssumption DEF Names
  <2>3. ConfigInv(config)
    BY <2>1, <2>2, ChoiceAssumption, SMTT(30) DEF ConfigInv, Listed, Names
  <2> QED BY <2>1, <2>3 DEF ConfigShape
<1>3. TasksInv
  <2>1. task = [t \in Tasks |-> IdleTask]
    BY DEF ChoiceInit
  <2>2. \A t \in Tasks : task[t] = IdleTask
    BY <2>1, SMTT(30)
  <2>3. task \in [Tasks -> LoginTasks]
    BY <2>1, IdleFacts
  <2> QED BY <2>2, <2>3, IdleFacts DEF TasksInv
<1>4. NewsInv
  BY DEF NewsInv, ChoiceInit
<1>5. BuiltInv
  BY DEF BuiltInv, ChoiceInit
<1>6. EffortInv
  <2>1. "auto" \in ToSet(Efforts)
    BY DEF Efforts, ToSet
  <2> QED BY <2>1, AutoSupported DEF EffortInv, ChoiceInit
<1>7. AskedInv
  BY DEF AskedInv, ChoiceInit
<1>8. PickerInv
  BY DEF PickerInv, PickerIs, Closed, ChoiceInit
<1> QED BY <1>1, <1>2, <1>3, <1>4, <1>5, <1>6, <1>7, <1>8 DEF ChoiceInv

-----------------------------------------------------------------------------
(* The choice of the model: the steps of the App.                          *)

LEMMA StillStored ==
    ASSUME StoreInv, store' = store, lists' = lists, heard' = heard
    PROVE  StoreMoves /\ StoreInv' /\ (InSight' <=> InSight) /\ Stored' = Stored
BY DEF StoreInv, StoreMoves, InSight, Stored

\* A new task asks or authorises; the others go on.
LEMMA TasksSpawned ==
    ASSUME StoreInv, TasksInv, store' = store, lists' = lists,
           NEW kind \in {"refresh"} \union Accounts, SpawnAppRequest(kind)
    PROVE  TasksInv'
<1>1. PICK t \in Tasks, new \in LoginTasks :
         /\ task' = [task EXCEPT ![t] = new]
         /\ new.pc \in {"authorising", "asking"} /\ new.number = 0
  BY IdleFacts DEF SpawnAppRequest
<1>2. task' \in [Tasks -> LoginTasks] /\ task'[t] = new
      /\ \A u \in Tasks : u # t => task'[u] = task[u]
  BY <1>1 DEF TasksInv
<1>3. \A m, n : InStep(m, n)' <=> InStep(m, n)
  BY DEF InStep, Stored
<1> QED BY <1>1, <1>2, <1>3, SMTT(30) DEF TasksInv

LEMMA ElsewhereKept ==
    ASSUME ChoiceInv, UNCHANGED <<config, built, effort, store, lists, heard, origin, moved>>
    PROVE  /\ StoreInv' /\ ConfigShape' /\ BuiltInv' /\ EffortInv' /\ AskedInv'
           /\ (news' = news => NewsInv') /\ (task' = task => TasksInv')
           /\ (picker' = picker => PickerInv')
           /\ (InSight' <=> InSight) /\ Stored' = Stored
<1>1. StoreInv /\ StoreMoves /\ StoreInv' /\ (InSight' <=> InSight) /\ Stored' = Stored
  BY StillStored DEF ChoiceInv
<1>2. ConfigShape' /\ BuiltInv' /\ EffortInv'
  BY DEF ChoiceInv, ConfigShape, ConfigInv, BuiltInv, ActiveModel, EffortInv
<1>3. AskedInv'
  BY <1>1, AskedKept DEF ChoiceInv
<1>4. /\ (news' = news => NewsInv') /\ (task' = task => TasksInv')
      /\ (picker' = picker => PickerInv')
  BY <1>1, NewsKept, TasksKept, PickerKept DEF ChoiceInv
<1> QED BY <1>1, <1>2, <1>3, <1>4

LEMMA ChoiceStutters == ChoiceInv /\ UNCHANGED choiceVars => ChoiceInv'
BY ElsewhereKept DEF ChoiceInv, choiceVars

LEMMA CycleEffortStep == ChoiceInv /\ CycleEffort => ChoiceInv'
<1> SUFFICES ASSUME ChoiceInv, CycleEffort PROVE ChoiceInv'
  OBVIOUS
<1>1. /\ effort' = NextIn(Supported(config, store), effort)
      /\ UNCHANGED <<config, built, store, picker, task, news, lists, heard, origin>>
  BY DEF CycleEffort
<1>2. StoreInv' /\ StoreMoves
  BY <1>1, StillStored DEF ChoiceInv
<1>3. TasksInv' /\ NewsInv' /\ AskedInv' /\ PickerInv'
  BY <1>1, <1>2, TasksKept, NewsKept, AskedKept, PickerKept DEF ChoiceInv
<1>4. ConfigShape' /\ BuiltInv'
  BY <1>1 DEF ChoiceInv, ConfigShape, ConfigInv, BuiltInv, ActiveModel
<1>5. EffortInv'
  <2>1. NextIn(Supported(config, store), effort)
           \in Supported(config, store) \intersect ToSet(Efforts)
    BY AutoSupported, NextInFacts DEF ChoiceInv, EffortInv
  <2> QED BY <1>1, <2>1 DEF EffortInv
<1> QED BY <1>2, <1>3, <1>4, <1>5 DEF ChoiceInv

LEMMA AutoIsEffort == "auto" \in ToSet(Efforts)
BY DEF Efforts, ToSet

\* A choice of the user; one from a list that the App was told of last is in it.
LEMMA Switched ==
    ASSUME ChoiceInv, UNCHANGED <<store, lists, heard>>,
           NEW p \in Names, NEW m, m # "header", NEW from, SwitchActiveModel(p, m, from),
           InSight /\ p = "copilot" /\ from \in {"picked", "heard"} => m \in ToSet(Stored.models)
    PROVE  /\ StoreInv' /\ ConfigShape' /\ BuiltInv' /\ EffortInv' /\ AskedInv'
           /\ (news' = news => NewsInv') /\ (task' = task => TasksInv')
           /\ (picker' = picker => PickerInv')
<1>1. StoreInv /\ StoreMoves /\ StoreInv' /\ (InSight' <=> InSight) /\ Stored' = Stored
  BY StillStored DEF ChoiceInv
<1>2. /\ config' = [config EXCEPT !.provider = p, !.default[p] = m]
      /\ built' = [provider |-> p, model |-> m]
      /\ effort' = IF effort \in Supported(config', store) THEN effort ELSE "auto"
      /\ origin' = from
      /\ moved' = FALSE
  BY DEF SwitchActiveModel
<1>3. /\ config' = [provider |-> p, default |-> [config.default EXCEPT ![p] = m],
                    copilot |-> config.copilot]
      /\ config'.provider = p /\ config'.copilot = config.copilot
      /\ config'.default = [config.default EXCEPT ![p] = m]
  BY <1>2 DEF ChoiceInv, ConfigShape
<1>4. /\ DOMAIN config'.default = DOMAIN config.default
      /\ config'.default[p] = m
      /\ \A q \in DOMAIN config.default : q # p => config'.default[q] = config.default[q]
  BY <1>3 DEF ChoiceInv, ConfigShape, ConfigInv
<1>5. ConfigShape'
  <2>1. \A q \in Names : q \in DOMAIN config'.default /\ config'.default[q] # "header"
    BY <1>4 DEF ChoiceInv, ConfigShape, ConfigInv
  <2>2. config.copilot \in Listed
    BY DEF ChoiceInv, ConfigShape, ConfigInv
  <2> QED BY <1>3, <2>1, <2>2 DEF ConfigShape, ConfigInv
<1>6. BuiltInv'
  BY <1>2, <1>3, <1>4 DEF BuiltInv, ActiveModel
<1>7. EffortInv'
  BY <1>2, AutoIsEffort, AutoSupported DEF ChoiceInv, EffortInv
<1>8. AskedInv'
  BY <1>1, <1>2, <1>3, <1>4 DEF AskedInv, ActiveModel
<1>9. /\ (news' = news => NewsInv') /\ (task' = task => TasksInv')
      /\ (picker' = picker => PickerInv')
  BY <1>1, NewsKept, TasksKept, PickerKept DEF ChoiceInv
<1> QED BY <1>1, <1>5, <1>6, <1>7, <1>8, <1>9

LEMMA SwitchTypedStep == ChoiceInv /\ SwitchTyped => ChoiceInv'
<1> SUFFICES ASSUME ChoiceInv, SwitchTyped PROVE ChoiceInv'
  OBVIOUS
<1>1. PICK m \in Typable[config.provider] : SwitchActiveModel(config.provider, m, "typed")
  BY DEF SwitchTyped
<1>2. UNCHANGED <<store, picker, task, news, lists, heard>>
  BY DEF SwitchTyped
<1>3. config.provider \in Names /\ m # "header"
  BY <1>1, ChoiceAssumption DEF ChoiceInv, ConfigShape, ConfigInv, Names
<1> QED BY <1>1, <1>2, <1>3, Switched DEF ChoiceInv

LEMMA RefreshRequested ==
    ASSUME StoreInv, TasksInv, UNCHANGED <<store, lists, heard>>, CopilotModelRefreshRequest
    PROVE  TasksInv'
<1>1. CASE SpawnAppRequest("refresh")
  BY <1>1, TasksSpawned
<1>2. CASE UNCHANGED task
  BY <1>2, TasksKept, StillStored
<1> QED BY <1>1, <1>2 DEF CopilotModelRefreshRequest

LEMMA LoginRequested ==
    ASSUME StoreInv, TasksInv, UNCHANGED <<store, lists, heard>>, NEW p, LoginProvider(p)
    PROVE  TasksInv'
<1>1. CASE p \in Held
  <2>1. p \in Accounts
    BY <1>1, ChoiceAssumption
  <2> QED BY <1>1, <2>1, TasksSpawned DEF LoginProvider
<1>2. CASE p \notin Held
  BY <1>2, TasksKept, StillStored DEF LoginProvider
<1> QED BY <1>1, <1>2

LEMMA RefreshCommandStep == ChoiceInv /\ RefreshCommand => ChoiceInv'
<1> SUFFICES ASSUME ChoiceInv, RefreshCommand PROVE ChoiceInv'
  OBVIOUS
<1>1. UNCHANGED <<config, built, effort, store, picker, news, lists, heard, origin, moved>>
  BY DEF RefreshCommand
<1>2. TasksInv'
  <2>1. CASE CopilotModelRefreshRequest
    BY <1>1, <2>1, RefreshRequested DEF ChoiceInv
  <2>2. CASE UNCHANGED task
    BY <1>1, <2>2, ElsewhereKept
  <2> QED BY <2>1, <2>2 DEF RefreshCommand
<1> QED BY <1>1, <1>2, ElsewhereKept DEF ChoiceInv

LEMMA LoginCommandStep == ChoiceInv /\ LoginCommand => ChoiceInv'
<1> SUFFICES ASSUME ChoiceInv, LoginCommand PROVE ChoiceInv'
  OBVIOUS
<1>1. UNCHANGED <<config, built, effort, store, picker, news, lists, heard, origin, moved>>
  BY DEF LoginCommand
<1>2. PICK p \in Names : LoginProvider(p)
  BY DEF LoginCommand, Names
<1>3. TasksInv'
  BY <1>1, <1>2, LoginRequested DEF ChoiceInv
<1> QED BY <1>1, <1>3, ElsewhereKept DEF ChoiceInv

\* A picker that is not the one for models asks for nothing.
LEMMA OtherPicker ==
    ASSUME picker' = [open |-> picker'.open, rows |-> picker'.rows, cursor |-> picker'.cursor,
                      lost |-> picker'.lost],
           picker'.open # "model"
    PROVE  PickerInv'
BY DEF PickerInv, PickerIs

LEMMA ClosedFacts ==
    /\ Closed = [open |-> Closed.open, rows |-> Closed.rows, cursor |-> Closed.cursor,
                 lost |-> Closed.lost]
    /\ Closed.open # "model"
BY DEF Closed

LEMMA OpenLoginPickerStep == ChoiceInv /\ OpenLoginPicker => ChoiceInv'
<1> SUFFICES ASSUME ChoiceInv, OpenLoginPicker PROVE ChoiceInv'
  OBVIOUS
<1>1. UNCHANGED <<config, built, effort, store, task, news, lists, heard, origin, moved>>
  BY DEF OpenLoginPicker
<1>2. PickerInv'
  BY OtherPicker DEF OpenLoginPicker
<1> QED BY <1>1, <1>2, ElsewhereKept DEF ChoiceInv

LEMMA ClosePickerStep == ChoiceInv /\ ClosePicker => ChoiceInv'
<1> SUFFICES ASSUME ChoiceInv, ClosePicker PROVE ChoiceInv'
  OBVIOUS
<1>1. UNCHANGED <<config, built, effort, store, task, news, lists, heard, origin, moved>>
  BY DEF ClosePicker
<1>2. PickerInv'
  BY OtherPicker, ClosedFacts DEF ClosePicker
<1> QED BY <1>1, <1>2, ElsewhereKept DEF ChoiceInv

LEMMA MoveLoginCursorStep == ChoiceInv /\ MoveLoginCursor => ChoiceInv'
<1> SUFFICES ASSUME ChoiceInv, MoveLoginCursor PROVE ChoiceInv'
  OBVIOUS
<1>1. UNCHANGED <<config, built, effort, store, task, news, lists, heard, origin, moved>>
  BY DEF MoveLoginCursor
<1>2. PickerInv'
  BY OtherPicker DEF MoveLoginCursor, PickerIs, ChoiceInv, PickerInv
<1> QED BY <1>1, <1>2, ElsewhereKept DEF ChoiceInv

LEMMA SelectLoginStep == ChoiceInv /\ SelectLogin => ChoiceInv'
<1> SUFFICES ASSUME ChoiceInv, SelectLogin PROVE ChoiceInv'
  OBVIOUS
<1>1. UNCHANGED <<config, built, effort, store, news, lists, heard, origin, moved>>
  BY DEF SelectLogin
<1>2. PickerInv'
  BY OtherPicker, ClosedFacts DEF SelectLogin
<1>3. TasksInv'
  BY <1>1, LoginRequested DEF SelectLogin, ChoiceInv
<1> QED BY <1>1, <1>2, <1>3, ElsewhereKept DEF ChoiceInv

LEMMA MoveCursorStep == ChoiceInv /\ MoveCursor => ChoiceInv'
<1> SUFFICES ASSUME ChoiceInv, MoveCursor PROVE ChoiceInv'
  OBVIOUS
<1>1. UNCHANGED <<config, built, effort, store, task, news, lists, heard, origin, moved>>
  BY DEF MoveCursor
<1>2. PICK j \in DOMAIN picker.rows :
         /\ IsModel(picker.rows[j])
         /\ picker' = [picker EXCEPT !.cursor = j, !.lost = FALSE]
  BY DEF MoveCursor
<1>3. /\ picker' = [open |-> picker.open, rows |-> picker.rows, cursor |-> j, lost |-> FALSE]
      /\ picker'.rows = picker.rows /\ picker'.cursor = j
  BY <1>2 DEF ChoiceInv, PickerInv
<1>4. RowsInv
  BY DEF MoveCursor, ChoiceInv, PickerInv
<1>5. RowsInv'
  BY <1>1, <1>2, <1>3, <1>4, ElsewhereKept DEF RowsInv, Pointed
<1>6. PickerInv'
  BY <1>3, <1>5 DEF PickerInv
<1> QED BY <1>1, <1>6, ElsewhereKept DEF ChoiceInv

LEMMA SelectModelStep == ChoiceInv /\ SelectModel => ChoiceInv'
<1> SUFFICES ASSUME ChoiceInv, SelectModel PROVE ChoiceInv'
  OBVIOUS
<1>1. /\ picker' = Closed
      /\ UNCHANGED <<store, task, news, lists, heard>>
      /\ RowsInv
  BY DEF SelectModel, ChoiceInv, PickerInv
<1>2. PickerInv'
  BY <1>1, OtherPicker, ClosedFacts
<1>3. Pointed \in ToSet(picker.rows)
  BY <1>1 DEF RowsInv, Pointed, ToSet
<1>4. CASE IsModel(Pointed)
  <2>1. SwitchActiveModel(Pointed.provider, Pointed.model, "picked")
    BY <1>4 DEF SelectModel
  <2>2. /\ Pointed.provider \in Names /\ Pointed.model # "header"
        /\ InSight /\ Pointed.provider = "copilot" => Pointed.model \in ToSet(Stored.models)
    BY <1>1, <1>3, <1>4 DEF RowsInv, IsModel
  <2> QED BY <1>1, <1>2, <2>1, <2>2, Switched DEF ChoiceInv
<1>5. CASE ~IsModel(Pointed)
  <2>1. UNCHANGED <<config, built, effort, origin, moved>>
    BY <1>5 DEF SelectModel
  <2> QED BY <1>1, <1>2, <2>1, ElsewhereKept DEF ChoiceInv
<1> QED BY <1>4, <1>5

\* The rows of the moment, with the cursor on a model or after a logout.
LEMMA RowsAnew ==
    ASSUME ConfigInv(config'), StoreInv', NEW open, NEW cursor, NEW lost,
           cursor \in DOMAIN AvailableModelOptions(config', store'),
           IsModel(AvailableModelOptions(config', store')[cursor]) \/ lost,
           picker' = [open |-> open, rows |-> AvailableModelOptions(config', store'),
                      cursor |-> cursor, lost |-> lost]
    PROVE  PickerInv'
<1>1. store'["copilot"].models \in Listed
  BY DEF StoreInv, Records, Accounts
<1> DEFINE rows == AvailableModelOptions(config', store')
<1>2. /\ IsSeq(rows)
      /\ \A r \in ToSet(rows) :
            /\ r.provider \in Names
            /\ r.provider = "copilot" /\ IsModel(r) /\ store'["copilot"].models # NoList
                  => r.model \in ToSet(store'["copilot"].models)
  BY <1>1, OptionsFacts
<1> HIDE DEF rows
<1>3. /\ picker'.rows = rows /\ picker'.cursor = cursor /\ picker'.lost = lost
      /\ picker' = [open |-> picker'.open, rows |-> picker'.rows, cursor |-> picker'.cursor,
                    lost |-> picker'.lost]
  BY DEF rows
<1>4. RowsInv'
  BY <1>2, <1>3 DEF RowsInv, Pointed, InSight, Stored, rows
<1> QED BY <1>3, <1>4 DEF PickerInv

LEMMA OpenModelPickerStep == ChoiceInv /\ OpenModelPicker => ChoiceInv'
<1> SUFFICES ASSUME ChoiceInv, OpenModelPicker PROVE ChoiceInv'
  OBVIOUS
<1> DEFINE rows == AvailableModelOptions(config, store)
           wanted == {Row(config.provider, ActiveModel)}
<1>1. /\ UNCHANGED <<config, built, effort, store, news, lists, heard, origin, moved>>
      /\ CopilotModelRefreshRequest
      /\ picker' = [open |-> "model", rows |-> rows, cursor |-> FirstRow(rows, wanted),
                    lost |-> FALSE]
  BY DEF OpenModelPicker
<1>2. TasksInv'
  BY <1>1, RefreshRequested DEF ChoiceInv
<1>3. FirstRow(rows, wanted) \in DOMAIN rows /\ IsModel(rows[FirstRow(rows, wanted)])
  <2>1. \A r \in wanted : IsModel(r)
    BY DEF ChoiceInv, ConfigShape, ConfigInv, ActiveModel, Row, IsModel
  <2>2. IsSeq(rows) /\ \E r \in ToSet(rows) : IsModel(r)
    BY OptionsFacts DEF ChoiceInv, ConfigShape, StoreInv, Records, Accounts
  <2> HIDE DEF rows, wanted
  <2> QED BY <2>1, <2>2, FirstRowFacts
<1>4. PickerInv'
  <2>1. ConfigInv(config') /\ StoreInv' /\ rows = AvailableModelOptions(config', store')
    BY <1>1, ElsewhereKept DEF ChoiceInv, ConfigShape
  <2> HIDE DEF rows, wanted
  <2> QED BY <1>1, <1>3, <2>1, RowsAnew
<1> QED BY <1>1, <1>2, <1>4, ElsewhereKept DEF ChoiceInv

-----------------------------------------------------------------------------
(* The choice of the model: the store and the tasks.                       *)

\* What a change of the store leaves to show: that it is one, and the tasks.
LEMMA StoreChanged ==
    ASSUME ChoiceInv, StoreMoves, UNCHANGED <<built, effort, news, heard, origin>>,
           config'.provider = config.provider, config'.default = config.default, ConfigShape',
           moved' = (moved \/ Supported(config', store') # Supported(config, store))
    PROVE  /\ BuiltInv' /\ EffortInv' /\ AskedInv' /\ NewsInv'
           /\ (task' = task => TasksInv') /\ (picker' = picker => PickerInv')
<1>1. BuiltInv'
  BY DEF ChoiceInv, BuiltInv, ActiveModel
<1>2. EffortInv'
  BY EffortKept DEF ChoiceInv
<1> QED BY <1>1, <1>2, AskedKept, NewsKept, TasksKept, PickerKept DEF ChoiceInv

LEMMA ConfigUnchanged == ChoiceInv /\ config' = config => ConfigShape'
BY DEF ChoiceInv, ConfigShape, ConfigInv

LEMMA LoginFromEnvStep == ChoiceInv /\ LoginFromEnv => ChoiceInv'
<1> SUFFICES ASSUME ChoiceInv, LoginFromEnv PROVE ChoiceInv'
  OBVIOUS
<1>1. /\ store' = [store EXCEPT !["copilot"] = Fresh]
      /\ moved' = (moved \/ Supported(config', store') # Supported(config, store))
      /\ UNCHANGED <<config, built, effort, picker, task, news, lists, heard, origin>>
  BY DEF LoginFromEnv, NoteEfforts
<1>2. StoreInv' /\ StoreMoves
  BY <1>1, NoRecordFacts DEF ChoiceInv, StoreInv, StoreMoves, Stored, Accounts
<1> QED BY <1>1, <1>2, StoreChanged, ConfigUnchanged DEF ChoiceInv

LEMMA Removed ==
    ASSUME ChoiceInv, NEW p \in Accounts, RemoveRecord(p),
           UNCHANGED <<built, effort, task, news, lists, heard, origin>>
    PROVE  /\ StoreInv' /\ ConfigShape' /\ BuiltInv' /\ EffortInv' /\ AskedInv' /\ NewsInv'
           /\ TasksInv' /\ (picker' = picker => PickerInv')
<1>1. /\ store' = [store EXCEPT ![p] = NoRecord]
      /\ moved' = (moved \/ Supported(config', store') # Supported(config, store))
      /\ \/ config' = [config EXCEPT !.copilot = NoList]
         \/ config' = config
  BY DEF RemoveRecord, NoteEfforts
<1>2. StoreInv' /\ StoreMoves
  <2>1. store' \in [Accounts -> Records]
    BY <1>1, NoRecordFacts DEF ChoiceInv, StoreInv
  <2>2. store'["copilot"] = store["copilot"] \/ store'["copilot"] = NoRecord
    BY <1>1 DEF ChoiceInv, StoreInv
  <2> QED BY <2>1, <2>2, NoRecordFacts DEF ChoiceInv, StoreInv, StoreMoves, Stored
<1>3. /\ config'.provider = config.provider /\ config'.default = config.default
      /\ ConfigShape'
  <2>1. CASE config' = config
    BY <2>1, ConfigUnchanged
  <2>2. CASE config' = [config EXCEPT !.copilot = NoList]
    <3>1. /\ config' = [provider |-> config.provider, default |-> config.default,
                        copilot |-> NoList]
          /\ config'.provider = config.provider /\ config'.default = config.default
          /\ config'.copilot = NoList
      BY <2>2 DEF ChoiceInv, ConfigShape
    <3> QED BY <3>1 DEF ChoiceInv, ConfigShape, ConfigInv, Listed
  <2> QED BY <1>1, <2>1, <2>2
<1> QED BY <1>1, <1>2, <1>3, StoreChanged

LEMMA LogoutCommandStep == ChoiceInv /\ LogoutCommand => ChoiceInv'
<1> SUFFICES ASSUME ChoiceInv, LogoutCommand PROVE ChoiceInv'
  OBVIOUS
<1>1. PICK p \in Accounts : RemoveRecord(p)
  BY DEF LogoutCommand
<1>2. UNCHANGED <<built, effort, picker, task, news, lists, heard, origin>>
  BY DEF LogoutCommand
<1> QED BY <1>1, <1>2, Removed DEF ChoiceInv

LEMMA LogoutCurrentStep == ChoiceInv /\ LogoutCurrent => ChoiceInv'
<1> SUFFICES ASSUME ChoiceInv, LogoutCurrent PROVE ChoiceInv'
  OBVIOUS
<1> DEFINE rows == AvailableModelOptions(config', store')
<1>1. UNCHANGED <<built, effort, task, news, lists, heard, origin>>
  BY DEF LogoutCurrent
<1>2. /\ StoreInv' /\ ConfigShape' /\ BuiltInv' /\ EffortInv' /\ AskedInv' /\ NewsInv'
      /\ TasksInv'
  <2>1. CASE Pointed.provider \in Accounts
    BY <1>1, <2>1, Removed DEF LogoutCurrent
  <2>2. CASE Pointed.provider \notin Accounts
    BY <1>1, <2>2, ElsewhereKept DEF LogoutCurrent
  <2> QED BY <2>1, <2>2
<1>3. picker' = [open |-> picker.open, rows |-> rows, cursor |-> Clamped(rows), lost |-> TRUE]
  BY DEF LogoutCurrent, ChoiceInv, PickerInv
<1>4. IsSeq(rows) /\ \E r \in ToSet(rows) : IsModel(r)
  BY <1>2, OptionsFacts DEF ConfigShape, StoreInv, Records, Accounts
<1>5. Len(rows) \in Nat /\ DOMAIN rows = 1..Len(rows) /\ Len(rows) > 0
  <2> HIDE DEF rows
  <2>1. Len(rows) \in Nat /\ DOMAIN rows = 1..Len(rows)
    BY <1>4, AppendFacts
  <2>2. DOMAIN rows # {}
    BY <1>4 DEF ToSet
  <2> QED BY <2>1, <2>2
<1>6. picker.cursor \in Nat \ {0}
  <2>1. IsSeq(picker.rows) /\ picker.cursor \in DOMAIN picker.rows
    BY DEF LogoutCurrent, ChoiceInv, PickerInv, RowsInv
  <2> QED BY <2>1, AppendFacts
<1>7. Clamped(rows) \in DOMAIN rows
  <2> HIDE DEF rows
  <2> QED BY <1>5, <1>6 DEF Clamped
<1>8. PickerInv'
  <2>1. ConfigInv(config')
    BY <1>2 DEF ConfigShape
  <2> QED BY <1>2, <1>3, <1>7, <2>1, RowsAnew
<1> QED BY <1>2, <1>8 DEF ChoiceInv

\* A step of one task, whatever it does to the store.
LEMMA TaskMoves ==
    ASSUME StoreInv, TasksInv, StoreMoves,
           NEW t \in Tasks, NEW new \in LoginTasks, task' = [task EXCEPT ![t] = new],
           new.pc \in {"authorising", "asking", "saving"} => new.number = 0,
           new.pc \in {"saving", "telling"} => new.models # NoList,
           new.pc = "telling" => InStepThen(new.models, new.number)
    PROVE  TasksInv'
<1>1. task' \in [Tasks -> LoginTasks] /\ task'[t] = new
      /\ \A u \in Tasks : u # t => task'[u] = task[u]
  BY DEF TasksInv
<1>2. \A u \in Tasks : task[u].number \in Nat
  BY DEF TasksInv, LoginTasks
<1>3. \A u \in Tasks : task[u].pc = "telling" => InStepThen(task[u].models, task[u].number)
  BY <1>2, InStepKept DEF TasksInv
<1>4. ASSUME NEW u \in Tasks
      PROVE  /\ task'[u].pc \in {"authorising", "asking", "saving"} => task'[u].number = 0
             /\ task'[u].pc \in {"saving", "telling"} => task'[u].models # NoList
             /\ task'[u].pc = "telling" => InStepThen(task'[u].models, task'[u].number)
  <2>1. CASE u = t
    BY <1>1, <2>1
  <2>2. CASE u # t
    <3>1. task'[u] = task[u]
      BY <1>1, <2>2
    <3> QED BY <3>1, <1>3 DEF TasksInv
  <2> QED BY <2>1, <2>2
<1> QED BY <1>1, <1>4 DEF TasksInv, InStep, InStepThen

\* The news of a task is a list in step with the store, or none.
LEMMA NewsMoves ==
    ASSUME StoreInv, NewsInv, StoreMoves,
           NEW new \in [models : Listed, number : Nat], news' = Append(news, new),
           new.models # NoList => InStepThen(new.models, new.number)
    PROVE  NewsInv'
<1> DEFINE News == [models : Listed, number : Nat]
<1>1. news \in Seq(News) /\ new \in News
  BY DEF NewsInv
<1>2. news' \in Seq(News) /\ DOMAIN news' = 1..(Len(news) + 1) /\ Len(news) \in Nat
      /\ DOMAIN news = 1..Len(news)
      /\ (\A i \in 1..Len(news) : news'[i] = news[i]) /\ news'[Len(news) + 1] = new
  <2> HIDE DEF News
  <2> QED BY <1>1, AppendProperties, SeqIsSeq
<1>3. \A i \in DOMAIN news : news[i].number \in Nat
  <2>1. \A i \in DOMAIN news : news[i] \in News
    <3> HIDE DEF News
    <3> QED BY <1>1, <1>2, ElementOfSeq
  <2> QED BY <2>1
<1>4. \A i \in DOMAIN news :
         news[i].models # NoList => InStepThen(news[i].models, news[i].number)
  BY <1>3, InStepKept DEF NewsInv
<1>5. ASSUME NEW i \in DOMAIN news', news'[i].models # NoList
      PROVE  InStepThen(news'[i].models, news'[i].number)
  <2>1. CASE i = Len(news) + 1
    BY <1>2, <1>5, <2>1
  <2>2. CASE i # Len(news) + 1
    <3>1. i \in DOMAIN news /\ news'[i] = news[i]
      BY <1>2, <2>2
    <3> QED BY <1>4, <1>5, <3>1
  <2> QED BY <2>1, <2>2
<1> QED BY <1>2, <1>5 DEF NewsInv, InStep, InStepThen

LEMMA TaskIs ==
    ASSUME TasksInv, NEW t \in Tasks
    PROVE  /\ task[t] \in LoginTasks
           /\ task[t] = [pc |-> task[t].pc, kind |-> task[t].kind, models |-> task[t].models,
                         number |-> task[t].number]
           /\ task[t].kind \in {"none", "refresh"} \union Accounts
           /\ task[t].models \in Listed /\ task[t].number \in Nat
BY DEF TasksInv, LoginTasks

LEMMA LoggedInStep == \A t \in Tasks : ChoiceInv /\ LoggedIn(t) => ChoiceInv'
<1> SUFFICES ASSUME NEW t \in Tasks, ChoiceInv, LoggedIn(t) PROVE ChoiceInv'
  OBVIOUS
<1>1. UNCHANGED <<config, built, effort, picker, news, lists, heard, origin>>
  BY DEF LoggedIn
<1>2. CASE Step(t, "authorising", IdleTask) /\ UNCHANGED <<store, moved>>
  <2>1. StoreMoves
    BY <1>1, <1>2, StillStored, SMTT(30) DEF ChoiceInv
  <2>2. TasksInv'
    BY <1>2, <2>1, IdleFacts, TaskMoves DEF Step, ChoiceInv
  <2> QED BY <1>1, <1>2, <2>2, ElsewhereKept DEF ChoiceInv
<1>3. CASE /\ Step(t, "authorising",
                   IF task[t].kind = "copilot" THEN [task[t] EXCEPT !.pc = "asking"] ELSE IdleTask)
           /\ store' = [store EXCEPT ![task[t].kind] = Fresh]
           /\ NoteEfforts(config, store')
  <2>1. StoreInv' /\ StoreMoves
    <3>1. store' \in [Accounts -> Records]
      BY <1>3, NoRecordFacts DEF ChoiceInv, StoreInv
    <3>2. store'["copilot"] = store["copilot"] \/ store'["copilot"] = Fresh
      BY <1>3 DEF ChoiceInv, StoreInv
    <3> QED BY <1>1, <3>1, <3>2, NoRecordFacts DEF ChoiceInv, StoreInv, StoreMoves, Stored
  <2>2. TasksInv'
    <3> DEFINE new == IF task[t].kind = "copilot" THEN [task[t] EXCEPT !.pc = "asking"]
                                                ELSE IdleTask
    <3>1. task' = [task EXCEPT ![t] = new] /\ task[t].pc = "authorising"
      BY <1>3 DEF Step
    <3>2. CASE task[t].kind # "copilot"
      BY <3>1, <3>2, <2>1, IdleFacts, TaskMoves DEF ChoiceInv
    <3>3. CASE task[t].kind = "copilot"
      <4>1. new \in LoginTasks /\ new.pc = "asking" /\ new.number = task[t].number
        BY <3>3, TaskIs DEF ChoiceInv, LoginTasks
      <4>2. task[t].number = 0
        BY <3>1 DEF ChoiceInv, TasksInv
      <4> HIDE DEF new
      <4> QED BY <3>1, <4>1, <4>2, <2>1, TaskMoves DEF ChoiceInv
    <3> QED BY <3>2, <3>3
  <2>3. moved' = (moved \/ Supported(config', store') # Supported(config, store))
    BY <1>1, <1>3 DEF NoteEfforts
  <2> QED BY <1>1, <2>1, <2>2, <2>3, StoreChanged, ConfigUnchanged DEF ChoiceInv
<1> QED BY <1>2, <1>3 DEF LoggedIn

LEMMA FetchModelsStep == \A t \in Tasks : ChoiceInv /\ FetchModels(t) => ChoiceInv'
<1> SUFFICES ASSUME NEW t \in Tasks, ChoiceInv, FetchModels(t) PROVE ChoiceInv'
  OBVIOUS
<1>1. /\ UNCHANGED <<config, built, effort, picker, news, lists, heard, origin>>
      /\ moved' = (moved \/ Supported(config', store') # Supported(config, store))
  BY DEF FetchModels, NoteEfforts
<1>2. PICK l \in CopilotLists :
          /\ Step(t, "asking", [task[t] EXCEPT !.pc = "saving", !.models = l])
          /\ store' = IF store["copilot"].there
                      THEN [store EXCEPT !["copilot"].endpoints = ToSet(l)] ELSE store
  BY DEF FetchModels
<1>3. StoreInv' /\ StoreMoves
  <2>1. CASE store' = store
    BY <1>1, <2>1, StillStored DEF ChoiceInv
  <2>2. CASE store' = [store EXCEPT !["copilot"].endpoints = ToSet(l)]
    <3>1. ToSet(l) \in SUBSET Told
      BY DEF Told
    <3>2. /\ store' \in [Accounts -> Records]
          /\ store'["copilot"] = [store["copilot"] EXCEPT !.endpoints = ToSet(l)]
      BY <2>2, <3>1 DEF ChoiceInv, StoreInv, Records, Accounts
    <3>3. /\ Stored'.models = Stored.models /\ Stored'.number = Stored.number
          /\ Stored'.there = Stored.there
      BY <3>2 DEF Stored, ChoiceInv, StoreInv, Records, Accounts
    <3> QED BY <1>1, <3>2, <3>3 DEF ChoiceInv, StoreInv, StoreMoves
  <2> QED BY <1>2, <2>1, <2>2
<1>4. TasksInv'
  <2> DEFINE new == [task[t] EXCEPT !.pc = "saving", !.models = l]
  <2>1. new \in LoginTasks /\ new.pc = "saving" /\ new.models = l /\ new.number = task[t].number
    BY TaskIs DEF ChoiceInv, LoginTasks, Listed
  <2>2. task' = [task EXCEPT ![t] = new] /\ task[t].pc = "asking"
    BY <1>2 DEF Step
  <2>3. task[t].number = 0 /\ l # NoList
    BY <2>2, ChoiceAssumption DEF ChoiceInv, TasksInv, NoList
  <2> HIDE DEF new
  <2> QED BY <1>3, <2>1, <2>2, <2>3, TaskMoves DEF ChoiceInv
<1> QED BY <1>1, <1>3, <1>4, StoreChanged, ConfigUnchanged DEF ChoiceInv

LEMMA FetchFailsStep == \A t \in Tasks : ChoiceInv /\ FetchFails(t) => ChoiceInv'
<1> SUFFICES ASSUME NEW t \in Tasks, ChoiceInv, FetchFails(t) PROVE ChoiceInv'
  OBVIOUS
<1>1. /\ UNCHANGED <<config, built, effort, store, picker, lists, heard, origin, moved>>
      /\ task' = [task EXCEPT ![t] = IdleTask]
  BY DEF FetchFails, Step
<1>2. StoreMoves
  BY <1>1, StillStored, SMTT(30) DEF ChoiceInv
<1>3. TasksInv'
  BY <1>1, <1>2, IdleFacts, TaskMoves DEF ChoiceInv
<1>4. NewsInv'
  <2>1. CASE news' = news
    BY <1>2, <2>1, NewsKept DEF ChoiceInv
  <2>2. CASE news' = Append(news, [models |-> NoList, number |-> 0])
    <3> DEFINE new == [models |-> NoList, number |-> 0]
    <3>1. new \in [models : Listed, number : Nat] /\ new.models = NoList
      BY DEF Listed
    <3> HIDE DEF new
    <3> QED BY <1>2, <2>2, <3>1, NewsMoves DEF ChoiceInv, new
  <2> QED BY <2>1, <2>2 DEF FetchFails
<1> QED BY <1>1, <1>3, <1>4, ElsewhereKept DEF ChoiceInv

LEMMA TellStep == \A t \in Tasks : ChoiceInv /\ Tell(t) => ChoiceInv'
<1> SUFFICES ASSUME NEW t \in Tasks, ChoiceInv, Tell(t) PROVE ChoiceInv'
  OBVIOUS
<1> DEFINE new == [models |-> task[t].models, number |-> task[t].number]
<1>1. /\ UNCHANGED <<config, built, effort, store, picker, lists, heard, origin, moved>>
      /\ task' = [task EXCEPT ![t] = IdleTask] /\ task[t].pc = "telling"
      /\ news' = Append(news, new)
  BY DEF Tell, Step
<1>2. StoreMoves /\ Stored' = Stored
  BY <1>1, StillStored, SMTT(30) DEF ChoiceInv
<1>3. TasksInv'
  BY <1>1, <1>2, IdleFacts, TaskMoves DEF ChoiceInv
<1>4. NewsInv'
  <2>1. /\ new \in [models : Listed, number : Nat]
        /\ new.models = task[t].models /\ new.number = task[t].number
    BY TaskIs DEF ChoiceInv
  <2>2. InStepThen(task[t].models, task[t].number)
    <3>1. InStep(task[t].models, task[t].number) /\ task[t].number \in Nat
      BY <1>1, TaskIs DEF ChoiceInv, TasksInv
    <3> QED BY <3>1, <1>2, InStepKept DEF ChoiceInv
  <2> HIDE DEF new
  <2> QED BY <1>1, <1>2, <2>1, <2>2, NewsMoves DEF ChoiceInv
<1> QED BY <1>1, <1>3, <1>4, ElsewhereKept DEF ChoiceInv

LEMMA SaveModelsStep == \A t \in Tasks : ChoiceInv /\ SaveModels(t) => ChoiceInv'
<1> SUFFICES ASSUME NEW t \in Tasks, ChoiceInv, SaveModels(t) PROVE ChoiceInv'
  OBVIOUS
<1>1. /\ UNCHANGED <<config, built, effort, picker, news, heard, origin, moved>>
      /\ task[t].pc = "saving"
  BY DEF SaveModels, Step
<1>2. task[t].number = 0 /\ task[t].models # NoList /\ task[t].models \in Listed
  BY <1>1, TaskIs DEF ChoiceInv, TasksInv
<1>3. CASE store["copilot"].there
  <2> DEFINE new == [task[t] EXCEPT !.pc = "telling", !.number = lists + 1]
  <2>1. /\ task' = [task EXCEPT ![t] = new]
        /\ store' = [store EXCEPT !["copilot"].models = task[t].models,
                                  !["copilot"].number = lists + 1]
        /\ lists' = lists + 1
    BY <1>3 DEF SaveModels, Step
  <2>2. /\ store' \in [Accounts -> Records]
        /\ Stored'.models = task[t].models /\ Stored'.number = lists + 1
        /\ Stored'.there = Stored.there /\ Stored'.endpoints = Stored.endpoints
    <3> DEFINE rec == [store["copilot"] EXCEPT !.models = task[t].models, !.number = lists + 1]
    <3>1. store["copilot"] \in Records /\ lists + 1 \in Nat
      BY DEF ChoiceInv, StoreInv, Accounts
    <3>2. /\ rec \in Records
          /\ rec.models = task[t].models /\ rec.number = lists + 1
          /\ rec.there = store["copilot"].there /\ rec.endpoints = store["copilot"].endpoints
      BY <3>1, <1>2 DEF Records
    <3>3. store' = [store EXCEPT !["copilot"] = rec]
      BY <2>1 DEF ChoiceInv, StoreInv, Accounts
    <3> HIDE DEF rec
    <3> QED BY <3>2, <3>3 DEF ChoiceInv, StoreInv, Accounts, Stored
  <2>3. StoreInv' /\ StoreMoves
    BY <1>1, <1>3, <2>1, <2>2 DEF ChoiceInv, StoreInv, StoreMoves, Stored
  <2>4. TasksInv'
    <3>0. lists + 1 \in Nat
      BY DEF ChoiceInv, StoreInv
    <3>1. new \in LoginTasks /\ new.pc = "telling" /\ new.models = task[t].models
          /\ new.number = lists + 1
      BY <3>0, TaskIs DEF ChoiceInv, LoginTasks
    <3>2. InStepThen(task[t].models, lists + 1)
      BY <2>1, <2>2 DEF InStepThen, ChoiceInv, StoreInv
    <3> HIDE DEF new
    <3> QED BY <1>2, <2>1, <2>3, <3>1, <3>2, TaskMoves DEF ChoiceInv
  <2>5. EffortInv'
    <3>1. Supported(config', store') = Supported(config, store)
      BY <1>1, <2>2 DEF Supported, Stored
    <3> QED BY <1>1, <3>1 DEF EffortInv, ChoiceInv
  <2>6. BuiltInv'
    BY <1>1 DEF ChoiceInv, BuiltInv, ActiveModel
  <2> QED BY <1>1, <2>3, <2>4, <2>5, <2>6, ConfigUnchanged, AskedKept, NewsKept, PickerKept
          DEF ChoiceInv
<1>4. CASE ~store["copilot"].there
  <2>1. UNCHANGED <<store, lists>>
    BY <1>4 DEF SaveModels
  <2>2. StoreMoves /\ Stored' = Stored /\ Stored.models = NoList
    BY <1>1, <1>4, <2>1, StillStored DEF ChoiceInv, StoreInv, Stored
  <2> DEFINE new == [task[t] EXCEPT !.pc = "telling"]
  <2>3. task' = [task EXCEPT ![t] = new] \/ task' = [task EXCEPT ![t] = IdleTask]
    BY <1>4 DEF SaveModels, Step
  <2>4. CASE task' = [task EXCEPT ![t] = new]
    <3>1. new \in LoginTasks /\ new.pc = "telling" /\ new.models = task[t].models
          /\ new.number = task[t].number
      BY TaskIs DEF ChoiceInv, LoginTasks
    <3>2. InStepThen(task[t].models, 0)
      BY <2>1, <2>2 DEF InStepThen, ChoiceInv, StoreInv
    <3>3. TasksInv'
      <4> HIDE DEF new
      <4> QED BY <1>2, <2>2, <2>4, <3>1, <3>2, TaskMoves DEF ChoiceInv
    <3> QED BY <1>1, <2>1, <3>3, ElsewhereKept DEF ChoiceInv
  <2>5. CASE task' = [task EXCEPT ![t] = IdleTask]
    <3>1. TasksInv'
      BY <2>2, <2>5, IdleFacts, TaskMoves DEF ChoiceInv
    <3> QED BY <1>1, <2>1, <3>1, ElsewhereKept DEF ChoiceInv
  <2> QED BY <2>3, <2>4, <2>5
<1> QED BY <1>3, <1>4

LEMMA SaveInTurnStep == ChoiceInv /\ SaveInTurn => ChoiceInv'
<1> SUFFICES ASSUME ChoiceInv, SaveInTurn PROVE ChoiceInv'
  OBVIOUS
<1>1. /\ UNCHANGED <<config, built, effort, picker, task, news, heard, origin>>
      /\ lists' = lists + 1
      /\ moved' = (moved \/ Supported(config', store') # Supported(config, store))
  BY DEF SaveInTurn, NoteEfforts
<1>2. PICK l \in CopilotLists : store' = [store EXCEPT !["copilot"] = Listing(l, lists + 1)]
  BY DEF SaveInTurn
<1>3. StoreInv' /\ StoreMoves
  <2>1. lists + 1 \in Nat
    BY DEF ChoiceInv, StoreInv
  <2>2. store' \in [Accounts -> Records] /\ Stored' = Listing(l, lists + 1)
    BY <1>2, <2>1, ListingFacts DEF ChoiceInv, StoreInv, Stored, Accounts
  <2> QED BY <1>1, <2>1, <2>2, ListingFacts DEF ChoiceInv, StoreInv, StoreMoves
<1> QED BY <1>1, <1>3, StoreChanged, ConfigUnchanged DEF ChoiceInv

\* What the news say is the list in the store or an older one; the model that is
\* chosen is of that list, and so are the rows of a picker.
LEMMA HearModelsStep == ChoiceInv /\ HearModels => ChoiceInv'
<1> SUFFICES ASSUME ChoiceInv, HearModels PROVE ChoiceInv'
  OBVIOUS
<1> DEFINE models == Head(news).models
           active == ChosenAnew(models)
           rows   == AvailableModelOptions(config', store')
           News   == [models : Listed, number : Nat]
<1>1. /\ news # <<>> /\ news' = Tail(news)
      /\ UNCHANGED <<effort, store, task, lists>>
  BY DEF HearModels
<1>2. /\ Head(news) \in News
      /\ news' \in Seq(News)
      /\ \A i \in DOMAIN news' : i + 1 \in DOMAIN news /\ news'[i] = news[i + 1]
      /\ 1 \in DOMAIN news /\ Head(news) = news[1]
  <2>1. news \in Seq(News)
    BY DEF ChoiceInv, NewsInv
  <2> HIDE DEF News
  <2>2. Len(news) \in Nat /\ Len(news) > 0 /\ DOMAIN news = 1..Len(news)
    BY <1>1, <2>1, SeqIsSeq, EmptySeq
  <2>3. /\ Tail(news) \in Seq(News) /\ Len(Tail(news)) = Len(news) - 1
        /\ \A i \in 1..Len(Tail(news)) : Tail(news)[i] = news[i + 1]
        /\ Head(news) = news[1] /\ Head(news) \in News
    BY <1>1, <2>1, <2>2, HeadTailProperties
  <2>4. DOMAIN Tail(news) = 1..Len(Tail(news))
    BY <2>3, SeqIsSeq
  <2> QED BY <1>1, <2>2, <2>3, <2>4
<1>3. /\ models \in Listed /\ Head(news).number \in Nat
      /\ models # NoList => InStep(models, Head(news).number)
  BY <1>2 DEF ChoiceInv, NewsInv
<1>4. StoreMoves /\ Stored' = Stored
  BY <1>1 DEF StoreMoves, Stored
<1>5. TasksInv'
  BY <1>1, <1>4, TasksKept DEF ChoiceInv
<1>6. NewsInv'
  <2>1. \A m, n : InStep(m, n) => InStepThen(m, n)
    BY <1>1, <1>4 DEF InStep, InStepThen
  <2>2. \A i \in DOMAIN news' :
           news'[i].models # NoList => InStepThen(news'[i].models, news'[i].number)
    BY <1>2, <2>1 DEF ChoiceInv, NewsInv
  <2> QED BY <1>2, <2>2 DEF NewsInv, InStep, InStepThen
<1>7. CASE models = NoList
  <2>1. UNCHANGED <<config, built, picker, heard, origin, moved>>
    BY <1>7 DEF HearModels
  <2> QED BY <1>1, <1>5, <1>6, <2>1, ElsewhereKept DEF ChoiceInv
<1>8. CASE models # NoList
  <2>1. /\ \/ /\ config.provider = "copilot"
              /\ config' = [config EXCEPT !.default["copilot"] = active, !.copilot = models]
              /\ built' = [provider |-> "copilot", model |-> active]
           \/ /\ config.provider # "copilot"
              /\ config' = [config EXCEPT !.copilot = models]
              /\ UNCHANGED built
        /\ moved' = (moved \/ Supported(config', store') # Supported(config, store))
        /\ heard' = Head(news).number
        /\ picker' = IF PickerIs("model")
                     THEN [picker EXCEPT !.rows = rows, !.cursor = Reseated(rows), !.lost = FALSE]
                     ELSE picker
    BY <1>1, <1>8 DEF HearModels, NoteEfforts
  <2>2. models \in CopilotLists /\ active \in ToSet(models) /\ active # "header"
    BY <1>3, <1>8, ListedFacts DEF ChosenAnew
  <2>3. StoreInv'
    BY <1>1, <1>3, <1>4, <1>8, <2>1 DEF ChoiceInv, StoreInv, InStep, Stored
  <2> HIDE DEF active, models, rows
  <2>4. /\ config' = [provider |-> config.provider, default |-> config'.default,
                      copilot |-> models]
        /\ config'.provider = config.provider /\ config'.copilot = models
        /\ \/ config.provider # "copilot" /\ config'.default = config.default
           \/ config.provider = "copilot"
              /\ config'.default = [config.default EXCEPT !["copilot"] = active]
    BY <2>1 DEF ChoiceInv, ConfigShape
  <2>5. "copilot" \in Names /\ \A p \in Names : p \in DOMAIN config.default
    BY NamesAre DEF ChoiceInv, ConfigShape, ConfigInv
  <2>6. ConfigShape'
    <3>1. \A p \in Names : p \in DOMAIN config'.default /\ config'.default[p] # "header"
      BY <2>2, <2>4, <2>5 DEF ChoiceInv, ConfigShape, ConfigInv
    <3>2. config.provider \in Names /\ models \in Listed
      BY <1>3 DEF ChoiceInv, ConfigShape, ConfigInv, models
    <3> QED BY <2>4, <3>1, <3>2 DEF ConfigShape, ConfigInv
  <2>7. config.provider = "copilot" => ActiveModel' = active
    BY <2>4, <2>5 DEF ActiveModel
  <2>8. BuiltInv'
    <3>1. CASE config.provider = "copilot"
      BY <2>1, <2>4, <2>7, <3>1 DEF BuiltInv
    <3>2. CASE config.provider # "copilot"
      BY <2>1, <2>4, <3>2 DEF BuiltInv, ActiveModel, ChoiceInv
    <3> QED BY <3>1, <3>2
  <2>9. EffortInv'
    BY <1>1, <2>1, EffortKept DEF ChoiceInv
  <2>10. InSight' => Stored'.models = models
    BY <1>3, <1>4, <1>8, <2>1 DEF InSight, InStep, models
  <2>11. AskedInv'
    BY <2>2, <2>4, <2>7, <2>10 DEF AskedInv
  <2>12. PickerInv'
    <3>1. CASE ~PickerIs("model")
      BY <2>1, <3>1 DEF PickerIs, ChoiceInv, PickerInv
    <3>2. CASE PickerIs("model")
      <4>1. picker' = [open |-> picker.open, rows |-> rows, cursor |-> Reseated(rows),
                       lost |-> FALSE]
        BY <2>1, <3>2 DEF ChoiceInv, PickerInv
      <4>2. IsSeq(rows) /\ \E r \in ToSet(rows) : IsModel(r)
        BY <2>3, <2>6, OptionsFacts DEF ConfigShape, StoreInv, Records, Accounts, rows
      <4>3. Reseated(rows) \in DOMAIN rows /\ IsModel(rows[Reseated(rows)])
        BY <4>2, FirstRowFacts DEF Reseated
      <4>4. ConfigInv(config')
        BY <2>6 DEF ConfigShape
      <4> QED BY <2>3, <4>1, <4>3, <4>4, RowsAnew DEF rows
    <3> QED BY <3>1, <3>2
  <2> QED BY <1>5, <1>6, <2>3, <2>6, <2>8, <2>9, <2>11, <2>12 DEF ChoiceInv
<1> QED BY <1>7, <1>8

-----------------------------------------------------------------------------
(* The line and what is attached to it.                                    *)

LineShape ==
    /\ IsSeq(line)
    /\ attached = [of \in Kinds |-> attached[of]]
    /\ \A of \in Kinds : IsSeq(attached[of])
    /\ \A i \in DOMAIN line : line[i].kind \in {"tag", "copy"} => line[i].of \in Kinds

Carries(of, n) == \E j \in Tags(of) : line[j].nr = n

\* The tags of a kind are in the order of their numbers, which are the last ones of
\* the list without a gap, and all of them while nothing has gone astray.
TagsInOrder ==
    strayed # "taken" =>
        \A of \in Kinds :
            /\ \A i \in Tags(of) : /\ line[i].nr \in 1..Len(attached[of])
                                  /\ attached[of][line[i].nr] = line[i].thing
            /\ \A i, j \in Tags(of) : i < j => line[i].nr < line[j].nr
            /\ \A i \in Tags(of) : \A n \in line[i].nr..Len(attached[of]) : Carries(of, n)
            /\ strayed = "no" => \A n \in 1..Len(attached[of]) : Carries(of, n)

LineInv == LineShape /\ TagsInOrder

LEMMA LineStart == LineInit => LineInv
<1> SUFFICES ASSUME LineInit PROVE LineInv
  OBVIOUS
<1>1. line = <<>> /\ DOMAIN line = {}
  BY EmptyIsSeq DEF LineInit
<1>2. attached = [of \in Kinds |-> attached[of]] /\ \A of \in Kinds : attached[of] = <<>>
  BY DEF LineInit, NoneAttached, Kinds
<1>3. LineShape
  BY <1>1, <1>2, EmptyIsSeq DEF LineShape
<1>4. TagsInOrder
  BY <1>1, <1>2, EmptyIsSeq DEF TagsInOrder, Tags
<1> QED BY <1>3, <1>4 DEF LineInv

\* To rewrite the end of a line where no tag is, without a tag, changes nothing.
LEMMA Rewritten ==
    ASSUME LineInv, UNCHANGED <<attached, strayed>>, IsSeq(line'),
           NEW n \in Nat, n <= Len(line), n <= Len(line'),
           \A i \in 1..n : line'[i] = line[i],
           \A i \in DOMAIN line : i > n => line[i].kind # "tag",
           \A i \in DOMAIN line' :
              i > n => /\ line'[i].kind # "tag"
                       /\ line'[i].kind = "copy" => line'[i].of \in Kinds
    PROVE  LineInv'
<1>1. /\ Len(line) \in Nat /\ DOMAIN line = 1..Len(line)
      /\ Len(line') \in Nat /\ DOMAIN line' = 1..Len(line')
  BY AppendFacts DEF LineInv, LineShape
<1>2. \A of \in Kinds : Tags(of)' = Tags(of) /\ Tags(of) \subseteq 1..n
  BY <1>1 DEF Tags
<1>3. LineShape'
  <2>1. ASSUME NEW i \in DOMAIN line', line'[i].kind \in {"tag", "copy"} PROVE line'[i].of \in Kinds
    <3>1. CASE i > n
      BY <2>1, <3>1
    <3>2. CASE i <= n
      <4>1. i \in DOMAIN line /\ line'[i] = line[i]
        BY <1>1, <3>2
      <4> QED BY <2>1, <4>1 DEF LineInv, LineShape
    <3> QED BY <1>1, <3>1, <3>2
  <2> QED BY <2>1 DEF LineInv, LineShape
<1>4. \A of \in Kinds : \A i \in Tags(of) : line'[i] = line[i]
  BY <1>2
<1>5. \A of \in Kinds : \A m : Carries(of, m)' <=> Carries(of, m)
  BY <1>2, <1>4 DEF Carries
<1>6. TagsInOrder'
  BY <1>2, <1>4, <1>5, SMTT(20) DEF LineInv, TagsInOrder
<1> QED BY <1>3, <1>6 DEF LineInv

LEMMA LineAppended ==
    ASSUME LineInv, UNCHANGED <<attached, strayed>>, NEW item, line' = Append(line, item),
           item.kind # "tag", item.kind = "copy" => item.of \in Kinds
    PROVE  LineInv'
<1>1. /\ IsSeq(line') /\ Len(line') = Len(line) + 1 /\ Len(line) \in Nat
      /\ DOMAIN line = 1..Len(line) /\ DOMAIN line' = 1..(Len(line) + 1)
      /\ (\A i \in 1..Len(line) : line'[i] = line[i]) /\ line'[Len(line) + 1] = item
  BY AppendFacts DEF LineInv, LineShape
<1> DEFINE n == Len(line)
<1>2. \A i \in DOMAIN line' : i > n => i = n + 1
  BY <1>1
<1> QED BY <1>1, <1>2, Rewritten

\* The beginning of a sequence, and the same with something after it.
LEMMA PrefixFacts ==
    ASSUME NEW s, IsSeq(s), NEW n \in Nat, n <= Len(s)
    PROVE  /\ IsSeq(SubSeq(s, 1, n)) /\ Len(SubSeq(s, 1, n)) = n
           /\ DOMAIN SubSeq(s, 1, n) = 1..n
           /\ \A i \in 1..n : SubSeq(s, 1, n)[i] = s[i]
<1>1. Len(s) \in Nat
  BY AppendFacts
<1>2. 1 \in 1..(Len(s) + 1) /\ 1 <= n + 1 /\ n - 1 + 1 = n
  BY <1>1
<1>3. /\ IsSeq(SubSeq(s, 1, n)) /\ Len(SubSeq(s, 1, n)) = n - 1 + 1
      /\ DOMAIN SubSeq(s, 1, n) = 1..(n - 1 + 1)
      /\ \A i \in 1..(n - 1 + 1) : SubSeq(s, 1, n)[i] = s[1 + i - 1]
  BY <1>2, SubSeqFacts
<1>4. \A i \in 1..n : 1 + i - 1 = i
  OBVIOUS
<1> QED BY <1>2, <1>3, <1>4

LEMMA FrontFacts ==
    ASSUME NEW s, IsSeq(s), s # <<>>
    PROVE  /\ Len(s) \in Nat /\ Len(s) > 0 /\ DOMAIN s = 1..Len(s)
           /\ IsSeq(Front(s)) /\ Len(Front(s)) = Len(s) - 1
           /\ DOMAIN Front(s) = 1..(Len(s) - 1)
           /\ \A i \in 1..(Len(s) - 1) : Front(s)[i] = s[i]
<1>1. Len(s) \in Nat /\ Len(s) > 0 /\ DOMAIN s = 1..Len(s)
  BY AppendFacts, NoLength
<1> DEFINE n == Len(s) - 1
<1>2. n \in Nat /\ n <= Len(s)
  BY <1>1
<1>3. Front(s) = SubSeq(s, 1, n)
  BY DEF Front
<1> HIDE DEF n
<1>4. IsSeq(Front(s)) /\ Len(Front(s)) = n /\ DOMAIN Front(s) = 1..n
      /\ \A i \in 1..n : Front(s)[i] = s[i]
  BY <1>2, <1>3, PrefixFacts
<1> QED BY <1>1, <1>4 DEF n

\* u is s and then t.
Joined(s, t, u) ==
    /\ IsSeq(u) /\ Len(s) \in Nat /\ Len(t) \in Nat
    /\ DOMAIN t = 1..Len(t) /\ DOMAIN u = 1..(Len(s) + Len(t)) /\ Len(u) = Len(s) + Len(t)
    /\ \A i \in 1..Len(s) : u[i] = s[i]
    /\ \A i \in (Len(s) + 1)..(Len(s) + Len(t)) : u[i] = t[i - Len(s)]

LEMMA Joins ==
    ASSUME NEW s, NEW t, IsSeq(s), IsSeq(t)
    PROVE  Joined(s, t, s \o t)
BY ConcatFacts DEF Joined

\* u is the first n of s and then t.
Resumed(s, n, t, u) ==
    /\ IsSeq(u) /\ Len(u) = n + Len(t) /\ DOMAIN u = 1..(n + Len(t))
    /\ Len(t) \in Nat /\ DOMAIN t = 1..Len(t)
    /\ \A i \in 1..n : u[i] = s[i]
    /\ \A i \in DOMAIN u : i > n => i - n \in DOMAIN t /\ u[i] = t[i - n]

LEMMA Resumes ==
    ASSUME NEW s, IsSeq(s), NEW n \in Nat, n <= Len(s), NEW t, IsSeq(t)
    PROVE  Resumed(s, n, t, SubSeq(s, 1, n) \o t)
<1> DEFINE p == SubSeq(s, 1, n)
           u == p \o t
<1>1. IsSeq(p) /\ Len(p) = n /\ \A i \in 1..n : p[i] = s[i]
  BY PrefixFacts
<1> HIDE DEF p
<1>2. Joined(p, t, u)
  BY <1>1, Joins
<1> HIDE DEF u
<1>3. /\ IsSeq(u) /\ Len(u) = n + Len(t) /\ DOMAIN u = 1..(n + Len(t))
      /\ Len(t) \in Nat /\ DOMAIN t = 1..Len(t)
      /\ (\A i \in 1..n : u[i] = s[i])
      /\ \A i \in (n + 1)..(n + Len(t)) : u[i] = t[i - n]
  BY <1>1, <1>2 DEF Joined
<1>4. \A i \in DOMAIN u : i > n => i - n \in DOMAIN t /\ i \in (n + 1)..(n + Len(t))
  BY <1>3
<1>5. Resumed(s, n, t, u)
  BY <1>3, <1>4 DEF Resumed
<1> QED BY <1>5 DEF u, p

\* The last item, that is no tag, gives way to a few others.
LEMMA LineEnded ==
    ASSUME LineInv, UNCHANGED <<attached, strayed>>, line # <<>>, Last(line).kind # "tag",
           NEW end, IsSeq(end), line' = Front(line) \o end,
           \A i \in DOMAIN end : end[i].kind \notin {"tag", "copy"}
    PROVE  LineInv'
<1> DEFINE n == Len(line) - 1
<1>1. Len(line) \in Nat /\ DOMAIN line = 1..Len(line) /\ Len(line) > 0
  BY FrontFacts DEF LineInv, LineShape
<1>2. n \in Nat /\ n <= Len(line) /\ IsSeq(line)
  BY <1>1 DEF LineInv, LineShape
<1>3. line' = SubSeq(line, 1, n) \o end
  BY DEF Front
<1>4. \A i \in DOMAIN line : i > n => line[i].kind # "tag"
  BY <1>1 DEF Last
<1> HIDE DEF n
<1>5. /\ IsSeq(line') /\ Len(line') = n + Len(end) /\ DOMAIN line' = 1..(n + Len(end))
      /\ Len(end) \in Nat
      /\ \A i \in 1..n : line'[i] = line[i]
      /\ \A i \in DOMAIN line' : i > n => i - n \in DOMAIN end /\ line'[i] = end[i - n]
  <2>1. Resumed(line, n, end, line')
    BY <1>2, <1>3, Resumes
  <2> QED BY <2>1 DEF Resumed
<1>6. \A i \in DOMAIN line' : i > n => line'[i].kind \notin {"tag", "copy"}
  BY <1>5
<1>7. n <= Len(line')
  BY <1>2, <1>5
<1> QED BY <1>2, <1>4, <1>5, <1>6, <1>7, Rewritten

LEMMA ItemKinds ==
    /\ Letter.kind = "letter" /\ Space.kind = "space" /\ Slash.kind = "slash"
    /\ Mention.kind = "mention"
    /\ \A of : Copy(of).kind = "copy" /\ Copy(of).of = of
    /\ \A c : Command(c).kind = "command"
    /\ \A f : File(f).kind = "file"
    /\ \A of, nr, thing : /\ Tag(of, nr, thing).kind = "tag" /\ Tag(of, nr, thing).of = of
                          /\ Tag(of, nr, thing).nr = nr /\ Tag(of, nr, thing).thing = thing
BY DEF Letter, Space, Slash, Mention, Item, Copy, Command, File, Tag

LEMMA InsertStep == LineInv /\ Insert => LineInv'
<1> SUFFICES ASSUME LineInv, Insert PROVE LineInv'
  OBVIOUS
<1>1. UNCHANGED <<attached, strayed>>
  BY DEF Insert
<1>2. ASSUME NEW item \in {Letter, Space, Mention, Slash}, line' = Append(line, item)
      PROVE  LineInv'
  <2>1. item.kind \notin {"tag", "copy"}
    BY ItemKinds
  <2> QED BY <1>1, <1>2, <2>1, LineAppended
<1>3. ASSUME Ends({"slash"}), NEW c \in Commands, line' = Append(Front(line), Command(c))
      PROVE  LineInv'
  <2>1. line # <<>> /\ Last(line).kind # "tag"
    BY <1>3 DEF Ends
  <2>2. IsSeq(Front(line))
    BY <2>1, FrontFacts DEF LineInv, LineShape
  <2>3. line' = Front(line) \o <<Command(c)>>
    BY <1>3, <2>2, AppendIsConcat
  <2>4. IsSeq(<<Command(c)>>) /\ \A i \in DOMAIN <<Command(c)>> :
           <<Command(c)>>[i].kind \notin {"tag", "copy"}
    <3>1. DOMAIN <<Command(c)>> = 1..1 /\ <<Command(c)>>[1] = Command(c)
      BY OneIsSeq
    <3> QED BY <3>1, OneIsSeq, ItemKinds
  <2> HIDE DEF Command
  <2> QED BY <1>1, <2>1, <2>3, <2>4, LineEnded
<1> QED BY <1>2, <1>3 DEF Insert

LEMMA PasteShortStep == LineInv /\ PasteShort => LineInv'
<1> SUFFICES ASSUME LineInv, PasteShort PROVE LineInv'
  OBVIOUS
<1>1. PICK item \in {Letter, Copy("text"), Copy("image"), Slash} : line' = Append(line, item)
  BY DEF PasteShort
<1>2. item.kind # "tag" /\ (item.kind = "copy" => item.of \in Kinds)
  BY ItemKinds DEF Kinds
<1> QED BY <1>1, <1>2, LineAppended DEF PasteShort

LEMMA CompleteSlashCommandStep == LineInv /\ CompleteSlashCommand => LineInv'
<1> SUFFICES ASSUME LineInv, CompleteSlashCommand PROVE LineInv'
  OBVIOUS
<1>1. PICK c \in SlashCommandMatches : line' = <<Command(c)>>
  BY DEF CompleteSlashCommand
<1>2. \A i \in DOMAIN line : line[i].kind # "tag"
  <2>1. CASE line = <<Slash>>
    BY <2>1, OneIsSeq, ItemKinds
  <2>2. CASE Len(line) = 1 /\ Has("command")
    BY <2>2, AppendFacts DEF Has, LineInv, LineShape
  <2> QED BY <1>1, <2>1, <2>2 DEF SlashCommandMatches
<1>3. /\ IsSeq(line') /\ Len(line') = 1 /\ DOMAIN line' = 1..1
      /\ \A i \in DOMAIN line' : line'[i].kind \notin {"tag", "copy"}
  BY <1>1, OneIsSeq, ItemKinds
<1>4. 0 \in Nat /\ 0 <= Len(line) /\ 0 <= Len(line') /\ \A i \in 1..0 : line'[i] = line[i]
  BY <1>3, AppendFacts DEF LineInv, LineShape
<1>5. UNCHANGED <<attached, strayed>>
  BY DEF CompleteSlashCommand
<1> QED BY <1>2, <1>3, <1>4, <1>5, Rewritten

LEMMA CompleteFileMentionStep == LineInv /\ CompleteFileMention => LineInv'
<1> SUFFICES ASSUME LineInv, CompleteFileMention PROVE LineInv'
  OBVIOUS
<1>1. PICK f \in FileMentionMatches, i \in At :
         line' = SubSeq(line, 1, i - 1) \o <<File(f), Space>>
  BY DEF CompleteFileMention
<1>2. Len(line) \in Nat /\ DOMAIN line = 1..Len(line) /\ i \in 1..Len(line)
  BY AppendFacts DEF At, LineInv, LineShape
<1>3. PICK k \in At : \A j \in (k + 1)..Len(line) : line[j] = Letter
  BY <1>1 DEF FileMentionMatches
<1>4. k = i
  BY <1>2 DEF At
<1>5. \A j \in DOMAIN line : j > i - 1 => line[j].kind # "tag"
  <2>1. line[i].kind # "tag"
    BY DEF At
  <2>2. \A j \in (i + 1)..Len(line) : line[j].kind # "tag"
    BY <1>3, <1>4, ItemKinds
  <2> QED BY <1>2, <2>1, <2>2
<1> DEFINE n == i - 1
           end == <<File(f), Space>>
<1>6. n \in Nat /\ n <= Len(line)
  BY <1>2
<1>7. IsSeq(end) /\ Len(end) = 2 /\ end[1].kind = "file" /\ end[2].kind = "space"
  BY TwoIsSeq, ItemKinds
<1>8. line' = SubSeq(line, 1, n) \o end /\ IsSeq(line)
  BY <1>1 DEF LineInv, LineShape
<1> HIDE DEF end, n
<1>9. /\ IsSeq(line') /\ Len(line') = n + Len(end) /\ DOMAIN end = 1..Len(end)
      /\ \A j \in 1..n : line'[j] = line[j]
      /\ \A j \in DOMAIN line' : j > n => j - n \in DOMAIN end /\ line'[j] = end[j - n]
  <2>1. Resumed(line, n, end, line')
    BY <1>6, <1>7, <1>8, Resumes
  <2> QED BY <2>1 DEF Resumed
<1>10. \A j \in DOMAIN line' : j > n => line'[j].kind \notin {"tag", "copy"}
  <2>1. \A m \in DOMAIN end : m = 1 \/ m = 2
    BY <1>7, <1>9
  <2> QED BY <1>7, <1>9, <2>1
<1>11. n <= Len(line') /\ \A j \in DOMAIN line : j > n => line[j].kind # "tag"
  BY <1>5, <1>6, <1>7, <1>9 DEF n
<1> QED BY <1>6, <1>9, <1>10, <1>11, Rewritten DEF CompleteFileMention

LEMMA ClearStep == LineInv /\ Clear => LineInv'
<1> SUFFICES ASSUME LineInv, Clear PROVE LineInv'
  OBVIOUS
<1>1. line' = <<>> /\ attached' = attached
      /\ strayed' = IF attached # NoneAttached /\ strayed = "no" THEN "left" ELSE strayed
  BY DEF Clear
<1>2. IsSeq(line') /\ DOMAIN line' = {}
  BY <1>1, EmptyIsSeq
<1>3. LineShape'
  BY <1>1, <1>2 DEF LineInv, LineShape
<1>4. \A of \in Kinds : Tags(of)' = {}
  BY <1>2 DEF Tags
<1>5. ASSUME strayed' = "no", NEW of \in Kinds PROVE Len(attached[of]) = 0
  <2>1. attached = NoneAttached
    BY <1>1, <1>5
  <2> QED BY <2>1, EmptyIsSeq DEF NoneAttached, Kinds
<1>6. TagsInOrder'
  BY <1>1, <1>4, <1>5 DEF TagsInOrder
<1> QED BY <1>3, <1>6 DEF LineInv

LEMMA SubmitMessageStep == LineInv /\ SubmitMessage => LineInv'
<1> SUFFICES ASSUME LineInv, SubmitMessage PROVE LineInv'
  OBVIOUS
<1>1. line' = <<>> /\ DOMAIN line' = {} /\ IsSeq(line')
  BY EmptyIsSeq DEF SubmitMessage
<1>2. attached' = [of \in Kinds |-> attached'[of]] /\ \A of \in Kinds : attached'[of] = <<>>
  BY DEF SubmitMessage, NoneAttached, Kinds
<1>3. LineShape'
  BY <1>1, <1>2, EmptyIsSeq DEF LineShape
<1>4. \A of \in Kinds : Tags(of)' = {}
  BY <1>1 DEF Tags
<1>5. \A of \in Kinds : Len(attached'[of]) = 0
  BY <1>2, EmptyIsSeq
<1>6. TagsInOrder'
  BY <1>4, <1>5 DEF TagsInOrder
<1> QED BY <1>3, <1>6 DEF LineInv

\* Carries after the step.
CarriesThen(of, n) == \E j \in Tags(of)' : line'[j].nr = n

\* An attachment gets the number after the last, and the tag with it.
LEMMA AttachStep == ASSUME NEW of \in Kinds, LineInv, Attach(of) PROVE LineInv'
<1> DEFINE m == Len(attached[of])
           n == Len(line)
<1>1. PICK thing \in Things : /\ attached' = [attached EXCEPT ![of] = Append(@, thing)]
                              /\ line' = Append(line, Tag(of, m + 1, thing))
  BY DEF Attach
<1>2. strayed' = strayed
  BY DEF Attach
<1> DEFINE tag == Tag(of, m + 1, thing)
<1>3. tag.kind = "tag" /\ tag.of = of /\ tag.nr = m + 1 /\ tag.thing = thing
  BY ItemKinds
<1>4. IsSeq(line) /\ IsSeq(attached[of])
  BY DEF LineInv, LineShape
<1> HIDE DEF tag
<1>5. /\ IsSeq(line') /\ n \in Nat /\ DOMAIN line = 1..n /\ DOMAIN line' = 1..(n + 1)
      /\ (\A i \in 1..n : line'[i] = line[i]) /\ line'[n + 1] = tag
  BY <1>1, <1>4, AppendFacts DEF tag
<1>6. /\ attached'[of] = Append(attached[of], thing)
      /\ \A k \in Kinds : k # of => attached'[k] = attached[k]
      /\ attached' = [k \in Kinds |-> attached'[k]]
  BY <1>1 DEF LineInv, LineShape
<1>7. /\ IsSeq(attached'[of]) /\ m \in Nat /\ Len(attached'[of]) = m + 1
      /\ (\A i \in 1..m : attached'[of][i] = attached[of][i]) /\ attached'[of][m + 1] = thing
  BY <1>4, <1>6, AppendFacts
<1>8. LineShape'
  <2>1. \A k \in Kinds : IsSeq(attached'[k])
    BY <1>6, <1>7 DEF LineInv, LineShape
  <2>2. ASSUME NEW i \in DOMAIN line', line'[i].kind \in {"tag", "copy"} PROVE line'[i].of \in Kinds
    <3>1. CASE i = n + 1
      BY <1>3, <1>5, <3>1
    <3>2. CASE i \in 1..n
      BY <1>5, <2>2, <3>2 DEF LineInv, LineShape
    <3> QED BY <1>5, <3>1, <3>2
  <2> QED BY <1>5, <1>6, <2>1, <2>2 DEF LineShape
<1> HIDE DEF m, n
<1>9. \A k \in Kinds : k # of => Tags(k)' = Tags(k)
  BY <1>3, <1>5 DEF Tags
<1>10. Tags(of)' = Tags(of) \union {n + 1} /\ Tags(of) \subseteq 1..n
  BY <1>3, <1>5 DEF Tags
<1>11. TagsInOrder'
  <2> SUFFICES ASSUME strayed # "taken" PROVE TagsInOrder'
    BY <1>2 DEF TagsInOrder
  <2>1. /\ \A i \in Tags(of) : /\ line[i].nr \in 1..m
                              /\ attached[of][line[i].nr] = line[i].thing
        /\ \A i, j \in Tags(of) : i < j => line[i].nr < line[j].nr
        /\ \A i \in Tags(of) : \A x \in line[i].nr..m : Carries(of, x)
        /\ strayed = "no" => \A x \in 1..m : Carries(of, x)
    BY DEF LineInv, TagsInOrder, m
  <2>2. \A x : Carries(of, x) => CarriesThen(of, x)
    BY <1>5, <1>10 DEF Carries, CarriesThen
  <2>3. CarriesThen(of, m + 1)
    BY <1>3, <1>5, <1>10 DEF Carries, CarriesThen
  <2>4. \A i \in Tags(of)' : /\ line'[i].nr \in 1..(m + 1)
                             /\ attached'[of][line'[i].nr] = line'[i].thing
    <3>1. ASSUME NEW i \in Tags(of)
          PROVE  line'[i].nr \in 1..(m + 1) /\ attached'[of][line'[i].nr] = line'[i].thing
      <4>1. line'[i] = line[i] /\ line[i].nr \in 1..m
        BY <1>5, <1>10, <2>1
      <4> QED BY <1>7, <2>1, <4>1
    <3>2. line'[n + 1].nr \in 1..(m + 1) /\ attached'[of][line'[n + 1].nr] = line'[n + 1].thing
      BY <1>3, <1>5, <1>7
    <3> QED BY <1>10, <3>1, <3>2
  <2>5. \A i, j \in Tags(of)' : i < j => line'[i].nr < line'[j].nr
    <3>1. ASSUME NEW i \in Tags(of), NEW j \in Tags(of), i < j PROVE line'[i].nr < line'[j].nr
      BY <1>5, <1>10, <2>1, <3>1
    <3>2. ASSUME NEW i \in Tags(of) PROVE line'[i].nr < line'[n + 1].nr
      <4>1. line'[i] = line[i] /\ line[i].nr \in 1..m
        BY <1>5, <1>10, <2>1
      <4> QED BY <1>3, <1>5, <1>7, <4>1
    <3>3. \A i \in Tags(of) : ~(n + 1 < i)
      BY <1>5, <1>10
    <3>4. ~(n + 1 < n + 1)
      BY <1>5
    <3> QED BY <1>10, <3>1, <3>2, <3>3, <3>4
  <2>6. \A i \in Tags(of)' : \A x \in line'[i].nr..(m + 1) : CarriesThen(of, x)
    <3>1. ASSUME NEW i \in Tags(of), NEW x \in line'[i].nr..(m + 1) PROVE CarriesThen(of, x)
      <4>1. line'[i] = line[i] /\ line[i].nr \in 1..m
        BY <1>5, <1>10, <2>1
      <4>2. x = m + 1 \/ x \in line[i].nr..m
        BY <1>7, <4>1
      <4> QED BY <2>1, <2>2, <2>3, <4>2
    <3>2. ASSUME NEW x \in line'[n + 1].nr..(m + 1) PROVE CarriesThen(of, x)
      <4>1. x = m + 1
        BY <1>3, <1>5, <1>7
      <4> QED BY <2>3, <4>1
    <3> QED BY <1>10, <3>1, <3>2
  <2>7. strayed = "no" => \A x \in 1..(m + 1) : CarriesThen(of, x)
    <3>1. \A x \in 1..(m + 1) : x \in 1..m \/ x = m + 1
      BY <1>7
    <3> QED BY <2>1, <2>2, <2>3, <3>1
  <2>8. \A k \in Kinds : k # of =>
            /\ \A i \in Tags(k)' : line'[i] = line[i]
            /\ \A x : CarriesThen(k, x) <=> Carries(k, x)
    BY <1>5, <1>9 DEF Carries, CarriesThen, Tags
  <2>9. ASSUME NEW k \in Kinds, k # of
        PROVE  /\ \A i \in Tags(k)' : /\ line'[i].nr \in 1..Len(attached'[k])
                                      /\ attached'[k][line'[i].nr] = line'[i].thing
               /\ \A i, j \in Tags(k)' : i < j => line'[i].nr < line'[j].nr
               /\ \A i \in Tags(k)' : \A x \in line'[i].nr..Len(attached'[k]) : CarriesThen(k, x)
               /\ strayed = "no" => \A x \in 1..Len(attached'[k]) : CarriesThen(k, x)
    <3>1. /\ \A i \in Tags(k) : /\ line[i].nr \in 1..Len(attached[k])
                                /\ attached[k][line[i].nr] = line[i].thing
          /\ \A i, j \in Tags(k) : i < j => line[i].nr < line[j].nr
          /\ \A i \in Tags(k) : \A x \in line[i].nr..Len(attached[k]) : Carries(k, x)
          /\ strayed = "no" => \A x \in 1..Len(attached[k]) : Carries(k, x)
      BY DEF LineInv, TagsInOrder
    <3>2. attached'[k] = attached[k] /\ Tags(k)' = Tags(k)
      BY <1>6, <1>9, <2>9
    <3> QED BY <2>8, <2>9, <3>1, <3>2
  <2>10. Len(attached'[of]) = m + 1
    BY <1>7
  <2> QED BY <1>2, <2>4, <2>5, <2>6, <2>7, <2>9, <2>10 DEF TagsInOrder, Carries, CarriesThen
<1> QED BY <1>8, <1>11 DEF LineInv

\* What is left of the last item, if it is not removed as a whole.
LEMMA ShortenedFacts ==
    ASSUME NEW item
    PROVE  IsSeq(Shortened(item)) /\ \A i \in DOMAIN Shortened(item) :
                                        Shortened(item)[i].kind \notin {"tag", "copy"}
<1>1. CASE item.kind = "command"
  <2>1. Shortened(item) = <<Slash>>
    BY <1>1 DEF Shortened
  <2> QED BY <2>1, OneIsSeq, ItemKinds
<1>2. CASE item.kind = "file"
  <2>1. Shortened(item) = <<Mention>>
    BY <1>2 DEF Shortened
  <2> QED BY <2>1, OneIsSeq, ItemKinds
<1>3. CASE item.kind \notin {"command", "file"}
  <2>1. Shortened(item) = <<>>
    BY <1>3 DEF Shortened
  <2> QED BY <2>1, EmptyIsSeq
<1> QED BY <1>1, <1>2, <1>3

LEMMA BackspaceStep == LineInv /\ Backspace => LineInv'
<1> SUFFICES ASSUME LineInv, Backspace PROVE LineInv'
  OBVIOUS
<1>1. line # <<>> /\ IsSeq(line)
  BY DEF Backspace, LineInv, LineShape
<1>2. CASE ~Ends({"tag", "copy"})
  <2>1. Last(line).kind # "tag" /\ line' = Front(line) \o Shortened(Last(line))
        /\ UNCHANGED <<attached, strayed>>
    BY <1>1, <1>2 DEF Ends, Backspace
  <2> QED BY <1>1, <2>1, ShortenedFacts, LineEnded
<1>3. CASE Ends({"tag", "copy"})
  <2> DEFINE n == Len(line) - 1
  <2>1. /\ Len(line) \in Nat /\ n \in Nat /\ DOMAIN line = 1..Len(line) /\ Last(line) = line[n + 1]
        /\ n + 1 \in DOMAIN line /\ Len(line) = n + 1
    BY <1>1, FrontFacts DEF Last
  <2>2. PICK of \in Kinds : of = Last(line).of
    BY <1>3, <2>1 DEF Ends, LineInv, LineShape
  <2>3. /\ line' = Front(line) /\ attached' = DropAttached(of)
        /\ strayed' = IF Last(line).kind = "copy" /\ attached' # attached THEN "taken" ELSE strayed
    BY <1>1, <1>3, <2>2 DEF Backspace, Ends
  <2>4. /\ IsSeq(line') /\ Len(line') = n /\ DOMAIN line' = 1..n
        /\ \A i \in 1..n : line'[i] = line[i]
    BY <1>1, <2>3, FrontFacts
  <2> HIDE DEF n
  <2>5. /\ attached'[of] = IF attached[of] = <<>> THEN <<>> ELSE Front(attached[of])
        /\ \A k \in Kinds : k # of => attached'[k] = attached[k]
        /\ attached' = [k \in Kinds |-> attached'[k]]
        /\ IsSeq(attached[of])
    BY <2>3, <2>2 DEF DropAttached, LineInv, LineShape
  <2>6. LineShape'
    <3>1. \A k \in Kinds : IsSeq(attached'[k])
      <4>1. IsSeq(attached'[of])
        BY <2>5, FrontFacts, EmptyIsSeq
      <4> QED BY <2>5, <4>1 DEF LineInv, LineShape
    <3>2. \A i \in DOMAIN line' : line'[i].kind \in {"tag", "copy"} => line'[i].of \in Kinds
      BY <2>1, <2>4 DEF LineInv, LineShape
    <3> QED BY <2>4, <2>5, <3>1, <3>2 DEF LineShape
  <2>7. CASE Last(line).kind = "copy"
    <3>1. CASE attached' # attached
      BY <2>3, <2>6, <2>7, <3>1 DEF TagsInOrder, LineInv
    <3>2. CASE attached' = attached
      <4>1. \A i \in DOMAIN line : i > n => line[i].kind # "tag"
        BY <2>1, <2>7
      <4>2. n <= Len(line) /\ n <= Len(line') /\ \A i \in DOMAIN line' : ~(i > n)
        BY <2>1, <2>4
      <4>3. UNCHANGED <<attached, strayed>>
        BY <2>3, <3>2
      <4> QED BY <2>1, <2>4, <4>1, <4>2, <4>3, Rewritten
    <3> QED BY <3>1, <3>2
  <2>8. CASE Last(line).kind = "tag"
    <3>1. strayed' = strayed
      BY <2>3, <2>8
    <3>2. CASE strayed = "taken"
      BY <2>6, <3>1, <3>2 DEF TagsInOrder, LineInv
    <3>3. CASE strayed # "taken"
      <4> DEFINE m == Len(attached[of])
      <4>1. /\ \A i \in Tags(of) : /\ line[i].nr \in 1..m
                                  /\ attached[of][line[i].nr] = line[i].thing
            /\ \A i, j \in Tags(of) : i < j => line[i].nr < line[j].nr
            /\ \A i \in Tags(of) : \A x \in line[i].nr..m : Carries(of, x)
            /\ strayed = "no" => \A x \in 1..m : Carries(of, x)
        BY <2>2, <3>3 DEF LineInv, TagsInOrder
      <4>2. n + 1 \in Tags(of) /\ Tags(of) \subseteq 1..(n + 1)
        BY <2>1, <2>2, <2>8 DEF Tags
      <4>3. m \in Nat
        BY <2>5, AppendFacts
      <4> HIDE DEF m
      <4>4. line[n + 1].nr = m
        <5>1. line[n + 1].nr \in 1..m
          BY <4>1, <4>2
        <5>2. PICK j \in Tags(of) : line[j].nr = m
          <6>1. m \in line[n + 1].nr..m
            BY <4>3, <5>1
          <6> QED BY <4>1, <4>2, <6>1 DEF Carries
        <5>3. ~(j < n + 1)
          <6>1. j < n + 1 => line[j].nr < line[n + 1].nr
            BY <4>1, <4>2
          <6> QED BY <4>3, <5>1, <5>2, <6>1
        <5>4. j = n + 1
          BY <2>1, <4>2, <5>3
        <5> QED BY <5>2, <5>4
      <4>5. m > 0 /\ attached[of] # <<>>
        <5>1. m \in 1..m
          BY <4>1, <4>2, <4>4
        <5> QED BY <4>3, <5>1, EmptyIsSeq DEF m
      <4>6. Len(attached'[of]) = m - 1 /\ \A i \in 1..(m - 1) : attached'[of][i] = attached[of][i]
        BY <2>5, <4>5, FrontFacts DEF m
      <4>7. \A i \in Tags(of)' : i \in Tags(of) /\ i \in 1..n /\ line'[i] = line[i]
        BY <2>1, <2>4 DEF Tags
      <4>8. \A i \in Tags(of) : i \in Tags(of)' \/ i = n + 1
        BY <2>1, <2>4 DEF Tags
      <4>9. \A k \in Kinds : k # of =>
               Tags(k)' = Tags(k) /\ \A i \in Tags(k) : line'[i] = line[i]
        BY <2>1, <2>4, <2>2 DEF Tags
      <4>10. \A x : Carries(of, x) => x = m \/ CarriesThen(of, x)
        BY <4>4, <4>7, <4>8 DEF Carries, CarriesThen
      <4>11. \A i \in Tags(of)' : /\ line'[i].nr \in 1..(m - 1)
                                 /\ attached'[of][line'[i].nr] = line'[i].thing
        <5> TAKE i \in Tags(of)'
        <5>1. i \in Tags(of) /\ line'[i] = line[i] /\ i < n + 1
          BY <2>1, <4>7
        <5>2. line[i].nr \in 1..m /\ line[i].nr < m /\ attached[of][line[i].nr] = line[i].thing
          BY <4>1, <4>2, <4>4, <5>1
        <5>3. line[i].nr \in 1..(m - 1)
          BY <4>3, <5>2
        <5> QED BY <4>6, <5>1, <5>2, <5>3
      <4>12. \A i, j \in Tags(of)' : i < j => line'[i].nr < line'[j].nr
        BY <4>1, <4>7
      <4>13. \A i \in Tags(of)' : \A x \in line'[i].nr..(m - 1) : CarriesThen(of, x)
        <5> TAKE i \in Tags(of)'
        <5>1. \A x \in line'[i].nr..(m - 1) : x \in line'[i].nr..m /\ x # m
          BY <4>3, <4>11
        <5>2. \A x \in line'[i].nr..m : Carries(of, x)
          BY <4>1, <4>7
        <5> QED BY <4>10, <5>1, <5>2
      <4>14. strayed = "no" => \A x \in 1..(m - 1) : CarriesThen(of, x)
        <5>1. \A x \in 1..(m - 1) : x \in 1..m /\ x # m
          BY <4>3
        <5> QED BY <4>1, <4>10, <5>1
      <4>15. ASSUME NEW k \in Kinds, k # of
             PROVE  /\ \A i \in Tags(k)' : /\ line'[i].nr \in 1..Len(attached'[k])
                                           /\ attached'[k][line'[i].nr] = line'[i].thing
                    /\ \A i, j \in Tags(k)' : i < j => line'[i].nr < line'[j].nr
                    /\ \A i \in Tags(k)' : \A x \in line'[i].nr..Len(attached'[k]) :
                          CarriesThen(k, x)
                    /\ strayed = "no" => \A x \in 1..Len(attached'[k]) : CarriesThen(k, x)
        <5>1. /\ \A i \in Tags(k) : /\ line[i].nr \in 1..Len(attached[k])
                                    /\ attached[k][line[i].nr] = line[i].thing
              /\ \A i, j \in Tags(k) : i < j => line[i].nr < line[j].nr
              /\ \A i \in Tags(k) : \A x \in line[i].nr..Len(attached[k]) : Carries(k, x)
              /\ strayed = "no" => \A x \in 1..Len(attached[k]) : Carries(k, x)
          BY <3>3 DEF LineInv, TagsInOrder
        <5>2. attached'[k] = attached[k] /\ Tags(k)' = Tags(k)
          BY <2>5, <4>9, <4>15
        <5>3. \A x : Carries(k, x) => CarriesThen(k, x)
          BY <4>9, <4>15 DEF Carries, CarriesThen
        <5> QED BY <4>9, <4>15, <5>1, <5>2, <5>3
      <4>16. TagsInOrder'
        BY <3>1, <3>3, <4>6, <4>11, <4>12, <4>13, <4>14, <4>15 DEF TagsInOrder, Carries, CarriesThen
      <4> QED BY <2>6, <4>16 DEF LineInv
    <3> QED BY <3>2, <3>3
  <2> QED BY <1>1, <1>3, <2>7, <2>8 DEF Ends
<1> QED BY <1>2, <1>3

LEMMA LineStutters == LineInv /\ UNCHANGED lineVars => LineInv'
BY DEF LineInv, LineShape, TagsInOrder, Tags, Carries, lineVars

LEMMA PasteStep == LineInv /\ Paste => LineInv'
BY PasteShortStep, AttachStep DEF Paste

-----------------------------------------------------------------------------
(* Both under the keys and the events.                                     *)

ComposerInv == LineInv /\ ChoiceInv

LEMMA BareCommandStep == \A c : ChoiceInv /\ BareCommand(c) => ChoiceInv'
BY OpenModelPickerStep, OpenLoginPickerStep, ChoiceStutters DEF BareCommand

LEMMA CommandWithArgumentStep == \A c : ChoiceInv /\ CommandWithArgument(c) => ChoiceInv'
BY SwitchTypedStep, RefreshCommandStep, LoginCommandStep, LoginFromEnvStep, LogoutCommandStep,
   ChoiceStutters DEF CommandWithArgument

LEMMA TaskSteps == \A t \in Tasks : ChoiceInv /\ TaskStep(t) => ChoiceInv'
BY LoggedInStep, FetchModelsStep, FetchFailsStep, SaveModelsStep, TellStep DEF TaskStep

LEMMA ComposerStart == ComposerInit => ComposerInv
BY LineStart, ChoiceStart DEF ComposerInit, ComposerInv

LEMMA ComposerStep == ComposerInv /\ [ComposerNext]_vars => ComposerInv'
<1> SUFFICES ASSUME LineInv, ChoiceInv, [ComposerNext]_vars PROVE LineInv' /\ ChoiceInv'
  BY DEF ComposerInv
<1>1. CASE UNCHANGED vars
  BY <1>1, LineStutters, ChoiceStutters DEF vars
<1>2. CASE EditInput
  BY <1>2, InsertStep, BackspaceStep, ChoiceStutters DEF EditInput
<1>3. CASE PasteEvent
  BY <1>3, PasteStep, ChoiceStutters DEF PasteEvent
<1>4. CASE CompleteKey
  BY <1>4, CompleteSlashCommandStep, CompleteFileMentionStep, ChoiceStutters DEF CompleteKey
<1>5. CASE EscapeKey
  BY <1>5, ClearStep, ClosePickerStep, LineStutters, ChoiceStutters DEF EscapeKey
<1>6. CASE EnterMessage
  BY <1>6, SubmitMessageStep, ChoiceStutters DEF EnterMessage
<1>7. CASE EnterCommand
  <2>1. LineInv'
    BY <1>7, ClearStep DEF EnterCommand, RunCommand
  <2>2. ChoiceInv'
    BY <1>7, BareCommandStep, CommandWithArgumentStep DEF EnterCommand
  <2> QED BY <2>1, <2>2
<1>8. CASE PickerKey
  BY <1>8, MoveCursorStep, MoveLoginCursorStep, SelectModelStep, SelectLoginStep,
     LogoutCurrentStep, LineStutters DEF PickerKey
<1>9. CASE EffortKey
  BY <1>9, CycleEffortStep, LineStutters DEF EffortKey
<1>10. CASE TurnEnds
  BY <1>10, LineStutters, ChoiceStutters DEF TurnEnds
<1>11. CASE ModelsEvent
  BY <1>11, HearModelsStep, LineStutters DEF ModelsEvent
<1>12. CASE Task
  BY <1>12, TaskSteps, SaveInTurnStep, LineStutters DEF Task
<1> QED BY <1>1, <1>2, <1>3, <1>4, <1>5, <1>6, <1>7, <1>8, <1>9, <1>10, <1>11, <1>12
        DEF ComposerNext

\* While nothing has gone astray each number has one tag and each tag one number.
LEMMA TagsAreCounted ==
    ASSUME LineInv, strayed = "no", NEW of \in Kinds
    PROVE  Cardinality(Tags(of)) = Len(attached[of])
<1> DEFINE m == Len(attached[of])
           f == [i \in Tags(of) |-> line[i].nr]
<1>1. m \in Nat
  BY AppendFacts DEF LineInv, LineShape
<1>2. /\ \A i \in Tags(of) : line[i].nr \in 1..m
      /\ \A i, j \in Tags(of) : i < j => line[i].nr < line[j].nr
      /\ \A x \in 1..m : \E j \in Tags(of) : line[j].nr = x
  BY DEF LineInv, TagsInOrder, Carries
<1>3. Len(line) \in Nat /\ Tags(of) \subseteq 1..Len(line)
  BY AppendFacts DEF Tags, LineInv, LineShape
<1> HIDE DEF m
<1>4. ASSUME NEW i \in Tags(of), NEW j \in Tags(of), line[i].nr = line[j].nr PROVE i = j
  <2>1. ~(i < j) /\ ~(j < i)
    <3>1. line[i].nr \in Nat /\ line[j].nr \in Nat
      BY <1>1, <1>2
    <3> QED BY <1>2, <1>4, <3>1
  <2> QED BY <1>3, <2>1
<1>5. f \in Bijection(Tags(of), 1..m)
  <2>1. f \in [Tags(of) -> 1..m]
    BY <1>2
  <2>2. \A i, j \in Tags(of) : f[i] = f[j] => i = j
    BY <1>4
  <2>3. \A x \in 1..m : \E i \in Tags(of) : f[i] = x
    BY <1>2
  <2> QED BY <2>1, <2>2, <2>3 DEF Bijection, Injection, Surjection, IsInjective
<1>6. IsFiniteSet(1..m) /\ Cardinality(1..m) = m
  <2>1. Cardinality(1..m) = IF 1 > m THEN 0 ELSE m - 1 + 1
    BY <1>1, FS_Interval
  <2> QED BY <1>1, <2>1, FS_Interval
<1>7. IsFiniteSet(Tags(of))
  <2>1. IsFiniteSet(1..Len(line))
    BY <1>3, FS_Interval
  <2> QED BY <1>3, <2>1, FS_Subset
<1>8. ExistsBijection(Tags(of), 1..m)
  BY <1>5 DEF ExistsBijection
<1>9. Cardinality(Tags(of)) = m
  BY <1>6, <1>7, <1>8, FS_Bijection
<1> QED BY <1>9 DEF m

\* The number of a tag in the input line leads to what was pasted with it, whatever
\* was deleted, cleared or completed in between, until the deletion of a copied tag
\* takes an attachment away; and until Esc or a command leaves some behind, the line
\* shows as many as will be sent (edit_input, paste_text, submit in app.rs).
THEOREM AttachmentsAsTaggedHolds == ComposerSpec => []AttachmentsAsTagged
<1>1. LineInv => AttachmentsAsTagged
  <2> SUFFICES ASSUME LineInv, NEW of \in Kinds
               PROVE  /\ strayed # "taken" =>
                            \A i \in Tags(of) : /\ line[i].nr \in DOMAIN attached[of]
                                                /\ attached[of][line[i].nr] = line[i].thing
                      /\ strayed = "no" => Cardinality(Tags(of)) = Len(attached[of])
    BY DEF AttachmentsAsTagged
  <2>1. DOMAIN attached[of] = 1..Len(attached[of])
    BY AppendFacts DEF LineInv, LineShape
  <2>2. strayed # "taken" =>
           \A i \in Tags(of) : /\ line[i].nr \in 1..Len(attached[of])
                               /\ attached[of][line[i].nr] = line[i].thing
    BY DEF LineInv, TagsInOrder
  <2> QED BY <2>1, <2>2, TagsAreCounted
<1> QED BY <1>1, ComposerStart, ComposerStep, PTL DEF ComposerSpec, ComposerInv

\* What is shown is what is asked: the provider that was built is the one on display;
\* if the App was told of the list in the store last, Copilot's provider does not
\* choose another model by it than the one picked or heard of; and the effort goes
\* through unless what is supported changed without the user (app.rs, copilot.rs).
THEOREM AskedIsShownHolds == ComposerSpec => []AskedIsShown
<1>1. ChoiceInv => AskedIsShown
  <2> SUFFICES ASSUME ChoiceInv PROVE AskedIsShown
    OBVIOUS
  <2>1. built.provider = config.provider /\ built.model = ActiveModel
    BY DEF ChoiceInv, BuiltInv
  <2>2. ~moved => Normalised(config, store) = effort
    BY DEF ChoiceInv, EffortInv, Normalised
  <2>3. ASSUME heard = Stored.number, origin \in {"picked", "heard"}
        PROVE  AskedModel = ActiveModel
    <3>1. Stored.models # NoList /\ built.provider = "copilot"
             => built.model \in ToSet(Stored.models)
      BY <2>1, <2>3 DEF ChoiceInv, AskedInv, InSight
    <3> QED BY <2>1, <3>1 DEF AskedModel, Stored
  <2> QED BY <2>1, <2>2, <2>3 DEF AskedIsShown, Stored
<1> QED BY <1>1, ComposerStart, ComposerStep, PTL DEF ComposerSpec, ComposerInv

\* While the model picker is open the cursor is on a row of it, and on a model unless
\* a logout has moved the rows, though lists that arrive replace the rows under it
\* (apply_event and move_model_picker in app.rs).
THEOREM PointsAtModelHolds == ComposerSpec => []PointsAtModel
<1>1. ChoiceInv => PointsAtModel
  BY DEF ChoiceInv, PickerInv, RowsInv, PointsAtModel
<1> QED BY <1>1, ComposerStart, ComposerStep, PTL DEF ComposerSpec, ComposerInv
=============================================================================
