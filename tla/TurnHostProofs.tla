--------------------------- MODULE TurnHostProofs ---------------------------
(***************************************************************************)
(* Proofs about TurnHost, for any number of turns, steps, calls and nudges *)
(* and any capacity of the channel.                                        *)
(***************************************************************************)
EXTENDS TurnHost, TLAPS

-----------------------------------------------------------------------------
(* Type correctness and the bounds of the counters *)

TypeInv == TypeOK /\ Positions

\* Sending an event of the vocabulary keeps the channel well-formed.
LEMMA SendKeepsType ==
    ASSUME NEW e \in AppEvents, events \in Seq(AppEvents), Send(e)
    PROVE  events' \in Seq(AppEvents) /\ Len(events') <= ChanCap
BY ChannelAssumption DEF Send

\* The events a turn sends about itself belong to the vocabulary.
LEMMA TurnEvents ==
    ASSUME NEW t \in Turns
    PROVE  /\ Event("text", t) \in AppEvents
           /\ Event("done", t) \in AppEvents
           /\ Event("error", t) \in AppEvents
           /\ Event("status", t) \in AppEvents
BY DEF Event, AppEvents

LEMMA InitType == Init => TypeInv
BY ChannelAssumption, LoopAssumption
   DEF Init, LoopInit, TypeInv, TypeOK, LoopTypeOK, ChannelTypeOK, Positions,
       Locals, Fits, Dispatch, Live, Over

\* The assignments of the loop keep its locals in their ranges.
LEMMA SetLocal ==
    ASSUME NEW m \in Locals
    PROVE  /\ \A v \in 0..(MaxSteps + 1) : [m EXCEPT !.steps = v] \in Locals
           /\ \A v \in 0..MaxNudges : [m EXCEPT !.nudges = v] \in Locals
           /\ \A v \in {"silent", "plain", "promise"} : [m EXCEPT !.said = v] \in Locals
           /\ \A v \in Seq(ModelCalls) : [m EXCEPT !.calls = v] \in Locals
           /\ \A v \in BOOLEAN : [m EXCEPT !.endTurn = v] \in Locals
           /\ \A v \in 1..(MaxCalls + 1) : [m EXCEPT !.next = v] \in Locals
           /\ \A v \in Nat : [m EXCEPT !.unread = v] \in Locals
<1>1. ASSUME NEW v \in 0..(MaxSteps + 1) PROVE [m EXCEPT !.steps = v] \in Locals
  BY DEF Locals
<1>2. ASSUME NEW v \in 0..MaxNudges PROVE [m EXCEPT !.nudges = v] \in Locals
  BY DEF Locals
<1>3. ASSUME NEW v \in {"silent", "plain", "promise"} PROVE [m EXCEPT !.said = v] \in Locals
  BY DEF Locals
<1>4. ASSUME NEW v \in Seq(ModelCalls) PROVE [m EXCEPT !.calls = v] \in Locals
  BY DEF Locals
<1>5. ASSUME NEW v \in BOOLEAN PROVE [m EXCEPT !.endTurn = v] \in Locals
  BY DEF Locals
<1>6. ASSUME NEW v \in 1..(MaxCalls + 1) PROVE [m EXCEPT !.next = v] \in Locals
  BY DEF Locals
<1>7. ASSUME NEW v \in Nat PROVE [m EXCEPT !.unread = v] \in Locals
  BY DEF Locals
<1> QED BY <1>1, <1>2, <1>3, <1>4, <1>5, <1>6, <1>7

LEMMA StepLocals ==
    ASSUME NEW m \in Locals, m.steps <= MaxSteps
    PROVE  LET n == [m EXCEPT !.steps = @ + 1]
           IN  n \in Locals /\ n.steps = m.steps + 1 /\ n.calls = m.calls
<1>1. m.steps + 1 \in 0..(MaxSteps + 1)
  BY ChannelAssumption DEF Locals
<1>2. [m EXCEPT !.steps = @ + 1] \in Locals
  BY <1>1, SetLocal
<1>3. [m EXCEPT !.steps = @ + 1].steps = m.steps + 1
  BY DEF Locals
<1>4. [m EXCEPT !.steps = @ + 1].calls = m.calls
  BY DEF Locals
<1> QED BY <1>2, <1>3, <1>4

LEMMA StepsTyped == \A m \in Locals : m.steps \in Nat
BY DEF Locals

LEMMA RequestLocals ==
    ASSUME NEW m \in Locals
    PROVE  LET n == [m EXCEPT !.said = "silent", !.calls = <<>>, !.endTurn = FALSE, !.unread = 0]
           IN  n \in Locals /\ n.steps = m.steps /\ Len(n.calls) = 0
<1> DEFINE m1 == [m  EXCEPT !.said = "silent"]
           m2 == [m1 EXCEPT !.calls = <<>>]
           m3 == [m2 EXCEPT !.endTurn = FALSE]
           m4 == [m3 EXCEPT !.unread = 0]
<1>0. <<>> \in Seq(ModelCalls)
  OBVIOUS
<1>1. m1 \in Locals BY SetLocal
<1> HIDE DEF m1
<1>2. m2 \in Locals BY <1>0, <1>1, SetLocal
<1> HIDE DEF m2
<1>3. m3 \in Locals BY <1>2, SetLocal
<1> HIDE DEF m3
<1>4. m4 \in Locals BY <1>3, SetLocal
<1>5. /\ m1.steps = m.steps /\ m2.steps = m1.steps /\ m2.calls = <<>>
      /\ m3.steps = m2.steps /\ m3.calls = m2.calls /\ m4.steps = m3.steps /\ m4.calls = m3.calls
  <2>1. m1.steps = m.steps
    BY DEF m1, Locals
  <2>2. m2.steps = m1.steps /\ m2.calls = <<>>
    BY <1>1 DEF m2, Locals
  <2>3. m3.steps = m2.steps /\ m3.calls = m2.calls
    BY <1>2 DEF m3, Locals
  <2>4. m4.steps = m3.steps /\ m4.calls = m3.calls
    BY <1>3 DEF Locals
  <2> QED BY <2>1, <2>2, <2>3, <2>4
<1>6. m4.steps = m.steps /\ Len(m4.calls) = 0
  <2> HIDE DEF m4
  <2> QED BY <1>5
<1> QED BY <1>4, <1>6 DEF m1, m2, m3

LEMMA OpenLocals ==
    ASSUME NEW m \in Locals, m.steps <= MaxSteps
    PROVE  LET n == [m EXCEPT !.steps = @ + 1, !.said = "silent", !.calls = <<>>,
                              !.endTurn = FALSE, !.unread = 0]
           IN  n \in Locals /\ n.steps = m.steps + 1 /\ Len(n.calls) = 0
<1> DEFINE n == [m EXCEPT !.steps = @ + 1]
           l == [n EXCEPT !.said = "silent", !.calls = <<>>, !.endTurn = FALSE, !.unread = 0]
<1>1. n \in Locals /\ n.steps = m.steps + 1
  BY StepLocals
<1> HIDE DEF n
<1>2. l \in Locals /\ l.steps = n.steps /\ Len(l.calls) = 0
  BY <1>1, RequestLocals
<1> HIDE DEF l
<1>3. l \in Locals /\ l.steps = m.steps + 1 /\ Len(l.calls) = 0
  BY <1>1, <1>2
<1> QED BY <1>3 DEF l, n

LEMMA DispatchLocals ==
    ASSUME NEW m \in Locals, NEW endTurn \in BOOLEAN
    PROVE  [m EXCEPT !.nudges = 0, !.next = 1, !.endTurn = endTurn] \in Locals
<1> DEFINE m1 == [m  EXCEPT !.nudges = 0]
           m2 == [m1 EXCEPT !.next = 1]
           m3 == [m2 EXCEPT !.endTurn = endTurn]
<1>0. 0 \in 0..MaxNudges /\ 1 \in 1..(MaxCalls + 1)
  BY LoopAssumption, ChannelAssumption
<1>1. m1 \in Locals BY <1>0, SetLocal
<1> HIDE DEF m1
<1>2. m2 \in Locals BY <1>0, <1>1, SetLocal
<1> HIDE DEF m2
<1>3. m3 \in Locals BY <1>2, SetLocal
<1> QED BY <1>3 DEF m1, m2

LEMMA ReportLocals ==
    ASSUME NEW m \in Locals, m.next <= MaxCalls
    PROVE  [m EXCEPT !.next = @ + 1, !.unread = @ + 1] \in Locals
<1> DEFINE m1 == [m EXCEPT !.next = @ + 1]
           m2 == [m1 EXCEPT !.unread = @ + 1]
<1>1. m.next + 1 \in 1..(MaxCalls + 1) /\ m.unread + 1 \in Nat
  BY ChannelAssumption DEF Locals
<1>2. m1 \in Locals BY <1>1, SetLocal
<1>3. m1.unread = m.unread
  BY DEF Locals
<1> HIDE DEF m1
<1>4. m2 \in Locals
  BY <1>1, <1>2, <1>3, SetLocal
<1> QED BY <1>4 DEF m1

\* What the invariant says of one turn.
LEMMA TurnFacts ==
    ASSUME TypeInv, NEW t \in Turns
    PROVE  loc[t] \in Locals /\ Fits(pc[t], loc[t])
BY DEF TypeInv, TypeOK, LoopTypeOK, Positions

LEMMA CallNames == ASSUME NEW c \in Calls PROVE c.name \in Tools
<1>1. CASE c \in [name : Tools \ {Lsp}, action : {"unknown"}]
  BY <1>1
<1>2. CASE c \in [name : {Lsp}, action : LspActions]
  BY <1>2 DEF Tools
<1> QED BY <1>1, <1>2 DEF Calls

\* A turn that puts a call to the user asks about a call it has.
LEMMA CurrentPromptType ==
    ASSUME TypeInv, NEW t \in Turns, pc[t] \in Dispatch
    PROVE  CurrentCall(t) \in ModelCalls /\ CurrentPrompt(t) \in Prompts
<1>1. loc[t] \in Locals /\ Fits(pc[t], loc[t])
  BY TurnFacts
<1>2. Len(loc[t].calls) \in Nat /\ Len(loc[t].calls) <= MaxCalls
  BY <1>1 DEF Locals, Fits
<1>3. /\ loc[t].calls \in Seq(ModelCalls)
      /\ loc[t].next \in 1..Len(loc[t].calls)
  BY <1>1, <1>2 DEF Locals, Fits
<1>4. loc[t].steps \in 1..MaxSteps
  <2>1. pc[t] \notin {"limit", "limited"}
    BY DEF Dispatch
  <2>2. loc[t].steps <= MaxSteps /\ loc[t].steps >= 1
    BY <1>1, <2>1 DEF Fits
  <2> QED BY <1>1, <2>2, ChannelAssumption DEF Locals
<1>5. CurrentCall(t) \in ModelCalls
  BY <1>3 DEF CurrentCall
<1>6. CurrentCall(t).name \in Tools
  BY <1>5, LoopAssumption, CallNames
<1>7. loc[t].next \in 1..MaxCalls
  BY <1>2, <1>3, ChannelAssumption
<1> QED BY <1>4, <1>5, <1>6, <1>7 DEF CurrentPrompt, Prompts

Channel == events \in Seq(AppEvents) /\ Len(events) <= ChanCap

\* A step that moves one turn to a position its locals fit.
LEMMA MoveType ==
    ASSUME TypeInv, NEW t \in Turns,
           NEW at \in Live \union Over \union {"idle"}, NEW l \in Locals, Fits(at, l),
           pc' = [pc EXCEPT ![t] = at], loc' = [loc EXCEPT ![t] = l],
           Channel', engine' \in Engines, answers' = answers,
           cancelled' = cancelled, open' = open
    PROVE  TypeInv'
<1>1. pc' \in [Turns -> Live \union Over \union {"idle"}] /\ loc' \in [Turns -> Locals]
  BY DEF TypeInv, TypeOK, LoopTypeOK
<1>2. ASSUME NEW u \in Turns PROVE Fits(pc'[u], loc'[u])
  <2>1. CASE u = t
    BY <2>1 DEF TypeInv, TypeOK, LoopTypeOK
  <2>2. CASE u # t
    BY <2>2 DEF TypeInv, TypeOK, LoopTypeOK, Positions
  <2> QED BY <2>1, <2>2
<1> QED BY <1>1, <1>2
   DEF TypeInv, TypeOK, LoopTypeOK, ChannelTypeOK, Channel, Positions, Fits

\* The same for a step that leaves the locals alone.
LEMMA GotoType ==
    ASSUME TypeInv, NEW t \in Turns,
           NEW at \in Live \union Over \union {"idle"}, Fits(at, loc[t]), Goto(t, at),
           Channel', engine' \in Engines,
           UNCHANGED <<answers, loc, cancelled, open>>
    PROVE  TypeInv'
<1>1. loc' = [loc EXCEPT ![t] = loc[t]]
  BY DEF TypeInv, TypeOK, LoopTypeOK
<1> QED BY <1>1, TurnFacts, MoveType DEF Goto

LEMMA QuietChannel == ASSUME TypeInv, events' = events PROVE Channel'
BY DEF Channel, TypeInv, TypeOK, LoopTypeOK, ChannelTypeOK

LEMMA SentChannel ==
    ASSUME TypeInv, NEW e \in AppEvents, Send(e)
    PROVE  Channel'
BY SendKeepsType DEF Channel, TypeInv, TypeOK, LoopTypeOK, ChannelTypeOK

LEMMA TurnStepType ==
    ASSUME TypeInv, NEW t \in Turns, TurnStep(t)
    PROVE  TypeInv'
<1> USE DEF TurnStep
<1>0. /\ loc[t] \in Locals /\ Fits(pc[t], loc[t]) /\ engine \in Engines
      /\ open' = open
  BY TurnFacts DEF TypeInv, TypeOK, LoopTypeOK
<1>1. CASE Spawn(t)
  <2>1. Fits("top", loc[t])
    BY <1>0, <1>1 DEF Spawn, Fits, Dispatch
  <2>2. Channel'
    BY <1>1, QuietChannel DEF Spawn
  <2> QED BY <1>0, <1>1, <2>1, <2>2, GotoType DEF Spawn, Live, Over
<1>2. CASE StopAtTop(t)
  <2>1. Fits("stopped", loc[t])
    BY <1>0, <1>2 DEF StopAtTop, Fits, Dispatch
  <2>2. Channel'
    BY <1>2, QuietChannel DEF StopAtTop
  <2> QED BY <1>0, <1>2, <2>1, <2>2, GotoType DEF StopAtTop, Live, Over
<1>3. CASE ReachLimit(t)
  <2> DEFINE l == [loc[t] EXCEPT !.steps = @ + 1]
  <2>1. l \in Locals /\ Fits("limit", l)
    <3>1. loc[t].steps <= MaxSteps
      BY <1>0, <1>3 DEF ReachLimit, WithinLimit, Fits
    <3>0. loc[t].steps <= MaxSteps
      BY <1>0, <3>1, ChannelAssumption DEF Locals
    <3>2. l \in Locals /\ l.steps = loc[t].steps + 1 /\ l.calls = loc[t].calls
      BY <1>0, <3>0, StepLocals
    <3> HIDE DEF l
    <3> QED BY <1>0, <3>1, <3>2, StepsTyped DEF Fits, Dispatch
  <2>2. Channel'
    BY <1>3, SentChannel, TurnEvents DEF ReachLimit
  <2>3. loc' = [loc EXCEPT ![t] = l]
    BY <1>3 DEF ReachLimit, NewStep, TypeInv, TypeOK, LoopTypeOK
  <2> HIDE DEF l
  <2> QED BY <1>0, <1>3, <2>1, <2>2, <2>3, MoveType DEF ReachLimit, Goto, Live
<1>4. CASE LimitDone(t)
  <2>1. Fits("limited", loc[t])
    BY <1>0, <1>4 DEF LimitDone, Fits, Dispatch
  <2>2. Channel'
    BY <1>4, SentChannel, TurnEvents DEF LimitDone
  <2> QED BY <1>0, <1>4, <2>1, <2>2, GotoType DEF LimitDone, Live, Over
<1>5. CASE StartCompaction(t)
  <2> DEFINE l == [loc[t] EXCEPT !.steps = @ + 1]
  <2>1. l \in Locals /\ Fits("compacting", l)
    <3>1. loc[t].steps + 1 <= MaxSteps
      BY <1>0, <1>5 DEF StartCompaction, WithinLimit, Fits
    <3>0. loc[t].steps <= MaxSteps
      BY <1>0, <3>1, ChannelAssumption DEF Locals
    <3>2. l \in Locals /\ l.steps = loc[t].steps + 1 /\ l.calls = loc[t].calls
      BY <1>0, <3>0, StepLocals
    <3> HIDE DEF l
    <3> QED BY <1>0, <3>1, <3>2, StepsTyped DEF Fits, Dispatch
  <2>2. Channel'
    BY <1>5, SentChannel, TurnEvents DEF StartCompaction
  <2>3. loc' = [loc EXCEPT ![t] = l]
    BY <1>5 DEF StartCompaction, NewStep, TypeInv, TypeOK, LoopTypeOK
  <2> HIDE DEF l
  <2> QED BY <1>0, <1>5, <2>1, <2>2, <2>3, MoveType DEF StartCompaction, Goto, Live
<1>6. CASE FinishCompaction(t)
  <2> DEFINE l == [loc[t] EXCEPT !.said = "silent", !.calls = <<>>, !.endTurn = FALSE, !.unread = 0]
  <2>1. l \in Locals /\ Fits("streaming", l)
    <3>1. loc[t].steps <= MaxSteps /\ loc[t].steps >= 1
      BY <1>0, <1>6 DEF FinishCompaction, Fits
    <3>2. l \in Locals /\ l.steps = loc[t].steps /\ Len(l.calls) = 0
      BY <1>0, RequestLocals
    <3> HIDE DEF l
    <3> QED BY <3>1, <3>2, ChannelAssumption DEF Fits, Dispatch
  <2>2. Channel'
    BY <1>6, SentChannel, TurnEvents DEF FinishCompaction
  <2>3. loc' = [loc EXCEPT ![t] = l]
    BY <1>6 DEF FinishCompaction, Request, TypeInv, TypeOK, LoopTypeOK
  <2> HIDE DEF l
  <2> QED BY <1>0, <1>6, <2>1, <2>2, <2>3, MoveType DEF FinishCompaction, Goto, Live
<1>7. CASE OpenStream(t)
  <2> DEFINE l == [loc[t] EXCEPT !.steps = @ + 1, !.said = "silent", !.calls = <<>>, !.endTurn = FALSE, !.unread = 0]
  <2>1. l \in Locals /\ Fits("streaming", l)
    <3>1. loc[t].steps + 1 <= MaxSteps
      BY <1>0, <1>7 DEF OpenStream, WithinLimit, Fits
    <3>0. loc[t].steps <= MaxSteps
      BY <1>0, <3>1, ChannelAssumption DEF Locals
    <3>2. l \in Locals /\ l.steps = loc[t].steps + 1 /\ Len(l.calls) = 0
      BY <1>0, <3>0, OpenLocals
    <3> HIDE DEF l
    <3> QED BY <1>0, <3>1, <3>2, StepsTyped, ChannelAssumption DEF Fits, Dispatch
  <2>2. Channel'
    BY <1>7, QuietChannel DEF OpenStream
  <2>3. loc' = [loc EXCEPT ![t] = l]
    BY <1>7 DEF OpenStream, NewStep, Request, TypeInv, TypeOK, LoopTypeOK
  <2> HIDE DEF l
  <2> QED BY <1>0, <1>7, <2>1, <2>2, <2>3, MoveType DEF OpenStream, Goto, Live
<1>8. CASE CancelStream(t)
  <2>1. Fits("stopped", loc[t])
    BY <1>0, <1>8 DEF CancelStream, Fits, Dispatch
  <2>2. Channel'
    BY <1>8, SentChannel, TurnEvents DEF CancelStream
  <2> QED BY <1>0, <1>8, <2>1, <2>2, GotoType DEF CancelStream, Live, Over
<1>9. CASE StreamError(t)
  <2>1. Fits("failed", loc[t])
    BY <1>0, <1>9 DEF StreamError, Fits, Dispatch
  <2>2. Channel'
    BY <1>9, SentChannel, TurnEvents DEF StreamError
  <2> QED BY <1>0, <1>9, <2>1, <2>2, GotoType DEF StreamError, Live, Over
<1>10. CASE CancelDispatch(t)
  <2>1. Fits("stopped", loc[t])
    BY <1>0, <1>10 DEF CancelDispatch, Fits, Dispatch
  <2>2. Channel'
    BY <1>10, SentChannel, TurnEvents DEF CancelDispatch
  <2> QED BY <1>0, <1>10, <2>1, <2>2, GotoType DEF CancelDispatch, Live, Over
<1>11. CASE TellRefusal(t)
  <2>1. Fits("reporting", loc[t])
    BY <1>0, <1>11 DEF TellRefusal, Fits, Dispatch
  <2>2. Channel'
    BY <1>11, SentChannel, TurnEvents DEF TellRefusal
  <2> QED BY <1>0, <1>11, <2>1, <2>2, GotoType DEF TellRefusal, Live, Over
<1>12. CASE CancelWait(t)
  <2>1. Fits("reporting", loc[t])
    BY <1>0, <1>12 DEF CancelWait, Fits, Dispatch
  <2>2. Channel'
    BY <1>12, QuietChannel DEF CancelWait
  <2> QED BY <1>0, <1>12, <2>1, <2>2, GotoType DEF CancelWait, Live, Over
<1>13. CASE RunTool(t)
  <2>1. Fits("reporting", loc[t])
    BY <1>0, <1>13 DEF RunTool, Fits, Dispatch
  <2>2. Channel'
    BY <1>13, QuietChannel DEF RunTool
  <2> QED BY <1>0, <1>13, <2>1, <2>2, GotoType DEF RunTool, Live, Over
<1>14. CASE PreviewPanics(t)
  <2>1. Fits("crashed", loc[t])
    BY <1>0, <1>14 DEF PreviewPanics, Fits, Dispatch
  <2>2. Channel'
    BY <1>14, QuietChannel DEF PreviewPanics
  <2> QED BY <1>0, <1>14, <2>1, <2>2, GotoType DEF PreviewPanics, Live, Over
<1>15. CASE CloseTurn(t)
  <2>1. Fits("ended", loc[t])
    BY <1>0, <1>15 DEF CloseTurn, Fits, Dispatch
  <2>2. Channel'
    BY <1>15, SentChannel, TurnEvents DEF CloseTurn
  <2> QED BY <1>0, <1>15, <2>1, <2>2, GotoType DEF CloseTurn, Live, Over
<1>16. CASE Gate(t)
  <2> DEFINE decision == Classify(engine, CurrentCall(t))
             at == IF decision = "allow" THEN "running"
                   ELSE IF decision = "ask" THEN "asking" ELSE "refused"
  <2>1. at \in {"running", "asking", "refused"} /\ Goto(t, at)
    BY <1>16 DEF Gate
  <2>2. at \in Live /\ Fits(at, loc[t])
    BY <1>0, <1>16, <2>1 DEF Gate, Fits, Dispatch, Live
  <2>3. Channel'
    BY <1>16, QuietChannel DEF Gate
  <2> HIDE DEF at
  <2> QED BY <1>0, <1>16, <2>1, <2>2, <2>3, GotoType DEF Gate
<1>17. CASE AskUser(t)
  <2>1. Fits("waiting", loc[t]) /\ CurrentPrompt(t) \in Prompts
    BY <1>0, <1>17, CurrentPromptType DEF AskUser, Fits, Dispatch
  <2>2. ApprovalRequest(CurrentPrompt(t)) \in AppEvents
    BY <2>1 DEF ApprovalRequest, AppEvents
  <2>3. Channel'
    BY <1>17, <2>2, SentChannel DEF AskUser
  <2> QED BY <1>0, <1>17, <2>1, <2>3, GotoType DEF AskUser, Live
<1>18. CASE HearAnswer(t)
  <2>1. PICK a \in answers :
          /\ Goto(t, IF a.reply \in {"once", "session"} THEN "running" ELSE "reporting")
          /\ engine' = IF a.reply = "session"
                       THEN ApproveForSession(engine, CurrentCall(t).name) ELSE engine
    BY <1>18 DEF HearAnswer, Consents, Learn
  <2> DEFINE at == IF a.reply \in {"once", "session"} THEN "running" ELSE "reporting"
  <2>2. CurrentCall(t).name \in Tools
    BY <1>18, CurrentPromptType, CallNames, LoopAssumption DEF HearAnswer, Dispatch
  <2>3. engine' \in Engines
    BY <1>0, <2>1, <2>2 DEF ApproveForSession, Engines
  <2>4. at \in Live /\ Fits(at, loc[t])
    BY <1>0, <1>18 DEF HearAnswer, Fits, Dispatch, Live
  <2>5. Channel'
    BY <1>18, QuietChannel DEF HearAnswer
  <2>6. Goto(t, at)
    BY <2>1
  <2> HIDE DEF at
  <2> QED BY <1>0, <1>18, <2>3, <2>4, <2>5, <2>6, GotoType DEF HearAnswer, Consents, Learn
<1>19. CASE Report(t)
  <2> DEFINE l == [loc[t] EXCEPT !.next = @ + 1, !.unread = @ + 1]
             at == IF loc[t].next < Len(loc[t].calls) THEN "dispatch"
                   ELSE IF loc[t].endTurn THEN "closing" ELSE "top"
  <2>1. l \in Locals /\ Fits(at, l)
    <3>1. /\ loc[t].steps <= MaxSteps /\ loc[t].steps >= 1
          /\ Len(loc[t].calls) <= MaxCalls /\ loc[t].next <= Len(loc[t].calls)
      BY <1>0, <1>19 DEF Report, Fits, Dispatch
    <3>2. Len(loc[t].calls) \in Nat /\ loc[t].next \in Nat
      BY <1>0, ChannelAssumption DEF Locals
    <3>3. l \in Locals
      <4>1. loc[t].next <= MaxCalls
        BY <3>1, <3>2, ChannelAssumption
      <4> QED BY <1>0, <4>1, ReportLocals
    <3>4. CASE loc[t].next < Len(loc[t].calls)
      BY <1>0, <3>1, <3>2, <3>3, <3>4 DEF Fits, Locals
    <3>5. CASE ~(loc[t].next < Len(loc[t].calls))
      BY <1>0, <3>1, <3>3, <3>5 DEF Fits, Dispatch, Locals
    <3> QED BY <3>3, <3>4, <3>5
  <2>2. Channel'
    BY <1>19, SentChannel, TurnEvents DEF Report
  <2>3. loc' = [loc EXCEPT ![t] = l] /\ pc' = [pc EXCEPT ![t] = at] /\ at \in Live
    BY <1>19 DEF Report, Goto, TypeInv, TypeOK, LoopTypeOK, Live
  <2> HIDE DEF l, at
  <2> QED BY <1>0, <1>19, <2>1, <2>2, <2>3, MoveType DEF Report
<1>20. CASE StreamText(t)
  <2>1. PICK said \in Sayings : loc' = [loc EXCEPT ![t].said = said]
    BY <1>20 DEF StreamText
  <2> DEFINE l == [loc[t] EXCEPT !.said = said]
  <2>2. l \in Locals /\ Fits("streaming", l)
    BY <1>0, <1>20, LoopAssumption DEF StreamText, Locals, Fits, Dispatch
  <2>3. Channel'
    BY <1>20, SentChannel, TurnEvents DEF StreamText
  <2>4. loc' = [loc EXCEPT ![t] = l] /\ pc' = [pc EXCEPT ![t] = "streaming"]
    BY <1>20, <2>1 DEF StreamText, TypeInv, TypeOK, LoopTypeOK
  <2> HIDE DEF l
  <2> QED BY <1>0, <1>20, <2>2, <2>3, <2>4, MoveType DEF StreamText, Live
<1>21. CASE CollectCall(t)
  <2>1. PICK call \in ModelCalls : loc' = [loc EXCEPT ![t].calls = Append(@, call)]
    BY <1>21 DEF CollectCall
  <2> DEFINE l == [loc[t] EXCEPT !.calls = Append(@, call)]
  <2>2. Len(loc[t].calls) < MaxCalls /\ loc[t].calls \in Seq(ModelCalls)
    BY <1>0, <1>21 DEF CollectCall, Locals
  <2>3. /\ Append(loc[t].calls, call) \in Seq(ModelCalls)
        /\ Len(Append(loc[t].calls, call)) <= MaxCalls
    BY <2>2, ChannelAssumption
  <2>4. l \in Locals /\ Fits("streaming", l)
    BY <1>0, <1>21, <2>3 DEF CollectCall, Locals, Fits, Dispatch
  <2>5. Channel'
    BY <1>21, QuietChannel DEF CollectCall
  <2>6. loc' = [loc EXCEPT ![t] = l] /\ pc' = [pc EXCEPT ![t] = "streaming"]
    BY <1>21, <2>1 DEF CollectCall, TypeInv, TypeOK, LoopTypeOK
  <2> HIDE DEF l
  <2> QED BY <1>0, <1>21, <2>4, <2>5, <2>6, MoveType DEF CollectCall, Live
<1>22. ASSUME NEW endTurn \in BOOLEAN, pc[t] = "streaming", AfterStream(t, endTurn),
              Channel', UNCHANGED <<answers, engine, cancelled>>
       PROVE  TypeInv'
  <2>1. CASE loc[t].calls # <<>>
    <3> DEFINE l == [loc[t] EXCEPT !.nudges = 0, !.next = 1, !.endTurn = endTurn]
    <3>1. l \in Locals /\ Fits("dispatch", l)
      <4>1. /\ loc[t].steps <= MaxSteps /\ loc[t].steps >= 1
            /\ Len(loc[t].calls) <= MaxCalls
        BY <1>0, <1>22 DEF Fits
      <4>2. l \in Locals
        BY <1>0, <1>22, DispatchLocals
      <4>3. 1 <= Len(loc[t].calls)
        BY <1>0, <2>1 DEF Locals
      <4> QED BY <1>0, <4>1, <4>2, <4>3 DEF Fits, Locals
    <3>2. loc' = [loc EXCEPT ![t] = l] /\ pc' = [pc EXCEPT ![t] = "dispatch"]
      BY <1>22, <2>1 DEF AfterStream, MayNudge, Goto, TypeInv, TypeOK, LoopTypeOK
    <3> HIDE DEF l
    <3> QED BY <1>0, <1>22, <3>1, <3>2, MoveType DEF Live
  <2>2. CASE /\ loc[t].calls = <<>>
             /\ loc[t].said = "promise" /\ loc[t].nudges < MaxNudges
    <3> DEFINE l == [loc[t] EXCEPT !.nudges = @ + 1]
    <3>1. l \in Locals /\ Fits("top", l)
      BY <1>0, <1>22, <2>2, LoopAssumption DEF Locals, Fits, Dispatch
    <3>2. loc' = [loc EXCEPT ![t] = l] /\ pc' = [pc EXCEPT ![t] = "top"]
      BY <1>22, <2>2 DEF AfterStream, MayNudge, Goto, TypeInv, TypeOK, LoopTypeOK
    <3> HIDE DEF l
    <3> QED BY <1>0, <1>22, <3>1, <3>2, MoveType DEF Live
  <2>3. CASE /\ loc[t].calls = <<>>
             /\ ~(loc[t].said = "promise" /\ loc[t].nudges < MaxNudges)
    <3>1. Fits("ended", loc[t])
      BY <1>0, <1>22 DEF Fits, Dispatch
    <3>2. Goto(t, "ended") /\ UNCHANGED loc
      BY <1>22, <2>3 DEF AfterStream, MayNudge
    <3> QED BY <1>0, <1>22, <3>1, <3>2, GotoType DEF Over
  <2> QED BY <2>1, <2>2, <2>3
<1>23. CASE StreamDone(t)
  <2>1. Channel'
    BY <1>23, SentChannel, QuietChannel, TurnEvents DEF StreamDone
  <2>2. PICK endTurn \in BOOLEAN : AfterStream(t, endTurn)
    BY <1>23, LoopAssumption DEF StreamDone
  <2> QED BY <1>22, <1>23, <2>1, <2>2 DEF StreamDone
<1>24. CASE StreamClosed(t)
  <2>1. Channel'
    BY <1>24, QuietChannel DEF StreamClosed
  <2> QED BY <1>22, <1>24, <2>1 DEF StreamClosed
<1> QED
  BY <1>1, <1>2, <1>3, <1>4, <1>5, <1>6, <1>7, <1>8, <1>9, <1>10, <1>11, <1>12, <1>13, <1>14, <1>15, <1>16, <1>17, <1>18, <1>19, <1>20, <1>21, <1>23, <1>24
     DEF Run, Advance, StreamEnds

LEMMA NextType == TypeInv /\ [Next]_vars => TypeInv'
<1> SUFFICES ASSUME TypeInv, [Next]_vars PROVE TypeInv'
  OBVIOUS
<1> USE DEF TypeInv, TypeOK, LoopTypeOK, ChannelTypeOK, Positions, Fits, loopVars
<1>1. CASE HostTakes
  <2>1. /\ Tail(events) \in Seq(AppEvents) /\ Len(Tail(events)) <= ChanCap
        /\ Head(events) \in AppEvents
    BY <1>1, ChannelAssumption DEF HostTakes
  <2>2. Head(events).kind = "approval" => Head(events).prompt \in Prompts
    BY <2>1 DEF AppEvents
  <2>3. \A lost \in SUBSET open : LetGo(lost) \subseteq Answers
    BY DEF LetGo, Answers
  <2>4. open' \subseteq Prompts /\ answers' \subseteq Answers
    BY <1>1, <2>2, <2>3 DEF HostTakes
  <2> QED BY <1>1, <2>1, <2>4 DEF HostTakes
<1>2. CASE HostAnswers
  <2>1. open' \subseteq Prompts /\ answers' \subseteq Answers
    BY <1>2 DEF HostAnswers, Answers
  <2> QED BY <1>2, <2>1 DEF HostAnswers
<1>3. CASE HostInforms
  <2>1. \A kind \in HostNews : Event(kind, NoTurn) \in AppEvents
    BY HostAssumption DEF Event, AppEvents
  <2>2. Channel'
    BY <1>3, <2>1, SentChannel DEF HostInforms
  <2> QED BY <1>3, <2>2 DEF HostInforms, Channel
<1>4. ASSUME NEW t \in Turns, TurnStep(t) PROVE TypeInv'
  BY <1>4, TurnStepType
<1>5. ASSUME NEW t \in Turns, Cancel(t) PROVE TypeInv'
  BY <1>5 DEF Cancel
<1>6. CASE UNCHANGED vars
  BY <1>6 DEF vars
<1> QED BY <1>1, <1>2, <1>3, <1>4, <1>5, <1>6 DEF Next

\* Type correctness: the channel never exceeds its capacity, a turn never
\* leaves its step limit behind, nudges never exceed their cap, and a prompt
\* always names a call its turn has.
THEOREM TypeCorrect == Spec => []TypeOK
<1>1. Spec => []TypeInv
  BY InitType, NextType, PTL DEF Spec
<1> QED BY <1>1, PTL DEF TypeInv

-----------------------------------------------------------------------------
(* The prompts in the channel *)

LEMMA PromptsInAppend ==
    ASSUME NEW s \in Seq(AppEvents), NEW e \in AppEvents
    PROVE  PromptsIn(Append(s, e))
             = PromptsIn(s) \union (IF e.kind = "approval" THEN {e.prompt} ELSE {})
<1> DEFINE r == Append(s, e)
<1>1. /\ DOMAIN r = DOMAIN s \union {Len(s) + 1} /\ r[Len(s) + 1] = e
      /\ \A i \in DOMAIN s : r[i] = s[i]
  OBVIOUS
<1> HIDE DEF r
<1> QED BY <1>1 DEF PromptsIn, r

LEMMA PromptsInTail ==
    ASSUME NEW s \in Seq(AppEvents), s # <<>>
    PROVE  PromptsIn(s)
             = PromptsIn(Tail(s))
                 \union (IF Head(s).kind = "approval" THEN {Head(s).prompt} ELSE {})
<1> DEFINE r == Tail(s)
<1>1. /\ \A i \in DOMAIN r : i + 1 \in DOMAIN s /\ r[i] = s[i + 1]
      /\ \A j \in DOMAIN s : j = 1 \/ (j - 1 \in DOMAIN r /\ r[j - 1] = s[j])
      /\ 1 \in DOMAIN s /\ s[1] = Head(s)
  OBVIOUS
<1> HIDE DEF r
<1>2. PromptsIn(r) \subseteq PromptsIn(s)
  BY <1>1 DEF PromptsIn
<1>3. ASSUME NEW p \in PromptsIn(s)
      PROVE  p \in PromptsIn(r) \/ (Head(s).kind = "approval" /\ p = Head(s).prompt)
  <2>1. PICK j \in DOMAIN s : s[j].kind = "approval" /\ p = s[j].prompt
    BY DEF PromptsIn
  <2> QED BY <1>1, <2>1 DEF PromptsIn
<1>4. Head(s).kind = "approval" => Head(s).prompt \in PromptsIn(s)
  BY <1>1 DEF PromptsIn
<1> QED BY <1>2, <1>3, <1>4 DEF r

LEMMA DistinctAppend ==
    ASSUME NEW s \in Seq(AppEvents), NEW e \in AppEvents, DistinctPrompts(s),
           e.kind = "approval" => e.prompt \notin PromptsIn(s)
    PROVE  DistinctPrompts(Append(s, e))
<1> DEFINE r == Append(s, e)
<1>1. /\ DOMAIN r = DOMAIN s \union {Len(s) + 1} /\ r[Len(s) + 1] = e
      /\ \A i \in DOMAIN s : r[i] = s[i]
  OBVIOUS
<1> HIDE DEF r
<1>2. DistinctPrompts(r)
  BY <1>1 DEF DistinctPrompts, PromptsIn
<1> QED BY <1>2 DEF r

LEMMA DistinctTail ==
    ASSUME NEW s \in Seq(AppEvents), s # <<>>, DistinctPrompts(s)
    PROVE  /\ DistinctPrompts(Tail(s))
           /\ Head(s).kind = "approval" => Head(s).prompt \notin PromptsIn(Tail(s))
<1> DEFINE r == Tail(s)
<1>1. /\ \A i \in DOMAIN r : i \in Nat \ {0} /\ i + 1 \in DOMAIN s /\ r[i] = s[i + 1]
      /\ 1 \in DOMAIN s /\ s[1] = Head(s)
  OBVIOUS
<1> HIDE DEF r
<1>2. DistinctPrompts(r)
  BY <1>1 DEF DistinctPrompts
<1>3. Head(s).kind = "approval" => Head(s).prompt \notin PromptsIn(r)
  BY <1>1 DEF DistinctPrompts, PromptsIn
<1> QED BY <1>2, <1>3 DEF r

\* An event that is no prompt does not touch the prompts of the channel.
LEMMA PlainSend ==
    ASSUME TypeInv, NEW e \in AppEvents, e.kind # "approval", Send(e)
    PROVE  Queued' = Queued /\ (DistinctPrompts(events) => DistinctPrompts(events'))
<1>1. events \in Seq(AppEvents) /\ events' = Append(events, e)
  BY DEF Send, TypeInv, TypeOK, LoopTypeOK, ChannelTypeOK
<1>2. Queued' = PromptsIn(Append(events, e))
  BY <1>1 DEF Queued
<1> QED BY <1>1, <1>2, PromptsInAppend, DistinctAppend DEF Queued

-----------------------------------------------------------------------------
(* What one step of a turn does to prompts *)

\* Only AskUser puts a prompt on the channel.
LEMMA OtherStepsAskNothing ==
    ASSUME TypeInv, NEW t \in Turns, TurnStep(t), ~AskUser(t)
    PROVE  Queued' = Queued /\ (DistinctPrompts(events) => DistinctPrompts(events'))
<1>1. \/ UNCHANGED events
      \/ \E kind \in {"text", "done", "error", "status"} : Send(Event(kind, t))
  BY DEF TurnStep, Run, Advance, StreamEnds, Spawn, StopAtTop, ReachLimit,
         LimitDone, StartCompaction, FinishCompaction, OpenStream, CancelStream,
         StreamText, CollectCall, StreamDone, StreamError, StreamClosed, CancelDispatch,
         Gate, TellRefusal, HearAnswer, CancelWait, RunTool, PreviewPanics, Report,
         CloseTurn
<1>2. CASE UNCHANGED events
  BY <1>2 DEF Queued
<1>3. ASSUME NEW kind \in {"text", "done", "error", "status"}, Send(Event(kind, t))
      PROVE  Queued' = Queued /\ (DistinctPrompts(events) => DistinctPrompts(events'))
  BY <1>3, TurnEvents, PlainSend DEF Event
<1> QED BY <1>1, <1>2, <1>3

\* A turn touches no other turn.
LEMMA Elsewhere ==
    ASSUME TypeInv, NEW t \in Turns, TurnStep(t), NEW u \in Turns, u # t
    PROVE  pc'[u] = pc[u] /\ loc'[u] = loc[u]
<1> USE DEF Goto, NewStep, Request
<1>0. pc \in [Turns -> Live \union Over \union {"idle"}] /\ loc \in [Turns -> Locals]
  BY DEF TypeInv, TypeOK, LoopTypeOK
<1>1. CASE Spawn(t) \/ StopAtTop(t) \/ ReachLimit(t) \/ LimitDone(t) \/ StartCompaction(t)
  BY <1>0, <1>1 DEF Spawn, StopAtTop, ReachLimit, LimitDone, StartCompaction
<1>2. CASE FinishCompaction(t) \/ OpenStream(t) \/ CancelStream(t) \/ StreamText(t) \/ CollectCall(t)
  BY <1>0, <1>2 DEF FinishCompaction, OpenStream, CancelStream, StreamText, CollectCall
<1>3. CASE StreamError(t) \/ CancelDispatch(t) \/ Gate(t) \/ TellRefusal(t) \/ AskUser(t)
  BY <1>0, <1>3 DEF StreamError, CancelDispatch, Gate, TellRefusal, AskUser
<1>4. CASE HearAnswer(t) \/ CancelWait(t) \/ RunTool(t) \/ PreviewPanics(t) \/ Report(t)
  BY <1>0, <1>4 DEF HearAnswer, CancelWait, RunTool, PreviewPanics, Report
<1>5. CASE CloseTurn(t)
  BY <1>0, <1>5 DEF CloseTurn
<1>6. CASE StreamDone(t)
  BY <1>0, <1>6 DEF StreamDone, AfterStream, MayNudge
<1>7. CASE StreamClosed(t)
  BY <1>0, <1>7 DEF StreamClosed, AfterStream, MayNudge
<1> QED
  BY <1>1, <1>2, <1>3, <1>4, <1>5, <1>6, <1>7
     DEF TurnStep, Run, Advance, StreamEnds

LEMMA AfterStreamKeepsStep ==
    ASSUME TypeInv, NEW t \in Turns, NEW endTurn, AfterStream(t, endTurn)
    PROVE  loc'[t].steps = loc[t].steps
<1>0. loc \in [Turns -> Locals]
  BY DEF TypeInv, TypeOK, LoopTypeOK
<1>1. CASE loc' = [loc EXCEPT ![t].nudges = 0, ![t].next = 1, ![t].endTurn = endTurn]
  BY <1>0, <1>1 DEF Locals
<1>2. CASE loc' = [loc EXCEPT ![t].nudges = @ + 1]
  BY <1>0, <1>2 DEF Locals
<1>3. CASE loc' = loc
  BY <1>3
<1> QED BY <1>1, <1>2, <1>3 DEF AfterStream, MayNudge

\* A prompt that has been put to the user stays one that has been: the
\* counters of a turn never go back.
LEMMA IssuedStays ==
    ASSUME TypeInv, NEW t \in Turns, TurnStep(t), NEW p \in Prompts, Issued(p)
    PROVE  Issued(p)'
<1>1. CASE p.turn # t
  <2>1. pc'[p.turn] = pc[p.turn] /\ loc'[p.turn] = loc[p.turn]
    BY <1>1, Elsewhere DEF Prompts
  <2> QED BY <2>1 DEF Issued
<1>2. CASE p.turn = t
  <2> USE <1>2 DEF Issued, Dispatch, Over
  <2>0. /\ pc \in [Turns -> Live \union Over \union {"idle"}] /\ loc \in [Turns -> Locals]
        /\ loc[t].steps \in Nat /\ loc[t].next \in Nat
        /\ p.step \in Nat /\ p.idx \in Nat
    <3>1. loc[t].steps \in 0..(MaxSteps + 1) /\ loc[t].next \in 1..(MaxCalls + 1)
      BY TurnFacts DEF Locals
    <3>2. p.step \in 1..MaxSteps /\ p.idx \in 1..MaxCalls
      BY DEF Prompts
    <3> QED BY <3>1, <3>2, ChannelAssumption DEF TypeInv, TypeOK, LoopTypeOK
  <2>1. CASE Spawn(t)
    BY <2>0, <2>1 DEF Spawn, Goto
  <2>2. CASE StopAtTop(t)
    BY <2>0, <2>2 DEF StopAtTop, Goto
  <2>3. CASE ReachLimit(t)
    BY <2>0, <2>3 DEF ReachLimit, NewStep, Goto
  <2>4. CASE LimitDone(t)
    BY <2>0, <2>4 DEF LimitDone, Goto
  <2>5. CASE StartCompaction(t)
    BY <2>0, <2>5 DEF StartCompaction, NewStep, Goto
  <2>6. CASE FinishCompaction(t)
    BY <2>0, <2>6 DEF FinishCompaction, Request, Goto
  <2>7. CASE OpenStream(t)
    BY <2>0, <2>7 DEF OpenStream, NewStep, Request, Goto
  <2>8. CASE CancelStream(t)
    BY <2>0, <2>8 DEF CancelStream, Goto
  <2>9. CASE StreamText(t)
    BY <2>0, <2>9 DEF StreamText, Goto
  <2>10. CASE CollectCall(t)
    BY <2>0, <2>10 DEF CollectCall, Goto
  <2>11. CASE StreamDone(t)
    <3>0. pc[t] = "streaming"
      BY <2>11 DEF StreamDone
    <3>1. p.step < loc[t].steps
      BY <3>0
    <3>2. loc'[t].steps = loc[t].steps
      BY <2>11, AfterStreamKeepsStep DEF StreamDone
    <3> QED BY <3>1, <3>2
  <2>12. CASE StreamError(t)
    BY <2>0, <2>12 DEF StreamError, Goto
  <2>13. CASE StreamClosed(t)
    <3>0. pc[t] = "streaming"
      BY <2>13 DEF StreamClosed
    <3>1. p.step < loc[t].steps
      BY <3>0
    <3>2. loc'[t].steps = loc[t].steps
      BY <2>13, AfterStreamKeepsStep DEF StreamClosed
    <3> QED BY <3>1, <3>2
  <2>14. CASE CancelDispatch(t)
    BY <2>0, <2>14 DEF CancelDispatch, Goto
  <2>15. CASE Gate(t)
    BY <2>0, <2>15 DEF Gate, Goto
  <2>16. CASE TellRefusal(t)
    BY <2>0, <2>16 DEF TellRefusal, Goto
  <2>17. CASE AskUser(t)
    BY <2>0, <2>17 DEF AskUser, Goto
  <2>18. CASE HearAnswer(t)
    BY <2>0, <2>18 DEF HearAnswer, Goto
  <2>19. CASE CancelWait(t)
    BY <2>0, <2>19 DEF CancelWait, Goto
  <2>20. CASE RunTool(t)
    BY <2>0, <2>20 DEF RunTool, Goto
  <2>21. CASE PreviewPanics(t)
    BY <2>0, <2>21 DEF PreviewPanics, Goto
  <2>22. CASE Report(t)
    BY <2>0, <2>22 DEF Report, Goto
  <2>23. CASE CloseTurn(t)
    BY <2>0, <2>23 DEF CloseTurn, Goto
  <2> QED
    BY <2>1, <2>2, <2>3, <2>4, <2>5, <2>6, <2>7, <2>8, <2>9, <2>10, <2>11, <2>12, <2>13, <2>14, <2>15, <2>16, <2>17, <2>18, <2>19, <2>20, <2>21, <2>22, <2>23
       DEF TurnStep, Run, Advance, StreamEnds
<1> QED BY <1>1, <1>2

LEMMA OnlyAskingWaits ==
    ASSUME TypeInv, NEW t \in Turns, TurnStep(t), ~AskUser(t)
    PROVE  pc'[t] # "waiting"
<1>0. pc \in [Turns -> Live \union Over \union {"idle"}]
  BY DEF TypeInv, TypeOK, LoopTypeOK
<1>1. CASE Spawn(t) \/ StopAtTop(t) \/ ReachLimit(t) \/ LimitDone(t)
  BY <1>0, <1>1 DEF Spawn, StopAtTop, ReachLimit, LimitDone, AfterStream, MayNudge, Goto
<1>2. CASE StartCompaction(t) \/ FinishCompaction(t) \/ OpenStream(t) \/ CancelStream(t)
  BY <1>0, <1>2
     DEF StartCompaction, FinishCompaction, OpenStream, CancelStream, AfterStream,
         MayNudge, Goto
<1>3. CASE StreamText(t) \/ CollectCall(t) \/ StreamDone(t) \/ StreamError(t)
  BY <1>0, <1>3
     DEF StreamText, CollectCall, StreamDone, StreamError, AfterStream, MayNudge,
         Goto
<1>4. CASE StreamClosed(t) \/ CancelDispatch(t) \/ Gate(t) \/ TellRefusal(t)
  BY <1>0, <1>4
     DEF StreamClosed, CancelDispatch, Gate, TellRefusal, AfterStream, MayNudge,
         Goto
<1>5. CASE HearAnswer(t) \/ CancelWait(t) \/ RunTool(t) \/ PreviewPanics(t)
  BY <1>0, <1>5
     DEF HearAnswer, CancelWait, RunTool, PreviewPanics, AfterStream, MayNudge, Goto
<1>6. CASE Report(t) \/ CloseTurn(t)
  BY <1>0, <1>6 DEF Report, CloseTurn, AfterStream, MayNudge, Goto
<1> QED
  BY <1>1, <1>2, <1>3, <1>4, <1>5, <1>6
     DEF TurnStep, Run, Advance, StreamEnds

LEMMA TurnsAnswerNothing ==
    ASSUME NEW t \in Turns, TurnStep(t)
    PROVE  answers' = answers /\ open' = open /\ cancelled' = cancelled
BY DEF TurnStep, Run, Advance, StreamEnds, Spawn, StopAtTop, ReachLimit, LimitDone,
       StartCompaction, FinishCompaction, OpenStream, CancelStream, StreamText,
       CollectCall, StreamDone, StreamError, StreamClosed, CancelDispatch, Gate,
       TellRefusal, HearAnswer, Consents, Learn, CancelWait, RunTool, PreviewPanics,
       Report, CloseTurn, AskUser

-----------------------------------------------------------------------------
(* Every prompt has one owner, and a waiting turn can be answered *)

CustodyInv == PromptsAreIssued /\ OneOwner /\ NoLostPrompt

LEMMA InitCustody == Init => CustodyInv
BY DEF Init, LoopInit, CustodyInv, PromptsAreIssued, OneOwner, NoLostPrompt,
       DistinctPrompts, Queued, PromptsIn, Waiting, Answered

\* A call about to be put to the user has not been put to him yet.
LEMMA AskedFirstTime ==
    ASSUME TypeInv, NEW t \in Turns, AskUser(t)
    PROVE  ~Issued(CurrentPrompt(t)) /\ Issued(CurrentPrompt(t))'
<1>1. loc[t].steps \in Nat /\ loc[t].next \in Nat
  <2>1. loc[t].steps \in 0..(MaxSteps + 1) /\ loc[t].next \in 1..(MaxCalls + 1)
    BY TurnFacts DEF Locals
  <2> QED BY <2>1, ChannelAssumption
<1>2. pc[t] = "asking" /\ pc'[t] = "waiting" /\ loc' = loc
  BY DEF AskUser, Goto, TypeInv, TypeOK, LoopTypeOK
<1> QED BY <1>1, <1>2 DEF Issued, CurrentPrompt, CurrentCall, Dispatch, Over

LEMMA TurnStepCustody ==
    ASSUME TypeInv, CustodyInv, NEW t \in Turns, TurnStep(t)
    PROVE  CustodyInv'
<1> USE DEF CustodyInv
<1>1. answers' = answers /\ open' = open
  BY TurnsAnswerNothing
<1>2. \A p \in Prompts : Issued(p) => Issued(p)'
  BY IssuedStays
<1>3. Queued \subseteq Prompts /\ open \subseteq Prompts /\ \A a \in answers : a.prompt \in Prompts
  BY DEF TypeInv, TypeOK, LoopTypeOK, ChannelTypeOK, Queued, PromptsIn, AppEvents, Answers
<1>4. \A u \in Turns \ {t} : /\ Waiting(u)' => Waiting(u)
                             /\ CurrentPrompt(u)' = CurrentPrompt(u)
  BY Elsewhere DEF Waiting, CurrentPrompt, CurrentCall
<1>5. CASE ~AskUser(t)
  <2>1. Queued' = Queued /\ DistinctPrompts(events')
    BY <1>5, OtherStepsAskNothing DEF OneOwner
  <2>2. ~Waiting(t)'
    BY <1>5, OnlyAskingWaits DEF Waiting
  <2>3. PromptsAreIssued'
    BY <1>1, <1>2, <1>3, <2>1 DEF PromptsAreIssued
  <2>4. OneOwner'
    BY <1>1, <2>1 DEF OneOwner, Answered
  <2>5. NoLostPrompt'
    BY <1>1, <1>4, <2>1, <2>2 DEF NoLostPrompt, Answered
  <2> QED BY <2>3, <2>4, <2>5
<1>6. CASE AskUser(t)
  <2> DEFINE p == CurrentPrompt(t)
  <2>1. p \in Prompts /\ ApprovalRequest(p) \in AppEvents
    BY <1>6, CurrentPromptType DEF AskUser, Dispatch, ApprovalRequest, AppEvents
  <2>2. ~Issued(p) /\ Issued(p)'
    BY <1>6, AskedFirstTime
  <2>3. loc' = loc /\ p' = p
    BY <1>6 DEF AskUser, CurrentPrompt, CurrentCall
  <2>4. p \notin Queued /\ p \notin open /\ ~Answered(p)
    BY <2>2 DEF PromptsAreIssued, Answered
  <2>5. events \in Seq(AppEvents) /\ events' = Append(events, ApprovalRequest(p))
    BY <1>6 DEF AskUser, Send, TypeInv, TypeOK, LoopTypeOK, ChannelTypeOK
  <2>6. Queued' = Queued \union {p} /\ DistinctPrompts(events')
    <3>1. /\ ApprovalRequest(p).kind = "approval" /\ ApprovalRequest(p).prompt = p
          /\ DistinctPrompts(events) /\ p \notin PromptsIn(events)
      BY <2>4 DEF ApprovalRequest, OneOwner, Queued
    <3> HIDE DEF p
    <3> QED BY <2>1, <2>5, <3>1, PromptsInAppend, DistinctAppend DEF Queued
  <2>7. PromptsAreIssued'
    <3>1. \A q \in Queued \union open : Issued(q)'
      BY <1>2, <1>3 DEF PromptsAreIssued
    <3>2. \A a \in answers : Issued(a.prompt)'
      BY <1>2, <1>3 DEF PromptsAreIssued
    <3>3. Issued(p)'
      BY <2>2
    <3> QED BY <1>1, <2>3, <2>6, <3>1, <3>2, <3>3 DEF PromptsAreIssued, Issued
  <2>8. OneOwner'
    BY <1>1, <2>4, <2>6 DEF OneOwner, Answered
  <2>9. NoLostPrompt'
    BY <1>1, <1>4, <2>3, <2>6 DEF NoLostPrompt, Answered
  <2> QED BY <2>7, <2>8, <2>9
<1> QED BY <1>5, <1>6

\* Whatever is queued, held or answered was issued, and an issued prompt stays
\* issued when no turn moves.
LEMMA HostKeepsIssued ==
    ASSUME UNCHANGED <<pc, loc>>, NEW p, Issued(p)
    PROVE  Issued(p)'
BY DEF Issued

LEMMA HostTakesCustody ==
    ASSUME TypeInv, CustodyInv, HostTakes
    PROVE  CustodyInv'
<1> DEFINE e   == Head(events)
           new == IF e.kind = "approval" THEN {e.prompt} ELSE {}
<1>1. PICK lost \in SUBSET open : /\ open' = (open \ lost) \union new
                                  /\ answers' = answers \union LetGo(lost)
  BY DEF HostTakes
<1>2. events \in Seq(AppEvents) /\ events # <<>> /\ events' = Tail(events)
  BY DEF HostTakes, TypeInv, TypeOK, LoopTypeOK, ChannelTypeOK
<1>3. Queued = Queued' \union new
  BY <1>2, PromptsInTail DEF Queued
<1>4. DistinctPrompts(events') /\ new \intersect Queued' = {}
  BY <1>2, DistinctTail DEF CustodyInv, OneOwner, Queued
<1>5. pc' = pc /\ loc' = loc
  BY DEF HostTakes, loopVars
<1> HIDE DEF new
<1>6. /\ \A a \in answers' : a \in answers \/ (a.prompt \in lost /\ a.prompt \in open)
      /\ \A a, b \in answers' : (a \notin answers /\ b \notin answers /\ a.prompt = b.prompt) => a = b
      /\ \A p \in lost : \E a \in answers' : a.prompt = p
  <2> DEFINE dropped(p) == [prompt |-> p, reply |-> "dropped"]
  <2>1. \A p : dropped(p).prompt = p
    OBVIOUS
  <2>2. LetGo(lost) = {dropped(p) : p \in lost}
    BY DEF LetGo
  <2> HIDE DEF dropped
  <2>3. \A a \in answers' \ answers : \E p \in lost : a = dropped(p)
    BY <1>1, <2>2
  <2>4. \A p \in lost : dropped(p) \in answers'
    BY <1>1, <2>2
  <2>5. \A a \in answers' \ answers : a.prompt \in lost /\ a = dropped(a.prompt)
    BY <2>1, <2>3
  <2> QED BY <2>1, <2>4, <2>5
<1>7. PromptsAreIssued'
  <2>1. \A p \in Queued' \union open' : Issued(p)'
    BY <1>1, <1>3, <1>5, HostKeepsIssued DEF CustodyInv, PromptsAreIssued
  <2>2. \A a \in answers' : Issued(a.prompt)'
    BY <1>5, <1>6, HostKeepsIssued DEF CustodyInv, PromptsAreIssued
  <2> QED BY <2>1, <2>2 DEF PromptsAreIssued
<1>8. OneOwner'
  <2>1. \A p \in Queued' : p \notin open' /\ ~Answered(p)'
    BY <1>1, <1>3, <1>4, <1>6 DEF CustodyInv, OneOwner, Answered
  <2>2. \A p \in open' : ~Answered(p)'
    BY <1>1, <1>3, <1>4, <1>6 DEF CustodyInv, OneOwner, Answered
  <2>3. \A a, b \in answers' : a.prompt = b.prompt => a = b
    BY <1>6 DEF CustodyInv, OneOwner, Answered
  <2> QED BY <1>4, <2>1, <2>2, <2>3 DEF OneOwner
<1>9. NoLostPrompt'
  <2> SUFFICES ASSUME NEW t \in Turns, Waiting(t)
               PROVE  \/ CurrentPrompt(t) \in Queued' \union open'
                      \/ Answered(CurrentPrompt(t))'
    BY <1>5 DEF NoLostPrompt, Waiting, CurrentPrompt, CurrentCall
  <2> DEFINE p == CurrentPrompt(t)
  <2> HIDE DEF p
  <2>1. p \in Queued \union open \/ Answered(p)
    BY DEF CustodyInv, NoLostPrompt, p
  <2>2. Answered(p) => \E a \in answers' : a.prompt = p
    BY <1>1 DEF Answered
  <2>3. p \in Queued' \union open' \/ \E a \in answers' : a.prompt = p
    BY <1>1, <1>3, <1>6, <2>1, <2>2
  <2> QED BY <1>5, <2>3 DEF p, Answered, CurrentPrompt, CurrentCall
<1> QED BY <1>7, <1>8, <1>9 DEF CustodyInv

LEMMA HostAnswersCustody ==
    ASSUME TypeInv, CustodyInv, HostAnswers
    PROVE  CustodyInv'
<1>1. PICK p \in open, reply \in Replies :
         /\ open' = open \ {p}
         /\ answers' = answers \union {[prompt |-> p, reply |-> reply]}
  BY DEF HostAnswers
<1>2. events' = events /\ pc' = pc /\ loc' = loc /\ Queued' = Queued
  BY DEF HostAnswers, loopVars, Queued
<1>3. PromptsAreIssued'
  <2>1. \A q \in Queued' \union open' : Issued(q)'
    BY <1>1, <1>2, HostKeepsIssued DEF CustodyInv, PromptsAreIssued
  <2>2. \A a \in answers' : Issued(a.prompt)'
    BY <1>1, <1>2, HostKeepsIssued DEF CustodyInv, PromptsAreIssued
  <2> QED BY <2>1, <2>2 DEF PromptsAreIssued
<1>4. OneOwner'
  BY <1>1, <1>2 DEF CustodyInv, OneOwner, Answered
<1>5. NoLostPrompt'
  <2> SUFFICES ASSUME NEW t \in Turns, Waiting(t)
               PROVE  \/ CurrentPrompt(t) \in Queued' \union open'
                      \/ Answered(CurrentPrompt(t))'
    BY <1>2 DEF NoLostPrompt, Waiting, CurrentPrompt, CurrentCall
  <2> DEFINE mine == CurrentPrompt(t)
             said == [prompt |-> p, reply |-> reply]
  <2>1. said.prompt = p
    OBVIOUS
  <2> HIDE DEF mine, said
  <2>2. mine \in Queued \union open \/ \E a \in answers : a.prompt = mine
    BY DEF CustodyInv, NoLostPrompt, Answered, mine
  <2>3. answers' = answers \union {said}
    BY <1>1 DEF said
  <2>4. mine \in Queued' \union open' \/ \E a \in answers' : a.prompt = mine
    BY <1>1, <1>2, <2>1, <2>2, <2>3
  <2> QED BY <1>2, <2>4 DEF mine, Answered, CurrentPrompt, CurrentCall
<1> QED BY <1>3, <1>4, <1>5 DEF CustodyInv

LEMMA NextCustody == TypeInv /\ CustodyInv /\ [Next]_vars => CustodyInv'
<1> SUFFICES ASSUME TypeInv, CustodyInv, [Next]_vars PROVE CustodyInv'
  OBVIOUS
<1>1. CASE HostTakes
  BY <1>1, HostTakesCustody
<1>2. CASE HostAnswers
  BY <1>2, HostAnswersCustody
<1>3. CASE HostInforms
  <2>1. PICK kind \in HostNews : Send(Event(kind, NoTurn))
    BY <1>3 DEF HostInforms
  <2>2. Event(kind, NoTurn) \in AppEvents /\ Event(kind, NoTurn).kind # "approval"
    BY HostAssumption DEF Event, AppEvents
  <2>3. Queued' = Queued /\ DistinctPrompts(events')
    BY <2>1, <2>2, PlainSend DEF CustodyInv, OneOwner
  <2>4. UNCHANGED <<answers, pc, loc, open>>
    BY <1>3 DEF HostInforms, loopVars
  <2> QED
    BY <2>3, <2>4 DEF CustodyInv, PromptsAreIssued, OneOwner, NoLostPrompt, Issued,
                      Answered, Waiting, CurrentPrompt, CurrentCall
<1>4. ASSUME NEW t \in Turns, TurnStep(t) PROVE CustodyInv'
  BY <1>4, TurnStepCustody
<1>5. ASSUME UNCHANGED <<events, answers, pc, loc, open>> PROVE CustodyInv'
  BY <1>5 DEF CustodyInv, PromptsAreIssued, OneOwner, NoLostPrompt, Issued, Queued,
              Answered, Waiting, CurrentPrompt, CurrentCall
<1>6. ASSUME NEW t \in Turns, Cancel(t) PROVE CustodyInv'
  BY <1>5, <1>6 DEF Cancel
<1>7. CASE UNCHANGED vars
  BY <1>5, <1>7 DEF vars, loopVars
<1> QED BY <1>1, <1>2, <1>3, <1>4, <1>6, <1>7 DEF Next

LEMMA CustodyInvariant == Spec => [](TypeInv /\ CustodyInv)
<1>1. Init => TypeInv /\ CustodyInv
  BY InitType, InitCustody
<1>2. (TypeInv /\ CustodyInv) /\ [Next]_vars => (TypeInv /\ CustodyInv)'
  BY NextType, NextCustody
<1> QED BY <1>1, <1>2, PTL DEF Spec

\* The reply Sender of a prompt is in one place at most: no call is decided
\* twice, and no prompt is on display after it was settled.
THEOREM OneOwnerHolds == Spec => []OneOwner
BY CustodyInvariant, PTL DEF CustodyInv

\* No turn waits for an answer nobody can give any more, although the wait
\* has no timeout: its prompt is under way, with the host, or answered.
THEOREM NoLostPromptHolds == Spec => []NoLostPrompt
BY CustodyInvariant, PTL DEF CustodyInv

-----------------------------------------------------------------------------
(* Tools run by consent only *)

\* An approval for the session takes nothing away from any other call.
LEMMA ApprovalOnlyAllows ==
    ASSUME NEW eng \in Engines, NEW c \in Calls, NEW tool \in Tools,
           Classify(eng, c) = "allow"
    PROVE  Classify(ApproveForSession(eng, tool), c) = "allow"
<1> DEFINE grown == ApproveForSession(eng, tool)
<1>1. /\ grown.session = eng.session \union {tool}
      /\ grown.overrides = eng.overrides /\ grown.agent = eng.agent
  BY DEF ApproveForSession, Engines
<1> HIDE DEF grown
<1>2. Classify(grown, c) = "allow"
  BY <1>1 DEF Classify, DefaultDecision, LspDecision
<1> QED BY <1>2 DEF grown

GroundInv == Consent /\ SessionGrounded

LEMMA InitGround == Init => GroundInv
BY LoopAssumption DEF Init, LoopInit, GroundInv, Consent, SessionGrounded

\* Only an answer moves the engine, and only to approve a tool.
LEMMA EngineMoves ==
    ASSUME NEW t \in Turns, TurnStep(t), engine' # engine
    PROVE  \E a \in answers : /\ pc[t] = "waiting"
                              /\ a.prompt = CurrentPrompt(t) /\ a.reply = "session"
                              /\ engine' = ApproveForSession(engine, CurrentCall(t).name)
BY DEF TurnStep, Run, Advance, StreamEnds, Spawn, StopAtTop, ReachLimit, LimitDone,
       StartCompaction, FinishCompaction, OpenStream, CancelStream, StreamText,
       CollectCall, StreamDone, StreamError, StreamClosed, CancelDispatch, Gate,
       TellRefusal, HearAnswer, Consents, Learn, CancelWait, RunTool, PreviewPanics,
       Report, CloseTurn, AskUser

\* A tool starts running at the gate or on an answer.
LEMMA OnlyGateAndAnswerRun ==
    ASSUME TypeInv, NEW t \in Turns, TurnStep(t), pc'[t] = "running"
    PROVE  \/ Gate(t) /\ Classify(engine, CurrentCall(t)) = "allow"
           \/ HearAnswer(t) /\ \E a \in answers : /\ a.prompt = CurrentPrompt(t)
                                                  /\ a.reply \in {"once", "session"}
<1>0. pc \in [Turns -> Live \union Over \union {"idle"}]
  BY DEF TypeInv, TypeOK, LoopTypeOK
<1>1. CASE Spawn(t) \/ StopAtTop(t) \/ ReachLimit(t) \/ LimitDone(t)
  BY <1>0, <1>1 DEF Spawn, StopAtTop, ReachLimit, LimitDone, Goto
<1>2. CASE StartCompaction(t) \/ FinishCompaction(t) \/ OpenStream(t) \/ CancelStream(t)
  BY <1>0, <1>2 DEF StartCompaction, FinishCompaction, OpenStream, CancelStream, Goto
<1>3. CASE StreamText(t) \/ CollectCall(t) \/ StreamDone(t) \/ StreamError(t)
  BY <1>0, <1>3
     DEF StreamText, CollectCall, StreamDone, StreamError, AfterStream, MayNudge,
         Goto
<1>4. CASE StreamClosed(t) \/ CancelDispatch(t) \/ TellRefusal(t) \/ AskUser(t)
  BY <1>0, <1>4
     DEF StreamClosed, CancelDispatch, TellRefusal, AskUser, AfterStream, MayNudge,
         Goto
<1>5. CASE CancelWait(t) \/ RunTool(t) \/ PreviewPanics(t) \/ Report(t) \/ CloseTurn(t)
  BY <1>0, <1>5 DEF CancelWait, RunTool, PreviewPanics, Report, CloseTurn, Goto
<1>6. CASE Gate(t)
  BY <1>0, <1>6 DEF Gate, Goto
<1>7. CASE HearAnswer(t)
  BY <1>0, <1>7 DEF HearAnswer, Consents, Learn, Goto
<1> QED
  BY <1>1, <1>2, <1>3, <1>4, <1>5, <1>6, <1>7
     DEF TurnStep, Run, Advance, StreamEnds

LEMMA TurnStepGround ==
    ASSUME TypeInv, GroundInv, NEW t \in Turns, TurnStep(t)
    PROVE  GroundInv'
<1>1. answers' = answers
  BY TurnsAnswerNothing
<1>2. /\ engine \in Engines
      /\ \A u \in Turns : pc[u] \in Dispatch => CurrentCall(u) \in ModelCalls /\ CurrentCall(u).name \in Tools
  BY CurrentPromptType, CallNames, LoopAssumption DEF TypeInv, TypeOK, LoopTypeOK
<1>3. \A c \in ModelCalls : Classify(engine, c) = "allow" => Classify(engine', c) = "allow"
  <2>1. CASE engine' = engine
    BY <2>1
  <2>2. CASE engine' # engine
    <3>1. engine' = ApproveForSession(engine, CurrentCall(t).name) /\ pc[t] = "waiting"
      BY <2>2, EngineMoves
    <3>2. CurrentCall(t).name \in Tools
      BY <1>2, <3>1 DEF Dispatch
    <3> QED BY <1>2, <3>1, <3>2, ApprovalOnlyAllows, LoopAssumption
  <2> QED BY <2>1, <2>2
<1>4. Consent'
  <2> SUFFICES ASSUME NEW u \in Turns, pc'[u] = "running"
               PROVE  \/ Classify(engine', CurrentCall(u)') = "allow"
                      \/ \E a \in answers' : /\ a.prompt = CurrentPrompt(u)'
                                             /\ a.reply \in {"once", "session"}
    BY DEF Consent
  <2>1. CASE u = t
    <3>1. \/ Gate(t) /\ Classify(engine, CurrentCall(t)) = "allow"
          \/ HearAnswer(t) /\ \E a \in answers : /\ a.prompt = CurrentPrompt(t)
                                                 /\ a.reply \in {"once", "session"}
      BY <2>1, OnlyGateAndAnswerRun
    <3>2. CurrentCall(t)' = CurrentCall(t) /\ CurrentPrompt(t)' = CurrentPrompt(t)
      BY <3>1 DEF Gate, HearAnswer, CurrentCall, CurrentPrompt
    <3>3. CASE Gate(t) /\ Classify(engine, CurrentCall(t)) = "allow"
      BY <2>1, <3>2, <3>3 DEF Gate
    <3>4. CASE HearAnswer(t) /\ \E a \in answers : /\ a.prompt = CurrentPrompt(t)
                                                   /\ a.reply \in {"once", "session"}
      BY <1>1, <2>1, <3>2, <3>4
    <3> QED BY <3>1, <3>3, <3>4
  <2>2. CASE u # t
    <3>1. pc[u] = "running" /\ CurrentCall(u)' = CurrentCall(u) /\ CurrentPrompt(u)' = CurrentPrompt(u)
      BY <2>2, Elsewhere DEF CurrentCall, CurrentPrompt
    <3>2. CurrentCall(u) \in ModelCalls
      BY <1>2, <3>1 DEF Dispatch
    <3> QED BY <1>1, <1>3, <3>1, <3>2 DEF GroundInv, Consent
  <2> QED BY <2>1, <2>2
<1>5. SessionGrounded'
  <2>1. CASE engine' = engine
    BY <1>1, <2>1 DEF GroundInv, SessionGrounded
  <2>2. CASE engine' # engine
    <3>1. PICK a \in answers : /\ a.prompt = CurrentPrompt(t) /\ a.reply = "session"
                               /\ engine' = ApproveForSession(engine, CurrentCall(t).name)
      BY <2>2, EngineMoves
    <3>2. a.prompt.tool = CurrentCall(t).name
      BY <3>1 DEF CurrentPrompt
    <3>3. engine'.session = engine.session \union {CurrentCall(t).name}
      BY <1>2, <3>1 DEF ApproveForSession, Engines
    <3> QED BY <1>1, <3>1, <3>2, <3>3 DEF GroundInv, SessionGrounded
  <2> QED BY <2>1, <2>2
<1> QED BY <1>4, <1>5 DEF GroundInv

LEMMA NextGround == TypeInv /\ GroundInv /\ [Next]_vars => GroundInv'
<1> SUFFICES ASSUME TypeInv, GroundInv, [Next]_vars PROVE GroundInv'
  OBVIOUS
<1>1. ASSUME answers \subseteq answers', UNCHANGED <<pc, loc, engine>> PROVE GroundInv'
  BY <1>1 DEF GroundInv, Consent, SessionGrounded, CurrentCall, CurrentPrompt
<1>2. CASE HostTakes
  BY <1>1, <1>2 DEF HostTakes, loopVars
<1>3. CASE HostAnswers
  BY <1>1, <1>3 DEF HostAnswers, loopVars
<1>4. CASE HostInforms
  BY <1>1, <1>4 DEF HostInforms, loopVars
<1>5. ASSUME NEW t \in Turns, TurnStep(t) PROVE GroundInv'
  BY <1>5, TurnStepGround
<1>6. ASSUME NEW t \in Turns, Cancel(t) PROVE GroundInv'
  BY <1>1, <1>6 DEF Cancel
<1>7. CASE UNCHANGED vars
  BY <1>1, <1>7 DEF vars, loopVars
<1> QED BY <1>2, <1>3, <1>4, <1>5, <1>6, <1>7 DEF Next

LEMMA GroundInvariant == Spec => []GroundInv
<1>1. Init => TypeInv /\ GroundInv
  BY InitType, InitGround
<1>2. (TypeInv /\ GroundInv) /\ [Next]_vars => (TypeInv /\ GroundInv)'
  BY NextType, NextGround
<1> QED BY <1>1, <1>2, PTL DEF Spec

\* No tool runs that the engine does not allow, unless the user said yes to
\* this very call, whatever other turns did to the engine since the gate.
THEOREM ConsentHolds == Spec => []Consent
BY GroundInvariant, PTL DEF GroundInv

\* Nothing is approved for the session that the user was not asked about.
THEOREM SessionGroundedHolds == Spec => []SessionGrounded
BY GroundInvariant, PTL DEF GroundInv

=============================================================================
