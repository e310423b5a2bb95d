---------------------------- MODULE SignInProofs ----------------------------
(***************************************************************************)
(* Proofs about SignIn, for any number of logins of either kind and of     *)
(* connections from elsewhere: a login takes only its own code, and logins *)
(* that wait side by side do not take each other's callbacks.              *)
(***************************************************************************)
EXTENDS SignIn, SequenceTheorems, TLAPS

-----------------------------------------------------------------------------
(* The invariant.                                                          *)

BrowserSteps == {"idle", "waiting", "exchanging", "storing", "done", "failed"}
Steps        == BrowserSteps \union {"checking", "sleeping", "polling", "discovering"}
Reasons      == {"none", "configuration", "no port", "bad callback",
                 "state mismatch", "timed out", "exchange", "store",
                 "no device code", "denied", "poll"}
Senders      == Logins \union {NoLogin, Stranger}
Connections  == [kind  : {"silent", "other", "bad", "callback"},
                 state : Senders,
                 code  : Senders]

StepShape ==
    /\ step \in [Logins -> Steps]
    /\ \A l \in BrowserLogins : step[l] \in BrowserSteps

WhyShape     == why \in [Logins -> Reasons]
PortShape    == ports \in [PortSet -> BrowserLogins \union {Nobody, Stranger}]
BoundShape   == boundTo \in [BrowserLogins -> PortSet \union {Nobody}]
LineShape    == backlog \in [PortSet -> Seq(Connections)]
ConsentShape == consent \in [Logins -> {"none", "given", "denied"}]
CodeShape    == code \in [BrowserLogins -> Senders]
AccountShape == account \in Logins \union {NoLogin}

Shape ==
    /\ StepShape /\ WhyShape /\ PortShape /\ BoundShape
    /\ LineShape /\ ConsentShape /\ CodeShape /\ AccountShape

\* A port is held by the login that waits on it, and a login keeps the number of
\* its port when it is over.
WaitingIsBound == \A l \in BrowserLogins : step[l] = "waiting" => boundTo[l] \in PortSet
BoundHasBegun  == \A l \in BrowserLogins : boundTo[l] # Nobody => step[l] # "idle"
HolderWaits    ==
    \A l \in BrowserLogins : \A p \in PortSet :
        ports[p] = l <=> step[l] = "waiting" /\ boundTo[l] = p

Listening == WaitingIsBound /\ BoundHasBegun /\ HolderWaits

\* A login that has gone on from its callback has taken its own code.
Taken(l) == step[l] \in {"exchanging", "storing", "done"}
OwnCode  == \A l \in BrowserLogins : Taken(l) => code[l] = l /\ consent[l] = "given"

\* A callback is a stranger's, or stands in the line of the port its login was bound
\* to and brings the code of that login, to which the user has consented.
CallbackOf(c, p) ==
    /\ c.code = c.state
    /\ \/ c.state = Stranger
       \/ /\ c.state \in BrowserLogins
          /\ consent[c.state] = "given"
          /\ boundTo[c.state] = p

HonestCallbacks ==
    \A p \in PortSet : \A i \in 1..Len(backlog[p]) :
        backlog[p][i].kind = "callback" => CallbackOf(backlog[p][i], p)

StoredByConsent ==
    /\ \A l \in DeviceLogins : step[l] = "storing" => consent[l] = "given"
    /\ account # NoLogin => consent[account] = "given"

MismatchIsEnd == \A l \in BrowserLogins : why[l] = "state mismatch" => step[l] = "failed"

SignInInv ==
    /\ Shape /\ Listening /\ OwnCode /\ HonestCallbacks /\ StoredByConsent
    /\ MismatchIsEnd /\ CallbacksFindTheirLogin

LEMMA InvGivesCodeIsOwn == SignInInv => CodeIsOwn
BY DEF SignInInv, OwnCode, StoredByConsent, CodeIsOwn, Taken

LEMMA InitSignIn == Init => SignInInv
<1> SUFFICES ASSUME Init PROVE SignInInv
  OBVIOUS
<1>1. StepShape /\ WhyShape /\ ConsentShape
  BY DEF Init, StepShape, WhyShape, ConsentShape, Steps, BrowserSteps, Reasons, Logins
<1>2. PortShape /\ BoundShape /\ CodeShape /\ AccountShape
  BY DEF Init, PortShape, BoundShape, CodeShape, AccountShape, Senders
<1>3. LineShape
  BY DEF Init, LineShape
<1>4. Listening
  BY SignInAssumption
     DEF Init, Listening, WaitingIsBound, BoundHasBegun, HolderWaits, Logins, PortSet
<1>5. HonestCallbacks
  BY DEF Init, HonestCallbacks
<1>6. OwnCode /\ StoredByConsent
  BY DEF Init, OwnCode, Taken, StoredByConsent, Logins
<1>7. MismatchIsEnd /\ CallbacksFindTheirLogin
  BY DEF Init, MismatchIsEnd, CallbacksFindTheirLogin, Logins
<1> QED BY <1>1, <1>2, <1>3, <1>4, <1>5, <1>6, <1>7 DEF SignInInv, Shape

-----------------------------------------------------------------------------
(* What one step of a login changes.                                       *)

\* A login that does not listen goes on, or ends, by itself.
LEMMA PrivateStep ==
    ASSUME SignInInv, NEW l \in Logins, NEW to \in Steps \ {"idle", "waiting"},
           step[l] \notin {"waiting", "done", "failed"},
           step' = [step EXCEPT ![l] = to],
           NEW reason \in Reasons \ {"state mismatch"},
           why' = why \/ why' = [why EXCEPT ![l] = reason],
           l \in BrowserLogins => /\ to \in {"storing", "done", "failed"}
                                  /\ to # "failed" => step[l] \in {"exchanging", "storing"},
           l \in DeviceLogins /\ to = "storing" => consent[l] = "given",
           account' = account \/ (account' = l /\ step[l] = "storing"),
           UNCHANGED <<ports, boundTo, backlog, consent, code>>
    PROVE  SignInInv'
<1>1. \A m \in Logins : step'[m] = IF m = l THEN to ELSE step[m]
  BY DEF SignInInv, Shape, StepShape
<1>2. \A m \in Logins : why'[m] = "state mismatch" => why[m] = "state mismatch"
  BY DEF SignInInv, Shape, WhyShape
<1>3. BrowserLogins \subseteq Logins /\ DeviceLogins \subseteq Logins
  BY DEF Logins
<1>4. \A m \in BrowserLogins : step'[m] = "waiting" <=> step[m] = "waiting"
  BY <1>1, <1>3
<1>5. \A m \in BrowserLogins : Taken(m)' => Taken(m)
  BY <1>1, <1>3 DEF Taken
<1>6. \A m \in BrowserLogins : step[m] \notin {"idle", "waiting"} =>
                                 step'[m] \notin {"idle", "waiting"}
  BY <1>1, <1>3
<1>7. Shape'
  <2>1. StepShape'
    <3>1. step' \in [Logins -> Steps]
      BY DEF SignInInv, Shape, StepShape
    <3>2. \A m \in BrowserLogins : step'[m] \in BrowserSteps
      BY <1>1, <1>3 DEF SignInInv, Shape, StepShape, BrowserSteps
    <3> QED BY <3>1, <3>2 DEF StepShape
  <2>2. WhyShape'
    BY DEF SignInInv, Shape, WhyShape
  <2>3. AccountShape'
    BY DEF SignInInv, Shape, AccountShape
  <2>4. (PortShape /\ BoundShape /\ LineShape /\ ConsentShape /\ CodeShape)'
    BY DEF SignInInv, Shape, PortShape, BoundShape, LineShape, ConsentShape, CodeShape
  <2> QED BY <2>1, <2>2, <2>3, <2>4 DEF Shape
<1>8. Listening'
  <2>1. \A m \in BrowserLogins : step[m] # "idle" => step'[m] # "idle"
    BY <1>1, <1>3
  <2>2. WaitingIsBound'
    BY <1>4 DEF SignInInv, Listening, WaitingIsBound
  <2>3. BoundHasBegun'
    BY <2>1 DEF SignInInv, Listening, BoundHasBegun
  <2>4. HolderWaits'
    <3>1. HolderWaits /\ UNCHANGED <<ports, boundTo>>
      BY DEF SignInInv, Listening
    <3> QED BY ONLY <1>4, <3>1, ZenonT(60) DEF HolderWaits
  <2> QED BY <2>2, <2>3, <2>4 DEF Listening
<1>9. OwnCode'
  BY <1>5 DEF SignInInv, OwnCode
<1>10. HonestCallbacks'
  BY DEF SignInInv, HonestCallbacks, CallbackOf, PortSet
<1>11. StoredByConsent'
  <2>1. account' # NoLogin => consent[account'] = "given"
    <3>1. CASE l \in BrowserLogins
      BY <3>1 DEF SignInInv, StoredByConsent, OwnCode, Taken
    <3>2. CASE l \in DeviceLogins
      BY <3>2 DEF SignInInv, StoredByConsent
    <3> QED BY <3>1, <3>2 DEF Logins
  <2>2. \A m \in DeviceLogins : step'[m] = "storing" => consent[m] = "given"
    BY <1>1, <1>3 DEF SignInInv, StoredByConsent
  <2> QED BY <2>1, <2>2 DEF StoredByConsent
<1>12. CallbacksFindTheirLogin'
  BY <1>2, <1>3, <1>6 DEF SignInInv, CallbacksFindTheirLogin
<1>13. MismatchIsEnd'
  BY <1>1, <1>2, <1>3 DEF SignInInv, MismatchIsEnd
<1> QED BY <1>7, <1>8, <1>9, <1>10, <1>11, <1>12, <1>13 DEF SignInInv

\* A login begins to listen on a free port, and on no other.
LEMMA StartStep ==
    ASSUME SignInInv, NEW l \in BrowserLogins, NEW q \in PortSet,
           step[l] = "idle", ports[q] = Nobody,
           step' = [step EXCEPT ![l] = "waiting"],
           ports' = [ports EXCEPT ![q] = l],
           boundTo' = [boundTo EXCEPT ![l] = q],
           UNCHANGED <<why, backlog, consent, code, account>>
    PROVE  SignInInv'
<1>1. \A m \in BrowserLogins : m \in Logins /\ m # Nobody /\ m \notin DeviceLogins
  BY SignInAssumption DEF Logins
<1>2. \A m \in Logins : step'[m] = IF m = l THEN "waiting" ELSE step[m]
  BY DEF SignInInv, Shape, StepShape
<1>3. \A m \in BrowserLogins : boundTo'[m] = IF m = l THEN q ELSE boundTo[m]
  BY DEF SignInInv, Shape, BoundShape
<1>4. \A p \in PortSet : ports'[p] = IF p = q THEN l ELSE ports[p]
  BY DEF SignInInv, Shape, PortShape
<1>5. boundTo[l] = Nobody /\ Nobody \notin PortSet
  BY SignInAssumption DEF SignInInv, Listening, BoundHasBegun
<1>6. Shape'
  <2>1. StepShape'
    <3>1. step' \in [Logins -> Steps]
      BY DEF SignInInv, Shape, StepShape, Steps, BrowserSteps
    <3>2. \A m \in BrowserLogins : step'[m] \in BrowserSteps
      BY <1>1, <1>2 DEF SignInInv, Shape, StepShape, BrowserSteps
    <3> QED BY <3>1, <3>2 DEF StepShape
  <2>2. PortShape' /\ BoundShape'
    BY DEF SignInInv, Shape, PortShape, BoundShape
  <2>3. (WhyShape /\ LineShape /\ ConsentShape /\ CodeShape /\ AccountShape)'
    BY DEF SignInInv, Shape, WhyShape, LineShape, ConsentShape, CodeShape, AccountShape
  <2> QED BY <2>1, <2>2, <2>3 DEF Shape
<1>7. Listening'
  <2>1. WaitingIsBound'
    BY <1>1, <1>2, <1>3 DEF SignInInv, Listening, WaitingIsBound
  <2>2. BoundHasBegun'
    BY <1>1, <1>2, <1>3 DEF SignInInv, Listening, BoundHasBegun
  <2>3. HolderWaits'
    BY <1>1, <1>2, <1>3, <1>4, <1>5 DEF SignInInv, Listening, HolderWaits
  <2> QED BY <2>1, <2>2, <2>3 DEF Listening
<1>8. \A m \in BrowserLogins : Taken(m)' <=> Taken(m)
  BY <1>1, <1>2 DEF Taken
<1>9. OwnCode'
  BY <1>8 DEF SignInInv, OwnCode
<1>10. HonestCallbacks'
  <2>1. \A p \in PortSet : \A c : CallbackOf(c, p) => c.state # l
    BY <1>1, <1>5, SignInAssumption DEF CallbackOf
  <2>2. \A p \in PortSet : \A c : CallbackOf(c, p) => CallbackOf(c, p)'
    BY <1>3, <2>1 DEF CallbackOf
  <2>3. HonestCallbacks /\ UNCHANGED backlog
    BY DEF SignInInv
  <2> QED BY ONLY <2>2, <2>3 DEF HonestCallbacks, PortSet
<1>11. StoredByConsent'
  BY <1>1, <1>2 DEF SignInInv, StoredByConsent, Logins
<1>12. CallbacksFindTheirLogin'
  <2>1. \A m \in BrowserLogins : step[m] \notin {"idle", "waiting"} =>
                                   m # l /\ step'[m] \notin {"idle", "waiting"}
    BY <1>1, <1>2
  <2>2. why[l] # "state mismatch"
    BY DEF SignInInv, MismatchIsEnd
  <2>3. SUFFICES ASSUME NEW k \in BrowserLogins, why[k] = "state mismatch",
                        code[k] # Stranger
                 PROVE  \E m \in BrowserLogins \ {k} :
                            /\ code[k] = m /\ boundTo'[m] = boundTo'[k]
                            /\ step'[m] \notin {"idle", "waiting"}
    BY DEF CallbacksFindTheirLogin
  <2>4. PICK m \in BrowserLogins \ {k} : /\ code[k] = m /\ boundTo[m] = boundTo[k]
                                         /\ step[m] \notin {"idle", "waiting"}
    BY <2>3 DEF SignInInv, CallbacksFindTheirLogin
  <2>5. m # l /\ k # l /\ step'[m] \notin {"idle", "waiting"}
    BY <2>1, <2>2, <2>3, <2>4
  <2>6. boundTo'[m] = boundTo'[k]
    BY <1>3, <2>4, <2>5
  <2> QED BY <2>4, <2>5, <2>6
<1>13. MismatchIsEnd'
  BY <1>1, <1>2 DEF SignInInv, MismatchIsEnd
<1> QED BY <1>6, <1>7, <1>9, <1>10, <1>11, <1>12, <1>13 DEF SignInInv

\* The wait of a login is over: it has its code, or has failed, and its line is gone.
Stray(l, c) ==
    \/ c = Stranger
    \/ \E m \in BrowserLogins \ {l} :
          c = m /\ boundTo[m] = boundTo[l] /\ step[m] \notin {"idle", "waiting"}

WaitFails(l, reason) ==
    /\ Fail(l, reason)
    /\ \/ reason # "state mismatch" /\ UNCHANGED code
       \/ \E c \in Senders : Stray(l, c) /\ code' = [code EXCEPT ![l] = c]

TakesCode(l) ==
    /\ Proceed(l, "exchanging")
    /\ code' = [code EXCEPT ![l] = l]
    /\ consent[l] = "given"

WaitEnds(l) ==
    /\ Waiting(l)
    /\ Unbind(l)
    /\ (\E reason \in Reasons : WaitFails(l, reason)) \/ TakesCode(l)
    /\ UNCHANGED <<boundTo, consent, account>>

LEMMA UnbindStep ==
    ASSUME SignInInv, NEW l \in BrowserLogins, WaitEnds(l)
    PROVE  SignInInv'
<1>1. \A m \in BrowserLogins : m \in Logins /\ m # Nobody /\ m \notin DeviceLogins
  BY SignInAssumption DEF Logins
<1>2. step' \in [Logins -> Steps] /\ step'[l] \in {"failed", "exchanging"}
  BY <1>1 DEF WaitEnds, WaitFails, TakesCode, Fail, Proceed, SignInInv, Shape, StepShape,
              Steps, BrowserSteps
<1>3. \A m \in Logins : m # l => step'[m] = step[m]
  BY DEF WaitEnds, WaitFails, TakesCode, Fail, Proceed, SignInInv, Shape, StepShape
<1>4. step[l] = "waiting" /\ boundTo[l] \in PortSet
  BY DEF WaitEnds, Waiting, SignInInv, Listening, WaitingIsBound
<1>5. UNCHANGED <<boundTo, consent, account>>
  BY DEF WaitEnds
<1>6. \A p \in PortSet : /\ ports'[p] = IF p = boundTo[l] THEN Nobody ELSE ports[p]
                         /\ backlog'[p] = IF p = boundTo[l] THEN <<>> ELSE backlog[p]
  BY DEF WaitEnds, Unbind, SignInInv, Shape, PortShape, LineShape
<1>7. \A m \in BrowserLogins : m # l => (Taken(m)' <=> Taken(m))
  BY <1>1, <1>3 DEF Taken
<1>8. Shape'
  <2>1. StepShape'
    BY <1>1, <1>2, <1>3 DEF SignInInv, Shape, StepShape, BrowserSteps
  <2>2. PortShape'
    BY DEF WaitEnds, Unbind, SignInInv, Shape, PortShape
  <2>3. LineShape'
    <3>1. <<>> \in Seq(Connections)
      BY EmptySeq
    <3> QED BY <3>1 DEF WaitEnds, Unbind, SignInInv, Shape, LineShape
  <2>4. WhyShape'
    BY DEF WaitEnds, WaitFails, TakesCode, Fail, Proceed, SignInInv, Shape, WhyShape
  <2>5. CodeShape'
    BY <1>1 DEF WaitEnds, WaitFails, TakesCode, SignInInv, Shape, CodeShape, Senders
  <2>6. (BoundShape /\ ConsentShape /\ AccountShape)'
    BY <1>5 DEF SignInInv, Shape, BoundShape, ConsentShape, AccountShape
  <2> QED BY <2>1, <2>2, <2>3, <2>4, <2>5, <2>6 DEF Shape
<1>9. Listening'
  <2>1. WaitingIsBound'
    BY <1>1, <1>2, <1>3, <1>5 DEF SignInInv, Listening, WaitingIsBound
  <2>2. BoundHasBegun'
    BY <1>1, <1>2, <1>3, <1>5 DEF SignInInv, Listening, BoundHasBegun
  <2>3. HolderWaits /\ ports[boundTo[l]] = l
    BY <1>4 DEF SignInInv, Listening, HolderWaits
  <2>4. HolderWaits'
    BY <1>1, <1>2, <1>3, <1>5, <1>6, <2>3 DEF HolderWaits
  <2> QED BY <2>1, <2>2, <2>4 DEF Listening
<1>10. OwnCode'
  <2>1. \A m \in BrowserLogins : m # l => code'[m] = code[m]
    BY DEF WaitEnds, WaitFails, TakesCode, SignInInv, Shape, CodeShape
  <2>2. step'[l] = "exchanging" => code'[l] = l /\ consent[l] = "given"
    <3>1. CASE \E reason \in Reasons : WaitFails(l, reason)
      BY <1>1, <3>1 DEF WaitFails, Fail, SignInInv, Shape, StepShape
    <3>2. CASE TakesCode(l)
      BY <3>2 DEF TakesCode, SignInInv, Shape, CodeShape
    <3> QED BY <3>1, <3>2 DEF WaitEnds
  <2>3. Taken(l)' => step'[l] = "exchanging"
    BY <1>2 DEF Taken
  <2> QED BY <1>5, <1>7, <2>1, <2>2, <2>3 DEF SignInInv, OwnCode
<1>11. HonestCallbacks'
  <2>1. SUFFICES ASSUME NEW p \in PortSet, NEW i \in 1..Len(backlog'[p]),
                        backlog'[p][i].kind = "callback"
                 PROVE  CallbackOf(backlog[p][i], p)' /\ backlog'[p] = backlog[p]
    BY DEF HonestCallbacks, PortSet
  <2>2. p # boundTo[l] /\ backlog'[p] = backlog[p]
    BY <1>6, EmptySeq
  <2>3. CallbackOf(backlog[p][i], p)
    BY <2>1, <2>2 DEF SignInInv, HonestCallbacks
  <2> QED BY <1>5, <2>2, <2>3 DEF CallbackOf
<1>12. StoredByConsent'
  BY <1>1, <1>3, <1>5 DEF SignInInv, StoredByConsent, Logins
<1>13. \A k \in BrowserLogins : why'[k] = "state mismatch" =>
          \/ why[k] = "state mismatch" /\ k # l
          \/ k = l /\ step'[l] = "failed" /\ WaitFails(l, "state mismatch")
  <2>1. CASE \E reason \in Reasons : WaitFails(l, reason)
    BY <1>1, <2>1 DEF WaitFails, Fail, SignInInv, Shape, StepShape, WhyShape
  <2>2. CASE TakesCode(l)
    BY <1>4, <2>2 DEF TakesCode, Proceed, SignInInv, MismatchIsEnd
  <2> QED BY <2>1, <2>2 DEF WaitEnds
<1>14. MismatchIsEnd'
  BY <1>1, <1>3, <1>13 DEF SignInInv, MismatchIsEnd
<1>15. CallbacksFindTheirLogin'
  <2>1. \A m \in BrowserLogins : step[m] \notin {"idle", "waiting"} =>
                                   step'[m] \notin {"idle", "waiting"}
    BY <1>1, <1>3, <1>4
  <2>2. SUFFICES ASSUME NEW k \in BrowserLogins, why'[k] = "state mismatch"
                 PROVE  Stray(k, code'[k])
    BY <1>5, <2>1 DEF CallbacksFindTheirLogin, Stray
  <2>3. CASE why[k] = "state mismatch" /\ k # l
    <3>1. code'[k] = code[k]
      BY <2>3 DEF WaitEnds, WaitFails, TakesCode, SignInInv, Shape, CodeShape
    <3> QED BY <2>3, <3>1 DEF SignInInv, CallbacksFindTheirLogin, Stray
  <2>4. CASE k = l /\ WaitFails(l, "state mismatch")
    BY <2>4 DEF WaitFails, SignInInv, Shape, CodeShape
  <2> QED BY <1>13, <2>2, <2>3, <2>4
<1> QED BY <1>8, <1>9, <1>10, <1>11, <1>12, <1>14, <1>15 DEF SignInInv

\* The lines change: what stood there is served or ends, and what is new in them is
\* no callback, or a stranger's, or that of a login the user consents to.
LEMMA LineStep ==
    ASSUME SignInInv,
           LineShape',
           \A p \in PortSet : \A i \in 1..Len(backlog'[p]) :
              \/ backlog'[p][i].kind # "callback"
              \/ \E j \in 1..Len(backlog[p]) : backlog'[p][i] = backlog[p][j]
              \/ \E c \in Connections : backlog'[p][i] = c /\ CallbackOf(c, p)',
           \/ consent' = consent
           \/ \E l \in Logins, answer \in {"given", "denied"} :
                 consent[l] = "none" /\ consent' = [consent EXCEPT ![l] = answer],
           UNCHANGED <<step, why, ports, boundTo, code, account>>
    PROVE  SignInInv'
<1>1. ConsentShape' /\ \A l \in Logins : consent[l] = "given" => consent'[l] = "given"
  BY DEF SignInInv, Shape, ConsentShape
<1>2. BrowserLogins \subseteq Logins /\ DeviceLogins \subseteq Logins
  BY DEF Logins
<1>3. Shape'
  BY <1>1 DEF SignInInv, Shape, StepShape, WhyShape, PortShape, BoundShape, CodeShape,
              AccountShape
<1>4. Listening'
  <2>1. WaitingIsBound' /\ BoundHasBegun'
    BY DEF SignInInv, Listening, WaitingIsBound, BoundHasBegun
  <2>2. HolderWaits'
    BY DEF SignInInv, Listening, HolderWaits
  <2> QED BY <2>1, <2>2 DEF Listening
<1>5. OwnCode'
  BY <1>1, <1>2 DEF SignInInv, OwnCode, Taken
<1>6. HonestCallbacks'
  <2>1. SUFFICES ASSUME NEW p \in PortSet, NEW i \in 1..Len(backlog'[p]),
                        backlog'[p][i].kind = "callback"
                 PROVE  CallbackOf(backlog[p][i], p)'
    BY DEF HonestCallbacks, PortSet
  <2>2. CASE \E j \in 1..Len(backlog[p]) : backlog'[p][i] = backlog[p][j]
    <3>1. PICK j \in 1..Len(backlog[p]) : backlog'[p][i] = backlog[p][j]
      BY <2>2
    <3>2. CallbackOf(backlog[p][j], p)
      BY <2>1, <3>1 DEF SignInInv, HonestCallbacks
    <3> QED BY <1>1, <1>2, <3>1, <3>2 DEF CallbackOf
  <2>3. CASE \E c \in Connections : backlog'[p][i] = c /\ CallbackOf(c, p)'
    BY <2>3 DEF CallbackOf
  <2> QED BY <2>1, <2>2, <2>3
<1>7. StoredByConsent'
  BY <1>1, <1>2 DEF SignInInv, Shape, AccountShape, StoredByConsent
<1>8. MismatchIsEnd' /\ CallbacksFindTheirLogin'
  <2>1. MismatchIsEnd /\ CallbacksFindTheirLogin /\ UNCHANGED <<step, why, boundTo, code>>
    BY DEF SignInInv
  <2> QED BY ONLY <2>1 DEF MismatchIsEnd, CallbacksFindTheirLogin, Over
<1> QED BY <1>3, <1>4, <1>5, <1>6, <1>7, <1>8 DEF SignInInv

\* Nothing of this changes.
LEMMA OtherStep ==
    ASSUME SignInInv, UNCHANGED <<step, why, ports, boundTo, backlog, consent, code, account>>
    PROVE  SignInInv'
<1>1. LineShape'
  BY DEF SignInInv, Shape, LineShape
<1>2. \A p \in PortSet : \A i \in 1..Len(backlog'[p]) :
         \E j \in 1..Len(backlog[p]) : backlog'[p][i] = backlog[p][j]
  OBVIOUS
<1> QED BY <1>1, <1>2, LineStep

-----------------------------------------------------------------------------
(* The steps of Next.                                                      *)

LEMMA BindTakesFree ==
    BindLoopback # Nobody => BindLoopback \in PortSet /\ ports[BindLoopback] = Nobody
<1> DEFINE free == {i \in 1..2 : ports[Ports[i]] = Nobody}
<1>1. CASE free = {}
  BY <1>1 DEF BindLoopback
<1>2. CASE free # {}
  <2>1. Min(free) \in free
    <3>1. CASE 1 \in free
      <4>1. \A y \in free : 1 <= y
        OBVIOUS
      <4> QED BY <3>1, <4>1 DEF Min
    <3>2. CASE 1 \notin free
      <4>1. free = {2}
        BY <1>2, <3>2
      <4> QED BY <4>1 DEF Min
    <3> QED BY <3>1, <3>2
  <2>2. BindLoopback = Ports[Min(free)]
    BY <1>2 DEF BindLoopback
  <2>3. Min(free) \in {1, 2} /\ ports[Ports[Min(free)]] = Nobody
    BY <2>1
  <2> QED BY <2>2, <2>3 DEF PortSet
<1> QED BY <1>1, <1>2

LEMMA BrowserBegins ==
    ASSUME SignInInv, NEW l \in BrowserLogins, StartBrowser(l) PROVE SignInInv'
<1>1. step[l] = "idle" /\ l \in Logins
  BY DEF StartBrowser, MayStart, Logins
<1>2. CASE BindLoopback = Nobody
  <2>1. Fail(l, "no port")
    BY <1>2 DEF StartBrowser
  <2>2. UNCHANGED <<ports, boundTo, backlog, consent, code, account>>
    BY <1>2 DEF StartBrowser
  <2>3. "no port" \in Reasons \ {"state mismatch"} /\ "failed" \in Steps \ {"idle", "waiting"}
    BY DEF Reasons, Steps, BrowserSteps
  <2>4. l \notin DeviceLogins
    BY SignInAssumption
  <2> QED BY <1>1, <2>1, <2>2, <2>3, <2>4, PrivateStep DEF Fail
<1>3. CASE BindLoopback # Nobody
  <2>1. /\ Proceed(l, "waiting")
        /\ ports' = [ports EXCEPT ![BindLoopback] = l]
        /\ boundTo' = [boundTo EXCEPT ![l] = BindLoopback]
        /\ UNCHANGED <<backlog, consent, code, account>>
    BY <1>3 DEF StartBrowser
  <2> QED BY <1>1, <1>3, <2>1, BindTakesFree, StartStep DEF Proceed
<1> QED BY <1>2, <1>3

\* What a listening login reads is the first of its line.
LEMMA RequestInLine ==
    ASSUME SignInInv, NEW l \in BrowserLogins, NEW kinds, Serves(l, kinds)
    PROVE  /\ Waiting(l) /\ boundTo[l] \in PortSet
           /\ backlog[boundTo[l]] \in Seq(Connections) /\ backlog[boundTo[l]] # <<>>
           /\ 1 \in 1..Len(backlog[boundTo[l]])
           /\ Request(l) = backlog[boundTo[l]][1]
           /\ Request(l) \in Connections /\ Request(l).kind \in kinds
<1>1. Waiting(l) /\ backlog[boundTo[l]] # <<>> /\ Request(l).kind \in kinds
  BY DEF Serves
<1>2. boundTo[l] \in PortSet
  BY <1>1 DEF Waiting, SignInInv, Listening, WaitingIsBound
<1>3. backlog[boundTo[l]] \in Seq(Connections)
  BY <1>2 DEF SignInInv, Shape, LineShape
<1>4. 1 \in 1..Len(backlog[boundTo[l]])
  BY <1>1, <1>3, EmptySeq
<1>5. Request(l) = backlog[boundTo[l]][1]
  BY DEF Request
<1> QED BY <1>1, <1>2, <1>3, <1>4, <1>5

LEMMA BrowserServesOther ==
    ASSUME SignInInv, NEW l \in BrowserLogins, ServeOther(l) PROVE SignInInv'
<1>1. Serves(l, {"other"})
  BY DEF ServeOther
<1>2. /\ backlog' = [backlog EXCEPT ![boundTo[l]] = Tail(@)]
      /\ UNCHANGED <<step, why, ports, boundTo, code, consent, account>>
  BY DEF ServeOther
<1>3. /\ boundTo[l] \in PortSet
      /\ backlog[boundTo[l]] \in Seq(Connections) /\ backlog[boundTo[l]] # <<>>
  BY <1>1, RequestInLine
<1>4. \A p \in PortSet :
         backlog'[p] = IF p = boundTo[l] THEN Tail(backlog[p]) ELSE backlog[p]
  BY <1>2, <1>3 DEF SignInInv, Shape, LineShape
<1>5. LineShape'
  <2>1. Tail(backlog[boundTo[l]]) \in Seq(Connections)
    BY <1>3, HeadTailProperties
  <2> QED BY <1>2, <1>3, <2>1 DEF SignInInv, Shape, LineShape
<1>6. \A p \in PortSet : \A i \in 1..Len(backlog'[p]) :
         \E j \in 1..Len(backlog[p]) : backlog'[p][i] = backlog[p][j]
  <2>1. SUFFICES ASSUME NEW p \in PortSet, NEW i \in 1..Len(backlog'[p])
                 PROVE  \E j \in 1..Len(backlog[p]) : backlog'[p][i] = backlog[p][j]
    OBVIOUS
  <2>2. CASE p = boundTo[l]
    <3>1. /\ Len(Tail(backlog[p])) = Len(backlog[p]) - 1
          /\ \A n \in 1..Len(Tail(backlog[p])) : Tail(backlog[p])[n] = backlog[p][n + 1]
          /\ Len(backlog[p]) \in Nat
      BY <1>3, <2>2, HeadTailProperties
    <3>2. backlog'[p] = Tail(backlog[p])
      BY <1>4, <2>2
    <3>3. i \in 1..Len(Tail(backlog[p]))
      BY <3>2
    <3>4. i + 1 \in 1..Len(backlog[p])
      BY <3>1, <3>3
    <3>5. backlog'[p][i] = backlog[p][i + 1]
      BY <3>1, <3>2, <3>3
    <3> QED BY <3>4, <3>5
  <2>3. CASE p # boundTo[l]
    BY <1>4, <2>3
  <2> QED BY <2>2, <2>3
<1> QED BY <1>2, <1>5, <1>6, LineStep

LEMMA BrowserServesBadCallback ==
    ASSUME SignInInv, NEW l \in BrowserLogins, ServeBadCallback(l) PROVE SignInInv'
<1>1. Waiting(l)
  BY RequestInLine DEF ServeBadCallback
<1>2. WaitFails(l, "bad callback") /\ "bad callback" \in Reasons
  BY DEF ServeBadCallback, WaitFails, Reasons
<1>3. WaitEnds(l)
  BY <1>1, <1>2 DEF ServeBadCallback, WaitEnds
<1> QED BY <1>3, UnbindStep

LEMMA BrowserTimesOut ==
    ASSUME SignInInv, NEW l \in BrowserLogins, CallbackTimeOut(l) PROVE SignInInv'
<1>1. WaitFails(l, "timed out") /\ "timed out" \in Reasons
  BY DEF CallbackTimeOut, WaitFails, Reasons
<1>2. WaitEnds(l)
  BY <1>1 DEF CallbackTimeOut, WaitEnds
<1> QED BY <1>2, UnbindStep

LEMMA BrowserServesCallback ==
    ASSUME SignInInv, NEW l \in BrowserLogins, ServeCallback(l) PROVE SignInInv'
<1>1. Serves(l, {"callback"}) /\ Unbind(l) /\ UNCHANGED <<boundTo, consent, account>>
  BY DEF ServeCallback
<1>2. Waiting(l) /\ boundTo[l] \in PortSet /\ Request(l).kind = "callback"
  BY <1>1, RequestInLine
<1>3. CallbackOf(Request(l), boundTo[l])
  BY <1>1, <1>2, RequestInLine DEF SignInInv, HonestCallbacks
<1>4. CASE StateMatches(l)
  <2>1. Request(l).state = l /\ Request(l).code = l /\ consent[l] = "given"
    BY <1>3, <1>4, SignInAssumption DEF StateMatches, CallbackOf, Logins
  <2>2. TakesCode(l)
    BY <1>4, <2>1 DEF ServeCallback, TakesCode
  <2>3. WaitEnds(l)
    BY <1>1, <1>2, <2>2 DEF WaitEnds
  <2> QED BY <2>3, UnbindStep
<1>5. CASE ~StateMatches(l)
  <2> DEFINE m == Request(l).code
  <2>1. m \in Senders
    BY <1>3 DEF CallbackOf, Senders, Logins
  <2>2. Stray(l, m)
    <3>1. CASE m = Stranger
      BY <3>1 DEF Stray
    <3>2. CASE m # Stranger
      <4>1. m \in BrowserLogins \ {l} /\ boundTo[m] = boundTo[l]
        BY <1>3, <1>5, <3>2 DEF CallbackOf, StateMatches
      <4>2. step[m] # "idle"
        <5>1. boundTo[m] # Nobody
          BY <1>2, <4>1, SignInAssumption
        <5> QED BY <4>1, <5>1 DEF SignInInv, Listening, BoundHasBegun
      <4>3. step[m] # "waiting"
        <5>1. HolderWaits /\ step[l] = "waiting"
          BY <1>2 DEF Waiting, SignInInv, Listening
        <5>2. ports[boundTo[l]] = l
          BY <1>2, <5>1 DEF HolderWaits
        <5> QED BY <1>2, <4>1, <5>1, <5>2 DEF HolderWaits
      <4> QED BY <4>1, <4>2, <4>3 DEF Stray
    <3> QED BY <3>1, <3>2
  <2>3. WaitFails(l, "state mismatch") /\ "state mismatch" \in Reasons
    BY <1>5, <2>1, <2>2 DEF ServeCallback, WaitFails, Reasons
  <2>4. WaitEnds(l)
    BY <1>1, <1>2, <2>3 DEF WaitEnds
  <2> QED BY <2>4, UnbindStep
<1> QED BY <1>4, <1>5

\* The code of a login that exchanges is its own, and so are the tokens it stores.
LEMMA LoginGoesOn ==
    ASSUME SignInInv, NEW l \in Logins, Rejected(l) \/ StoreTokens(l) PROVE SignInInv'
<1>1. UNCHANGED <<ports, boundTo, backlog, consent, code>>
  BY DEF Rejected, StoreTokens, browserVars
<1>2. {"failed", "done", "discovering"} \subseteq Steps \ {"idle", "waiting"}
  BY DEF Steps, BrowserSteps
<1>3. {"configuration", "store"} \subseteq Reasons \ {"state mismatch"}
  BY DEF Reasons
<1>4. CASE Rejected(l)
  <2>1. step[l] = "idle" /\ Fail(l, "configuration") /\ account' = account
    BY <1>4 DEF Rejected, MayStart
  <2> QED BY <1>1, <1>2, <1>3, <2>1, PrivateStep DEF Fail
<1>5. CASE StoreTokens(l)
  <2>1. step[l] = "storing"
    BY <1>5 DEF StoreTokens
  <2>2. CASE Fail(l, "store") /\ UNCHANGED account
    BY <1>1, <1>2, <1>3, <2>1, <2>2, PrivateStep DEF Fail
  <2>3. CASE l \notin DeviceLogins /\ Proceed(l, "done") /\ account' = l
    BY <1>1, <1>2, <1>3, <2>1, <2>3, PrivateStep DEF Proceed
  <2>4. CASE l \in DeviceLogins /\ Proceed(l, "discovering") /\ account' = l
    <3>1. l \notin BrowserLogins
      BY <2>4, SignInAssumption
    <3> QED BY <1>1, <1>2, <1>3, <2>1, <2>4, <3>1, PrivateStep DEF Proceed
  <2> QED BY <1>5, <2>2, <2>3, <2>4 DEF StoreTokens
<1> QED BY <1>4, <1>5

LEMMA BrowserExchanges ==
    ASSUME SignInInv, NEW l \in BrowserLogins, ExchangeCode(l) PROVE SignInInv'
<1>1. /\ step[l] = "exchanging"
      /\ UNCHANGED <<ports, boundTo, backlog, consent, code, account>>
  BY DEF ExchangeCode, browserVars
<1>2. {"failed", "storing"} \subseteq Steps \ {"idle", "waiting"}
  BY DEF Steps, BrowserSteps
<1>3. "exchange" \in Reasons \ {"state mismatch"}
  BY DEF Reasons
<1>4. l \in Logins /\ l \notin DeviceLogins
  BY SignInAssumption DEF Logins
<1>5. CASE Fail(l, "exchange")
  BY <1>1, <1>2, <1>3, <1>4, <1>5, PrivateStep DEF Fail
<1>6. CASE Proceed(l, "storing")
  BY <1>1, <1>2, <1>3, <1>4, <1>6, PrivateStep DEF Proceed
<1> QED BY <1>5, <1>6 DEF ExchangeCode

LEMMA DeviceGoesOn ==
    ASSUME SignInInv, NEW l \in DeviceLogins,
           \/ RequestDeviceCode(l) \/ Check(l) \/ Poll(l)
           \/ AnswerWait(l) \/ AnswerSuccess(l) \/ AnswerEnd(l) \/ DiscoverModels(l)
    PROVE  SignInInv'
<1>1. UNCHANGED <<ports, boundTo, backlog, consent, code, account>>
  BY DEF RequestDeviceCode, Check, Poll, AnswerWait, AnswerSuccess, AnswerEnd, DiscoverModels,
         browserVars
<1>2. l \in Logins /\ l \notin BrowserLogins
  BY SignInAssumption DEF Logins
<1>3. step[l] \in {"idle", "checking", "sleeping", "polling", "discovering"}
  BY DEF RequestDeviceCode, MayStart, Check, Poll, AnswerWait, AnswerSuccess, AnswerEnd,
         DiscoverModels
<1>4. \/ \E reason \in {"no device code", "timed out", "denied", "poll", "store"} :
            Fail(l, reason)
      \/ \E to \in {"checking", "sleeping", "polling", "done"} : Proceed(l, to)
      \/ Proceed(l, "storing") /\ consent[l] = "given"
  BY DEF RequestDeviceCode, Check, Poll, AnswerWait, AnswerSuccess, AnswerEnd, DiscoverModels
<1>5. ASSUME NEW reason \in {"no device code", "timed out", "denied", "poll", "store"},
             Fail(l, reason)
      PROVE  SignInInv'
  <2>1. reason \in Reasons \ {"state mismatch"} /\ "failed" \in Steps \ {"idle", "waiting"}
    BY DEF Reasons, Steps, BrowserSteps
  <2> QED BY <1>1, <1>2, <1>3, <1>5, <2>1, PrivateStep DEF Fail
<1>6. ASSUME NEW to \in {"checking", "sleeping", "polling", "done", "storing"}, Proceed(l, to),
             to = "storing" => consent[l] = "given"
      PROVE  SignInInv'
  <2>1. to \in Steps \ {"idle", "waiting"} /\ "poll" \in Reasons \ {"state mismatch"}
    BY DEF Reasons, Steps, BrowserSteps
  <2> QED BY <1>1, <1>2, <1>3, <1>6, <2>1, PrivateStep DEF Proceed
<1> QED BY <1>4, <1>5, <1>6

\* A request that arrives stands last in its line.
LEMMA ArrivalStep ==
    ASSUME SignInInv, NEW p \in PortSet, NEW c \in Connections, Arrives(p, c)
    PROVE  /\ LineShape'
           /\ \A q \in PortSet : \A i \in 1..Len(backlog'[q]) :
                 \/ \E j \in 1..Len(backlog[q]) : backlog'[q][i] = backlog[q][j]
                 \/ q = p /\ backlog'[q][i] = c
<1>1. backlog[p] \in Seq(Connections) /\ LineShape
  BY DEF SignInInv, Shape, LineShape
<1>2. CASE ports[p] \notin BrowserLogins
  BY <1>1, <1>2 DEF Arrives, LineShape
<1>3. CASE ports[p] \in BrowserLogins
  <2>1. backlog' = [backlog EXCEPT ![p] = Append(@, c)]
    BY <1>3 DEF Arrives
  <2>2. LineShape'
    <3>1. Append(backlog[p], c) \in Seq(Connections)
      BY <1>1, AppendProperties
    <3> QED BY <1>1, <2>1, <3>1 DEF LineShape
  <2>3. \A q \in PortSet :
           backlog'[q] = IF q = p THEN Append(backlog[p], c) ELSE backlog[q]
    BY <1>1, <2>1 DEF LineShape
  <2>4. SUFFICES ASSUME NEW q \in PortSet, NEW i \in 1..Len(backlog'[q])
                 PROVE  \/ \E j \in 1..Len(backlog[q]) : backlog'[q][i] = backlog[q][j]
                        \/ q = p /\ backlog'[q][i] = c
    BY <2>2
  <2>5. CASE q # p
    BY <2>3, <2>5
  <2>6. CASE q = p
    <3>1. /\ Len(Append(backlog[p], c)) = Len(backlog[p]) + 1
          /\ \A n \in 1..Len(backlog[p]) : Append(backlog[p], c)[n] = backlog[p][n]
          /\ Append(backlog[p], c)[Len(backlog[p]) + 1] = c
          /\ Len(backlog[p]) \in Nat
      BY <1>1, AppendProperties, LenProperties
    <3>2. backlog'[q] = Append(backlog[p], c)
      BY <2>3, <2>6
    <3>3. i \in 1..Len(Append(backlog[p], c))
      BY <3>2
    <3>4. i \in 1..Len(backlog[p]) \/ i = Len(backlog[p]) + 1
      BY <3>1, <3>3
    <3> QED BY <2>6, <3>1, <3>2, <3>4
  <2> QED BY <2>5, <2>6
<1> QED BY <1>2, <1>3

\* The user answers the page or the device: only a consent brings a callback, and it
\* arrives at the port its login was bound to.
LEMMA UserAnswers ==
    ASSUME SignInInv, NEW l \in Logins, Authorise(l) \/ Deny(l) PROVE SignInInv'
<1>1. consent[l] = "none" /\ UNCHANGED <<step, why, ports, boundTo, code, account>>
  BY DEF Authorise, Deny
<1>2. PICK answer \in {"given", "denied"} : /\ consent' = [consent EXCEPT ![l] = answer]
                                            /\ answer = "given" <=> Authorise(l)
  <2>1. CASE Authorise(l)
    BY <2>1 DEF Authorise
  <2>2. CASE ~Authorise(l)
    BY <2>2 DEF Deny
  <2> QED BY <2>1, <2>2
<1>3. \/ consent' = consent
      \/ \E k \in Logins, a \in {"given", "denied"} :
            consent[k] = "none" /\ consent' = [consent EXCEPT ![k] = a]
  BY <1>1, <1>2
<1>4. CASE l \in DeviceLogins
  <2>1. backlog' = backlog
    BY <1>4 DEF Authorise, Deny
  <2>2. LineShape'
    BY <2>1 DEF SignInInv, Shape, LineShape
  <2>3. \A p \in PortSet : \A i \in 1..Len(backlog'[p]) :
           \E j \in 1..Len(backlog[p]) : backlog'[p][i] = backlog[p][j]
    BY <2>1
  <2> QED BY <1>1, <1>3, <2>2, <2>3, LineStep
<1>5. CASE l \notin DeviceLogins
  <2>1. l \in BrowserLogins /\ boundTo[l] # Nobody
    BY <1>5 DEF Authorise, Deny, Logins
  <2>2. boundTo[l] \in PortSet
    BY <2>1 DEF SignInInv, Shape, BoundShape
  <2>3. PICK c \in Connections :
           /\ Arrives(boundTo[l], c)
           /\ c.kind # "callback" \/ (c.state = l /\ c.code = l /\ Authorise(l))
    <3>1. CASE Authorise(l)
      <4> DEFINE c == [kind |-> "callback", state |-> l, code |-> l]
      <4>1. Arrives(boundTo[l], c)
        BY <1>5, <3>1 DEF Authorise, AuthorizeUrl, Callback
      <4>2. c \in Connections /\ c.state = l /\ c.code = l
        BY DEF Connections, Senders
      <4> QED BY <3>1, <4>1, <4>2
    <3>2. CASE Deny(l)
      <4> DEFINE c == [kind |-> "bad", state |-> l, code |-> NoLogin]
      <4>1. Arrives(boundTo[l], c)
        BY <1>5, <3>2 DEF Deny, AuthorizeUrl
      <4>2. c \in Connections /\ c.kind # "callback"
        BY DEF Connections, Senders
      <4> QED BY <4>1, <4>2
    <3> QED BY <3>1, <3>2
  <2>4. LineShape' /\ \A q \in PortSet : \A i \in 1..Len(backlog'[q]) :
                         \/ \E j \in 1..Len(backlog[q]) : backlog'[q][i] = backlog[q][j]
                         \/ q = boundTo[l] /\ backlog'[q][i] = c
    BY <2>2, <2>3, ArrivalStep
  <2>5. Authorise(l) => consent'[l] = "given"
    BY <1>2 DEF SignInInv, Shape, ConsentShape
  <2>6. \A q \in PortSet : \A i \in 1..Len(backlog'[q]) :
           \/ backlog'[q][i].kind # "callback"
           \/ \E j \in 1..Len(backlog[q]) : backlog'[q][i] = backlog[q][j]
           \/ \E k \in Connections : backlog'[q][i] = k /\ CallbackOf(k, q)'
    <3>1. c.kind # "callback" \/ CallbackOf(c, boundTo[l])'
      BY <1>1, <2>1, <2>3, <2>5 DEF CallbackOf
    <3>2. boundTo' = boundTo
      BY <1>1
    <3> QED BY <2>4, <3>1, <3>2
  <2> QED BY <1>1, <1>3, <2>4, <2>6, LineStep
<1> QED BY <1>4, <1>5

\* A stranger's callback says so in its state.
LEMMA Visitors ==
    ASSUME SignInInv, NEW p \in PortSet, Visit(p) PROVE SignInInv'
<1>1. UNCHANGED <<step, why, ports, boundTo, code, consent, account>>
  BY DEF Visit
<1>2. PICK kind \in {"silent", "other", "bad", "callback"} :
         Arrives(p, [kind |-> kind, state |-> Stranger, code |-> Stranger])
  BY DEF Visit
<1> DEFINE c == [kind |-> kind, state |-> Stranger, code |-> Stranger]
<1>3. c \in Connections /\ c.state = Stranger /\ c.code = Stranger
  BY DEF Connections, Senders
<1>4. LineShape' /\ \A q \in PortSet : \A i \in 1..Len(backlog'[q]) :
                       \/ \E j \in 1..Len(backlog[q]) : backlog'[q][i] = backlog[q][j]
                       \/ q = p /\ backlog'[q][i] = c
  BY <1>2, <1>3, ArrivalStep
<1>5. \A q \in PortSet : \A i \in 1..Len(backlog'[q]) :
         \/ \E j \in 1..Len(backlog[q]) : backlog'[q][i] = backlog[q][j]
         \/ \E k \in Connections : backlog'[q][i] = k /\ CallbackOf(k, q)'
  <2>1. CallbackOf(c, p)'
    BY <1>3 DEF CallbackOf
  <2> QED BY <1>3, <1>4, <2>1
<1> QED BY <1>1, <1>4, <1>5, LineStep

\* A page loaded again brings the callback the user's consent brought.
LEMMA PageReloads ==
    ASSUME SignInInv, NEW l \in BrowserLogins, Reload(l) PROVE SignInInv'
<1>1. /\ UNCHANGED <<step, why, ports, boundTo, code, consent, account>>
      /\ consent[l] = "given" /\ boundTo[l] # Nobody
  BY DEF Reload
<1>2. boundTo[l] \in PortSet
  BY <1>1 DEF SignInInv, Shape, BoundShape
<1> DEFINE c == [kind |-> "callback", state |-> l, code |-> l]
<1>3. Arrives(boundTo[l], c)
  BY DEF Reload, AuthorizeUrl, Callback
<1>4. c \in Connections /\ c.state = l /\ c.code = l
  BY DEF Connections, Senders, Logins
<1>5. LineShape' /\ \A q \in PortSet : \A i \in 1..Len(backlog'[q]) :
                       \/ \E j \in 1..Len(backlog[q]) : backlog'[q][i] = backlog[q][j]
                       \/ q = boundTo[l] /\ backlog'[q][i] = c
  BY <1>2, <1>3, <1>4, ArrivalStep
<1>6. \A q \in PortSet : \A i \in 1..Len(backlog'[q]) :
         \/ \E j \in 1..Len(backlog[q]) : backlog'[q][i] = backlog[q][j]
         \/ \E k \in Connections : backlog'[q][i] = k /\ CallbackOf(k, q)'
  <2>1. CallbackOf(c, boundTo[l])'
    BY <1>1, <1>4 DEF CallbackOf
  <2>2. boundTo' = boundTo /\ c \in Connections
    BY <1>1, <1>4
  <2> HIDE DEF c
  <2> QED BY <1>5, <2>1, <2>2
<1> QED BY <1>1, <1>5, <1>6, LineStep

LEMMA VisitorHangsUp ==
    ASSUME SignInInv, NEW p \in PortSet, HangUp(p) PROVE SignInInv'
<1>1. UNCHANGED <<step, why, ports, boundTo, code, consent, account>>
  BY DEF HangUp
<1>2. backlog[p] \in Seq(Connections) /\ backlog[p] # <<>> /\ LineShape
  BY DEF HangUp, SignInInv, Shape, LineShape
<1> DEFINE c == [backlog[p][1] EXCEPT !.kind = "other"]
           line == [backlog[p] EXCEPT ![1] = c]
<1>3. backlog' = [backlog EXCEPT ![p] = line]
  BY DEF HangUp
<1>4. 1 \in 1..Len(backlog[p]) /\ backlog[p][1] \in Connections
  BY <1>2, EmptySeq
<1>5. c \in Connections /\ c.kind # "callback"
  BY <1>4 DEF Connections
<1>6. /\ line \in Seq(Connections)
      /\ Len(line) = Len(backlog[p])
      /\ \A i \in 1..Len(backlog[p]) : line[i] = IF i = 1 THEN c ELSE backlog[p][i]
  BY <1>2, <1>4, <1>5, ExceptSeq
<1> HIDE DEF line, c
<1>7. LineShape'
  BY <1>2, <1>3, <1>6 DEF LineShape
<1>8. \A q \in PortSet : backlog'[q] = IF q = p THEN line ELSE backlog[q]
  BY <1>2, <1>3 DEF LineShape
<1>9. \A q \in PortSet : \A i \in 1..Len(backlog'[q]) :
         \/ backlog'[q][i].kind # "callback"
         \/ \E j \in 1..Len(backlog[q]) : backlog'[q][i] = backlog[q][j]
  <2>1. SUFFICES ASSUME NEW q \in PortSet, NEW i \in 1..Len(backlog'[q])
                 PROVE  \/ backlog'[q][i].kind # "callback"
                        \/ \E j \in 1..Len(backlog[q]) : backlog'[q][i] = backlog[q][j]
    OBVIOUS
  <2>2. CASE q = p
    <3>1. backlog'[q] = line /\ i \in 1..Len(backlog[p])
      BY <1>6, <1>8, <2>2
    <3> QED BY <1>5, <1>6, <2>2, <3>1
  <2>3. CASE q # p
    BY <1>8, <2>3
  <2> QED BY <2>2, <2>3
<1> QED BY <1>1, <1>7, <1>9, LineStep

LEMMA NextSignIn == SignInInv /\ [Next]_signInVars => SignInInv'
<1> SUFFICES ASSUME SignInInv, [Next]_signInVars PROVE SignInInv'
  OBVIOUS
<1>1. ASSUME NEW l \in Logins, Rejected(l) PROVE SignInInv'
  BY <1>1, LoginGoesOn
<1>2. ASSUME NEW l \in BrowserLogins, StartBrowser(l) PROVE SignInInv'
  BY <1>2, BrowserBegins
<1>3. ASSUME NEW l \in BrowserLogins, BrowserStep(l) PROVE SignInInv'
  <2>1. l \in Logins
    BY DEF Logins
  <2> QED BY <1>3, <2>1, BrowserServesOther, BrowserServesBadCallback,
             BrowserServesCallback, BrowserTimesOut, BrowserExchanges, LoginGoesOn
          DEF BrowserStep
<1>4. ASSUME NEW l \in DeviceLogins, RequestDeviceCode(l) \/ DeviceStep(l) PROVE SignInInv'
  <2>1. l \in Logins
    BY DEF Logins
  <2> QED BY <1>4, <2>1, DeviceGoesOn, LoginGoesOn DEF DeviceStep
<1>5. CASE Tick
  BY <1>5, OtherStep DEF Tick, browserVars
<1>6. CASE Outside
  BY <1>6, UserAnswers, PageReloads, Visitors, VisitorHangsUp DEF Outside
<1>7. CASE UNCHANGED signInVars
  BY <1>7, OtherStep DEF signInVars, browserVars
<1> QED BY <1>1, <1>2, <1>3, <1>4, <1>5, <1>6, <1>7 DEF Next

THEOREM SignInInvariance == Spec => []SignInInv
<1>1. Init => SignInInv
  BY InitSignIn
<1>2. SignInInv /\ [Next]_signInVars => SignInInv'
  BY NextSignIn
<1> QED BY <1>1, <1>2, PTL DEF Spec

\* A login exchanges no code but its own, and tokens are stored only after the user
\* has consented to the very login they belong to (openai_oauth.rs and github.rs),
\* for any number of logins, one after the other on a port or side by side.
THEOREM CodeIsOwnHolds == Spec => []CodeIsOwn
<1>1. SignInInv => CodeIsOwn
  BY InvGivesCodeIsOwn
<1> QED BY <1>1, SignInInvariance, PTL

\* A login that fails for the state of its callback was given a stranger's, or that of
\* a login which was bound to the same port and has stopped waiting, late or repeated:
\* never that of a login that waits beside it (wait_for_callback and the state check
\* in openai_oauth.rs).
THEOREM CallbacksFindTheirLoginHolds == Spec => []CallbacksFindTheirLogin
<1>1. SignInInv => CallbacksFindTheirLogin
  BY DEF SignInInv
<1> QED BY <1>1, SignInInvariance, PTL

-----------------------------------------------------------------------------
(* How often GitHub is polled.                                             *)

Begun == {"checking", "sleeping", "polling"}

\* The interval is what was asked for or more, and the rest of a sleep makes up for
\* what the time since the last poll lacks.
PollInv ==
    /\ timer \in [DeviceLogins -> [left : Nat, nap : Nat, interval : Nat]]
    /\ github \in [DeviceLogins -> [asked : 0..MaxWait, since : 0..MaxWait]]
    /\ \A l \in DeviceLogins :
          /\ step[l] \in Begun => timer[l].interval >= AtLeastOne(github[l].asked)
          /\ step[l] = "sleeping" => github[l].since + timer[l].nap >= github[l].asked

LEMMA MaxOfTwo ==
    ASSUME NEW m \in Int, NEW n \in Int
    PROVE  Max({m, n}) = IF m >= n THEN m ELSE n
BY DEF Max

LEMMA MinOfTwo ==
    ASSUME NEW m \in Int, NEW n \in Int
    PROVE  Min({m, n}) = IF m <= n THEN m ELSE n
BY DEF Min

LEMMA AtLeastOneOf ==
    ASSUME NEW n \in Nat
    PROVE  AtLeastOne(n) = IF n >= 1 THEN n ELSE 1
BY MaxOfTwo DEF AtLeastOne

LEMMA MaxOfOne ==
    ASSUME NEW n \in Nat
    PROVE  Max({n}) = n
BY DEF Max

LEMMA Numbers ==
    /\ DefaultWait \in Nat /\ MaxWait \in Nat /\ MaxLimit \in Nat
    /\ 1 <= DefaultWait /\ DefaultWait <= MaxWait
BY SignInAssumption

\* A login that does not touch the clocks gets no further than to its next check.
LEMMA ClocksStay ==
    ASSUME PollInv, UNCHANGED deviceVars,
           \A l \in DeviceLogins : step'[l] \in Begun =>
              step'[l] = step[l] \/ (step[l] = "polling" /\ step'[l] = "checking")
    PROVE  PollInv'
BY DEF PollInv, deviceVars, Begun

LEMMA DeviceCodePolls ==
    ASSUME SignInInv, PollInv, NEW l \in DeviceLogins, RequestDeviceCode(l)
    PROVE  PollInv'
<1>1. \A m \in DeviceLogins \ {l} : step'[m] = step[m]
  BY DEF RequestDeviceCode, Fail, Proceed, SignInInv, Shape, StepShape, Logins
<1>2. CASE UNCHANGED deviceVars /\ Fail(l, "no device code")
  <2>1. step'[l] = "failed"
    BY <1>2 DEF Fail, SignInInv, Shape, StepShape, Logins
  <2> QED BY <1>1, <1>2, <2>1, ClocksStay DEF Begun
<1>3. ASSUME NEW timeout \in 0..MaxLimit, NEW expires \in 0..MaxLimit,
             NEW given \in Optional(0..MaxWait),
             Proceed(l, "checking"),
             timer' = [timer EXCEPT ![l] =
                          [left     |-> AtLeastOne(Min({timeout, expires})),
                           nap      |-> 0,
                           interval |-> FirstInterval(given)]],
             github' = [github EXCEPT ![l] =
                          [asked |-> IF given = {} THEN DefaultWait ELSE Max(given),
                           since |-> 0]]
      PROVE  PollInv'
  <2> DEFINE wait  == FirstInterval(given)
             asked == IF given = {} THEN DefaultWait ELSE Max(given)
             life  == AtLeastOne(Min({timeout, expires}))
  <2>1. life \in Nat
    <3>1. Min({timeout, expires}) \in Nat
      BY MinOfTwo, Numbers
    <3> QED BY <3>1, AtLeastOneOf
  <2>2. wait \in Nat /\ asked \in 0..MaxWait /\ wait >= AtLeastOne(asked)
    <3>1. CASE given = {}
      BY <3>1, Numbers, AtLeastOneOf DEF FirstInterval
    <3>2. CASE given # {}
      <4>1. PICK n \in 0..MaxWait : given = {n}
        BY <3>2 DEF Optional
      <4>2. Max(given) = n /\ n \in Nat
        BY <4>1, MaxOfOne, Numbers
      <4> QED BY <3>2, <4>1, <4>2, AtLeastOneOf DEF FirstInterval
    <3> QED BY <3>1, <3>2
  <2> HIDE DEF wait, asked, life
  <2>3. /\ timer' = [timer EXCEPT ![l] = [left |-> life, nap |-> 0, interval |-> wait]]
        /\ github' = [github EXCEPT ![l] = [asked |-> asked, since |-> 0]]
    BY <1>3 DEF wait, asked, life
  <2>4. timer' \in [DeviceLogins -> [left : Nat, nap : Nat, interval : Nat]]
    BY <2>1, <2>2, <2>3 DEF PollInv
  <2>5. github' \in [DeviceLogins -> [asked : 0..MaxWait, since : 0..MaxWait]]
    BY <2>2, <2>3, Numbers DEF PollInv
  <2>6. /\ timer'[l].interval = wait /\ github'[l].asked = asked
        /\ step'[l] = "checking"
        /\ \A m \in DeviceLogins \ {l} : timer'[m] = timer[m] /\ github'[m] = github[m]
    BY <1>3, <2>3 DEF PollInv, Proceed, SignInInv, Shape, StepShape, Logins
  <2> QED BY <1>1, <2>2, <2>4, <2>5, <2>6 DEF PollInv
<1> QED BY <1>2, <1>3 DEF RequestDeviceCode

LEMMA CheckPolls ==
    ASSUME SignInInv, PollInv, NEW l \in DeviceLogins, Check(l)
    PROVE  PollInv'
<1>1. \A m \in DeviceLogins \ {l} : step'[m] = step[m]
  BY DEF Check, Fail, Proceed, SignInInv, Shape, StepShape, Logins
<1>2. CASE DeadlinePassed(l)
  <2>1. step'[l] = "failed" /\ UNCHANGED deviceVars
    BY <1>2 DEF Check, Fail, deviceVars, browserVars, SignInInv, Shape, StepShape, Logins
  <2> QED BY <1>1, <2>1, ClocksStay DEF Begun
<1>3. CASE ~DeadlinePassed(l)
  <2>1. /\ step[l] = "checking" /\ step'[l] = "sleeping" /\ github' = github
        /\ timer' = [timer EXCEPT ![l].nap = timer[l].interval]
    BY <1>3 DEF Check, Proceed, SignInInv, Shape, StepShape, Logins
  <2>2. /\ timer' \in [DeviceLogins -> [left : Nat, nap : Nat, interval : Nat]]
        /\ timer'[l].nap = timer[l].interval /\ timer'[l].interval = timer[l].interval
        /\ \A m \in DeviceLogins \ {l} : timer'[m] = timer[m]
    BY <2>1 DEF PollInv
  <2>3. /\ github[l].asked \in Nat /\ github[l].since \in Nat /\ timer[l].interval \in Nat
        /\ timer[l].interval >= AtLeastOne(github[l].asked)
    BY <2>1, Numbers DEF PollInv, Begun
  <2>4. github[l].since + timer'[l].nap >= github[l].asked
    BY <2>2, <2>3, AtLeastOneOf
  <2> QED BY <1>1, <2>1, <2>2, <2>3, <2>4 DEF PollInv
<1> QED BY <1>2, <1>3

LEMMA PollPolls ==
    ASSUME SignInInv, PollInv, NEW l \in DeviceLogins, Poll(l)
    PROVE  PollInv'
<1>1. /\ step[l] = "sleeping" /\ step'[l] = "polling" /\ timer' = timer
      /\ github' = [github EXCEPT ![l].since = 0]
      /\ \A m \in DeviceLogins \ {l} : step'[m] = step[m]
  BY DEF Poll, Proceed, SignInInv, Shape, StepShape, Logins
<1>2. /\ github' \in [DeviceLogins -> [asked : 0..MaxWait, since : 0..MaxWait]]
      /\ github'[l].asked = github[l].asked
      /\ \A m \in DeviceLogins \ {l} : github'[m] = github[m]
  BY <1>1, Numbers DEF PollInv
<1> QED BY <1>1, <1>2 DEF PollInv, Begun

LEMMA AnswerPolls ==
    ASSUME SignInInv, PollInv, NEW l \in DeviceLogins, AnswerWait(l)
    PROVE  PollInv'
<1>1. /\ step[l] = "polling" /\ step'[l] = "checking"
      /\ \A m \in DeviceLogins \ {l} : step'[m] = step[m]
  BY DEF AnswerWait, Proceed, SignInInv, Shape, StepShape, Logins
<1>2. /\ github[l].asked \in Nat /\ timer[l].interval \in Nat
      /\ timer[l].interval >= AtLeastOne(github[l].asked)
  BY <1>1, Numbers DEF PollInv, Begun
<1>3. CASE UNCHANGED deviceVars
  BY <1>1, <1>3, ClocksStay
<1>4. ASSUME NEW wait \in Nat, NEW asked \in 0..MaxWait, wait >= AtLeastOne(asked),
             timer' = [timer EXCEPT ![l].interval = wait],
             github' = [github EXCEPT ![l].asked = asked]
      PROVE  PollInv'
  <2>1. /\ timer' \in [DeviceLogins -> [left : Nat, nap : Nat, interval : Nat]]
        /\ timer'[l].interval = wait
        /\ \A m \in DeviceLogins \ {l} : timer'[m] = timer[m]
    BY <1>4 DEF PollInv
  <2>2. /\ github' \in [DeviceLogins -> [asked : 0..MaxWait, since : 0..MaxWait]]
        /\ github'[l].asked = asked
        /\ \A m \in DeviceLogins \ {l} : github'[m] = github[m]
    BY <1>4 DEF PollInv
  <2> QED BY <1>1, <1>4, <2>1, <2>2 DEF PollInv
<1>5. ASSUME NEW given \in 0..MaxWait,
             timer' = [timer EXCEPT ![l].interval = AtLeastOne(given)],
             github' = [github EXCEPT ![l].asked = given]
      PROVE  PollInv'
  <2>1. given \in Nat /\ AtLeastOne(given) \in Nat /\ AtLeastOne(given) >= AtLeastOne(given)
    BY Numbers, AtLeastOneOf
  <2> QED BY <1>4, <1>5, <2>1
<1>6. ASSUME NEW given \in Optional(0..MaxWait),
             given = {} => Slower(l) <= MaxWait,
             timer' = [timer EXCEPT ![l].interval = SlowedDown(l, given)],
             github' = [github EXCEPT ![l].asked = IF given = {} THEN Slower(l) ELSE Max(given)]
      PROVE  PollInv'
  <2>1. CASE given = {}
    <3>1. SlowedDown(l, given) = timer[l].interval + DefaultWait
      BY <2>1 DEF SlowedDown
    <3>2. Slower(l) = AtLeastOne(github[l].asked) + DefaultWait
      BY DEF Slower, AtLeastOne
    <3>3. AtLeastOne(github[l].asked) \in Nat
      BY <1>2, AtLeastOneOf
    <3>4. /\ SlowedDown(l, given) \in Nat /\ Slower(l) \in 0..MaxWait /\ Slower(l) >= 1
          /\ SlowedDown(l, given) >= Slower(l)
      BY <1>2, <1>6, <2>1, <3>1, <3>2, <3>3, Numbers
    <3>5. SlowedDown(l, given) >= AtLeastOne(Slower(l))
      BY <3>4, Numbers, AtLeastOneOf
    <3> QED BY <1>4, <1>6, <2>1, <3>4, <3>5
  <2>2. CASE given # {}
    <3>1. PICK n \in 0..MaxWait : given = {n}
      BY <2>2 DEF Optional
    <3>2. Max(given) = n /\ n \in Nat
      BY <3>1, MaxOfOne, Numbers
    <3>3. SlowedDown(l, given) = AtLeastOne(n)
      BY <2>2, <3>2 DEF SlowedDown
    <3> QED BY <1>5, <1>6, <2>2, <3>2, <3>3
  <2> QED BY <2>1, <2>2
<1> QED BY <1>3, <1>5, <1>6 DEF AnswerWait

LEMMA TickPolls ==
    ASSUME PollInv, Tick
    PROVE  PollInv'
<1>1. ASSUME NEW l \in DeviceLogins
      PROVE  /\ timer'[l] \in [left : Nat, nap : Nat, interval : Nat]
             /\ timer'[l].interval = timer[l].interval
             /\ timer'[l].nap = IF timer[l].nap = 0 THEN 0 ELSE timer[l].nap - 1
             /\ github'[l] \in [asked : 0..MaxWait, since : 0..MaxWait]
             /\ github'[l].asked = github[l].asked
             /\ github'[l].since = IF github[l].since = MaxWait THEN MaxWait
                                   ELSE github[l].since + 1
  <2>1. /\ timer[l] \in [left : Nat, nap : Nat, interval : Nat]
        /\ github[l] \in [asked : 0..MaxWait, since : 0..MaxWait]
    BY DEF PollInv
  <2> DEFINE left  == Max({timer[l].left, 1}) - 1
             nap   == Max({timer[l].nap, 1}) - 1
             since == Min({github[l].since + 1, MaxWait})
  <2>2. left \in Nat /\ nap = IF timer[l].nap = 0 THEN 0 ELSE timer[l].nap - 1
    BY <2>1, MaxOfTwo
  <2>3. since = IF github[l].since = MaxWait THEN MaxWait ELSE github[l].since + 1
    BY <2>1, MinOfTwo, Numbers
  <2> HIDE DEF left, nap, since
  <2>4. /\ timer'[l] = [timer[l] EXCEPT !.left = left, !.nap = nap]
        /\ github'[l] = [github[l] EXCEPT !.since = since]
    BY DEF Tick, left, nap, since
  <2>5. nap \in Nat /\ since \in 0..MaxWait
    BY <2>1, <2>2, <2>3, Numbers
  <2> QED BY <2>1, <2>2, <2>3, <2>4, <2>5
<1>2. /\ timer' \in [DeviceLogins -> [left : Nat, nap : Nat, interval : Nat]]
      /\ github' \in [DeviceLogins -> [asked : 0..MaxWait, since : 0..MaxWait]]
  BY <1>1 DEF Tick
<1>3. ASSUME NEW l \in DeviceLogins, step[l] = "sleeping"
      PROVE  github'[l].since + timer'[l].nap >= github'[l].asked
  <2>1. /\ github[l].since \in 0..MaxWait /\ github[l].asked \in 0..MaxWait
        /\ timer[l].nap \in Nat /\ github[l].since + timer[l].nap >= github[l].asked
    BY <1>3 DEF PollInv
  <2> QED BY <1>1, <2>1, Numbers
<1>4. step' = step
  BY DEF Tick
<1> QED BY <1>1, <1>2, <1>3, <1>4 DEF PollInv

LEMMA InitPolls == Init => PollInv
<1> SUFFICES ASSUME Init PROVE PollInv
  OBVIOUS
<1>1. \A l \in DeviceLogins : step[l] = "idle"
  BY DEF Init, Logins
<1> QED BY <1>1, Numbers DEF Init, PollInv, NoTimer, Begun

\* The steps that leave the clocks alone.
LEMMA OthersPoll ==
    ASSUME SignInInv, PollInv, NEW l \in Logins,
           \/ Rejected(l)
           \/ l \in BrowserLogins /\ (StartBrowser(l) \/ BrowserStep(l))
           \/ l \in DeviceLogins /\ (AnswerSuccess(l) \/ AnswerEnd(l) \/ DiscoverModels(l))
           \/ StoreTokens(l)
    PROVE  PollInv'
<1>1. UNCHANGED deviceVars
  BY DEF Rejected, StartBrowser, BrowserStep, ServeOther, ServeBadCallback, ServeCallback,
         CallbackTimeOut, ExchangeCode, StoreTokens, AnswerSuccess, AnswerEnd, DiscoverModels,
         deviceVars, browserVars
<1>2. \/ step' = step
      \/ \E to \in {"waiting", "exchanging", "storing", "discovering", "done", "failed"} :
            step' = [step EXCEPT ![l] = to]
  BY DEF Rejected, StartBrowser, BrowserStep, ServeOther, ServeBadCallback, ServeCallback,
         CallbackTimeOut, ExchangeCode, StoreTokens, AnswerSuccess, AnswerEnd, DiscoverModels,
         Fail, Proceed
<1>3. \A m \in DeviceLogins : step'[m] \in Begun => step'[m] = step[m]
  BY <1>2 DEF Begun, SignInInv, Shape, StepShape, Logins
<1> QED BY <1>1, <1>3, ClocksStay

LEMMA NextPolls == SignInInv /\ PollInv /\ [Next]_signInVars => PollInv'
<1> SUFFICES ASSUME SignInInv, PollInv, [Next]_signInVars PROVE PollInv'
  OBVIOUS
<1>1. CASE \E l \in Logins : Rejected(l)
  BY <1>1, OthersPoll
<1>2. CASE \E l \in BrowserLogins : StartBrowser(l) \/ BrowserStep(l)
  BY <1>2, OthersPoll DEF Logins
<1>3. CASE \E l \in DeviceLogins : RequestDeviceCode(l) \/ DeviceStep(l)
  BY <1>3, OthersPoll, DeviceCodePolls, CheckPolls, PollPolls, AnswerPolls DEF Logins, DeviceStep
<1>4. CASE Tick
  BY <1>4, TickPolls
<1>5. CASE Outside \/ UNCHANGED signInVars
  <2>1. UNCHANGED deviceVars /\ step' = step
    BY <1>5 DEF Outside, Authorise, Deny, Visit, Reload, HangUp, signInVars, deviceVars, browserVars
  <2> QED BY <2>1, ClocksStay
<1> QED BY <1>1, <1>2, <1>3, <1>4, <1>5 DEF Next

\* A login goes from its sleep to a poll only in Poll.
LEMMA OnlyPollPolls ==
    ASSUME SignInInv, [Next]_signInVars, NEW l \in DeviceLogins,
           step[l] = "sleeping", step'[l] = "polling"
    PROVE  Poll(l)
<1>1. l \in Logins /\ l \notin BrowserLogins
  BY SignInAssumption DEF Logins
<1>2. ASSUME NEW m \in Logins, m # l,
             \E to : step' = [step EXCEPT ![m] = to]
      PROVE  FALSE
  BY <1>1, <1>2 DEF SignInInv, Shape, StepShape
<1>3. ASSUME step' = step PROVE FALSE
  BY <1>3
<1>4. ASSUME NEW m \in Logins, Rejected(m) \/ StartBrowser(m) \/ BrowserStep(m)
                               \/ RequestDeviceCode(m) \/ DeviceStep(m)
      PROVE  step' = step \/ \E to : step' = [step EXCEPT ![m] = to]
  BY <1>4 DEF Rejected, StartBrowser, BrowserStep, ServeOther, ServeBadCallback, ServeCallback,
         CallbackTimeOut, ExchangeCode, StoreTokens, RequestDeviceCode, DeviceStep, Check, Poll,
         AnswerWait, AnswerSuccess, AnswerEnd, DiscoverModels, Fail, Proceed
<1>5. ASSUME Rejected(l) \/ RequestDeviceCode(l) PROVE FALSE
  BY <1>5 DEF Rejected, RequestDeviceCode, MayStart
<1>6. ASSUME \/ Check(l) \/ AnswerWait(l) \/ AnswerSuccess(l) \/ AnswerEnd(l)
             \/ StoreTokens(l) \/ DiscoverModels(l)
      PROVE  FALSE
  BY <1>6 DEF Check, AnswerWait, AnswerSuccess, AnswerEnd, StoreTokens, DiscoverModels
<1>7. ASSUME Tick \/ Outside \/ UNCHANGED signInVars PROVE step' = step
  BY <1>7 DEF Tick, Outside, Authorise, Deny, Visit, Reload, HangUp, signInVars
<1>8. BrowserLogins \subseteq Logins /\ DeviceLogins \subseteq Logins
  BY DEF Logins
<1> QED BY <1>1, <1>2, <1>3, <1>4, <1>5, <1>6, <1>7, <1>8 DEF Next, DeviceStep

\* Between two polls of a login GitHub has been left alone for as long as it last
\* asked for, whatever intervals it names or leaves out (poll_for_token in github.rs).
THEOREM PollsAsAskedHolds == Spec => PollsAsAsked
<1> DEFINE Waits == \A l \in DeviceLogins :
              step[l] = "sleeping" /\ step'[l] = "polling" => github[l].since >= github[l].asked
<1>1. SignInInv /\ PollInv /\ [Next]_signInVars => [Waits]_signInVars
  <2> SUFFICES ASSUME SignInInv, PollInv, [Next]_signInVars, NEW l \in DeviceLogins,
                      step[l] = "sleeping", step'[l] = "polling"
               PROVE  github[l].since >= github[l].asked
    OBVIOUS
  <2>1. timer[l].nap = 0
    BY OnlyPollPolls DEF Poll
  <2>2. github[l].since \in 0..MaxWait /\ github[l].asked \in 0..MaxWait
        /\ github[l].since + timer[l].nap >= github[l].asked
    BY DEF PollInv
  <2> QED BY <2>1, <2>2, Numbers
<1>2. Spec => []PollInv
  BY InitPolls, NextPolls, SignInInvariance, PTL DEF Spec
<1> QED BY <1>1, <1>2, SignInInvariance, PTL DEF Spec, PollsAsAsked
=============================================================================
