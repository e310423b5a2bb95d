------------------------------- MODULE SignIn -------------------------------
(***************************************************************************)
(* The two ways to log in (src/auth/openai_oauth.rs, src/auth/github.rs).  *)
(*                                                                         *)
(* A browser login listens on a local port, sends the user to a page, and  *)
(* takes an authorisation code from the request with which the page leads  *)
(* back.  A device login shows a code and polls until the user has entered *)
(* it.  Each login is a task of its own that nothing cancels, so several   *)
(* can be alive.  The random state of a login, its PKCE verifier and its   *)
(* device code are told by the name of the login.  The two flows share no  *)
(* state, and write the records of different providers: a behaviour is     *)
(* about the logins of one of them.                                        *)
(***************************************************************************)
EXTENDS Naturals, Sequences, FiniteSetsExt

CONSTANTS
    BrowserLogins,  \* logins with ChatGPT
    DeviceLogins,   \* logins with GitHub
    Ports,          \* the ports of the configuration: <<preferred, fallback>>
    MaxVisitors,    \* bound: connections other than the page leading back once
    DefaultWait,    \* the five seconds of RFC 8628
    MaxWait,        \* bound: the interval GitHub may come to ask for
    MaxLimit        \* bound: the time limits of the configuration and of GitHub

Logins    == BrowserLogins \union DeviceLogins
PortSet   == {Ports[1], Ports[2]}
Nobody    == "nobody"
Stranger  == "stranger"
NoLogin   == "no login"

ASSUME SignInAssumption ==
    /\ BrowserLogins \intersect DeviceLogins = {}
    /\ {Nobody, Stranger, NoLogin} \intersect Logins = {}
    /\ Len(Ports) = 2 /\ Ports[1] # Ports[2] /\ Nobody \notin PortSet
    /\ {MaxVisitors, DefaultWait, MaxWait, MaxLimit} \subseteq Nat
    /\ 1 <= DefaultWait /\ DefaultWait <= MaxWait

VARIABLES
    provider,  \* whose logins this is about
    step,      \* what each login is doing
    why,       \* why it failed
    ports,     \* who listens on each port
    boundTo,   \* the port of each browser login, also when it is over
    backlog,   \* connections to a port that were not served yet
    visitors,  \* how many of them came from elsewhere
    consent,   \* what the user told the server about each login
    code,      \* the login whose code came in the callback this one was given
    account,   \* the login whose tokens were stored last
    timer,     \* device: time left, sleep left, interval
    github     \* device: the interval asked for, the time since the last poll

browserVars == <<provider, ports, boundTo, backlog, visitors, code>>
deviceVars  == <<provider, timer, github>>
signInVars  == <<step, why, consent, account, browserVars, deviceVars>>

NoTimer == [left |-> 0, nap |-> 0, interval |-> 0]

\* Another program may listen on a port.
Init ==
    /\ provider \in {"openai_account", "copilot"}
    /\ step = [l \in Logins |-> "idle"]
    /\ why = [l \in Logins |-> "none"]
    /\ ports \in [PortSet -> {Nobody, Stranger}]
    /\ boundTo = [l \in BrowserLogins |-> Nobody]
    /\ backlog = [p \in PortSet |-> <<>>]
    /\ visitors = 0
    /\ consent = [l \in Logins |-> "none"]
    /\ code = [l \in BrowserLogins |-> NoLogin]
    /\ account = NoLogin
    /\ timer = [l \in DeviceLogins |-> NoTimer]
    /\ github = [l \in DeviceLogins |-> [asked |-> 0, since |-> 0]]

Fail(l, reason) ==
    /\ step' = [step EXCEPT ![l] = "failed"]
    /\ why' = [why EXCEPT ![l] = reason]

Proceed(l, to) ==
    /\ step' = [step EXCEPT ![l] = to]
    /\ UNCHANGED why

MayStart(l) ==
    /\ step[l] = "idle"
    /\ l \in IF provider = "copilot" THEN DeviceLogins ELSE BrowserLogins

\* A configuration without a client id, or with an address that is no plain https
\* address, ends the login before it has done anything.
Rejected(l) ==
    /\ MayStart(l)
    /\ Fail(l, "configuration")
    /\ UNCHANGED <<consent, account, browserVars, deviceVars>>

-----------------------------------------------------------------------------
(* Login in the browser.                                                   *)

\* The listener takes the first port that is free.
BindLoopback ==
    LET free == {i \in 1..2 : ports[Ports[i]] = Nobody}
    IN  IF free = {} THEN Nobody ELSE Ports[Min(free)]

StartBrowser(l) ==
    /\ MayStart(l)
    /\ IF BindLoopback = Nobody
       THEN /\ Fail(l, "no port")
            /\ UNCHANGED <<ports, boundTo>>
       ELSE /\ Proceed(l, "waiting")
            /\ ports' = [ports EXCEPT ![BindLoopback] = l]
            /\ boundTo' = [boundTo EXCEPT ![l] = BindLoopback]
    /\ UNCHANGED <<backlog, visitors, code, consent, account, deviceVars>>

\* (with a mistake: the page is told of the preferred port, bound or not)
AuthorizeUrlPreferred(l) == [redirect |-> Ports[1], state |-> l]

\* What the page is given: where to lead back to, and the state to bring along.
AuthorizeUrl(l) == [redirect |-> boundTo[l], state |-> l]

\* The listener goes with the wait: later connections are refused and those in
\* the backlog are reset.
Unbind(l) ==
    /\ ports' = [ports EXCEPT ![boundTo[l]] = Nobody]
    /\ backlog' = [backlog EXCEPT ![boundTo[l]] = <<>>]

Waiting(l) == step[l] = "waiting"
Request(l) == Head(backlog[boundTo[l]])

\* One connection is served at a time, and read until its headers are complete
\* or it is closed: one that says nothing keeps the others waiting.
Serves(l, kinds) ==
    /\ Waiting(l)
    /\ backlog[boundTo[l]] # <<>>
    /\ Request(l).kind \in kinds

\* Anything but the callback gets 404: an icon, a probe, a closed connection.
ServeOther(l) ==
    /\ Serves(l, {"other"})
    /\ backlog' = [backlog EXCEPT ![boundTo[l]] = Tail(@)]
    /\ UNCHANGED <<step, why, ports, boundTo, visitors, code, consent, account, deviceVars>>

\* A callback that reports an error, or lacks the code or the state, is the end;
\* so is a connection that breaks off.
ServeBadCallback(l) ==
    /\ Serves(l, {"bad"})
    /\ Unbind(l)
    /\ Fail(l, "bad callback")
    /\ UNCHANGED <<boundTo, visitors, code, consent, account, deviceVars>>

\* (with a mistake: the state is not compared)
StateMatchesAlways(l) == TRUE

StateMatches(l) == Request(l).state = l

\* The browser is told that all is done before the state is compared.
ServeCallback(l) ==
    /\ Serves(l, {"callback"})
    /\ Unbind(l)
    /\ code' = [code EXCEPT ![l] = Request(l).code]
    /\ IF StateMatches(l) THEN Proceed(l, "exchanging") ELSE Fail(l, "state mismatch")
    /\ UNCHANGED <<boundTo, visitors, consent, account, deviceVars>>

CallbackTimeOut(l) ==
    /\ Waiting(l)
    /\ Unbind(l)
    /\ Fail(l, "timed out")
    /\ UNCHANGED <<boundTo, visitors, code, consent, account, deviceVars>>

\* The server takes a code from the login it was issued to, which the verifier
\* proves.  The request has no time limit of its own.
ExchangeCode(l) ==
    /\ step[l] = "exchanging"
    /\ \/ Fail(l, "exchange")
       \/ code[l] = l /\ Proceed(l, "storing")
    /\ UNCHANGED <<consent, account, browserVars, deviceVars>>

\* The tokens replace the record of the provider.
StoreTokens(l) ==
    /\ step[l] = "storing"
    /\ \/ Fail(l, "store") /\ UNCHANGED account
       \/ /\ Proceed(l, IF l \in DeviceLogins THEN "discovering" ELSE "done")
          /\ account' = l
    /\ UNCHANGED <<consent, browserVars, deviceVars>>

-----------------------------------------------------------------------------
(* Login with a device code.                                               *)

\* A number the answer may lack is a set of at most one.
Optional(S)   == {{}} \union {{n} : n \in S}
AtLeastOne(n) == Max({n, 1})

FirstInterval(given) == IF given = {} THEN DefaultWait ELSE AtLeastOne(Max(given))

\* GitHub gives the code and its life time, perhaps the interval.
RequestDeviceCode(l) ==
    /\ MayStart(l)
    /\ \/ Fail(l, "no device code") /\ UNCHANGED deviceVars
       \/ \E timeout, expires \in 0..MaxLimit, given \in Optional(0..MaxWait) :
             /\ Proceed(l, "checking")
             /\ timer' = [timer EXCEPT ![l] =
                             [left     |-> AtLeastOne(Min({timeout, expires})),
                              nap      |-> 0,
                              interval |-> FirstInterval(given)]]
             /\ github' = [github EXCEPT ![l] =
                             [asked |-> IF given = {} THEN DefaultWait ELSE Max(given),
                              since |-> 0]]
    /\ UNCHANGED <<consent, account, browserVars>>

\* (with a mistake: the deadline counts only while GitHub has not asked to slow
\* down)
DeadlinePassedUnlessSlowed(l) == timer[l].left = 0 /\ timer[l].interval <= DefaultWait

DeadlinePassed(l) == timer[l].left = 0

\* The deadline is looked at before the sleep, not during it or after.
Check(l) ==
    /\ step[l] = "checking"
    /\ IF DeadlinePassed(l)
       THEN Fail(l, "timed out") /\ UNCHANGED timer
       ELSE /\ Proceed(l, "sleeping")
            /\ timer' = [timer EXCEPT ![l].nap = timer[l].interval]
    /\ UNCHANGED <<github, consent, account, browserVars>>

Poll(l) ==
    /\ step[l] = "sleeping"
    /\ timer[l].nap = 0
    /\ Proceed(l, "polling")
    /\ github' = [github EXCEPT ![l].since = 0]
    /\ UNCHANGED <<timer, consent, account, browserVars>>

\* (with a mistake: slow_down without a number changes nothing)
SlowedDownByNone(l, given) ==
    IF given = {} THEN timer[l].interval ELSE AtLeastOne(Max(given))

SlowedDown(l, given) ==
    IF given = {} THEN timer[l].interval + DefaultWait ELSE AtLeastOne(Max(given))

\* Without a number slow_down means five seconds more than before.
Slower(l) == Max({github[l].asked, 1}) + DefaultWait

\* The answer to a poll.
AnswerWait(l) ==
    /\ step[l] = "polling"
    /\ consent[l] = "none"
    /\ Proceed(l, "checking")
    /\ \/ UNCHANGED deviceVars
       \/ \E given \in 0..MaxWait :
             /\ timer' = [timer EXCEPT ![l].interval = AtLeastOne(given)]
             /\ github' = [github EXCEPT ![l].asked = given]
       \/ \E given \in Optional(0..MaxWait) :
             /\ given = {} => Slower(l) <= MaxWait
             /\ timer' = [timer EXCEPT ![l].interval = SlowedDown(l, given)]
             /\ github' = [github EXCEPT ![l].asked =
                              IF given = {} THEN Slower(l) ELSE Max(given)]
    /\ UNCHANGED <<consent, account, browserVars>>

AnswerSuccess(l) ==
    /\ step[l] = "polling"
    /\ consent[l] = "given"
    /\ Proceed(l, "storing")
    /\ UNCHANGED <<consent, account, browserVars, deviceVars>>

\* Denied, expired, another error, no answer that can be read.
AnswerEnd(l) ==
    /\ step[l] = "polling"
    /\ Fail(l, IF consent[l] = "denied" THEN "denied" ELSE "poll")
    /\ UNCHANGED <<consent, account, browserVars, deviceVars>>

\* A login with GitHub asks for the models and adds them to the record as it is then:
\* nothing is lost without them, but if they cannot be stored the login counts as
\* failed.
DiscoverModels(l) ==
    /\ step[l] = "discovering"
    /\ Proceed(l, "done") \/ Fail(l, "store")
    /\ UNCHANGED <<consent, account, browserVars, deviceVars>>

\* A second goes by.
Tick ==
    /\ timer' = [l \in DeviceLogins |->
                    [timer[l] EXCEPT !.left = Max({@, 1}) - 1, !.nap = Max({@, 1}) - 1]]
    /\ github' = [l \in DeviceLogins |->
                    [github[l] EXCEPT !.since = Min({@ + 1, MaxWait})]]
    /\ UNCHANGED <<step, why, consent, account, browserVars>>

-----------------------------------------------------------------------------
(* The user and others: external.                                          *)

\* The page leads back with a code.  If nobody listens the browser says so.
Arrives(p, request) ==
    backlog' = IF ports[p] \in BrowserLogins
               THEN [backlog EXCEPT ![p] = Append(@, request)] ELSE backlog

Callback(l) == [kind |-> "callback", state |-> AuthorizeUrl(l).state, code |-> l]

Authorise(l) ==
    /\ consent[l] = "none"
    /\ IF l \in DeviceLogins
       THEN step[l] \notin {"idle"} /\ UNCHANGED backlog
       ELSE /\ boundTo[l] # Nobody
            /\ Arrives(AuthorizeUrl(l).redirect, Callback(l))
    /\ consent' = [consent EXCEPT ![l] = "given"]
    /\ UNCHANGED <<step, why, ports, boundTo, visitors, code, account, deviceVars>>

Deny(l) ==
    /\ consent[l] = "none"
    /\ IF l \in DeviceLogins
       THEN step[l] \notin {"idle"} /\ UNCHANGED backlog
       ELSE /\ boundTo[l] # Nobody
            /\ Arrives(AuthorizeUrl(l).redirect,
                       [kind |-> "bad", state |-> AuthorizeUrl(l).state, code |-> NoLogin])
    /\ consent' = [consent EXCEPT ![l] = "denied"]
    /\ UNCHANGED <<step, why, ports, boundTo, visitors, code, account, deviceVars>>

\* A stranger may send a whole callback, but does not know the state of a login.
Visit(p) ==
    /\ visitors < MaxVisitors
    /\ visitors' = visitors + 1
    /\ \E kind \in {"silent", "other", "bad", "callback"} :
          Arrives(p, [kind |-> kind, state |-> Stranger, code |-> Stranger])
    /\ UNCHANGED <<step, why, ports, boundTo, code, consent, account, deviceVars>>

\* The user loads the page again that led back.
Reload(l) ==
    /\ visitors < MaxVisitors
    /\ visitors' = visitors + 1
    /\ boundTo[l] # Nobody
    /\ consent[l] = "given"
    /\ Arrives(AuthorizeUrl(l).redirect, Callback(l))
    /\ UNCHANGED <<step, why, ports, boundTo, code, consent, account, deviceVars>>

\* A connection that said nothing is closed.
HangUp(p) ==
    /\ backlog[p] # <<>>
    /\ Head(backlog[p]).kind = "silent"
    /\ backlog' = [backlog EXCEPT ![p][1].kind = "other"]
    /\ UNCHANGED <<step, why, ports, boundTo, visitors, code, consent, account, deviceVars>>

Outside ==
    \/ \E l \in Logins : Authorise(l) \/ Deny(l)
    \/ \E l \in BrowserLogins : Reload(l)
    \/ \E p \in PortSet : Visit(p) \/ HangUp(p)

-----------------------------------------------------------------------------
BrowserStep(l) ==
    \/ ServeOther(l) \/ ServeBadCallback(l) \/ ServeCallback(l) \/ CallbackTimeOut(l)
    \/ ExchangeCode(l) \/ StoreTokens(l)

DeviceStep(l) ==
    \/ Check(l) \/ Poll(l) \/ AnswerWait(l) \/ AnswerSuccess(l) \/ AnswerEnd(l)
    \/ StoreTokens(l) \/ DiscoverModels(l)

Next ==
    \/ \E l \in Logins : Rejected(l)
    \/ \E l \in BrowserLogins : StartBrowser(l) \/ BrowserStep(l)
    \/ \E l \in DeviceLogins : RequestDeviceCode(l) \/ DeviceStep(l)
    \/ Tick
    \/ Outside

Spec == Init /\ [][Next]_signInVars

\* The runtime polls the tasks, clocks run, and a server that was asked answers
\* or closes the connection.
Fairness ==
    /\ \A l \in BrowserLogins : WF_signInVars(BrowserStep(l))
    /\ \A l \in DeviceLogins : WF_signInVars(DeviceStep(l))
    /\ WF_signInVars(Tick)

FairSpec == Spec /\ Fairness

-----------------------------------------------------------------------------
(* Properties.                                                             *)

Over(l) == step[l] \in {"done", "failed"}

\* A code that is exchanged, and the tokens that are stored, come from the user's
\* consent to this very login, however many logins run, one after the other on
\* one port or side by side.
CodeIsOwn ==
    /\ \A l \in BrowserLogins :
          step[l] \in {"exchanging", "storing", "done"} => code[l] = l /\ consent[l] = "given"
    /\ account # NoLogin => consent[account] = "given"

\* Logins that wait at the same time do not take each other's callbacks: the one
\* whose state does not match comes from a stranger, or from a login that was bound
\* to the same port and has stopped waiting, late or once more.
CallbacksFindTheirLogin ==
    \A l \in BrowserLogins : why[l] = "state mismatch" =>
        \/ code[l] = Stranger
        \/ \E m \in BrowserLogins \ {l} : /\ code[l] = m
                                           /\ boundTo[m] = boundTo[l]
                                           /\ step[m] \notin {"idle", "waiting"}

\* GitHub is polled no more often than it has asked for, also after slow_down.
PollsAsAsked ==
    [][\A l \in DeviceLogins :
          step[l] = "sleeping" /\ step'[l] = "polling" => github[l].since >= github[l].asked]_signInVars

\* Every login comes to an end.
LoginEnds == \A l \in Logins : step[l] # "idle" ~> Over(l)
=============================================================================
