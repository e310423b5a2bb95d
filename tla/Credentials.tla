---------------------------- MODULE Credentials -----------------------------
(***************************************************************************)
(* Everything that uses the auth store while artui runs: turns that need a *)
(* Copilot session or a fresh ChatGPT token, the discovery of models, the  *)
(* logins, and the user's logout and login from the environment.  A task   *)
(* reads a record, awaits a server and writes the record back; between any *)
(* two of its steps the others take theirs, and the process may die.       *)
(*                                                                         *)
(* Sources: src/providers/copilot.rs, src/providers/account.rs,            *)
(* src/auth/github.rs, src/auth/openai_oauth.rs, src/lib.rs, src/app.rs.   *)
(***************************************************************************)
EXTENDS AuthStore

CONSTANTS
    Ui,         \* the user interface, the one actor that is not a task
    HasEnv,     \* there is a GitHub token outside of the store
    MaxStarts,  \* bound: tasks and commands started
    MaxFaults   \* bound: crashes, failed writes and lost replies

ASSUME CredentialsAssumption ==
    /\ Ui \in Actors
    /\ HasEnv \in BOOLEAN
    /\ Providers = {"copilot", "openai_account"}
    /\ MaxStarts \in Nat
    /\ MaxFaults \in Nat

VARIABLES
    live,     \* the refresh token each ChatGPT login accepts, in the server
    grants,   \* logins so far
    left,     \* what is left of the two bounds
    current,  \* history: the login the user has last asked for, 0 after a logout
    raced,    \* history: that was saved while another task had an older record
    overlap,  \* history: two saves have overlapped
    lost      \* history: a new refresh token may never have been stored

vars == <<storeVars, live, grants, left, current, raced, overlap, lost>>

Tasks == Actors \ {Ui}
Env   == MaxGrants + 1   \* stands for the session of a token from elsewhere

Init ==
    /\ StoreInit
    /\ live = [g \in 1..MaxGrants |-> 0]
    /\ grants = IF path = Nothing THEN 0 ELSE 1
    /\ left = [starts |-> MaxStarts, faults |-> MaxFaults]
    /\ current = [p \in Providers |-> grants]
    /\ raced = [p \in Providers |-> FALSE]
    /\ overlap = FALSE
    /\ lost = FALSE

ProviderOf(kind) ==
    IF kind \in {"chat", "signin", "signout"} THEN "openai_account" ELSE "copilot"

fileVars == <<path, tmp, disk>>

-----------------------------------------------------------------------------
(* Starting.                                                               *)

FirstStep ==
    [turn |-> "candidates", discover |-> "candidates", chat |-> "credentials",
     login |-> "authorise", signin |-> "authorise", env |-> "authorise",
     logout |-> "remove", signout |-> "remove"]

UiKinds == {"env", "logout", "signout"}

Start(a) ==
    /\ At(a, "idle")
    /\ left.starts > 0
    /\ left' = [left EXCEPT !.starts = @ - 1]
    /\ \E kind \in IF a = Ui THEN UiKinds ELSE DOMAIN FirstStep \ UiKinds :
          Goto(a, [pc |-> FirstStep[kind], kind |-> kind])
    /\ UNCHANGED <<fileVars, live, grants>>

\* (with a mistake: the cached session of the record before is kept)
AuthoriseKeeping(a) ==
    /\ At(a, "authorise")
    /\ \/ /\ grants < MaxGrants
          /\ grants' = grants + 1
          /\ Goto(a, [pc   |-> "upsert",
                      rec  |-> [grant |-> grants + 1, refresh |-> 0,
                               session |-> Loaded["copilot"].session],
                      asks |-> grants + 1,
                      then |-> IF task[a].kind = "login" THEN "candidates" ELSE "idle"])
       \/ /\ Stop(a)
          /\ UNCHANGED grants
    /\ UNCHANGED <<fileVars, live, left>>

\* The user authorises the login, or it times out or is denied.  A login from
\* the environment takes the token it finds.
Authorise(a) ==
    /\ At(a, "authorise")
    /\ \/ /\ grants < MaxGrants
          /\ grants' = grants + 1
          /\ Goto(a, [pc   |-> "upsert",
                      rec  |-> [NoRecord EXCEPT !.grant = grants + 1],
                      asks |-> grants + 1,
                      then |-> IF task[a].kind = "login" THEN "candidates" ELSE "idle"])
       \/ /\ Stop(a)
          /\ UNCHANGED grants
    /\ UNCHANGED <<fileVars, live, left>>

-----------------------------------------------------------------------------
(* A Copilot session: token_candidates, exchange_token_candidate and the   *)
(* loop over the candidates.  The stored token comes first; those from     *)
(* elsewhere are one candidate here, since they leave the store alone.     *)

NextCandidate(a) ==
    IF HasEnv THEN Goto(a, [pc |-> "models", seen |-> 0, session |-> Env])
              ELSE Stop(a)

Candidates(a) ==
    /\ At(a, "candidates")
    /\ IF ~Readable THEN Stop(a)
       ELSE IF Loaded["copilot"] = NoRecord THEN NextCandidate(a)
       ELSE \/ Goto(a, [pc   |-> IF task[a].retried THEN "exchange" ELSE "cached",
                        seen |-> Loaded["copilot"].grant])
            \/ Stop(a)  \* the record has expired
    /\ UNCHANGED <<fileVars, live, grants, left>>

\* A cached session is taken unless it is about to expire.
Cached(a) ==
    /\ At(a, "cached")
    /\ IF ~Readable THEN NextCandidate(a)
       ELSE \/ Goto(a, [pc |-> "exchange"])
            \/ /\ Loaded["copilot"].session # 0
               /\ Goto(a, [pc |-> "models", session |-> Loaded["copilot"].session])
    /\ UNCHANGED <<fileVars, live, grants, left>>

Exchange(a) ==
    /\ At(a, "exchange")
    /\ \/ Goto(a, [pc |-> "saveSession", session |-> task[a].seen])
       \/ NextCandidate(a)
    /\ UNCHANGED <<fileVars, live, grants, left>>

\* save_cached_copilot_session: into the record as it is now.
SaveSession(a) ==
    /\ At(a, "saveSession")
    /\ IF ~Readable THEN NextCandidate(a)
       ELSE IF Loaded["copilot"] = NoRecord THEN Goto(a, [pc |-> "models"])
       ELSE Goto(a, [pc   |-> "upsert",
                     rec  |-> [Loaded["copilot"] EXCEPT !.session = task[a].session],
                     then |-> "models"])
    /\ UNCHANGED <<fileVars, live, grants, left>>

\* The models of this candidate are fetched, and it is the one to use or not.
Models(a) ==
    /\ At(a, "models")
    /\ \/ Goto(a, [pc |-> IF task[a].kind = "turn" THEN "saveModels" ELSE "saveUsage",
                   seen |-> 0, session |-> 0])
       \/ IF task[a].session = Env THEN Stop(a) ELSE NextCandidate(a)
    /\ UNCHANGED <<fileVars, live, grants, left>>

\* save_discovered_models, the end of fetch_copilot_models, and the update
\* after it: the record is read, the list put in, and the record written.
\* Only the second awaits a server in between.
ReadToUpsert(a, from, then) ==
    /\ At(a, from)
    /\ IF ~Readable THEN Stop(a)
       ELSE IF Loaded["copilot"] = NoRecord THEN Goto(a, [pc |-> then])
       ELSE Goto(a, [pc |-> "upsert", rec |-> Loaded["copilot"], then |-> then])
    /\ UNCHANGED <<fileVars, live, grants, left>>

SaveModels(a)   == ReadToUpsert(a, "saveModels", "send")
SaveUsage(a)    == ReadToUpsert(a, "saveUsage", "saveFetched")
SaveFetched(a)  == ReadToUpsert(a, "saveFetched", "idle")

\* The request itself.  Once, a session that is refused is exchanged anew, or
\* a model that is not supported makes the list be fetched and saved again.
Send(a) ==
    /\ At(a, "send")
    /\ \/ Stop(a)
       \/ /\ ~task[a].retried
          /\ \/ Goto(a, [pc |-> "candidates", retried |-> TRUE])
             \/ Goto(a, [pc |-> "saveModels", retried |-> TRUE])
    /\ UNCHANGED <<fileVars, live, grants, left>>

-----------------------------------------------------------------------------
(* A ChatGPT token: current_credentials and refresh_into.                  *)

\* A token that does not expire within the leeway is used as it is.
Credentials(a) ==
    /\ At(a, "credentials")
    /\ \/ Stop(a)
       \/ /\ Readable
          /\ Loaded["openai_account"] # NoRecord
          /\ Goto(a, [pc |-> "refresh", rec |-> Loaded["openai_account"]])
    /\ UNCHANGED <<fileVars, live, grants, left>>

\* (with a mistake: the refresh token of the answer is not taken over)
RefreshKeepingToken(a) ==
    LET rec == task[a].rec
    IN  /\ At(a, "refresh")
        /\ IF rec.refresh = live[rec.grant]
           THEN /\ live' = [live EXCEPT ![rec.grant] = @ + 1]
                /\ Goto(a, [pc |-> "upsert", then |-> "idle"])
           ELSE /\ live' = live
                /\ Stop(a)
        /\ UNCHANGED <<fileVars, grants, left, lost>>

\* The server exchanges a refresh token once.  The request may fail, before it
\* has had an effect or after.
Refresh(a) ==
    LET rec == task[a].rec
    IN  /\ At(a, "refresh")
        /\ \/ /\ rec.refresh = live[rec.grant]
              /\ live' = [live EXCEPT ![rec.grant] = @ + 1]
              /\ Goto(a, [pc   |-> "upsert",
                          rec  |-> [rec EXCEPT !.refresh = @ + 1],
                          then |-> "idle"])
              /\ UNCHANGED <<left, lost>>
           \/ /\ Stop(a)
              /\ UNCHANGED <<live, left, lost>>
           \/ /\ rec.refresh = live[rec.grant]
              /\ left.faults > 0
              /\ left' = [left EXCEPT !.faults = @ - 1]
              /\ live' = [live EXCEPT ![rec.grant] = @ + 1]
              /\ lost' = TRUE
              /\ Stop(a)
        /\ UNCHANGED <<fileVars, grants>>

-----------------------------------------------------------------------------
(* The whole.                                                              *)

\* b would write an older record of p, or a file with one.
Holds(b, p) ==
    \/ task[b].saving
    \/ ProviderOf(task[b].kind) = p /\ (task[b].rec # NoRecord \/ task[b].seen # 0)

\* What the histories say of a step of a on the store.
NoteSave(a) ==
    LET p == ProviderOf(task[a].kind)
    IN  /\ overlap' = (overlap \/ Cardinality({b \in Actors : task'[b].saving}) > 1)
        /\ IF At(a, "rename") /\ task[a].asks # Nobody /\ path' # path
           THEN /\ current' = [current EXCEPT ![p] = task[a].asks]
                /\ raced' = [raced EXCEPT ![p] = \E b \in Actors \ {a} : Holds(b, p)]
           ELSE UNCHANGED <<current, raced>>

Refreshed(a) ==
    /\ task[a].kind = "chat"
    /\ task[a].pc \in {"upsert", "open", "write", "rename"}

StoreStep(a) ==
    /\ LET p == ProviderOf(task[a].kind)
       IN  \/ Upsert(a, p)
           \/ Remove(a, p)
           \/ Open(a)
           \/ Write(a)
           \/ Rename(a)
    /\ NoteSave(a)
    /\ UNCHANGED <<live, grants, left, lost>>

SaveFails(a) ==
    /\ WriteFails(a)
    /\ left.faults > 0
    /\ left' = [left EXCEPT !.faults = @ - 1]
    /\ lost' = (lost \/ Refreshed(a))
    /\ NoteSave(a)
    /\ UNCHANGED <<live, grants>>

TaskStep(a) ==
    /\ \/ Start(a)
       \/ Authorise(a)
       \/ Candidates(a)
       \/ Cached(a)
       \/ Exchange(a)
       \/ SaveSession(a)
       \/ Models(a)
       \/ SaveModels(a)
       \/ SaveUsage(a)
       \/ SaveFetched(a)
       \/ Send(a)
       \/ Credentials(a)
    /\ UNCHANGED <<current, raced, overlap, lost>>

Crash ==
    /\ left.faults > 0
    /\ left' = [left EXCEPT !.faults = @ - 1]
    /\ lost' = (lost \/ \E a \in Actors : Refreshed(a))
    /\ task' = [a \in Actors |-> Idle]
    /\ UNCHANGED <<fileVars, live, grants, current, raced, overlap>>

Next ==
    \/ \E a \in Actors :
          \/ TaskStep(a)
          \/ Refresh(a) /\ UNCHANGED <<current, raced, overlap>>
          \/ StoreStep(a)
          \/ SaveFails(a)
    \/ Crash

Spec == Init /\ [][Next]_vars

-----------------------------------------------------------------------------
(* Properties.                                                             *)

\* Whatever fails or crashes, the store can be read, as long as no two saves
\* have overlapped.  (auth/store.rs, save_file)
ReadableUnlessOverlap == ~overlap => Readable

\* The record of a provider is that of the last login, and gone after a
\* logout, unless a task had an older record in hand at that moment.  A task
\* that read it before and has written it back, or one for the other provider
\* in whatever state, does no harm.  (auth/store.rs, upsert and remove)
CurrentUnlessRaced ==
    ~overlap =>
        \A p \in Providers : raced[p] \/ Loaded[p].grant = current[p]

\* A cached session belongs to the account of its record: a login replaces it
\* together with the token, whichever task stores sessions meanwhile.
\* (copilot.rs save_cached_copilot_session, github.rs, app.rs)
SessionOfAccount ==
    ~overlap /\ ~raced["copilot"] =>
        Loaded["copilot"].session \in {0, Loaded["copilot"].grant}

\* Two turns may refresh the same token at once, and a refresh may follow any
\* number of saves of the other provider, a login or a logout: the refresh token
\* in the store is the one the server will take, unless one is on its way into
\* the store or a reply, a save or the process was lost.  (refresh_into)
RefreshTokenIsLive ==
    LET rec == Loaded["openai_account"]
    IN  /\ ~overlap /\ ~lost
        /\ rec # NoRecord
        /\ \A a \in Actors : ~Refreshed(a)
        => rec.refresh = live[rec.grant]
=============================================================================
