---------------------------- MODULE ModelChoice -----------------------------
(***************************************************************************)
(* Which model is asked: the choice the App keeps and shows (src/app.rs),  *)
(* the provider built from it (src/providers), the model lists in the auth *)
(* store, and the tasks that bring new ones (src/lib.rs, src/auth).        *)
(*                                                                         *)
(* The App chooses by its configuration; Copilot's provider, when a        *)
(* message is sent, chooses again by the list in the store.                *)
(***************************************************************************)
EXTENDS Integers, Sequences, FiniteSets, SequencesExt

CONSTANTS
    Discovered,    \* for the other providers: what is listed beside their default
    Configured,    \* the default model of each provider at the start
    Defaults,      \* default providers a configuration may name
    Held,          \* accounts the user has: a login to another comes to nothing
    CopilotLists,  \* the lists of models Copilot may answer
    Typable,       \* for each provider: names of models the user types
    Served,        \* the efforts Copilot tells of a model, if any
    Known,         \* the efforts artui supposes of a model
    HasKey,        \* whether the environment has a key for openai_compat
    Tasks,         \* login and refresh tasks alive at a time
    MaxLists,      \* bound: lists that are stored
    MaxNews        \* bound: CopilotModels events on their way

AllProviders == <<"ollama", "openai_compat", "copilot", "openai_account">>
Accounts  == {"copilot", "openai_account"}
Efforts   == <<"auto", "low", "medium", "high", "xhigh">>

\* What marks a header in the rows of the picker is no name of a model.
ListOfModels(l) == l \in Seq(ToSet(l)) /\ "header" \notin ToSet(l)

ASSUME ChoiceAssumption ==
    /\ HasKey \in BOOLEAN
    /\ {MaxLists, MaxNews} \subseteq Nat
    /\ Held \subseteq Accounts
    /\ \A l \in CopilotLists : ListOfModels(l) /\ l # <<>>
    /\ \A p \in ToSet(AllProviders) :
          /\ p \in DOMAIN Configured /\ Configured[p] # "header"
          /\ ListOfModels(Discovered[p])
          /\ "header" \notin Typable[p]
    /\ Defaults \subseteq ToSet(AllProviders)

VARIABLES
    config,     \* the provider, the default models, the Copilot list of the App
    built,      \* the provider the App has built: its kind and its model
    effort,     \* reasoning_effort
    store,      \* the records of the account-backed providers
    picker,     \* the picker that is open, the rows, the row of the cursor, and
                \* whether a logout has moved the rows under it
    task,       \* login and refresh tasks
    news,       \* CopilotModels events on their way
    lists,      \* history: how many lists were stored
    heard,      \* history: the number of the list the App was told of last
    origin,     \* history: where the model in the configuration is from
    moved       \* history: what efforts there are has changed since the last choice

choiceVars == <<config, built, effort, store, picker, task, news,
                lists, heard, origin, moved>>

NoList   == <<>>
NoRecord == [there |-> FALSE, models |-> NoList, endpoints |-> {}, number |-> 0]
Fresh    == [NoRecord EXCEPT !.there = TRUE]
Closed   == [open |-> "none", rows |-> <<>>, cursor |-> 0, lost |-> FALSE]
IdleTask == [pc |-> "idle", kind |-> "none", models |-> NoList, number |-> 0]

\* What a list says of the models of Copilot is stored with it.
Listing(list, number) == [there |-> TRUE, models |-> list,
                          endpoints |-> ToSet(list), number |-> number]

ActiveModel == config.default[config.provider]

ChoiceInit ==
    /\ \E p \in Defaults :
          config = [provider |-> p, default |-> Configured, copilot |-> NoList]
    /\ built = [provider |-> config.provider, model |-> ActiveModel]
    /\ effort = "auto"
    /\ store \in [Accounts -> {NoRecord, Fresh} \union {Listing(l, 0) : l \in CopilotLists}]
    /\ \A a \in Accounts : /\ store[a].there => a \in Held
                           /\ store[a].models # NoList => a = "copilot"
    /\ picker = Closed
    /\ task = [t \in Tasks |-> IdleTask]
    /\ news = <<>>
    /\ lists = 0
    /\ heard = 0
    /\ origin = "file"
    /\ moved = FALSE

-----------------------------------------------------------------------------
(* The rows of the model picker.                                           *)

Header(p)   == [provider |-> p, model |-> "header"]
Row(p, m)   == [provider |-> p, model |-> m]
IsModel(row) == row.model # "header"

\* Nothing twice.
Unique(models) ==
    LET known[i \in 0..Len(models)] ==
            IF i = 0 THEN <<>>
            ELSE IF models[i] \in ToSet(known[i - 1]) THEN known[i - 1]
            ELSE Append(known[i - 1], models[i])
    IN  known[Len(models)]

\* The list of the store counts, else that of the App.
CopilotDiscovered(cfg, st) ==
    IF st["copilot"].models # NoList THEN st["copilot"].models ELSE cfg.copilot

\* The configured model of Copilot is left out if there is a list without it.
CopilotCurrent(cfg, st) ==
    LET current == cfg.default["copilot"]
        list    == CopilotDiscovered(cfg, st)
    IN  IF list # <<>> /\ current \notin ToSet(list) THEN <<>> ELSE <<current>>

\* What `ollama list` prints, or what is built in.
OtherModels(cfg, p) == <<cfg.default[p]>> \o Discovered[p]

\* The current one comes first.
ModelsOf(cfg, st, p) ==
    Unique(IF p = "copilot" THEN CopilotCurrent(cfg, st) \o CopilotDiscovered(cfg, st)
                            ELSE OtherModels(cfg, p))

Include(cfg, st, p) ==
    \/ p \in {cfg.provider, "ollama"}
    \/ p = "openai_compat" /\ HasKey
    \/ p \in Accounts /\ st[p].there

RowsOf(p, models) == <<Header(p)>> \o [k \in DOMAIN models |-> Row(p, models[k])]

AvailableModelOptions(cfg, st) ==
    FlattenSeq([i \in DOMAIN AllProviders |->
        LET p == AllProviders[i]
        IN  IF Include(cfg, st, p) THEN RowsOf(p, ModelsOf(cfg, st, p)) ELSE <<>>])

\* The first row that is wanted, else the first model, else the first row.
FirstRow(rows, wanted) ==
    LET found == SelectInSeq(rows, LAMBDA r : r \in wanted)
        model == SelectInSeq(rows, IsModel)
    IN  IF found # 0 THEN found ELSE IF model # 0 THEN model ELSE 1

-----------------------------------------------------------------------------
(* Efforts.                                                                *)

\* What the store knows of a model of Copilot counts, else its name.
Supported(cfg, st) ==
    LET m == cfg.default[cfg.provider]
    IN  IF /\ cfg.provider = "copilot"
           /\ m \in st["copilot"].endpoints
           /\ Served[m] # {}
        THEN {"auto"} \union Served[m]
        ELSE IF cfg.provider = "ollama" THEN {"auto"} ELSE {"auto"} \union Known[m]

Normalised(cfg, st) == IF effort \in Supported(cfg, st) THEN effort ELSE "auto"

\* What is supported may change without a choice of the user.
NoteEfforts(cfg, st) == moved' = (moved \/ Supported(cfg, st) # Supported(config, store))

\* The one after `e` of those supported, around the end; `e` counts as "auto" if it
\* is not supported itself.
NextIn(supported, e) ==
    LET place(x) == CHOOSE i \in DOMAIN Efforts : Efforts[i] = x
        from  == IF e \in supported THEN place(e) ELSE 1
        after == SelectInSubSeq(Efforts, from + 1, Len(Efforts), LAMBDA x : x \in supported)
    IN  IF after # 0 THEN Efforts[after] ELSE "auto"

CycleEffort ==
    /\ effort' = NextIn(Supported(config, store), effort)
    /\ moved' = FALSE
    /\ UNCHANGED <<config, built, store, picker, task, news, lists, heard, origin>>

-----------------------------------------------------------------------------
(* Choosing.                                                               *)

\* The choice is not saved to the configuration file.
SwitchActiveModel(p, m, from) ==
    /\ config' = [config EXCEPT !.provider = p, !.default[p] = m]
    /\ built' = [provider |-> p, model |-> m]
    /\ effort' = IF effort \in Supported(config', store) THEN effort ELSE "auto"
    /\ origin' = from
    /\ moved' = FALSE

\* /model with a name: whatever it is, of the current provider.
SwitchTyped ==
    /\ \E m \in Typable[config.provider] : SwitchActiveModel(config.provider, m, "typed")
    /\ UNCHANGED <<store, picker, task, news, lists, heard>>

Free(t) == task[t].pc = "idle"

\* The task that is started for an App request.
SpawnAppRequest(kind) ==
    \E t \in Tasks : /\ Free(t)
                     /\ task' = [task EXCEPT ![t] = [IdleTask EXCEPT !.kind = kind,
                                     !.pc = IF kind = "refresh" THEN "asking"
                                                                ELSE "authorising"]]

\* Only with a Copilot record is there something to ask with.
CopilotModelRefreshRequest ==
    IF store["copilot"].there THEN SpawnAppRequest("refresh") ELSE UNCHANGED task

\* For the other providers /model refresh does nothing, unless it is written with
\* two spaces.
RefreshCommand ==
    /\ \/ CopilotModelRefreshRequest
       \/ config.provider # "copilot" /\ UNCHANGED task
    /\ UNCHANGED <<config, built, effort, store, picker, news, lists, heard, origin, moved>>

OpenModelPicker ==
    /\ LET rows == AvailableModelOptions(config, store)
       IN  picker' = [open   |-> "model",
                      rows   |-> rows,
                      cursor |-> FirstRow(rows, {Row(config.provider, ActiveModel)}),
                      lost   |-> FALSE]
    /\ CopilotModelRefreshRequest
    /\ UNCHANGED <<config, built, effort, store, news, lists, heard, origin, moved>>

OpenLoginPicker ==
    /\ picker' = [open |-> "login", rows |-> <<Header("copilot"), Header("openai_account")>>,
                  cursor |-> 1, lost |-> FALSE]
    /\ UNCHANGED <<config, built, effort, store, task, news, lists, heard, origin, moved>>

PickerIs(p) == picker.open = p
Pointed == picker.rows[picker.cursor]

ClosePicker ==
    /\ picker.open # "none"
    /\ picker' = Closed
    /\ UNCHANGED <<config, built, effort, store, task, news, lists, heard, origin, moved>>

\* Up and down pass over the headers; any model can be reached.
MoveCursor ==
    /\ PickerIs("model")
    /\ \E j \in DOMAIN picker.rows :
          /\ IsModel(picker.rows[j])
          /\ picker' = [picker EXCEPT !.cursor = j, !.lost = FALSE]
    /\ UNCHANGED <<config, built, effort, store, task, news, lists, heard, origin, moved>>

MoveLoginCursor ==
    /\ PickerIs("login")
    /\ picker' = [picker EXCEPT !.cursor = (@ % Len(picker.rows)) + 1]
    /\ UNCHANGED <<config, built, effort, store, task, news, lists, heard, origin, moved>>

\* On a header Enter just closes the picker.
SelectModel ==
    /\ PickerIs("model")
    /\ picker' = Closed
    /\ IF IsModel(Pointed)
       THEN SwitchActiveModel(Pointed.provider, Pointed.model, "picked")
       ELSE UNCHANGED <<config, built, effort, origin, moved>>
    /\ UNCHANGED <<store, task, news, lists, heard>>

-----------------------------------------------------------------------------
(* Logging in and out.                                                     *)

\* Other providers have no login.
LoginProvider(p) == IF p \in Held THEN SpawnAppRequest(p) ELSE UNCHANGED task

LoginCommand ==
    /\ \E p \in ToSet(AllProviders) : LoginProvider(p)
    /\ UNCHANGED <<config, built, effort, store, picker, news, lists, heard, origin, moved>>

\* With a token of the environment: a record at once, without a list.
LoginFromEnv ==
    /\ store' = [store EXCEPT !["copilot"] = Fresh]
    /\ NoteEfforts(config, store')
    /\ UNCHANGED <<config, built, effort, picker, task, news, lists, heard, origin>>

SelectLogin ==
    /\ picker.open # "none"
    /\ LoginProvider(Pointed.provider)
    /\ picker' = Closed
    /\ UNCHANGED <<config, built, effort, store, news, lists, heard, origin, moved>>

RemoveRecord(p) ==
    /\ store' = [store EXCEPT ![p] = NoRecord]
    /\ config' = IF p = "copilot" /\ store[p].there
                 THEN [config EXCEPT !.copilot = NoList] ELSE config
    /\ NoteEfforts(config', store')

Clamped(rows) == IF picker.cursor <= Len(rows) THEN picker.cursor ELSE Len(rows)

LogoutCommand ==
    /\ picker.open = "none"
    /\ \E p \in Accounts : RemoveRecord(p)
    /\ UNCHANGED <<built, effort, picker, task, news, lists, heard, origin>>

\* The cursor may come to rest on a header.
LogoutCurrent ==
    /\ PickerIs("model")
    /\ IF Pointed.provider \in Accounts THEN RemoveRecord(Pointed.provider)
                                        ELSE UNCHANGED <<store, config, moved>>
    /\ LET rows == AvailableModelOptions(config', store')
       IN  picker' = [picker EXCEPT !.rows = rows, !.cursor = Clamped(rows), !.lost = TRUE]
    /\ UNCHANGED <<built, effort, task, news, lists, heard, origin>>

-----------------------------------------------------------------------------
(* The tasks.                                                              *)

Step(t, from, new) == task[t].pc = from /\ task' = [task EXCEPT ![t] = new]

\* A login ends with a record that has no list yet; with Copilot it then asks for
\* one.
LoggedIn(t) ==
    /\ \/ Step(t, "authorising", IdleTask) /\ UNCHANGED <<store, moved>>
       \/ /\ Step(t, "authorising",
                  IF task[t].kind = "copilot" THEN [task[t] EXCEPT !.pc = "asking"] ELSE IdleTask)
          /\ store' = [store EXCEPT ![task[t].kind] = Fresh]
          /\ NoteEfforts(config, store')
    /\ UNCHANGED <<config, built, effort, picker, news, lists, heard, origin>>

\* fetch_copilot_models: what the list tells of the models is stored first, if
\* there still is a record.
FetchModels(t) ==
    /\ \E l \in CopilotLists :
          /\ Step(t, "asking", [task[t] EXCEPT !.pc = "saving", !.models = l])
          /\ store' = IF store["copilot"].there
                      THEN [store EXCEPT !["copilot"].endpoints = ToSet(l)] ELSE store
    /\ NoteEfforts(config, store')
    /\ UNCHANGED <<config, built, effort, picker, news, lists, heard, origin>>

\* A refresh tells the App of its failure, a login shows a message.
FetchFails(t) ==
    /\ Step(t, "asking", IdleTask)
    /\ task[t].kind = "refresh" => Len(news) < MaxNews
    /\ news' = IF task[t].kind = "refresh"
               THEN Append(news, [models |-> NoList, number |-> 0]) ELSE news
    /\ UNCHANGED <<config, built, effort, store, picker, lists, heard, origin, moved>>

\* Then the list itself.  A refresh goes on when the record is gone.
SaveModels(t) ==
    /\ lists < MaxLists
    /\ IF store["copilot"].there
       THEN /\ Step(t, "saving", [task[t] EXCEPT !.pc = "telling", !.number = lists + 1])
            /\ store' = [store EXCEPT !["copilot"].models = task[t].models,
                                      !["copilot"].number = lists + 1]
            /\ lists' = lists + 1
       ELSE /\ Step(t, "saving", IF task[t].kind = "refresh"
                                 THEN [task[t] EXCEPT !.pc = "telling"] ELSE IdleTask)
            /\ UNCHANGED <<store, lists>>
    /\ UNCHANGED <<config, built, effort, picker, news, heard, origin, moved>>

Tell(t) ==
    /\ Step(t, "telling", IdleTask)
    /\ Len(news) < MaxNews
    /\ news' = Append(news, [models |-> task[t].models, number |-> task[t].number])
    /\ UNCHANGED <<config, built, effort, store, picker, lists, heard, origin, moved>>

\* A turn whose model Copilot does not support stores a new list and tells nobody.
SaveInTurn ==
    /\ lists < MaxLists
    /\ built.provider = "copilot"
    /\ store["copilot"].there
    /\ \E l \in CopilotLists : store' = [store EXCEPT !["copilot"] = Listing(l, lists + 1)]
    /\ lists' = lists + 1
    /\ NoteEfforts(config, store')
    /\ UNCHANGED <<config, built, effort, picker, task, news, heard, origin>>

TaskStep(t) == LoggedIn(t) \/ FetchModels(t) \/ FetchFails(t) \/ SaveModels(t) \/ Tell(t)

-----------------------------------------------------------------------------
(* CopilotModels.                                                          *)

\* (with a mistake: the App keeps to the model it has)
ChosenAnewNever(models) == ActiveModel

\* The first of the list replaces a model that is not in it.
ChosenAnew(models) == IF ActiveModel \in ToSet(models) THEN ActiveModel ELSE models[1]

\* (with a mistake: the cursor stays on its row)
ReseatedNever(rows) == picker.cursor

\* The cursor goes to the first model of Copilot, wherever it was.
Reseated(rows) == FirstRow(rows, {r \in ToSet(rows) : r.provider = "copilot" /\ IsModel(r)})

HearModels ==
    /\ news # <<>>
    /\ LET models == Head(news).models
           active == ChosenAnew(models)
           rows   == AvailableModelOptions(config', store)
       IN  IF models = NoList
           THEN UNCHANGED <<config, built, picker, heard, origin, moved>>
           ELSE /\ IF config.provider = "copilot"
                   THEN /\ config' = [config EXCEPT !.default["copilot"] = active,
                                                    !.copilot = models]
                        /\ built' = [provider |-> "copilot", model |-> active]
                        /\ origin' = "heard"
                   ELSE /\ config' = [config EXCEPT !.copilot = models]
                        /\ UNCHANGED <<built, origin>>
                /\ NoteEfforts(config', store)
                /\ heard' = Head(news).number
                /\ picker' = IF PickerIs("model")
                             THEN [picker EXCEPT !.rows = rows, !.cursor = Reseated(rows),
                                           !.lost = FALSE]
                             ELSE picker
    /\ news' = Tail(news)
    /\ UNCHANGED <<effort, store, task, lists>>

-----------------------------------------------------------------------------
(* Properties.                                                             *)

\* The model a message is put to if it is sent now.
AskedModel ==
    LET list == store["copilot"].models
    IN  IF built.provider = "copilot" /\ list # NoList /\ built.model \notin ToSet(list)
        THEN list[1] ELSE built.model

\* The model and the effort on display are those a message is sent with, through
\* choices, logins, logouts and lists that arrive late.  Not so while the App has
\* not heard of the list that is stored (or has heard of an older one last), for
\* a model that is from the configuration file or was typed, and for the effort
\* after a change the user did not make.
AskedIsShown ==
    /\ built.provider = config.provider
    /\ heard = store["copilot"].number /\ origin \in {"picked", "heard"}
          => AskedModel = ActiveModel
    /\ built.model = ActiveModel
    /\ ~moved => Normalised(config, store) = effort

\* Enter in the model picker takes a model, though the rows are replaced while the
\* picker is open; only a logout may leave the cursor on a header.
PointsAtModel ==
    PickerIs("model") =>
        /\ picker.cursor \in DOMAIN picker.rows
        /\ IsModel(Pointed) \/ picker.lost
=============================================================================
