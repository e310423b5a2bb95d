---------------------------- MODULE Permissions ----------------------------
(***************************************************************************)
(* The permission engine of artui (src/permissions/mod.rs): which tool     *)
(* calls of the model run at once, which ask the user and which are        *)
(* refused.  The engine is a value here; TurnLoop keeps it in a variable,  *)
(* because all turns of a session share one engine behind a mutex.         *)
(***************************************************************************)
CONSTANTS
    ReadOnlyTools,  \* read_file, glob, search
    WriteTools,     \* apply_patch, shell
    Lsp,            \* the multi-action lsp tool
    OtherTools      \* every other name: todo_write, task, web, MCP tools, typos

Tools == ReadOnlyTools \union WriteTools \union {Lsp} \union OtherTools

ASSUME ToolsAssumption ==
    /\ ReadOnlyTools \intersect WriteTools = {}
    /\ Lsp \notin ReadOnlyTools \union WriteTools \union OtherTools
    /\ OtherTools \intersect (ReadOnlyTools \union WriteTools) = {}

Agents    == {"build", "plan"}
Decisions == {"allow", "ask", "deny"}

\* What the action argument of an lsp call amounts to: a read, code_actions
\* without apply, rename or code_actions with apply, or no known action.
LspActions == {"read", "listing", "mutation", "unknown"}

\* The part of a tool call the engine looks at.  Only lsp calls are told
\* apart by their arguments.
Calls == [name : Tools \ {Lsp}, action : {"unknown"}]
           \union [name : {Lsp}, action : LspActions]

\* overrides[t] is "unset" when [permissions.tools] has no valid label for t.
Engines == [agent     : Agents,
            overrides : [Tools -> Decisions \union {"unset"}],
            session   : SUBSET Tools]

WithOverrides(agent, raw) ==
    [agent     |-> agent,
     overrides |-> [t \in Tools |-> IF raw[t] \in Decisions THEN raw[t] ELSE "unset"],
     session   |-> {}]

LspDecision(agent, action) ==
    IF action # "mutation" THEN "allow"
    ELSE IF agent = "plan" THEN "deny" ELSE "ask"

\* What a tool nobody has configured or approved may do in each agent.
DefaultDecision(agent, call) ==
    IF call.name = Lsp THEN LspDecision(agent, call.action)
    ELSE IF call.name \in ReadOnlyTools THEN "allow"
    ELSE IF call.name \in WriteTools
         THEN IF agent = "plan" THEN "deny" ELSE "allow"
    ELSE "ask"

\* A session approval beats a configured override, which beats the default.
Classify(eng, call) ==
    IF call.name \in eng.session THEN "allow"
    ELSE IF eng.overrides[call.name] # "unset" THEN eng.overrides[call.name]
    ELSE DefaultDecision(eng.agent, call)

ApproveForSession(eng, tool) == [eng EXCEPT !.session = @ \union {tool}]
=============================================================================
