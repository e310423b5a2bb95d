----------------------------- MODULE MCComposer -----------------------------
(***************************************************************************)
(* An instance of Composer for TLC: Ollama and Copilot, and the login of   *)
(* ChatGPT; short lines, three models of Copilot, one of them typed only.  *)
(***************************************************************************)
EXTENDS Composer, TLC

CONSTANTS t1, c1, c2, c3, local, codex, remote

MCDiscovered == [p \in ToSet(AllProviders) |-> NoList]
MCConfigured == [ollama |-> local, openai_compat |-> remote, copilot |-> c1,
                 openai_account |-> codex]
MCCopilotLists == {<<c1, c2>>, <<c2>>}
MCServed == [m \in {c1, c2, c3, local, codex, remote} |-> IF m = c2 THEN {"high"} ELSE {}]
MCKnown  == [m \in {c1, c2, c3, local, codex, remote} |-> IF m = c1 THEN {"high"} ELSE {}]
MCTypable == [p \in ToSet(AllProviders) |-> IF p = "copilot" THEN {c3} ELSE {}]

\* The lines that give commands, and a message, written while nothing else goes on.
Plain ==
    /\ attached = NoneAttached /\ strayed = "no"
    /\ line # <<>> => NoPicker /\ ~streaming /\ news = <<>>
    /\ \/ line \in {<<>>, <<Letter>>, <<Slash>>}
       \/ \E c \in Commands : line \in {<<Command(c)>>, <<Command(c), Space>>,
                                        <<Command(c), Space, Letter>>}

\* Bound: other lines are written only where the choice is as it was at the start of
\* a program that uses Ollama and knows no account.
Aside ==
    \/ Plain
    \/ /\ config.provider = "ollama" /\ origin = "file"
       /\ \A a \in Accounts : ~store[a].there
       /\ \A t \in Tasks : Free(t)
       /\ news = <<>> /\ NoPicker
=============================================================================
