---------------------------- MODULE MCWorkspace -----------------------------
(***************************************************************************)
(* Instances of Workspace for TLC: an ignore file, a file it may ignore    *)
(* and two sources.                                                        *)
(***************************************************************************)
EXTENDS Workspace, TLC

CONSTANTS t1, ui, ignoreFile, build, src, new, outside

LineA == [indent |-> 0, word |-> "a"]
LineB == [indent |-> 1, word |-> "b"]
FlatB == [indent |-> 0, word |-> "b"]

MCLines == {LineA, LineB, FlatB, Blank}
MCTexts == BoundedSeq(MCLines, 5) \union {NoText}

\* An ignore file with an a-line excludes build.
MCIgnoredBy ==
    [x \in MCTexts |->
        IF x # NoText /\ Contains(x, LineA) THEN {build} ELSE {}]

MCSizeOf == [x \in MCTexts |-> IF x = NoText THEN 9 ELSE Len(x)]

Tree(i, b, s, n) ==
    [f \in Files |-> CASE f = ignoreFile -> i [] f = build -> b
                       [] f = src -> s [] OTHER -> n]

MCStartTrees == {Tree(<<LineA>>, NoText, <<LineB, LineA, LineB>>, Absent)}

Tag(tag, arg) == [tag |-> tag, arg |-> arg]
Begin == Tag("begin", <<>>)
End   == Tag("end", <<>>)

\* Changes the block of src that begins at its first a-line, and adds new.
ChangeAndAdd ==
    <<Begin,
      Tag("update", <<src>>), Tag("@@", <<LineA>>),
      Tag("-", <<LineA>>), Tag("-", <<LineB>>), Tag("+", <<FlatB>>),
      Tag("add", <<new>>), Tag("+", <<LineA>>), Tag("bare", <<Blank>>),
      End>>

\* Moves src to new.
Move ==
    <<Begin,
      Tag("delete", <<src>>),
      Tag("add", <<new>>), Tag("+", <<LineB>>), Tag("+", <<LineA>>), Tag("+", <<LineB>>),
      End>>

\* Finds its place only when indentation is disregarded; then again at the end,
\* and a second operation on the file.
Loosely ==
    <<Tag("bare", <<LineA>>), Begin,
      Tag("update", <<src>>),
      Tag("bare", <<LineA>>),
      Tag("@@", <<LineB>>), Tag("+", <<LineA>>),
      Tag("delete", <<build>>),
      End, Tag("delete", <<new>>)>>

\* Stops ignoring build, twice in one patch.
Unignore ==
    <<Begin,
      Tag("update", <<ignoreFile>>), Tag("@@", <<>>), Tag("-", <<LineA>>),
      Tag("update", <<ignoreFile>>), Tag("@@", <<>>), Tag(" ", <<LineA>>),
      Tag("+", <<LineB>>),
      End>>

Outside == <<Begin, Tag("delete", <<outside>>), End>>

MCPatches == {ChangeAndAdd, Loosely, Unignore, Outside, Move}

MCEdits == {<<build, <<FlatB>>>>}
=============================================================================
