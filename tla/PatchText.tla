----------------------------- MODULE PatchText ------------------------------
(***************************************************************************)
(* The text side of the apply_patch tool (src/tools/apply_patch.rs): how a *)
(* V4A patch is parsed and how its hunks change the lines of a file.       *)
(*                                                                         *)
(* A line is [indent, word]: two lines that differ only in their leading   *)
(* blanks have the same word.  Trailing blanks and line endings, which the *)
(* tool compares away or rewrites, are left out.                           *)
(***************************************************************************)
EXTENDS Naturals, SequencesExt

CONSTANTS
    Lines,  \* the lines of files and patches
    NoText  \* what a file is that cannot be read as UTF-8

\* trim_end keeps the indent, trim does not.
SameLine(a, b)  == a = b
SameWords(a, b) == a.word = b.word

Earliest(places) == IF places = {} THEN 0 ELSE Min(places)

\* The removals of the hunk stand at lines pos, pos + 1, ...
RemovalsAt(lines, pos, hunk) ==
    \A j \in DOMAIN hunk.removals :
        /\ pos + j - 1 <= Len(lines)
        /\ SameLine(lines[pos + j - 1], hunk.removals[j])

\* The first removal, or without removals the first line of context, decides
\* where a hunk goes, always searched from the top of the file: first as it
\* stands, then without regard to indentation.  A hunk with neither goes to
\* the end.  0 when there is no such place.
FindHunkPosition(lines, hunk) ==
    IF hunk.removals = <<>> /\ hunk.context = <<>> THEN Len(lines) + 1
    ELSE LET wanted == Head(hunk.removals \o hunk.context)
             fit    == {i \in DOMAIN lines : RemovalsAt(lines, i, hunk)}
             exact  == Earliest({i \in fit : SameLine(lines[i], wanted)})
             fuzzy  == Earliest({i \in fit : SameWords(lines[i], wanted)})
         IN  IF exact # 0 THEN exact ELSE fuzzy

\* (with a mistake: only the first of the removed lines is taken out)
ApplyHunkShort(lines, hunk) ==
    IF lines = NoText THEN NoText
    ELSE LET pos == FindHunkPosition(lines, hunk)
         IN  IF pos = 0 THEN NoText
             ELSE SubSeq(lines, 1, pos - 1) \o hunk.additions
                    \o SubSeq(lines, pos + 1, Len(lines))

\* One hunk of apply_hunks.  NoText, the error, is kept by the hunks after it.
ApplyHunk(lines, hunk) ==
    IF lines = NoText THEN NoText
    ELSE LET pos == FindHunkPosition(lines, hunk)
         IN  IF pos = 0 THEN NoText
             ELSE SubSeq(lines, 1, pos - 1) \o hunk.additions
                    \o SubSeq(lines, pos + Len(hunk.removals), Len(lines))

ApplyHunks(original, hunks) ==
    LET after[k \in 0..Len(hunks)] ==
            IF k = 0 THEN original ELSE ApplyHunk(after[k - 1], hunks[k])
    IN  after[Len(hunks)]

-----------------------------------------------------------------------------
(* The parser.  A line of a patch is [tag, arg]: the file name of a header *)
(* ("add", "delete", "update"), the context of "@@" (<<>> when it has      *)
(* none), the line behind "-", "+" or " ", or a line with none of these    *)
(* marks ("bare").  arg is a sequence of at most one element.              *)

Blank == [indent |-> 0, word |-> "blank"]

\* The context of "@@" is trimmed.
NewHunk(context) ==
    [context   |-> [i \in DOMAIN context |-> [context[i] EXCEPT !.indent = 0]],
     removals  |-> <<>>,
     additions |-> <<>>]

\* What stands under a header goes to the operation it opened.
IntoAdd(op, line) ==
    CASE line.tag = "+" -> [op EXCEPT !.content = @ \o line.arg]
      [] line.tag \in {" ", "bare"} /\ line.arg = <<Blank>> ->
            [op EXCEPT !.content = Append(@, Blank)]
      [] OTHER -> op

IntoHunk(hunk, line) ==
    CASE line.tag = "-" -> [hunk EXCEPT !.removals = @ \o line.arg]
      [] line.tag = "+" -> [hunk EXCEPT !.additions = @ \o line.arg]
      [] line = [tag |-> "bare", arg |-> <<Blank>>] -> hunk
      [] OTHER -> [hunk EXCEPT !.context = @ \o line.arg]

\* Before the first "@@" of a file every line is skipped.
IntoUpdate(op, line) ==
    IF line.tag = "@@" THEN [op EXCEPT !.hunks = Append(@, NewHunk(line.arg))]
    ELSE IF op.hunks = <<>> THEN op
    ELSE [op EXCEPT !.hunks[Len(op.hunks)] = IntoHunk(@, line)]

Opened(tag, file) ==
    [kind |-> tag, file |-> file, content |-> <<>>, hunks |-> <<>>]

ParseLine(st, line) ==
    CASE st.phase = "before" ->
            IF line.tag = "begin" THEN [st EXCEPT !.phase = "inside"] ELSE st
      [] st.phase = "inside" /\ line.tag = "end" -> [st EXCEPT !.phase = "after"]
      [] st.phase = "inside" /\ line.tag \in {"add", "delete", "update"} ->
            [st EXCEPT !.ops = Append(@, Opened(line.tag, Head(line.arg)))]
      [] st.phase = "inside" /\ st.ops # <<>> /\ Last(st.ops).kind = "add" ->
            [st EXCEPT !.ops[Len(st.ops)] = IntoAdd(@, line)]
      [] st.phase = "inside" /\ st.ops # <<>> /\ Last(st.ops).kind = "update" ->
            [st EXCEPT !.ops[Len(st.ops)] = IntoUpdate(@, line)]
      [] OTHER -> st

ParseV4A(patch) ==
    FoldLeft(ParseLine, [phase |-> "before", ops |-> <<>>], patch).ops
=============================================================================
