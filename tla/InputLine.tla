----------------------------- MODULE InputLine ------------------------------
(***************************************************************************)
(* The input line of the App (src/app.rs) and what is attached to it.      *)
(*                                                                         *)
(* A long paste or an image does not go into the line: the line gets a     *)
(* tag, `[Pasted text #2 +9 lines]`, the rest is kept in a list beside it, *)
(* and tag and list are kept in step by hand.  The line is a sequence of   *)
(* items; it is edited at its end only.                                    *)
(***************************************************************************)
EXTENDS Naturals, Sequences, FiniteSets, SequencesExt

CONSTANTS
    Things,     \* long texts and images in the clipboard
    Commands,   \* slash commands
    Files,      \* files of the workspace
    MaxTexts,   \* MAX_PASTED_TEXT_ENTRIES
    MaxImages,  \* MAX_PASTED_IMAGES
    MaxItems    \* bound: items of the line

ASSUME LineAssumption == {MaxTexts, MaxImages, MaxItems} \subseteq Nat

VARIABLES
    line,      \* input
    attached,  \* pasted_contents and pasted_images
    strayed    \* history: what has brought tags and lists out of step

lineVars == <<line, attached, strayed>>

Kinds == {"text", "image"}
Limit == [text |-> MaxTexts, image |-> MaxImages]

\* Letters stand for anything that has no meaning here.  A copy is text that
\* looks like a tag.  A mention is an "@" with the beginning of a path.
Item(kind)          == [kind |-> kind]
Letter              == Item("letter")
Space               == Item("space")
Slash               == Item("slash")
Mention             == Item("mention")
Copy(of)            == [kind |-> "copy", of |-> of]
Command(name)       == [kind |-> "command", name |-> name]
File(path)          == [kind |-> "file", path |-> path]
Tag(of, nr, thing)  == [kind |-> "tag", of |-> of, nr |-> nr, thing |-> thing]

NoneAttached == [text |-> <<>>, image |-> <<>>]

LineInit == line = <<>> /\ attached = NoneAttached /\ strayed = "no"

Has(kind) == \E i \in DOMAIN line : line[i].kind = kind
Tags(of)  == {i \in DOMAIN line : line[i].kind = "tag" /\ line[i].of = of}
Blank     == \A i \in DOMAIN line : line[i] = Space
Ends(kinds) == line # <<>> /\ Last(line).kind \in kinds

-----------------------------------------------------------------------------
(* Completion lists.                                                       *)

\* While a command is typed, those it may become.
SlashCommandMatches ==
    IF line = <<Slash>> THEN Commands
    ELSE IF Len(line) = 1 /\ Has("command") THEN {line[1].name}
    ELSE {}

\* The last "@" of the line, if there is one.
At == {i \in DOMAIN line : /\ line[i].kind \in {"mention", "file"}
                          /\ \A j \in (i + 1)..Len(line) :
                                line[j].kind \notin {"mention", "file"}}

\* A mention is open if it is the first item or follows a space, and while nothing
\* with a space follows it.
FileMentionMatches ==
    IF \E i \in At : /\ i > 1 => line[i - 1] = Space
                    /\ \A j \in (i + 1)..Len(line) : line[j] = Letter
    THEN Files ELSE {}

-----------------------------------------------------------------------------
(* Editing: edit_input, paste_text, paste_image, the two completions.  The *)
(* caller sees to the mode and the pickers.                                *)

Insert ==
    /\ Len(line) < MaxItems
    /\ \/ \E item \in {Letter, Space, Mention} : line' = Append(line, item)
       \/ Blank /\ line' = Append(line, Slash)
       \/ Ends({"slash"}) /\ \E c \in Commands : line' = Append(Front(line), Command(c))
    /\ UNCHANGED <<attached, strayed>>

\* What the key removes of an item that is no tag.
Shortened(item) ==
    CASE item.kind = "command" -> <<Slash>>
      [] item.kind = "file"    -> <<Mention>>
      [] OTHER                 -> <<>>

\* (with a mistake: the oldest of the list goes)
DropAttachedOldest(of) ==
    [attached EXCEPT ![of] = IF @ = <<>> THEN @ ELSE Tail(@)]

DropAttached(of) ==
    [attached EXCEPT ![of] = IF @ = <<>> THEN @ ELSE Front(@)]

\* A tag goes as a whole, and the newest of its list with it.  So does what looks
\* like one.
Backspace ==
    /\ line # <<>>
    /\ IF Ends({"tag", "copy"})
       THEN /\ line' = Front(line)
            /\ attached' = DropAttached(Last(line).of)
            /\ strayed' = IF Ends({"copy"}) /\ attached' # attached THEN "taken" ELSE strayed
       ELSE /\ line' = Front(line) \o Shortened(Last(line))
            /\ UNCHANGED <<attached, strayed>>

\* A text of more than five lines or 200 bytes is attached; when the list is full
\* no text at all can be pasted.  The number of an attachment is its place.
Attach(of) ==
    /\ Len(line) < MaxItems
    /\ Len(attached[of]) < Limit[of]
    /\ \E thing \in Things :
          /\ attached' = [attached EXCEPT ![of] = Append(@, thing)]
          /\ line' = Append(line, Tag(of, Len(attached[of]) + 1, thing))
    /\ UNCHANGED strayed

\* A short text goes into the line as it is: prose, the beginning of a command or
\* a tag that was copied from the transcript.
PasteShort ==
    /\ Len(line) < MaxItems
    /\ Len(attached["text"]) < Limit["text"]
    /\ \/ \E item \in {Letter, Copy("text"), Copy("image")} : line' = Append(line, item)
       \/ Blank /\ line' = Append(line, Slash)
    /\ UNCHANGED <<attached, strayed>>

Paste == PasteShort \/ \E of \in Kinds : Attach(of)

CompleteSlashCommand ==
    /\ \E c \in SlashCommandMatches : line' = <<Command(c)>>
    /\ UNCHANGED <<attached, strayed>>

\* From the last "@" on, the line is replaced by the path and a space.
CompleteFileMention ==
    /\ \E f \in FileMentionMatches, i \in At :
          line' = SubSeq(line, 1, i - 1) \o <<File(f), Space>>
    /\ UNCHANGED <<attached, strayed>>

\* Esc empties the line and nothing else.
Clear ==
    /\ line' = <<>>
    /\ UNCHANGED attached
    /\ strayed' = IF attached # NoneAttached /\ strayed = "no" THEN "left" ELSE strayed

-----------------------------------------------------------------------------
(* Submission.                                                             *)

\* What is left after trimming.
FirstItem == CHOOSE i \in DOMAIN line :
                line[i] # Space /\ \A j \in 1..(i - 1) : line[j] = Space

\* What begins with a slash is a command, known or not.
IsCommand == ~Blank /\ line[FirstItem].kind \in {"slash", "command"}

\* The command, and whether it has an argument.
Named ==
    IF /\ line[FirstItem] # Slash
       /\ FirstItem < Len(line) => line[FirstItem + 1] = Space
    THEN line[FirstItem].name ELSE "unknown"
Argument == \E i \in (FirstItem + 1)..Len(line) : line[i] # Space

\* A command leaves the attachments where they are.
RunCommand == Clear

\* Files that are named by a word of their own.
Mentioned ==
    {f \in Files :
        \E i \in DOMAIN line : /\ line[i] = File(f)
                               /\ i > 1 => line[i - 1] = Space
                               /\ i < Len(line) => line[i + 1] = Space}

\* The model gets the line with all that is attached, by number.
Message == [line |-> line, files |-> Mentioned, attached |-> attached]

SubmitMessage ==
    /\ line' = <<>>
    /\ attached' = NoneAttached
    /\ strayed' = "no"

-----------------------------------------------------------------------------
(* Properties.                                                             *)

\* The number of a tag leads the model to what was pasted with it, whatever was
\* deleted, cleared or completed in between; and nothing is attached that the line
\* does not show.  Two things break this: Esc and commands leave attachments
\* behind, which go out with the next message under their old numbers, and to
\* delete a copied tag takes an attachment away from a real one.
AttachmentsAsTagged ==
    \A of \in Kinds :
        /\ strayed # "taken" =>
              \A i \in Tags(of) : /\ line[i].nr \in DOMAIN attached[of]
                                  /\ attached[of][line[i].nr] = line[i].thing
        /\ strayed = "no" => Cardinality(Tags(of)) = Len(attached[of])
=============================================================================
