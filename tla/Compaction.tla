---------------------------- MODULE Compaction -----------------------------
(***************************************************************************)
(* What is sent of a transcript (src/agent/compaction.rs and the message   *)
(* builders of src/providers).                                             *)
(*                                                                         *)
(* A message is [id, size, blank]: its size in bytes, and whether it is    *)
(* white space only.  Four bytes count as a token.                         *)
(***************************************************************************)
EXTENDS Naturals, Sequences, SequencesExt

Messages == [id : Nat, size : Nat, blank : BOOLEAN]

Cost(message) == message.size \div 4

\* The sum of the first so many numbers, for any number of them.
Sums(numbers) ==
    LET sum[i \in 0..Len(numbers)] == IF i = 0 THEN 0 ELSE sum[i - 1] + numbers[i]
    IN  sum

Sizes(messages) == [i \in DOMAIN messages |-> messages[i].size]
Costs(messages) == [i \in DOMAIN messages |-> Cost(messages[i])]

\* The bytes are added up before they are divided.
EstimateTokens(messages) == Sums(Sizes(messages))[Len(messages)] \div 4

\* Message by message.
TokensOf(messages) == Sums(Costs(messages))[Len(messages)]

UsableTokens(window, reserve) == IF window > reserve THEN window - reserve ELSE 0

NeedsCompaction(messages, window, reserve) ==
    LET usable == UsableTokens(window, reserve)
    IN  usable # 0 /\ EstimateTokens(messages) >= usable

\* Both walks stop at the message with which their budget is reached; `at` is the
\* number of messages looked at.
Walk(messages, budget) ==
    LET reached == {i \in DOMAIN messages : Sums(Costs(messages))[i] >= budget}
    IN  [stopped |-> reached # {},
         at      |-> IF reached = {} THEN Len(messages) ELSE Min(reached)]

\* From the newest, as many as the budget takes.  When that is all of them, the
\* oldest 60 % go instead.  The result is the number of messages that go.
\* (with a mistake: the walk stops one message too late)
SplitAfter(messages, keep) ==
    LET kept == Walk(Reverse(messages), keep).at
        old  == Walk(messages, (EstimateTokens(messages) * 6) \div 10)
    IN  IF kept < Len(messages) THEN Len(messages) - kept + 1
        ELSE IF old.stopped THEN old.at ELSE 0

Split(messages, keep) ==
    LET kept == Walk(Reverse(messages), keep).at
        old  == Walk(messages, (EstimateTokens(messages) * 6) \div 10)
    IN  IF kept < Len(messages) THEN Len(messages) - kept
        ELSE IF old.stopped /\ old.at < Len(messages) THEN old.at ELSE 0

\* The summary stands for the messages that go, if there is one; the loop adopts
\* the list if it is shorter.
Summary == [id |-> 0, size |-> 4, blank |-> FALSE]

CompactMessages(messages, keep, summarised) ==
    LET split == Split(messages, keep)
        list  == <<Summary>> \o SubSeq(messages, split + 1, Len(messages))
    IN  IF /\ Len(messages) > 2
           /\ split # 0
           /\ summarised
           /\ Len(list) < Len(messages)
        THEN list ELSE messages

\* Every provider leaves empty messages out, ChatGPT blank ones too.
Conversation(provider, messages) ==
    SelectSeq(messages,
              LAMBDA m : m.size > 0 /\ (provider = "account" => ~m.blank))

=============================================================================
