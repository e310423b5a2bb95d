--------------------------- MODULE MCModelStream ---------------------------
(* Calls of the four providers on small transcripts and responses.          *)
EXTENDS ModelStream

Message(i, size, blank) == [id |-> i, size |-> size, blank |-> blank]

\* Sizes of messages: nothing, below a token, a token, ten.
OfSizes(sizes) == [i \in DOMAIN sizes |-> Message(i, sizes[i], FALSE)]

MCTranscripts ==
    {OfSizes(sizes) : sizes \in UNION {[1..n -> {0, 3, 4, 40}] : n \in 1..4}}
      \union {<<Message(1, 4, TRUE), Message(2, 4, FALSE)>>}
=============================================================================
