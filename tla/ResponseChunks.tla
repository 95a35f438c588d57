--------------------------- MODULE ResponseChunks ---------------------------
(***************************************************************************)
(* encodeResponseChunks (nats/wire.go): a text is cut into pieces whose    *)
(* JSON encoding fits the connection's limit, at rune boundaries.  A text  *)
(* is a sequence of bytes; the first byte of a rune carries the bytes that *)
(* its encoding takes, which escaping makes more than those of the rune.   *)
(***************************************************************************)
EXTENDS Integers, SequencesExt, FiniteSetsExt

CONSTANTS Runes,    \* the runes of a text: their size and their encoded size
          UTFMax,   \* utf8.UTFMax, the largest size
          MaxRunes, \* bound on the runes of a text
          Overhead, \* the encoded size of the empty chunk
          Limits    \* what a connection may carry

VARIABLES
    text, limit, \* the call's arguments
    splitting,   \* "new", "whole", "piece", "shrink", "done" or "failed"
    chunks,      \* the pieces cut so far
    n            \* the size tried for the next piece

chunkVars == <<text, limit, splitting, chunks, n>>

Bytes(rune) == [i \in 1 .. rune.size |-> [start |-> i = 1, cost |-> IF i = 1 THEN rune.cost ELSE 0]]
Texts == {FlattenSeq([i \in DOMAIN runes |-> Bytes(runes[i])]) : runes \in BoundedSeq(Runes, MaxRunes)}

\* encodeResponseChunk: only the size matters.
Encoded(piece) == Overhead + FoldSeq(LAMBDA b, sum : sum + b.cost, 0, piece)

\* Variant: the cut may fall inside a rune.
RuneBoundary_Bytes(piece, size) == IF size < 0 THEN 0 ELSE size

\* runeBoundary
RuneBoundary(piece, size) ==
    IF size <= 0 \/ size >= Len(piece) THEN IF size < 0 THEN 0 ELSE size
    ELSE Max({m \in 0 .. size :
                 m = 0 \/ piece[m + 1].start \/ m = size - (UTFMax - 1)})

Rest == SubSeq(text, Len(FlattenSeq(chunks)) + 1, Len(text))

Smallest(a, b) == IF a < b THEN a ELSE b

ChunksInit == text = <<>> /\ limit = 0 /\ splitting = "new" /\ chunks = <<>> /\ n = 0

Begin ==
    /\ splitting = "new"
    /\ text' \in Texts /\ limit' \in Limits
    /\ splitting' = "whole"
    /\ UNCHANGED <<chunks, n>>

\* A text that fits is one chunk, the empty one too.
Whole ==
    /\ splitting = "whole"
    /\ IF Encoded(text) <= limit
       THEN splitting' = "done" /\ chunks' = <<text>>
       ELSE splitting' = "piece" /\ UNCHANGED chunks
    /\ UNCHANGED <<text, limit, n>>

\* The next piece is tried with as many bytes as could fit, if any are left.
Piece ==
    /\ splitting = "piece"
    /\ IF Rest = <<>>
       THEN splitting' = "done" /\ UNCHANGED n
       ELSE splitting' = "shrink" /\ n' = Smallest(Len(Rest), limit)
    /\ UNCHANGED <<text, limit, chunks>>

\* In proportion to how much the encoding grew, and always less.
NextSize(size, encoded) ==
    IF limit > Overhead
    THEN Smallest((size * (limit - Overhead)) \div (encoded - Overhead), size - 1)
    ELSE 0

Fits(piece) == Encoded(piece) <= limit

\* One round of the inner loop.
Shrink ==
    /\ splitting = "shrink"
    /\ LET size == RuneBoundary(Rest, n)
           piece == SubSeq(Rest, 1, size)
       IN  \/ /\ size = 0
              /\ splitting' = "failed"
              /\ UNCHANGED <<chunks, n>>
           \/ /\ size > 0 /\ Fits(piece)
              /\ chunks' = Append(chunks, piece)
              /\ splitting' = "piece" /\ n' = 0
           \/ /\ size > 0 /\ ~Fits(piece)
              /\ n' = NextSize(size, Encoded(piece))
              /\ UNCHANGED <<splitting, chunks>>
    /\ UNCHANGED <<text, limit>>

ChunksNext == Begin \/ Whole \/ Piece \/ Shrink

\* A call runs to its end.
ChunksProgress == Whole \/ Piece \/ Shrink

-----------------------------------------------------------------------------
(* Properties *)

\* "Callers concatenate the chunks' text in order, so the split is invisible to
\* them" (encodeResponseChunks): nothing is lost, doubled or cut inside a rune,
\* "each one can be published on its own", and a limit that leaves room for UTFMax
\* bytes at the worst escaping is enough for every text.
SplitIsInvisible ==
    /\ \A i \in DOMAIN chunks :
           /\ Encoded(chunks[i]) <= limit
           /\ chunks[i] # <<>> => chunks[i][1].start
    /\ FlattenSeq(chunks) = SubSeq(text, 1, Len(FlattenSeq(chunks)))
    /\ splitting = "done" => FlattenSeq(chunks) = text
    /\ splitting = "failed" => limit - Overhead < UTFMax * Max({r.cost : r \in Runes})

\* The loop is "always making progress", whatever the text: a call ends.
SplitEnds == splitting = "whole" ~> splitting \in {"done", "failed"}
=============================================================================
