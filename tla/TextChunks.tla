------------------------------ MODULE TextChunks ------------------------------
(* How the mail sensors and the backfill script cut a text into the pieces   *)
(* whose vectors are searched (SentenceAwareChunker): at most ChunkSize      *)
(* tokens each, one overlapping the next, cut after a sentence where one     *)
(* ends shortly before.  A piece that is too small is left out unless it is  *)
(* the first, so that the end of a text may be in no piece.                  *)
(*                                                                           *)
(* A text is the number of its tokens and the places where a sentence ends.  *)
EXTENDS Integers, Sequences

CONSTANTS ChunkSize, ChunkOverlap, MinChunkSize

(* The configurations: 500, 50 and 100.  A piece that is cut after a sentence *)
(* is large enough.                                                          *)
ASSUME ChunkAssumption ==
  /\ ChunkSize \in Nat \ {0} /\ ChunkOverlap \in Nat /\ MinChunkSize \in Nat
  /\ MinChunkSize <= ChunkSize - ChunkSize \div 5

(* The ends of sentences in the last fifth before target.                    *)
Boundaries(start, target, ends) ==
  {e \in ends : start < e /\ target - ChunkSize \div 5 < e /\ e <= target}

(* _find_sentence_boundary: the last of them, or target.                     *)
SentenceBoundary(start, target, ends) ==
  LET found == Boundaries(start, target, ends)
  IN  IF found = {} THEN target ELSE CHOOSE e \in found : \A f \in found : f <= e

TargetEnd(start, tokens) ==
  IF start + ChunkSize <= tokens THEN start + ChunkSize ELSE tokens

ChunkEnd(start, tokens, ends) == SentenceBoundary(start, TargetEnd(start, tokens), ends)

IsKept(start, end) == start = 0 \/ end - start >= MinChunkSize

NextStart(start, end) ==
  IF end - ChunkOverlap > start THEN end - ChunkOverlap ELSE start + 1

(* What may be missing at the end of a text.                                 *)
AtMostLost == ChunkSize \div 5 + MinChunkSize

(* chunk_text as one function: the pieces of a text in their order.          *)
Pieces(tokens, ends) ==
  LET Piece(s, e) == [from |-> s, to |-> e]
      after[s \in 0..tokens] ==
        LET end == ChunkEnd(s, tokens, ends)
        IN  IF s = tokens THEN <<>>
            ELSE (IF IsKept(s, end) THEN <<Piece(s, end)>> ELSE <<>>)
                 \o after[NextStart(s, end)]
  IN  IF tokens = 0 THEN <<>>
      ELSE IF tokens <= ChunkSize THEN <<Piece(0, tokens)>>
      ELSE after[0]

=============================================================================
