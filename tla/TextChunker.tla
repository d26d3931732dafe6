------------------------------ MODULE TextChunker ------------------------------
(* The loop of SentenceAwareChunker.chunk_text over one text.                *)
EXTENDS TextChunks

VARIABLES tokens,   \* how many tokens the text has
          ends,     \* after which of them a sentence ends
          start,    \* where the next piece starts
          chunks    \* the pieces: from its first token up to the one after its last

chunkingVars == <<tokens, ends, start, chunks>>

ChunkingTypeOK ==
  /\ tokens \in Nat /\ ends \subseteq 1..tokens
  /\ start \in Nat
  /\ chunks \subseteq [from : 0..tokens, to : 0..tokens]

ChunkingInit ==
  /\ tokens \in Nat /\ ends \in SUBSET (1..tokens)
  /\ start = 0 /\ chunks = {}

(* A text that is short enough is one piece.                                 *)
TakeWhole ==
  /\ start < tokens /\ tokens <= ChunkSize
  /\ chunks' = {[from |-> 0, to |-> tokens]}
  /\ start' = tokens
  /\ UNCHANGED <<tokens, ends>>

(* One pass of the loop.                                                     *)
Cut ==
  /\ start < tokens /\ tokens > ChunkSize
  /\ LET end == ChunkEnd(start, tokens, ends)
     IN  /\ chunks' = IF IsKept(start, end)
                      THEN chunks \cup {[from |-> start, to |-> end]} ELSE chunks
         /\ start' = NextStart(start, end)
  /\ UNCHANGED <<tokens, ends>>

ChunkingNext == TakeWhole \/ Cut

ChunkingSpec == ChunkingInit /\ [][ChunkingNext]_chunkingVars

InChunk(t) == \E c \in chunks : c.from <= t /\ t < c.to

(* Every token that the loop has passed is in a piece, but for the last ones *)
(* of the text, fewer than a fifth of a piece and the least piece together.  *)
(* (chunker.py, SentenceAwareChunker.chunk_text: a piece that is dropped)    *)
PassedIsInChunk == \A t \in 0..tokens : t < start /\ t < tokens - AtMostLost => InChunk(t)

(* No piece is larger than an embedding takes.                               *)
ChunksAreSmall == \A c \in chunks : c.from < c.to /\ c.to - c.from <= ChunkSize

(* Every pass moves on, and never past what it looked at: the loop ends      *)
(* after as many passes as there are tokens, whatever the overlap.           *)
MovesOn == [][start < start' /\ start' <= tokens]_chunkingVars

=============================================================================
