---------------------------- MODULE MCMailSensor ----------------------------
EXTENDS MailSensor, TextChunks

(* Any text of up to MaxTokens tokens: the pieces are in order, none is too  *)
(* large, and only the last tokens are in none of them.                      *)
MaxTokens == 9

ASSUME PiecesCoverTheText ==
  \A tokens \in 0..MaxTokens : \A ends \in SUBSET (1..tokens) :
    LET pieces == Pieces(tokens, ends)
    IN  /\ \A i \in DOMAIN pieces :
             /\ pieces[i].from < pieces[i].to
             /\ pieces[i].to - pieces[i].from <= ChunkSize
             /\ i > 1 => pieces[i - 1].from < pieces[i].from
        /\ \A t \in 0..(tokens - 1) : t < tokens - AtMostLost =>
             \E i \in DOMAIN pieces : pieces[i].from <= t /\ t < pieces[i].to

(* Two texts of an event: one of two pieces and one of a single piece.       *)
Long == Len(Pieces(8, {2, 4}))
Short == Len(Pieces(3, {}))

V(s, t, l) == [sequence |-> s, stamp |-> t, length |-> l]
Pair(e, v) == [event |-> e, version |-> v]

(* An invitation, long, and its update, short, that came in the other order. *)
MCMails == {"update", "invitation"}
MCCalendar == [m \in MCMails |->
  IF m = "invitation" THEN <<Pair("meeting", V(0, 2, Long))>>
  ELSE <<Pair("meeting", V(0, 1, Short)), Pair("meeting", V(1, 1, Short))>>]
=============================================================================
