------------------------------- MODULE MCIngest -------------------------------
(* Instances of Ingest for TLC. *)
EXTENDS Ingest, TLC

CONSTANTS r1, r2, u1, h1, h2, q1, q2

Ev(kind, rid, hash, url, contents) ==
    [kind |-> kind, rid |-> rid, hash |-> hash, url |-> url, contents |-> contents]

\* Two versions of a resource, one of them as a manifest alone; its removal and,
\* in the same batch, a podcast that is not an ORN; a web page whose url another
\* rid could share; and a batch that fails at its second event.
MCBatches == {
    <<Ev("set", r1, h1, NoUrl, TRUE)>>,
    <<Ev("set", r1, h2, NoUrl, FALSE)>>,
    <<Ev("forget", r1, NoHash, NoUrl, FALSE), Ev("set", r2, h1, NoUrl, TRUE)>>,
    <<Ev("set", r1, h2, u1, TRUE), Ev("malformed", r1, NoHash, NoUrl, FALSE)>>}

RequestSymmetry == Permutations(Requests)

=============================================================================
