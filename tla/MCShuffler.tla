----------------------------- MODULE MCShuffler -----------------------------
(***************************************************************************)
(* The loops of Shuffler against reference definitions, for all batches of *)
(* at most MaxLen onions.                                                  *)
(***************************************************************************)
EXTENDS Shuffler, Sequences

B == INSTANCE Batch

\* The batch at places 1..n.
Shifted(y) == [k \in 1 .. n |-> y[k - 1] + 1]

\* The order Shuffle leaves the batch in determines the numbers that were
\* drawn, and is the one the reference definition computes from them.  As
\* there are n! Shufflers, each of the n! orders comes from exactly one.
OrderDeterminesSwaps ==
  pc = "shuffling" /\ i = n =>
    LET id == [k \in 1 .. n |-> k]
    IN {q \in B!Shufflers(n) : B!Shuffle(id, q) = Shifted(x)} = {Shifted(p)}
=============================================================================
