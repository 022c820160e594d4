------------------------------ MODULE Shuffler ------------------------------
(***************************************************************************)
(* What a mix server does with its Shuffler in one round, loop iteration   *)
(* by loop iteration: NewShuffler draws the swaps, Shuffle applies them to *)
(* the outgoing onions, the rest of the chain replaces every onion by its  *)
(* reply in place, and Unshuffle undoes the swaps on the replies.  Random  *)
(* numbers are drawn as in Intn, by rejection.                             *)
(***************************************************************************)
EXTENDS Integers, FiniteSets

CONSTANTS
  MaxLen,   \* bound: batches of 0..MaxLen onions
  Max       \* the largest number Intn reads, ^uint32(0) in the code

ASSUME ShufflerAssumption ==
  /\ MaxLen \in Nat
  /\ Max \in Nat
  /\ MaxLen <= Max

VARIABLES
  n,      \* length of the batch
  pc,     \* "drawing", "shuffling", "unshuffling" or "done"
  i,      \* the loop variable
  p,      \* the Shuffler
  x,      \* the batch: x[k] is the onion at place k, named by its first place
  hist    \* history: hist[k] is x as it was before iteration k of Shuffle

vars == <<n, pc, i, p, x, hist>>

Place == 0 .. n - 1

\* The reply to onion o.  Onions and replies are told apart by sign.
Reply(o) == -1 - o

\* Mutant: two assignments in a row instead of a simultaneous one.
SwappedInTurn(y, a, b) == [y EXCEPT ![a] = y[b]]

\* x[a], x[b] = x[b], x[a]
Swapped(y, a, b) == [y EXCEPT ![a] = y[b], ![b] = y[a]]

Init ==
  /\ n \in 0 .. MaxLen
  /\ pc = "drawing"
  /\ i = 0
  /\ p = [k \in Place |-> 0]
  /\ x = [k \in Place |-> k]
  /\ hist = [k \in 0 .. n |-> x]

\* Mutant: Intn also accepts the numbers of the last, incomplete block.
AcceptsAll(r, bound) == r < Max

\* Intn(bound) keeps the number r it has read.
Accepts(r, bound) == r < Max - (Max % bound)

\* Mutant: any place of the batch may be swapped with place i.
BoundWhole == n

\* The bound of iteration i of NewShuffler.
Bound == i + 1

\* One number read by Intn in iteration i of NewShuffler; a number that is
\* not accepted is read again.
Draw ==
  /\ pc = "drawing" /\ i < n
  /\ \E r \in 0 .. Max :
       /\ Accepts(r, Bound)
       /\ p' = [p EXCEPT ![i] = r % Bound]
  /\ i' = i + 1
  /\ UNCHANGED <<n, pc, x, hist>>

StartShuffle ==
  /\ pc = "drawing" /\ i = n
  /\ pc' = "shuffling"
  /\ i' = 0
  /\ UNCHANGED <<n, p, x, hist>>

Shuffle ==
  /\ pc = "shuffling" /\ i < n
  /\ x' = Swapped(x, i, p[i])
  /\ hist' = [hist EXCEPT ![i + 1] = x']
  /\ i' = i + 1
  /\ UNCHANGED <<n, pc, p>>

\* RunConvoRound on the next server: the replies, in the order of x.
Replies ==
  /\ pc = "shuffling" /\ i = n
  /\ pc' = "unshuffling"
  /\ x' = [k \in Place |-> Reply(x[k])]
  /\ UNCHANGED <<n, i, p, hist>>

\* Mutant: the loop runs upwards, as in Shuffle.
UnshuffleUpwards ==
  /\ pc = "unshuffling" /\ i > 0
  /\ x' = Swapped(x, n - i, p[n - i])
  /\ i' = i - 1
  /\ UNCHANGED <<n, pc, p, hist>>

\* The iteration for i - 1 (i counts the iterations still to be undone).
Unshuffle ==
  /\ pc = "unshuffling" /\ i > 0
  /\ x' = Swapped(x, i - 1, p[i - 1])
  /\ i' = i - 1
  /\ UNCHANGED <<n, pc, p, hist>>

Finish ==
  /\ pc = "unshuffling" /\ i = 0
  /\ pc' = "done"
  /\ UNCHANGED <<n, i, p, x, hist>>

Terminated == pc = "done" /\ UNCHANGED vars

Next == Draw \/ StartShuffle \/ Shuffle \/ Replies \/ Unshuffle \/ Finish
        \/ Terminated

Spec == Init /\ [][Next]_vars

-----------------------------------------------------------------------------
\* Every variable has its type; no swap reaches beyond the place it is made
\* for, so indexing x and p stays in range.
TypeOK ==
  /\ n \in 0 .. MaxLen
  /\ pc \in {"drawing", "shuffling", "unshuffling", "done"}
  /\ i \in 0 .. n
  /\ p \in [Place -> Place]
  /\ x \in [Place -> Int]
  /\ hist \in [0 .. n -> [Place -> Int]]
  /\ \A k \in Place : p[k] <= k

\* Shuffle only moves onions: at every moment each onion (later its reply)
\* is at exactly one place of the batch.
OnePlaceEach ==
  \A a, b \in Place : x[a] = x[b] => a = b

\* Unshuffle undoes Shuffle on whatever the next server put in the slots:
\* the reply to the onion that came in at place k goes back out at place k.
RoundTrip ==
  pc = "done" => x = [k \in Place |-> Reply(k)]

\* The numbers that Intn may read to return j.
Hits(j) == {r \in 0 .. Max : Accepts(r, Bound) /\ r % Bound = j}

\* Intn is unbiased: each result below the bound comes from equally many of
\* the numbers it accepts, and it accepts some number (so it returns).
IntnUniform ==
  pc = "drawing" /\ i < n =>
    \A j \in 0 .. i : Cardinality(Hits(j)) = Cardinality(Hits(0)) /\ Hits(j) # {}
=============================================================================
