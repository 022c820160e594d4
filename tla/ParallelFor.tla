---------------------------- MODULE ParallelFor -----------------------------
(***************************************************************************)
(* internal.ParallelFor: the loop the servers use to decrypt batches, fill *)
(* in noise and send replies.  NumCPU workers draw chunks of step indices  *)
(* from one atomic counter and hand the indices of their chunk to the loop *)
(* body one at a time; the bodies write slots of shared slices without a   *)
(* lock, so they rely on every index being given out exactly once.         *)
(***************************************************************************)
EXTENDS Integers

CONSTANTS
  NumCPU,     \* number of workers
  MaxN,       \* bound: ParallelFor is called with some n in 0..MaxN
  Chunks,     \* chunks a worker should get on a large loop (100 in the code)
  MinStep     \* smallest chunk (10 in the code)

ASSUME LoopAssumption ==
  /\ NumCPU \in Nat \ {0}
  /\ MaxN \in Nat
  /\ Chunks \in Nat \ {0}
  /\ MinStep \in Nat \ {0}

Worker == 1 .. NumCPU
Index  == 0 .. MaxN - 1
None   == -1

VARIABLES
  n,         \* gp.max
  current,   \* gp.current, the atomic counter
  wg,        \* gp.wg
  p,         \* p[w]: the P of worker w, its chunk [current, max)
  item,      \* item[w]: the index whose body worker w runs, None between two
  status,    \* status[w]: "running" f(p), "exiting" before wg.Done, "gone"
  runs,      \* runs[i]: how often a body for index i was run to its end
  main       \* the caller: "waiting" in ParallelFor or "returned"

vars == <<n, current, wg, p, item, status, runs, main>>

step == LET s == (n \div NumCPU) \div Chunks
        IN IF s < MinStep THEN MinStep ELSE s

Init ==
  /\ n \in 0 .. MaxN
  /\ current = 0
  /\ wg = NumCPU
  /\ p = [w \in Worker |-> [current |-> 0, max |-> 0]]
  /\ item = [w \in Worker |-> None]
  /\ status = [w \in Worker |-> "running"]
  /\ runs = [i \in Index |-> 0]
  /\ main = "waiting"

\* Worker w calls p.Next().
Calls(w) == status[w] = "running" /\ item[w] = None

\* The end of the chunk that starts at base.
ChunkEnd(base) == IF base + step > n THEN n ELSE base + step

\* P.Next inside the chunk.
NextInChunk(w) ==
  /\ Calls(w)
  /\ p[w].current < p[w].max
  /\ item' = [item EXCEPT ![w] = p[w].current]
  /\ p' = [p EXCEPT ![w].current = @ + 1]
  /\ UNCHANGED <<n, current, wg, status, runs, main>>

\* Mutant: the counter is read and written without atomicity, and an
\* increment by another worker in between is lost.
NextChunkRacy(w) ==
  /\ Calls(w)
  /\ p[w].current >= p[w].max
  /\ current < n
  /\ current' \in {current, current + step}
  /\ item' = [item EXCEPT ![w] = current]
  /\ p' = [p EXCEPT ![w] = [current |-> current + 1, max |-> ChunkEnd(current)]]
  /\ UNCHANGED <<n, wg, status, runs, main>>

\* P.Next with GP.Next: the chunk is used up and another one is drawn.
NextChunk(w) ==
  /\ Calls(w)
  /\ p[w].current >= p[w].max
  /\ current < n
  /\ current' = current + step
  /\ item' = [item EXCEPT ![w] = current]
  /\ p' = [p EXCEPT ![w] = [current |-> current + 1, max |-> ChunkEnd(current)]]
  /\ UNCHANGED <<n, wg, status, runs, main>>

\* P.Next returns false: GP.Next found nothing left; f(p) returns.
NoChunk(w) ==
  /\ Calls(w)
  /\ p[w].current >= p[w].max
  /\ current >= n
  /\ current' = current + step
  /\ status' = [status EXCEPT ![w] = "exiting"]
  /\ UNCHANGED <<n, wg, p, item, runs, main>>

\* The body for the index at hand finishes.
Body(w) ==
  /\ item[w] # None
  /\ runs' = [runs EXCEPT ![item[w]] = @ + 1]
  /\ item' = [item EXCEPT ![w] = None]
  /\ UNCHANGED <<n, current, wg, p, status, main>>

\* Mutant: a worker that never drew a chunk leaves without wg.Done().
DoneIfWorked(w) ==
  /\ status[w] = "exiting"
  /\ status' = [status EXCEPT ![w] = "gone"]
  /\ wg' = IF p[w].max > 0 THEN wg - 1 ELSE wg
  /\ UNCHANGED <<n, current, p, item, runs, main>>

\* gp.wg.Done()
Done(w) ==
  /\ status[w] = "exiting"
  /\ status' = [status EXCEPT ![w] = "gone"]
  /\ wg' = wg - 1
  /\ UNCHANGED <<n, current, p, item, runs, main>>

\* Mutant: Wait is satisfied while one worker is still running.
WaitEarly ==
  /\ wg <= 1
  /\ main = "waiting"
  /\ main' = "returned"
  /\ UNCHANGED <<n, current, wg, p, item, status, runs>>

\* gp.wg.Wait() returns, and ParallelFor with it.
Wait ==
  /\ wg = 0
  /\ main = "waiting"
  /\ main' = "returned"
  /\ UNCHANGED <<n, current, wg, p, item, status, runs>>

Terminated == main = "returned" /\ UNCHANGED vars

WorkerStep(w) ==
  NextInChunk(w) \/ NextChunk(w) \/ NoChunk(w) \/ Body(w) \/ Done(w)

Next == (\E w \in Worker : WorkerStep(w)) \/ Wait \/ Terminated

Spec == Init /\ [][Next]_vars

-----------------------------------------------------------------------------
\* Every variable has its type: the WaitGroup's counter never goes negative
\* and a worker's index stays inside the slices the bodies write to.
TypeOK ==
  /\ n \in 0 .. MaxN
  /\ current \in Nat
  /\ wg \in 0 .. NumCPU
  /\ p \in [Worker -> [current : Nat, max : Nat]]
  /\ item \in [Worker -> Index \cup {None}]
  /\ status \in [Worker -> {"running", "exiting", "gone"}]
  /\ runs \in [Index -> Nat]
  /\ main \in {"waiting", "returned"}

\* No two workers are ever given the same index, at the same time or one
\* after the other: bodies that write slot i of a slice never race.
EachOnce ==
  \A w \in Worker : item[w] # None =>
    /\ item[w] < n
    /\ runs[item[w]] = 0
    /\ \A v \in Worker \ {w} : item[v] # item[w]

\* When ParallelFor returns, the body has been run exactly once for each
\* index below n, and no worker is left inside a body.
AllDone ==
  main = "returned" =>
    /\ \A i \in Index : runs[i] = IF i < n THEN 1 ELSE 0
    /\ \A w \in Worker : item[w] = None

\* ParallelFor returns.
Terminates == <>(main = "returned")
=============================================================================
