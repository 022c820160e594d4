----------------------------- MODULE NoiseProofs ----------------------------
(***************************************************************************)
(* The two mechanisms that filling in noise rests on, and noise itself.    *)
(* ParallelFor gives every index to the loop body exactly once, for every  *)
(* number of workers, loop length and chunk size.  No byte of keystream is *)
(* handed out twice, for every number of CPUs and goroutines, every buffer *)
(* length and Reads of any length.                                         *)
(***************************************************************************)
EXTENDS Noise, FiniteSetTheorems, TLAPS

-----------------------------------------------------------------------------
\* ParallelFor

\* Index i is still to be given out by worker w's chunk.
InChunk(w, i) == p[w].current <= i /\ i < p[w].max

\* Index i waits in w's chunk or is in the hands of w.
Owns(w, i) == InChunk(w, i) \/ item[w] = i

\* The workers that have not called wg.Done() yet.
Present == {w \in Worker : status[w] # "gone"}

(***************************************************************************)
(* The inductive invariant.  The indices below the counter are split       *)
(* between the workers' chunks, the bodies under way and the bodies that   *)
(* have run; the counter cannot pass an index that nobody owns.            *)
(***************************************************************************)
LoopInv ==
  /\ \A w \in Worker : p[w].max <= n /\ p[w].max <= current
  /\ \A w \in Worker : item[w] < n /\ item[w] < current
  /\ \A w \in Worker : item[w] # None => item[w] < p[w].current
  /\ \A w, v \in Worker, i \in Index : Owns(w, i) /\ Owns(v, i) => w = v
  /\ \A i \in Index : runs[i] = 1 \/ runs[i] = 0
  /\ \A i \in Index : runs[i] = 1 <=>
       /\ i < current /\ i < n
       /\ \A w \in Worker : ~Owns(w, i)
  /\ \A w \in Worker : status[w] # "running" =>
       current >= n /\ item[w] = None /\ p[w].current >= p[w].max
  /\ wg = Cardinality(Present)
  /\ main = "returned" => wg = 0

\* The chunk size is a positive number.
LEMMA StepPositive ==
  ASSUME TypeOK
  PROVE  step \in Nat \ {0}
BY LoopAssumption DEF step, TypeOK, LoopAssumption

\* The workers that have not left are finite in number.
LEMMA PresentFinite == IsFiniteSet(Present) /\ IsFiniteSet(Worker)
<1>1. IsFiniteSet(Worker)
  BY FS_Interval, LoopAssumption DEF Worker, LoopAssumption
<1>2. Present \subseteq Worker
  BY Zenon DEF Present
<1> QED BY <1>1, <1>2, FS_Subset, Zenon

\* wg.Add(runtime.NumCPU()) counts all the workers.
LEMMA WorkersCounted == Cardinality(Worker) = NumCPU
BY FS_Interval, LoopAssumption, SMT DEF Worker, LoopAssumption

\* The invariant holds when the workers are started.
LEMMA InitLoop == Init => TypeOK /\ LoopInv
<1> SUFFICES ASSUME Init PROVE TypeOK /\ LoopInv
  BY Zenon
<1> USE LoopAssumption DEF LoopAssumption
<1>1. TypeOK
  BY DEF Init, TypeOK, Index, None
<1>2. Present = Worker
  BY Zenon DEF Init, Present
<1>3. wg = Cardinality(Present)
  BY <1>2, WorkersCounted, Zenon DEF Init
<1>4. \A w \in Worker, i \in Index : ~Owns(w, i)
  BY DEF Init, Owns, InChunk, Index, None
<1> QED
  BY <1>1, <1>3, <1>4 DEF Init, LoopInv, Index, None

\* A chunk remains a chunk when its first index is taken off.
LEMMA RestOfChunk ==
  ASSUME NEW r \in [current : Nat, max : Nat]
  PROVE  [r EXCEPT !.current = @ + 1] \in [current : Nat, max : Nat]
<1>1. [r EXCEPT !.current = @ + 1] = [current |-> r.current + 1, max |-> r.max]
  OBVIOUS
<1> QED
  BY <1>1

\* P.Next inside a chunk hands an index over from the chunk to the body.
LEMMA InChunkStep ==
  ASSUME TypeOK, LoopInv, NEW w \in Worker, NextInChunk(w)
  PROVE  TypeOK' /\ LoopInv'
<1> USE LoopAssumption DEF LoopAssumption, TypeOK, Index, None
<1> DEFINE k == p[w].current
<1>1. k \in Index /\ k < n /\ k < current
  BY DEF NextInChunk, LoopInv
<1>2. TypeOK'
  <2>1. item' \in [Worker -> Index \cup {None}]
    BY <1>1, Zenon DEF NextInChunk
  <2>2. p' \in [Worker -> [current : Nat, max : Nat]]
    <3>1. [p[w] EXCEPT !.current = @ + 1] \in [current : Nat, max : Nat]
      BY RestOfChunk, Zenon
    <3>2. p' = [p EXCEPT ![w] = [p[w] EXCEPT !.current = @ + 1]]
      BY Zenon DEF NextInChunk
    <3> QED
      BY <3>1, <3>2, Zenon
  <2> QED
    BY <2>1, <2>2, Zenon DEF NextInChunk
<1>3. item'[w] = k /\ p'[w].current = k + 1 /\ p'[w].max = p[w].max
  BY Zenon DEF NextInChunk
<1>4. \A v \in Worker \ {w} : item'[v] = item[v] /\ p'[v] = p[v]
  BY Zenon DEF NextInChunk
<1>5. \A v \in Worker, i \in Index : Owns(v, i)' <=> Owns(v, i)
  <2> TAKE v \in Worker, i \in Index
  <2>1. CASE v # w
    BY <2>1, <1>4, Zenon DEF Owns, InChunk
  <2>2. CASE v = w
    BY <2>2, <1>1, <1>3, SMTT(30) DEF Owns, InChunk, NextInChunk, Calls
  <2> QED BY <2>1, <2>2, Zenon
<1>6. Present' = Present
  BY Zenon DEF NextInChunk, Present
<1>7. \A v \in Worker : p'[v].max <= n' /\ p'[v].max <= current'
  BY <1>3, <1>4 DEF LoopInv, NextInChunk
<1>8. \A v \in Worker : item'[v] < n' /\ item'[v] < current'
  BY <1>1, <1>3, <1>4, Zenon DEF LoopInv, NextInChunk
<1>9. \A v \in Worker : item'[v] # None => item'[v] < p'[v].current
  <2> TAKE v \in Worker
  <2>1. CASE v = w
    BY <2>1, <1>1, <1>3, SMTT(20)
  <2>2. CASE v # w
    <3>1. item[v] # None => item[v] < p[v].current
      BY Zenon DEF LoopInv
    <3> QED BY <3>1, <2>2, <1>4, Zenon
  <2> QED BY <2>1, <2>2, Zenon
<1>10. \A v \in Worker : status'[v] # "running" =>
         current' >= n' /\ item'[v] = None /\ p'[v].current >= p'[v].max
  BY <1>3, <1>4, Zenon DEF LoopInv, NextInChunk, Calls
<1> QED
  BY <1>2, <1>5, <1>6, <1>7, <1>8, <1>9, <1>10, Zenon DEF LoopInv, NextInChunk

\* Drawing a chunk from the counter gives the worker indices nobody owns.
LEMMA ChunkStep ==
  ASSUME TypeOK, LoopInv, NEW w \in Worker, NextChunk(w)
  PROVE  TypeOK' /\ LoopInv'
<1> USE LoopAssumption DEF LoopAssumption, TypeOK, Index, None
<1>0. step \in Nat \ {0}
  BY StepPositive, Zenon
<1>1. current \in Index /\ current < n /\ ChunkEnd(current) \in Nat
      /\ ChunkEnd(current) <= n /\ ChunkEnd(current) <= current + step
      /\ ChunkEnd(current) > current
  BY <1>0 DEF NextChunk, ChunkEnd
<1>2. TypeOK'
  BY <1>0, <1>1 DEF NextChunk
<1>3. item'[w] = current /\ p'[w].current = current + 1
      /\ p'[w].max = ChunkEnd(current)
  BY Zenon DEF NextChunk
<1>4. \A v \in Worker \ {w} : item'[v] = item[v] /\ p'[v] = p[v]
  BY Zenon DEF NextChunk
<1>5. \A v \in Worker \ {w}, i \in Index : Owns(v, i)' <=> Owns(v, i)
  BY <1>4, Zenon DEF Owns, InChunk
<1>6. \A i \in Index : Owns(w, i)' <=> current <= i /\ i < ChunkEnd(current)
  BY <1>1, <1>3 DEF Owns, InChunk
<1>7. \A v \in Worker, i \in Index : Owns(v, i) => i < current
  BY DEF Owns, InChunk, LoopInv
<1>8. \A i \in Index : ~Owns(w, i)
  BY SMTT(30) DEF Owns, InChunk, NextChunk, Calls
<1>9. \A v, u \in Worker, i \in Index : Owns(v, i)' /\ Owns(u, i)' => v = u
  <2> TAKE v, u \in Worker, i \in Index
  <2>1. Owns(v, i) /\ Owns(u, i) => v = u
    BY Zenon DEF LoopInv
  <2>2. CASE v # w /\ u # w
    BY <2>1, <2>2, <1>5, Zenon
  <2>3. CASE v = w /\ u # w
    BY <2>3, <1>1, <1>5, <1>6, <1>7
  <2>4. CASE v # w /\ u = w
    BY <2>4, <1>1, <1>5, <1>6, <1>7
  <2> QED BY <2>2, <2>3, <2>4, Zenon
<1>10. \A i \in Index : runs'[i] = 1 <=>
         /\ i < current' /\ i < n'
         /\ \A v \in Worker : ~Owns(v, i)'
  <2> SUFFICES ASSUME NEW i \in Index
               PROVE  runs[i] = 1 <=>
                        /\ i < current + step /\ i < n
                        /\ \A v \in Worker : ~Owns(v, i)'
    BY Zenon DEF NextChunk
  <2>1. CASE i < current
    <3>1. runs[i] = 1 <=> i < current /\ i < n /\ \A v \in Worker : ~Owns(v, i)
      BY Zenon DEF LoopInv
    <3>2. ~Owns(w, i)' /\ ~Owns(w, i)
      BY <2>1, <1>1, <1>6, <1>8
    <3>3. (\A v \in Worker : ~Owns(v, i)') <=> \A v \in Worker : ~Owns(v, i)
      BY <3>2, <1>5, Zenon
    <3>4. i < current + step
      BY <2>1, <1>0
    <3> QED BY <2>1, <3>1, <3>3, <3>4, Zenon
  <2>2. CASE i >= current
    <3>1. runs[i] # 1
      BY <2>2 DEF LoopInv
    <3>2. i < current + step /\ i < n => Owns(w, i)'
      BY <2>2, <1>0, <1>1, <1>6, Zenon DEF ChunkEnd
    <3> QED BY <3>1, <3>2, Zenon
  <2> QED BY <2>1, <2>2
<1>11. Present' = Present
  BY Zenon DEF NextChunk, Present
<1>12. \A v \in Worker : p'[v].max <= n' /\ p'[v].max <= current'
  <2> TAKE v \in Worker
  <2>1. n' = n /\ current' = current + step
    BY Zenon DEF NextChunk
  <2>2. CASE v = w
    BY <1>1, <1>3, <2>1, <2>2, Zenon
  <2>3. CASE v # w
    <3>1. p'[v].max = p[v].max /\ p[v].max \in Nat
      BY <1>4, <2>3, Zenon
    <3>2. p[v].max <= n /\ p[v].max <= current
      BY Zenon DEF LoopInv
    <3> QED
      BY <1>0, <2>1, <3>1, <3>2
  <2> QED
    BY <2>2, <2>3, Zenon
<1>13. \A v \in Worker : item'[v] < n' /\ item'[v] < current'
  <2> TAKE v \in Worker
  <2>1. n' = n /\ current' = current + step
    BY Zenon DEF NextChunk
  <2>2. item[v] < n /\ item[v] < current
    BY Zenon DEF LoopInv
  <2>3. CASE v = w
    BY <2>1, <2>3, <1>0, <1>1, <1>3
  <2>4. CASE v # w
    <3>1. item'[v] = item[v]
      BY <2>4, <1>4, Zenon
    <3>2. item[v] \in Int
      OBVIOUS
    <3> QED BY <3>1, <3>2, <2>1, <2>2, <1>0
  <2> QED BY <2>3, <2>4, Zenon
<1>14. \A v \in Worker : item'[v] # None => item'[v] < p'[v].current
  <2> TAKE v \in Worker
  <2>1. CASE v = w
    BY <2>1, <1>1, <1>3, SMTT(20)
  <2>2. CASE v # w
    <3>1. item[v] # None => item[v] < p[v].current
      BY Zenon DEF LoopInv
    <3> QED BY <3>1, <2>2, <1>4, Zenon
  <2> QED BY <2>1, <2>2, Zenon
<1>15. \A v \in Worker : status'[v] # "running" =>
         current' >= n' /\ item'[v] = None /\ p'[v].current >= p'[v].max
  BY <1>0, <1>3, <1>4 DEF LoopInv, NextChunk, Calls
<1> QED
  BY <1>2, <1>9, <1>10, <1>11, <1>12, <1>13, <1>14, <1>15, Zenon DEF LoopInv, NextChunk

\* A worker that finds the counter at its end owns nothing.
LEMMA NoChunkStep ==
  ASSUME TypeOK, LoopInv, NEW w \in Worker, NoChunk(w)
  PROVE  TypeOK' /\ LoopInv'
<1> USE LoopAssumption DEF LoopAssumption, TypeOK, Index, None
<1>0. step \in Nat \ {0}
  BY StepPositive, Zenon
<1>1. TypeOK'
  BY <1>0 DEF NoChunk
<1>2. \A v \in Worker, i \in Index : Owns(v, i)' <=> Owns(v, i)
  BY Zenon DEF NoChunk, Owns, InChunk
<1>3. Present' = Present
  BY Zenon DEF NoChunk, Present, Calls
<1>4. n' = n /\ current' = current + step /\ current >= n
  BY Zenon DEF NoChunk
<1>5. \A i \in Index : runs'[i] = 1 <=>
        /\ i < current' /\ i < n'
        /\ \A v \in Worker : ~Owns(v, i)'
  <2> TAKE i \in Index
  <2>1. runs[i] = 1 <=> i < current /\ i < n /\ \A v \in Worker : ~Owns(v, i)
    BY Zenon DEF LoopInv
  <2>2. i < n => i < current /\ i < current + step
    BY <1>0, <1>4
  <2>3. runs'[i] = runs[i]
    BY Zenon DEF NoChunk
  <2> QED BY <2>1, <2>2, <2>3, <1>2, <1>4, Zenon
<1>6. \A v \in Worker : p'[v].max <= n' /\ p'[v].max <= current'
  BY <1>0 DEF LoopInv, NoChunk
<1>7. \A v \in Worker : item'[v] < n' /\ item'[v] < current'
  BY <1>0, SMTT(30) DEF LoopInv, NoChunk
<1>8. \A v \in Worker : status'[v] # "running" =>
        current' >= n' /\ item'[v] = None /\ p'[v].current >= p'[v].max
  BY <1>0 DEF LoopInv, NoChunk, Calls
<1> QED
  BY <1>1, <1>2, <1>3, <1>5, <1>6, <1>7, <1>8, Zenon DEF LoopInv, NoChunk

\* A body that ends moves its index from its worker to the ones done.
LEMMA BodyStep ==
  ASSUME TypeOK, LoopInv, NEW w \in Worker, Body(w)
  PROVE  TypeOK' /\ LoopInv'
<1> USE LoopAssumption DEF LoopAssumption, TypeOK, Index, None
<1> DEFINE k == item[w]
<1>1. k \in Index /\ k < n /\ k < current /\ Owns(w, k)
  BY DEF Body, LoopInv, Owns
<1>2. runs[k] = 0
  BY <1>1, Zenon DEF LoopInv
<1>3. TypeOK'
  <2>1. item' \in [Worker -> Index \cup {None}]
    BY Zenon DEF Body
  <2>2. runs[k] + 1 \in Nat
    BY <1>2
  <2>3. runs' \in [Index -> Nat]
    BY <2>2, Zenon DEF Body
  <2> QED
    BY <2>1, <2>3, Zenon DEF Body
<1>4. runs'[k] = 1 /\ \A i \in Index \ {k} : runs'[i] = runs[i]
  BY <1>1, <1>2 DEF Body
<1>5. \A v \in Worker, i \in Index : Owns(v, i)' <=> Owns(v, i) /\ i # k
  <2> TAKE v \in Worker, i \in Index
  <2>1. Owns(v, k) => v = w
    BY <1>1, Zenon DEF LoopInv
  <2>2. k < p[w].current
    BY Zenon DEF LoopInv, Body
  <2>3. CASE v = w
    BY <2>2, <2>3, <1>1 DEF Body, Owns, InChunk
  <2>4. CASE v # w
    <3>1. Owns(v, i)' <=> Owns(v, i)
      BY <2>4, Zenon DEF Body, Owns, InChunk
    <3> QED BY <3>1, <2>1, <2>4, Zenon
  <2> QED BY <2>3, <2>4, Zenon
<1>6. \A i \in Index : runs'[i] = 1 <=>
        /\ i < current' /\ i < n'
        /\ \A v \in Worker : ~Owns(v, i)'
  <2> TAKE i \in Index
  <2>1. runs[i] = 1 <=> i < current /\ i < n /\ \A v \in Worker : ~Owns(v, i)
    BY Zenon DEF LoopInv
  <2>2. n' = n /\ current' = current
    BY Zenon DEF Body
  <2>3. CASE i = k
    BY <2>2, <2>3, <1>1, <1>4, <1>5, Zenon
  <2>4. CASE i # k
    BY <2>1, <2>2, <2>4, <1>4, <1>5, Zenon
  <2> QED BY <2>3, <2>4, Zenon
<1>7. \A i \in Index : runs'[i] = 1 \/ runs'[i] = 0
  BY <1>4, Zenon DEF LoopInv
<1>8. \A v, u \in Worker, i \in Index : Owns(v, i)' /\ Owns(u, i)' => v = u
  BY <1>5, Zenon DEF LoopInv
<1>9. Present' = Present
  BY Zenon DEF Body, Present
<1>10. \A v \in Worker : item'[v] < n' /\ item'[v] < current'
  BY DEF LoopInv, Body
<1>11. \A v \in Worker : item'[v] # None => item'[v] < p'[v].current
  BY Zenon DEF LoopInv, Body
<1>12. \A v \in Worker : status'[v] # "running" =>
         current' >= n' /\ item'[v] = None /\ p'[v].current >= p'[v].max
  BY Zenon DEF LoopInv, Body
<1> QED
  BY <1>3, <1>6, <1>7, <1>8, <1>9, <1>10, <1>11, <1>12, Zenon DEF LoopInv, Body

\* wg.Done() follows the number of workers still present.
LEMMA DoneStep ==
  ASSUME TypeOK, LoopInv, NEW w \in Worker, Done(w)
  PROVE  TypeOK' /\ LoopInv'
<1> USE LoopAssumption DEF LoopAssumption
<1>1. Present' = Present \ {w} /\ w \in Present
  BY Zenon DEF Done, Present, TypeOK
<1>2. Cardinality(Present') = Cardinality(Present) - 1
  BY <1>1, PresentFinite, FS_RemoveElement, Zenon
<1>3. wg = Cardinality(Present) /\ wg' = wg - 1 /\ wg # 0
  BY <1>1, PresentFinite, FS_EmptySet, Zenon DEF LoopInv, Done
<1>4. TypeOK'
  <2>1. wg \in 0 .. NumCPU
    BY Zenon DEF TypeOK
  <2>2. wg' \in 0 .. NumCPU
    BY <1>3, <2>1
  <2> QED BY <2>2, Zenon DEF Done, TypeOK
<1>5. \A v \in Worker, i \in Index : Owns(v, i)' <=> Owns(v, i)
  BY Zenon DEF Done, Owns, InChunk
<1>6. main' # "returned"
  BY <1>3, Zenon DEF Done, LoopInv
<1> QED
  BY <1>2, <1>3, <1>4, <1>5, <1>6, Zenon DEF LoopInv, Done, TypeOK

\* Wait returns only when no worker is present.
LEMMA WaitStep ==
  ASSUME TypeOK, LoopInv, Wait
  PROVE  TypeOK' /\ LoopInv'
<1>1. TypeOK'
  BY Zenon DEF Wait, TypeOK
<1>2. Present' = Present
  BY Zenon DEF Wait, Present
<1>3. \A v \in Worker, i \in Index : Owns(v, i)' <=> Owns(v, i)
  BY Zenon DEF Wait, Owns, InChunk
<1> QED BY <1>1, <1>2, <1>3, Zenon DEF LoopInv, Wait

\* Every step of ParallelFor keeps the invariant.
LEMMA NextLoop == TypeOK /\ LoopInv /\ [Next]_vars => TypeOK' /\ LoopInv'
<1> SUFFICES ASSUME TypeOK, LoopInv, [Next]_vars
             PROVE  TypeOK' /\ LoopInv'
  BY Zenon
<1>1. ASSUME NEW w \in Worker, WorkerStep(w)
      PROVE  TypeOK' /\ LoopInv'
  BY <1>1, InChunkStep, ChunkStep, NoChunkStep, BodyStep, DoneStep, Zenon DEF WorkerStep
<1>2. CASE Wait
  BY <1>2, WaitStep, Zenon
<1>3. CASE UNCHANGED vars
  <2>1. TypeOK'
    BY <1>3, Zenon DEF TypeOK, vars
  <2>2. Present' = Present
    BY <1>3, Zenon DEF Present, vars
  <2>3. \A v \in Worker, i \in Index : Owns(v, i)' <=> Owns(v, i)
    BY <1>3, Zenon DEF Owns, InChunk, vars
  <2> QED BY <1>3, <2>1, <2>2, <2>3, Zenon DEF LoopInv, vars
<1> QED BY <1>1, <1>2, <1>3, Zenon DEF Next, Terminated

\* ParallelFor's state is always one in which the indices below gp.current
\* are shared out between the workers' chunks, running and finished bodies.
THEOREM LoopInvariant == Spec => [](TypeOK /\ LoopInv)
BY InitLoop, NextLoop, PTL DEF Spec

\* P.Next never gives one index to two callers, however the atomic
\* increments of gp.current interleave.
THEOREM IndexOnce == Spec => []EachOnce
<1>1. TypeOK /\ LoopInv => EachOnce
  <2> SUFFICES ASSUME TypeOK, LoopInv, NEW w \in Worker, item[w] # None
               PROVE  /\ item[w] < n
                      /\ runs[item[w]] = 0
                      /\ \A v \in Worker \ {w} : item[v] # item[w]
    BY Zenon DEF EachOnce
  <2>1. item[w] \in Index
    BY Zenon DEF TypeOK
  <2>2. Owns(w, item[w])
    BY Zenon DEF Owns
  <2>3. runs[item[w]] = 0
    BY <2>1, <2>2, Zenon DEF LoopInv
  <2>4. \A v \in Worker : item[v] = item[w] => Owns(v, item[w])
    BY Zenon DEF Owns
  <2>5. \A v \in Worker \ {w} : item[v] # item[w]
    BY <2>1, <2>2, <2>4, Zenon DEF LoopInv
  <2> QED BY <2>3, <2>5, Zenon DEF LoopInv
<1> QED BY <1>1, LoopInvariant, PTL

\* ParallelFor does not return before the body has run, exactly once, for
\* each of the n indices: wg.Wait covers the whole loop.
THEOREM LoopComplete == Spec => []AllDone
<1>1. TypeOK /\ LoopInv => AllDone
  <2> SUFFICES ASSUME TypeOK, LoopInv, main = "returned"
               PROVE  /\ \A i \in Index : runs[i] = IF i < n THEN 1 ELSE 0
                      /\ \A w \in Worker : item[w] = None
    BY Zenon DEF AllDone
  <2>1. Present = {}
    BY PresentFinite, FS_EmptySet, Zenon DEF LoopInv
  <2>2. \A w \in Worker : status[w] = "gone"
    BY <2>1, Zenon DEF Present
  <2>3. \A w \in Worker : item[w] = None /\ p[w].current >= p[w].max
    BY <2>2, Zenon DEF LoopInv
  <2>4. current >= n
    <3>1. 1 \in Worker
      BY LoopAssumption DEF LoopAssumption, Worker
    <3> QED BY <3>1, <2>2, Zenon DEF LoopInv
  <2>5. \A w \in Worker, i \in Index : ~Owns(w, i)
    BY <2>3 DEF Owns, InChunk, TypeOK, Index, None
  <2>6. \A i \in Index : i < n => i < current
    BY <2>4 DEF TypeOK, Index
  <2>7. \A i \in Index : runs[i] = IF i < n THEN 1 ELSE 0
    BY <2>5, <2>6, Zenon DEF LoopInv
  <2> QED BY <2>3, <2>7, Zenon
<1> QED BY <1>1, LoopInvariant, PTL

-----------------------------------------------------------------------------
\* rand.Reader

\* A goroutine is past Lock.
Inside(g) == reader[g] \in {"loop", "copied"}

\* The inductive invariant: who is past Lock holds the mutex of its generator;
\* the bytes handed out lie before the generator's place, or before the place
\* it is about to be moved to by the goroutine that has just copied.
RandInv ==
  /\ RandTypeOK
  /\ \A g \in Goroutine : Inside(g) => mutex[on[g]] = g
  /\ \A g \in Goroutine : reader[g] = "copied" => offset[on[g]] + copied[g] <= BufLen
  /\ \A b \in used :
       \/ b.at < Place(b.cpu)
       \/ \E g \in Goroutine : /\ reader[g] = "copied" /\ on[g] = b.cpu
                               /\ b.at < Place(b.cpu) + copied[g]

\* The place of a generator is a natural number.
LEMMA PlaceNat ==
  ASSUME RandTypeOK, NEW c \in CPU
  PROVE  Place(c) \in Nat
<1>1. nonce[c] - 1 \in Nat /\ offset[c] \in Nat /\ BufLen \in Nat
  BY RandAssumption DEF RandTypeOK, RandAssumption
<1>2. \A a, b \in Nat : a * b \in Nat
  OBVIOUS
<1>3. (nonce[c] - 1) * BufLen \in Nat
  BY <1>1, <1>2, Zenon
<1> QED BY <1>1, <1>3 DEF Place

\* Two goroutines past Lock are at different generators.
LEMMA Exclusive ==
  ASSUME RandInv, NEW g \in Goroutine, NEW h \in Goroutine, Inside(g), Inside(h), on[g] = on[h]
  PROVE  g = h
BY Zenon DEF RandInv

\* The invariant holds at the start.
LEMMA InitRand == RandInit => RandInv
<1> SUFFICES ASSUME RandInit PROVE RandInv
  BY Zenon
<1>1. 0 \in CPU /\ BufLen \in Nat
  BY RandAssumption DEF RandAssumption, CPU
<1>2. RandTypeOK
  BY <1>1 DEF RandInit, RandTypeOK
<1>3. \A g \in Goroutine : reader[g] = "idle"
  BY Zenon DEF RandInit
<1> QED BY <1>2, <1>3, Zenon DEF RandInit, RandInv, Inside

\* The piece a goroutine copies fits into the buffer and into the request.
LEMMA PieceFits ==
  ASSUME RandTypeOK, NEW g \in Goroutine, CanCopy(g)
  PROVE  /\ Piece(g) \in Nat
         /\ Piece(g) <= left[g]
         /\ offset[on[g]] + Piece(g) <= BufLen
<1>1. /\ on[g] \in CPU /\ left[g] \in Nat /\ BufLen \in Nat
      /\ offset[on[g]] \in Nat /\ offset[on[g]] < BufLen
  BY RandAssumption DEF RandTypeOK, RandAssumption, CanCopy
<1> QED BY <1>1 DEF Piece

\* Every step keeps the types.
LEMMA RandTypes == RandInv /\ [RandNext]_randVars => RandTypeOK'
<1> SUFFICES ASSUME RandInv, [RandNext]_randVars PROVE RandTypeOK'
  BY Zenon
<1>0. RandTypeOK /\ BufLen \in Nat
  BY RandAssumption, Zenon DEF RandInv, RandAssumption
<1>1. ASSUME NEW g \in Goroutine, NEW len \in Nat, StartRead(g, len) PROVE RandTypeOK'
  BY <1>0, <1>1, Zenon DEF StartRead, RandTypeOK
<1>2. ASSUME NEW g \in Goroutine, Lock(g) PROVE RandTypeOK'
  BY <1>0, <1>2, Zenon DEF Lock, RandTypeOK
<1>3. ASSUME NEW g \in Goroutine, Fill(g) PROVE RandTypeOK'
  BY <1>0, <1>3 DEF Fill, RandTypeOK
<1>4. ASSUME NEW g \in Goroutine, Copy(g) PROVE RandTypeOK'
  <2>1. Piece(g) \in Nat /\ Piece(g) <= left[g]
    BY <1>0, <1>4, PieceFits, Zenon DEF Copy
  <2>2. on[g] \in CPU /\ Place(on[g]) \in Nat /\ left[g] \in Nat
    BY <1>0, PlaceNat, Zenon DEF RandTypeOK
  <2>3. Handed(g) \in SUBSET [cpu : CPU, at : Nat]
    BY <2>1, <2>2 DEF Handed
  <2>4. left[g] - Piece(g) \in Nat
    BY <2>1, <2>2
  <2> QED BY <1>0, <1>4, <2>1, <2>3, <2>4, Zenon DEF Copy, RandTypeOK
<1>5. ASSUME NEW g \in Goroutine, Advance(g) PROVE RandTypeOK'
  <2>1. on[g] \in CPU /\ offset[on[g]] + copied[g] \in 0 .. BufLen
    BY <1>0, <1>5 DEF Advance, RandInv, RandTypeOK
  <2> QED BY <1>0, <1>5, <2>1, Zenon DEF Advance, RandTypeOK
<1>6. ASSUME NEW g \in Goroutine, Unlock(g) PROVE RandTypeOK'
  BY <1>0, <1>6, Zenon DEF Unlock, RandTypeOK
<1>7. CASE UNCHANGED randVars
  BY <1>0, <1>7, Zenon DEF randVars, RandTypeOK
<1> QED
  BY <1>1, <1>2, <1>3, <1>4, <1>5, <1>6, <1>7, Zenon DEF RandNext, Reading

\* Every step keeps the invariant.
LEMMA NextRand == RandInv /\ [RandNext]_randVars => RandInv'
<1> SUFFICES ASSUME RandInv, [RandNext]_randVars PROVE RandInv'
  BY Zenon
<1>t. RandTypeOK' /\ RandTypeOK /\ BufLen \in Nat /\ BufLen > 0
  BY RandTypes, RandAssumption DEF RandInv, RandAssumption
<1>u. \A b \in used : b.cpu \in CPU /\ b.at \in Nat
  BY <1>t, Zenon DEF RandTypeOK
<1>1. ASSUME NEW g \in Goroutine, NEW len \in Nat, StartRead(g, len) PROVE RandInv'
  <2>1. /\ UNCHANGED <<nonce, offset, mutex, copied, used>>
        /\ reader[g] = "idle" /\ reader'[g] = "waiting"
        /\ \A h \in Goroutine : h # g => reader'[h] = reader[h] /\ on'[h] = on[h]
    BY <1>1, <1>t, Zenon DEF StartRead, RandTypeOK
  <2>2. \A c \in CPU : Place(c)' = Place(c)
    BY <2>1, Zenon DEF Place
  <2> QED BY <1>t, <1>u, <2>1, <2>2 DEF RandInv, Inside
<1>2. ASSUME NEW g \in Goroutine, Lock(g) PROVE RandInv'
  <2>1. /\ UNCHANGED <<nonce, offset, on, copied, used>>
        /\ reader[g] = "waiting" /\ reader'[g] = "loop"
        /\ \A h \in Goroutine : h # g => reader'[h] = reader[h]
        /\ on[g] \in CPU /\ mutex[on[g]] = Free /\ mutex'[on[g]] = g
        /\ \A c \in CPU : c # on[g] => mutex'[c] = mutex[c]
    BY <1>2, <1>t DEF Lock, RandTypeOK
  <2>2. \A c \in CPU : Place(c)' = Place(c)
    BY <2>1, Zenon DEF Place
  <2>3. \A h \in Goroutine : Inside(h)' => mutex'[on'[h]] = h
    <3>1. \A h \in Goroutine : on[h] \in CPU /\ h # Free
      BY <1>t, RandAssumption, Zenon DEF RandTypeOK, RandAssumption
    <3> QED BY <2>1, <3>1 DEF RandInv, Inside
  <2> QED BY <1>t, <1>u, <2>1, <2>2, <2>3 DEF RandInv
<1>3. ASSUME NEW g \in Goroutine, Fill(g) PROVE RandInv'
  <2>1. /\ UNCHANGED <<mutex, reader, on, left, copied, used>>
        /\ reader[g] = "loop" /\ on[g] \in CPU /\ offset[on[g]] = BufLen
        /\ nonce'[on[g]] = nonce[on[g]] + 1 /\ offset'[on[g]] = 0
        /\ \A c \in CPU : c # on[g] => nonce'[c] = nonce[c] /\ offset'[c] = offset[c]
    BY <1>3, <1>t, Zenon DEF Fill, RandTypeOK
  <2>2. \A c \in CPU : Place(c)' = Place(c)
    <3>1. \A c \in CPU : c # on[g] => Place(c)' = Place(c)
      BY <2>1, Zenon DEF Place
    <3>2. \A k, m \in Nat : (k + 1 - 1) * m + 0 = (k - 1) * m + m
      OBVIOUS
    <3>3. nonce[on[g]] \in Nat
      BY <2>1, <1>t, Zenon DEF RandTypeOK
    <3>4. \A c \in CPU : c = on[g] => Place(c)' = Place(c)
      BY <2>1, <1>t, <3>2, <3>3 DEF Place
    <3> QED BY <3>1, <3>4, Zenon
  <2>3. \A h \in Goroutine : reader[h] = "copied" => on[h] # on[g]
    <3>1. ASSUME NEW h \in Goroutine, reader[h] = "copied" PROVE on[h] # on[g]
      BY <2>1, <3>1, Exclusive, Zenon DEF Inside
    <3> QED BY <3>1, Zenon
  <2>4. \A h \in Goroutine : reader'[h] = "copied" => (offset[on[h]] + copied[h] <= BufLen)'
    BY <2>1, <2>3, <1>t, Zenon DEF RandInv, RandTypeOK
  <2> QED BY <1>t, <1>u, <2>1, <2>2, <2>4 DEF RandInv, Inside
<1>4. ASSUME NEW g \in Goroutine, Copy(g) PROVE RandInv'
  <2>1. /\ UNCHANGED <<nonce, offset, mutex, on>>
        /\ reader[g] = "loop" /\ reader'[g] = "copied" /\ copied'[g] = Piece(g)
        /\ \A h \in Goroutine : h # g => reader'[h] = reader[h] /\ copied'[h] = copied[h]
        /\ used' = used \cup Handed(g) /\ on[g] \in CPU
    BY <1>4, <1>t DEF Copy, CanCopy, RandTypeOK
  <2>2. \A c \in CPU : Place(c)' = Place(c)
    BY <2>1, Zenon DEF Place
  <2>3. Piece(g) \in Nat /\ offset[on[g]] + Piece(g) <= BufLen
    BY <1>4, <1>t, PieceFits, Zenon DEF Copy
  <2>4. \A b \in used' :
          \/ b.at < Place(b.cpu)'
          \/ \E h \in Goroutine : /\ reader'[h] = "copied" /\ on'[h] = b.cpu
                                  /\ b.at < Place(b.cpu)' + copied'[h]
    <3>1. ASSUME NEW b \in Handed(g)
          PROVE  on'[g] = b.cpu /\ b.at < Place(b.cpu)' + copied'[g]
      <4>1. PICK k \in 0 .. Piece(g) - 1 : b = [cpu |-> on[g], at |-> Place(on[g]) + k]
        BY Zenon DEF Handed
      <4>2. b.cpu = on[g] /\ b.at = Place(on[g]) + k
        BY <4>1, Zenon
      <4>3. Place(on[g]) \in Nat
        BY <1>t, <2>1, PlaceNat, Zenon
      <4> QED BY <2>1, <2>2, <2>3, <4>2, <4>3
    <3>2. ASSUME NEW b \in used
          PROVE  \/ b.at < Place(b.cpu)'
                 \/ \E h \in Goroutine : /\ reader'[h] = "copied" /\ on'[h] = b.cpu
                                         /\ b.at < Place(b.cpu)' + copied'[h]
      <4>1. CASE b.at < Place(b.cpu)
        BY <1>u, <2>2, <4>1, Zenon
      <4>2. ASSUME NEW h \in Goroutine, reader[h] = "copied", on[h] = b.cpu,
                   b.at < Place(b.cpu) + copied[h]
            PROVE  /\ reader'[h] = "copied" /\ on'[h] = b.cpu
                   /\ b.at < Place(b.cpu)' + copied'[h]
        BY <1>u, <2>1, <2>2, <4>2, Zenon
      <4> QED BY <4>1, <4>2, Zenon DEF RandInv
    <3> QED BY <2>1, <3>1, <3>2, Zenon
  <2>5. \A h \in Goroutine : reader'[h] = "copied" => (offset[on[h]] + copied[h] <= BufLen)'
    BY <2>1, <2>3, Zenon DEF RandInv
  <2>6. \A h \in Goroutine : Inside(h)' => mutex'[on'[h]] = h
    BY <2>1, Zenon DEF RandInv, Inside
  <2> QED BY <1>t, <2>4, <2>5, <2>6, Zenon DEF RandInv
<1>5. ASSUME NEW g \in Goroutine, Advance(g) PROVE RandInv'
  <2>1. /\ UNCHANGED <<nonce, mutex, on, left, copied, used>>
        /\ reader[g] = "copied" /\ reader'[g] = "loop" /\ on[g] \in CPU
        /\ \A h \in Goroutine : h # g => reader'[h] = reader[h]
        /\ offset'[on[g]] = offset[on[g]] + copied[g]
        /\ \A c \in CPU : c # on[g] => offset'[c] = offset[c]
    BY <1>5, <1>t, Zenon DEF Advance, RandTypeOK
  <2>2. \A h \in Goroutine : reader[h] = "copied" /\ h # g => on[h] # on[g]
    <3>1. ASSUME NEW h \in Goroutine, reader[h] = "copied", on[h] = on[g] PROVE h = g
      BY <2>1, <3>1, Exclusive, Zenon DEF Inside
    <3> QED BY <3>1, Zenon
  <2>3. \A c \in CPU : Place(c)' = IF c = on[g] THEN Place(c) + copied[g] ELSE Place(c)
    <3>1. ASSUME NEW c \in CPU, c # on[g] PROVE Place(c)' = Place(c)
      BY <2>1, <3>1, Zenon DEF Place
    <3>2. ASSUME NEW c \in CPU, c = on[g] PROVE Place(c)' = Place(c) + copied[g]
      <4>1. Place(c)' = (nonce[c] - 1) * BufLen + (offset[c] + copied[g])
        BY <2>1, <3>2, Zenon DEF Place
      <4>2. nonce[c] - 1 \in Int /\ offset[c] \in Int /\ copied[g] \in Int
        BY <1>t DEF RandTypeOK
      <4>3. \A i, j \in Int : i * j \in Int
        OBVIOUS
      <4>4. (nonce[c] - 1) * BufLen \in Int
        BY <1>t, <4>2, <4>3
      <4>5. \A i, j, k \in Int : i + (j + k) = (i + j) + k
        OBVIOUS
      <4> QED BY <4>1, <4>2, <4>4, <4>5 DEF Place
    <3> QED BY <3>1, <3>2, Zenon
  <2>4. \A b \in used' :
          \/ b.at < Place(b.cpu)'
          \/ \E h \in Goroutine : /\ reader'[h] = "copied" /\ on'[h] = b.cpu
                                  /\ b.at < Place(b.cpu)' + copied'[h]
    <3> SUFFICES ASSUME NEW b \in used
                 PROVE  \/ b.at < Place(b.cpu)'
                        \/ \E h \in Goroutine : /\ reader'[h] = "copied" /\ on'[h] = b.cpu
                                                /\ b.at < Place(b.cpu)' + copied'[h]
      BY <2>1, Zenon
    <3>0. /\ b.cpu \in CPU /\ b.at \in Nat /\ Place(b.cpu) \in Nat /\ copied[g] \in Nat
      BY <1>t, <1>u, PlaceNat, Zenon DEF RandTypeOK
    <3>1. CASE b.at < Place(b.cpu)
      BY <2>3, <3>0, <3>1
    <3>2. ASSUME NEW h \in Goroutine, reader[h] = "copied", on[h] = b.cpu,
                 b.at < Place(b.cpu) + copied[h]
          PROVE  \/ b.at < Place(b.cpu)'
                 \/ /\ reader'[h] = "copied" /\ on'[h] = b.cpu
                    /\ b.at < Place(b.cpu)' + copied'[h]
      <4>1. CASE h = g
        BY <2>3, <3>0, <3>2, <4>1, Zenon
      <4>2. CASE h # g
        BY <2>1, <2>2, <2>3, <3>0, <3>2, <4>2, Zenon
      <4> QED BY <4>1, <4>2, Zenon
    <3> QED BY <3>1, <3>2, Zenon DEF RandInv
  <2>5. \A h \in Goroutine : reader'[h] = "copied" => (offset[on[h]] + copied[h] <= BufLen)'
    <3>1. \A h \in Goroutine : on[h] \in CPU
      BY <1>t, Zenon DEF RandTypeOK
    <3> QED BY <2>1, <2>2, <3>1 DEF RandInv
  <2>6. \A h \in Goroutine : Inside(h)' => mutex'[on'[h]] = h
    BY <2>1, Zenon DEF RandInv, Inside
  <2> QED BY <1>t, <2>4, <2>5, <2>6, Zenon DEF RandInv
<1>6. ASSUME NEW g \in Goroutine, Unlock(g) PROVE RandInv'
  <2>1. /\ UNCHANGED <<nonce, offset, on, left, copied, used>>
        /\ reader[g] = "loop" /\ reader'[g] = "idle" /\ on[g] \in CPU
        /\ \A h \in Goroutine : h # g => reader'[h] = reader[h]
        /\ \A c \in CPU : c # on[g] => mutex'[c] = mutex[c]
    BY <1>6, <1>t DEF Unlock, RandTypeOK
  <2>2. \A c \in CPU : Place(c)' = Place(c)
    BY <2>1, Zenon DEF Place
  <2>3. \A h \in Goroutine : Inside(h)' => mutex'[on'[h]] = h
    <3>1. ASSUME NEW h \in Goroutine, Inside(h)' PROVE mutex'[on'[h]] = h
      <4>1. h # g /\ Inside(h) /\ on'[h] = on[h] /\ on[h] \in CPU
        BY <1>t, <2>1, <3>1, Zenon DEF Inside, RandTypeOK
      <4>2. on[h] # on[g]
        BY <2>1, <4>1, Exclusive, Zenon DEF Inside
      <4> QED BY <2>1, <4>1, <4>2, Zenon DEF RandInv
    <3> QED BY <3>1, Zenon
  <2> QED BY <1>t, <1>u, <2>1, <2>2, <2>3 DEF RandInv
<1>7. CASE UNCHANGED randVars
  BY <1>7, <1>t, Zenon DEF randVars, RandInv, Inside, Place
<1> QED
  BY <1>1, <1>2, <1>3, <1>4, <1>5, <1>6, <1>7, Zenon DEF RandNext, Reading

\* What a Read is about to copy lies behind what was handed out.
LEMMA HandedFresh == RandInv => NoByteTwice
<1> SUFFICES ASSUME RandInv, NEW g \in Goroutine, CanCopy(g), NEW b \in Handed(g), b \in used
             PROVE  FALSE
  BY Zenon DEF NoByteTwice
<1>1. PICK k \in 0 .. Piece(g) - 1 : b = [cpu |-> on[g], at |-> Place(on[g]) + k]
  BY Zenon DEF Handed
<1>2. RandTypeOK /\ on[g] \in CPU /\ Place(on[g]) \in Nat /\ Piece(g) \in Nat
  BY PlaceNat, PieceFits, Zenon DEF RandInv, RandTypeOK
<1>3. b.cpu = on[g] /\ b.at = Place(on[g]) + k /\ ~(b.at < Place(b.cpu))
  BY <1>1, <1>2
<1>4. PICK h \in Goroutine : reader[h] = "copied" /\ on[h] = on[g]
  BY <1>3, Zenon DEF RandInv
<1>5. h = g
  BY <1>4, Exclusive, Zenon DEF CanCopy, Inside
<1> QED BY <1>4, <1>5, Zenon DEF CanCopy

\* No byte of keystream leaves rand.Reader twice: the mutex of a generator,
\* its buffer offset and its nonce together give every Read bytes of its own.
THEOREM FreshBytes == RandSpec => []NoByteTwice
BY HandedFresh, InitRand, NextRand, PTL DEF RandSpec

-----------------------------------------------------------------------------
\* Fake traffic

Byte == [cpu : CPU, at : Nat]

\* What the first r reads of a body ask for, together.
Asked(k, r) ==
  (IF r > 0 THEN Reads[k][1] ELSE 0) + (IF r > 1 THEN Reads[k][2] ELSE 0)
  + (IF r > 2 THEN Reads[k][3] ELSE 0) + (IF r > 3 THEN Reads[k][4] ELSE 0)

\* The length of an onion.
OnionLen == MsgLen + KeyLen + (IF kind = "introductions" THEN 0 ELSE DropLen)

\* Place x of slot i is not the copy of a dead drop.
OwnPlace(i, x) == kind = "doubles" /\ i % 2 = 1 => x > DropLen

NoiseTypes ==
  /\ kind \in DOMAIN Reads
  /\ reads \in [Worker -> Nat]
  /\ got \in [Worker -> Seq(Byte)]
  /\ dest \in [0 .. Size - 1 -> Seq(Byte)]

\* A body has what it asked for, up to what the Read under way still owes it;
\* there are no reads outside of bodies.
BodyInv(w) ==
  /\ reads[w] <= Len(Reads[kind])
  /\ reader[w] = "idle" => left[w] = 0
  /\ Len(got[w]) + left[w] = Asked(kind, reads[w])
  /\ item[w] = None => reads[w] = 0 /\ reader[w] = "idle"

\* The body for index i has left complete onions.
Filled(i) ==
  IF kind = "doubles"
  THEN /\ Len(dest[2 * i]) = OnionLen /\ Len(dest[2 * i + 1]) = OnionLen
       /\ \A x \in 1 .. DropLen : dest[2 * i + 1][x] = dest[2 * i][x]
  ELSE Len(dest[i]) = OnionLen

\* All bytes in use were handed out.
OnlyUsed ==
  /\ \A w \in Worker : \A x \in DOMAIN got[w] : got[w][x] \in used
  /\ \A i \in DOMAIN dest : \A x \in DOMAIN dest[i] : dest[i][x] \in used

\* No byte is at two places, except that of a dead drop.
Apart ==
  /\ \A w, v \in Worker : \A x \in DOMAIN got[w], y \in DOMAIN got[v] :
       got[w][x] = got[v][y] => w = v /\ x = y
  /\ \A w \in Worker, i \in DOMAIN dest : \A x \in DOMAIN got[w], y \in DOMAIN dest[i] :
       got[w][x] # dest[i][y]
  /\ \A i, j \in DOMAIN dest : \A x \in DOMAIN dest[i], y \in DOMAIN dest[j] :
       OwnPlace(i, x) /\ OwnPlace(j, y) /\ dest[i][x] = dest[j][y] => i = j /\ x = y

(***************************************************************************)
(* The invariant of the composition: that of the loop, that of the         *)
(* generators, and where the bytes have gone.                              *)
(***************************************************************************)
FakesInv ==
  /\ NoiseTypes
  /\ \A w \in Worker : BodyInv(w)
  /\ \A i \in Index : i < n /\ runs[i] = 1 => Filled(i)
  /\ OnlyUsed /\ Apart

NoiseInv == TypeOK /\ LoopInv /\ RandInv /\ FakesInv

-----------------------------------------------------------------------------
LEMMA Lengths == DropLen \in Nat /\ MsgLen \in Nat /\ KeyLen \in Nat
BY NoiseAssumption, Zenon DEF NoiseAssumption

\* The reads of a body add up to what its onions are made of.
LEMMA ReadsAsked ==
  ASSUME NEW k \in DOMAIN Reads
  PROVE  /\ Len(Reads[k]) \in Nat /\ Asked(k, 0) = 0
         /\ \A r \in Nat : r < Len(Reads[k]) =>
              /\ Reads[k][r + 1] \in Nat
              /\ Asked(k, r + 1) = Asked(k, r) + Reads[k][r + 1]
         /\ Asked(k, Len(Reads[k])) =
              CASE k = "singles"       -> DropLen + MsgLen + KeyLen
                [] k = "doubles"       -> DropLen + 2 * MsgLen + 2 * KeyLen
                [] k = "introductions" -> MsgLen + KeyLen
<1>1. CASE k = "singles"
  <2>1. Reads[k] = <<DropLen + MsgLen, KeyLen>>
    BY <1>1 DEF Reads
  <2> QED BY <1>1, <2>1, Lengths DEF Asked
<1>2. CASE k = "doubles"
  <2>1. Reads[k] = <<DropLen + MsgLen, MsgLen, KeyLen, KeyLen>>
    BY <1>2 DEF Reads
  <2> QED BY <1>2, <2>1, Lengths DEF Asked
<1>3. CASE k = "introductions"
  <2>1. Reads[k] = <<MsgLen, KeyLen>>
    BY <1>3 DEF Reads
  <2> QED BY <1>3, <2>1, Lengths DEF Asked
<1>4. k \in {"singles", "doubles", "introductions"}
  BY DEF Reads
<1> QED BY <1>1, <1>2, <1>3, <1>4, Zenon

\* The places of a piece of a sequence.
LEMMA Piecewise ==
  ASSUME NEW S, NEW b \in Seq(S), NEW m \in Nat, NEW k \in Nat, m <= k, k <= Len(b)
  PROVE  /\ SubSeq(b, m + 1, k) \in Seq(S) /\ Len(SubSeq(b, m + 1, k)) = k - m
         /\ \A x \in 1 .. k - m : SubSeq(b, m + 1, k)[x] = b[m + x]
OBVIOUS

\* d is the concatenation of b and c, which have lengths l and m.
JoinOf(d, b, c, l, m, S) ==
  /\ d \in Seq(S) /\ Len(d) = l + m
  /\ \A x \in 1 .. l + m : d[x] = IF x <= l THEN b[x] ELSE c[x - l]

LEMMA JoinedAt ==
  ASSUME NEW S, NEW b \in Seq(S), NEW c \in Seq(S)
  PROVE  JoinOf(b \o c, b, c, Len(b), Len(c), S)
BY DEF JoinOf

LEMMA Parity == \A i \in Nat : (2 * i) % 2 = 0 /\ (2 * i + 1) % 2 = 1
OBVIOUS

LEMMA Halves == \A j \in Nat : \E i \in Nat : j = 2 * i \/ j = 2 * i + 1
<1> SUFFICES ASSUME NEW j \in Nat PROVE \E i \in Nat : j = 2 * i \/ j = 2 * i + 1
  BY Zenon
<1>1. j \div 2 \in Nat /\ (j = 2 * (j \div 2) \/ j = 2 * (j \div 2) + 1)
  OBVIOUS
<1> QED BY <1>1, Zenon

\* Where the bytes of the two onions of a pair come from.
Src(o, x) ==
  IF o = 0 THEN IF x <= DropLen + MsgLen THEN x ELSE x + MsgLen
  ELSE IF x <= DropLen THEN x
  ELSE IF x <= DropLen + MsgLen THEN x + MsgLen ELSE x + MsgLen + KeyLen

\* made is a pair of onions for index i whose bytes come from b.
PairOf(made, i, b, S) ==
  /\ DOMAIN made = {2 * i, 2 * i + 1}
  /\ \A o \in 0 .. 1 :
       /\ made[2 * i + o] \in Seq(S) /\ Len(made[2 * i + o]) = OnionLen
       /\ \A x \in 1 .. OnionLen : made[2 * i + o][x] = b[Src(o, x)]

\* That is what the body of a pair makes.
LEMMA MadeDouble ==
  ASSUME NEW S, kind = "doubles", NEW i \in Nat, NEW b \in Seq(S),
         Len(b) = DropLen + 2 * MsgLen + 2 * KeyLen
  PROVE  PairOf(Made(i, b), i, b, S)
<1> DEFINE ex == DropLen + MsgLen
           first == SubSeq(b, 1, ex)
           drop == SubSeq(b, 1, DropLen)
           msg == SubSeq(b, ex + 1, ex + MsgLen)
           key2 == SubSeq(b, Len(b) - 2 * KeyLen + 1, Len(b) - KeyLen)
           key1 == SubSeq(b, Len(b) - KeyLen + 1, Len(b))
<1>0. /\ DropLen \in Nat /\ MsgLen \in Nat /\ KeyLen \in Nat /\ OnionLen = ex + KeyLen
      /\ ex = DropLen + MsgLen
  BY Lengths DEF OnionLen
<1>1. Made(i, b) = [j \in {2 * i, 2 * i + 1} |->
                      IF j = 2 * i THEN first \o key2 ELSE (drop \o msg) \o key1]
  <2>1. (2 - 1) * KeyLen = KeyLen /\ 1 * KeyLen = KeyLen /\ Len(b) - (1 - 1) * KeyLen = Len(b)
    BY <1>0
  <2> QED BY <2>1, Zenon DEF Made
<1> HIDE DEF ex, first, drop, msg, key2, key1
<1>2. 2 * i # 2 * i + 1
  OBVIOUS
<1>3. /\ DOMAIN Made(i, b) = {2 * i, 2 * i + 1}
      /\ Made(i, b)[2 * i] = first \o key2 /\ Made(i, b)[2 * i + 1] = (drop \o msg) \o key1
  BY <1>1, <1>2, Zenon
<1>4. /\ first \in Seq(S) /\ Len(first) = ex /\ \A x \in 1 .. ex : first[x] = b[x]
      /\ drop \in Seq(S) /\ Len(drop) = DropLen /\ \A x \in 1 .. DropLen : drop[x] = b[x]
      /\ msg \in Seq(S) /\ Len(msg) = MsgLen /\ \A x \in 1 .. MsgLen : msg[x] = b[ex + x]
  <2>1. first \in Seq(S) /\ Len(first) = ex /\ \A x \in 1 .. ex : first[x] = b[x]
    BY <1>0 DEF first
  <2>2. drop \in Seq(S) /\ Len(drop) = DropLen /\ \A x \in 1 .. DropLen : drop[x] = b[x]
    BY <1>0 DEF drop
  <2>3. msg \in Seq(S) /\ Len(msg) = MsgLen /\ \A x \in 1 .. MsgLen : msg[x] = b[ex + x]
    BY <1>0 DEF msg
  <2> QED BY <2>1, <2>2, <2>3, Zenon
<1>5. /\ key2 \in Seq(S) /\ Len(key2) = KeyLen
      /\ \A x \in 1 .. KeyLen : key2[x] = b[ex + MsgLen + x]
      /\ key1 \in Seq(S) /\ Len(key1) = KeyLen
      /\ \A x \in 1 .. KeyLen : key1[x] = b[ex + MsgLen + KeyLen + x]
  <2>1. /\ key2 \in Seq(S) /\ Len(key2) = KeyLen
        /\ \A x \in 1 .. KeyLen : key2[x] = b[ex + MsgLen + x]
    BY <1>0 DEF key2
  <2>2. /\ key1 \in Seq(S) /\ Len(key1) = KeyLen
        /\ \A x \in 1 .. KeyLen : key1[x] = b[ex + MsgLen + KeyLen + x]
    BY <1>0 DEF key1
  <2> QED BY <2>1, <2>2, Zenon
<1>6. /\ first \o key2 \in Seq(S) /\ Len(first \o key2) = OnionLen
      /\ \A x \in 1 .. OnionLen : (first \o key2)[x] = b[Src(0, x)]
  <2>1. PICK c : c = first \o key2
    BY Zenon
  <2>2. /\ c \in Seq(S) /\ Len(c) = ex + KeyLen
        /\ \A x \in 1 .. ex + KeyLen : c[x] = IF x <= ex THEN first[x] ELSE key2[x - ex]
    <3>1. first \in Seq(S) /\ key2 \in Seq(S) /\ ex = Len(first) /\ KeyLen = Len(key2)
      BY <1>4, <1>5, Zenon
    <3>2. JoinOf(first \o key2, first, key2, Len(first), Len(key2), S)
      BY <3>1, JoinedAt, Zenon
    <3>3. JoinOf(c, first, key2, ex, KeyLen, S)
      BY <2>1, <3>1, <3>2, Zenon
    <3> QED BY <1>0, <3>3, Zenon DEF JoinOf
  <2>3. \A x \in 1 .. ex + KeyLen : c[x] = b[Src(0, x)]
    <3> TAKE x \in 1 .. ex + KeyLen
    <3>1. CASE x <= ex
      BY <1>0, <1>4, <2>2, <3>1 DEF Src
    <3>2. CASE x > ex
      <4>1. x - ex \in 1 .. KeyLen /\ ex + MsgLen + (x - ex) = Src(0, x)
        BY <1>0, <3>2 DEF Src
      <4>2. ~(x <= ex)
        BY <1>0, <3>2
      <4>3. c[x] = key2[x - ex]
        BY <2>2, <4>2, Zenon
      <4> QED BY <1>5, <4>1, <4>3, Zenon
    <3> QED BY <1>0, <3>1, <3>2
  <2> QED BY <1>0, <2>1, <2>2, <2>3, Zenon
<1>7. /\ drop \o msg \in Seq(S) /\ Len(drop \o msg) = ex
      /\ \A x \in 1 .. ex : (drop \o msg)[x] = b[IF x <= DropLen THEN x ELSE x + MsgLen]
  <2>1. PICK c : c = drop \o msg
    BY Zenon
  <2>2. /\ c \in Seq(S) /\ Len(c) = ex
        /\ \A x \in 1 .. ex : c[x] = IF x <= DropLen THEN drop[x] ELSE msg[x - DropLen]
    <3>1. drop \in Seq(S) /\ msg \in Seq(S) /\ DropLen = Len(drop) /\ MsgLen = Len(msg)
      BY <1>4, Zenon
    <3>2. JoinOf(drop \o msg, drop, msg, Len(drop), Len(msg), S)
      BY <3>1, JoinedAt, Zenon
    <3>3. JoinOf(c, drop, msg, DropLen, MsgLen, S)
      BY <2>1, <3>1, <3>2, Zenon
    <3> QED BY <1>0, <3>3, Zenon DEF JoinOf
  <2>3. \A x \in 1 .. ex : c[x] = b[IF x <= DropLen THEN x ELSE x + MsgLen]
    <3> TAKE x \in 1 .. ex
    <3>1. CASE x <= DropLen
      BY <1>0, <1>4, <2>2, <3>1
    <3>2. CASE x > DropLen
      <4>1. x - DropLen \in 1 .. MsgLen /\ ex + (x - DropLen) = x + MsgLen /\ ~(x <= DropLen)
        BY <1>0, <3>2
      <4> QED BY <1>4, <2>2, <4>1, Zenon
    <3> QED BY <1>0, <3>1, <3>2
  <2> QED BY <2>1, <2>2, <2>3, Zenon
<1>8. /\ (drop \o msg) \o key1 \in Seq(S) /\ Len((drop \o msg) \o key1) = OnionLen
      /\ \A x \in 1 .. OnionLen : ((drop \o msg) \o key1)[x] = b[Src(1, x)]
  <2>0. PICK d : d = drop \o msg
    BY Zenon
  <2>1. PICK c : c = d \o key1
    BY Zenon
  <2>2. /\ c \in Seq(S) /\ Len(c) = ex + KeyLen
        /\ \A x \in 1 .. ex + KeyLen : c[x] = IF x <= ex THEN d[x] ELSE key1[x - ex]
    <3>1. d \in Seq(S) /\ key1 \in Seq(S) /\ ex = Len(d) /\ KeyLen = Len(key1)
      BY <1>5, <1>7, <2>0, Zenon
    <3>2. JoinOf(d \o key1, d, key1, Len(d), Len(key1), S)
      BY <3>1, JoinedAt, Zenon
    <3>3. JoinOf(c, d, key1, ex, KeyLen, S)
      BY <2>1, <3>1, <3>2, Zenon
    <3> QED BY <1>0, <3>3, Zenon DEF JoinOf
  <2>3. \A x \in 1 .. ex + KeyLen : c[x] = b[Src(1, x)]
    <3> TAKE x \in 1 .. ex + KeyLen
    <3>1. CASE x <= ex
      <4>1. x \in 1 .. ex /\ Src(1, x) = IF x <= DropLen THEN x ELSE x + MsgLen
        BY <1>0, <3>1 DEF Src
      <4> QED BY <1>7, <2>0, <2>2, <3>1, <4>1, Zenon
    <3>2. CASE x > ex
      <4>1. /\ x - ex \in 1 .. KeyLen /\ ex + MsgLen + KeyLen + (x - ex) = Src(1, x)
            /\ ~(x <= ex)
        BY <1>0, <3>2 DEF Src
      <4> QED BY <1>5, <2>2, <4>1, Zenon
    <3> QED BY <1>0, <3>1, <3>2
  <2> QED BY <1>0, <2>0, <2>1, <2>2, <2>3, Zenon
<1>9. \A o \in 0 .. 1 : o = 0 \/ o = 1
  OBVIOUS
<1>10. 2 * i + 0 = 2 * i
  OBVIOUS
<1>11. ASSUME NEW o \in 0 .. 1
       PROVE  /\ Made(i, b)[2 * i + o] \in Seq(S) /\ Len(Made(i, b)[2 * i + o]) = OnionLen
              /\ \A x \in 1 .. OnionLen : Made(i, b)[2 * i + o][x] = b[Src(o, x)]
  <2>1. CASE o = 0
    BY <1>3, <1>6, <1>10, <2>1, Zenon
  <2>2. CASE o = 1
    BY <1>3, <1>8, <2>2, Zenon
  <2> QED BY <1>9, <2>1, <2>2, Zenon
<1> QED BY <1>3, <1>11, Zenon DEF PairOf

\* Apart from the copied dead drop, no byte is used twice.
LEMMA SrcApart ==
  ASSUME kind = "doubles", NEW i \in Nat, NEW o \in 0 .. 1, NEW q \in 0 .. 1,
         NEW x \in 1 .. OnionLen, NEW y \in 1 .. OnionLen,
         OwnPlace(2 * i + o, x), OwnPlace(2 * i + q, y)
  PROVE  /\ Src(o, x) \in 1 .. DropLen + 2 * MsgLen + 2 * KeyLen
         /\ Src(o, x) = Src(q, y) => o = q /\ x = y
<1>1. o = 1 => x > DropLen
  BY Parity, Zenon DEF OwnPlace
<1>2. q = 1 => y > DropLen
  BY Parity, Zenon DEF OwnPlace
<1> QED BY <1>1, <1>2, Lengths DEF Src, OnionLen

\* The goroutines that read are the workers.
LEMMA Workers == Goroutine = Worker /\ 0 \in Nat /\ None \notin Index
BY NoiseAssumption DEF NoiseAssumption, None, Index

\* A step of the composition is a step of the loop, or leaves it alone, and
\* likewise for the generators.
LEMMA StepsProject ==
  ASSUME NoiseInv, [NoiseNext]_allVars
  PROVE  [Next]_vars /\ [RandNext]_randVars
<1>1. CASE UNCHANGED allVars
  BY <1>1, Zenon DEF allVars
<1>2. ASSUME NEW w \in Worker, NoiseWorker(w)
      PROVE  [Next]_vars /\ [RandNext]_randVars
  <2>1. CASE Loop(w)
    BY <2>1, Zenon DEF Loop, Next, WorkerStep
  <2>2. CASE BodyRead(w)
    <3>1. Reads[kind][reads[w] + 1] \in Nat
      BY <2>2, ReadsAsked, Zenon DEF NoiseInv, FakesInv, NoiseTypes, BodyRead
    <3> QED BY <2>2, <3>1, Workers, Zenon DEF BodyRead, RandNext
  <2>3. CASE BodyCopy(w)
    BY <2>3, Workers, Zenon DEF BodyCopy, RandNext, Reading
  <2>4. CASE BodyReading(w)
    BY <2>4, Workers, Zenon DEF BodyReading, RandNext, Reading
  <2>5. CASE BodyEnd(w)
    BY <2>5, Zenon DEF BodyEnd, Next, WorkerStep
  <2> QED BY <1>2, <2>1, <2>2, <2>3, <2>4, <2>5, Zenon DEF NoiseWorker
<1>3. CASE Return
  BY <1>3, Zenon DEF Return, Next
<1> QED BY <1>1, <1>2, <1>3, Zenon DEF NoiseNext

\* Steps that move no bytes.
LEMMA NoBytesMoved ==
  ASSUME FakesInv, UNCHANGED <<n, runs, kind, used, got, dest>>,
         reads' \in [Worker -> Nat], \A w \in Worker : BodyInv(w)'
  PROVE  FakesInv'
<1>1. NoiseTypes'
  BY Zenon DEF FakesInv, NoiseTypes, Size
<1>2. \A i \in Index : (Filled(i) <=> Filled(i)')
  BY Zenon DEF Filled, OnionLen
<1>3. \A i \in Index : (i < n /\ runs[i] = 1 => Filled(i))'
  BY <1>2, Zenon DEF FakesInv
<1>4. OnlyUsed'
  BY Zenon DEF FakesInv, OnlyUsed
<1>5. Apart'
  <2>1. \A i, x : OwnPlace(i, x)' <=> OwnPlace(i, x)
    BY Zenon DEF OwnPlace
  <2> QED BY <2>1 DEF FakesInv, Apart
<1> QED BY <1>1, <1>3, <1>4, <1>5, Zenon DEF FakesInv

LEMMA LoopKeeps ==
  ASSUME NoiseInv, NEW w \in Worker, Loop(w)
  PROVE  FakesInv'
<1>1. UNCHANGED <<n, runs, randVars, noiseVars>>
  BY Zenon DEF Loop, NextInChunk, NextChunk, NoChunk, Done
<1>2. \A v \in Worker : item'[v] = None => item[v] = None
  BY Zenon DEF Loop, NextInChunk, NextChunk, NoChunk, Done, Calls, NoiseInv, TypeOK
<1>3. UNCHANGED <<kind, used, got, dest, reads, reader, left>>
  BY <1>1, Zenon DEF randVars, noiseVars
<1>4. \A v \in Worker : BodyInv(v)'
  BY <1>2, <1>3, Zenon DEF NoiseInv, FakesInv, BodyInv
<1>5. reads' \in [Worker -> Nat]
  BY <1>3, Zenon DEF NoiseInv, FakesInv, NoiseTypes
<1> QED BY <1>1, <1>3, <1>4, <1>5, NoBytesMoved, Zenon DEF NoiseInv

LEMMA ReturnKeeps ==
  ASSUME NoiseInv, Return
  PROVE  FakesInv'
<1>1. UNCHANGED <<n, runs, item, randVars, noiseVars>>
  BY Zenon DEF Return, Wait, Terminated, vars
<1>3. UNCHANGED <<kind, used, got, dest, reads, reader, left>>
  BY <1>1, Zenon DEF randVars, noiseVars
<1>4. \A v \in Worker : BodyInv(v)'
  BY <1>1, <1>3, Zenon DEF NoiseInv, FakesInv, BodyInv
<1>5. reads' \in [Worker -> Nat]
  BY <1>3, Zenon DEF NoiseInv, FakesInv, NoiseTypes
<1> QED BY <1>1, <1>3, <1>4, <1>5, NoBytesMoved, Zenon DEF NoiseInv

LEMMA BodyReadKeeps ==
  ASSUME NoiseInv, NEW w \in Worker, BodyRead(w)
  PROVE  FakesInv'
<1>1. /\ UNCHANGED <<n, runs, item, kind, used, got, dest>>
      /\ item[w] # None /\ reader[w] = "idle" /\ reads[w] < Len(Reads[kind])
      /\ reads' = [reads EXCEPT ![w] = reads[w] + 1]
      /\ reader' = [reader EXCEPT ![w] = "waiting"]
      /\ left' = [left EXCEPT ![w] = Reads[kind][reads[w] + 1]]
  BY Zenon DEF BodyRead, StartRead, vars
<1>2. /\ reads \in [Worker -> Nat] /\ reader \in [Worker -> {"idle", "waiting", "loop", "copied"}]
      /\ left \in [Worker -> Nat] /\ kind \in DOMAIN Reads /\ BodyInv(w)
      /\ Len(got[w]) \in Nat
  <2>1. got[w] \in Seq(Byte)
    BY Zenon DEF NoiseInv, FakesInv, NoiseTypes
  <2>2. Len(got[w]) \in Nat
    BY <2>1
  <2> QED BY <2>2, Workers, Zenon DEF NoiseInv, FakesInv, NoiseTypes, RandInv, RandTypeOK
<1>3. reads' \in [Worker -> Nat]
  BY <1>1, <1>2
<1>4. /\ Reads[kind][reads[w] + 1] \in Nat /\ Len(Reads[kind]) \in Nat
      /\ Asked(kind, reads[w] + 1) = Asked(kind, reads[w]) + Reads[kind][reads[w] + 1]
  BY <1>1, <1>2, ReadsAsked, Zenon
<1>5. BodyInv(w)'
  <2>1. reads'[w] = reads[w] + 1 /\ reader'[w] = "waiting" /\ left'[w] = Reads[kind][reads[w] + 1]
    BY <1>1, <1>2, Zenon
  <2>2. left[w] = 0 /\ Len(got[w]) + 0 = Asked(kind, reads[w])
    BY <1>1, <1>2, Zenon DEF BodyInv
  <2>3. Len(got[w]) + Reads[kind][reads[w] + 1] = Asked(kind, reads[w] + 1)
    BY <1>2, <1>4, <2>2
  <2>4. reads[w] + 1 <= Len(Reads[kind]) /\ "waiting" # "idle"
    BY <1>1, <1>2, <1>4
  <2> QED BY <1>1, <2>1, <2>3, <2>4, Zenon DEF BodyInv, Asked
<1>6. ASSUME NEW v \in Worker, v # w PROVE BodyInv(v)'
  <2>1. BodyInv(v)
    BY Zenon DEF NoiseInv, FakesInv
  <2>2. reads'[v] = reads[v] /\ reader'[v] = reader[v] /\ left'[v] = left[v]
    BY <1>1, <1>2, <1>6, Zenon
  <2> QED BY <1>1, <2>1, <2>2, Zenon DEF BodyInv, Asked
<1> QED BY <1>1, <1>3, <1>5, <1>6, NoBytesMoved, Zenon DEF NoiseInv

LEMMA BodyReadingKeeps ==
  ASSUME NoiseInv, NEW w \in Worker, BodyReading(w)
  PROVE  FakesInv'
<1>1. /\ UNCHANGED <<n, runs, item, kind, used, got, dest, reads, left>>
      /\ \E r \in {"idle", "loop"} : /\ reader' = [reader EXCEPT ![w] = r] \/ reader' = reader
                                     /\ r = "idle" => left[w] = 0 \/ reader' = reader
      /\ reader[w] # "idle"
  BY DEF BodyReading, Lock, Fill, Advance, Unlock, vars, noiseVars
<1>2. reader \in [Worker -> {"idle", "waiting", "loop", "copied"}] /\ BodyInv(w)
  BY Workers, Zenon DEF NoiseInv, FakesInv, RandInv, RandTypeOK
<1>3. item[w] # None
  BY <1>1, <1>2, Zenon DEF BodyInv
<1>4. \A v \in Worker : BodyInv(v)'
  <2> SUFFICES ASSUME NEW v \in Worker PROVE BodyInv(v)'
    BY Zenon
  <2>1. BodyInv(v)
    BY Zenon DEF NoiseInv, FakesInv
  <2>2. CASE v # w
    <3>1. reader'[v] = reader[v]
      BY <1>1, <1>2, <2>2, Zenon
    <3> QED BY <1>1, <2>1, <3>1, Zenon DEF BodyInv, Asked
  <2>3. CASE v = w
    <3>1. reader'[w] = "idle" => left[w] = 0
      BY <1>1, <1>2, Zenon
    <3> QED BY <1>1, <1>3, <2>1, <2>3, <3>1, Zenon DEF BodyInv, Asked
  <2> QED BY <2>2, <2>3, Zenon
<1>5. reads' \in [Worker -> Nat]
  BY <1>1, Zenon DEF NoiseInv, FakesInv, NoiseTypes
<1> QED BY <1>1, <1>4, <1>5, NoBytesMoved, Zenon DEF NoiseInv

LEMMA Listed ==
  ASSUME NEW S, NEW m \in Nat, NEW f \in [1 .. m -> S]
  PROVE  f \in Seq(S) /\ Len(f) = m
OBVIOUS

\* The bytes a copy hands out are new and differ from each other.
LEMMA CopiedFresh ==
  ASSUME NoiseInv, NEW w \in Worker, CanCopy(w), NEW new,
         new = [k \in 1 .. Piece(w) |-> [cpu |-> on[w], at |-> Place(on[w]) + k - 1]]
  PROVE  /\ Piece(w) \in Nat /\ Piece(w) <= left[w]
         /\ new \in Seq(Byte) /\ Len(new) = Piece(w)
         /\ \A x \in 1 .. Piece(w) : new[x] \in Handed(w) /\ new[x] \notin used
         /\ \A x, y \in 1 .. Piece(w) : new[x] = new[y] => x = y
<1>1. w \in Goroutine /\ RandInv /\ RandTypeOK
  BY Workers, Zenon DEF NoiseInv, RandInv
<1>2. Piece(w) \in Nat /\ Piece(w) <= left[w] /\ on[w] \in CPU
  BY <1>1, PieceFits, Zenon DEF RandTypeOK
<1>3. Place(on[w]) \in Nat
  BY <1>1, <1>2, PlaceNat, Zenon
<1>4. Handed(w) \cap used = {}
  BY <1>1, HandedFresh, Zenon DEF NoByteTwice
<1>5. PICK base : base = Place(on[w])
  BY Zenon
<1>6. PICK m : m = Piece(w)
  BY Zenon
<1>7. \A x \in 1 .. m : new[x] = [cpu |-> on[w], at |-> base + x - 1]
  BY <1>5, <1>6, Zenon
<1>8. new \in Seq(Byte) /\ Len(new) = m
  <2>1. \A x \in 1 .. m : [cpu |-> on[w], at |-> base + x - 1] \in Byte
    BY <1>2, <1>3, <1>5, <1>6 DEF Byte
  <2>2. new = [k \in 1 .. m |-> [cpu |-> on[w], at |-> base + k - 1]]
    BY <1>5, <1>6, Zenon
  <2>3. new \in [1 .. m -> Byte]
    BY <2>1, <2>2, Zenon
  <2> QED BY <1>2, <1>6, <2>3, Listed, Zenon
<1>9. \A x \in 1 .. m : new[x] \in Handed(w)
  <2> SUFFICES ASSUME NEW x \in 1 .. m PROVE new[x] \in Handed(w)
    BY Zenon
  <2>1. x - 1 \in 0 .. m - 1 /\ base + x - 1 = base + (x - 1)
    BY <1>2, <1>3, <1>5, <1>6
  <2> QED BY <1>5, <1>6, <1>7, <2>1, Zenon DEF Handed
<1>10. \A x, y \in 1 .. m : new[x] = new[y] => x = y
  BY <1>2, <1>3, <1>5, <1>6, <1>7
<1> QED BY <1>2, <1>4, <1>6, <1>8, <1>9, <1>10, Zenon

LEMMA BodyCopyKeeps ==
  ASSUME NoiseInv, NEW w \in Worker, BodyCopy(w)
  PROVE  FakesInv'
<1>1. PICK new : new = [k \in 1 .. Piece(w) |-> [cpu |-> on[w], at |-> Place(on[w]) + k - 1]]
  BY Zenon
<1>2. PICK m : m = Piece(w)
  BY Zenon
<1>3. /\ UNCHANGED <<n, runs, item, kind, dest, reads>>
      /\ CanCopy(w) /\ reader[w] # "idle"
      /\ used' = used \cup Handed(w)
      /\ reader' = [reader EXCEPT ![w] = "copied"]
      /\ left' = [left EXCEPT ![w] = left[w] - m]
      /\ got' = [got EXCEPT ![w] = got[w] \o new]
  BY <1>1, <1>2, Zenon DEF BodyCopy, Copy, CanCopy, vars
<1>4. /\ m \in Nat /\ m <= left[w]
      /\ new \in Seq(Byte) /\ Len(new) = m
      /\ \A x \in 1 .. m : new[x] \in Handed(w) /\ new[x] \notin used
      /\ \A x, y \in 1 .. m : new[x] = new[y] => x = y
  BY <1>1, <1>2, <1>3, CopiedFresh
<1>5. /\ reader \in [Worker -> {"idle", "waiting", "loop", "copied"}]
      /\ left \in [Worker -> Nat] /\ kind \in DOMAIN Reads
      /\ got \in [Worker -> Seq(Byte)] /\ dest \in [0 .. Size - 1 -> Seq(Byte)]
      /\ reads \in [Worker -> Nat] /\ Size' = Size
  BY <1>3, Workers, Zenon DEF NoiseInv, FakesInv, NoiseTypes, RandInv, RandTypeOK, Size
<1>6. PICK l : l = Len(got[w])
  BY Zenon
<1>7. PICK all : all = got[w] \o new
  BY Zenon
<1>8. JoinOf(all, got[w], new, l, m, Byte)
  BY <1>4, <1>5, <1>6, <1>7, JoinedAt, Zenon
<1>9. l \in Nat
  BY <1>5, <1>6
<1>10. /\ all \in Seq(Byte) /\ Len(all) = l + m /\ DOMAIN all = 1 .. l + m
       /\ DOMAIN got[w] = 1 .. l
  BY <1>5, <1>6, <1>8, <1>9 DEF JoinOf
<1>11. got'[w] = all /\ \A v \in Worker : v # w => got'[v] = got[v]
  BY <1>3, <1>5, <1>7, Zenon
<1>12. NoiseTypes'
  <2>1. got' \in [Worker -> Seq(Byte)]
    BY <1>3, <1>5, <1>7, <1>10, Zenon
  <2> QED BY <1>3, <1>5, <2>1, Zenon DEF NoiseTypes
<1>13. \A v \in Worker : BodyInv(v)'
  <2> SUFFICES ASSUME NEW v \in Worker PROVE BodyInv(v)'
    BY Zenon
  <2>1. BodyInv(v)
    BY Zenon DEF NoiseInv, FakesInv
  <2>2. CASE v # w
    <3>1. reader'[v] = reader[v] /\ left'[v] = left[v] /\ got'[v] = got[v]
      BY <1>3, <1>5, <1>11, <2>2, Zenon
    <3> QED BY <1>3, <2>1, <3>1, Zenon DEF BodyInv, Asked
  <2>3. CASE v = w
    <3>1. reader'[w] = "copied" /\ left'[w] = left[w] - m /\ Len(got'[w]) = l + m
      BY <1>3, <1>5, <1>10, <1>11, Zenon
    <3>2. (l + m) + (left[w] - m) = l + left[w]
      BY <1>4, <1>5, <1>9
    <3>3. "copied" # "idle" /\ item[w] # None
      BY <1>3, <2>1, <2>3, Zenon DEF BodyInv
    <3> QED BY <1>3, <1>6, <2>1, <2>3, <3>1, <3>2, <3>3, Zenon DEF BodyInv, Asked
  <2> QED BY <2>2, <2>3, Zenon
<1>14. \A i \in Index : (i < n /\ runs[i] = 1 => Filled(i))'
  <2>1. \A i \in Index : Filled(i) <=> Filled(i)'
    BY <1>3, Zenon DEF Filled, OnionLen
  <2> QED BY <1>3, <2>1, Zenon DEF NoiseInv, FakesInv
<1>15. \A x \in 1 .. l + m :
         \/ x \in DOMAIN got[w] /\ all[x] = got[w][x]
         \/ x - l \in 1 .. m /\ all[x] = new[x - l]
  <2> SUFFICES ASSUME NEW x \in 1 .. l + m
               PROVE  \/ x \in DOMAIN got[w] /\ all[x] = got[w][x]
                      \/ x - l \in 1 .. m /\ all[x] = new[x - l]
    BY Zenon
  <2>1. all[x] = IF x <= l THEN got[w][x] ELSE new[x - l]
    BY <1>8, Zenon DEF JoinOf
  <2>2. IF x <= l THEN x \in 1 .. l ELSE x - l \in 1 .. m
    BY <1>4, <1>9
  <2> QED BY <1>10, <2>1, <2>2, Zenon
<1>16. OnlyUsed'
  <2>1. OnlyUsed
    BY Zenon DEF NoiseInv, FakesInv
  <2>2. \A x \in DOMAIN all : all[x] \in used'
    BY <1>3, <1>4, <1>10, <1>15, <2>1, Zenon DEF OnlyUsed
  <2>3. ASSUME NEW v \in Worker PROVE \A x \in DOMAIN got'[v] : got'[v][x] \in used'
    <3>1. CASE v = w
      BY <1>11, <2>2, <3>1, Zenon
    <3>2. CASE v # w
      <4>1. \A x \in DOMAIN got[v] : got[v][x] \in used
        BY <2>1, Zenon DEF OnlyUsed
      <4>2. got'[v] = got[v] /\ \A z \in used : z \in used'
        BY <1>3, <1>11, <3>2, Zenon
      <4> QED BY <4>1, <4>2, Zenon
    <3> QED BY <3>1, <3>2, Zenon
  <2>4. \A i \in DOMAIN dest' : \A x \in DOMAIN dest'[i] : dest'[i][x] \in used'
    BY <1>3, <2>1, Zenon DEF OnlyUsed
  <2> QED BY <2>3, <2>4, Zenon DEF OnlyUsed
<1>17. Apart'
  <2>1. OnlyUsed /\ Apart
    BY Zenon DEF NoiseInv, FakesInv
  <2>2. ASSUME NEW x \in DOMAIN all, NEW y \in DOMAIN all, all[x] = all[y] PROVE x = y
    <3>0. x \in 1 .. l + m /\ y \in 1 .. l + m
      BY <1>10, Zenon
    <3>1. CASE x \in DOMAIN got[w] /\ all[x] = got[w][x] /\ y \in DOMAIN got[w] /\ all[y] = got[w][y]
      <4>1. \A a, b \in DOMAIN got[w] : got[w][a] = got[w][b] => a = b
        BY <2>1, Zenon DEF Apart
      <4> QED BY <2>2, <3>1, <4>1, Zenon
    <3>2. CASE x - l \in 1 .. m /\ all[x] = new[x - l] /\ y - l \in 1 .. m /\ all[y] = new[y - l]
      <4>1. x - l = y - l
        BY <1>4, <2>2, <3>2, Zenon
      <4> QED BY <1>4, <1>9, <3>0, <4>1
    <3>3. CASE x \in DOMAIN got[w] /\ all[x] = got[w][x] /\ y - l \in 1 .. m /\ all[y] = new[y - l]
      BY <1>4, <2>1, <2>2, <3>3, Zenon DEF OnlyUsed
    <3>4. CASE x - l \in 1 .. m /\ all[x] = new[x - l] /\ y \in DOMAIN got[w] /\ all[y] = got[w][y]
      BY <1>4, <2>1, <2>2, <3>4, Zenon DEF OnlyUsed
    <3> QED BY <1>15, <3>0, <3>1, <3>2, <3>3, <3>4, Zenon
  <2>3. ASSUME NEW x \in DOMAIN all, NEW v \in Worker, v # w, NEW y \in DOMAIN got[v]
        PROVE  all[x] # got[v][y]
    <3>1. CASE x \in DOMAIN got[w] /\ all[x] = got[w][x]
      BY <2>1, <2>3, <3>1, Zenon DEF Apart
    <3>2. CASE x - l \in 1 .. m /\ all[x] = new[x - l]
      BY <1>4, <2>1, <2>3, <3>2, Zenon DEF OnlyUsed
    <3> QED BY <1>10, <1>15, <3>1, <3>2, Zenon
  <2>4. ASSUME NEW x \in DOMAIN all, NEW i \in DOMAIN dest, NEW y \in DOMAIN dest[i]
        PROVE  all[x] # dest[i][y]
    <3>1. CASE x \in DOMAIN got[w] /\ all[x] = got[w][x]
      BY <2>1, <3>1 DEF Apart
    <3>2. CASE x - l \in 1 .. m /\ all[x] = new[x - l]
      BY <1>4, <2>1, <3>2, Zenon DEF OnlyUsed
    <3> QED BY <1>10, <1>15, <3>1, <3>2, Zenon
  <2>5. ASSUME NEW u \in Worker, NEW v \in Worker,
               NEW x \in DOMAIN got'[u], NEW y \in DOMAIN got'[v], got'[u][x] = got'[v][y]
        PROVE  u = v /\ x = y
    <3>1. CASE u = w /\ v = w
      BY <1>11, <2>2, <2>5, <3>1, Zenon
    <3>2. CASE u = w /\ v # w
      <4>1. x \in DOMAIN all /\ y \in DOMAIN got[v] /\ all[x] = got[v][y]
        BY <1>11, <2>5, <3>2, Zenon
      <4> QED BY <2>3, <3>2, <4>1, Zenon
    <3>3. CASE u # w /\ v = w
      <4>1. y \in DOMAIN all /\ x \in DOMAIN got[u] /\ all[y] = got[u][x]
        BY <1>11, <2>5, <3>3, Zenon
      <4> QED BY <2>3, <3>3, <4>1, Zenon
    <3>4. CASE u # w /\ v # w
      <4>1. x \in DOMAIN got[u] /\ y \in DOMAIN got[v] /\ got[u][x] = got[v][y]
        BY <1>11, <2>5, <3>4, Zenon
      <4>2. \A a \in DOMAIN got[u], c \in DOMAIN got[v] : got[u][a] = got[v][c] => u = v /\ a = c
        BY <2>1, Zenon DEF Apart
      <4> QED BY <4>1, <4>2, Zenon
    <3> QED BY <3>1, <3>2, <3>3, <3>4, Zenon
  <2>6. ASSUME NEW u \in Worker, NEW i \in DOMAIN dest',
               NEW x \in DOMAIN got'[u], NEW y \in DOMAIN dest'[i]
        PROVE  got'[u][x] # dest'[i][y]
    <3>1. CASE u = w
      <4>1. x \in DOMAIN all /\ got'[u] = all /\ dest' = dest
        BY <1>3, <1>11, <3>1, Zenon
      <4> QED BY <2>4, <4>1, Zenon
    <3>2. CASE u # w
      <4>1. got'[u] = got[u] /\ dest' = dest
        BY <1>3, <1>11, <3>2, Zenon
      <4>2. \A j \in DOMAIN dest : \A a \in DOMAIN got[u], c \in DOMAIN dest[j] :
              got[u][a] # dest[j][c]
        BY <2>1, Zenon DEF Apart
      <4> QED BY <4>1, <4>2, Zenon
    <3> QED BY <3>1, <3>2, Zenon
  <2>7. \A i, j \in DOMAIN dest' : \A x \in DOMAIN dest'[i], y \in DOMAIN dest'[j] :
          OwnPlace(i, x)' /\ OwnPlace(j, y)' /\ dest'[i][x] = dest'[j][y] => i = j /\ x = y
    <3>1. \A i, x : OwnPlace(i, x)' <=> OwnPlace(i, x)
      BY <1>3, Zenon DEF OwnPlace
    <3>2. \A i, j \in DOMAIN dest : \A x \in DOMAIN dest[i], y \in DOMAIN dest[j] :
            OwnPlace(i, x) /\ OwnPlace(j, y) /\ dest[i][x] = dest[j][y] => i = j /\ x = y
      BY <2>1, Zenon DEF Apart
    <3>3. dest' = dest
      BY <1>3, Zenon
    <3> QED BY <3>1, <3>2, <3>3
  <2> QED BY <2>5, <2>6, <2>7, Zenon DEF Apart
<1> QED BY <1>12, <1>13, <1>14, <1>16, <1>17, Zenon DEF FakesInv

\* made is what the body of index i may leave in dest: onions for its slots,
\* and in them bytes of b, each at one place only unless it is in a copied
\* dead drop.
Slots(i) == IF kind = "doubles" THEN {2 * i, 2 * i + 1} ELSE {i}

Complete(made) == \A j \in DOMAIN made : made[j] \in Seq(Byte) /\ Len(made[j]) = OnionLen

BytesFrom(made, b) ==
  \A j \in DOMAIN made : \A x \in DOMAIN made[j] : \E y \in DOMAIN b : made[j][x] = b[y]

NoRepeat(made) ==
  \A j, k \in DOMAIN made : \A x \in DOMAIN made[j], y \in DOMAIN made[k] :
    OwnPlace(j, x) /\ OwnPlace(k, y) /\ made[j][x] = made[k][y] => j = k /\ x = y

OnionsOf(made, i, b) ==
  /\ DOMAIN made = Slots(i) /\ Slots(i) \subseteq 0 .. Size - 1
  /\ Complete(made) /\ BytesFrom(made, b) /\ NoRepeat(made)
  /\ kind = "doubles" => \A x \in 1 .. DropLen : made[2 * i + 1][x] = made[2 * i][x]

LEMMA BoundsNat ==
  ASSUME NEW c \in 0 .. MaxN
  PROVE  c \in Nat /\ \A k \in Index : k \in Nat
BY LoopAssumption DEF Index, LoopAssumption

\* What a body leaves when it ends.
LEMMA MadeOnions ==
  ASSUME NoiseInv, NEW w \in Worker, BodyEnd(w), NEW i, i = item[w],
         NEW b, b = got[w], NEW made, made = Made(i, b)
  PROVE  OnionsOf(made, i, b)
<1>1. /\ i \in Index /\ i \in Nat /\ i < n /\ n \in Nat
  <2>1. n \in 0 .. MaxN /\ item[w] \in Index \cup {None} /\ item[w] # None /\ item[w] < n
    BY Zenon DEF NoiseInv, TypeOK, LoopInv, BodyEnd
  <2>2. i \in Index /\ i < n
    BY <2>1, Zenon
  <2>3. n \in Nat /\ \A k \in Index : k \in Nat
    BY <2>1, BoundsNat, Zenon
  <2> QED BY <2>2, <2>3, Zenon
<1>2. b \in Seq(Byte) /\ kind \in DOMAIN Reads /\ BodyInv(w)
  BY Zenon DEF NoiseInv, FakesInv, NoiseTypes
<1>3. Len(b) \in Nat /\ DOMAIN b = 1 .. Len(b)
  BY <1>2
<1>4. Len(b) = Asked(kind, Len(Reads[kind]))
  <2>1. left[w] = 0 /\ Len(b) + left[w] = Asked(kind, Len(Reads[kind]))
    BY <1>2, Zenon DEF BodyEnd, BodyInv
  <2> QED BY <1>3, <2>1
<1>5. \A x, y \in DOMAIN b : b[x] = b[y] => x = y
  <2>1. Apart
    BY Zenon DEF NoiseInv, FakesInv
  <2>2. \A x, y \in DOMAIN got[w] : got[w][x] = got[w][y] => x = y
    BY <2>1, Zenon DEF Apart
  <2> QED BY <2>2, Zenon
<1>6. CASE kind = "doubles"
  <2>1. Len(b) = DropLen + 2 * MsgLen + 2 * KeyLen
    BY <1>2, <1>4, <1>6, ReadsAsked
  <2>2. /\ DOMAIN made = {2 * i, 2 * i + 1}
        /\ \A o \in 0 .. 1 :
              /\ made[2 * i + o] \in Seq(Byte) /\ Len(made[2 * i + o]) = OnionLen
              /\ \A x \in 1 .. OnionLen : made[2 * i + o][x] = b[Src(o, x)]
    <3>1. PairOf(Made(i, b), i, b, Byte)
      BY <1>1, <1>2, <1>6, <2>1, MadeDouble, Zenon
    <3> QED BY <3>1, Zenon DEF PairOf
  <2>3. \A j \in DOMAIN made : \E o \in 0 .. 1 : j = 2 * i + o
    BY <1>1, <2>2
  <2>4. DOMAIN made \subseteq 0 .. Size - 1
    BY <1>1, <1>6, <2>2 DEF Size
  <2>5. OnionLen \in Nat /\ DropLen <= OnionLen /\ DropLen \in Nat
    BY <1>6, Lengths DEF OnionLen
  <2>6. \A o \in 0 .. 1 : DOMAIN made[2 * i + o] = 1 .. OnionLen
    BY <2>2
  <2>7. \A o \in 0 .. 1, x \in 1 .. OnionLen : Src(o, x) \in DOMAIN b
    BY <1>3, <1>6, <2>1, Lengths DEF Src, OnionLen
  <2>8. \A x \in 1 .. DropLen : made[2 * i + 1][x] = made[2 * i][x]
    <3> SUFFICES ASSUME NEW x \in 1 .. DropLen PROVE made[2 * i + 1][x] = made[2 * i][x]
      BY Zenon
    <3>1. x \in 1 .. OnionLen /\ Src(0, x) = x /\ Src(1, x) = x /\ 2 * i = 2 * i + 0
      BY <1>1, <2>5, Lengths DEF Src
    <3>2. 0 \in 0 .. 1 /\ 1 \in 0 .. 1
      OBVIOUS
    <3>3. made[2 * i + 0][x] = b[x] /\ made[2 * i + 1][x] = b[x]
      BY <2>2, <3>1, <3>2, Zenon
    <3> QED BY <3>1, <3>3, Zenon
  <2>9. ASSUME NEW j \in DOMAIN made
        PROVE  /\ made[j] \in Seq(Byte) /\ Len(made[j]) = OnionLen
               /\ \A x \in DOMAIN made[j] : \E y \in DOMAIN b : made[j][x] = b[y]
    <3>1. PICK o \in 0 .. 1 : j = 2 * i + o
      BY <2>3, Zenon
    <3>2. made[j] \in Seq(Byte) /\ Len(made[j]) = OnionLen /\ DOMAIN made[j] = 1 .. OnionLen
      BY <2>2, <2>6, <3>1, Zenon
    <3>3. \A x \in 1 .. OnionLen : made[j][x] = b[Src(o, x)] /\ Src(o, x) \in DOMAIN b
      BY <2>2, <2>7, <3>1, Zenon
    <3> QED BY <3>2, <3>3, Zenon
  <2>10. ASSUME NEW j \in DOMAIN made, NEW k \in DOMAIN made,
                NEW x \in DOMAIN made[j], NEW y \in DOMAIN made[k],
                OwnPlace(j, x), OwnPlace(k, y), made[j][x] = made[k][y]
         PROVE  j = k /\ x = y
    <3>1. PICK o \in 0 .. 1 : j = 2 * i + o
      BY <2>3, Zenon
    <3>2. PICK q \in 0 .. 1 : k = 2 * i + q
      BY <2>3, Zenon
    <3>3. x \in 1 .. OnionLen /\ y \in 1 .. OnionLen
      BY <2>6, <3>1, <3>2, Zenon
    <3>4. b[Src(o, x)] = b[Src(q, y)]
      BY <2>2, <2>10, <3>1, <3>2, <3>3, Zenon
    <3>5. Src(o, x) = Src(q, y)
      BY <1>5, <2>7, <3>3, <3>4, Zenon
    <3>6. OwnPlace(2 * i + o, x) /\ OwnPlace(2 * i + q, y)
      BY <2>10, <3>1, <3>2, Zenon
    <3>7. o = q /\ x = y
      BY <1>1, <1>6, <3>3, <3>5, <3>6, SrcApart
    <3> QED BY <3>1, <3>2, <3>7, Zenon
  <2>11. DOMAIN made = Slots(i)
    BY <1>6, <2>2, Zenon DEF Slots
  <2>12. Complete(made) /\ BytesFrom(made, b)
    BY <2>9, Zenon DEF Complete, BytesFrom
  <2>13. NoRepeat(made)
    BY <2>10 DEF NoRepeat
  <2> QED BY <2>4, <2>8, <2>11, <2>12, <2>13, Zenon DEF OnionsOf
<1>7. CASE kind # "doubles"
  <2>1. made = [j \in {i} |-> b]
    BY <1>7, Zenon DEF Made
  <2>2. DOMAIN made = {i} /\ made[i] = b
    BY <2>1, Zenon
  <2>3. DOMAIN made \subseteq 0 .. Size - 1
    BY <1>1, <1>7, <2>2 DEF Size
  <2>4. Len(b) = OnionLen
    <3>1. kind = "singles" \/ kind = "introductions"
      BY <1>2, <1>7 DEF Reads
    <3>2. Asked(kind, Len(Reads[kind])) =
              CASE kind = "singles"       -> DropLen + MsgLen + KeyLen
                [] kind = "doubles"       -> DropLen + 2 * MsgLen + 2 * KeyLen
                [] kind = "introductions" -> MsgLen + KeyLen
      BY <1>2, ReadsAsked, Zenon
    <3> QED BY <1>4, <3>1, <3>2, Lengths DEF OnionLen
  <2>5. \A j \in DOMAIN made : j = i
    BY <2>2, Zenon
  <2>6. DOMAIN made = Slots(i)
    BY <1>7, <2>2, Zenon DEF Slots
  <2>7. Complete(made) /\ BytesFrom(made, b)
    BY <1>2, <2>2, <2>4, <2>5, Zenon DEF Complete, BytesFrom
  <2>8. NoRepeat(made)
    <3>1. \A x, y \in DOMAIN made[i] : made[i][x] = made[i][y] => x = y
      BY <1>5, <2>2
    <3>2. ASSUME NEW j \in DOMAIN made, NEW k \in DOMAIN made,
                 NEW x \in DOMAIN made[j], NEW y \in DOMAIN made[k], made[j][x] = made[k][y]
          PROVE  j = k /\ x = y
      <4>1. j = i /\ k = i
        BY <2>5, Zenon
      <4> QED BY <3>1, <3>2, <4>1, Zenon
    <3> QED BY <3>2 DEF NoRepeat
  <2> QED BY <1>7, <2>3, <2>6, <2>7, <2>8, Zenon DEF OnionsOf
<1> QED BY <1>6, <1>7, Zenon

LEMMA BodyEndKeeps ==
  ASSUME NoiseInv, NEW w \in Worker, BodyEnd(w)
  PROVE  FakesInv'
<1>1. PICK i : i = item[w]
  BY Zenon
<1>2. PICK b : b = got[w]
  BY Zenon
<1>3. PICK made : made = Made(i, b)
  BY Zenon
<1>4. OnionsOf(made, i, b)
  BY <1>1, <1>2, <1>3, MadeOnions, Zenon
<1>5. /\ UNCHANGED <<n, kind, used, reader, left, nonce, on>>
      /\ i # None /\ reader[w] = "idle"
      /\ runs' = [runs EXCEPT ![i] = runs[i] + 1]
      /\ item' = [item EXCEPT ![w] = None]
      /\ dest' = [j \in DOMAIN dest |-> IF j \in DOMAIN made THEN made[j] ELSE dest[j]]
      /\ got' = [got EXCEPT ![w] = <<>>]
      /\ reads' = [reads EXCEPT ![w] = 0]
  BY <1>1, <1>2, <1>3, Zenon DEF BodyEnd, Body, randVars
<1>6. /\ reads \in [Worker -> Nat] /\ item \in [Worker -> Index \cup {None}]
      /\ got \in [Worker -> Seq(Byte)] /\ dest \in [0 .. Size - 1 -> Seq(Byte)]
      /\ kind \in DOMAIN Reads /\ runs \in [Index -> Nat] /\ left \in [Worker -> Nat]
      /\ DOMAIN dest = 0 .. Size - 1 /\ Size' = Size
  BY <1>5, Workers, Zenon DEF NoiseInv, FakesInv, NoiseTypes, TypeOK, RandInv, RandTypeOK, Size
<1>7. <<>> \in Seq(Byte) /\ Len(<<>>) = 0 /\ DOMAIN <<>> = {}
  OBVIOUS
<1>8. /\ DOMAIN made = Slots(i) /\ DOMAIN made \subseteq DOMAIN dest
      /\ Complete(made) /\ BytesFrom(made, b) /\ NoRepeat(made)
      /\ kind = "doubles" => \A x \in 1 .. DropLen : made[2 * i + 1][x] = made[2 * i][x]
  BY <1>4, <1>6, Zenon DEF OnionsOf
<1>9. /\ DOMAIN dest' = DOMAIN dest
      /\ \A j \in DOMAIN made : dest'[j] = made[j]
      /\ \A j \in DOMAIN dest : j \notin DOMAIN made => dest'[j] = dest[j]
  BY <1>5, <1>8, Zenon
<1>10. /\ got'[w] = <<>> /\ reads'[w] = 0 /\ item'[w] = None
       /\ \A v \in Worker : v # w =>
            got'[v] = got[v] /\ reads'[v] = reads[v] /\ item'[v] = item[v]
  BY <1>5, <1>6, Zenon
<1>11. NoiseTypes'
  <2>1. reads' \in [Worker -> Nat]
    BY <1>5, <1>6
  <2>2. got' \in [Worker -> Seq(Byte)]
    BY <1>5, <1>6, <1>7, Zenon
  <2>3. \A j \in DOMAIN dest : dest'[j] \in Seq(Byte)
    BY <1>6, <1>8, <1>9, Zenon DEF Complete
  <2>4. dest' \in [0 .. Size - 1 -> Seq(Byte)]
    BY <1>5, <1>6, <2>3, Zenon
  <2> QED BY <1>5, <1>6, <2>1, <2>2, <2>4, Zenon DEF NoiseTypes
<1>12. \A v \in Worker : BodyInv(v)'
  <2> SUFFICES ASSUME NEW v \in Worker PROVE BodyInv(v)'
    BY Zenon
  <2>1. BodyInv(v)
    BY Zenon DEF NoiseInv, FakesInv
  <2>2. CASE v # w
    BY <1>5, <1>10, <2>1, <2>2, Zenon DEF BodyInv, Asked
  <2>3. CASE v = w
    <3>1. left[w] = 0
      BY <1>5, <2>1, <2>3, Zenon DEF BodyInv
    <3>2. Len(Reads[kind]) \in Nat /\ Asked(kind, 0) = 0
      BY <1>6, ReadsAsked, Zenon
    <3>3. 0 <= Len(Reads[kind]) /\ 0 + 0 = 0
      BY <3>2
    <3>4. Len(got'[w]) + left'[w] = Asked(kind, 0)
      BY <1>5, <1>7, <1>10, <3>1, <3>2, <3>3, Zenon
    <3>5. Asked(kind, reads[w])' = Asked(kind, 0)
      BY <1>5, <1>10, Zenon DEF Asked
    <3> QED BY <1>5, <1>10, <2>3, <3>1, <3>3, <3>4, <3>5, Zenon DEF BodyInv
  <2> QED BY <2>2, <2>3, Zenon
<1>13. i \in Index /\ i \in Nat /\ \A k \in Index : k \in Nat
  <2>1. i \in Index
    BY <1>1, <1>5, <1>6, Zenon
  <2> QED BY <2>1, LoopAssumption DEF Index, LoopAssumption
<1>14. ASSUME NEW k \in Index, k < n, runs'[k] = 1 PROVE Filled(k)'
  <2>1. CASE k = i
    <3>1. CASE kind = "doubles"
      <4>1. 2 * i \in DOMAIN made /\ 2 * i + 1 \in DOMAIN made
        BY <1>8, <3>1, Zenon DEF Slots
      <4>2. /\ Len(dest'[2 * i]) = OnionLen /\ Len(dest'[2 * i + 1]) = OnionLen
            /\ \A x \in 1 .. DropLen : dest'[2 * i + 1][x] = dest'[2 * i][x]
        BY <1>8, <1>9, <3>1, <4>1, Zenon DEF Complete
      <4> QED BY <1>5, <2>1, <3>1, <4>2, Zenon DEF Filled, OnionLen
    <3>2. CASE kind # "doubles"
      <4>1. i \in DOMAIN made
        BY <1>8, <3>2, Zenon DEF Slots
      <4>2. Len(dest'[i]) = OnionLen
        BY <1>8, <1>9, <4>1, Zenon DEF Complete
      <4> QED BY <1>5, <2>1, <3>2, <4>2, Zenon DEF Filled, OnionLen
    <3> QED BY <3>1, <3>2, Zenon
  <2>2. CASE k # i
    <3>1. runs[k] = 1
      BY <1>5, <1>6, <1>14, <2>2, Zenon
    <3>2. Filled(k)
      BY <1>14, <3>1, Zenon DEF NoiseInv, FakesInv
    <3>3. k \in Nat /\ n \in Nat
      BY <1>13, LoopAssumption DEF NoiseInv, TypeOK, LoopAssumption
    <3>4. CASE kind = "doubles"
      <4>1. /\ 2 * k \in 0 .. Size - 1 /\ 2 * k + 1 \in 0 .. Size - 1
            /\ 2 * k \notin {2 * i, 2 * i + 1} /\ 2 * k + 1 \notin {2 * i, 2 * i + 1}
        BY <1>13, <1>14, <2>2, <3>3, <3>4 DEF Size
      <4>2. dest'[2 * k] = dest[2 * k] /\ dest'[2 * k + 1] = dest[2 * k + 1]
        BY <1>6, <1>8, <1>9, <3>4, <4>1, Zenon DEF Slots
      <4> QED BY <1>5, <3>2, <3>4, <4>2, Zenon DEF Filled, OnionLen
    <3>5. CASE kind # "doubles"
      <4>1. k \in 0 .. Size - 1 /\ k \notin {i}
        BY <1>14, <2>2, <3>3, <3>5 DEF Size
      <4>2. dest'[k] = dest[k]
        BY <1>6, <1>8, <1>9, <3>5, <4>1, Zenon DEF Slots
      <4> QED BY <1>5, <3>2, <3>5, <4>2, Zenon DEF Filled, OnionLen
    <3> QED BY <3>4, <3>5, Zenon
  <2> QED BY <2>1, <2>2, Zenon
<1>15. OnlyUsed /\ Apart
  BY Zenon DEF NoiseInv, FakesInv
<1>16. OnlyUsed'
  <2>1. ASSUME NEW v \in Worker PROVE \A x \in DOMAIN got'[v] : got'[v][x] \in used'
    <3>1. CASE v = w
      BY <1>7, <1>10, <3>1, Zenon
    <3>2. CASE v # w
      BY <1>5, <1>10, <1>15, <3>2 DEF OnlyUsed
    <3> QED BY <3>1, <3>2, Zenon
  <2>2. ASSUME NEW j \in DOMAIN dest' PROVE \A x \in DOMAIN dest'[j] : dest'[j][x] \in used'
    <3>1. CASE j \in DOMAIN made
      <4>1. \A y \in DOMAIN b : b[y] \in used
        BY <1>2, <1>15, Zenon DEF OnlyUsed
      <4>2. dest'[j] = made[j] /\ \A x \in DOMAIN made[j] : \E y \in DOMAIN b : made[j][x] = b[y]
        BY <1>8, <1>9, <3>1, Zenon DEF BytesFrom
      <4> QED BY <1>5, <4>1, <4>2, Zenon
    <3>2. CASE j \notin DOMAIN made
      <4>1. j \in DOMAIN dest /\ dest'[j] = dest[j] /\ used' = used
        BY <1>5, <1>9, <3>2, Zenon
      <4>2. \A x \in DOMAIN dest[j] : dest[j][x] \in used
        BY <1>15, <4>1, Zenon DEF OnlyUsed
      <4> QED BY <4>1, <4>2, Zenon
    <3> QED BY <3>1, <3>2, Zenon
  <2> QED BY <2>1, <2>2, Zenon DEF OnlyUsed
<1>17. Apart'
  <2>a. ASSUME NEW j \in DOMAIN made, NEW x \in DOMAIN dest'[j]
        PROVE  dest'[j] = made[j] /\ \E z \in DOMAIN b : dest'[j][x] = b[z]
    <3>1. dest'[j] = made[j] /\ x \in DOMAIN made[j]
      BY <1>9, <2>a, Zenon
    <3> QED BY <1>8, <3>1, Zenon DEF BytesFrom
  <2>b. \A z \in DOMAIN b : \A k \in DOMAIN dest : \A y \in DOMAIN dest[k] : b[z] # dest[k][y]
    BY <1>2, <1>15 DEF Apart
  <2>1. ASSUME NEW u \in Worker, NEW v \in Worker,
               NEW x \in DOMAIN got'[u], NEW y \in DOMAIN got'[v], got'[u][x] = got'[v][y]
        PROVE  u = v /\ x = y
    <3>1. u # w /\ v # w
      BY <1>7, <1>10, Zenon
    <3> QED BY <1>10, <1>15, <2>1, <3>1 DEF Apart
  <2>2. ASSUME NEW u \in Worker, NEW j \in DOMAIN dest',
               NEW x \in DOMAIN got'[u], NEW y \in DOMAIN dest'[j]
        PROVE  got'[u][x] # dest'[j][y]
    <3>1. u # w
      BY <1>7, <1>10, Zenon
    <3>2. got'[u] = got[u]
      BY <1>10, <3>1, Zenon
    <3>3. CASE j \in DOMAIN made
      <4>1. PICK z \in DOMAIN b : dest'[j][y] = b[z]
        BY <2>a, <3>3, Zenon
      <4>2. \A a \in DOMAIN got[u] : got[u][a] # got[w][z]
        BY <1>2, <1>15, <3>1, <4>1 DEF Apart
      <4> QED BY <1>2, <3>2, <4>1, <4>2, Zenon
    <3>4. CASE j \notin DOMAIN made
      <4>1. j \in DOMAIN dest /\ dest'[j] = dest[j]
        BY <1>9, <3>4, Zenon
      <4> QED BY <1>15, <3>2, <4>1 DEF Apart
    <3> QED BY <3>3, <3>4, Zenon
  <2>3. \A j, x : OwnPlace(j, x)' <=> OwnPlace(j, x)
    BY <1>5, Zenon DEF OwnPlace
  <2>4. ASSUME NEW j \in DOMAIN dest', NEW k \in DOMAIN dest',
               NEW x \in DOMAIN dest'[j], NEW y \in DOMAIN dest'[k],
               OwnPlace(j, x), OwnPlace(k, y), dest'[j][x] = dest'[k][y]
        PROVE  j = k /\ x = y
    <3>1. CASE j \in DOMAIN made /\ k \in DOMAIN made
      BY <1>8, <1>9, <2>4, <3>1 DEF NoRepeat
    <3>2. CASE j \in DOMAIN made /\ k \notin DOMAIN made
      <4>1. PICK z \in DOMAIN b : dest'[j][x] = b[z]
        BY <2>a, <3>2, Zenon
      <4>2. k \in DOMAIN dest /\ dest'[k] = dest[k] /\ y \in DOMAIN dest[k]
        BY <1>9, <2>4, <3>2, Zenon
      <4> QED BY <2>b, <2>4, <4>1, <4>2, Zenon
    <3>3. CASE j \notin DOMAIN made /\ k \in DOMAIN made
      <4>1. PICK z \in DOMAIN b : dest'[k][y] = b[z]
        BY <2>a, <3>3, Zenon
      <4>2. j \in DOMAIN dest /\ dest'[j] = dest[j] /\ x \in DOMAIN dest[j]
        BY <1>9, <2>4, <3>3, Zenon
      <4> QED BY <2>b, <2>4, <4>1, <4>2, Zenon
    <3>4. CASE j \notin DOMAIN made /\ k \notin DOMAIN made
      BY <1>9, <1>15, <2>4, <3>4 DEF Apart
    <3> QED BY <3>1, <3>2, <3>3, <3>4, Zenon
  <2> QED BY <2>1, <2>2, <2>3, <2>4 DEF Apart
<1> QED BY <1>5, <1>11, <1>12, <1>14, <1>16, <1>17, Zenon DEF FakesInv

\* The invariant holds at the start.
LEMMA InitNoise == NoiseInit => NoiseInv
<1> SUFFICES ASSUME NoiseInit PROVE NoiseInv
  BY Zenon
<1>1. /\ TypeOK /\ LoopInv /\ RandInv /\ kind \in DOMAIN Reads
      /\ reads = [w \in Worker |-> 0] /\ got = [w \in Worker |-> <<>>]
      /\ dest = [i \in 0 .. Size - 1 |-> <<>>]
      /\ item = [w \in Worker |-> None] /\ runs = [i \in Index |-> 0]
      /\ reader = [w \in Worker |-> "idle"] /\ left = [w \in Worker |-> 0]
  BY InitLoop, InitRand, Workers, Zenon DEF NoiseInit, Init, RandInit
<1>2. <<>> \in Seq(Byte) /\ Len(<<>>) = 0 /\ DOMAIN <<>> = {} /\ 0 + 0 = 0 /\ 0 # 1 /\ 0 \in Nat
  OBVIOUS
<1>3. NoiseTypes
  BY <1>1, <1>2, Zenon DEF NoiseTypes
<1>4. \A w \in Worker : BodyInv(w)
  <2>1. Len(Reads[kind]) \in Nat /\ Asked(kind, 0) = 0
    BY <1>1, ReadsAsked, Zenon
  <2>2. 0 <= Len(Reads[kind])
    BY <2>1
  <2> QED BY <1>1, <1>2, <2>1, <2>2, Zenon DEF BodyInv
<1>5. \A i \in Index : i < n /\ runs[i] = 1 => Filled(i)
  BY <1>1, <1>2, Zenon
<1>6. OnlyUsed
  BY <1>1, <1>2, Zenon DEF OnlyUsed
<1>7. Apart
  BY <1>1, <1>2, Zenon DEF Apart
<1> QED BY <1>1, <1>3, <1>4, <1>5, <1>6, <1>7, Zenon DEF NoiseInv, FakesInv

\* Every step of the composition keeps it.
LEMMA NextNoise == NoiseInv /\ [NoiseNext]_allVars => NoiseInv'
<1> SUFFICES ASSUME NoiseInv, [NoiseNext]_allVars PROVE NoiseInv'
  BY Zenon
<1>1. TypeOK' /\ LoopInv' /\ RandInv'
  BY StepsProject, NextLoop, NextRand, Zenon DEF NoiseInv
<1>2. CASE UNCHANGED allVars
  <2>1. UNCHANGED <<n, runs, item, kind, used, got, dest, reads, reader, left>>
    BY <1>2, Zenon DEF allVars, vars, randVars, noiseVars
  <2>2. \A v \in Worker : BodyInv(v)'
    BY <2>1, Zenon DEF NoiseInv, FakesInv, BodyInv, Asked
  <2>3. reads' \in [Worker -> Nat]
    BY <2>1, Zenon DEF NoiseInv, FakesInv, NoiseTypes
  <2>4. FakesInv'
    BY <2>1, <2>2, <2>3, NoBytesMoved, Zenon DEF NoiseInv
  <2> QED BY <1>1, <2>4, Zenon DEF NoiseInv
<1>3. ASSUME NEW w \in Worker, NoiseWorker(w) PROVE NoiseInv'
  BY <1>1, <1>3, LoopKeeps, BodyReadKeeps, BodyCopyKeeps, BodyReadingKeeps, BodyEndKeeps, Zenon
    DEF NoiseWorker, NoiseInv
<1>4. CASE Return
  BY <1>1, <1>4, ReturnKeeps, Zenon DEF NoiseInv
<1> QED BY <1>2, <1>3, <1>4, Zenon DEF NoiseNext

\* Filling in noise is a run of ParallelFor and, at the same time, a run of
\* rand.Reader.
THEOREM NoiseComposes == NoiseSpec => Spec /\ RandSpec
<1>1. NoiseInit => Init /\ RandInit
  BY Zenon DEF NoiseInit
<1>2. NoiseInv /\ [NoiseNext]_allVars => [Next]_vars /\ [RandNext]_randVars
  BY StepsProject, Zenon
<1> QED BY <1>1, <1>2, InitNoise, NextNoise, PTL DEF NoiseSpec, Spec, RandSpec

\* What ParallelFor and rand.Reader promise holds while noise is filled in.
THEOREM NoiseParts == NoiseSpec => [](EachOnce /\ AllDone /\ NoByteTwice)
BY NoiseComposes, IndexOnce, LoopComplete, FreshBytes, PTL

\* Two sequences with the same prefix.
LEMMA SamePrefix ==
  ASSUME NEW S, NEW b \in Seq(S), NEW c \in Seq(S), NEW l \in Nat,
         l <= Len(b), l <= Len(c), \A x \in 1 .. l : b[x] = c[x]
  PROVE  SubSeq(b, 1, l) = SubSeq(c, 1, l)
OBVIOUS

\* When the slices are filled, every slot has a complete onion, the onions of
\* a pair share their dead drop and nothing else, and no two others share a
\* byte: for every number of workers and onions, every buffer length and all
\* lengths of the parts.
THEOREM FakesDiffer == NoiseSpec => []FakesApart
<1>1. NoiseInv /\ AllDone => FakesApart
  <2> SUFFICES ASSUME NoiseInv, AllDone, main = "returned" PROVE FakesApart
    BY Zenon DEF FakesApart
  <2>1. /\ n \in Nat /\ n <= MaxN /\ dest \in [0 .. Size - 1 -> Seq(Byte)]
        /\ DOMAIN dest = 0 .. Size - 1 /\ Apart
    <3>1. n \in 0 .. MaxN /\ dest \in [0 .. Size - 1 -> Seq(Byte)] /\ Apart
      BY Zenon DEF NoiseInv, TypeOK, FakesInv, NoiseTypes
    <3>2. n \in Nat /\ n <= MaxN
      BY <3>1, LoopAssumption DEF LoopAssumption
    <3> QED BY <3>1, <3>2, Zenon
  <2>2. \A i \in Nat : i < n => Filled(i)
    <3> SUFFICES ASSUME NEW i \in Nat, i < n PROVE Filled(i)
      BY Zenon
    <3>1. i \in Index
      BY <2>1, LoopAssumption DEF Index, LoopAssumption
    <3>2. runs[i] = 1
      BY <3>1, Zenon DEF AllDone
    <3> QED BY <3>1, <3>2, Zenon DEF NoiseInv, FakesInv
  <2>3. DropLen \in Nat /\ OnionLen \in Nat /\ (kind = "doubles" => DropLen <= OnionLen)
    BY Lengths DEF OnionLen
  <2>4. ASSUME NEW j \in DOMAIN dest
        PROVE  /\ Len(dest[j]) = OnionLen
               /\ kind = "doubles" /\ j % 2 = 1 =>
                    SubSeq(dest[j], 1, DropLen) = SubSeq(dest[j - 1], 1, DropLen)
    <3>1. CASE kind # "doubles"
      <4>1. j \in Nat /\ j < n
        BY <2>1, <3>1 DEF Size
      <4> QED BY <2>2, <3>1, <4>1, Zenon DEF Filled
    <3>2. CASE kind = "doubles"
      <4>1. j \in Nat
        BY <2>1
      <4>2. PICK i \in Nat : j = 2 * i \/ j = 2 * i + 1
        BY <4>1, Halves, Zenon
      <4>3. i < n
        BY <2>1, <3>2, <4>2 DEF Size
      <4>4. /\ Len(dest[2 * i]) = OnionLen /\ Len(dest[2 * i + 1]) = OnionLen
            /\ \A x \in 1 .. DropLen : dest[2 * i + 1][x] = dest[2 * i][x]
        BY <2>2, <3>2, <4>3, Zenon DEF Filled
      <4>5. 2 * i \in DOMAIN dest /\ 2 * i + 1 \in DOMAIN dest
        BY <2>1, <3>2, <4>3 DEF Size
      <4>6. dest[2 * i] \in Seq(Byte) /\ dest[2 * i + 1] \in Seq(Byte)
        BY <2>1, <4>5, Zenon
      <4>7. DropLen <= Len(dest[2 * i]) /\ DropLen <= Len(dest[2 * i + 1])
        BY <2>3, <3>2, <4>4, Zenon
      <4>8. SubSeq(dest[2 * i + 1], 1, DropLen) = SubSeq(dest[2 * i], 1, DropLen)
        BY <2>3, <4>4, <4>6, <4>7, SamePrefix, Zenon
      <4>9. j % 2 = 1 => j = 2 * i + 1 /\ j - 1 = 2 * i
        BY <4>2
      <4> QED BY <4>2, <4>4, <4>8, <4>9, Zenon
    <3> QED BY <3>1, <3>2, Zenon
  <2> DEFINE Paired(i) == kind = "doubles" /\ i % 2 = 1
             Own(i) == IF Paired(i) THEN DropLen + 1 .. Len(dest[i]) ELSE 1 .. Len(dest[i])
  <2>5. ASSUME NEW i \in DOMAIN dest, NEW x \in Own(i)
        PROVE  x \in DOMAIN dest[i] /\ OwnPlace(i, x)
    <3>1. DOMAIN dest[i] = 1 .. OnionLen /\ Len(dest[i]) = OnionLen
      BY <2>1, <2>4
    <3>2. CASE kind = "doubles" /\ i % 2 = 1
      <4>1. x \in DropLen + 1 .. OnionLen
        BY <2>5, <3>1, <3>2, Zenon
      <4>2. x \in 1 .. OnionLen /\ x > DropLen
        BY <2>3, <4>1
      <4> QED BY <3>1, <4>2, Zenon DEF OwnPlace
    <3>3. CASE ~(kind = "doubles" /\ i % 2 = 1)
      BY <2>5, <3>1, <3>3, Zenon DEF OwnPlace
    <3> QED BY <3>2, <3>3, Zenon
  <2>6. \A i, j \in DOMAIN dest : \A x \in DOMAIN dest[i], y \in DOMAIN dest[j] :
          OwnPlace(i, x) /\ OwnPlace(j, y) /\ dest[i][x] = dest[j][y] => i = j /\ x = y
    BY <2>1, Zenon DEF Apart
  <2>7. \A i, j \in DOMAIN dest : \A x \in Own(i), y \in Own(j) :
          dest[i][x] = dest[j][y] => i = j /\ x = y
    <3> HIDE DEF Paired, Own
    <3> QED BY <2>5, <2>6, Zenon
  <2>8. \A i \in DOMAIN dest :
          Len(dest[i]) = MsgLen + KeyLen + (IF kind = "introductions" THEN 0 ELSE DropLen)
    BY <2>4, Zenon DEF OnionLen
  <2>9. \A i \in DOMAIN dest :
           Paired(i) => SubSeq(dest[i], 1, DropLen) = SubSeq(dest[i - 1], 1, DropLen)
    BY <2>4, Zenon
  <2>10. /\ \A i \in DOMAIN dest :
              /\ Len(dest[i]) = MsgLen + KeyLen + (IF kind = "introductions" THEN 0 ELSE DropLen)
              /\ Paired(i) => SubSeq(dest[i], 1, DropLen) = SubSeq(dest[i - 1], 1, DropLen)
         /\ \A i, j \in DOMAIN dest : \A x \in Own(i), y \in Own(j) :
              dest[i][x] = dest[j][y] => i = j /\ x = y
    <3> HIDE DEF Paired, Own
    <3> QED BY <2>7, <2>8, <2>9, Zenon
  <2> QED BY <2>10, Zenon DEF FakesApart
<1> QED BY <1>1, InitNoise, NextNoise, NoiseParts, PTL DEF NoiseSpec

=============================================================================
