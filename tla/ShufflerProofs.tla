--------------------------- MODULE ShufflerProofs ---------------------------
(***************************************************************************)
(* Shuffle permutes the batch and Unshuffle undoes it, for batches of      *)
(* every length and every outcome of the random draws, and Intn draws      *)
(* every number equally often.                                             *)
(***************************************************************************)
EXTENDS Shuffler, FiniteSetTheorems, TLAPS

\* The batch y with every onion replaced by its reply.
Answered(y) == [k \in Place |-> Reply(y[k])]

\* Iteration k of Shuffle has been executed.
Shuffled(k) == pc # "drawing" /\ (pc = "shuffling" => k < i)

(***************************************************************************)
(* The inductive invariant: hist records the run of Shuffle, x is its      *)
(* current entry on the way out, and the answered entry on the way back.   *)
(***************************************************************************)
ShuffleInv ==
  /\ hist[0] = [k \in Place |-> k]
  /\ \A k \in Place : Shuffled(k) => hist[k + 1] = Swapped(hist[k], k, p[k])
  /\ pc = "drawing" => x = hist[0]
  /\ pc = "shuffling" => x = hist[i]
  /\ pc = "unshuffling" => x = Answered(hist[i])
  /\ pc = "done" => x = Answered(hist[0])
  /\ OnePlaceEach

\* A swap keeps the type of the batch and the onions apart.
LEMMA SwapInjective ==
  ASSUME NEW S, NEW y \in [S -> Int], NEW a \in S, NEW b \in S,
         \A c, d \in S : y[c] = y[d] => c = d
  PROVE  /\ Swapped(y, a, b) \in [S -> Int]
         /\ \A c, d \in S : Swapped(y, a, b)[c] = Swapped(y, a, b)[d] => c = d
BY DEF Swapped

\* Swapping the answers of a swapped batch gives the answers of the batch.
LEMMA SwapUndone ==
  ASSUME n \in Nat, NEW y \in [Place -> Int], NEW a \in Place, NEW b \in Place
  PROVE  Swapped(Answered(Swapped(y, a, b)), a, b) = Answered(y)
BY DEF Swapped, Answered

\* The invariant holds before the first draw.
LEMMA InitShuffle == Init => TypeOK /\ ShuffleInv
<1> SUFFICES ASSUME Init PROVE TypeOK /\ ShuffleInv
  OBVIOUS
<1>1. TypeOK
  BY ShufflerAssumption DEF Init, TypeOK, Place, ShufflerAssumption
<1> QED BY <1>1 DEF Init, ShuffleInv, Shuffled, OnePlaceEach, Place, TypeOK

\* A draw of Intn stays within the places up to its own.
LEMMA DrawStep ==
  ASSUME TypeOK, ShuffleInv, Draw
  PROVE  TypeOK' /\ ShuffleInv'
<1> USE ShufflerAssumption DEF ShufflerAssumption, Place, TypeOK
<1>1. PICK r \in 0 .. Max : p' = [p EXCEPT ![i] = r % Bound]
  BY DEF Draw
<1>2. PICK d \in 0 .. i : p' = [p EXCEPT ![i] = d]
  <2>1. i \in Nat /\ r \in Int
    OBVIOUS
  <2>2. r % (i + 1) \in 0 .. i
    BY ONLY <2>1, SMT
  <2> QED BY <1>1, <2>2 DEF Bound
<1>3. n' = n /\ pc' = "drawing" /\ i' = i + 1 /\ x' = x /\ hist' = hist
      /\ pc = "drawing" /\ i < n
  BY DEF Draw
<1>4. TypeOK'
  <2>1. i \in Place /\ d \in Place /\ d <= i
    BY <1>3
  <2>2. p' \in [Place -> Place] /\ \A k \in Place : p'[k] <= k
    BY <1>2, <2>1
  <2> QED BY <2>2, <1>3
<1>5. \A k \in Place' : ~Shuffled(k)'
  BY <1>3 DEF Shuffled
<1> QED BY <1>3, <1>4, <1>5 DEF ShuffleInv, OnePlaceEach

\* Shuffle starts from the batch as it came in.
LEMMA StartStep ==
  ASSUME TypeOK, ShuffleInv, StartShuffle
  PROVE  TypeOK' /\ ShuffleInv'
<1> USE DEF Place, TypeOK
<1>1. TypeOK'
  BY DEF StartShuffle
<1>2. \A k \in Place' : ~Shuffled(k)'
  BY DEF Shuffled, StartShuffle
<1> QED BY <1>1, <1>2 DEF StartShuffle, ShuffleInv, OnePlaceEach

\* An iteration of Shuffle is recorded as a swap of the entry before.
LEMMA ShuffleStep ==
  ASSUME TypeOK, ShuffleInv, Shuffle
  PROVE  TypeOK' /\ ShuffleInv'
<1>1. n' = n /\ pc' = pc /\ p' = p /\ pc = "shuffling" /\ i' = i + 1 /\ i < n
      /\ x' = Swapped(x, i, p[i]) /\ hist' = [hist EXCEPT ![i + 1] = x']
  BY DEF Shuffle
<1>2. n \in Nat /\ i \in Place /\ p[i] \in Place /\ i + 1 \in 0 .. n
  BY <1>1 DEF TypeOK, Place
<1>3. x' \in [Place -> Int] /\ \A a, b \in Place : x'[a] = x'[b] => a = b
  <2>1. x \in [Place -> Int] /\ \A a, b \in Place : x[a] = x[b] => a = b
    BY DEF TypeOK, ShuffleInv, OnePlaceEach
  <2> QED BY <1>1, <1>2, <2>1, SwapInjective
<1>4. Place' = Place
  BY <1>1 DEF Place
<1>5. TypeOK'
  BY <1>1, <1>2, <1>3, <1>4 DEF TypeOK
<1>6. hist'[i + 1] = x' /\ \A k \in 0 .. n : k # i + 1 => hist'[k] = hist[k]
  <2>1. hist \in [0 .. n -> [Place -> Int]]
    BY DEF TypeOK
  <2>2. hist' = [hist EXCEPT ![i + 1] = x'] /\ i + 1 \in 0 .. n
    BY <1>1, <1>2
  <2> DEFINE D == 0 .. n
             R == [Place -> Int]
             j == i + 1
  <2>3. hist \in [D -> R] /\ hist' = [hist EXCEPT ![j] = x'] /\ j \in D
    BY <2>1, <2>2
  <2> HIDE DEF D, R, j
  <2>4. hist'[j] = x' /\ \A k \in D : k # j => hist'[k] = hist[k]
    BY <2>3
  <2> QED BY <2>4 DEF D, j
<1>7. hist'[0] = [k \in Place' |-> k]
  <2>1. 0 \in 0 .. n /\ 0 # i + 1
    BY <1>2 DEF Place
  <2>2. hist'[0] = hist[0]
    BY <2>1, <1>6
  <2> QED BY <2>2, <1>4 DEF ShuffleInv
<1>8. ASSUME NEW k \in Place, Shuffled(k)'
      PROVE  hist'[k + 1] = Swapped(hist'[k], k, p'[k])
  <2>1. k < i + 1 /\ k \in 0 .. n /\ k + 1 \in 0 .. n /\ k # i + 1
    BY <1>1, <1>2, <1>8 DEF Shuffled, Place
  <2>2. CASE k = i
    BY <2>1, <2>2, <1>1, <1>6 DEF ShuffleInv
  <2>3. CASE k # i
    <3>1. k + 1 # i + 1 /\ k < i
      BY <2>1, <2>3, <1>2 DEF Place
    <3>2. hist[k + 1] = Swapped(hist[k], k, p[k])
      BY <3>1, <1>1 DEF ShuffleInv, Shuffled
    <3> QED BY <3>1, <3>2, <2>1, <1>1, <1>6
  <2> QED BY <2>2, <2>3
<1> QED
  BY <1>1, <1>3, <1>4, <1>5, <1>6, <1>7, <1>8 DEF ShuffleInv, OnePlaceEach

\* The replies are the answered batch that Shuffle left.
LEMMA RepliesStep ==
  ASSUME TypeOK, ShuffleInv, Replies
  PROVE  TypeOK' /\ ShuffleInv'
<1>1. n' = n /\ p' = p /\ hist' = hist /\ i' = i /\ i = n
      /\ pc = "shuffling" /\ pc' = "unshuffling" /\ x' = Answered(x)
  BY DEF Replies, Answered
<1>2. Place' = Place
  BY <1>1 DEF Place
<1>3. TypeOK'
  BY <1>1, <1>2 DEF TypeOK, Answered, Reply
<1>4. \A k \in Place : Shuffled(k)
  BY <1>1 DEF Shuffled, Place, TypeOK
<1>5. \A a, b \in Place : x'[a] = x'[b] => a = b
  BY <1>1 DEF TypeOK, ShuffleInv, OnePlaceEach, Answered, Reply
<1>6. x' = Answered(hist[i])'
  BY <1>1, <1>2 DEF ShuffleInv, Answered
<1> QED
  BY <1>1, <1>2, <1>3, <1>4, <1>5, <1>6 DEF ShuffleInv, OnePlaceEach

\* An iteration of Unshuffle leads from a recorded batch to the one before.
LEMMA UnshuffleStep ==
  ASSUME TypeOK, ShuffleInv, Unshuffle
  PROVE  TypeOK' /\ ShuffleInv'
<1>1. n' = n /\ p' = p /\ hist' = hist /\ pc' = pc /\ pc = "unshuffling"
      /\ i' = i - 1 /\ i > 0 /\ x' = Swapped(x, i - 1, p[i - 1])
  BY DEF Unshuffle
<1>2. n \in Nat /\ i - 1 \in Place /\ p[i - 1] \in Place /\ i - 1 \in 0 .. n
  BY <1>1 DEF TypeOK, Place
<1>3. Place' = Place
  BY <1>1 DEF Place
<1>4. x' \in [Place -> Int] /\ \A a, b \in Place : x'[a] = x'[b] => a = b
  <2>1. x \in [Place -> Int] /\ \A a, b \in Place : x[a] = x[b] => a = b
    BY DEF TypeOK, ShuffleInv, OnePlaceEach
  <2> QED BY <1>1, <1>2, <2>1, SwapInjective
<1>5. TypeOK'
  BY <1>1, <1>2, <1>3, <1>4 DEF TypeOK
<1>6. hist[i] = Swapped(hist[i - 1], i - 1, p[i - 1])
  <2>1. Shuffled(i - 1)
    BY <1>1 DEF Shuffled
  <2>2. (i - 1) + 1 = i
    BY <1>1 DEF TypeOK
  <2> QED BY <2>1, <2>2, <1>2 DEF ShuffleInv
<1>7. x' = Answered(hist[i - 1])
  <2>1. x = Answered(Swapped(hist[i - 1], i - 1, p[i - 1]))
    BY <1>1, <1>6 DEF ShuffleInv
  <2>2. hist[i - 1] \in [Place -> Int]
    BY <1>2 DEF TypeOK
  <2> QED BY <2>1, <2>2, <1>1, <1>2, SwapUndone
<1>8. x' = Answered(hist[i])'
  BY <1>1, <1>3, <1>7 DEF Answered
<1>9. \A k \in Place : Shuffled(k)' <=> Shuffled(k)
  BY <1>1 DEF Shuffled
<1> QED
  BY <1>1, <1>3, <1>4, <1>5, <1>8, <1>9 DEF ShuffleInv, OnePlaceEach

\* Unshuffle ends at the first recorded batch.
LEMMA FinishStep ==
  ASSUME TypeOK, ShuffleInv, Finish
  PROVE  TypeOK' /\ ShuffleInv'
<1>1. n' = n /\ p' = p /\ hist' = hist /\ x' = x /\ i' = i /\ i = 0
      /\ pc = "unshuffling" /\ pc' = "done"
  BY DEF Finish
<1>2. Place' = Place
  BY <1>1 DEF Place
<1>3. TypeOK'
  BY <1>1, <1>2 DEF TypeOK
<1>4. \A k \in Place : Shuffled(k)' <=> Shuffled(k)
  BY <1>1 DEF Shuffled
<1>5. x' = Answered(hist[0])'
  BY <1>1, <1>2 DEF ShuffleInv, Answered
<1> QED BY <1>1, <1>2, <1>3, <1>4, <1>5 DEF ShuffleInv, OnePlaceEach

\* Every step keeps the invariant.
LEMMA NextShuffle ==
  TypeOK /\ ShuffleInv /\ [Next]_vars => TypeOK' /\ ShuffleInv'
<1> SUFFICES ASSUME TypeOK, ShuffleInv, [Next]_vars
             PROVE  TypeOK' /\ ShuffleInv'
  OBVIOUS
<1>1. CASE UNCHANGED vars
  <2>1. Place' = Place
    BY <1>1 DEF Place, vars
  <2>2. TypeOK'
    BY <1>1, <2>1 DEF TypeOK, vars
  <2>3. \A k \in Place : Shuffled(k)' <=> Shuffled(k)
    BY <1>1 DEF Shuffled, vars
  <2>4. Answered(hist[i])' = Answered(hist[i]) /\ Answered(hist[0])' = Answered(hist[0])
    BY <1>1, <2>1 DEF Answered, vars
  <2> QED BY <1>1, <2>1, <2>2, <2>3, <2>4 DEF ShuffleInv, OnePlaceEach, vars
<1> QED
  BY <1>1, DrawStep, StartStep, ShuffleStep, RepliesStep, UnshuffleStep,
     FinishStep DEF Next, Terminated

\* The loops of Shuffler keep the batch a rearrangement that hist explains.
THEOREM ShuffleInvariant == Spec => [](TypeOK /\ ShuffleInv)
BY InitShuffle, NextShuffle, PTL DEF Spec

\* Shuffle and Unshuffle lose and duplicate nothing, at any iteration.
THEOREM ShufflePermutes == Spec => []OnePlaceEach
BY ShuffleInvariant, PTL DEF ShuffleInv

\* Unshuffle is the inverse of Shuffle: every reply returns to the place its
\* onion came from.
THEOREM UnshuffleInverts == Spec => []RoundTrip
<1>1. ShuffleInv => RoundTrip
  BY DEF ShuffleInv, RoundTrip, Answered
<1> QED BY <1>1, ShuffleInvariant, PTL

-----------------------------------------------------------------------------
\* Intn

\* Division with remainder.
LEMMA DivMod ==
  ASSUME NEW m \in Nat, NEW b \in Nat \ {0}
  PROVE  /\ m \div b \in Nat /\ m % b \in 0 .. b - 1
         /\ m = b * (m \div b) + (m % b)
<1>1. m % b \in 0 .. b - 1
  OBVIOUS
<1>2. m \div b \in Int
  OBVIOUS
<1>3. m = b * (m \div b) + (m % b)
  BY SMTT(60)
<1>4. m \div b >= 0
  BY <1>1, <1>2, <1>3
<1> QED BY <1>1, <1>2, <1>3, <1>4

LEMMA Remainder ==
  ASSUME NEW q \in Nat, NEW b \in Nat \ {0}, NEW j \in 0 .. b - 1
  PROVE  b * q + j \in Nat /\ (b * q + j) % b = j
OBVIOUS

LEMMA Monotone ==
  ASSUME NEW a \in Nat, NEW c \in Nat, NEW b \in Nat, a < c
  PROVE  /\ b * a \in Nat /\ b * c \in Nat
         /\ b * a + b <= b * c
OBVIOUS

\* The numbers accepted for a bound b fill whole blocks of b numbers.
LEMMA WholeBlocks ==
  ASSUME NEW b \in Nat \ {0}, NEW q \in Nat, NEW j \in 0 .. b - 1
  PROVE  b * q + j < Max - (Max % b) <=> q < Max \div b
<1> DEFINE m == Max \div b
<1>1. m \in Nat /\ Max % b \in Nat /\ Max = b * m + (Max % b) /\ b * m \in Nat
  <2>1. Max \in Nat
    BY ShufflerAssumption, Zenon DEF ShufflerAssumption
  <2>2. m \in Nat /\ Max % b \in 0 .. b - 1 /\ Max = b * m + (Max % b)
    BY <2>1, DivMod, Zenon
  <2> HIDE DEF m
  <2> QED BY <2>1, <2>2
<1> HIDE DEF m
<1>2. Max - (Max % b) = b * m
  BY <1>1
<1>3. CASE q < m
  <2>1. b * q + b <= b * m /\ b * q \in Nat
    BY <1>1, <1>3, Monotone
  <2> QED BY <1>1, <1>2, <1>3, <2>1 DEF m
<1>4. CASE ~(q < m)
  <2>1. q = m \/ m < q
    BY <1>1, <1>4
  <2>2. b * q >= b * m /\ b * q \in Nat
    <3>1. CASE q = m
      BY <1>1, <3>1
    <3>2. CASE m < q
      BY <1>1, <3>2, Monotone
    <3> QED BY <2>1, <3>1, <3>2
  <2> QED BY <1>1, <1>2, <1>4, <2>2 DEF m
<1> QED BY <1>3, <1>4

\* Intn is unbiased for every bound that NewShuffler asks for and for every
\* size of the numbers it reads.
THEOREM Unbiased == Spec => []IntnUniform
<1>1. TypeOK => IntnUniform
  <2> SUFFICES ASSUME TypeOK, i < n, NEW j \in 0 .. i
               PROVE  Cardinality(Hits(j)) = Cardinality(Hits(0)) /\ Hits(j) # {}
    BY Zenon DEF IntnUniform
  <2> DEFINE b == Bound
  <2>1. b \in Nat \ {0} /\ b <= Max /\ Max \in Nat /\ j \in 0 .. b - 1 /\ 0 \in 0 .. b - 1
    BY ShufflerAssumption DEF ShufflerAssumption, TypeOK, Bound
  <2> HIDE DEF b
  <2>2. ASSUME NEW k \in 0 .. b - 1, NEW r
        PROVE  r \in Hits(k) <=> \E q \in Nat : q < Max \div b /\ r = b * q + k
    <3>1. ASSUME r \in Hits(k) PROVE \E q \in Nat : q < Max \div b /\ r = b * q + k
      <4>1. r \in 0 .. Max /\ r < Max - (Max % b) /\ r % b = k
        BY <3>1, Zenon DEF Hits, Accepts, b
      <4>2. r \in Nat
        BY <2>1, <4>1
      <4>3. r \div b \in Nat /\ r = b * (r \div b) + k
        BY <2>1, <4>1, <4>2, DivMod, Zenon
      <4>4. r \div b < Max \div b
        BY <2>1, <4>1, <4>3, WholeBlocks, Zenon
      <4> QED BY <4>3, <4>4, Zenon
    <3>2. ASSUME NEW q \in Nat, q < Max \div b, r = b * q + k PROVE r \in Hits(k)
      <4>1. r \in Nat /\ r % b = k
        BY <2>1, <3>2, Remainder, Zenon
      <4>2. r < Max - (Max % b)
        BY <2>1, <3>2, WholeBlocks, Zenon
      <4>3. Max % b \in 0 .. b - 1
        BY <2>1, DivMod, Zenon
      <4>4. r \in 0 .. Max
        BY <2>1, <4>1, <4>2, <4>3
      <4> QED BY <4>1, <4>2, <4>4, Zenon DEF Hits, Accepts, b
    <3> QED BY <3>1, <3>2, Zenon
  <2>3. 0 < Max \div b
    <3>1. Max \div b \in Nat /\ Max % b \in 0 .. b - 1 /\ Max = b * (Max \div b) + (Max % b)
      BY <2>1, DivMod, Zenon
    <3>2. PICK m : m = Max \div b
      BY Zenon
    <3>3. m # 0
      BY <2>1, <3>1, <3>2
    <3> QED BY <3>1, <3>2, <3>3
  <2>4. Hits(j) # {}
    <3>1. b * 0 + j \in Hits(j) <=> \E q \in Nat : q < Max \div b /\ b * 0 + j = b * q + j
      BY <2>1, <2>2, Zenon
    <3>2. 0 \in Nat
      OBVIOUS
    <3> QED BY <2>3, <3>1, <3>2, Zenon
  <2>5. IsFiniteSet(Hits(0))
    <3>1. IsFiniteSet(0 .. Max)
      BY <2>1, FS_Interval
    <3> QED BY <3>1, FS_Subset DEF Hits
  <2>6. ExistsBijection(Hits(0), Hits(j))
    <3> DEFINE f == [r \in Hits(0) |-> r + j]
    <3>1. ASSUME NEW r \in Hits(0) PROVE r \in Nat /\ r + j \in Hits(j)
      <4>1. PICK q \in Nat : q < Max \div b /\ r = b * q + 0
        BY <2>1, <2>2, Zenon
      <4>2. r + j = b * q + j /\ r \in Nat
        BY <2>1, <4>1
      <4> QED BY <2>1, <2>2, <4>1, <4>2, Zenon
    <3>2. ASSUME NEW r \in Hits(j) PROVE \E s \in Hits(0) : s + j = r
      <4>1. PICK q \in Nat : q < Max \div b /\ r = b * q + j
        BY <2>1, <2>2, Zenon
      <4>2. b * q + 0 \in Hits(0)
        BY <2>1, <2>2, <4>1, Zenon
      <4>3. (b * q + 0) + j = r
        BY <2>1, <4>1
      <4> QED BY <4>2, <4>3, Zenon
    <3>3. \A r, s \in Hits(0) : r + j = s + j => r = s
      BY <2>1, <3>1
    <3>4. f \in Bijection(Hits(0), Hits(j))
      <4>1. f \in [Hits(0) -> Hits(j)] /\ \A r \in Hits(0) : f[r] = r + j
        BY <3>1, Zenon
      <4> HIDE DEF f
      <4>2. \A r, s \in Hits(0) : f[r] = f[s] => r = s
        BY <3>3, <4>1, Zenon
      <4>3. \A r \in Hits(j) : \E s \in Hits(0) : f[s] = r
        BY <3>2, <4>1, Zenon
      <4> QED BY <4>1, <4>2, <4>3, Zenon DEF Bijection, Injection, Surjection, IsInjective
    <3> QED BY <3>4, Zenon DEF ExistsBijection
  <2> QED BY <2>4, <2>5, <2>6, FS_Bijection, Zenon
<1> QED BY <1>1, ShuffleInvariant, PTL
=============================================================================
