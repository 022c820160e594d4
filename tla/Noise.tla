------------------------------- MODULE Noise --------------------------------
(***************************************************************************)
(* noise.go: a server fills slices with fake onions.  The workers of a     *)
(* ParallelFor run the bodies; a body draws the fake exchange and the key  *)
(* pairs of its onions from rand.Reader, which all workers share.          *)
(***************************************************************************)
EXTENDS ParallelFor, Rand, Sequences

CONSTANTS
  DropLen,   \* length of a dead drop (16 in the code)
  MsgLen,    \* length of the rest of an exchange
  KeyLen,    \* what box.GenerateKey reads; there is one next server
  MaxReads   \* bound: the reads of all bodies together

ASSUME NoiseAssumption ==
  /\ Goroutine = Worker
  /\ Cores = NumCPU
  /\ DropLen \in Nat
  /\ MsgLen \in Nat
  /\ KeyLen \in Nat

VARIABLES
  kind,      \* which of the three functions was called
  reads,     \* reads[w]: how many reads the body of w has begun
  got,       \* got[w]: the bytes they returned, one after the other
  dest       \* dest[i]: the bytes onion i was made of, <<>> if there is none

noiseVars == <<kind, reads, got, dest>>

allVars == <<vars, randVars, noiseVars>>

\* The reads of a body: the exchanges first, then a key pair for each Seal.
Reads ==
  [singles       |-> <<DropLen + MsgLen, KeyLen>>,
   doubles       |-> <<DropLen + MsgLen, MsgLen, KeyLen, KeyLen>>,
   introductions |-> <<MsgLen, KeyLen>>]

\* len(dest); ParallelFor runs over all of it, or over half of it for pairs.
Size == IF kind = "doubles" THEN 2 * n ELSE n

NoiseInit ==
  /\ Init /\ RandInit
  /\ kind \in DOMAIN Reads
  /\ n * Len(Reads[kind]) <= MaxReads
  /\ reads = [w \in Worker |-> 0]
  /\ got = [w \in Worker |-> <<>>]
  /\ dest = [i \in 0 .. Size - 1 |-> <<>>]

\* The loop of ParallelFor around the bodies.
Loop(w) ==
  /\ NextInChunk(w) \/ NextChunk(w) \/ NoChunk(w) \/ Done(w)
  /\ UNCHANGED <<randVars, noiseVars>>

\* The body of w calls rand.Read, for an exchange or inside Seal.
BodyRead(w) ==
  /\ item[w] # None /\ reads[w] < Len(Reads[kind])
  /\ StartRead(w, Reads[kind][reads[w] + 1])
  /\ reads' = [reads EXCEPT ![w] = @ + 1]
  /\ UNCHANGED <<vars, kind, got, dest>>

\* rand.Read copies bytes to the body of w.
BodyCopy(w) ==
  /\ Copy(w)
  /\ got' = [got EXCEPT ![w] = @ \o
       [k \in 1 .. Piece(w) |-> [cpu |-> on[w], at |-> Place(on[w]) + k - 1]]]
  /\ UNCHANGED <<vars, kind, reads, dest>>

\* The other steps of rand.Read.
BodyReading(w) ==
  /\ Lock(w) \/ Fill(w) \/ Advance(w) \/ Unlock(w)
  /\ UNCHANGED <<vars, noiseVars>>

\* The onions a body makes of the bytes it drew, by their places in dest.
Made(i, b) ==
  LET ex == DropLen + MsgLen
      first == SubSeq(b, 1, ex)
      second == SubSeq(b, 1, DropLen) \o SubSeq(b, ex + 1, ex + MsgLen)
      key(k) == SubSeq(b, Len(b) - k * KeyLen + 1, Len(b) - (k - 1) * KeyLen)
  IN IF kind = "doubles"
     THEN [j \in {2 * i, 2 * i + 1} |->
             IF j = 2 * i THEN first \o key(2) ELSE second \o key(1)]
     ELSE [j \in {i} |-> b]

\* dest[i] = onion: the body is over.
BodyEnd(w) ==
  /\ item[w] # None /\ reads[w] = Len(Reads[kind]) /\ reader[w] = "idle"
  /\ Body(w)
  /\ LET made == Made(item[w], got[w])
     IN dest' = [j \in DOMAIN dest |-> IF j \in DOMAIN made THEN made[j] ELSE dest[j]]
  /\ got' = [got EXCEPT ![w] = <<>>]
  /\ reads' = [reads EXCEPT ![w] = 0]
  /\ UNCHANGED <<randVars, kind>>

NoiseWorker(w) ==
  Loop(w) \/ BodyRead(w) \/ BodyCopy(w) \/ BodyReading(w) \/ BodyEnd(w)

Return == (Wait \/ Terminated) /\ UNCHANGED <<randVars, noiseVars>>

NoiseNext == (\E w \in Worker : NoiseWorker(w)) \/ Return

\* Goroutines are scheduled fairly.  Nothing is assumed of the bodies: that
\* they end is part of what Terminates says here.
NoiseSpec ==
  /\ NoiseInit /\ [][NoiseNext]_allVars
  /\ \A w \in Worker : WF_allVars(NoiseWorker(w))
  /\ WF_allVars(Return)

-----------------------------------------------------------------------------
\* When the slices are filled, every slot has an onion, the two onions of a
\* pair name the same dead drop, and apart from that no two onions, nor two
\* places in one, were made of the same byte of keystream.
FakesApart ==
  main = "returned" =>
    LET Paired(i) == kind = "doubles" /\ i % 2 = 1
        Own(i) == IF Paired(i) THEN DropLen + 1 .. Len(dest[i]) ELSE 1 .. Len(dest[i])
    IN /\ \A i \in DOMAIN dest :
            /\ Len(dest[i]) = MsgLen + KeyLen + (IF kind = "introductions" THEN 0 ELSE DropLen)
            /\ Paired(i) => SubSeq(dest[i], 1, DropLen) = SubSeq(dest[i - 1], 1, DropLen)
       /\ \A i, j \in DOMAIN dest : \A x \in Own(i), y \in Own(j) :
            dest[i][x] = dest[j][y] => i = j /\ x = y
=============================================================================
