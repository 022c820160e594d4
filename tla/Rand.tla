-------------------------------- MODULE Rand --------------------------------
(***************************************************************************)
(* rand.Reader: one Salsa20 generator per CPU, each behind a mutex.  A     *)
(* generator hands out a buffer of keystream and refills it with the next  *)
(* nonce when it is used up; a Read that needs more than the buffer holds  *)
(* goes on in the next one.  Which generator a Read uses is settled by the *)
(* CPU the goroutine runs on when Read is called, wherever it runs later.  *)
(*                                                                         *)
(* A byte is known by its generator and its place in that generator's      *)
(* keystream.                                                              *)
(***************************************************************************)
EXTENDS Integers

CONSTANTS
  Goroutine,   \* the goroutines that read
  Cores,       \* runtime.NumCPU()
  BufLen,      \* length of a generator's buffer (16384 in the code)
  Free         \* holder of an unlocked mutex

ASSUME RandAssumption ==
  /\ Cores \in Nat \ {0}
  /\ BufLen \in Nat \ {0}
  /\ Free \notin Goroutine

CPU == 0 .. Cores - 1

VARIABLES
  nonce,     \* nonce[c]: the nonce of the next fill
  offset,    \* offset[c]: bufferOffset
  mutex,     \* mutex[c]: who holds the MutexReader's mutex
  reader,    \* reader[g]: where g is in Read: "idle", "waiting" for the mutex,
             \* in the "loop", or with bytes "copied" and bufferOffset to be set
  on,        \* on[g]: the generator of g's Read
  left,      \* left[g]: len(d)
  copied,    \* copied[g]: m, the bytes copied in this iteration
  used       \* history: every byte handed out so far

randVars == <<nonce, offset, mutex, reader, on, left, copied, used>>

\* Every generator is filled once when it is made.
RandInit ==
  /\ nonce  = [c \in CPU |-> 1]
  /\ offset = [c \in CPU |-> 0]
  /\ mutex  = [c \in CPU |-> Free]
  /\ reader = [g \in Goroutine |-> "idle"]
  /\ on     = [g \in Goroutine |-> 0]
  /\ left   = [g \in Goroutine |-> 0]
  /\ copied = [g \in Goroutine |-> 0]
  /\ used   = {}

\* PerCPUReader.Read: g asks for len bytes while it runs on some CPU.
StartRead(g, len) ==
  /\ reader[g] = "idle"
  /\ \E c \in CPU : on' = [on EXCEPT ![g] = c]
  /\ reader' = [reader EXCEPT ![g] = "waiting"]
  /\ left' = [left EXCEPT ![g] = len]
  /\ UNCHANGED <<nonce, offset, mutex, copied, used>>

\* Mutant: MutexReader does not lock.
LockNot(g) ==
  /\ reader[g] = "waiting"
  /\ reader' = [reader EXCEPT ![g] = "loop"]
  /\ UNCHANGED <<nonce, offset, mutex, on, left, copied, used>>

\* mr.mu.Lock()
Lock(g) ==
  /\ reader[g] = "waiting"
  /\ mutex[on[g]] = Free
  /\ mutex' = [mutex EXCEPT ![on[g]] = g]
  /\ reader' = [reader EXCEPT ![g] = "loop"]
  /\ UNCHANGED <<nonce, offset, on, left, copied, used>>

\* Mutant: fill uses the same nonce again.
FillSameNonce(g) ==
  /\ reader[g] = "loop" /\ left[g] > 0
  /\ offset[on[g]] = BufLen
  /\ offset' = [offset EXCEPT ![on[g]] = 0]
  /\ UNCHANGED <<nonce, mutex, reader, on, left, copied, used>>

\* The buffer is used up: sr.fill()
Fill(g) ==
  /\ reader[g] = "loop" /\ left[g] > 0
  /\ offset[on[g]] = BufLen
  /\ nonce' = [nonce EXCEPT ![on[g]] = @ + 1]
  /\ offset' = [offset EXCEPT ![on[g]] = 0]
  /\ UNCHANGED <<mutex, reader, on, left, copied, used>>

\* The number of bytes copy(d, sr.buffer[sr.bufferOffset:]) copies.
Piece(g) ==
  LET rest == BufLen - offset[on[g]] IN IF left[g] < rest THEN left[g] ELSE rest

\* The place in the keystream of the byte at the start of the buffer's rest.
Place(c) == (nonce[c] - 1) * BufLen + offset[c]

\* The bytes that the copy of g hands out.
Handed(g) ==
  {[cpu |-> on[g], at |-> Place(on[g]) + k] : k \in 0 .. Piece(g) - 1}

CanCopy(g) == reader[g] = "loop" /\ left[g] > 0 /\ offset[on[g]] < BufLen

\* m := copy(...); d = d[m:]
Copy(g) ==
  /\ CanCopy(g)
  /\ used' = used \cup Handed(g)
  /\ left' = [left EXCEPT ![g] = @ - Piece(g)]
  /\ copied' = [copied EXCEPT ![g] = Piece(g)]
  /\ reader' = [reader EXCEPT ![g] = "copied"]
  /\ UNCHANGED <<nonce, offset, mutex, on>>

\* sr.bufferOffset += m
Advance(g) ==
  /\ reader[g] = "copied"
  /\ offset' = [offset EXCEPT ![on[g]] = @ + copied[g]]
  /\ reader' = [reader EXCEPT ![g] = "loop"]
  /\ UNCHANGED <<nonce, mutex, on, left, copied, used>>

\* The loop is over: mr.mu.Unlock()
Unlock(g) ==
  /\ reader[g] = "loop" /\ left[g] = 0
  /\ mutex' = [mutex EXCEPT ![on[g]] = Free]
  /\ reader' = [reader EXCEPT ![g] = "idle"]
  /\ UNCHANGED <<nonce, offset, on, left, copied, used>>

Reading(g) == Lock(g) \/ Fill(g) \/ Copy(g) \/ Advance(g) \/ Unlock(g)

RandNext == \E g \in Goroutine : Reading(g) \/ \E len \in Nat : StartRead(g, len)

RandSpec == RandInit /\ [][RandNext]_randVars

-----------------------------------------------------------------------------
\* Every variable has its type; in particular the slice of the buffer that
\* Read copies from is never out of range.
RandTypeOK ==
  /\ nonce  \in [CPU -> Nat \ {0}]
  /\ offset \in [CPU -> 0 .. BufLen]
  /\ mutex  \in [CPU -> Goroutine \cup {Free}]
  /\ reader \in [Goroutine -> {"idle", "waiting", "loop", "copied"}]
  /\ on     \in [Goroutine -> CPU]
  /\ left   \in [Goroutine -> Nat]
  /\ copied \in [Goroutine -> Nat]
  /\ used   \in SUBSET [cpu : CPU, at : Nat]

\* No byte of keystream is handed out twice, whichever goroutines read from
\* whichever CPU and wherever a Read runs into the end of the buffer: what a
\* Read is about to copy has not been handed out before.
NoByteTwice ==
  \A g \in Goroutine : CanCopy(g) => Handed(g) \cap used = {}
=============================================================================
