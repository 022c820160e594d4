----------------------------- MODULE DialRound ------------------------------
(***************************************************************************)
(* The data path of one dialing round: the clients' Dialers make requests, *)
(* each server 1..N decrypts a layer, removes repetitions, adds noise to   *)
(* every bucket and shuffles; the last server sorts the introductions into *)
(* buckets, the entry server sends each client its bucket, and the client  *)
(* tries to open everything in it.                                         *)
(*                                                                         *)
(* As in ConvoRound, cryptography is abstracted to who can open what       *)
(* (module Onions), and one round runs without failures.                   *)
(***************************************************************************)
EXTENDS Batch, Onions, FiniteSets

CONSTANTS
  ServerOrder,\* pki.ServerOrder
  Clients,    \* number of clients
  NumBuckets, \* TotalDialBuckets
  SpanSize,   \* onions per Add call (4000 in the code)
  MaxNoise,   \* bound: fake introductions of one server
  Calls       \* the possible choices of whom the clients dial

\* Servers are numbered by their place in the chain.
N       == Len(ServerOrder)
Server  == 1 .. N
Name(s) == ServerOrder[s]
Client == 1 .. Clients
Bucket == 0 .. NumBuckets - 1

\* ^uint32(0), the bucket of a request that dials nobody.
NoBucket == NumBuckets + 1
Nobody   == 0

KeyDialBucket(c) == c % NumBuckets

\* The content of an onion, a DialExchange: who made it (<<0, c>> or <<s, k>>),
\* its bucket and the client who can open the introduction.
Exchange(id, bucket, to) ==
  [layers |-> <<>>, id |-> id, bucket |-> bucket, to |-> to]

Nil == Exchange(<<0, 0>>, 0, 0)

VARIABLES
  batch,    \* batch[s]: the onions RunDialRound sends to server s
  round,    \* round[s]: the DialRound of server s, with the numbers of fake
            \* introductions drawn and the spans whose Add has been executed
  buckets,  \* the result of Buckets on the last server, as sequences
  shown     \* shown[i]: the introductions that the client of request i was
            \* told of on receiving the bucket, or NotYet

vars == <<batch, round, buckets, shown>>

NotYet == <<Nobody>>

NoRound == [status |-> "absent", incoming |-> <<>>, noise |-> <<>>,
            counts |-> [b \in Bucket |-> 0], goroutine |-> "start", added |-> {}]

Status(s) == round[s].status
SpansOf(s) == Spans(Len(batch[s]), SpanSize)

\* NextDialRequest: an introduction sealed for the client dialed, or random
\* bytes in no bucket, sealed for the servers.
NextDialRequest(c, to) ==
  Seal(IF to = Nobody THEN Exchange(<<0, c>>, NoBucket, Nobody)
       ELSE Exchange(<<0, c>>, KeyDialBucket(to), to), ServerKeys(ServerOrder))

\* An onion whose layer k (0: none) does not open at its server.
Garbled(onion, k) ==
  [onion EXCEPT !.layers = [t \in DOMAIN @ |-> IF t = k THEN NoServer ELSE @[t]]]

Init ==
  /\ \E calls \in Calls :
       batch = [s \in Server |->
         IF s > 1 THEN <<>>
         ELSE [i \in DOMAIN calls |->
                 Garbled(NextDialRequest(calls[i].from, calls[i].to), calls[i].bad)]]
  /\ round = [s \in Server |-> NoRound]
  /\ buckets = <<>>
  /\ shown = [i \in DOMAIN batch[1] |-> NotYet]

\* NewRound, called by the server before, or by the entry server.
NewRound(s) ==
  /\ Status(s) = "absent"
  /\ s > 1 => Status(s - 1) = "away"
  /\ round' = [round EXCEPT ![s].status = "open"]
  /\ UNCHANGED <<batch, buckets, shown>>

Total(counts) == FoldLeft(LAMBDA n, b : n + counts[b - 1], 0, [b \in 1 .. NumBuckets |-> b])

\* The goroutine of NewRound draws the noise for each bucket, on the last
\* server too, and allocates the slices.
DrawNoise(s) ==
  /\ Status(s) # "absent" /\ round[s].goroutine = "start"
  /\ \E counts \in [Bucket -> 0 .. MaxNoise] :
       /\ Total(counts) <= MaxNoise
       /\ round' = [round EXCEPT ![s].goroutine = "drawn", ![s].counts = counts,
                                 ![s].noise = [k \in 1 .. Total(counts) |-> Nil]]
  /\ UNCHANGED <<batch, buckets, shown>>

\* The bucket of the k-th fake introduction: the buckets one after the other,
\* each as often as was drawn for it.
FakeBucket(counts, k) ==
  CHOOSE b \in Bucket :
    LET before == [c \in Bucket |-> IF c < b THEN counts[c] ELSE 0]
    IN Total(before) < k /\ k <= Total(before) + counts[b]

FillWithFakeIntroductions(s) ==
  /\ round[s].goroutine = "drawn"
  /\ round' = [round EXCEPT ![s].goroutine = "done", ![s].noise =
       [k \in DOMAIN @ |->
          Seal(Exchange(<<s, k>>, FakeBucket(round[s].counts, k), Nobody),
               NextServerKeys(ServerOrder, Name(s)))]]
  /\ UNCHANGED <<batch, buckets, shown>>

\* The onion has the size expected at server s and its layer opens.
Decrypts(s, onion) ==
  /\ Len(onion.layers) = IncomingOnionOverhead(ServerOrder, Name(s))
  /\ Opens(onion, Name(s))

\* One Add call: the onions of a span that decrypt are appended, in the order
\* in which the Add calls get round's lock.
Add(s, k) ==
  LET span  == SpansOf(s)[k]
      piece == SubSeq(batch[s], span.Start + 1, span.Start + span.Count)
      valid == SelectSeq(piece, LAMBDA onion : Decrypts(s, onion))
  IN /\ Status(s) = "open"
     /\ k \notin round[s].added
     /\ round' = [round EXCEPT
          ![s].added = @ \cup {k},
          ![s].incoming = @ \o [i \in DOMAIN valid |-> Unbox(valid[i])]]
     /\ UNCHANGED <<batch, buckets, shown>>

filterIncoming(incoming) == Filter(incoming, Nil).valid

\* noiseWg.Wait() returns.
NoiseDone(s) == round[s].goroutine = "done"

\* Close is called when all Adds have returned.
CanClose(s) ==
  Status(s) = "open" /\ round[s].added = DOMAIN SpansOf(s) /\ NoiseDone(s)

\* What Close makes of the messages of the round.
Mixed(s, p) == Shuffle(filterIncoming(round[s].incoming) \o round[s].noise, p)

\* Close of a server that is not the last, up to the call of RunDialRound.
CloseForward(s) ==
  /\ s < N
  /\ CanClose(s)
  /\ \E p \in Shufflers(Len(filterIncoming(round[s].incoming)) + Len(round[s].noise)) :
       batch' = [batch EXCEPT ![s + 1] = Mixed(s, p)]
  /\ round' = [round EXCEPT ![s].status = "away"]
  /\ UNCHANGED <<buckets, shown>>

\* RunDialRound on the next server has returned.
CloseReturn(s) ==
  /\ s < N
  /\ Status(s) = "away" /\ Status(s + 1) = "closed"
  /\ round' = [round EXCEPT ![s].status = "closed", ![s].incoming = <<>>, ![s].noise = <<>>]
  /\ UNCHANGED <<batch, buckets, shown>>

CloseLast ==
  /\ CanClose(N)
  /\ \E p \in Shufflers(Len(filterIncoming(round[N].incoming)) + Len(round[N].noise)) :
       round' = [round EXCEPT ![N].status = "closed", ![N].noise = <<>>,
                              ![N].incoming = Mixed(N, p)]
  /\ UNCHANGED <<batch, buckets, shown>>

\* Buckets, called by the entry server when the round is over on server 1.
Buckets ==
  /\ Status(1) = "closed" /\ Status(N) = "closed" /\ buckets = <<>>
  /\ buckets' = [b \in 1 .. NumBuckets |->
                   SelectSeq(round[N].incoming,
                     LAMBDA m : m.layers = <<>> /\ m.bucket = b - 1)]
  /\ UNCHANGED <<batch, round, shown>>

\* The client that sent request i.
ClientOf(i) == batch[1][i].id[2]

\* Mutant: the entry server sends the first bucket to everyone.
BucketSentFirst(c) == buckets[1]

\* runDialRound: the bucket sent to client c.
BucketSent(c) == buckets[KeyDialBucket(c) + 1]

\* The bucket sent in answer to request i arrives: HandleDialBucket shows whose
\* introductions the client can open.
HandleDialBucket(i) ==
  /\ buckets # <<>> /\ shown[i] = NotYet
  /\ shown' = [shown EXCEPT ![i] =
       LET mine == SelectSeq(BucketSent(ClientOf(i)), LAMBDA onion : onion.to = ClientOf(i))
       IN [j \in DOMAIN mine |-> mine[j].id[2]]]
  /\ UNCHANGED <<batch, round, buckets>>

Finished ==
  /\ buckets # <<>> /\ \A i \in DOMAIN shown : shown[i] # NotYet
  /\ UNCHANGED vars

Step(s) ==
  \/ NewRound(s) \/ DrawNoise(s) \/ FillWithFakeIntroductions(s)
  \/ CloseForward(s) \/ CloseReturn(s)
  \/ \E k \in DOMAIN SpansOf(s) : Add(s, k)

Next == \/ \E s \in Server : Step(s)
        \/ CloseLast
        \/ Buckets
        \/ \E i \in DOMAIN shown : HandleDialBucket(i)
        \/ Finished

Spec == Init /\ [][Next]_vars

-----------------------------------------------------------------------------
\* The onion at place i of the first batch reaches the last server: all its
\* layers decrypt.  Of several copies one does.
Arrives(i) == batch[1][i].layers = ServerOrder

\* Each client is told of exactly the clients whose introductions to them
\* arrived, once each, and of nobody else's, however the Adds, the noise and
\* the shuffles of the servers fall.
IntroductionsDelivered ==
  \A i \in DOMAIN shown : shown[i] # NotYet =>
    /\ IsInjective(shown[i])
    /\ ToSet(shown[i]) = {ClientOf(j) : j \in
         {k \in DOMAIN batch[1] : Arrives(k) /\ batch[1][k].to = ClientOf(i)}}

\* Every bucket holds the introductions for it and the fake ones that every
\* server, the last one included, drew for it; requests that dial nobody are
\* in no bucket.
BucketsFilled ==
  buckets # <<>> =>
    \A b \in Bucket :
      LET real  == {batch[1][i].id : i \in
                      {j \in DOMAIN batch[1] : Arrives(j) /\ batch[1][j].bucket = b}}
          noise == FoldLeft(LAMBDA n, s : n + round[s].counts[b], 0, [s \in Server |-> s])
      IN Len(buckets[b + 1]) = Cardinality(real) + noise
=============================================================================
