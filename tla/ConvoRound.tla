----------------------------- MODULE ConvoRound -----------------------------
(***************************************************************************)
(* The data path of one conversation round: a batch of onions travels down *)
(* the chain of servers 1..N, each server decrypts a layer, filters, adds  *)
(* noise and shuffles; the last one exchanges the messages of each dead    *)
(* drop; the replies travel back, each server undoing its shuffle and      *)
(* sealing every reply with the key shared with the onion's sender.        *)
(*                                                                         *)
(* Cryptography is abstracted to who can open what (module Onions).        *)
(* MixChain is about the order of the calls of overlapping rounds; here    *)
(* one round runs without failures and the concurrency is that of its      *)
(* parallel Add and Get calls and of the noise goroutine.                  *)
(***************************************************************************)
EXTENDS Batch, Onions, FiniteSets

CONSTANTS
  Orders,     \* the values of ServerOrder in the PKI file
  SpanSize,   \* onions per Add and Get call (4000 in the code)
  Draws,      \* bound: Draws[order] are the pairs of numbers of fake singles
              \* and fake doubles cappedFlooredLaplace may draw for a round
  Batches     \* Batches[order]: the batches a round may start with

\* The content of an onion, a ConvoExchange.  Its sender is <<0, c>> for a
\* client, <<s, k>> for noise of server s, and its message is identified with
\* the sender.
Exchange(id, drop) == [layers |-> <<>>, id |-> id, drop |-> drop]

Nil == Exchange(<<0, 0>>, <<0, 0>>)

VARIABLES
  order,   \* pki.ServerOrder
  batch,   \* batch[s]: the onions RunConvoRound sends to server s
  round,   \* round[s]: the ConvoRound of server s
  out,     \* out[s]: the replies RunConvoRound has collected from server s
  count    \* the AccessCount of the last server

vars == <<order, batch, round, out, count>>

\* Servers are numbered by their place in the chain.
N == Len(order)
Server == 1 .. N
Name(s) == order[s]
LastServer(s) == NextServer(order, Name(s)) = NoServer

\* A ConvoRound: status ("away" while Close waits for the next server,
\* "panic" after an out-of-range slice), the slices of the struct, the
\* Shuffler of Close, the spans whose Add and Get have been executed, and how
\* far the noise goroutine is (0, 1: singles, 2: all).
NoRound(st) ==
  [status |-> st, incoming |-> <<>>, index |-> <<>>, keys |-> <<>>,
   noise |-> <<>>, singles |-> 0, doubles |-> 0, filled |-> 0,
   perm |-> <<>>, replies |-> <<>>, added |-> {}, got |-> {}]

Status(s) == round[s].status

AllNil(n) == [i \in 1 .. n |-> Nil]

SpansOf(s) == Spans(Len(batch[s]), SpanSize)

InSpan(i, span) == span.Start < i /\ i <= span.Start + span.Count

\* The key a server shares with the sender of an onion.
SharedKey(s, onion) == <<onion.id, Name(s)>>

NoKey == <<<<0, 0>>, NoServer>>

\* Random bytes of the size of a reply with n layers.
Random(n) == [layers |-> [i \in 1 .. n |-> NoKey], msg |-> <<0, 0>>]

Init ==
  /\ order \in Orders
  /\ \E b \in Batches[order] : batch = [s \in Server |-> IF s = 1 THEN b ELSE <<>>]
  /\ round = [s \in Server |-> NoRound("absent")]
  /\ out   = [s \in Server |-> <<>>]
  /\ count = [singles |-> 0, doubles |-> 0]

Even(n) == n + (n % 2)

\* NewRound, called by the entry server or by the Close of the server before.
NewRound(s) ==
  /\ Status(s) = "absent"
  /\ s > 1 => Status(s - 1) = "away"
  /\ \E f \in IF LastServer(s) THEN {<<0, 0>>} ELSE Draws[order] :
       round' = [round EXCEPT ![s] =
         [@ EXCEPT !.status = "new", !.singles = f[1], !.doubles = Even(f[2]),
                   !.noise = AllNil(f[1] + Even(f[2]))]]
  /\ UNCHANGED <<order, batch, out, count>>

\* A fake onion, sealed for the servers behind s.
Fake(s, k, drop) ==
  Seal(Exchange(<<s, k>>, <<s, drop>>), NextServerKeys(order, Name(s)))

\* FillWithFakeSingles: every fake has a dead drop of its own.
FillWithFakeSingles(s) ==
  /\ ~LastServer(s) /\ Status(s) \in {"new", "open"} /\ round[s].filled = 0
  /\ round' = [round EXCEPT ![s].filled = 1, ![s].noise =
       [k \in DOMAIN @ |->
          IF k <= round[s].singles THEN Fake(s, k, k) ELSE @[k]]]
  /\ UNCHANGED <<order, batch, out, count>>

\* FillWithFakeDoubles: len/2 pairs, each pair with a common dead drop.
FillWithFakeDoubles(s) ==
  /\ ~LastServer(s) /\ round[s].filled = 1
  /\ round' = [round EXCEPT ![s].filled = 2, ![s].noise =
       [k \in DOMAIN @ |->
          LET i == k - round[s].singles - 1   \* place among the doubles, from 0
          IN IF i >= 0 /\ i \div 2 < round[s].doubles \div 2
             THEN Fake(s, k, k - (i % 2)) ELSE @[k]]]
  /\ UNCHANGED <<order, batch, out, count>>

Open(s) ==
  /\ Status(s) = "new"
  /\ round' = [round EXCEPT ![s].status = "open",
                            ![s].incoming = AllNil(Len(batch[s])),
                            ![s].keys = [i \in DOMAIN batch[s] |-> NoKey]]
  /\ UNCHANGED <<order, batch, out, count>>

\* len(onion) == expectedOnionSize
SizeExpected(s, onion) == Len(onion.layers) = IncomingOnionOverhead(order, Name(s))

\* args.Offset+len(args.Onions) > round.numIncoming: Add refuses the span and
\* RunConvoRound gives up on the round, which Next then has no step for.
Overflows(s, span) == span.Start + span.Count > Len(round[s].incoming)

\* One Add call: decrypt the onions of a span and remember their keys.
Add(s, k) ==
  LET span == SpansOf(s)[k]
  IN /\ Status(s) = "open"
     /\ k \notin round[s].added
     /\ ~Overflows(s, span)
     /\ round' = [round EXCEPT
          ![s].added = @ \cup {k},
          ![s].keys = [i \in DOMAIN @ |->
             IF InSpan(i, span) /\ SizeExpected(s, batch[s][i])
             THEN SharedKey(s, batch[s][i]) ELSE @[i]],
          ![s].incoming = [i \in DOMAIN @ |->
             IF InSpan(i, span) /\ SizeExpected(s, batch[s][i]) /\ Opens(batch[s][i], Name(s))
             THEN Unbox(batch[s][i]) ELSE @[i]]]
     /\ UNCHANGED <<order, batch, out, count>>

\* Close is called after CallMany returned from all the Adds.
AllAdded(s) == Status(s) = "open" /\ round[s].added = DOMAIN SpansOf(s)

Filtered(s) == Filter(round[s].incoming, Nil)

NoiseReady(s) == round[s].filled = 2

\* Close of a server that is not the last, up to the call of RunConvoRound.
CloseForward(s) ==
  /\ ~LastServer(s)
  /\ AllAdded(s)
  /\ NoiseReady(s)
  /\ LET f        == Filtered(s)
         outgoing == f.valid \o round[s].noise
     IN \E p \in Shufflers(Len(outgoing)) :
          /\ round' = [round EXCEPT ![s] =
               [@ EXCEPT !.status = "away", !.incoming = f.valid, !.index = f.index,
                         !.noise = <<>>, !.perm = p]]
          /\ batch' = [batch EXCEPT ![s + 1] = Shuffle(outgoing, p)]
  /\ UNCHANGED <<order, out, count>>

\* Mutant: the slice is taken to panic also at its very end.
TooShortEarly(s) == Len(batch[s]) >= Len(out[s + 1])

\* replies[:round.numIncoming] is out of range.
TooShort(s) == Len(batch[s]) > Len(out[s + 1])

\* RunConvoRound has returned: Close undoes the shuffle and slices the
\* replies to numIncoming, which panics when there are fewer of them.
CloseReturn(s) ==
  /\ ~LastServer(s)
  /\ Status(s) = "away"
  /\ Status(s + 1) = "deleted"
  /\ round' = IF TooShort(s)
              THEN [round EXCEPT ![s].status = "panic"]
              ELSE [round EXCEPT ![s].status = "closed", ![s].replies =
                      SubSeq(Unshuffle(out[s + 1], round[s].perm), 1, Len(batch[s]))]
  /\ UNCHANGED <<order, batch, out, count>>

\* Close of the last server: the exchange of the dead drops.
CloseLast(s) ==
  /\ LastServer(s)
  /\ AllAdded(s)
  /\ LET f     == Filtered(s)
         drops == [i \in DOMAIN f.valid |-> f.valid[i].drop]
         c     == Collect(drops)
         reply == [i \in DOMAIN drops |->
                     [layers |-> <<>>, msg |-> f.valid[Partner(c.at[drops[i]], i)].id]]
     IN /\ round' = [round EXCEPT ![s] =
             [@ EXCEPT !.status = "closed", !.incoming = f.valid, !.index = f.index,
                       !.replies = reply]]
        /\ count' = [singles |-> c.singles, doubles |-> c.doubles]
  /\ UNCHANGED <<order, batch, out>>

\* Mutant: Get leaves the answer to a rejected onion empty.
ReplyOnionEmpty(s, i) ==
  IF round[s].index[i] = 0 THEN Random(0)
  ELSE Box(round[s].replies[round[s].index[i]], round[s].keys[i])

\* What Get answers for onion i: the sealed reply, or random bytes of the
\* same size when it has none or one of another size.
ReplyOnion(s, i) ==
  LET onion == Box(round[s].replies[round[s].index[i]], round[s].keys[i])
      size  == OutgoingOnionOverhead(order, Name(s))
  IN IF round[s].index[i] # 0 /\ Len(onion.layers) = size
     THEN onion ELSE Random(size)

\* One Get call, with the copy of its result into RunConvoRound's replies.
Get(s, k) ==
  /\ Status(s) = "closed"
  /\ k \notin round[s].got
  /\ round' = [round EXCEPT ![s].got = @ \cup {k}]
  /\ out' = [out EXCEPT ![s] = [i \in DOMAIN batch[s] |->
       IF InSpan(i, SpansOf(s)[k]) THEN ReplyOnion(s, i)
       ELSE IF @ = <<>> THEN Random(0) ELSE @[i]]]
  /\ UNCHANGED <<order, batch, count>>

Delete(s) ==
  /\ Status(s) = "closed"
  /\ round[s].got = DOMAIN SpansOf(s)
  /\ round' = [round EXCEPT ![s] = NoRound("deleted")]
  /\ UNCHANGED <<order, batch, out, count>>

\* The round is over, or a server is gone.
Finished ==
  /\ Status(1) = "deleted" \/ \E s \in Server : Status(s) = "panic"
  /\ UNCHANGED vars

Step(s) ==
  \/ NewRound(s) \/ Open(s) \/ Delete(s)
  \/ FillWithFakeSingles(s) \/ FillWithFakeDoubles(s)
  \/ CloseForward(s) \/ CloseReturn(s) \/ CloseLast(s)
  \/ \E k \in DOMAIN SpansOf(s) : Add(s, k) \/ Get(s, k)

Next == (\E s \in Server : Step(s)) \/ Finished

Spec == Init /\ [][Next]_vars
-----------------------------------------------------------------------------
\* The onion at place i of the entry server's batch is passed on by the
\* servers 1..s: it has the right size, its layers decrypt there and it is
\* the first of its copies.
Survives(i, s) ==
  /\ Len(batch[1][i].layers) = N
  /\ \A t \in 1 .. s : batch[1][i].layers[t] = order[t]
  /\ \A j \in 1 .. i - 1 : batch[1][j].id # batch[1][i].id

\* Each server sends on every surviving client onion exactly once and no
\* other client onion, and with them all the noise that it and the servers
\* before it have drawn, in complete onions the next server accepts: nothing
\* is lost, doubled, left nil or swapped for another, however its Adds, its
\* noise goroutine and its shuffle fall.
BatchConserved ==
  \A s \in 1 .. N - 1 :
    LET ids(b) == [i \in DOMAIN b |-> b[i].id]
    IN Status(s + 1) = "new" =>
         /\ IsInjective(ids(batch[s + 1]))
         /\ ToSet(ids(batch[s + 1]))
              = {batch[1][i].id : i \in {i \in DOMAIN batch[1] : Survives(i, s)}}
                \cup UNION {{t} \X (1 .. round[t].singles + round[t].doubles) : t \in 1 .. s}
         /\ \A i \in DOMAIN batch[s + 1] : SizeExpected(s + 1, batch[s + 1][i])

\* The places of the onions that use the same dead drop as onion i and make
\* it through the whole chain.
Sharers(i) ==
  {j \in DOMAIN batch[1] : Survives(j, N) /\ batch[1][j].drop = batch[1][i].drop}

\* The end of a round: every client onion that made it gets back what the
\* client's onionbox.Open turns into the message of the one other onion in its
\* dead drop, its own message if there is no other, and one of the messages
\* of the drop if there are several; an onion that was rejected anywhere gets
\* random bytes from there on, in the layers of the servers before.
Delivered ==
  Status(1) = "deleted" =>
    \A i \in DOMAIN batch[1] :
      LET r          == out[1][i]
          id         == batch[1][i].id
          sharedKeys == [s \in Server |-> <<id, order[s]>>]
          others     == Sharers(i) \ {i}
      IN /\ Survives(i, N) =>
              /\ r.layers = sharedKeys
              /\ OpenOnion(r, sharedKeys).msg
                   \in {batch[1][j].id : j \in IF others = {} THEN {i} ELSE others}
         /\ ~Survives(i, N) =>
              /\ r.msg = <<0, 0>>
              /\ \A s \in Server :
                   r.layers[s] = IF \A t \in 1 .. s : Survives(i, t)
                                 THEN sharedKeys[s] ELSE NoKey

\* Whatever happened to an onion, the reply a server gives for it has the
\* size of all the others: Get pads with random bytes.
UniformReplies ==
  \A s \in Server : Status(s) = "deleted" =>
    \A i \in DOMAIN out[s] : Len(out[s][i].layers) = N - s + 1

\* The AccessCount sent to the histogram: singles are the dead drops with one
\* access, doubles those with two or more, counted over what the last server
\* accepts.
CountsRight ==
  Status(N) = "closed" =>
    LET drops   == {round[N].incoming[i].drop : i \in DOMAIN round[N].incoming}
        uses(d) == Cardinality({i \in DOMAIN round[N].incoming : round[N].incoming[i].drop = d})
    IN /\ count.singles = Cardinality({d \in drops : uses(d) = 1})
       /\ count.doubles = Cardinality({d \in drops : uses(d) > 1})

\* Close panics on replies[:numIncoming] only when the server rejected more
\* of the onions the clients sent than it added noise: a batch of complete,
\* distinct onions never takes a server down.
PanicOnlyOnRejects ==
  \A s \in Server : Status(s) = "panic" =>
    Cardinality({i \in DOMAIN batch[1] :
                   ~Survives(i, s) /\ \A t \in 1 .. s - 1 : Survives(i, t)})
      > round[s].singles + round[s].doubles
=============================================================================
