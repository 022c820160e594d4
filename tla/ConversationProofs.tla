------------------------- MODULE ConversationProofs -------------------------
(***************************************************************************)
(* Proofs about Conversation, for any number of rounds, texts, switches    *)
(* and places in the queues:                                               *)
(*                                                                         *)
(*   TextsAccounted   no text is lost or sent twice;                       *)
(*   NothingLeft      what is left of a round that was handled;            *)
(*   HandlerFollows   the client's conversation follows the GUI's;         *)
(*   ShownTexts       texts are shown under the right name, and once;      *)
(*   ExchangeShown    a text that was exchanged is shown.                  *)
(*                                                                         *)
(* The inductive invariant has a part for each: the ledger of a user's     *)
(* texts, the state of a round, where the client's conversation comes      *)
(* from, and the rounds that the texts shown came with.  ShownTexts needs  *)
(* the ledger (a text travels in one round) and the state of the rounds (a *)
(* response is handled once); ExchangeShown needs the latter.              *)
(***************************************************************************)
EXTENDS Conversation, TLAPS

ConvTypes ==
  /\ stage \in [User -> {"offline", "connecting", "online"}]
  /\ arg \in [User -> User \cup {None}]
  /\ selectedConvo \in [User -> User]
  /\ convoHandler \in [User -> User \cup {None}]
  /\ typed \in [User -> Nat]
  /\ gui \in [User -> Text \cup {None}]
  /\ raced \in [User -> BOOLEAN]
  /\ outQueue \in [User -> [User -> Seq(Text)]]
  /\ pendingRounds \in [User -> [User -> [Round -> Sealed \cup {None}]]]
  /\ roundHandlers \in [User -> [Round -> User \cup {None}]]
  /\ pc \in [User -> [Round -> {"none", "picked", "sent", "rejected", "finished"}]]
  /\ request \in [User -> [Round -> Request \cup {None}]]
  /\ picked \in [User -> [Round -> User \cup {None}]]
  /\ status \in [Round -> {"future", "open", "closed", "done"}]
  /\ told \in [Round -> SUBSET User]
  /\ shown \in [User -> Seq([name : User, text : Text])]

\* The conversation of the client: where it comes from, and when there is one.
HandlerInv(u) ==
  /\ stage[u] = "connecting" => arg[u] \in User
  /\ stage[u] = "online" => convoHandler[u] \in User
  /\ \A r \in Round : u \in told[r] => stage[u] = "online"
  /\ stage[u] = "connecting" /\ ~raced[u] => arg[u] = selectedConvo[u]
  /\ stage[u] = "online" /\ ~raced[u] => convoHandler[u] = selectedConvo[u]

-----------------------------------------------------------------------------
\* The request x carries a text, the one with this number.
Full(x) == x # None /\ x.msg.body # Timestamp
Num(x)  == x.msg.body.k

\* The k-th text of u, on its way to p.
TextOf(u, p, t) == t \in Text /\ t.from = u /\ t.to = p /\ t.len = Lengths[t.k]

(***************************************************************************)
(* The ledger of u's texts: q is outQueue[u], g what the GUI thread holds, *)
(* n the number of texts typed and rq the requests of the rounds.  Every   *)
(* text is in one place, and all have been typed.                          *)
(***************************************************************************)
Ledger(u, q, g, n, rq) ==
  /\ q \in [User -> Seq(Text)]
  /\ n \in 0 .. MaxTexts[u]
  /\ g # None => TextOf(u, g.to, g) /\ g.k = n /\ n > 0
  /\ \A p \in User : \A i \in DOMAIN q[p] : TextOf(u, p, q[p][i]) /\ q[p][i].k \in 1 .. n
  /\ \A p \in User : Len(q[p]) <= QueueCap
  /\ \A r \in Round : Full(rq[r]) => Num(rq[r]) \in 1 .. n
  /\ \A p, o \in User : \A i \in DOMAIN q[p], j \in DOMAIN q[o] :
       q[p][i].k = q[o][j].k => p = o /\ i = j
  /\ \A r, s \in Round : Full(rq[r]) /\ Full(rq[s]) /\ Num(rq[r]) = Num(rq[s]) => r = s
  /\ \A p \in User : \A i \in DOMAIN q[p] : \A r \in Round :
       Full(rq[r]) => Num(rq[r]) # q[p][i].k
  /\ g # None => /\ \A p \in User : \A i \in DOMAIN q[p] : q[p][i].k # g.k
                 /\ \A r \in Round : Full(rq[r]) => Num(rq[r]) # g.k
  /\ \A k \in 1 .. n : \/ g # None /\ g.k = k
                       \/ \E p \in User : \E i \in DOMAIN q[p] : q[p][i].k = k
                       \/ \E r \in Round : Full(rq[r]) /\ Num(rq[r]) = k

LedgerOf(u) == Ledger(u, outQueue[u], gui[u], typed[u], request[u])

\* QueueTextMessage with a queue that is full: the GUI thread holds the text.
LEMMA LedgerBlocks ==
  ASSUME NEW u \in User, NEW q, NEW n, NEW rq, NEW t,
         Ledger(u, q, None, n, rq), n < MaxTexts[u], TextOf(u, t.to, t), t.k = n + 1
  PROVE  Ledger(u, q, t, n + 1, rq)
<1>0. MaxTexts[u] \in Nat /\ n \in Nat /\ n + 1 \in 0 .. MaxTexts[u] /\ n + 1 > 0
  BY ConversationAssumption DEF ConversationAssumption, Ledger
<1>1. 1 .. n \subseteq 1 .. n + 1 /\ n + 1 \notin 1 .. n /\ 1 .. n + 1 = (1 .. n) \cup {n + 1}
  BY <1>0
<1>2. t # None
  BY ConversationAssumption, Zenon DEF ConversationAssumption, TextOf
<1>3. \A p \in User : \A i \in DOMAIN q[p] : q[p][i].k \in 1 .. n
  BY Zenon DEF Ledger
<1>4. \A r \in Round : Full(rq[r]) => Num(rq[r]) # n + 1
  BY <1>1 DEF Ledger
<1>5. ASSUME NEW k \in 1 .. n + 1
      PROVE  \/ t # None /\ t.k = k
             \/ \E p \in User : \E i \in DOMAIN q[p] : q[p][i].k = k
             \/ \E r \in Round : Full(rq[r]) /\ Num(rq[r]) = k
  BY <1>1, <1>2, Zenon DEF Ledger
<1> QED BY <1>0, <1>1, <1>2, <1>3, <1>4, <1>5, SMTT(60) DEF Ledger

\* What the GUI thread held goes into the queue.
LEMMA LedgerQueues ==
  ASSUME NEW u \in User, NEW q, NEW g, NEW n, NEW rq, Ledger(u, q, g, n, rq), g # None,
         g.to \in User, Len(q[g.to]) < QueueCap
  PROVE  Ledger(u, [q EXCEPT ![g.to] = Append(@, g)], None, n, rq)
<1> DEFINE new == [q EXCEPT ![g.to] = Append(@, g)]
<1>0. PICK p \in User : p = g.to
  BY Zenon
<1>1. PICK l \in Nat : l = Len(q[p]) /\ DOMAIN q[p] = 1 .. l
  BY DEF Ledger
<1>2. g \in Text /\ q \in [User -> Seq(Text)] /\ TextOf(u, p, g) /\ g.k = n /\ n \in 1 .. n
  BY <1>0 DEF Ledger, TextOf
<1>3. /\ new \in [User -> Seq(Text)] /\ new[p] = Append(q[p], g)
      /\ \A o \in User : o # p => new[o] = q[o]
  BY <1>0, <1>2
<1>4. /\ DOMAIN new[p] = DOMAIN q[p] \cup {l + 1} /\ l + 1 \notin DOMAIN q[p]
      /\ Len(new[p]) = l + 1
      /\ new[p][l + 1] = g
      /\ \A i \in DOMAIN q[p] : new[p][i] = q[p][i]
  <2>1. q[p] \in Seq(Text)
    BY <1>2, Zenon
  <2> QED BY <1>1, <1>2, <1>3, <2>1, SMTT(60)
<1> HIDE DEF new
<1>5. \A o \in User : \A i \in DOMAIN new[o] :
         \/ i \in DOMAIN q[o] /\ new[o][i] = q[o][i]
         \/ o = p /\ i = l + 1 /\ new[o][i] = g
  BY <1>3, <1>4, Zenon
<1>6. \A o \in User : \A i \in DOMAIN q[o] : i \in DOMAIN new[o] /\ new[o][i] = q[o][i]
  BY <1>3, <1>4, Zenon
<1>7. \A o \in User : \A i \in DOMAIN new[o] : TextOf(u, o, new[o][i]) /\ new[o][i].k \in 1 .. n
  <2>1. \A o \in User : \A i \in DOMAIN q[o] : TextOf(u, o, q[o][i]) /\ q[o][i].k \in 1 .. n
    BY Zenon DEF Ledger
  <2> QED BY <1>2, <1>5, <2>1, Zenon
<1>8. \A o \in User : Len(new[o]) <= QueueCap
  <2>1. \A o \in User : Len(q[o]) <= QueueCap
    BY Zenon DEF Ledger
  <2>2. l + 1 <= QueueCap
    BY <1>0, <1>1, ConversationAssumption DEF ConversationAssumption
  <2> QED BY <1>3, <1>4, <2>1, <2>2, Zenon
<1>9. \A o \in User : \A i \in DOMAIN q[o] : q[o][i].k # g.k
  BY Zenon DEF Ledger
<1>10. \A o, a \in User : \A i \in DOMAIN new[o], j \in DOMAIN new[a] :
         new[o][i].k = new[a][j].k => o = a /\ i = j
  <2>1. \A o, a \in User : \A i \in DOMAIN q[o], j \in DOMAIN q[a] :
         q[o][i].k = q[a][j].k => o = a /\ i = j
    BY Zenon DEF Ledger
  <2> QED BY <1>5, <1>9, <2>1
<1>11. \A o \in User : \A i \in DOMAIN new[o] : \A r \in Round :
         Full(rq[r]) => Num(rq[r]) # new[o][i].k
  <2>1. /\ \A o \in User : \A i \in DOMAIN q[o] : \A r \in Round :
             Full(rq[r]) => Num(rq[r]) # q[o][i].k
        /\ \A r \in Round : Full(rq[r]) => Num(rq[r]) # g.k
    BY Zenon DEF Ledger
  <2> QED BY <1>5, <2>1, Zenon
<1>12. ASSUME NEW k \in 1 .. n
       PROVE  \/ \E o \in User : \E i \in DOMAIN new[o] : new[o][i].k = k
              \/ \E r \in Round : Full(rq[r]) /\ Num(rq[r]) = k
  <2>1. \/ g.k = k
        \/ \E o \in User : \E i \in DOMAIN q[o] : q[o][i].k = k
        \/ \E r \in Round : Full(rq[r]) /\ Num(rq[r]) = k
    BY Zenon DEF Ledger
  <2>2. l + 1 \in DOMAIN new[p] /\ new[p][l + 1] = g
    BY <1>4, Zenon
  <2> QED BY <1>6, <2>1, <2>2
<1>13. Ledger(u, new, None, n, rq)
  BY <1>3, <1>7, <1>8, <1>10, <1>11, <1>12, Zenon DEF Ledger
<1> QED BY <1>13, Zenon DEF new

\* NextConvoRequest with a text: it moves from the head of a queue into the
\* request of a round that had none.
LEMMA LedgerSends ==
  ASSUME NEW u \in User, NEW q, NEW g, NEW n, NEW rq, Ledger(u, q, g, n, rq),
         NEW p \in User, q[p] # <<>>, NEW r \in Round, rq[r] = None, NEW new, NEW nrq,
         new = [q EXCEPT ![p] = Tail(@)],
         Full(nrq[r]), Num(nrq[r]) = Head(q[p]).k, \A s \in Round : s # r => nrq[s] = rq[s]
  PROVE  Ledger(u, new, g, n, nrq)
<1>0. q[p] \in Seq(Text)
  BY Zenon DEF Ledger
<1>1. PICK l \in Nat : l = Len(q[p]) /\ DOMAIN q[p] = 1 .. l
  BY <1>0
<1>2. q \in [User -> Seq(Text)] /\ q[p] \in Seq(Text) /\ l > 0 /\ 1 \in DOMAIN q[p] /\ Head(q[p]) = q[p][1]
  BY <1>1 DEF Ledger
<1>3. /\ new \in [User -> Seq(Text)] /\ new[p] = Tail(q[p])
      /\ \A o \in User : o # p => new[o] = q[o]
  BY <1>2
<1>4. /\ DOMAIN new[p] = 1 .. l - 1 /\ Len(new[p]) = l - 1
      /\ \A i \in 1 .. l - 1 : i + 1 \in DOMAIN q[p] /\ i + 1 # 1 /\ new[p][i] = q[p][i + 1]
  BY <1>1, <1>2, <1>3
<1>5. \A o \in User : \A i \in DOMAIN new[o] :
         \/ o # p /\ i \in DOMAIN q[o] /\ new[o][i] = q[o][i]
         \/ o = p /\ i \in Int /\ i + 1 # 1 /\ i + 1 \in DOMAIN q[p] /\ new[o][i] = q[p][i + 1]
  BY <1>3, <1>4
<1>6. \A o \in User : \A j \in DOMAIN q[o] :
         (o = p /\ j = 1) \/ \E i \in DOMAIN new[o] : new[o][i] = q[o][j]
  <2>1. ASSUME NEW j \in DOMAIN q[p], j # 1 PROVE \E i \in DOMAIN new[p] : new[p][i] = q[p][j]
    <3>1. j \in 2 .. l
      BY <1>1, <2>1
    <3>2. j - 1 \in 1 .. l - 1 /\ (j - 1) + 1 = j
      BY <3>1
    <3> QED BY <1>4, <3>2
  <2> QED BY <1>3, <2>1
<1>k. PICK k1 : k1 = Head(q[p]).k
  BY Zenon
<1>7. \A o \in User : \A i \in DOMAIN new[o] : TextOf(u, o, new[o][i]) /\ new[o][i].k \in 1 .. n
  <2>1. \A o \in User : \A i \in DOMAIN q[o] : TextOf(u, o, q[o][i]) /\ q[o][i].k \in 1 .. n
    BY Zenon DEF Ledger
  <2> QED BY <1>5, <2>1
<1>8. \A o \in User : Len(new[o]) <= QueueCap
  <2>1. \A o \in User : Len(q[o]) <= QueueCap
    BY Zenon DEF Ledger
  <2>2. l - 1 <= QueueCap
    BY <1>1, <2>1, ConversationAssumption DEF ConversationAssumption
  <2> QED BY <1>3, <1>4, <2>1, <2>2, Zenon
<1>9. \A o, a \in User : \A i \in DOMAIN q[o], j \in DOMAIN q[a] :
         q[o][i].k = q[a][j].k => o = a /\ i = j
  BY Zenon DEF Ledger
<1>10. \A o, a \in User : \A i \in DOMAIN new[o], j \in DOMAIN new[a] :
         new[o][i].k = new[a][j].k => o = a /\ i = j
  BY <1>5, <1>9, SMTT(60)
<1>11. \A o \in User : \A i \in DOMAIN new[o] : new[o][i].k # k1
  BY <1>k, <1>2, <1>5, <1>9
<1>12. /\ Full(nrq[r]) /\ Num(nrq[r]) = k1 /\ ~Full(rq[r])
       /\ \A s \in Round : s # r => nrq[s] = rq[s]
  BY <1>k, Zenon DEF Full
<1>13. k1 \in 1 .. n /\ \A s \in Round : Full(rq[s]) => Num(rq[s]) # k1
  BY <1>k, <1>2 DEF Ledger
<1>14. \A s \in Round : Full(nrq[s]) => Num(nrq[s]) \in 1 .. n
  BY <1>12, <1>13, Zenon DEF Ledger
<1>15. \A s, a \in Round : Full(nrq[s]) /\ Full(nrq[a]) /\ Num(nrq[s]) = Num(nrq[a]) => s = a
  <2>1. \A s, a \in Round : Full(rq[s]) /\ Full(rq[a]) /\ Num(rq[s]) = Num(rq[a]) => s = a
    BY Zenon DEF Ledger
  <2> QED BY <1>12, <1>13, <2>1, Zenon
<1>16. \A o \in User : \A i \in DOMAIN new[o] : \A s \in Round :
         Full(nrq[s]) => Num(nrq[s]) # new[o][i].k
  <2>1. \A o \in User : \A i \in DOMAIN q[o] : \A s \in Round :
          Full(rq[s]) => Num(rq[s]) # q[o][i].k
    BY Zenon DEF Ledger
  <2> QED BY <1>5, <1>11, <1>12, <2>1
<1>17. g # None => /\ \A o \in User : \A i \in DOMAIN new[o] : new[o][i].k # g.k
                   /\ \A s \in Round : Full(nrq[s]) => Num(nrq[s]) # g.k
  <2>1. g # None => /\ \A o \in User : \A i \in DOMAIN q[o] : q[o][i].k # g.k
                    /\ \A s \in Round : Full(rq[s]) => Num(rq[s]) # g.k
    BY Zenon DEF Ledger
  <2>2. g # None => k1 # g.k
    BY <1>k, <1>2, <2>1, Zenon
  <2> QED BY <1>5, <1>12, <2>1, <2>2
<1>18. ASSUME NEW k \in 1 .. n
       PROVE  \/ g # None /\ g.k = k
              \/ \E o \in User : \E i \in DOMAIN new[o] : new[o][i].k = k
              \/ \E s \in Round : Full(nrq[s]) /\ Num(nrq[s]) = k
  <2>1. \/ g # None /\ g.k = k
        \/ \E o \in User : \E i \in DOMAIN q[o] : q[o][i].k = k
        \/ \E s \in Round : Full(rq[s]) /\ Num(rq[s]) = k
    BY Zenon DEF Ledger
  <2>2. \A o \in User : \A j \in DOMAIN q[o] :
          q[o][j].k = k1 \/ \E i \in DOMAIN new[o] : new[o][i].k = q[o][j].k
    <3> SUFFICES ASSUME NEW o \in User, NEW j \in DOMAIN q[o], q[o][j].k # k1
                 PROVE  \E i \in DOMAIN new[o] : new[o][i].k = q[o][j].k
      BY Zenon
    <3>1. ~(o = p /\ j = 1)
      BY <1>k, <1>2, Zenon
    <3>2. PICK i \in DOMAIN new[o] : new[o][i] = q[o][j]
      BY <1>6, <3>1, Zenon
    <3> QED BY <3>2, Zenon
  <2> QED BY <1>12, <2>1, <2>2
<1> QED BY <1>3, <1>7, <1>8, <1>10, <1>14, <1>15, <1>16, <1>17, <1>18, Zenon DEF Ledger

\* NextConvoRequest without a text.
LEMMA LedgerIdle ==
  ASSUME NEW u \in User, NEW q, NEW g, NEW n, NEW rq, Ledger(u, q, g, n, rq),
         NEW r \in Round, rq[r] = None, NEW nrq,
         nrq[r].msg.body = Timestamp, \A s \in Round : s # r => nrq[s] = rq[s]
  PROVE  Ledger(u, q, g, n, nrq)
<1>1. ~Full(rq[r]) /\ ~Full(nrq[r]) /\ \A s \in Round : s # r => nrq[s] = rq[s]
  BY Zenon DEF Full
<1>2. \A s \in Round : Full(nrq[s]) <=> Full(rq[s])
  BY <1>1, Zenon
<1>3. \A s \in Round : Full(rq[s]) => nrq[s] = rq[s]
  BY <1>1, Zenon
<1>4. /\ \A s \in Round : Full(nrq[s]) => Num(nrq[s]) \in 1 .. n
      /\ \A s, a \in Round : Full(nrq[s]) /\ Full(nrq[a]) /\ Num(nrq[s]) = Num(nrq[a]) => s = a
  BY <1>2, <1>3, Zenon DEF Ledger
<1>5. /\ \A p \in User : \A i \in DOMAIN q[p] : \A s \in Round :
           Full(nrq[s]) => Num(nrq[s]) # q[p][i].k
      /\ g # None => \A s \in Round : Full(nrq[s]) => Num(nrq[s]) # g.k
  BY <1>2, <1>3 DEF Ledger
<1>6. ASSUME NEW k \in 1 .. n
      PROVE  \/ g # None /\ g.k = k
             \/ \E p \in User : \E i \in DOMAIN q[p] : q[p][i].k = k
             \/ \E s \in Round : Full(nrq[s]) /\ Num(nrq[s]) = k
  BY <1>2, <1>3 DEF Ledger
<1> QED BY <1>4, <1>5, <1>6, Zenon DEF Ledger

\* The cardinality of a set with at most one element.
LEMMA AtMostOne ==
  ASSUME NEW S, NEW x, S \subseteq {x}
  PROVE  Cardinality(S) = IF S = {} THEN 0 ELSE 1
<1> DEFINE Counts(f) ==
             f = [T \in SUBSET S |-> IF T = {} THEN 0 ELSE 1 + f[T \ {CHOOSE y : y \in T}]]
<1>1. \A T \in SUBSET S : T # {} => T = {x} /\ T \ {CHOOSE y : y \in T} = {} /\ {} \in SUBSET S
  BY Zenon
<1>2. Counts([T \in SUBSET S |-> IF T = {} THEN 0 ELSE 1])
  BY <1>1
<1>3. PICK c : c = CHOOSE f : Counts(f)
  BY Zenon
<1>4. Cardinality(S) = c[S]
  BY <1>3, Zenon DEF Cardinality
<1>5. Counts(c)
  BY <1>2, <1>3, Zenon
<1>6. c[{}] = 0 /\ S \in SUBSET S
  BY <1>5, Zenon
<1>7. S # {} => c[S] = 1 + c[{}]
  BY <1>1, <1>5, Zenon
<1> QED BY <1>4, <1>6, <1>7

\* The places of a text in queues and in requests.
InQueues(q, k) ==
  {x \in User \X (1 .. QueueCap) : x[2] <= Len(q[x[1]]) /\ q[x[1]][x[2]].k = k}
InRequests(rq, k) == {r \in Round : Full(rq[r]) /\ Num(rq[r]) = k}

\* A text of the ledger has one place.
LEMMA LedgerPlace ==
  ASSUME NEW u \in User, NEW q, NEW g, NEW n, NEW rq, Ledger(u, q, g, n, rq), NEW k \in 1 .. n
  PROVE  Cardinality(InQueues(q, k)) + Cardinality(InRequests(rq, k))
           + (IF g # None /\ g.k = k THEN 1 ELSE 0) = 1
<1> DEFINE W == {x \in User \X (1 .. QueueCap) : x[2] <= Len(q[x[1]]) /\ q[x[1]][x[2]].k = k}
           C == {r \in Round : Full(rq[r]) /\ Num(rq[r]) = k}
           G == g # None /\ g.k = k
<1>l. /\ \A p, o \in User : \A i \in DOMAIN q[p], j \in DOMAIN q[o] :
           q[p][i].k = q[o][j].k => p = o /\ i = j
      /\ \A r, s \in Round : Full(rq[r]) /\ Full(rq[s]) /\ Num(rq[r]) = Num(rq[s]) => r = s
      /\ \A p \in User : \A i \in DOMAIN q[p] : \A r \in Round :
           Full(rq[r]) => Num(rq[r]) # q[p][i].k
      /\ g # None => /\ \A p \in User : \A i \in DOMAIN q[p] : q[p][i].k # g.k
                     /\ \A r \in Round : Full(rq[r]) => Num(rq[r]) # g.k
  BY Zenon DEF Ledger
<1>1. \A x : x \in W <=> \E p \in User : \E i \in DOMAIN q[p] : x = <<p, i>> /\ q[p][i].k = k
  <2>1. \A p \in User : q[p] \in Seq(Text) /\ Len(q[p]) <= QueueCap /\ QueueCap \in Nat
    BY ConversationAssumption, Zenon DEF Ledger, ConversationAssumption
  <2>2. \A p \in User : \A i : i \in DOMAIN q[p] <=> i \in 1 .. QueueCap /\ i <= Len(q[p])
    BY <2>1
  <2> QED BY <2>2
<1> SUFFICES Cardinality(W) + Cardinality(C) + (IF G THEN 1 ELSE 0) = 1
  BY Zenon DEF InQueues, InRequests
<1> HIDE DEF W
<1>3. CASE G
  <2>1. W = {} /\ C = {}
    BY <1>l, <1>1, <1>3
  <2>2. Cardinality(W) = 0 /\ Cardinality(C) = 0
    BY <2>1, AtMostOne, Zenon
  <2> QED BY <1>3, <2>2
<1>4. CASE \E p \in User : \E i \in DOMAIN q[p] : q[p][i].k = k
  <2>1. PICK p \in User : \E i \in DOMAIN q[p] : q[p][i].k = k
    BY <1>4, Zenon
  <2>2. PICK i \in DOMAIN q[p] : q[p][i].k = k
    BY <2>1, Zenon
  <2>3. \A x : x \in W <=> x = <<p, i>>
    BY <1>l, <1>1, <2>2
  <2>4. W = {<<p, i>>}
    BY <2>3, Zenon
  <2>5. C = {} /\ ~G
    BY <1>l, <2>2
  <2>6. Cardinality(W) = 1 /\ Cardinality(C) = 0
    BY <2>4, <2>5, AtMostOne, Zenon
  <2> QED BY <2>5, <2>6
<1>5. CASE \E r \in Round : Full(rq[r]) /\ Num(rq[r]) = k
  <2>1. PICK r \in Round : Full(rq[r]) /\ Num(rq[r]) = k
    BY <1>5, Zenon
  <2>2. C = {r}
    BY <1>l, <2>1, Zenon
  <2>3. W = {} /\ ~G
    BY <1>l, <1>1, <2>1
  <2>5. Cardinality(W) = 0 /\ Cardinality(C) = 1
    BY <2>2, <2>3, AtMostOne, Zenon
  <2> QED BY <2>3, <2>5
<1> QED BY <1>3, <1>4, <1>5, Zenon DEF Ledger

-----------------------------------------------------------------------------
\* A request of u in round r: what Seal and deadDrop make of a message for
\* the peer, with a text cut to size or none.
Cut(t) == t.len = IF Lengths[t.k] < SizeMessage THEN Lengths[t.k] ELSE SizeMessage - 1

Made(u, r, x) ==
  /\ x.peer \in User
  /\ x = [peer |-> x.peer, drop |-> deadDrop(u, x.peer),
          msg |-> Seal(u, x.peer, r, x.msg.body)]
  /\ x.msg.body # Timestamp =>
       x.msg.body \in Text /\ x.msg.body.from = u /\ x.msg.body.to = x.peer /\ Cut(x.msg.body)

\* What is pending for round r with p is x, the request made, if it is for p.
Pending(u, r, p, x) == pendingRounds[u][p][r] = IF p = x.peer THEN x.msg ELSE None

RoundInv(u, r) ==
  /\ pc[u][r] # "none" => stage[u] = "online"
  /\ pc[u][r] \in {"none", "picked"} =>
       request[u][r] = None /\ \A p \in User : pendingRounds[u][p][r] = None
  /\ pc[u][r] \in {"picked", "sent", "rejected"} =>
       roundHandlers[u][r] = picked[u][r]
  /\ pc[u][r] # "none" => picked[u][r] \in User
  /\ pc[u][r] \in {"sent", "rejected", "finished"} =>
       request[u][r] # None /\ Made(u, r, request[u][r])
  /\ pc[u][r] \in {"sent", "rejected"} => \A p \in User : Pending(u, r, p, request[u][r])
  /\ pc[u][r] = "finished" =>
       /\ roundHandlers[u][r] = None
       /\ \A p \in User : IF p = picked[u][r] THEN pendingRounds[u][p][r] = None
                                              ELSE Pending(u, r, p, request[u][r])
       /\ status[r] = "done"

-----------------------------------------------------------------------------
\* A text shown as coming from v came with v's request of a round whose
\* response was handled.
CameIn(u, x, r) ==
  /\ pc[u][r] = "finished"
  /\ request[x.name][r] # None
  /\ request[x.name][r].msg.body = x.text

ShownInv(u) ==
  /\ \A i \in DOMAIN shown[u] :
       LET x == shown[u][i]
       IN x.text.from = x.name /\ x.text.to = u /\ Cut(x.text) /\ \E r \in Round : CameIn(u, x, r)
  /\ IsInjective(shown[u])

ExchangeInv(u, r) ==
  \A v \in User \ {u} :
    /\ pc[u][r] = "finished" /\ InBatch(v, r)
    /\ request[u][r].peer = v /\ request[v][r].peer = u
    /\ ~Split(u, r)
    /\ request[v][r].msg.body # Timestamp
    => [name |-> v, text |-> request[v][r].msg.body] \in Range(shown[u])

(***************************************************************************)
(* The inductive invariant.                                                *)
(***************************************************************************)
ConvInv ==
  /\ ConvTypes
  /\ \A u \in User : HandlerInv(u) /\ LedgerOf(u) /\ ShownInv(u)
  /\ \A u \in User, r \in Round : RoundInv(u, r) /\ ExchangeInv(u, r)

-----------------------------------------------------------------------------
LEMMA Sentinels ==
  /\ None \notin User /\ None \notin Text /\ None \notin Sealed /\ None \notin Request
  /\ Timestamp \notin Text
BY ConversationAssumption, Zenon DEF ConversationAssumption

\* The update of one entry of a table of tables.
LEMMA Point ==
  ASSUME NEW A, NEW B, NEW C, NEW f \in [A -> [B -> C]], NEW a \in A, NEW b \in B, NEW c \in C,
         NEW g, g = [f EXCEPT ![a][b] = c]
  PROVE  /\ g \in [A -> [B -> C]]
         /\ \A x \in A : \A y \in B : g[x][y] = IF x = a /\ y = b THEN c ELSE f[x][y]
         /\ \A x \in A : x # a => g[x] = f[x]
         /\ g[a] = [f[a] EXCEPT ![b] = c]
BY Zenon

\* The two ends of a conversation have different roles.
LEMMA RolesDiffer ==
  ASSUME NEW u \in User, NEW p \in User, u # p
  PROVE  myRole(u, p) # myRole(p, u)
BY DEF User, myRole, Rank

\* Marshal cuts a text to size and changes nothing else.
LEMMA MarshalIs ==
  ASSUME NEW t \in Text, t.len = Lengths[t.k]
  PROVE  /\ Marshal(t) \in Text /\ Cut(Marshal(t))
         /\ Marshal(t).from = t.from /\ Marshal(t).to = t.to /\ Marshal(t).k = t.k
<1>1. SizeMessage \in Nat /\ SizeMessage - 1 \in Nat
  BY ConversationAssumption DEF ConversationAssumption
<1>2. Marshal(t) = [t EXCEPT !.len = IF t.len < SizeMessage THEN t.len ELSE SizeMessage - 1]
  BY Sentinels, Zenon DEF Marshal
<1> QED BY <1>1, <1>2, Zenon DEF Text, Cut

\* A body that u may send to p, and the request that Seal and deadDrop make.
Body(u, p, b) == b = Timestamp \/ (b \in Text /\ b.from = u /\ b.to = p /\ Cut(b))
Make(u, p, r, b) == [peer |-> p, drop |-> deadDrop(u, p), msg |-> Seal(u, p, r, b)]

LEMMA MadeIs ==
  ASSUME NEW u \in User, NEW p \in User, NEW r \in Round, NEW b, NEW x,
         Body(u, p, b), x = Make(u, p, r, b)
  PROVE  /\ Made(u, r, x) /\ x \in Request /\ x.msg \in Sealed
         /\ x.peer = p /\ x.msg = Seal(u, p, r, b) /\ x.msg.body = b
<1>1. /\ x.peer = p /\ x.msg = Seal(u, p, r, b) /\ x.msg.body = b
      /\ x = [peer |-> p, drop |-> deadDrop(u, p), msg |-> Seal(u, p, r, b)]
      /\ b = Timestamp \/ (b \in Text /\ b.from = u /\ b.to = p /\ Cut(b))
  BY Zenon DEF Seal, Make, Body
<1>2. x.msg \in Sealed
  BY <1>1 DEF Seal, Sealed, myRole
<1>3. deadDrop(u, p) \in Drop
  BY Zenon DEF deadDrop, Drop
<1>4. x \in Request
  BY <1>1, <1>2, <1>3 DEF Request
<1>5. Made(u, r, x)
  BY <1>1, Zenon DEF Made
<1> QED BY <1>1, <1>2, <1>4, <1>5, Zenon

-----------------------------------------------------------------------------
\* The first critical section of nextConvoRequest, with h the conversation it
\* finds.
Picks(u, r, h) ==
  /\ pc[u][r] = "none" /\ stage[u] = "online"
  /\ roundHandlers' \in [User -> [Round -> User \cup {None}]]
  /\ picked' \in [User -> [Round -> User \cup {None}]]
  /\ pc' \in [User -> [Round -> {"none", "picked", "sent", "rejected", "finished"}]]
  /\ \A v \in User : \A s \in Round :
       roundHandlers'[v][s] = IF v = u /\ s = r THEN h ELSE roundHandlers[v][s]
  /\ \A v \in User : \A s \in Round :
       picked'[v][s] = IF v = u /\ s = r THEN h ELSE picked[v][s]
  /\ \A v \in User : \A s \in Round :
       pc'[v][s] = IF v = u /\ s = r THEN "picked" ELSE pc[v][s]
  /\ UNCHANGED <<guiVars, outQueue, pendingRounds, request, roundVars, shown>>

LEMMA PickEffect ==
  ASSUME ConvInv, NEW u \in User, NEW r \in Round, PickHandler(u, r)
  PROVE  \E h \in User : Picks(u, r, h)
<1>1. pc[u][r] = "none" /\ u \in told[r]
  BY Zenon DEF PickHandler
<1>2. stage[u] = "online" /\ convoHandler[u] \in User
  BY <1>1, Zenon DEF ConvInv, HandlerInv
<1>3. /\ roundHandlers' = [roundHandlers EXCEPT ![u][r] = convoHandler[u]]
      /\ picked' = [picked EXCEPT ![u][r] = convoHandler[u]]
      /\ pc' = [pc EXCEPT ![u][r] = "picked"]
      /\ UNCHANGED <<guiVars, outQueue, pendingRounds, request, roundVars, shown>>
  BY Zenon DEF PickHandler
<1>t. /\ roundHandlers \in [User -> [Round -> User \cup {None}]]
      /\ picked \in [User -> [Round -> User \cup {None}]]
      /\ pc \in [User -> [Round -> {"none", "picked", "sent", "rejected", "finished"}]]
  BY Zenon DEF ConvInv, ConvTypes
<1>4. PICK h \in User : h = convoHandler[u]
  BY <1>2, Zenon
<1>5. /\ roundHandlers' \in [User -> [Round -> User \cup {None}]]
      /\ \A v \in User : \A s \in Round :
           roundHandlers'[v][s] = IF v = u /\ s = r THEN h ELSE roundHandlers[v][s]
  BY <1>3, <1>t, <1>4, Point
<1>6. /\ picked' \in [User -> [Round -> User \cup {None}]]
      /\ \A v \in User : \A s \in Round :
           picked'[v][s] = IF v = u /\ s = r THEN h ELSE picked[v][s]
  BY <1>3, <1>t, <1>4, Point
<1>7. /\ pc' \in [User -> [Round -> {"none", "picked", "sent", "rejected", "finished"}]]
      /\ \A v \in User : \A s \in Round :
           pc'[v][s] = IF v = u /\ s = r THEN "picked" ELSE pc[v][s]
  BY <1>3, <1>t, Point
<1>8. Picks(u, r, h)
  BY <1>1, <1>2, <1>3, <1>5, <1>6, <1>7, Zenon DEF Picks
<1> QED BY <1>8, Zenon

\* The rest of nextConvoRequest, with p the conversation it finds and x the
\* request it makes.
Sends(u, r, p, x) ==
  /\ pc[u][r] = "picked" /\ request[u][r] = None /\ stage[u] = "online"
  /\ p = convoHandler[u] /\ x.peer = p /\ Made(u, r, x) /\ x.msg # None
  /\ outQueue' \in [User -> [User -> Seq(Text)]]
  /\ pendingRounds' \in [User -> [User -> [Round -> Sealed \cup {None}]]]
  /\ request' \in [User -> [Round -> Request \cup {None}]]
  /\ pc' \in [User -> [Round -> {"none", "picked", "sent", "rejected", "finished"}]]
  /\ \A v \in User : v # u => outQueue'[v] = outQueue[v] /\ request'[v] = request[v]
  /\ outQueue'[u] = [outQueue[u] EXCEPT ![p] = Dequeued(outQueue[u][p])]
  /\ IF outQueue[u][p] = <<>> THEN x.msg.body = Timestamp
     ELSE Full(x) /\ Num(x) = Head(outQueue[u][p]).k
  /\ \A v \in User : \A o \in User : \A s \in Round :
       pendingRounds'[v][o][s] = IF v = u /\ o = p /\ s = r THEN x.msg ELSE pendingRounds[v][o][s]
  /\ \A v \in User : \A s \in Round :
       /\ request'[v][s] = IF v = u /\ s = r THEN x ELSE request[v][s]
       /\ pc'[v][s] = IF v = u /\ s = r THEN (IF status[r] = "open" THEN "sent" ELSE "rejected")
                      ELSE pc[v][s]
  /\ UNCHANGED <<guiVars, roundHandlers, picked, roundVars, shown>>

LEMMA RequestEffect ==
  ASSUME ConvInv, NEW u \in User, NEW r \in Round, NextConvoRequest(u, r)
  PROVE  \E p \in User, x \in Request : Sends(u, r, p, x)
<1>t. ConvTypes /\ RoundInv(u, r) /\ HandlerInv(u) /\ LedgerOf(u)
  BY Zenon DEF ConvInv
<1>1. pc[u][r] = "picked" /\ request[u][r] = None /\ stage[u] = "online" /\ convoHandler[u] \in User
  BY <1>t, Zenon DEF NextConvoRequest, RoundInv, HandlerInv
<1>2. PICK p \in User : p = convoHandler[u]
  BY <1>1, Zenon
<1>3. PICK q : q = outQueue[u][p] /\ q \in Seq(Text)
  BY <1>t DEF ConvTypes
<1>4. PICK b : b = Marshal(IF q = <<>> THEN Timestamp ELSE Head(q))
  BY Zenon
<1>5. /\ Body(u, p, b)
      /\ IF q = <<>> THEN b = Timestamp ELSE b # Timestamp /\ b.k = Head(q).k
  <2>1. CASE q = <<>>
    BY <1>4, <2>1, Zenon DEF Marshal, Body
  <2>2. CASE q # <<>>
    <3>1. Head(q) = q[1] /\ 1 \in DOMAIN q
      BY <1>3, <2>2
    <3>2. TextOf(u, p, Head(q))
      <4>1. \A i \in DOMAIN outQueue[u][p] : TextOf(u, p, outQueue[u][p][i])
        BY <1>t, Zenon DEF LedgerOf, Ledger
      <4> QED BY <1>3, <3>1, <4>1, Zenon
    <3>3. Head(q) \in Text /\ Head(q).len = Lengths[Head(q).k] /\ Head(q).from = u /\ Head(q).to = p
      BY <3>2, Zenon DEF TextOf
    <3>4. b = Marshal(Head(q))
      BY <1>4, <2>2, Zenon
    <3> QED BY <2>2, <3>3, <3>4, MarshalIs, Sentinels, Zenon DEF Body
  <2> QED BY <2>1, <2>2, Zenon
<1>6. PICK x : x = Make(u, p, r, b)
  BY Zenon
<1>7. /\ Made(u, r, x) /\ x \in Request /\ x.msg \in Sealed
      /\ x.peer = p /\ x.msg = Seal(u, p, r, b) /\ x.msg.body = b
  BY <1>5, <1>6, MadeIs
<1>8. x # None /\ x.msg # None
  BY <1>7, Sentinels, Zenon
<1>9. /\ outQueue' = [outQueue EXCEPT ![u][p] = Dequeued(q)]
      /\ pendingRounds' = [pendingRounds EXCEPT ![u][p][r] = x.msg]
      /\ request' = [request EXCEPT ![u][r] = x]
      /\ pc' = [pc EXCEPT ![u][r] = IF status[r] = "open" THEN "sent" ELSE "rejected"]
      /\ UNCHANGED <<guiVars, roundHandlers, picked, roundVars, shown>>
  <2>1. x.msg = Seal(u, p, r, Marshal(IF q = <<>> THEN Timestamp ELSE Head(q)))
    BY <1>4, <1>7, Zenon
  <2>2. x = [peer |-> p, drop |-> deadDrop(u, p), msg |-> x.msg]
    BY <1>6, <1>7, Zenon DEF Make
  <2> QED BY <1>2, <1>3, <2>1, <2>2, Zenon DEF NextConvoRequest
<1>10. Dequeued(q) \in Seq(Text)
  BY <1>3 DEF Dequeued
<1>11. /\ outQueue' \in [User -> [User -> Seq(Text)]]
       /\ \A v \in User : v # u => outQueue'[v] = outQueue[v]
       /\ outQueue'[u] = [outQueue[u] EXCEPT ![p] = Dequeued(outQueue[u][p])]
  <2>1. outQueue \in [User -> [User -> Seq(Text)]]
    BY <1>t, Zenon DEF ConvTypes
  <2> QED BY <1>3, <1>9, <1>10, <2>1, Point, Zenon
<1>12. /\ request' \in [User -> [Round -> Request \cup {None}]]
       /\ \A v \in User : v # u => request'[v] = request[v]
       /\ \A v \in User : \A s \in Round :
            request'[v][s] = IF v = u /\ s = r THEN x ELSE request[v][s]
  <2>1. request \in [User -> [Round -> Request \cup {None}]] /\ x \in Request \cup {None}
    BY <1>t, <1>7, Zenon DEF ConvTypes
  <2> QED BY <1>9, <2>1, Point, SMTT(60)
<1>13. /\ pc' \in [User -> [Round -> {"none", "picked", "sent", "rejected", "finished"}]]
       /\ \A v \in User : \A s \in Round :
            pc'[v][s] = IF v = u /\ s = r THEN (IF status[r] = "open" THEN "sent" ELSE "rejected")
                        ELSE pc[v][s]
  <2>1. pc \in [User -> [Round -> {"none", "picked", "sent", "rejected", "finished"}]]
    BY <1>t, Zenon DEF ConvTypes
  <2>2. PICK c \in {"none", "picked", "sent", "rejected", "finished"} :
          c = IF status[r] = "open" THEN "sent" ELSE "rejected"
    BY Zenon
  <2>3. pc' = [pc EXCEPT ![u][r] = c]
    BY <1>9, <2>2, Zenon
  <2>4. /\ pc' \in [User -> [Round -> {"none", "picked", "sent", "rejected", "finished"}]]
        /\ \A v \in User : \A s \in Round :
             pc'[v][s] = IF v = u /\ s = r THEN c ELSE pc[v][s]
    BY <2>1, <2>3, Point
  <2> QED BY <2>2, <2>4, Zenon
<1>14. /\ pendingRounds' \in [User -> [User -> [Round -> Sealed \cup {None}]]]
       /\ \A v \in User : \A o \in User : \A s \in Round :
            pendingRounds'[v][o][s] =
              IF v = u /\ o = p /\ s = r THEN x.msg ELSE pendingRounds[v][o][s]
  <2>1. /\ pendingRounds \in [User -> [User -> [Round -> Sealed \cup {None}]]]
        /\ x.msg \in Sealed \cup {None}
    BY <1>t, <1>7, Zenon DEF ConvTypes
  <2> QED BY <1>9, <2>1
<1>15. IF outQueue[u][p] = <<>> THEN x.msg.body = Timestamp
       ELSE Full(x) /\ Num(x) = Head(outQueue[u][p]).k
  BY <1>3, <1>5, <1>7, <1>8, Zenon DEF Full, Num
<1>16. Sends(u, r, p, x)
  <2>1. UNCHANGED <<guiVars, roundHandlers, picked, roundVars, shown>>
    BY <1>9, Zenon
  <2>2. Made(u, r, x) /\ x.peer = p
    BY <1>7, Zenon
  <2>3. \A v \in User : v # u => outQueue'[v] = outQueue[v] /\ request'[v] = request[v]
    BY <1>11, <1>12, Zenon
  <2>4. \A v \in User : \A s \in Round :
          /\ request'[v][s] = IF v = u /\ s = r THEN x ELSE request[v][s]
          /\ pc'[v][s] = IF v = u /\ s = r THEN (IF status[r] = "open" THEN "sent" ELSE "rejected")
                         ELSE pc[v][s]
    BY <1>12, <1>13, Zenon
  <2>5. /\ outQueue' \in [User -> [User -> Seq(Text)]]
        /\ pendingRounds' \in [User -> [User -> [Round -> Sealed \cup {None}]]]
        /\ request' \in [User -> [Round -> Request \cup {None}]]
        /\ pc' \in [User -> [Round -> {"none", "picked", "sent", "rejected", "finished"}]]
    BY <1>11, <1>12, <1>13, <1>14, Zenon
  <2>6. /\ outQueue'[u] = [outQueue[u] EXCEPT ![p] = Dequeued(outQueue[u][p])]
        /\ \A v \in User : \A o \in User : \A s \in Round :
             pendingRounds'[v][o][s] =
               IF v = u /\ o = p /\ s = r THEN x.msg ELSE pendingRounds[v][o][s]
    BY <1>11, <1>14, Zenon
  <2> QED BY <1>1, <1>2, <1>8, <1>15, <2>1, <2>2, <2>3, <2>4, <2>5, <2>6, Zenon DEF Sends
<1> QED BY <1>7, <1>16, Zenon

\* The message returned to u is in the request of some user in the batch.
LEMMA ReplyIs ==
  ASSUME ConvInv, NEW u \in User, NEW r \in Round, pc[u][r] = "sent"
  PROVE  \E v \in User : /\ InBatch(v, r) /\ Reply(u, r) = request[v][r].msg
                         /\ request[v][r] # None /\ Made(v, r, request[v][r])
<1>1. PICK v \in User : InBatch(v, r) /\ Reply(u, r) = request[v][r].msg
  <2>1. CASE Partners(u, r) = {}
    BY <2>1, Zenon DEF Reply, InBatch
  <2>2. CASE Partners(u, r) # {}
    <3>1. PICK v : v = CHOOSE w \in Partners(u, r) : TRUE
      BY Zenon
    <3>2. v \in Partners(u, r)
      BY <2>2, <3>1, Zenon
    <3> QED BY <2>2, <3>1, <3>2, Zenon DEF Reply, Partners
  <2> QED BY <2>1, <2>2, Zenon
<1>2. request[v][r] # None /\ Made(v, r, request[v][r])
  BY <1>1, Zenon DEF ConvInv, RoundInv, InBatch
<1> QED BY <1>1, <1>2, Zenon

\* HandleConvoResponse of round r, with p the conversation of the round.
Accepts(u, r, p) ==
  /\ pendingRounds[u][p][r] # None
  /\ ~(Reply(u, r) = pendingRounds[u][p][r] /\ ~Solo(u, p))
  /\ Opens(u, p, r, Reply(u, r))

Handles(u, r, p) ==
  /\ pc[u][r] = "sent" /\ status[r] = "done" /\ p = picked[u][r]
  /\ roundHandlers' \in [User -> [Round -> User \cup {None}]]
  /\ pendingRounds' \in [User -> [User -> [Round -> Sealed \cup {None}]]]
  /\ pc' \in [User -> [Round -> {"none", "picked", "sent", "rejected", "finished"}]]
  /\ \A v \in User : \A o \in User : \A s \in Round :
       pendingRounds'[v][o][s] = IF v = u /\ o = p /\ s = r THEN None ELSE pendingRounds[v][o][s]
  /\ \A v \in User : \A s \in Round :
       /\ roundHandlers'[v][s] = IF v = u /\ s = r THEN None ELSE roundHandlers[v][s]
       /\ pc'[v][s] = IF v = u /\ s = r THEN "finished" ELSE pc[v][s]
  /\ shown' = [shown EXCEPT ![u] =
                 IF Accepts(u, r, p) /\ Reply(u, r).body # Timestamp
                 THEN Append(@, [name |-> p, text |-> Reply(u, r).body]) ELSE @]
  /\ UNCHANGED <<guiVars, outQueue, request, picked, roundVars>>

LEMMA ResponseEffect ==
  ASSUME ConvInv, NEW u \in User, NEW r \in Round, HandleConvoResponse(u, r)
  PROVE  \E p \in User : Handles(u, r, p)
<1>t. ConvTypes /\ RoundInv(u, r)
  BY Zenon DEF ConvInv
<1>1. pc[u][r] = "sent" /\ status[r] = "done"
  BY Zenon DEF HandleConvoResponse
<1>2. PICK p \in User : p = picked[u][r] /\ p = roundHandlers[u][r]
  BY <1>t, <1>1, Zenon DEF RoundInv
<1>3. /\ roundHandlers' = [roundHandlers EXCEPT ![u][r] = None]
      /\ pendingRounds' = [pendingRounds EXCEPT ![u][p][r] = None]
      /\ pc' = [pc EXCEPT ![u][r] = "finished"]
      /\ shown' = [shown EXCEPT ![u] =
                    IF Accepts(u, r, p) /\ Reply(u, r).body # Timestamp
                    THEN Append(@, [name |-> p, text |-> Reply(u, r).body]) ELSE @]
      /\ UNCHANGED <<guiVars, outQueue, request, picked, roundVars>>
  BY <1>2, Zenon DEF HandleConvoResponse, ResponseHandler, Accepts
<1>4. /\ roundHandlers' \in [User -> [Round -> User \cup {None}]]
      /\ \A v \in User : \A s \in Round :
           roundHandlers'[v][s] = IF v = u /\ s = r THEN None ELSE roundHandlers[v][s]
  <2>1. roundHandlers \in [User -> [Round -> User \cup {None}]] /\ None \in User \cup {None}
    BY <1>t, Zenon DEF ConvTypes
  <2> QED BY <1>3, <2>1, Point, SMTT(60)
<1>5. /\ pc' \in [User -> [Round -> {"none", "picked", "sent", "rejected", "finished"}]]
      /\ \A v \in User : \A s \in Round :
           pc'[v][s] = IF v = u /\ s = r THEN "finished" ELSE pc[v][s]
  <2>1. pc \in [User -> [Round -> {"none", "picked", "sent", "rejected", "finished"}]]
    BY <1>t, Zenon DEF ConvTypes
  <2> QED BY <1>3, <2>1, Point
<1>6. /\ pendingRounds' \in [User -> [User -> [Round -> Sealed \cup {None}]]]
      /\ \A v \in User : \A o \in User : \A s \in Round :
           pendingRounds'[v][o][s] =
             IF v = u /\ o = p /\ s = r THEN None ELSE pendingRounds[v][o][s]
  <2>1. /\ pendingRounds \in [User -> [User -> [Round -> Sealed \cup {None}]]]
        /\ None \in Sealed \cup {None}
    BY <1>t, Zenon DEF ConvTypes
  <2> QED BY <1>3, <2>1, Zenon
<1>7. Handles(u, r, p)
  BY <1>1, <1>2, <1>3, <1>4, <1>5, <1>6, Zenon DEF Handles
<1> QED BY <1>7, Zenon

\* A text that u accepts from p was sent by p, in the conversation with u.
LEMMA AcceptedIs ==
  ASSUME ConvInv, NEW u \in User, NEW r \in Round, pc[u][r] = "sent", NEW p \in User,
         Opens(u, p, r, Reply(u, r)), Reply(u, r).body # Timestamp
  PROVE  /\ InBatch(p, r) /\ request[p][r] # None /\ Full(request[p][r])
         /\ Reply(u, r) = request[p][r].msg
         /\ Reply(u, r).body \in Text /\ Reply(u, r).body.from = p /\ Reply(u, r).body.to = u
         /\ Cut(Reply(u, r).body)
<1>1. PICK v \in User : /\ InBatch(v, r) /\ Reply(u, r) = request[v][r].msg
                        /\ request[v][r] # None /\ Made(v, r, request[v][r])
  BY ReplyIs, Zenon
<1>2. PICK o \in User : o = request[v][r].peer
  BY <1>1, Zenon DEF Made
<1>3. /\ Reply(u, r).body \in Text /\ Reply(u, r).body.from = v /\ Reply(u, r).body.to = o
      /\ Cut(Reply(u, r).body)
  BY <1>1, <1>2, Zenon DEF Made
<1>4. Reply(u, r).keys = {v, o} /\ Reply(u, r).role = myRole(v, o)
  <2>1. request[v][r].msg = Seal(v, o, r, request[v][r].msg.body)
    BY <1>1, <1>2, SMTT(60) DEF Made
  <2> QED BY <1>1, <2>1 DEF Seal
<1>5. {v, o} = {u, p} /\ myRole(v, o) = myRole(p, u)
  BY <1>4, Zenon DEF Opens
<1>6. v = p /\ o = u
  BY <1>5, RolesDiffer, Zenon
<1> QED BY <1>1, <1>3, <1>6, Zenon DEF Full

-----------------------------------------------------------------------------
LEMMA InitConv == Init => ConvInv
<1> SUFFICES ASSUME Init PROVE ConvInv
  BY Zenon
<1>1. ConvTypes
  BY DEF Init, ConvTypes
<1>2. ASSUME NEW u \in User PROVE HandlerInv(u) /\ ShownInv(u)
  BY SMTT(60) DEF Init, HandlerInv, ShownInv, IsInjective
<1>3. ASSUME NEW u \in User PROVE LedgerOf(u)
  <2>1. MaxTexts[u] \in Nat /\ QueueCap \in Nat
    BY ConversationAssumption, Zenon DEF ConversationAssumption
  <2>2. /\ outQueue[u] = [p \in User |-> <<>>] /\ gui[u] = None /\ typed[u] = 0
        /\ request[u] = [r \in Round |-> None]
    BY Zenon DEF Init
  <2>3. \A r \in Round : ~Full([s \in Round |-> None][r])
    BY Zenon DEF Full
  <2> QED BY <2>1, <2>2, <2>3 DEF LedgerOf, Ledger
<1>4. ASSUME NEW u \in User, NEW r \in Round PROVE RoundInv(u, r) /\ ExchangeInv(u, r)
  BY Zenon DEF Init, RoundInv, ExchangeInv
<1> QED BY <1>1, <1>2, <1>3, <1>4, Zenon DEF ConvInv

-----------------------------------------------------------------------------
\* What a step does to the texts of the user who takes it.
LEMMA TypeEffect ==
  ASSUME ConvInv, NEW u \in User, TypeText(u)
  PROVE  \E t \in Text : \E p \in User :
           /\ gui[u] = None /\ typed[u] < MaxTexts[u]
           /\ TextOf(u, p, t) /\ t.to = p /\ t.k = typed[u] + 1
           /\ typed' = [typed EXCEPT ![u] = typed[u] + 1]
           /\ \/ /\ Len(outQueue[u][p]) < QueueCap /\ gui' = gui
                 /\ outQueue' = [outQueue EXCEPT ![u][p] = Append(outQueue[u][p], t)]
              \/ gui' = [gui EXCEPT ![u] = t] /\ outQueue' = outQueue
<1>1. PICK p \in User : p = selectedConvo[u]
  BY Zenon DEF ConvInv, ConvTypes
<1>2. PICK k : k = typed[u] + 1
  BY Zenon
<1>3. PICK t : t = [from |-> u, to |-> p, k |-> k, len |-> Lengths[k]]
  BY Zenon
<1>4. /\ gui[u] = None /\ typed[u] < MaxTexts[u]
      /\ typed' = [typed EXCEPT ![u] = typed[u] + 1]
      /\ \/ /\ Len(outQueue[u][p]) < QueueCap /\ gui' = gui
            /\ outQueue' = [outQueue EXCEPT ![u][p] = Append(outQueue[u][p], t)]
         \/ gui' = [gui EXCEPT ![u] = t] /\ outQueue' = outQueue
  BY <1>1, <1>2, <1>3, Zenon DEF TypeText
<1>5. k \in Nat /\ Lengths[k] \in Nat
  <2>1. typed[u] \in Nat /\ MaxTexts[u] \in Nat
    BY ConversationAssumption, Zenon DEF ConvInv, ConvTypes, ConversationAssumption
  <2>2. k \in 1 .. MaxTexts[u]
    BY <1>2, <1>4, <2>1
  <2> QED BY <2>2, ConversationAssumption DEF ConversationAssumption
<1>6. t \in Text
  BY <1>3, <1>5, Zenon DEF Text
<1>7. TextOf(u, p, t) /\ t.to = p /\ t.k = typed[u] + 1
  BY <1>2, <1>3, <1>6, Zenon DEF TextOf
<1> QED BY <1>4, <1>6, <1>7, Zenon

\* The ledgers are kept.
LEMMA NextLedger ==
  ASSUME ConvInv, [Next]_vars, NEW v \in User
  PROVE  LedgerOf(v)'
<1>t. ConvTypes /\ LedgerOf(v)
  BY Zenon DEF ConvInv
<1>0. ASSUME outQueue'[v] = outQueue[v], gui'[v] = gui[v], typed'[v] = typed[v],
             request'[v] = request[v]
      PROVE  LedgerOf(v)'
  BY <1>0, <1>t, Zenon DEF LedgerOf
<1>1. ASSUME NEW u \in User, ConnectStart(u) \/ ConnectEnd(u) \/ \E p \in User : Talk(u, p)
      PROVE  LedgerOf(v)'
  BY <1>0, <1>1, Zenon DEF ConnectStart, ConnectEnd, Talk
<1>2. ASSUME NEW u \in User, TypeText(u) PROVE LedgerOf(v)'
  <2>0. UNCHANGED request
    BY <1>2, Zenon DEF TypeText
  <2>1. PICK t \in Text, p \in User :
          /\ gui[u] = None /\ typed[u] < MaxTexts[u]
          /\ TextOf(u, p, t) /\ t.to = p /\ t.k = typed[u] + 1
          /\ typed' = [typed EXCEPT ![u] = typed[u] + 1]
          /\ \/ /\ Len(outQueue[u][p]) < QueueCap /\ gui' = gui
                /\ outQueue' = [outQueue EXCEPT ![u][p] = Append(outQueue[u][p], t)]
             \/ gui' = [gui EXCEPT ![u] = t] /\ outQueue' = outQueue
    BY <1>2, TypeEffect, Zenon
  <2>2. CASE v # u
    BY <1>0, <1>t, <2>0, <2>1, <2>2, Zenon DEF ConvTypes
  <2>3. CASE v = u
    <3>1. typed'[v] = typed[v] + 1 /\ request'[v] = request[v]
      BY <1>t, <2>0, <2>1, <2>3, Zenon DEF ConvTypes
    <3>2. Ledger(v, outQueue[v], t, typed[v] + 1, request[v])
      BY <1>t, <2>1, <2>3, LedgerBlocks, Zenon DEF LedgerOf
    <3>3. CASE gui' = [gui EXCEPT ![u] = t] /\ outQueue' = outQueue
      <4>1. gui'[v] = t /\ outQueue'[v] = outQueue[v]
        BY <1>t, <2>3, <3>3, Zenon DEF ConvTypes
      <4> QED BY <3>1, <3>2, <4>1, Zenon DEF LedgerOf
    <3>4. CASE /\ Len(outQueue[u][p]) < QueueCap /\ gui' = gui
               /\ outQueue' = [outQueue EXCEPT ![u][p] = Append(outQueue[u][p], t)]
      <4>1. gui'[v] = None /\ outQueue'[v] = [outQueue[v] EXCEPT ![p] = Append(outQueue[v][p], t)]
        BY <1>t, <2>1, <2>3, <3>4, SMTT(60) DEF ConvTypes
      <4>2. t # None
        BY Sentinels, Zenon
      <4>3. Ledger(v, [outQueue[v] EXCEPT ![p] = Append(outQueue[v][p], t)], None,
                   typed[v] + 1, request[v])
        BY <2>1, <2>3, <3>2, <3>4, <4>2, LedgerQueues, Zenon
      <4> QED BY <3>1, <4>1, <4>3, Zenon DEF LedgerOf
    <3> QED BY <2>1, <3>3, <3>4, Zenon
  <2> QED BY <2>2, <2>3, Zenon
<1>3. ASSUME NEW u \in User, Unblock(u) PROVE LedgerOf(v)'
  <2>1. /\ gui[u] # None /\ UNCHANGED <<typed, request>>
        /\ Len(outQueue[u][gui[u].to]) < QueueCap
        /\ outQueue' = [outQueue EXCEPT ![u][gui[u].to] = Append(outQueue[u][gui[u].to], gui[u])]
        /\ gui' = [gui EXCEPT ![u] = None]
    BY <1>3, Zenon DEF Unblock
  <2>2. CASE v # u
    BY <1>0, <1>t, <2>1, <2>2, Zenon DEF ConvTypes
  <2>3. CASE v = u
    <3>1. gui[v] \in Text /\ gui[v].to \in User
      BY <1>t, <2>1, <2>3, Zenon DEF ConvTypes, Text
    <3>2. Ledger(v, [outQueue[v] EXCEPT ![gui[v].to] = Append(outQueue[v][gui[v].to], gui[v])],
                 None, typed[v], request[v])
      BY <1>t, <2>1, <2>3, <3>1, LedgerQueues, Zenon DEF LedgerOf
    <3>3. /\ gui'[v] = None
          /\ outQueue'[v] =
               [outQueue[v] EXCEPT ![gui[v].to] = Append(outQueue[v][gui[v].to], gui[v])]
      BY <1>t, <2>1, <2>3, <3>1, Zenon DEF ConvTypes
    <3> QED BY <2>1, <3>2, <3>3, Zenon DEF LedgerOf
  <2> QED BY <2>2, <2>3, Zenon
<1>4. ASSUME NEW r \in Round, EntryStep(r) PROVE LedgerOf(v)'
  BY <1>0, <1>4, Zenon DEF EntryStep, OpenRound, CloseRound, EndRound, guiVars
<1>5. ASSUME NEW u \in User, NEW r \in Round, PickHandler(u, r) \/ HandleConvoResponse(u, r)
      PROVE  LedgerOf(v)'
  BY <1>0, <1>5, Zenon DEF PickHandler, HandleConvoResponse, guiVars
<1>6. ASSUME NEW u \in User, NEW r \in Round, NextConvoRequest(u, r) PROVE LedgerOf(v)'
  <2>1. PICK p \in User, x \in Request : Sends(u, r, p, x)
    BY <1>6, RequestEffect, Zenon
  <2>2. UNCHANGED <<gui, typed>>
    BY <2>1, Zenon DEF Sends, guiVars
  <2>3. CASE v # u
    BY <1>0, <2>1, <2>2, <2>3, Zenon DEF Sends
  <2>4. CASE v = u
    <3>1. /\ request[v][r] = None
          /\ \A s \in Round : request'[v][s] = IF s = r THEN x ELSE request[v][s]
          /\ outQueue'[v] = [outQueue[v] EXCEPT ![p] = Dequeued(outQueue[v][p])]
      BY <2>1, <2>4, SMTT(60) DEF Sends
    <3>2. PICK q : q = outQueue[v] /\ q \in [User -> Seq(Text)]
      BY <1>t, Zenon DEF ConvTypes
    <3>3. PICK rq : rq = request[v]
      BY Zenon
    <3>4. PICK nrq : nrq = request'[v]
      BY Zenon
    <3>5. nrq[r] = x /\ \A s \in Round : s # r => nrq[s] = rq[s]
      BY <3>1, <3>3, <3>4, Zenon
    <3>6. CASE q[p] = <<>>
      <4>0. [q EXCEPT ![p] = q[p]] = q
        BY <3>2, Zenon
      <4>1. outQueue'[v] = q
        BY <3>1, <3>2, <3>6, <4>0, Zenon DEF Dequeued
      <4>2. nrq[r].msg.body = Timestamp
        BY <2>1, <2>4, <3>2, <3>5, <3>6, Zenon DEF Sends
      <4>3. Ledger(v, q, gui[v], typed[v], nrq)
        BY <1>t, <3>1, <3>2, <3>3, <3>5, <4>2, LedgerIdle, SMTT(60) DEF LedgerOf
      <4> QED BY <2>2, <3>4, <4>1, <4>3, Zenon DEF LedgerOf
    <3>7. CASE q[p] # <<>>
      <4>0. PICK new : new = [q EXCEPT ![p] = Tail(q[p])]
        BY Zenon
      <4>1. outQueue'[v] = new
        BY <3>1, <3>2, <3>7, <4>0, Zenon DEF Dequeued
      <4>2. Full(nrq[r]) /\ Num(nrq[r]) = Head(q[p]).k
        BY <2>1, <2>4, <3>2, <3>5, <3>7, Zenon DEF Sends
      <4>3. Ledger(v, q, gui[v], typed[v], rq) /\ rq[r] = None
        BY <1>t, <3>1, <3>2, <3>3, Zenon DEF LedgerOf
      <4>4. PICK g, n : g = gui[v] /\ n = typed[v]
        BY Zenon
      <4>5. Ledger(v, q, g, n, rq)
        BY <4>3, <4>4, Zenon
      <4>6. \A s \in Round : s # r => nrq[s] = rq[s]
        BY <3>5, Zenon
      <4>7. Ledger(v, new, g, n, nrq)
        BY <3>7, <4>0, <4>2, <4>3, <4>5, <4>6, LedgerSends, Zenon
      <4> QED BY <2>2, <3>4, <4>1, <4>4, <4>7, Zenon DEF LedgerOf
    <3> QED BY <3>6, <3>7, Zenon
  <2> QED BY <2>3, <2>4, Zenon
<1>7. CASE UNCHANGED vars
  BY <1>0, <1>7, Zenon DEF vars, guiVars
<1> QED BY <1>1, <1>2, <1>3, <1>4, <1>5, <1>6, <1>7, Zenon DEF Next, GuiStep, ClientStep

-----------------------------------------------------------------------------
\* The client's conversation.
LEMMA NextHandler ==
  ASSUME ConvInv, [Next]_vars, NEW v \in User
  PROVE  HandlerInv(v)'
<1>t. ConvTypes /\ HandlerInv(v)
  BY Zenon DEF ConvInv
<1> USE DEF HandlerInv
<1>1. ASSUME NEW u \in User, ConnectStart(u) PROVE HandlerInv(v)'
  BY <1>t, <1>1, Zenon DEF ConnectStart, ConvTypes, roundVars
<1>2. ASSUME NEW u \in User, ConnectEnd(u) PROVE HandlerInv(v)'
  BY <1>t, <1>2, Zenon DEF ConnectEnd, ConvTypes, roundVars
<1>3. ASSUME NEW u \in User, NEW p \in User, Talk(u, p) PROVE HandlerInv(v)'
  BY <1>t, <1>3, Zenon DEF Talk, Activated, ConvTypes, roundVars
<1>4. ASSUME NEW u \in User, TypeText(u) \/ Unblock(u) PROVE HandlerInv(v)'
  BY <1>t, <1>4, Zenon DEF TypeText, Unblock, roundVars
<1>5. ASSUME NEW r \in Round, OpenRound(r) PROVE HandlerInv(v)'
  BY <1>t, <1>5, Zenon DEF OpenRound, ConvTypes, guiVars
<1>6. ASSUME NEW r \in Round, CloseRound(r) \/ EndRound(r) PROVE HandlerInv(v)'
  BY <1>t, <1>6, Zenon DEF CloseRound, EndRound, guiVars
<1>7. ASSUME NEW u \in User, NEW r \in Round, ClientStep(u, r) PROVE HandlerInv(v)'
  BY <1>t, <1>7, Zenon
     DEF ClientStep, PickHandler, NextConvoRequest, HandleConvoResponse, guiVars, roundVars
<1>8. CASE UNCHANGED vars
  BY <1>t, <1>8, Zenon DEF vars, guiVars, roundVars
<1> QED BY <1>1, <1>2, <1>3, <1>4, <1>5, <1>6, <1>7, <1>8, Zenon DEF Next, GuiStep, EntryStep

\* What is shown keeps its type.
LEMMA ShownType ==
  ASSUME ConvInv, NEW u \in User, NEW r \in Round, NEW p \in User, Handles(u, r, p)
  PROVE  shown' \in [User -> Seq([name : User, text : Text])]
<1>e. PICK E : E = [name : User, text : Text]
  BY Zenon
<1>0. PICK S : S = Seq(E)
  BY Zenon
<1>1. shown \in [User -> S]
  BY <1>e, <1>0, Zenon DEF ConvInv, ConvTypes
<1>2. PICK l \in S : shown' = [shown EXCEPT ![u] = l]
  <2>1. CASE Accepts(u, r, p) /\ Reply(u, r).body # Timestamp
    <3>1. Reply(u, r).body \in Text
      BY <2>1, AcceptedIs, Zenon DEF Accepts, Handles
    <3>2. PICK x \in E : x = [name |-> p, text |-> Reply(u, r).body]
      BY <1>e, <3>1, Zenon
    <3>3. shown' = [shown EXCEPT ![u] = Append(shown[u], x)]
      BY <2>1, <3>2, Zenon DEF Handles
    <3>4. Append(shown[u], x) \in S
      BY <1>0, <1>1, <3>2
    <3> QED BY <3>3, <3>4, Zenon
  <2>2. CASE ~(Accepts(u, r, p) /\ Reply(u, r).body # Timestamp)
    BY <1>1, <2>2, Zenon DEF Handles
  <2> QED BY <2>1, <2>2, Zenon
<1>3. shown' \in [User -> S]
  BY <1>1, <1>2, Zenon
<1> QED BY <1>e, <1>0, <1>3, Zenon

LEMMA NextTypes == ConvInv /\ [Next]_vars => ConvTypes'
<1> SUFFICES ASSUME ConvInv, [Next]_vars PROVE ConvTypes'
  BY Zenon
<1>t. ConvTypes
  BY Zenon DEF ConvInv
<1>1. ASSUME NEW u \in User, ConnectStart(u) \/ ConnectEnd(u) PROVE ConvTypes'
  <2>1. UNCHANGED <<selectedConvo, typed, gui, raced, outQueue, pendingRounds, roundHandlers,
                    pc, request, picked, status, told, shown>>
    BY <1>1, Zenon DEF ConnectStart, ConnectEnd, roundVars
  <2>2. /\ stage' \in [User -> {"offline", "connecting", "online"}]
        /\ arg' \in [User -> User \cup {None}]
        /\ convoHandler' \in [User -> User \cup {None}]
    <3>t. /\ stage \in [User -> {"offline", "connecting", "online"}]
          /\ arg \in [User -> User \cup {None}]
          /\ selectedConvo \in [User -> User]
          /\ convoHandler \in [User -> User \cup {None}]
      BY <1>t, Zenon DEF ConvTypes
    <3>1. CASE ConnectStart(u)
      BY <3>t, <3>1, Zenon DEF ConnectStart
    <3>2. CASE ConnectEnd(u)
      BY <3>t, <3>2, Zenon DEF ConnectEnd
    <3> QED BY <1>1, <3>1, <3>2, Zenon
  <2> QED BY <1>t, <2>1, <2>2, Zenon DEF ConvTypes
<1>2. ASSUME NEW u \in User, NEW p \in User, Talk(u, p) PROVE ConvTypes'
  BY <1>t, <1>2, Zenon DEF ConvTypes, Talk, Activated, roundVars
<1>3. ASSUME NEW u \in User, TypeText(u) PROVE ConvTypes'
  <2>1. PICK t \in Text, p \in User :
          /\ typed' = [typed EXCEPT ![u] = typed[u] + 1]
          /\ \/ gui' = gui /\ outQueue' = [outQueue EXCEPT ![u][p] = Append(outQueue[u][p], t)]
             \/ gui' = [gui EXCEPT ![u] = t] /\ outQueue' = outQueue
    BY <1>3, TypeEffect, Zenon
  <2>2. UNCHANGED <<stage, arg, selectedConvo, convoHandler, raced, pendingRounds,
                    roundHandlers, pc, request, picked, status, told, shown>>
    BY <1>3, Zenon DEF TypeText, roundVars
  <2>t. /\ typed \in [User -> Nat] /\ gui \in [User -> Text \cup {None}]
        /\ outQueue \in [User -> [User -> Seq(Text)]]
    BY <1>t, Zenon DEF ConvTypes
  <2>3. typed' \in [User -> Nat]
    BY <2>t, <2>1
  <2>4. gui' \in [User -> Text \cup {None}]
    BY <2>t, <2>1, Zenon
  <2>5. outQueue' \in [User -> [User -> Seq(Text)]]
    <3>1. Append(outQueue[u][p], t) \in Seq(Text)
      BY <2>t
    <3>2. [outQueue EXCEPT ![u][p] = Append(outQueue[u][p], t)] \in [User -> [User -> Seq(Text)]]
      BY <2>t, <3>1, Zenon
    <3> QED BY <2>t, <2>1, <3>2, Zenon
  <2> QED BY <1>t, <2>2, <2>3, <2>4, <2>5, Zenon DEF ConvTypes
<1>4. ASSUME NEW u \in User, Unblock(u) PROVE ConvTypes'
  <2>1. UNCHANGED <<stage, arg, selectedConvo, convoHandler, typed, raced, pendingRounds,
                    roundHandlers, pc, request, picked, status, told, shown>>
    BY <1>4, Zenon DEF Unblock, roundVars
  <2>2. gui[u] \in Text /\ gui[u].to \in User
    BY <1>t, <1>4, Zenon DEF Unblock, ConvTypes, Text
  <2>3. PICK t \in Text, p \in User : t = gui[u] /\ p = gui[u].to
    BY <2>2, Zenon
  <2>4. /\ gui' = [gui EXCEPT ![u] = None]
        /\ outQueue' = [outQueue EXCEPT ![u][p] = Append(outQueue[u][p], t)]
    BY <1>4, <2>3, Zenon DEF Unblock
  <2>5. gui' \in [User -> Text \cup {None}]
    BY <1>t, <2>4, Zenon DEF ConvTypes
  <2>6. outQueue' \in [User -> [User -> Seq(Text)]]
    BY <1>t, <2>4, SMTT(60) DEF ConvTypes
  <2> QED BY <1>t, <2>1, <2>5, <2>6, Zenon DEF ConvTypes
<1>5. ASSUME NEW r \in Round, EntryStep(r) PROVE ConvTypes'
  <2>1. UNCHANGED <<stage, arg, selectedConvo, convoHandler, typed, gui, raced, outQueue,
                    pendingRounds, roundHandlers, pc, request, picked, shown>>
    BY <1>5, Zenon DEF EntryStep, OpenRound, CloseRound, EndRound, guiVars
  <2>2. /\ status' \in [Round -> {"future", "open", "closed", "done"}]
        /\ told' \in [Round -> SUBSET User]
    <3>t. /\ status \in [Round -> {"future", "open", "closed", "done"}]
          /\ told \in [Round -> SUBSET User]
      BY <1>t, Zenon DEF ConvTypes
    <3>1. CASE OpenRound(r)
      BY <3>t, <3>1, Zenon DEF OpenRound
    <3>2. CASE CloseRound(r) \/ EndRound(r)
      BY <3>t, <3>2, Zenon DEF CloseRound, EndRound
    <3> QED BY <1>5, <3>1, <3>2, Zenon DEF EntryStep
  <2> QED BY <1>t, <2>1, <2>2, Zenon DEF ConvTypes
<1>6. ASSUME NEW u \in User, NEW r \in Round, PickHandler(u, r) PROVE ConvTypes'
  <2>1. PICK h \in User : Picks(u, r, h)
    BY <1>6, PickEffect, Zenon
  <2> QED BY <1>t, <2>1, Zenon DEF ConvTypes, Picks, guiVars, roundVars
<1>7. ASSUME NEW u \in User, NEW r \in Round, NextConvoRequest(u, r) PROVE ConvTypes'
  <2>1. PICK p \in User, x \in Request : Sends(u, r, p, x)
    BY <1>7, RequestEffect, Zenon
  <2> QED BY <1>t, <2>1, Zenon DEF ConvTypes, Sends, guiVars, roundVars
<1>8. ASSUME NEW u \in User, NEW r \in Round, HandleConvoResponse(u, r) PROVE ConvTypes'
  <2>1. PICK p \in User : Handles(u, r, p)
    BY <1>8, ResponseEffect, Zenon
  <2>2. shown' \in [User -> Seq([name : User, text : Text])]
    BY <2>1, ShownType, Zenon
  <2> QED BY <1>t, <2>1, <2>2, Zenon DEF ConvTypes, Handles, guiVars, roundVars
<1>9. CASE UNCHANGED vars
  BY <1>t, <1>9, Zenon DEF ConvTypes, vars, guiVars, roundVars
<1> QED
  BY <1>1, <1>2, <1>3, <1>4, <1>5, <1>6, <1>7, <1>8, <1>9, Zenon DEF Next, GuiStep, ClientStep

-----------------------------------------------------------------------------
\* A step that does not touch u's round r.
LEMMA RoundKept ==
  ASSUME NEW u \in User, NEW r \in Round, RoundInv(u, r), pc'[u][r] = pc[u][r],
         stage[u] = "online" => stage'[u] = "online", request'[u][r] = request[u][r],
         \A p \in User : pendingRounds'[u][p][r] = pendingRounds[u][p][r],
         roundHandlers'[u][r] = roundHandlers[u][r], picked'[u][r] = picked[u][r],
         status[r] = "done" => status'[r] = "done"
  PROVE  RoundInv(u, r)'
BY SMTT(60) DEF RoundInv, Pending

LEMMA NextRoundState ==
  ASSUME ConvInv, [Next]_vars, NEW v \in User, NEW s \in Round
  PROVE  RoundInv(v, s)'
<1>t. ConvTypes /\ RoundInv(v, s)
  BY Zenon DEF ConvInv
<1>1. ASSUME NEW u \in User, GuiStep(u) PROVE RoundInv(v, s)'
  <2>1. UNCHANGED <<pendingRounds, roundHandlers, pc, request, picked, roundVars>>
    BY <1>1, Zenon DEF GuiStep, ConnectStart, ConnectEnd, Talk, TypeText, Unblock
  <2>2. stage[v] = "online" => stage'[v] = "online"
    BY <1>t, <1>1, Zenon
       DEF ConvTypes, GuiStep, ConnectStart, ConnectEnd, Talk, TypeText, Unblock
  <2> QED BY <1>t, <2>1, <2>2, RoundKept, Zenon DEF roundVars
<1>2. ASSUME NEW r \in Round, EntryStep(r) PROVE RoundInv(v, s)'
  <2>1. UNCHANGED <<stage, pendingRounds, roundHandlers, pc, request, picked>>
    BY <1>2, Zenon DEF EntryStep, OpenRound, CloseRound, EndRound, guiVars
  <2>2. status[s] = "done" => status'[s] = "done"
    BY <1>t, <1>2, Zenon DEF ConvTypes, EntryStep, OpenRound, CloseRound, EndRound
  <2> QED BY <1>t, <2>1, <2>2, RoundKept, Zenon
<1>3. ASSUME NEW u \in User, NEW r \in Round, PickHandler(u, r) PROVE RoundInv(v, s)'
  <2>0. PICK h \in User : Picks(u, r, h)
    BY <1>3, PickEffect, Zenon
  <2>1. UNCHANGED <<stage, pendingRounds, request, status>>
    BY <2>0, Zenon DEF Picks, guiVars, roundVars
  <2>2. CASE ~(v = u /\ s = r)
    <3>1. /\ pc'[v][s] = pc[v][s] /\ picked'[v][s] = picked[v][s]
          /\ roundHandlers'[v][s] = roundHandlers[v][s]
      BY <2>0, <2>2, SMTT(60) DEF Picks
    <3> QED BY <1>t, <2>1, <3>1, RoundKept, Zenon
  <2>3. CASE v = u /\ s = r
    <3>1. /\ pc[v][s] = "none" /\ stage[v] = "online" /\ pc'[v][s] = "picked"
          /\ picked'[v][s] = h /\ roundHandlers'[v][s] = h
      BY <2>0, <2>3, Zenon DEF Picks
    <3> QED BY <1>t, <2>1, <3>1, Zenon DEF RoundInv
  <2> QED BY <2>2, <2>3, Zenon
<1>4. ASSUME NEW u \in User, NEW r \in Round, NextConvoRequest(u, r) PROVE RoundInv(v, s)'
  <2>0. PICK p \in User, x \in Request : Sends(u, r, p, x)
    BY <1>4, RequestEffect, Zenon
  <2>1. UNCHANGED <<stage, roundHandlers, picked, status>>
    BY <2>0, Zenon DEF Sends, guiVars, roundVars
  <2>2. CASE ~(v = u /\ s = r)
    <3>1. /\ pc'[v][s] = pc[v][s] /\ request'[v][s] = request[v][s]
          /\ \A o \in User : pendingRounds'[v][o][s] = pendingRounds[v][o][s]
      <4>1. /\ \A o \in User : pendingRounds'[v][o][s] =
                 IF v = u /\ o = p /\ s = r THEN x.msg ELSE pendingRounds[v][o][s]
            /\ request'[v][s] = IF v = u /\ s = r THEN x ELSE request[v][s]
        BY <2>0, SMTT(60) DEF Sends
      <4>2. pc'[v][s] = IF v = u /\ s = r THEN (IF status[r] = "open" THEN "sent" ELSE "rejected")
                        ELSE pc[v][s]
        BY <2>0, Zenon DEF Sends
      <4> QED BY <2>2, <4>1, <4>2, Zenon
    <3> QED BY <1>t, <2>1, <3>1, RoundKept, Zenon
  <2>3. CASE v = u /\ s = r
    <3>1. /\ pc[v][s] = "picked" /\ request'[v][s] = x /\ pc'[v][s] \in {"sent", "rejected"}
          /\ x.peer = p /\ Made(v, s, x) /\ x # None
          /\ \A o \in User : pendingRounds'[v][o][s] =
                              IF o = p THEN x.msg ELSE pendingRounds[v][o][s]
      BY <2>0, <2>3, Sentinels, SMTT(60) DEF Sends
    <3> QED BY <1>t, <2>1, <3>1, Zenon DEF RoundInv, Pending
  <2> QED BY <2>2, <2>3, Zenon
<1>5. ASSUME NEW u \in User, NEW r \in Round, HandleConvoResponse(u, r) PROVE RoundInv(v, s)'
  <2>0. PICK p \in User : Handles(u, r, p)
    BY <1>5, ResponseEffect, Zenon
  <2>1. UNCHANGED <<stage, request, picked, status>>
    BY <2>0, Zenon DEF Handles, guiVars, roundVars
  <2>4. /\ \A o \in User : pendingRounds'[v][o][s] =
             IF v = u /\ o = p /\ s = r THEN None ELSE pendingRounds[v][o][s]
    BY <2>0, Zenon DEF Handles
  <2>5. /\ roundHandlers'[v][s] = IF v = u /\ s = r THEN None ELSE roundHandlers[v][s]
        /\ pc'[v][s] = IF v = u /\ s = r THEN "finished" ELSE pc[v][s]
    BY <2>0, Zenon DEF Handles
  <2>6. pc[u][r] = "sent" /\ status[r] = "done" /\ p = picked[u][r]
    BY <2>0, Zenon DEF Handles
  <2>2. CASE ~(v = u /\ s = r)
    <3>1. /\ pc'[v][s] = pc[v][s] /\ roundHandlers'[v][s] = roundHandlers[v][s]
          /\ \A o \in User : pendingRounds'[v][o][s] = pendingRounds[v][o][s]
      BY <2>2, <2>4, <2>5, Zenon
    <3> QED BY <1>t, <2>1, <3>1, RoundKept, Zenon
  <2>3. CASE v = u /\ s = r
    <3>1. /\ pc[v][s] = "sent" /\ status[s] = "done" /\ p = picked[v][s]
          /\ pc'[v][s] = "finished" /\ roundHandlers'[v][s] = None
          /\ \A o \in User : pendingRounds'[v][o][s] =
                              IF o = p THEN None ELSE pendingRounds[v][o][s]
      BY <2>3, <2>4, <2>5, <2>6, Zenon
    <3>2. /\ stage[v] = "online" /\ picked[v][s] \in User /\ request[v][s] # None
          /\ Made(v, s, request[v][s])
          /\ \A o \in User : pendingRounds[v][o][s] =
                              IF o = request[v][s].peer THEN request[v][s].msg ELSE None
      BY <1>t, <3>1, Zenon DEF RoundInv, Pending
    <3>3. \A o \in User : IF o = picked[v][s] THEN pendingRounds'[v][o][s] = None
                           ELSE pendingRounds'[v][o][s] =
                                  IF o = request[v][s].peer THEN request[v][s].msg ELSE None
      BY <3>1, <3>2, SMTT(60)
    <3> QED BY <2>1, <3>1, <3>2, <3>3, Zenon DEF RoundInv, Pending
  <2> QED BY <2>2, <2>3, Zenon
<1>6. CASE UNCHANGED vars
  BY <1>t, <1>6, RoundKept, Zenon DEF vars, guiVars, roundVars
<1> QED BY <1>1, <1>2, <1>3, <1>4, <1>5, <1>6, Zenon DEF Next, ClientStep

-----------------------------------------------------------------------------
\* What is settled: a request that was made, a response that was handled, the
\* conversation that was picked, the batch of a round that is over, and the
\* texts that were shown, except by the handling of a response.
LEMMA Settled ==
  ASSUME ConvInv, [Next]_vars, NEW v \in User, NEW s \in Round
  PROVE  /\ request[v][s] # None => request'[v][s] = request[v][s]
         /\ pc[v][s] = "finished" => pc'[v][s] = "finished"
         /\ pc[v][s] # "none" => picked'[v][s] = picked[v][s]
         /\ status[s] = "done" /\ InBatch(v, s)' => InBatch(v, s)
         /\ \/ shown'[v] = shown[v] /\ (pc'[v][s] = "finished" => pc[v][s] = "finished")
            \/ \E r \in Round : HandleConvoResponse(v, r)
<1> DEFINE Still == UNCHANGED <<request, pc, picked, shown>>
           Goal == /\ request[v][s] # None => request'[v][s] = request[v][s]
                   /\ pc[v][s] = "finished" => pc'[v][s] = "finished"
                   /\ pc[v][s] # "none" => picked'[v][s] = picked[v][s]
                   /\ status[s] = "done" /\ InBatch(v, s)' => InBatch(v, s)
                   /\ \/ shown'[v] = shown[v] /\ (pc'[v][s] = "finished" => pc[v][s] = "finished")
                      \/ \E r \in Round : HandleConvoResponse(v, r)
<1>0. Still => Goal
  BY Zenon DEF InBatch
<1>1. ASSUME NEW u \in User, GuiStep(u) PROVE Goal
  <2>1. Still
    BY <1>1, Zenon DEF GuiStep, ConnectStart, ConnectEnd, Talk, TypeText, Unblock
  <2> QED BY <1>0, <2>1, Zenon
<1>2. ASSUME NEW r \in Round, EntryStep(r) PROVE Goal
  <2>1. Still
    BY <1>2, Zenon DEF EntryStep, OpenRound, CloseRound, EndRound
  <2> QED BY <1>0, <2>1, Zenon
<1>3. ASSUME NEW u \in User, NEW r \in Round, PickHandler(u, r) PROVE Goal
  <2>0. PICK h \in User : Picks(u, r, h)
    BY <1>3, PickEffect, Zenon
  <2>1. UNCHANGED <<request, shown>>
    BY <2>0, Zenon DEF Picks
  <2>2. /\ pc[u][r] = "none"
        /\ pc'[v][s] = IF v = u /\ s = r THEN "picked" ELSE pc[v][s]
        /\ picked'[v][s] = IF v = u /\ s = r THEN h ELSE picked[v][s]
    BY <2>0, Zenon DEF Picks
  <2> QED BY <2>1, <2>2, Zenon DEF InBatch
<1>4. ASSUME NEW u \in User, NEW r \in Round, NextConvoRequest(u, r) PROVE Goal
  <2>0. PICK p \in User, x \in Request : Sends(u, r, p, x)
    BY <1>4, RequestEffect, Zenon
  <2>1. /\ UNCHANGED <<picked, shown>> /\ request[u][r] = None /\ pc[u][r] = "picked"
        /\ request'[v][s] = IF v = u /\ s = r THEN x ELSE request[v][s]
        /\ pc'[v][s] = IF v = u /\ s = r THEN (IF status[r] = "open" THEN "sent" ELSE "rejected")
                       ELSE pc[v][s]
    BY <2>0, SMTT(60) DEF Sends
  <2> QED BY <2>1, Zenon DEF InBatch
<1>5. ASSUME NEW u \in User, NEW r \in Round, HandleConvoResponse(u, r) PROVE Goal
  <2>0. PICK p \in User : Handles(u, r, p)
    BY <1>5, ResponseEffect, Zenon
  <2>1. /\ UNCHANGED <<request, picked>> /\ pc[u][r] = "sent"
        /\ pc'[v][s] = IF v = u /\ s = r THEN "finished" ELSE pc[v][s]
    BY <2>0, Zenon DEF Handles
  <2>2. v # u => shown'[v] = shown[v]
    BY <2>0, Zenon DEF Handles, ConvInv, ConvTypes
  <2> QED BY <1>5, <2>1, <2>2, Zenon DEF InBatch
<1>6. CASE UNCHANGED vars
  <2>1. Still
    BY <1>6, Zenon DEF vars
  <2> QED BY <1>0, <2>1, Zenon
<1>7. Goal
  BY <1>1, <1>2, <1>3, <1>4, <1>5, <1>6, Zenon DEF Next, ClientStep
<1> QED BY <1>7, Zenon

LEMMA Appended ==
  ASSUME NEW E, NEW q \in Seq(E), NEW x, NEW l, l = Append(q, x)
  PROVE  /\ Len(q) \in Nat /\ DOMAIN q = 1 .. Len(q) /\ DOMAIN l = 1 .. Len(q) + 1
         /\ Len(q) + 1 \in DOMAIN l /\ l[Len(q) + 1] = x
         /\ \A i \in DOMAIN q : i \in DOMAIN l /\ l[i] = q[i]
         /\ \A i \in DOMAIN l : i \in DOMAIN q \/ i = Len(q) + 1
OBVIOUS

\* The parts of a request.
LEMMA MadeParts ==
  ASSUME NEW u, NEW r, NEW x, Made(u, r, x)
  PROVE  x.drop = deadDrop(u, x.peer) /\ x.msg = Seal(u, x.peer, r, x.msg.body)
<1>1. PICK p, d, m : p = x.peer /\ d = deadDrop(u, x.peer) /\ m = Seal(u, x.peer, r, x.msg.body)
  BY Zenon
<1>2. x = [peer |-> p, drop |-> d, msg |-> m]
  BY <1>1, Zenon DEF Made
<1> QED BY <1>1, <1>2

\* What the handling of a response adds to the texts shown.
LEMMA ShownEffect ==
  ASSUME ConvInv, NEW u \in User, NEW r \in Round, NEW p \in User, Handles(u, r, p)
  PROVE  \/ /\ Accepts(u, r, p) /\ Reply(u, r).body # Timestamp
            /\ shown'[u] = Append(shown[u], [name |-> p, text |-> Reply(u, r).body])
         \/ /\ ~(Accepts(u, r, p) /\ Reply(u, r).body # Timestamp)
            /\ shown'[u] = shown[u]
BY Zenon DEF Handles, ConvInv, ConvTypes

\* What is shown came in a round that was handled, and was not shown before.
LEMMA NextShown ==
  ASSUME ConvInv, [Next]_vars, NEW u \in User
  PROVE  ShownInv(u)'
<1>t. ConvTypes /\ ShownInv(u)
  BY Zenon DEF ConvInv
<1>e. PICK E : E = [name : User, text : Text]
  BY Zenon
<1>l. shown[u] \in Seq(E)
  BY <1>t, <1>e, Zenon DEF ConvTypes
<1>1. \A x \in E : \A s \in Round : CameIn(u, x, s) => CameIn(u, x, s)'
  <2> SUFFICES ASSUME NEW x \in E, NEW s \in Round, CameIn(u, x, s) PROVE CameIn(u, x, s)'
    BY Zenon
  <2>1. x.name \in User
    BY <1>e, Zenon
  <2> QED BY <2>1, Settled, Zenon DEF CameIn
<1> DEFINE Right(x) == x.text.from = x.name /\ x.text.to = u /\ Cut(x.text)
<1>2. \A i \in DOMAIN shown[u] :
        /\ shown[u][i] \in E /\ Right(shown[u][i])
        /\ \E s \in Round : CameIn(u, shown[u][i], s)
  <2>1. \A i \in DOMAIN shown[u] : shown[u][i] \in E
    BY <1>l
  <2> QED BY <1>t, <2>1, Zenon DEF ShownInv
<1>3. CASE shown'[u] = shown[u]
  <2>1. ASSUME NEW i \in DOMAIN shown'[u]
        PROVE  Right(shown'[u][i]) /\ \E s \in Round : CameIn(u, shown[u][i], s)'
    <3>1. PICK x \in E : x = shown[u][i] /\ x = shown'[u][i]
      BY <1>2, <1>3, <2>1, Zenon
    <3>2. PICK s \in Round : Right(x) /\ CameIn(u, x, s)
      BY <1>2, <1>3, <2>1, <3>1, SMTT(60)
    <3> QED BY <1>1, <3>1, <3>2, Zenon
  <2> QED BY <1>t, <1>3, <2>1, Zenon DEF ShownInv
<1>4. ASSUME NEW r \in Round, HandleConvoResponse(u, r), shown'[u] # shown[u]
      PROVE  ShownInv(u)'
  <2>1. PICK p \in User : Handles(u, r, p)
    BY <1>4, ResponseEffect, Zenon
  <2>2. PICK b : b = Reply(u, r).body
    BY Zenon
  <2>3. PICK x : x = [name |-> p, text |-> b]
    BY Zenon
  <2>4. /\ Accepts(u, r, p) /\ b # Timestamp
        /\ shown'[u] = Append(shown[u], x)
    BY <1>4, <2>1, <2>2, <2>3, ShownEffect, Zenon
  <2>5. pc[u][r] = "sent" /\ pc'[u][r] = "finished" /\ request' = request
    BY <2>1, Zenon DEF Handles
  <2>6. /\ request[p][r] # None /\ Full(request[p][r])
        /\ request[p][r].msg.body = b
        /\ b \in Text /\ b.from = p /\ b.to = u /\ Cut(b)
    BY <2>2, <2>4, <2>5, AcceptedIs, SMTT(60) DEF Accepts
  <2>7. x \in E /\ x.name = p /\ x.text = b
    BY <1>e, <2>3, <2>6, Zenon
  <2>8. Right(x) /\ CameIn(u, x, r)'
    BY <2>5, <2>6, <2>7, Zenon DEF CameIn
  <2>9. \A i \in DOMAIN shown[u] : shown[u][i] # x
    <3> SUFFICES ASSUME NEW i \in DOMAIN shown[u], shown[u][i] = x PROVE FALSE
      BY Zenon
    <3>1. PICK s \in Round : CameIn(u, x, s)
      BY <1>2, Zenon
    <3>2. pc[u][s] = "finished" /\ request[p][s] # None /\ request[p][s].msg.body = b
      BY <2>7, <3>1, Zenon DEF CameIn
    <3>3. Full(request[p][s]) /\ Num(request[p][s]) = Num(request[p][r])
      BY <2>4, <2>6, <3>2, Zenon DEF Full, Num
    <3>4. s = r
      BY <2>6, <3>3, Zenon DEF ConvInv, LedgerOf, Ledger
    <3> QED BY <2>5, <3>2, <3>4, Zenon
  <2>10. PICK l \in Nat : /\ shown'[u][l + 1] = x
                          /\ \A i \in DOMAIN shown[u] : shown'[u][i] = shown[u][i]
                          /\ \A i \in DOMAIN shown'[u] : i \in DOMAIN shown[u] \/ i = l + 1
    <3>1. PICK q, n : q = shown[u] /\ n = shown'[u]
      BY Zenon
    <3>2. q \in Seq(E) /\ n = Append(q, x)
      BY <1>l, <2>4, <3>1, Zenon
    <3>3. /\ Len(q) \in Nat /\ n[Len(q) + 1] = x
          /\ \A i \in DOMAIN q : n[i] = q[i]
          /\ \A i \in DOMAIN n : i \in DOMAIN q \/ i = Len(q) + 1
      BY <3>2, Appended, SMTT(60)
    <3> QED BY <3>1, <3>3, Zenon
  <2>11. \A i \in DOMAIN shown'[u] :
           \/ i \in DOMAIN shown[u] /\ shown'[u][i] = shown[u][i]
           \/ i = l + 1 /\ shown'[u][i] = x
    BY <2>10, Zenon
  <2>12. ASSUME NEW i \in DOMAIN shown'[u]
         PROVE  Right(shown'[u][i]) /\ \E s \in Round : CameIn(u, shown[u][i], s)'
    <3>1. CASE i \in DOMAIN shown[u] /\ shown'[u][i] = shown[u][i]
      <4>1. PICK y \in E : y = shown[u][i] /\ y = shown'[u][i]
        BY <1>2, <3>1, Zenon
      <4>2. PICK s \in Round : Right(y) /\ CameIn(u, y, s)
        BY <1>2, <3>1, <4>1, Zenon
      <4> QED BY <1>1, <4>1, <4>2, Zenon
    <3>2. CASE shown'[u][i] = x
      BY <2>8, <3>2, Zenon
    <3> QED BY <2>11, <2>12, <3>1, <3>2, Zenon
  <2>13. IsInjective(shown'[u])
    <3>1. \A i, j \in DOMAIN shown[u] : shown[u][i] = shown[u][j] => i = j
      BY <1>t, Zenon DEF ShownInv, IsInjective
    <3>2. \A i, j \in DOMAIN shown'[u] : shown'[u][i] = shown'[u][j] => i = j
      BY <2>9, <2>11, <3>1, Zenon
    <3> QED BY <3>2, Zenon DEF IsInjective
  <2> QED BY <2>12, <2>13, Zenon DEF ShownInv
<1>5. 0 \in Round
  BY ConversationAssumption DEF ConversationAssumption, Round
<1>6. shown'[u] = shown[u] \/ \E r \in Round : HandleConvoResponse(u, r)
  BY <1>5, Settled, Zenon
<1> QED BY <1>3, <1>4, <1>6, Zenon

\* What two users exchanged is shown.
LEMMA NextExchange ==
  ASSUME ConvInv, [Next]_vars, NEW u \in User, NEW r \in Round
  PROVE  ExchangeInv(u, r)'
<1>t. ConvTypes /\ RoundInv(u, r) /\ ExchangeInv(u, r)
  BY Zenon DEF ConvInv
<1> SUFFICES ASSUME NEW v \in User \ {u}, pc'[u][r] = "finished", InBatch(v, r)',
                    request'[u][r].peer = v, request'[v][r].peer = u,
                    picked'[u][r] = request'[u][r].peer,
                    request'[v][r].msg.body # Timestamp
             PROVE  [name |-> v, text |-> request'[v][r].msg.body] \in Range(shown'[u])
  BY Zenon DEF ExchangeInv, Split
<1>e. PICK E : E = [name : User, text : Text]
  BY Zenon
<1>l. shown[u] \in Seq(E)
  BY <1>t, <1>e, Zenon DEF ConvTypes
<1>1. CASE pc[u][r] = "finished"
  <2>1. status[r] = "done" /\ request[u][r] # None
    BY <1>t, <1>1, Zenon DEF RoundInv
  <2>2. request'[u][r] = request[u][r] /\ picked'[u][r] = picked[u][r]
    BY <1>1, <2>1, Settled, Zenon
  <2>3. InBatch(v, r)
    BY <2>1, Settled, Zenon
  <2>4. request[v][r] # None
    BY <2>3, Zenon DEF ConvInv, RoundInv, InBatch
  <2>5. request'[v][r] = request[v][r]
    BY <2>4, Settled, Zenon
  <2>6. [name |-> v, text |-> request[v][r].msg.body] \in Range(shown[u])
    BY <1>t, <1>1, <2>2, <2>3, <2>5, Zenon DEF ExchangeInv, Split
  <2>7. PICK y : y = [name |-> v, text |-> request[v][r].msg.body]
    BY Zenon
  <2>8. PICK i \in DOMAIN shown[u] : shown[u][i] = y
    BY <2>6, <2>7, Zenon DEF Range
  <2>9. i \in DOMAIN shown'[u] /\ shown'[u][i] = shown[u][i]
    <3>1. CASE shown'[u] = shown[u]
      BY <2>8, <3>1, Zenon
    <3>2. ASSUME NEW s \in Round, HandleConvoResponse(u, s), shown'[u] # shown[u]
          PROVE  i \in DOMAIN shown'[u] /\ shown'[u][i] = shown[u][i]
      <4>1. PICK p \in User : Handles(u, s, p)
        BY <3>2, ResponseEffect, Zenon
      <4>2. PICK x : x = [name |-> p, text |-> Reply(u, s).body]
        BY Zenon
      <4>3. shown'[u] = Append(shown[u], x)
        BY <3>2, <4>1, <4>2, ShownEffect, Zenon
      <4> QED BY <1>l, <2>8, <4>3, SMTT(60)
    <3> QED BY <3>1, <3>2, Settled, Zenon
  <2> QED BY <2>5, <2>7, <2>8, <2>9, Zenon DEF Range
<1>2. CASE pc[u][r] # "finished"
  <2>1. PICK s \in Round : HandleConvoResponse(u, s)
    BY <1>2, Settled, Zenon
  <2>2. PICK p \in User : Handles(u, s, p)
    BY <2>1, ResponseEffect, Zenon
  <2>3. s = r
    BY <1>2, <2>2, Zenon DEF Handles
  <2>4. /\ pc[u][r] = "sent" /\ p = picked[u][r] /\ request' = request /\ picked' = picked
        /\ \A w \in User : w # u => pc'[w][r] = pc[w][r]
    BY <2>2, <2>3, SMTT(60) DEF Handles
  <2>5. p = v /\ InBatch(v, r)
    BY <2>4, Zenon DEF InBatch
  <2>6. PICK a : a = request[u][r] /\ a.peer = v /\ Made(u, r, a) /\ a # None
    BY <1>t, <2>4, Zenon DEF RoundInv
  <2>7. PICK b : b = request[v][r] /\ b.peer = u /\ Made(v, r, b) /\ b # None
                 /\ b.msg.body # Timestamp
    <3>1. RoundInv(v, r)
      BY Zenon DEF ConvInv
    <3>2. pc[v][r] \in {"sent", "finished"}
      BY <2>5, Zenon DEF InBatch
    <3>3. request[v][r] # None /\ Made(v, r, request[v][r])
      BY <3>1, <3>2, Zenon DEF RoundInv
    <3>4. request[v][r].peer = u /\ request[v][r].msg.body # Timestamp
      BY <2>4, Zenon
    <3> QED BY <3>3, <3>4, Zenon
  <2>8. Partners(u, r) = {v}
    <3>1. a.drop = deadDrop(u, v)
      BY <2>6, MadeParts, SMTT(60)
    <3>2. b.drop = deadDrop(v, u)
      BY <2>7, MadeParts
    <3>3. a.drop = b.drop
      BY <3>1, <3>2, Zenon DEF deadDrop, Solo
    <3>4. User \ {u} = {v}
      BY Zenon DEF User
    <3> QED BY <2>5, <2>6, <2>7, <3>3, <3>4, Zenon DEF Partners
  <2>9. Reply(u, r) = b.msg
    <3>1. (CHOOSE w \in Partners(u, r) : TRUE) = v
      BY <2>8, Zenon
    <3> QED BY <2>7, <2>8, <3>1, Zenon DEF Reply
  <2>10. /\ a.msg = Seal(u, v, r, a.msg.body)
         /\ b.msg = Seal(v, u, r, b.msg.body)
    <3>1. /\ a.msg = Seal(u, a.peer, r, a.msg.body)
          /\ b.msg = Seal(v, b.peer, r, b.msg.body)
      BY <2>6, <2>7, MadeParts, SMTT(60)
    <3> QED BY <2>6, <2>7, <3>1, Zenon
  <2>11. a.msg \in Sealed
    <3>0. request \in [User -> [Round -> Request \cup {None}]]
      BY <1>t, Zenon DEF ConvTypes
    <3>1. request[u][r] \in Request \cup {None}
      BY <3>0, Zenon
    <3>2. a \in Request
      BY <2>6, <3>1, Zenon
    <3> QED BY <3>2 DEF Request
  <2>12. pendingRounds[u][v][r] = a.msg
    BY <1>t, <2>4, <2>6, Zenon DEF RoundInv, Pending
  <2>13. a.msg.role = myRole(u, v) /\ b.msg.role = myRole(v, u)
         /\ b.msg.keys = {u, v} /\ b.msg.round = r
    <3>1. PICK x, y : x = a.msg.body /\ y = b.msg.body
      BY Zenon
    <3>2. a.msg = Seal(u, v, r, x) /\ b.msg = Seal(v, u, r, y)
      BY <2>10, <3>1, Zenon
    <3> QED BY <3>2 DEF Seal
  <2>14. Accepts(u, r, v)
    <3>1. a.msg # b.msg
      BY <2>13, RolesDiffer
    <3>2. a.msg # None
      BY <2>11, Sentinels, Zenon
    <3> QED BY <2>9, <2>12, <2>13, <3>1, <3>2, Zenon DEF Accepts, Opens
  <2>15. PICK x : x = [name |-> v, text |-> b.msg.body]
    BY Zenon
  <2>16. shown'[u] = Append(shown[u], x)
    <3>1. Handles(u, r, v)
      BY <2>2, <2>3, <2>5, Zenon
    <3>2. Accepts(u, r, v) /\ Reply(u, r).body # Timestamp
      BY <2>7, <2>9, <2>14, Zenon
    <3>3. shown'[u] = Append(shown[u], [name |-> v, text |-> Reply(u, r).body])
      BY <3>1, <3>2, ShownEffect, Zenon
    <3> QED BY <2>9, <2>15, <3>3, Zenon
  <2>17. \E i \in DOMAIN shown'[u] : shown'[u][i] = x
    <3>1. PICK q, n : q = shown[u] /\ n = shown'[u]
      BY Zenon
    <3>2. q \in Seq(E) /\ n = Append(q, x)
      BY <1>l, <2>16, <3>1, Zenon
    <3>3. Len(q) + 1 \in DOMAIN n /\ n[Len(q) + 1] = x
      BY <3>2, Appended, SMTT(60)
    <3> QED BY <3>1, <3>3, Zenon
  <2> QED BY <2>4, <2>7, <2>15, <2>17, Zenon DEF Range
<1> QED BY <1>1, <1>2, Zenon

-----------------------------------------------------------------------------
LEMMA NextConv == ConvInv /\ [Next]_vars => ConvInv'
<1> SUFFICES ASSUME ConvInv, [Next]_vars PROVE ConvInv'
  BY Zenon
<1>1. ConvTypes'
  BY NextTypes, Zenon
<1>2. \A u \in User : HandlerInv(u)'
  BY NextHandler, Zenon
<1>3. \A u \in User : LedgerOf(u)'
  BY NextLedger, Zenon
<1>4. \A u \in User : ShownInv(u)'
  BY NextShown, Zenon
<1>5. \A u \in User, r \in Round : RoundInv(u, r)'
  BY NextRoundState, Zenon
<1>6. \A u \in User, r \in Round : ExchangeInv(u, r)'
  BY NextExchange, Zenon
<1> QED BY <1>1, <1>2, <1>3, <1>4, <1>5, <1>6, Zenon DEF ConvInv

THEOREM ConvInvariant == Spec => []ConvInv
BY InitConv, NextConv, PTL DEF Spec

\* A text that was typed is in the GUI thread, in one queue or in the request
\* of exactly one round, however announcements, switches and blocked queues
\* interleave: NextConvoRequest neither sends a text twice nor drops it.
THEOREM TextsAccounted == Spec => []TextAccounted
<1>1. ConvInv => TextAccounted
  <2> SUFFICES ASSUME ConvInv, NEW u \in User, NEW k \in 1 .. typed[u]
               PROVE  Cardinality(Waiting(u, k)) + Cardinality(Carried(u, k))
                        + (IF gui[u] # None /\ gui[u].k = k THEN 1 ELSE 0) = 1
    BY Zenon DEF TextAccounted
  <2>1. Ledger(u, outQueue[u], gui[u], typed[u], request[u])
    BY Zenon DEF ConvInv, LedgerOf
  <2>2. PICK q, g, n, rq : /\ q = outQueue[u] /\ g = gui[u] /\ n = typed[u] /\ rq = request[u]
    BY Zenon
  <2>3. Ledger(u, q, g, n, rq) /\ k \in 1 .. n
    BY <2>1, <2>2, Zenon
  <2>4. Waiting(u, k) = InQueues(q, k)
    BY <2>2, Zenon DEF Waiting, InQueues
  <2>5. Carried(u, k) = InRequests(rq, k)
    BY <2>2, Zenon DEF Carried, InRequests, Full, Num
  <2>6. Cardinality(InQueues(q, k)) + Cardinality(InRequests(rq, k))
          + (IF g # None /\ g.k = k THEN 1 ELSE 0) = 1
    BY <2>3, LedgerPlace, Zenon
  <2> QED BY <2>2, <2>4, <2>5, <2>6, Zenon
<1> QED BY <1>1, ConvInvariant, PTL

\* When a response has been handled, nothing of its round is left in
\* roundHandlers, and a message is left in pendingRounds exactly when the user
\* switched between the two reads of convoHandler.
THEOREM NothingLeft == Spec => []LeftoverOnlyOnSwitch
<1>1. ConvInv => LeftoverOnlyOnSwitch
  <2> SUFFICES ASSUME ConvInv, NEW u \in User, NEW r \in Round, pc[u][r] = "finished"
               PROVE  /\ roundHandlers[u][r] = None
                      /\ (\E p \in User : pendingRounds[u][p][r] # None) <=> Split(u, r)
    BY Zenon DEF LeftoverOnlyOnSwitch
  <2>1. RoundInv(u, r) /\ ConvTypes
    BY Zenon DEF ConvInv
  <2>2. PICK x : x = request[u][r] /\ x # None /\ Made(u, r, x)
    BY <2>1, Zenon DEF RoundInv
  <2>3. x.peer \in User /\ x.msg # None
    <3>1. x \in Request
      BY <2>1, <2>2 DEF ConvTypes
    <3> QED BY <3>1, Sentinels, Zenon DEF Request
  <2>4. \A p \in User : pendingRounds[u][p][r] =
          IF p # picked[u][r] /\ p = x.peer THEN x.msg ELSE None
    BY <2>1, <2>2, Zenon DEF RoundInv, Pending
  <2>5. roundHandlers[u][r] = None
    BY <2>1, Zenon DEF RoundInv
  <2> QED BY <2>2, <2>3, <2>4, <2>5, Zenon DEF Split
<1> QED BY <1>1, ConvInvariant, PTL

\* The client's conversation is the one selected in the GUI, unless the last
\* /talk came while Connect was activating the one selected before.
THEOREM HandlerFollows == Spec => []HandlerFollowsGui
<1>1. ConvInv => HandlerFollowsGui
  BY Zenon DEF ConvInv, HandlerInv, HandlerFollowsGui
<1> QED BY <1>1, ConvInvariant, PTL

\* A text is printed under the name of the peer who typed it in the
\* conversation with this user, whole or cut to what fits in a message, and
\* once: rounds that overlap and users who switch do not mix texts up.
THEOREM ShownTexts == Spec => []ShownRight
<1>1. ConvInv => ShownRight
  <2> SUFFICES ASSUME ConvInv, NEW u \in User PROVE
                 /\ \A i \in DOMAIN shown[u] :
                      LET text == shown[u][i].text
                      IN /\ text.from = shown[u][i].name /\ text.to = u
                         /\ text.len = Lengths[text.k] \/ text.len = SizeMessage - 1
                         /\ text.len < SizeMessage /\ text.len <= Lengths[text.k]
                 /\ IsInjective(shown[u])
    BY Zenon DEF ShownRight
  <2>1. ShownInv(u) /\ ConvTypes
    BY Zenon DEF ConvInv
  <2>2. ASSUME NEW i \in DOMAIN shown[u], NEW x, x = shown[u][i], NEW t, t = x.text
        PROVE  /\ t.from = x.name /\ t.to = u
               /\ t.len = Lengths[t.k] \/ t.len = SizeMessage - 1
               /\ t.len < SizeMessage /\ t.len <= Lengths[t.k]
    <3>1. t.from = x.name /\ t.to = u /\ Cut(t) /\ \E r \in Round : CameIn(u, x, r)
      BY <2>1, <2>2, Zenon DEF ShownInv
    <3>2. PICK E : E = [name : User, text : Text]
      BY Zenon
    <3>3. shown[u] \in Seq(E)
      BY <2>1, <3>2, Zenon DEF ConvTypes
    <3>x. x \in E
      BY <2>2, <3>3
    <3>4. PICK v \in User : v = x.name
      BY <3>2, <3>x, Zenon
    <3>5. PICK r \in Round : request[v][r] # None /\ request[v][r].msg.body = t
      BY <2>2, <3>1, <3>4, Zenon DEF CameIn
    <3>6. t \in Text
      BY <2>2, <3>2, <3>x, Zenon
    <3>7. Full(request[v][r]) /\ Num(request[v][r]) = t.k
      BY <3>5, <3>6, Sentinels, Zenon DEF Full, Num
    <3>8. t.k \in 1 .. typed[v] /\ typed[v] \in 0 .. MaxTexts[v]
      <4>1. PICK q, g, n, rq : /\ q = outQueue[v] /\ g = gui[v] /\ n = typed[v]
                               /\ rq = request[v]
        BY Zenon
      <4>2. Ledger(v, q, g, n, rq)
        BY <4>1, Zenon DEF ConvInv, LedgerOf
      <4>3. Full(rq[r]) /\ Num(rq[r]) = t.k
        BY <3>7, <4>1, Zenon
      <4>4. n \in 0 .. MaxTexts[v] /\ \A a \in Round : Full(rq[a]) => Num(rq[a]) \in 1 .. n
        BY <4>2, Zenon DEF Ledger
      <4>5. t.k \in 1 .. n
        BY <4>3, <4>4
      <4> QED BY <4>1, <4>4, <4>5, Zenon
    <3>9. MaxTexts[v] \in Nat /\ SizeMessage \in Nat \ {0}
      BY ConversationAssumption, Zenon DEF ConversationAssumption
    <3>10. t.k \in 1 .. MaxTexts[v]
      BY <3>8, <3>9
    <3>11. Lengths[t.k] \in Nat
      BY <3>10, ConversationAssumption, Zenon DEF ConversationAssumption
    <3> QED BY <3>1, <3>9, <3>11 DEF Cut
  <2> QED BY <2>1, <2>2, Zenon DEF ShownInv
<1> QED BY <1>1, ConvInvariant, PTL

\* When two users exchange requests in a round that succeeds, the text that
\* one of them sent is printed by the other once the response is handled,
\* unless the receiver switched while the request was made.
THEOREM ExchangeShown == Spec => []Exchanged
<1>1. ConvInv => Exchanged
  BY Zenon DEF ConvInv, ExchangeInv, Exchanged
<1> QED BY <1>1, ConvInvariant, PTL
=============================================================================
