---------------------------- MODULE MCConvoRound ----------------------------
(***************************************************************************)
(* ConvoRound on chains of one, two and three servers with small batches.  *)
(***************************************************************************)
EXTENDS ConvoRound

CONSTANTS MaxOnions   \* bound: length of the batch on a chain of two servers

MCOrders == {<<"a">>, <<"b", "a">>, <<"a", "c", "b">>}

\* The longest batches are sent through the chain of two.
OnionsOn(o) == IF Len(o) = 2 THEN MaxOnions ELSE MaxOnions - 1

\* An onion whose layer k (0: none) does not open at its server, or, for a k
\* beyond its layers, one that is a layer short.
Garbled(onion, k) ==
  [onion EXCEPT !.layers = IF k > Len(@) THEN Tail(@)
                           ELSE [t \in DOMAIN @ |-> IF t = k THEN NoServer ELSE @[t]]]

\* Client c sends an onion with bad layer bad[c] to dead drop drop[c]; place i
\* of the batch holds a copy of the onion of client who[i].  At most one
\* client sends an onion that does not decrypt or has another size.
BatchesOf(o, n) ==
  {[i \in 1 .. n |->
      Garbled(Seal(Exchange(<<0, who[i]>>, <<0, drop[who[i]]>>), ServerKeys(o)), bad[who[i]])] :
     who  \in {w \in [1 .. n -> 1 .. n] : \A i \in 1 .. n : w[i] <= i},
     bad  \in {f \in [1 .. n -> 0 .. Len(o) + 1] : Cardinality({c \in 1 .. n : f[c] # 0}) <= 1},
     drop \in {d \in [1 .. n -> 1 .. 2] : n > 0 => d[1] = 1}}

MCBatches == [o \in MCOrders |-> UNION {BatchesOf(o, n) : n \in 0 .. OnionsOn(o)}]

\* No noise, one fake single, or, on the chain of two, one fake double, which
\* is rounded up to two.
MCDraws == [o \in MCOrders |->
              IF Len(o) = 2 THEN {<<0, 0>>, <<1, 0>>, <<0, 1>>} ELSE (0 .. 1) \X {0}]
=============================================================================
