---------------------------- MODULE MCDialRound -----------------------------
(***************************************************************************)
(* DialRound with small batches: each request is by one of the clients, to *)
(* one of them or to nobody, and at most one does not decrypt; copies of a *)
(* request carry the same id.                                              *)
(***************************************************************************)
EXTENDS DialRound

CONSTANTS MaxOnions   \* bound: length of the entry server's batch

MCOrder == <<"b", "a">>

MCCalls ==
  UNION {{[i \in 1 .. n |-> [from |-> who[i], to |-> to[who[i]], bad |-> bad[who[i]]]] :
            who \in {w \in [1 .. n -> Client] : n > 0 => w[1] = 1},
            to  \in [Client -> Client \cup {Nobody}],
            bad \in {f \in [Client -> 0 .. N] :
                       Cardinality({c \in Client : f[c] # 0}) <= 1}} : n \in 0 .. MaxOnions}
=============================================================================
