------------------------------- MODULE Onions -------------------------------
(***************************************************************************)
(* The PKI's view of the chain and the onions sealed for it.  order is     *)
(* pki.ServerOrder, a sequence of server names; a server's key pair is     *)
(* identified with its name.                                               *)
(*                                                                         *)
(* An onion or a reply is a record whose layers field lists the boxes      *)
(* around its content, outermost first; its size is the number of layers.  *)
(* A box opens with the key it was sealed for and with no other.           *)
(***************************************************************************)
EXTENDS Integers, Sequences, SequencesExt

NoServer == ""

\* PKI.Index: the place of a server; the loop ends at the last place when
\* there is no server of that name.
Index(order, name) ==
  LET at == {i \in DOMAIN order : order[i] = name}
  IN IF at = {} THEN Len(order) ELSE Min(at)

ServerKeys(order) == order

NextServer(order, name) ==
  LET i == Index(order, name)
  IN IF i < Len(order) THEN order[i + 1] ELSE NoServer

\* Mutant: the keys start with the server's own.
NextServerKeysOwn(order, name) == SubSeq(order, Index(order, name), Len(order))

NextServerKeys(order, name) == SubSeq(order, Index(order, name) + 1, Len(order))

\* The layers of an onion that reaches the server, and of a reply it gives.
IncomingOnionOverhead(order, name) == Len(order) - Index(order, name) + 1
OutgoingOnionOverhead(order, name) == Len(order) - Index(order, name) + 1

\* box.SealAfterPrecomputation
Box(content, key) == [content EXCEPT !.layers = <<key>> \o @]

\* onionbox.Seal: the layer of the last key is the innermost.
Seal(message, publicKeys) ==
  FoldRight(LAMBDA key, onion : Box(onion, key), publicKeys, message)

\* box.OpenAfterPrecomputation
Opens(onion, key) == onion.layers # <<>> /\ Head(onion.layers) = key
Unbox(onion)      == [onion EXCEPT !.layers = Tail(@)]

\* The result of a failed Open.
NotOpened == [layers |-> <<>>, msg |-> <<>>]

\* onionbox.Open: the layers are opened from the outside, one key each.
OpenOnion(onion, sharedKeys) ==
  FoldLeft(LAMBDA message, key :
             IF Opens(message, key) THEN Unbox(message) ELSE NotOpened,
           onion, sharedKeys)
=============================================================================
