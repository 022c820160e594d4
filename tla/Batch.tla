------------------------------- MODULE Batch -------------------------------
(***************************************************************************)
(* The algorithms a mix server applies to a batch of onions, as functions  *)
(* on sequences (indices start at 1 here and at 0 in the code).            *)
(***************************************************************************)
EXTENDS Integers, Sequences, SequencesExt

\* Spans(total, spanSize): the pieces in which a batch is sent.
Spans(total, spanSize) ==
  LET from[i \in 0 .. total + spanSize] ==
        IF i >= total THEN <<>>
        ELSE LET c == IF i + spanSize <= total THEN spanSize ELSE total - i
             IN <<[Start |-> i, Count |-> c]>> \o from[i + c]
  IN from[0]

Swapped(x, i, j) == [x EXCEPT ![i] = x[j], ![j] = x[i]]

\* A Shuffler of length n: entry i is Intn(i+1), so it never points ahead.
Shufflers(n) == {p \in [1 .. n -> 1 .. n] : \A i \in 1 .. n : p[i] <= i}

Shuffle(x, p) == FoldLeftDomain(LAMBDA y, i : Swapped(y, i, p[i]), x, x)

\* Mutant: Unshuffle repeats the swaps in the order of Shuffle.
UnshuffleForward(x, p) == Shuffle(x, p)

Unshuffle(x, p) == FoldRightDomain(LAMBDA i, y : Swapped(y, i, p[i]), x, x)

(***************************************************************************)
(* filterIncoming: drop what could not be decrypted (nil) and all but the  *)
(* first of several messages with the same key; index[i] is the place of   *)
(* message i among the valid ones, 0 (-1 in the code) if it has none.      *)
(***************************************************************************)
\* The last 8 bytes of a message, taken to be the same only for copies.
msgkey(msg) == msg.id

\* Mutant: a repeated message is kept.
FilterKeepsDups(incoming, nil) ==
  FoldLeft(LAMBDA acc, msg :
             IF msg = nil THEN [acc EXCEPT !.index = Append(@, 0)]
             ELSE [acc EXCEPT !.valid = Append(@, msg),
                              !.index = Append(@, Len(acc.valid) + 1)],
           [valid |-> <<>>, index |-> <<>>, seen |-> {}], incoming)

Filter(incoming, nil) ==
  FoldLeft(LAMBDA acc, msg :
             IF msg = nil THEN [acc EXCEPT !.index = Append(@, 0)]
             ELSE IF msgkey(msg) \in acc.seen THEN [acc EXCEPT !.index = Append(@, 0)]
             ELSE [valid |-> Append(acc.valid, msg),
                   index |-> Append(acc.index, Len(acc.valid) + 1),
                   seen  |-> acc.seen \cup {msgkey(msg)}],
           [valid |-> <<>>, index |-> <<>>, seen |-> {}], incoming)

(***************************************************************************)
(* The last server's bookkeeping of dead drops, in one pass over the       *)
(* exchanges: the first two accesses to a drop are remembered.             *)
(***************************************************************************)
\* Mutant: a third access to a dead drop counts as another double.
CollectRecounts(drops) ==
  FoldLeftDomain(
    LAMBDA acc, i :
      LET d == drops[i] IN
      CASE Len(acc.at[d]) = 0 -> [acc EXCEPT !.at[d] = <<i>>, !.singles = @ + 1]
        [] Len(acc.at[d]) = 1 -> [acc EXCEPT !.at[d] = Append(@, i),
                                             !.singles = @ - 1, !.doubles = @ + 1]
        [] OTHER              -> [acc EXCEPT !.doubles = @ + 1],
    [at |-> [d \in ToSet(drops) |-> <<>>], singles |-> 0, doubles |-> 0], drops)

Collect(drops) ==
  FoldLeftDomain(
    LAMBDA acc, i :
      LET d == drops[i] IN
      CASE Len(acc.at[d]) = 0 -> [acc EXCEPT !.at[d] = <<i>>, !.singles = @ + 1]
        [] Len(acc.at[d]) = 1 -> [acc EXCEPT !.at[d] = Append(@, i),
                                             !.singles = @ - 1, !.doubles = @ + 1]
        [] OTHER              -> acc,
    [at |-> [d \in ToSet(drops) |-> <<>>], singles |-> 0, doubles |-> 0], drops)

\* Whose message answers access i to a drop: its own when it is alone,
\* otherwise the other one's; a third access is answered by the first.
Partner(at, i) ==
  CASE Len(at) = 1 -> i
    [] Len(at) = 2 -> IF i = at[1] THEN at[2] ELSE at[1]
=============================================================================
