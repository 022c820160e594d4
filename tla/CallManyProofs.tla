--------------------------- MODULE CallManyProofs ---------------------------
(***************************************************************************)
(* CallMany returns nil only after every call has succeeded, and never     *)
(* leaves a call behind that could be sent on the closed results channel   *)
(* or executed by the server, for every number of calls and connections    *)
(* and every channel capacity.                                             *)
(***************************************************************************)
EXTENDS CallMany, FiniteSetTheorems, TLAPS

\* The calls the caller has counted.
Good == At("received") \ failed

\* The inductive invariant: received counts Good, a failed call has reached
\* results, a call that did not fail was executed, and results is
\* closed only when the count is complete.
CallInv ==
  /\ received = Cardinality(Good)
  /\ \A c \in failed : where[c] \in {"result", "received"}
  /\ \A c \in Call \ failed :
       where[c] \in {"result", "received"} => server[c] = "executed"
  /\ main = "collecting" => results = "open"
  /\ main = "returned" /\ err = "nil" => received = n
  /\ results = "closed" => received = n

\* The calls are finite in number, and so are the ones counted.
LEMMA GoodFinite ==
  ASSUME TypeOK
  PROVE  /\ IsFiniteSet(Call) /\ Cardinality(Call) = n
         /\ IsFiniteSet(Good) /\ Good \subseteq Call
         /\ Cardinality(Good) \in 0 .. n
<1>1. n \in Nat
  BY CallAssumption DEF TypeOK, CallAssumption
<1>2. IsFiniteSet(Call) /\ Cardinality(Call) = n
  BY <1>1, FS_Interval DEF Call
<1>3. Good \subseteq Call
  BY DEF Good, At
<1>4. IsFiniteSet(Good) /\ Cardinality(Good) <= Cardinality(Call)
  BY <1>2, <1>3, FS_Subset
<1>5. Cardinality(Good) \in Nat
  BY <1>4, FS_CardinalityType
<1> QED BY <1>1, <1>2, <1>3, <1>4, <1>5

\* A complete count means that every call was received and none failed.
LEMMA CompleteCount ==
  ASSUME TypeOK, CallInv, received = n
  PROVE  failed = {} /\ \A c \in Call : where[c] = "received" /\ server[c] = "executed"
<1>1. Cardinality(Good) = Cardinality(Call)
  BY GoodFinite DEF CallInv
<1>2. Good = Call
  BY <1>1, GoodFinite, FS_Subset
<1>3. failed = {} /\ \A c \in Call : where[c] = "received"
  BY <1>2 DEF Good, At, TypeOK
<1> QED BY <1>3 DEF CallInv

\* The invariant holds when CallMany starts.
LEMMA InitCall == Init => TypeOK /\ CallInv
<1> SUFFICES ASSUME Init PROVE TypeOK /\ CallInv
  OBVIOUS
<1>1. n \in Nat
  BY CallAssumption DEF Init, CallAssumption
<1>2. TypeOK
  BY <1>1 DEF Init, TypeOK, Call
<1>3. Good = {}
  BY DEF Init, Good, At
<1>4. received = Cardinality(Good)
  BY <1>3, FS_EmptySet DEF Init
<1> QED BY <1>2, <1>4 DEF Init, CallInv

\* Steps that move a call the caller has not received yet.
LEMMA MoveStep ==
  ASSUME TypeOK, CallInv, NEW c \in Call, NEW to \in {"queued", "skipped", "sent", "result"},
         where[c] \in {"todo", "queued", "sent"},
         where' = [where EXCEPT ![c] = to],
         \/ failed' = failed /\ (to = "result" => server[c] = "executed")
         \/ failed' = failed \cup {c} /\ to = "result",
         \A d \in Call : d # c => server'[d] = server[d],
         to = "result" => server'[c] = server[c],
         UNCHANGED <<n, main, received, err, results>>
  PROVE  CallInv'
<1>1. Call' = Call
  BY DEF Call
<1>2. where'[c] = to /\ \A d \in Call : d # c => where'[d] = where[d]
  BY DEF TypeOK
<1>3. \A d \in Call : d \in Good' <=> d \in Good
  BY <1>1, <1>2 DEF Good, At
<1>4. Good' = Good
  BY <1>1, <1>3 DEF Good, At
<1>5. c \notin failed
  BY DEF CallInv
<1>6. \A d \in failed' : where'[d] \in {"result", "received"}
  BY <1>2, <1>5 DEF CallInv, TypeOK
<1>7. \A d \in (Call \ failed)' :
        where'[d] \in {"result", "received"} => server'[d] = "executed"
  BY <1>1, <1>2 DEF CallInv, TypeOK
<1> QED BY <1>1, <1>4, <1>6, <1>7 DEF CallInv

\* Steps that change no call and nothing of the caller.
LEMMA QuietCall ==
  ASSUME TypeOK, CallInv, UNCHANGED <<n, where, failed, main, received, err, results>>,
         \A c \in Call : server[c] = "executed" => server'[c] = "executed"
  PROVE  CallInv'
<1>1. Good' = Good /\ Call' = Call
  BY DEF Good, At, Call
<1> QED BY <1>1 DEF CallInv

\* Taking a result off the channel keeps the invariant: the count follows.
LEMMA CollectStep ==
  ASSUME TypeOK, CallInv, NEW c \in Call, Collect(c)
  PROVE  TypeOK' /\ CallInv'
<1>1. n' = n /\ Call' = Call /\ failed' = failed /\ n \in Nat
  BY CallAssumption DEF Collect, Call, TypeOK, CallAssumption
<1>2. where'[c] = "received" /\ \A d \in Call : d # c => where'[d] = where[d]
  BY DEF Collect, TypeOK
<1>3. c \notin Good /\ where[c] = "result"
  BY DEF Collect, Good, At
<1>0. \A d \in (Call \ failed)' :
        where'[d] \in {"result", "received"} => server'[d] = "executed"
  BY <1>1, <1>2, <1>3 DEF Collect, CallInv
<1>4. main = "collecting" /\ results = "open"
  BY DEF Collect, CallInv
<1>5. CASE c \in failed
  <2>1. Good' = Good
    BY <1>1, <1>2, <1>5 DEF Good, At
  <2>2. received' = received /\ results' = results /\ main' = "returned" /\ err' = "error"
    BY <1>5 DEF Collect
  <2>3. CallInv'
    BY <1>0, <1>1, <1>2, <1>4, <2>1, <2>2 DEF CallInv, TypeOK
  <2>4. TypeOK'
    BY <1>1, <1>5, <2>2 DEF Collect, TypeOK
  <2> QED BY <2>3, <2>4
<1>6. CASE c \notin failed
  <2>1. Good' = Good \cup {c}
    BY <1>1, <1>2, <1>6 DEF Good, At
  <2>2. Cardinality(Good') = Cardinality(Good) + 1
    BY <1>3, <2>1, GoodFinite, FS_AddElement
  <2>3. received' = received + 1
    BY <1>6 DEF Collect
  <2>4. received + 1 \in 0 .. n
    <3>1. Good' \subseteq Call
      BY <2>1, GoodFinite
    <3>2. Cardinality(Good') <= n
      BY <3>1, GoodFinite, FS_Subset
    <3> QED BY <3>2, <2>2, GoodFinite, <1>1 DEF CallInv
  <2>5. TypeOK'
    BY <1>1, <1>6, <2>3, <2>4 DEF Collect, TypeOK
  <2>6. received' = Cardinality(Good')
    BY <2>2, <2>3 DEF CallInv
  <2>7. \A d \in failed' : where'[d] \in {"result", "received"}
    BY <1>1, <1>2 DEF CallInv, TypeOK
  <2>8. CASE Last
    BY <1>0, <1>1, <1>6, <2>3, <2>5, <2>6, <2>7, <2>8 DEF Collect, CallInv, Last
  <2>9. CASE ~Last
    BY <1>0, <1>1, <1>4, <1>6, <2>3, <2>5, <2>6, <2>7, <2>9 DEF Collect, CallInv
  <2> QED BY <2>8, <2>9
<1> QED BY <1>5, <1>6

\* The calls the feeder has not reached are still to do.
Unfed == \A c \in Call : c >= next => where[c] = "todo"

\* Feeding or skipping a call keeps the invariant: a call not yet fed is not counted.
LEMMA FeedStep ==
  ASSUME TypeOK, CallInv, Unfed, Feed \/ FeedSkip
  PROVE  TypeOK' /\ CallInv' /\ Unfed'
<1>1. n \in Nat /\ next \in Call /\ where[next] = "todo"
  BY CallAssumption DEF Feed, FeedSkip, Call, TypeOK, Unfed, CallAssumption
<1>2. PICK to \in {"queued", "skipped"} : where' = [where EXCEPT ![next] = to]
  BY DEF Feed, FeedSkip
<1>3. n' = n /\ next' = next + 1 /\ failed' = failed
      /\ UNCHANGED <<feeder, server, worker, main, received, err, results, done>>
  BY DEF Feed, FeedSkip
<1>4. next <= n
  BY DEF Feed, FeedSkip
<1>5. CallInv'
  BY <1>1, <1>2, <1>3, MoveStep
<1>6. Unfed'
  <2>1. \A c \in Call : c >= next + 1 => c # next /\ c >= next
    BY <1>1 DEF Call
  <2> QED BY <1>1, <1>2, <1>3, <2>1 DEF Unfed, Call, TypeOK
<1>7. where' \in [Call -> {"todo", "queued", "sent", "result", "received", "skipped"}]
  BY <1>2 DEF TypeOK
<1>8. next' \in 1 .. n + 1
  BY <1>1, <1>3, <1>4 DEF TypeOK
<1>9. TypeOK'
  BY <1>3, <1>7, <1>8 DEF TypeOK, Call
<1> QED BY <1>5, <1>6, <1>9

\* A call that has left "todo" moves on: the feeder's part is not disturbed.
LEMMA UnfedKept ==
  ASSUME TypeOK, Unfed, NEW c \in Call, where[c] # "todo", NEW to,
         where' = [where EXCEPT ![c] = to], UNCHANGED <<n, next>>
  PROVE  Unfed'
<1>1. \A d \in Call : d # c => where'[d] = where[d]
  BY DEF TypeOK
<1> QED BY <1>1 DEF Unfed, Call

\* Every step of CallMany keeps the invariant.
LEMMA NextCall ==
  TypeOK /\ CallInv /\ Unfed /\ [Next]_vars => TypeOK' /\ CallInv' /\ Unfed'
<1> SUFFICES ASSUME TypeOK, CallInv, Unfed, [Next]_vars
             PROVE  TypeOK' /\ CallInv' /\ Unfed'
  OBVIOUS
<1>1. CASE Feed \/ FeedSkip
  BY <1>1, FeedStep
<1>2. CASE FeedClose
  <2>1. TypeOK' /\ Unfed'
    BY <1>2 DEF FeedClose, TypeOK, Call, Unfed
  <2>2. CallInv'
    BY <1>2, QuietCall DEF FeedClose
  <2> QED BY <2>1, <2>2
<1>3. ASSUME NEW w \in Conn, NEW c \in Call, Issue(w, c) \/ IssueFails(w, c)
      PROVE  TypeOK' /\ CallInv' /\ Unfed'
  <2>1. TypeOK'
    <3>1. CASE Issue(w, c)
      BY <3>1 DEF Issue, TypeOK, Call
    <3>2. CASE IssueFails(w, c)
      BY <3>2 DEF IssueFails, TypeOK, Call
    <3> QED BY <1>3, <3>1, <3>2
  <2>2. PICK to \in {"sent", "result"} : where' = [where EXCEPT ![c] = to]
    BY <1>3 DEF Issue, IssueFails
  <2>3. where[c] = "queued" /\ UNCHANGED <<n, next, main, received, err, results>>
    BY <1>3 DEF Issue, IssueFails
  <2>4. CallInv'
    <3>1. CASE Issue(w, c)
      <4>1. where' = [where EXCEPT ![c] = "sent"] /\ failed' = failed
            /\ \A d \in Call : d # c => server'[d] = server[d]
        BY <3>1 DEF Issue, TypeOK
      <4> QED BY <4>1, <2>3, MoveStep
    <3>2. CASE IssueFails(w, c)
      BY <3>2, <2>3, MoveStep DEF IssueFails
    <3> QED BY <1>3, <3>1, <3>2
  <2> QED BY <2>1, <2>2, <2>3, <2>4, UnfedKept
<1>4. ASSUME NEW w \in Conn, WorkerExit(w)
      PROVE  TypeOK' /\ CallInv' /\ Unfed'
  <2>1. TypeOK' /\ Unfed'
    BY <1>4 DEF WorkerExit, TypeOK, Call, Unfed
  <2>2. CallInv'
    BY <1>4, QuietCall DEF WorkerExit
  <2> QED BY <2>1, <2>2
<1>5. ASSUME NEW c \in Call, Complete(c)
      PROVE  TypeOK' /\ CallInv' /\ Unfed'
  <2>1. TypeOK'
    BY <1>5 DEF Complete, TypeOK, Call
  <2>2. CallInv'
    BY <1>5, MoveStep DEF Complete
  <2>3. Unfed'
    BY <1>5, UnfedKept DEF Complete
  <2> QED BY <2>1, <2>2, <2>3
<1>6. ASSUME NEW c \in Call, Collect(c)
      PROVE  TypeOK' /\ CallInv' /\ Unfed'
  <2>1. Unfed'
    BY <1>6, UnfedKept DEF Collect
  <2> QED BY <2>1, <1>6, CollectStep
<1>8. ASSUME NEW c \in Call, Execute(c)
      PROVE  TypeOK' /\ CallInv' /\ Unfed'
  <2>1. TypeOK' /\ Unfed'
    BY <1>8 DEF Execute, TypeOK, Call, Unfed
  <2>2. CallInv'
    BY <1>8, QuietCall DEF Execute, TypeOK
  <2> QED BY <2>1, <2>2
<1>7. CASE UNCHANGED vars
  <2>1. TypeOK' /\ Unfed'
    BY <1>7 DEF vars, TypeOK, Call, Unfed
  <2>2. CallInv'
    BY <1>7, QuietCall DEF vars
  <2> QED BY <2>1, <2>2
<1> QED
  BY <1>1, <1>2, <1>3, <1>4, <1>5, <1>6, <1>7, <1>8
  DEF Next, FeederStep, WorkerStep, Network, ServerStep, MainStep, Terminated

\* The count CallMany keeps is the number of calls received without error.
THEOREM CallInvariant == Spec => [](TypeOK /\ CallInv /\ Unfed)
<1>1. Init => Unfed
  BY DEF Init, Unfed
<1> QED BY <1>1, InitCall, NextCall, PTL DEF Spec

\* A nil result of CallMany means that every call was executed and answered
\* without error, whatever the interleaving of feeder, workers and replies.
THEOREM NilIsComplete == Spec => []NilMeansAll
<1>1. TypeOK /\ CallInv => NilMeansAll
  <2> SUFFICES ASSUME TypeOK, CallInv, main = "returned", err = "nil"
               PROVE  failed = {} /\ \A c \in Call : where[c] = "received" /\ server[c] = "executed"
    BY DEF NilMeansAll
  <2> QED BY CompleteCount DEF CallInv
<1> QED BY <1>1, CallInvariant, PTL

\* close(results) comes after the last send on results.
THEOREM ClosedIsQuiet == Spec => []NoSendOnClosed
<1>1. TypeOK /\ CallInv => NoSendOnClosed
  <2> SUFFICES ASSUME TypeOK, CallInv, results = "closed"
               PROVE  \A c \in Call : where[c] = "received"
    BY DEF NoSendOnClosed
  <2> QED BY CompleteCount DEF CallInv
<1> QED BY <1>1, CallInvariant, PTL
=============================================================================
