------------------------------ MODULE CallMany ------------------------------
(***************************************************************************)
(* vrpc.Client.CallMany: send a list of RPCs over several connections and  *)
(* wait for all of them or for the first error.  A feeder goroutine puts   *)
(* the calls on callChan, one goroutine per connection takes them off and  *)
(* issues them, and the caller collects results.  RunConvoRound and        *)
(* RunDialRound send the pieces of a batch this way, and go on to the next *)
(* phase of the round when CallMany returns nil.                           *)
(*                                                                         *)
(* Calls are independent of each other and a channel is a set of them: the *)
(* order in which they are taken off is left open.  A call that fails with *)
(* its connection may still be executed by the server, even after CallMany *)
(* has returned the error.                                                 *)
(***************************************************************************)
EXTENDS Integers, FiniteSets

CONSTANTS
  MaxCalls,   \* bound: CallMany gets between 0 and MaxCalls calls
  Conns,      \* len(c.rpcClients)
  ChanCap     \* capacity of callChan (4 in the code)

ASSUME CallAssumption ==
  /\ MaxCalls \in Nat
  /\ Conns \in Nat \ {0}
  /\ ChanCap \in Nat \ {0}

Conn == 1 .. Conns

VARIABLES
  n,         \* len(calls)
  next,      \* the feeder's loop variable
  feeder,    \* "feeding" or "exited", having closed callChan
  where,     \* where[c]: "todo", on callChan ("queued"), issued ("sent"), on
             \* results ("result"), "received" by the caller, or "skipped"
  failed,    \* the calls that completed with an error
  server,    \* server[c]: "none", "pending" on its way to the server or in
             \* its handler, or "executed"
  worker,    \* worker[w]: "running" or "exited"
  main,      \* the caller: "collecting" or "returned"
  received,  \* the caller's count
  err,       \* the caller's err: "nil" or "error"
  results,   \* "open" or "closed"
  done       \* "open" or "closed"

vars == <<n, next, feeder, where, failed, server, worker, main, received, err,
          results, done>>

Call == 1 .. n

At(place) == {c \in Call : where[c] = place}

Init ==
  /\ n \in 0 .. MaxCalls
  /\ next = 1
  /\ where = [c \in Call |-> "todo"]
  /\ failed = {}
  /\ server = [c \in Call |-> "none"]
  /\ received = 0
  /\ err = "nil"
  /\ results = "open"
  /\ done = "open"
  /\ IF n = 0
       THEN /\ main = "returned"      \* before any goroutine is started
            /\ feeder = "exited"
            /\ worker = [w \in Conn |-> "exited"]
       ELSE /\ main = "collecting"
            /\ feeder = "feeding"
            /\ worker = [w \in Conn |-> "running"]

\* case callChan <- c
Feed ==
  /\ feeder = "feeding"
  /\ next <= n
  /\ Cardinality(At("queued")) < ChanCap
  /\ where' = [where EXCEPT ![next] = "queued"]
  /\ next' = next + 1
  /\ UNCHANGED <<n, feeder, failed, server, worker, main, received, err, results,
                 done>>

\* case <-done: break leaves the select, and the loop goes on.
FeedSkip ==
  /\ feeder = "feeding"
  /\ next <= n
  /\ done = "closed"
  /\ where' = [where EXCEPT ![next] = "skipped"]
  /\ next' = next + 1
  /\ UNCHANGED <<n, feeder, failed, server, worker, main, received, err, results,
                 done>>

\* Mutant: the feeder returns without close(callChan) once done is closed.
FeedCloseUnlessDone ==
  /\ feeder = "feeding"
  /\ next > n
  /\ done = "open"
  /\ feeder' = "exited"
  /\ UNCHANGED <<n, next, where, failed, server, worker, main, received, err,
                 results, done>>

\* close(callChan)
FeedClose ==
  /\ feeder = "feeding"
  /\ next > n
  /\ feeder' = "exited"
  /\ UNCHANGED <<n, next, where, failed, server, worker, main, received, err,
                 results, done>>

\* for call := range callChan { rc.Go(...) }: the request is written.
Issue(w, c) ==
  /\ worker[w] = "running"
  /\ where[c] = "queued"
  /\ where' = [where EXCEPT ![c] = "sent"]
  /\ server' = [server EXCEPT ![c] = "pending"]
  /\ UNCHANGED <<n, next, feeder, failed, worker, main, received, err, results,
                 done>>

\* rc.Go on a connection that is shut down, or that breaks while the request
\* is written: the call completes with an error at once.
IssueFails(w, c) ==
  /\ worker[w] = "running"
  /\ where[c] = "queued"
  /\ where' = [where EXCEPT ![c] = "result"]
  /\ failed' = failed \cup {c}
  /\ UNCHANGED <<n, next, feeder, server, worker, main, received, err, results,
                 done>>

\* callChan is closed and empty.
WorkerExit(w) ==
  /\ worker[w] = "running"
  /\ feeder = "exited"
  /\ At("queued") = {}
  /\ worker' = [worker EXCEPT ![w] = "exited"]
  /\ UNCHANGED <<n, next, feeder, where, failed, server, main, received, err,
                 results, done>>

\* The server's handler for call c has run, whatever has become of the
\* connection since the request was written.
Execute(c) ==
  /\ server[c] = "pending"
  /\ server' = [server EXCEPT ![c] = "executed"]
  /\ UNCHANGED <<n, next, feeder, where, failed, worker, main, received, err,
                 results, done>>

\* net/rpc completes call c, with the reply, the server's error or the error
\* of a broken connection, and puts it on results.
Complete(c) ==
  /\ where[c] = "sent"
  /\ where' = [where EXCEPT ![c] = "result"]
  /\ \/ server[c] = "executed" /\ failed' = failed
     \/ failed' = failed \cup {c}
  /\ UNCHANGED <<n, next, feeder, server, worker, main, received, err, results,
                 done>>

\* Mutant: the first results are taken for the last.
LastEarly == received + 1 >= n - 1

\* if received == len(calls), after received++
Last == received + 1 = n

\* Mutant: an error does not stop the collection, and a later result
\* overwrites it.
CollectOverwrites(c) ==
  /\ main = "collecting"
  /\ where[c] = "result"
  /\ err' = IF c \in failed THEN "error" ELSE "nil"
  /\ where' = [where EXCEPT ![c] = "received"]
  /\ received' = received + 1
  /\ IF Last
       THEN main' = "returned" /\ results' = "closed" /\ done' = "closed"
       ELSE UNCHANGED <<main, results, done>>
  /\ UNCHANGED <<n, next, feeder, failed, server, worker>>

\* One iteration of the loop over results, with close(done) and return.
Collect(c) ==
  /\ main = "collecting"
  /\ where[c] = "result"
  /\ err' = IF c \in failed THEN "error" ELSE "nil"
  /\ where' = [where EXCEPT ![c] = "received"]
  /\ IF c \in failed
       THEN main' = "returned" /\ done' = "closed" /\ UNCHANGED <<received, results>>
       ELSE /\ received' = received + 1
            /\ IF Last
                 THEN main' = "returned" /\ results' = "closed" /\ done' = "closed"
                 ELSE UNCHANGED <<main, results, done>>
  /\ UNCHANGED <<n, next, feeder, failed, server, worker>>

Stopped == main = "returned" /\ feeder = "exited" /\ At("sent") = {}
           /\ (\A w \in Conn : worker[w] = "exited")

Terminated == Stopped /\ UNCHANGED vars

FeederStep    == Feed \/ FeedSkip \/ FeedClose
WorkerStep(w) == (\E c \in Call : Issue(w, c) \/ IssueFails(w, c)) \/ WorkerExit(w)
Network       == \E c \in Call : Complete(c)
ServerStep    == \E c \in Call : Execute(c)
MainStep      == \E c \in Call : Collect(c)

Next == FeederStep \/ (\E w \in Conn : WorkerStep(w)) \/ Network \/ ServerStep
        \/ MainStep \/ Terminated

Spec == Init /\ [][Next]_vars

\* Goroutines are scheduled fairly; an issued RPC is answered or its
\* connection breaks.
FairSpec ==
  /\ Spec
  /\ WF_vars(FeederStep)
  /\ \A w \in Conn : WF_vars(WorkerStep(w))
  /\ WF_vars(Network)
  /\ WF_vars(MainStep)

-----------------------------------------------------------------------------
\* Every variable has its type: the feeder stays within calls and the caller
\* never counts more results than there are calls.
TypeOK ==
  /\ n \in 0 .. MaxCalls
  /\ next \in 1 .. n + 1
  /\ feeder \in {"feeding", "exited"}
  /\ where \in [Call -> {"todo", "queued", "sent", "result", "received", "skipped"}]
  /\ failed \in SUBSET Call
  /\ server \in [Call -> {"none", "pending", "executed"}]
  /\ worker \in [Conn -> {"running", "exited"}]
  /\ main \in {"collecting", "returned"}
  /\ received \in 0 .. n
  /\ err \in {"nil", "error"}
  /\ results \in {"open", "closed"}
  /\ done \in {"open", "closed"}

\* CallMany returns nil only when every call was issued, executed and
\* answered without error.  The phases of a round rely on it: RunConvoRound
\* calls Close when all its Adds are in, and none is left that could run
\* beside Close, for which the round still has the status Add asks for.  A
\* call is executed after CallMany returned only if it returned an error.
NilMeansAll ==
  main = "returned" /\ err = "nil" =>
    failed = {} /\ \A c \in Call : where[c] = "received" /\ server[c] = "executed"

\* Once CallMany has closed results nothing is left that could complete and
\* be sent on the closed channel, which would panic the process.
NoSendOnClosed ==
  results = "closed" => \A c \in Call : where[c] = "received"

\* CallMany returns and leaves no goroutine behind, also when it returns at
\* the first error while calls are still being fed.
AllGoroutinesEnd == <>Stopped
=============================================================================
