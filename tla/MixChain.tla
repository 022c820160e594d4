------------------------------ MODULE MixChain ------------------------------
(***************************************************************************)
(* The round pipeline of Vuvuzela: the entry server (node 0) drives rounds *)
(* of two protocols, "convo" and "dial", through the chain of mix servers  *)
(* 1..N.  A mix server that closes a round drives the same round on the    *)
(* next server from inside its own Close handler, so each node is the RPC  *)
(* client of the next one.  ConvoService and DialService of one server     *)
(* share a single mutex, Idle: NewRound takes it and Close gives it back   *)
(* once the next server has accepted the round, which lets the following   *)
(* round in while the current one is still travelling down the chain.      *)
(*                                                                         *)
(* Onions are left out; this module keeps the control: which RPC is        *)
(* outstanding, what each handler checks, who holds Idle, what an error    *)
(* return leaves behind, and what a broken connection or a restarted entry *)
(* server does to all that.                                                *)
(***************************************************************************)
EXTENDS Integers, FiniteSets

CONSTANTS
  N,            \* number of mix servers in pki.ServerOrder
  MaxRound,     \* bound: rounds 0..MaxRound of each protocol are run
  MaxFaults     \* bound: broken connections and restarts of the entry server

ASSUME ChainAssumption ==
  /\ N \in Nat \ {0}
  /\ MaxRound \in Nat
  /\ MaxFaults \in Nat

Service == {"convo", "dial"}
Round   == 0 .. MaxRound
Job     == [svc : Service, round : Round]

Node   == 0 .. N
Server == 1 .. N
Caller == 0 .. N - 1

VARIABLES
  stage,    \* stage[i][j]: how far node i is with job j
  idle,     \* idle[s]: server s's Idle mutex is locked
  waiting,  \* waiting[s]: NewRound requests that reached s and wait for Idle
  cur,      \* cur[svc]: the entry server's convoRound and dialRound
  up,       \* up[i]: rpcClients[0] of node i towards i+1; up[N] is lastServer
  dataUp,   \* dataUp[i]: every other connection of node i towards i+1
  drops,    \* connections broken so far
  epoch     \* incarnation of the entry server

vars == <<stage, idle, waiting, cur, up, dataUp, drops, epoch>>

faults == <<up, dataUp, drops, epoch>>

(***************************************************************************)
(* Stages.  On a server, "absent" and "deleted" mean that srv.rounds has   *)
(* no entry, "new" is convoRoundNew, "closed" is convoRoundClosed or       *)
(* dialRoundClosed, and every other stage has status open: "open" before   *)
(* Close is called, "failed" after Close returned an error, the rest while *)
(* Close runs.  On node 0 the stage is that of the round loop ("handoff",  *)
(* "receiving") and then of the runConvoRound or runDialRound goroutine.   *)
(***************************************************************************)
Stage == {"absent", "new", "open", "filtering", "handoff", "unlocking",
          "receiving", "opening", "adding", "closing", "awaiting", "getting",
          "deleting", "buckets", "leaving", "closed", "failed", "deleted"}

\* The round is in srv.rounds, so that NewRound refuses to create it.
Exists(st) == st \notin {"absent", "deleted"}

\* The status that NewRound leaves: convoRoundNew, or at once dialRoundOpen.
Created(svc) == IF svc = "convo" THEN "new" ELSE "open"

\* Mutant: RunConvoRound adds without opening the round.
FirstCallNoOpen(svc) == "adding"

\* The first call after NewRound: RunConvoRound opens, RunDialRound adds.
FirstCall(svc) == IF svc = "convo" THEN "opening" ELSE "adding"

\* Mutant: RunConvoRound forgets to collect the replies and to clean up.
AfterCloseNoGet(i, svc) == IF i = 0 /\ svc = "dial" THEN "buckets" ELSE "closed"

\* What node i does once Close returned without error: a convo round still
\* collects the replies; the entry server asks for the dial buckets.
AfterClose(i, svc) ==
  IF svc = "convo" THEN "getting"
  ELSE IF i = 0 THEN "buckets" ELSE "closed"

\* What an error leaves: the round loop of the entry server tries the same
\* round again, everybody else gives up on the round.
AfterError(i, st) == IF i = 0 /\ st = "handoff" THEN "absent" ELSE "failed"

\* Mutant: Delete leaves the round in srv.rounds.
EffectKeep(st, callee) ==
  CASE st = "opening" /\ callee = "new"   -> "open"
    [] st = "closing" /\ callee = "open"  -> "filtering"
    [] OTHER                              -> callee

\* The effect on server i+1 of the one-shot call a node at stage st makes.
Effect(st, callee) ==
  CASE st = "opening" /\ callee = "new"   -> "open"
    [] st = "closing" /\ callee = "open"  -> "filtering"
    [] st = "deleting"                    -> "deleted"
    [] OTHER                              -> callee

\* Mutant: NewRound does not wait for Idle.
LockIdleAnyway(s) == idle' = [idle EXCEPT ![s] = TRUE]

LockIdle(s) == ~idle[s] /\ idle' = [idle EXCEPT ![s] = TRUE]

\* Mutant: the last server's Close does not unlock Idle.
UnlockIdleNotLast(s) == idle' = [idle EXCEPT ![s] = (s = N)]

UnlockIdle(s) == idle' = [idle EXCEPT ![s] = FALSE]

Move(i, j, to) == stage' = [stage EXCEPT ![i][j] = to]

MoveBoth(i, j, to, calleeTo) ==
  stage' = [stage EXCEPT ![i][j] = to, ![i + 1][j] = calleeTo]

-----------------------------------------------------------------------------
Init ==
  /\ stage   = [i \in Node |-> [j \in Job |-> "absent"]]
  /\ idle    = [s \in Server |-> FALSE]
  /\ waiting = [s \in Server |-> {}]
  /\ cur     = [svc \in Service |-> 0]
  /\ up      = [i \in Node |-> TRUE]
  /\ dataUp  = [i \in Caller |-> TRUE]
  /\ drops   = 0
  /\ epoch   = 0

(***************************************************************************)
(* The entry server's round loops.                                         *)
(***************************************************************************)

\* A NewRound call by node i leaves the node waiting for the reply; on a
\* broken connection net/rpc refuses it and no request leaves the node.
CallNewRound(i, j) ==
  /\ Move(i, j, "handoff")
  /\ waiting' = IF up[i]
                THEN [waiting EXCEPT ![i + 1] =
                        @ \cup {[job |-> j, epoch |-> IF i = 0 THEN epoch ELSE 0]}]
                ELSE waiting

\* The head of convoRoundLoop / dialRoundLoop.
EntryNewRound(j) ==
  /\ j.round = cur[j.svc]
  /\ stage[0][j] = "absent"
  /\ CallNewRound(0, j)
  /\ UNCHANGED <<idle, cur, faults>>

\* The broadcast has been sent and receiveWait is over: run the round in a
\* goroutine of its own and go on with the next round number.
EntryRun(j) ==
  /\ stage[0][j] = "receiving"
  /\ Move(0, j, FirstCall(j.svc))
  /\ cur' = [cur EXCEPT ![j.svc] = @ + 1]
  /\ UNCHANGED <<idle, waiting, faults>>

(***************************************************************************)
(* NewRound on server s.  Idle is taken before the round is looked up, and *)
(* the error return for a round that already exists does not give it back. *)
(* The reply reaches the caller if the connection the request came on is   *)
(* still there.                                                            *)
(***************************************************************************)
NewRound(s, q) ==
  LET j       == q.job
      ok      == ~Exists(stage[s][j])
      replied == up[s - 1] /\ (s = 1 => q.epoch = epoch)
      caller  == IF ~replied THEN stage[s - 1][j]
                 ELSE IF ~ok THEN AfterError(s - 1, "handoff")
                 ELSE IF s = 1 THEN "receiving" ELSE "unlocking"
      callee  == IF ok THEN Created(j.svc) ELSE stage[s][j]
  IN /\ q \in waiting[s]
     /\ LockIdle(s)
     /\ waiting' = [waiting EXCEPT ![s] = @ \ {q}]
     /\ MoveBoth(s - 1, j, caller, callee)
     /\ UNCHANGED <<cur, faults>>

(***************************************************************************)
(* RunConvoRound and RunDialRound, run by node i against server i+1.  Each *)
(* handler looks the round up with getRound and returns an error if its    *)
(* status is not the expected one.                                         *)
(***************************************************************************)
Open(i, j) ==
  LET ok == stage[i + 1][j] = "new"
  IN /\ stage[i][j] = "opening"
     /\ up[i]
     /\ MoveBoth(i, j, IF ok THEN "adding" ELSE "failed",
                 Effect("opening", stage[i + 1][j]))
     /\ UNCHANGED <<idle, waiting, cur, faults>>

\* CallMany of every Add.  No call at all is made for an empty batch.
Add(i, j) ==
  LET ok == stage[i + 1][j] = "open"
  IN /\ stage[i][j] = "adding"
     /\ Move(i, j, IF ok THEN "closing" ELSE "failed")
     /\ UNCHANGED <<idle, waiting, cur, faults>>

\* Close starts on server i+1 while node i waits for it to return.
Close(i, j) ==
  LET ok == stage[i + 1][j] = "open"
  IN /\ stage[i][j] = "closing"
     /\ up[i]
     /\ MoveBoth(i, j, IF ok THEN "awaiting" ELSE "failed",
                 Effect("closing", stage[i + 1][j]))
     /\ UNCHANGED <<idle, waiting, cur, faults>>

\* Mutant: Close unlocks Idle before it calls NewRound on the next server.
HandOffUnlocked(s, j) ==
  /\ s < N
  /\ stage[s][j] = "filtering"
  /\ CallNewRound(s, j)
  /\ UnlockIdle(s)
  /\ UNCHANGED <<cur, faults>>

\* Close of server s < N has filtered, added noise and shuffled: it starts
\* the round on the next server, still holding Idle.
HandOff(s, j) ==
  /\ s < N
  /\ stage[s][j] = "filtering"
  /\ CallNewRound(s, j)
  /\ UNCHANGED <<idle, cur, faults>>

\* Idle.Unlock() in Close: after the next server accepted the round, or, on
\* the last server, after the exchange of the dead drops.
Unlock(s, j) ==
  /\ stage[s][j] = IF s = N THEN "filtering" ELSE "unlocking"
  /\ UnlockIdle(s)
  /\ Move(s, j, IF s = N THEN "leaving" ELSE FirstCall(j.svc))
  /\ UNCHANGED <<waiting, cur, faults>>

\* The last server's Close sets the status and returns.
Leave(j) ==
  /\ stage[N][j] = "leaving"
  /\ Move(N, j, "closed")
  /\ UNCHANGED <<idle, waiting, cur, faults>>

\* Close returned on server i+1.
CloseReply(i, j) ==
  /\ stage[i][j] = "awaiting"
  /\ up[i]
  /\ stage[i + 1][j] \in {"closed", "failed"}
  /\ Move(i, j, IF stage[i + 1][j] = "closed" THEN AfterClose(i, j.svc)
                                              ELSE "failed")
  /\ UNCHANGED <<idle, waiting, cur, faults>>

\* Mutant: Get looks for a round that is still open.
GetWantsOpen(i, j) ==
  LET ok == stage[i + 1][j] = "open"
  IN /\ stage[i][j] = "getting"
     /\ Move(i, j, IF ok THEN "deleting" ELSE "failed")
     /\ UNCHANGED <<idle, waiting, cur, faults>>

\* CallMany of every Get.
Get(i, j) ==
  LET ok == stage[i + 1][j] = "closed"
  IN /\ stage[i][j] = "getting"
     /\ Move(i, j, IF ok THEN "deleting" ELSE "failed")
     /\ UNCHANGED <<idle, waiting, cur, faults>>

\* Delete asks for no status.  It ends RunConvoRound, and with it the Close
\* of server i, or the round of the entry server.
Delete(i, j) ==
  /\ stage[i][j] = "deleting"
  /\ up[i]
  /\ MoveBoth(i, j, "closed", Effect("deleting", stage[i + 1][j]))
  /\ UNCHANGED <<idle, waiting, cur, faults>>

\* The entry server fetches the dial buckets from the last server.
Buckets(j) ==
  /\ stage[0][j] = "buckets"
  /\ up[N]
  /\ Move(0, j, IF stage[N][j] = "closed" THEN "closed" ELSE "failed")
  /\ UNCHANGED <<idle, waiting, cur, faults>>

-----------------------------------------------------------------------------
(***************************************************************************)
(* Failures.  vrpc dials its connections once and never again, so that a   *)
(* broken connection stays broken as long as its client process lives.     *)
(***************************************************************************)

\* A call outstanding or made on a broken connection returns an error.  No
\* error path gives Idle back.
CallError(i, j) ==
  /\ \/ /\ stage[i][j] \in {"handoff", "opening", "closing", "awaiting", "deleting"}
        /\ i < N
        /\ ~up[i]
     \/ /\ stage[i][j] = "buckets"
        /\ ~up[N]
     \/ /\ stage[i][j] \in {"adding", "getting"}
        /\ i < N
        /\ ~up[i] \/ ~dataUp[i]
  /\ Move(i, j, AfterError(i, stage[i][j]))
  /\ UNCHANGED <<idle, waiting, cur, faults>>

\* Of the calls outstanding on a connection that breaks, server s has
\* executed the jobs in done; the NewRound requests in lost never got there.
Severed(s, done, lost) ==
  /\ up[s - 1] \/ (done = {} /\ lost = {})
  /\ done \subseteq {j \in Job : stage[s - 1][j] \in {"opening", "closing", "deleting"}}
  /\ lost \subseteq {q \in waiting[s] : s = 1 => q.epoch = epoch}
  /\ waiting' = [waiting EXCEPT ![s] = @ \ lost]

CalleeAfter(s, done) ==
  [j \in Job |-> IF j \in done THEN Effect(stage[s - 1][j], stage[s][j])
                               ELSE stage[s][j]]

Drop(i) ==
  /\ drops + epoch < MaxFaults
  /\ up[i]
  /\ up' = [up EXCEPT ![i] = FALSE]
  /\ drops' = drops + 1
  /\ IF i = N
     THEN UNCHANGED <<stage, waiting>>
     ELSE \E done \in SUBSET Job, lost \in SUBSET waiting[i + 1] :
            /\ Severed(i + 1, done, lost)
            /\ stage' = [stage EXCEPT ![i + 1] = CalleeAfter(i + 1, done)]
  /\ UNCHANGED <<idle, cur, dataUp, epoch>>

DropData(i) ==
  /\ drops + epoch < MaxFaults
  /\ dataUp[i]
  /\ dataUp' = [dataUp EXCEPT ![i] = FALSE]
  /\ drops' = drops + 1
  /\ UNCHANGED <<stage, idle, waiting, cur, up, epoch>>

\* The entry server process dies and is started again: it forgets every
\* round, dials the first and the last server anew and counts from 0.
EntryRestart ==
  /\ drops + epoch < MaxFaults
  /\ epoch' = epoch + 1
  /\ \E done \in SUBSET Job, lost \in SUBSET waiting[1] :
       /\ Severed(1, done, lost)
       /\ stage' = [stage EXCEPT ![0] = [j \in Job |-> "absent"],
                                 ![1] = CalleeAfter(1, done)]
  /\ cur' = [svc \in Service |-> 0]
  /\ up' = [up EXCEPT ![0] = TRUE, ![N] = TRUE]
  /\ dataUp' = [dataUp EXCEPT ![0] = TRUE]
  /\ UNCHANGED <<idle, drops>>

-----------------------------------------------------------------------------
EntryStep(j) == EntryNewRound(j) \/ EntryRun(j) \/ Buckets(j)

CallerStep(i, j) ==
  \/ Open(i, j) \/ Add(i, j) \/ Close(i, j) \/ CloseReply(i, j)
  \/ Get(i, j) \/ Delete(i, j)

ServerStep(s, j) == HandOff(s, j) \/ Unlock(s, j)

\* Every round within the bound has come to its end.
Finished ==
  /\ \A j \in Job : stage[0][j] \in {"closed", "failed"}
  /\ UNCHANGED vars

Step ==
  \/ \E j \in Job : EntryStep(j) \/ Leave(j)
  \/ \E s \in Server : \E q \in waiting[s] : NewRound(s, q)
  \/ \E i \in Caller, j \in Job : CallerStep(i, j)
  \/ \E s \in Server, j \in Job : ServerStep(s, j)
  \/ \E i \in Node, j \in Job : CallError(i, j)

Fault ==
  \/ \E i \in Node : Drop(i)
  \/ \E i \in Caller : DropData(i)
  \/ EntryRestart

Next == Step \/ Fault \/ Finished

Spec == Init /\ [][Next]_vars

\* As long as some goroutine can run, one of them does.
FairSpec == Spec /\ WF_vars(Step)

-----------------------------------------------------------------------------
\* Every variable keeps its type, whatever breaks.
TypeOK ==
  /\ stage   \in [Node -> [Job -> Stage]]
  /\ idle    \in [Server -> BOOLEAN]
  /\ waiting \in [Server -> SUBSET [job : Job, epoch : Nat]]
  /\ cur     \in [Service -> Nat]
  /\ up      \in [Node -> BOOLEAN]
  /\ dataUp  \in [Caller -> BOOLEAN]
  /\ drops   \in Nat
  /\ epoch   \in Nat

\* The stages between NewRound's Idle.Lock and Close's Idle.Unlock.
Holding == {"new", "open", "filtering", "handoff", "unlocking"}

\* A server takes in at most one round at a time, counting the rounds of
\* both protocols, even after connections broke and the entry restarted:
\* this is what the Idle mutex shared by ConvoService and DialService is for.
IngestExclusive ==
  \A s \in Server : \A j, k \in Job :
    stage[s][j] \in Holding /\ stage[s][k] \in Holding => j = k

\* Close never unlocks an Idle mutex that is not locked (Go aborts the
\* process on that): from NewRound to the Unlock in Close, Idle is locked.
IdleHeld ==
  \A s \in Server, j \in Job : stage[s][j] \in Holding => idle[s]

\* As long as the connection lives, no call of RunConvoRound, RunDialRound or
\* runDialRound meets the getRound error: the round is there with exactly the
\* status the call expects, although rounds of both protocols overlap and
\* other connections may be broken.
CallsFindRound ==
  /\ \A i \in Caller, j \in Job :
       up[i] =>
       /\ stage[i][j] = "opening"  => stage[i + 1][j] = "new"
       /\ stage[i][j] \in {"adding", "closing"} => stage[i + 1][j] = "open"
       /\ stage[i][j] \in {"getting", "deleting"} => stage[i + 1][j] = "closed"
  /\ \A j \in Job : stage[0][j] = "buckets" => stage[N][j] = "closed"

\* A round that a node reports as done is done on every server behind it: a
\* closed dial round can be asked for its buckets at the last server, and a
\* closed convo round has left no state behind.  After a restart of the entry
\* server this is no longer so: a NewRound request of the earlier incarnation
\* may create the round again.
DownstreamDone ==
  epoch = 0 => \A i \in Node, t \in Server, j \in Job :
    i < t /\ stage[i][j] \in {"closed", "deleted", "buckets"}
      => stage[t][j] = IF j.svc = "convo" THEN "deleted" ELSE "closed"

\* Until the entry server restarts and counts from 0 again, rounds of one
\* protocol never overtake each other: a server that knows of a round is
\* through with taking in every earlier round.
NoOvertaking ==
  epoch = 0 => \A s \in Server : \A j, k \in Job :
    /\ j.svc = k.svc /\ j.round < k.round
    /\ stage[s][k] # "absent"
    => stage[s][j] \notin Holding \cup {"absent"}

\* Idle is locked only while some round is being taken in: "wait for the
\* service to become idle before starting a new round" (convo.go:86) waits
\* for a round that is going to end.
LockedMeansBusy ==
  \A s \in Server : idle[s] => \E j \in Job : stage[s][j] \in Holding

\* The stages of a node that has started a round on the next server and is
\* going to close it there.
Driving == {"receiving", "unlocking", "opening", "adding", "closing"}

\* Without faults, whoever waits for Idle waits for somebody who is working:
\* Idle is locked only for a round that the server's own Close is busy with,
\* or that the node in front has started and is still going to close.  No
\* round is left open on a server by a caller that gave up on it.
IdleDriven ==
  \A s \in Server : idle[s] =>
    \E j \in Job : /\ stage[s][j] \in Holding
                   /\ stage[s][j] \in {"new", "open"} => stage[s - 1][j] \in Driving

\* A server gives Idle back only for a round that the next server has
\* already taken, so that at most one round waits between two servers.
ReleaseAfterHandoff ==
  [][\A s \in Server :
       s < N /\ idle[s] /\ ~idle'[s] =>
         \E j \in Job : /\ stage[s][j] \in Holding
                        /\ stage'[s][j] \notin Holding
                        /\ stage[s + 1][j] \in Holding]_vars

\* The rounds each server is taking in, and the connections in the chain.
Ingesting == [s \in Server |-> {j \in Job : stage[s][j] \in Holding}]
Links     == [s \in 1 .. N - 1 |-> up[s]]

P == INSTANCE Pipeline WITH held <- Ingesting, locked <- idle, link <- Links

\* The chain with all its calls, errors and faults implements the pipeline
\* that the Idle mutexes stand for: a server holds one round at a time, takes
\* it from the server before it and lets it go when the next server has it.
ImplementsPipeline == P!Spec

\* Without faults every round the entry server announces is answered.
RoundsComplete ==
  \A j \in Job : stage[0][j] = "handoff" ~> stage[0][j] = "closed"

\* Without faults every convo round is deleted again on every server.
ConvoReclaimed ==
  \A j \in {k \in Job : k.svc = "convo"} :
    stage[1][j] = "new" ~> \A s \in Server : stage[s][j] = "deleted"
=============================================================================
