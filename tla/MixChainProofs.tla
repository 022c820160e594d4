--------------------------- MODULE MixChainProofs ---------------------------
(***************************************************************************)
(* Proofs about MixChain, for every chain length N and every bound on      *)
(* rounds, broken connections and restarts of the entry server.            *)
(***************************************************************************)
EXTENDS MixChain, TLAPS

\* The control variable after Move, point by point.
LEMMA MovePoint ==
  ASSUME stage \in [Node -> [Job -> Stage]],
         NEW i \in Node, NEW j \in Job, NEW to \in Stage,
         Move(i, j, to)
  PROVE  /\ stage' \in [Node -> [Job -> Stage]]
         /\ \A n \in Node, k \in Job :
              stage'[n][k] = IF n = i /\ k = j THEN to ELSE stage[n][k]
BY Zenon DEF Move

\* The control variable after MoveBoth, point by point.
LEMMA MoveBothPoint ==
  ASSUME stage \in [Node -> [Job -> Stage]],
         NEW i \in Caller, NEW j \in Job, NEW to \in Stage, NEW ct \in Stage,
         MoveBoth(i, j, to, ct)
  PROVE  /\ stage' \in [Node -> [Job -> Stage]]
         /\ \A n \in Node, k \in Job :
              stage'[n][k] = IF n = i /\ k = j THEN to
                             ELSE IF n = i + 1 /\ k = j THEN ct
                             ELSE stage[n][k]
<1> DEFINE f == [stage EXCEPT ![i][j] = to]
<1>1. i \in Node /\ i + 1 \in Node /\ i # i + 1
  BY ChainAssumption DEF ChainAssumption, Node, Caller
<1>2. /\ f \in [Node -> [Job -> Stage]]
      /\ \A n \in Node, k \in Job :
           f[n][k] = IF n = i /\ k = j THEN to ELSE stage[n][k]
  BY <1>1, Zenon
<1>3. stage' = [f EXCEPT ![i + 1][j] = ct]
  BY Zenon DEF MoveBoth
<1> HIDE DEF f
<1> QED
  BY <1>1, <1>2, <1>3

\* Where the indices of a chain lie.
LEMMA Indices ==
  /\ 0 \in Node /\ N \in Node /\ 0 \in Caller /\ 1 \in Server /\ N \in Server
  /\ \A i \in Caller : i \in Node /\ i + 1 \in Node /\ i + 1 \in Server /\ i # N
  /\ \A s \in Server : s \in Node /\ s - 1 \in Caller /\ (s - 1) + 1 = s /\ s # 0
  /\ \A i \in Node : i # N => i \in Caller
  /\ \A s \in Server : s < N => s \in Caller
BY ChainAssumption DEF ChainAssumption, Node, Caller, Server

\* The helpers that choose a stage return stages.
LEMMA HelpersTyped ==
  /\ \A svc \in Service : Created(svc) \in Stage /\ FirstCall(svc) \in Stage
  /\ \A i \in Node, svc \in Service : AfterClose(i, svc) \in Stage
  /\ \A i \in Node, st \in Stage : AfterError(i, st) \in Stage
  /\ \A st, callee \in Stage : Effect(st, callee) \in Stage
BY DEF Created, FirstCall, AfterClose, AfterError, Effect, Stage, Service

\* A NewRound call keeps the types.
LEMMA CallNewRoundTyped ==
  ASSUME TypeOK, NEW i \in Caller, NEW j \in Job, CallNewRound(i, j)
  PROVE  /\ stage' \in [Node -> [Job -> Stage]]
         /\ waiting' \in [Server -> SUBSET [job : Job, epoch : Nat]]
<1>1. i \in Node /\ i + 1 \in Server
  BY Indices, Zenon
<1>2. "handoff" \in Stage
  BY Zenon DEF Stage
<1>3. stage' \in [Node -> [Job -> Stage]]
  BY <1>1, <1>2, MovePoint, Zenon DEF CallNewRound, TypeOK
<1>4. [job |-> j, epoch |-> IF i = 0 THEN epoch ELSE 0] \in [job : Job, epoch : Nat]
  BY Zenon DEF TypeOK
<1>5. waiting' \in [Server -> SUBSET [job : Job, epoch : Nat]]
  BY <1>1, <1>4, Zenon DEF CallNewRound, TypeOK
<1> QED
  BY <1>3, <1>5, Zenon

\* A connection that breaks keeps the types.
LEMMA SeveredTyped ==
  ASSUME TypeOK, NEW s \in Server, NEW done, NEW lost, Severed(s, done, lost)
  PROVE  /\ CalleeAfter(s, done) \in [Job -> Stage]
         /\ waiting' \in [Server -> SUBSET [job : Job, epoch : Nat]]
<1>1. s \in Node /\ s - 1 \in Node
  BY Indices, Zenon
<1>2. \A j \in Job : stage[s - 1][j] \in Stage /\ stage[s][j] \in Stage
  BY <1>1, Zenon DEF TypeOK
<1>3. CalleeAfter(s, done) \in [Job -> Stage]
  BY <1>2, HelpersTyped, Zenon DEF CalleeAfter
<1>4. waiting' \in [Server -> SUBSET [job : Job, epoch : Nat]]
  BY Zenon DEF Severed, TypeOK
<1> QED
  BY <1>3, <1>4, Zenon

\* Every step keeps the types.
LEMMA TypeStep == TypeOK /\ [Next]_vars => TypeOK'
<1> SUFFICES ASSUME TypeOK, [Next]_vars PROVE TypeOK'
  BY Zenon
<1> USE Indices
<1>t. /\ stage \in [Node -> [Job -> Stage]]
      /\ \A i \in Node, j \in Job : stage[i][j] \in Stage
  BY DEF TypeOK
<1>j. \A j \in Job : j.svc \in Service /\ j.round \in Nat
  BY ChainAssumption DEF ChainAssumption, Job, Round
<1>1. ASSUME NEW j \in Job, EntryNewRound(j) PROVE TypeOK'
  BY <1>1, CallNewRoundTyped, Zenon DEF EntryNewRound, TypeOK, faults
<1>2. ASSUME NEW j \in Job, EntryRun(j) PROVE TypeOK'
  <2>1. stage' \in [Node -> [Job -> Stage]]
    BY <1>2, <1>t, <1>j, MovePoint, HelpersTyped, Zenon DEF EntryRun
  <2> QED
    BY <1>2, <1>j, <2>1 DEF EntryRun, TypeOK, faults
<1>3. ASSUME NEW j \in Job, Buckets(j) PROVE TypeOK'
  <2>1. stage' \in [Node -> [Job -> Stage]]
    <3>1. (IF stage[N][j] = "closed" THEN "closed" ELSE "failed") \in Stage
      BY Zenon DEF Stage
    <3> QED
      BY <1>3, <1>t, <3>1, MovePoint, Zenon DEF Buckets
  <2> QED
    BY <1>3, <2>1, Zenon DEF Buckets, TypeOK, faults
<1>4. ASSUME NEW j \in Job, Leave(j) PROVE TypeOK'
  <2>1. stage' \in [Node -> [Job -> Stage]]
    BY <1>4, <1>t, MovePoint, Zenon DEF Leave, Stage
  <2> QED
    BY <1>4, <2>1, Zenon DEF Leave, TypeOK, faults
<1>5. ASSUME NEW s \in Server, NEW q \in waiting[s], NewRound(s, q) PROVE TypeOK'
  <2>1. q.job \in Job
    BY DEF TypeOK
  <2>2. PICK caller \in Stage, callee \in Stage : MoveBoth(s - 1, q.job, caller, callee)
    <3>1. /\ stage[s - 1][q.job] \in Stage
          /\ stage[s][q.job] \in Stage
          /\ AfterError(s - 1, "handoff") \in Stage
          /\ Created(q.job.svc) \in Stage
      <4>1. stage[s - 1][q.job] \in Stage /\ stage[s][q.job] \in Stage
        BY <1>t, <1>j, <2>1, Zenon
      <4>2. AfterError(s - 1, "handoff") \in Stage
        BY Zenon DEF AfterError, Stage
      <4>3. Created(q.job.svc) \in Stage
        BY Zenon DEF Created, Stage
      <4> QED
        BY <4>1, <4>2, <4>3, Zenon
    <3>2. "receiving" \in Stage /\ "unlocking" \in Stage
      BY Zenon DEF Stage
    <3> QED
      BY <1>5, <3>1, <3>2, Zenon DEF NewRound
  <2>3. stage' \in [Node -> [Job -> Stage]]
    BY <1>t, <2>1, <2>2, MoveBothPoint, Zenon
  <2> QED
    BY <1>5, <2>3, Zenon DEF NewRound, LockIdle, TypeOK, faults
<1>6. ASSUME NEW i \in Caller, NEW j \in Job, CallerStep(i, j) PROVE TypeOK'
  <2>1. stage' \in [Node -> [Job -> Stage]]
    <3>1. /\ Effect("opening", stage[i + 1][j]) \in Stage
          /\ Effect("closing", stage[i + 1][j]) \in Stage
          /\ Effect("deleting", stage[i + 1][j]) \in Stage
          /\ AfterClose(i, j.svc) \in Stage
      <4>1. i + 1 \in Node /\ i \in Node /\ stage[i + 1][j] \in Stage /\ j.svc \in Service
        BY <1>t, <1>j, Zenon
      <4>2. "opening" \in Stage /\ "closing" \in Stage /\ "deleting" \in Stage
        BY Zenon DEF Stage
      <4> QED
        BY <4>1, <4>2, HelpersTyped, Zenon
    <3>2. {"adding", "closing", "awaiting", "deleting", "closed", "failed"} \subseteq Stage
      BY Zenon DEF Stage
    <3>3. CASE Open(i, j)
      BY <1>t, <3>1, <3>2, <3>3, MoveBothPoint, Zenon DEF Open
    <3>4. CASE Add(i, j)
      BY <1>t, <3>2, <3>4, MovePoint, Zenon DEF Add
    <3>5. CASE Close(i, j)
      BY <1>t, <3>1, <3>2, <3>5, MoveBothPoint, Zenon DEF Close
    <3>6. CASE CloseReply(i, j)
      BY <1>t, <3>1, <3>2, <3>6, MovePoint, Zenon DEF CloseReply
    <3>7. CASE Get(i, j)
      BY <1>t, <3>2, <3>7, MovePoint, Zenon DEF Get
    <3>8. CASE Delete(i, j)
      BY <1>t, <3>1, <3>2, <3>8, MoveBothPoint, Zenon DEF Delete
    <3> QED
      BY <1>6, <3>3, <3>4, <3>5, <3>6, <3>7, <3>8, Zenon DEF CallerStep
  <2>2. UNCHANGED <<idle, waiting, cur, faults>>
    BY <1>6, Zenon DEF CallerStep, Open, Add, Close, CloseReply, Get, Delete
  <2> QED
    BY <2>1, <2>2, Zenon DEF TypeOK, faults
<1>7. ASSUME NEW s \in Server, NEW j \in Job, ServerStep(s, j) PROVE TypeOK'
  <2>1. CASE HandOff(s, j)
    BY <2>1, CallNewRoundTyped, Zenon DEF HandOff, TypeOK, faults
  <2>2. CASE Unlock(s, j)
    <3>1. (IF s = N THEN "leaving" ELSE FirstCall(j.svc)) \in Stage
      <4>1. "leaving" \in Stage
        BY Zenon DEF Stage
      <4> QED
        BY <1>j, <4>1, HelpersTyped, Zenon
    <3>2. stage' \in [Node -> [Job -> Stage]]
      BY <1>t, <2>2, <3>1, MovePoint, Zenon DEF Unlock
    <3> QED
      BY <2>2, <3>2, Zenon DEF Unlock, UnlockIdle, TypeOK, faults
  <2> QED
    BY <1>7, <2>1, <2>2, Zenon DEF ServerStep
<1>8. ASSUME NEW i \in Node, NEW j \in Job, CallError(i, j) PROVE TypeOK'
  <2>1. stage' \in [Node -> [Job -> Stage]]
    BY <1>8, <1>t, HelpersTyped, MovePoint, Zenon DEF CallError
  <2> QED
    BY <1>8, <2>1, Zenon DEF CallError, TypeOK, faults
<1>9. ASSUME NEW i \in Node, Drop(i) PROVE TypeOK'
  <2>1. CASE i = N
    BY <1>9, <2>1 DEF Drop, TypeOK
  <2>2. CASE i # N
    <3>1. PICK done \in SUBSET Job, lost \in SUBSET waiting[i + 1] :
            /\ Severed(i + 1, done, lost)
            /\ stage' = [stage EXCEPT ![i + 1] = CalleeAfter(i + 1, done)]
      BY <1>9, <2>2, Zenon DEF Drop
    <3>2. /\ CalleeAfter(i + 1, done) \in [Job -> Stage]
          /\ waiting' \in [Server -> SUBSET [job : Job, epoch : Nat]]
      BY <2>2, <3>1, SeveredTyped, Zenon
    <3>3. stage' \in [Node -> [Job -> Stage]]
      BY <1>t, <2>2, <3>1, <3>2, Zenon
    <3>4. /\ up' = [up EXCEPT ![i] = FALSE] /\ drops' = drops + 1
          /\ UNCHANGED <<idle, cur, dataUp, epoch>>
      BY <1>9, Zenon DEF Drop
    <3> QED
      BY <3>2, <3>3, <3>4 DEF TypeOK
  <2> QED
    BY <2>1, <2>2, Zenon
<1>10. ASSUME NEW i \in Caller, DropData(i) PROVE TypeOK'
  BY <1>10 DEF DropData, TypeOK
<1>11. ASSUME EntryRestart PROVE TypeOK'
  <2>1. PICK done \in SUBSET Job, lost \in SUBSET waiting[1] :
          /\ Severed(1, done, lost)
          /\ stage' = [stage EXCEPT ![0] = [j \in Job |-> "absent"],
                                    ![1] = CalleeAfter(1, done)]
    BY <1>11, Zenon DEF EntryRestart
  <2>2. /\ CalleeAfter(1, done) \in [Job -> Stage]
        /\ waiting' \in [Server -> SUBSET [job : Job, epoch : Nat]]
    BY <2>1, SeveredTyped, Zenon
  <2>3. [j \in Job |-> "absent"] \in [Job -> Stage]
    BY Zenon DEF Stage
  <2>4. stage' \in [Node -> [Job -> Stage]]
    BY <1>t, <2>1, <2>2, <2>3, Zenon
  <2>5. /\ epoch' = epoch + 1 /\ cur' = [svc \in Service |-> 0]
        /\ up' = [up EXCEPT ![0] = TRUE, ![N] = TRUE]
        /\ dataUp' = [dataUp EXCEPT ![0] = TRUE]
        /\ UNCHANGED <<idle, drops>>
    BY <1>11, Zenon DEF EntryRestart
  <2>6. up' \in [Node -> BOOLEAN] /\ dataUp' \in [Caller -> BOOLEAN]
    BY <2>5, Zenon DEF TypeOK
  <2>7. cur' \in [Service -> Nat]
    BY <2>5, Zenon
  <2>8. idle' \in [Server -> BOOLEAN] /\ drops' \in Nat /\ epoch' \in Nat
    BY <2>5 DEF TypeOK
  <2> QED
    BY <2>2, <2>4, <2>6, <2>7, <2>8, Zenon DEF TypeOK
<1>12. CASE UNCHANGED vars
  BY <1>12, Zenon DEF vars, TypeOK
<1> QED
  BY <1>1, <1>2, <1>3, <1>4, <1>5, <1>6, <1>7, <1>8, <1>9, <1>10, <1>11, <1>12, Zenon
  DEF Next, Step, Fault, Finished, EntryStep

\* Type correctness of the round pipeline: no handler, error path or fault
\* takes a variable out of its type.
THEOREM TypeCorrect == Spec => []TypeOK
<1>1. Init => TypeOK
  BY DEF Init, TypeOK, Stage
<1> QED
  BY <1>1, TypeStep, PTL DEF Spec

-----------------------------------------------------------------------------
(***************************************************************************)
(* The inductive invariant.                                                *)
(***************************************************************************)

\* The NewRound request q at server s still has a caller that gets the reply.
HasCaller(s, q) == up[s - 1] /\ (s = 1 => q.epoch = epoch)

\* A request with a caller is one its caller waits for; there is one such
\* request per job, because only the entry server's requests carry epochs.
Pending ==
  \A s \in Server : \A q \in waiting[s] :
    /\ IF s = 1 THEN q.epoch <= epoch ELSE q.epoch = 0
    /\ HasCaller(s, q) => stage[s - 1][q.job] = "handoff"

\* The stages that only one of the two protocols reaches.
OwnStages ==
  \A i \in Node, j \in Job :
    /\ stage[i][j] \in {"new", "opening", "getting", "deleting", "deleted"} => j.svc = "convo"
    /\ stage[i][j] = "buckets" => i = 0 /\ j.svc = "dial"
    /\ stage[i][j] = "receiving" => i = 0
    /\ stage[i][j] = "unlocking" => i # 0

\* What the next server's stage is while node i makes its calls.
Linked ==
  \A i \in Caller, j \in Job :
    /\ stage[i][j] = "unlocking" => stage[i + 1][j] = Created(j.svc)
    /\ up[i] =>
       /\ stage[i][j] = "receiving" => stage[i + 1][j] = Created(j.svc)
       /\ stage[i][j] = "opening" => stage[i + 1][j] = "new"
       /\ stage[i][j] \in {"adding", "closing"} => stage[i + 1][j] = "open"
       /\ stage[i][j] \in {"getting", "deleting"} => stage[i + 1][j] = "closed"

\* Dial rounds are closed from the last server backwards and stay closed.
DialDone ==
  \A i \in Node, t \in Server, j \in Job :
    i < t /\ j.svc = "dial" /\ stage[i][j] \in {"closed", "buckets"}
      => stage[t][j] = "closed"

ChainInv ==
  /\ TypeOK /\ IdleHeld /\ IngestExclusive
  /\ Pending /\ OwnStages /\ Linked /\ DialDone

\* Pending survives a step that answers no NewRound call.
LEMMA PendingKept ==
  ASSUME TypeOK, Pending, UNCHANGED <<waiting, up, epoch>>,
         \A n \in Caller, k \in Job :
           stage[n][k] = "handoff" => stage'[n][k] = "handoff"
  PROVE  Pending'
BY Indices DEF Pending, HasCaller, TypeOK

\* Opening a round on the next server keeps the invariant.
LEMMA OpenStep ==
  ASSUME ChainInv, NEW i \in Caller, NEW j \in Job, Open(i, j), TypeOK'
  PROVE  ChainInv'
<1> USE ChainAssumption DEF ChainAssumption, Node, Server, Caller
<1>1. /\ stage[i + 1][j] = "new"
      /\ \A n \in Node, k \in Job :
           stage'[n][k] = IF n = i /\ k = j THEN "adding"
                          ELSE IF n = i + 1 /\ k = j THEN "open" ELSE stage[n][k]
      /\ UNCHANGED <<idle, waiting, up, epoch>>
  <2>1. stage[i + 1][j] = "new"
    BY Zenon DEF ChainInv, Linked, Open
  <2>2. MoveBoth(i, j, "adding", "open")
    BY <2>1, Zenon DEF Open, Effect
  <2>3. "adding" \in Stage /\ "open" \in Stage
    BY Zenon DEF Stage
  <2>4. stage \in [Node -> [Job -> Stage]]
    BY Zenon DEF ChainInv, TypeOK
  <2> QED
    BY <2>1, <2>2, <2>3, <2>4, MoveBothPoint DEF Open, faults
<1>2. stage[i][j] = "opening"
  BY Zenon DEF Open
<1>3. IdleHeld' /\ IngestExclusive'
  BY <1>1, <1>2 DEF ChainInv, IdleHeld, IngestExclusive, Holding
<1>4. Pending'
  <2>1. \A n \in Caller, k \in Job :
          stage[n][k] = "handoff" => stage'[n][k] = "handoff"
    BY <1>1, <1>2
  <2> QED
    BY <1>1, <2>1, PendingKept, Zenon DEF ChainInv
<1>5. OwnStages'
  BY <1>1, <1>2 DEF ChainInv, OwnStages
<1>6. Linked'
  BY <1>1, <1>2 DEF ChainInv, Linked, OwnStages, Created
<1>7. DialDone'
  BY <1>1, <1>2 DEF ChainInv, DialDone
<1> QED
  BY <1>3, <1>4, <1>5, <1>6, <1>7, Zenon DEF ChainInv

\* Adding the batch keeps the invariant.
LEMMA AddStep ==
  ASSUME ChainInv, NEW i \in Caller, NEW j \in Job, Add(i, j), TypeOK'
  PROVE  ChainInv'
<1> USE ChainAssumption DEF ChainAssumption, Node, Server, Caller
<1>1. /\ \A n \in Node, k \in Job :
           stage'[n][k] = IF n = i /\ k = j THEN IF stage[i + 1][j] = "open" THEN "closing" ELSE "failed" ELSE stage[n][k]
      /\ UNCHANGED <<idle, waiting, up, epoch>>
  <2>1. "closing" \in Stage /\ "failed" \in Stage
    BY Zenon DEF Stage
  <2>2. stage \in [Node -> [Job -> Stage]]
    BY Zenon DEF ChainInv, TypeOK
  <2> QED
    BY <2>1, <2>2, MovePoint DEF Add, faults
<1>2. stage[i][j] = "adding"
  BY Zenon DEF Add
<1>3. IdleHeld' /\ IngestExclusive'
  BY <1>1, <1>2 DEF ChainInv, IdleHeld, IngestExclusive, Holding
<1>4. Pending'
  <2>1. \A n \in Caller, k \in Job :
          stage[n][k] = "handoff" => stage'[n][k] = "handoff"
    BY <1>1, <1>2
  <2> QED
    BY <1>1, <2>1, PendingKept, Zenon DEF ChainInv
<1>5. OwnStages'
  BY <1>1, <1>2 DEF ChainInv, OwnStages
<1>6. Linked'
  BY <1>1, <1>2 DEF ChainInv, Linked, OwnStages, Created
<1>7. DialDone'
  BY <1>1, <1>2 DEF ChainInv, DialDone, OwnStages
<1> QED
  BY <1>3, <1>4, <1>5, <1>6, <1>7, Zenon DEF ChainInv

\* Collecting the replies keeps the invariant.
LEMMA GetStep ==
  ASSUME ChainInv, NEW i \in Caller, NEW j \in Job, Get(i, j), TypeOK'
  PROVE  ChainInv'
<1> USE ChainAssumption DEF ChainAssumption, Node, Server, Caller
<1>1. /\ \A n \in Node, k \in Job :
           stage'[n][k] = IF n = i /\ k = j THEN IF stage[i + 1][j] = "closed" THEN "deleting" ELSE "failed" ELSE stage[n][k]
      /\ UNCHANGED <<idle, waiting, up, epoch>>
  <2>1. "deleting" \in Stage /\ "failed" \in Stage
    BY Zenon DEF Stage
  <2>2. stage \in [Node -> [Job -> Stage]]
    BY Zenon DEF ChainInv, TypeOK
  <2> QED
    BY <2>1, <2>2, MovePoint DEF Get, faults
<1>2. stage[i][j] = "getting"
  BY Zenon DEF Get
<1>3. IdleHeld' /\ IngestExclusive'
  BY <1>1, <1>2 DEF ChainInv, IdleHeld, IngestExclusive, Holding
<1>4. Pending'
  <2>1. \A n \in Caller, k \in Job :
          stage[n][k] = "handoff" => stage'[n][k] = "handoff"
    BY <1>1, <1>2
  <2> QED
    BY <1>1, <2>1, PendingKept, Zenon DEF ChainInv
<1>5. OwnStages'
  BY <1>1, <1>2 DEF ChainInv, OwnStages
<1>6. Linked'
  BY <1>1, <1>2 DEF ChainInv, Linked, OwnStages, Created
<1>7. DialDone'
  BY <1>1, <1>2 DEF ChainInv, DialDone, OwnStages
<1> QED
  BY <1>3, <1>4, <1>5, <1>6, <1>7, Zenon DEF ChainInv

\* Starting Close on the next server keeps the invariant.
LEMMA CloseStep ==
  ASSUME ChainInv, NEW i \in Caller, NEW j \in Job, Close(i, j), TypeOK'
  PROVE  ChainInv'
<1> USE ChainAssumption DEF ChainAssumption, Node, Server, Caller
<1>1. /\ \A n \in Node, k \in Job :
           stage'[n][k] = IF n = i /\ k = j THEN "awaiting"
                          ELSE IF n = i + 1 /\ k = j THEN "filtering" ELSE stage[n][k]
      /\ UNCHANGED <<idle, waiting, up, epoch>>
  <2>1. MoveBoth(i, j, "awaiting", "filtering")
    BY Zenon DEF ChainInv, Linked, Close, Effect
  <2>2. "awaiting" \in Stage /\ "filtering" \in Stage
    BY Zenon DEF Stage
  <2>3. stage \in [Node -> [Job -> Stage]]
    BY Zenon DEF ChainInv, TypeOK
  <2> QED
    BY <2>1, <2>2, <2>3, MoveBothPoint DEF Close, faults
<1>2. stage[i][j] = "closing" /\ stage[i + 1][j] = "open"
  BY Zenon DEF Close, ChainInv, Linked
<1>3. IdleHeld' /\ IngestExclusive'
  BY <1>1, <1>2 DEF ChainInv, IdleHeld, IngestExclusive, Holding
<1>4. Pending'
  <2>1. \A n \in Caller, k \in Job :
          stage[n][k] = "handoff" => stage'[n][k] = "handoff"
    BY <1>1, <1>2
  <2> QED
    BY <1>1, <2>1, PendingKept, Zenon DEF ChainInv
<1>5. OwnStages'
  BY <1>1, <1>2 DEF ChainInv, OwnStages
<1>6. Linked'
  BY <1>1, <1>2 DEF ChainInv, Linked, OwnStages, Created
<1>7. DialDone'
  BY <1>1, <1>2 DEF ChainInv, DialDone, OwnStages
<1> QED
  BY <1>3, <1>4, <1>5, <1>6, <1>7, Zenon DEF ChainInv

\* Deleting the round on the next server keeps the invariant.
LEMMA DeleteStep ==
  ASSUME ChainInv, NEW i \in Caller, NEW j \in Job, Delete(i, j), TypeOK'
  PROVE  ChainInv'
<1> USE ChainAssumption DEF ChainAssumption, Node, Server, Caller
<1>1. /\ \A n \in Node, k \in Job :
           stage'[n][k] = IF n = i /\ k = j THEN "closed"
                          ELSE IF n = i + 1 /\ k = j THEN "deleted" ELSE stage[n][k]
      /\ UNCHANGED <<idle, waiting, up, epoch>>
  <2>1. MoveBoth(i, j, "closed", "deleted")
    BY Zenon DEF ChainInv, Linked, Delete, Effect
  <2>2. "closed" \in Stage /\ "deleted" \in Stage
    BY Zenon DEF Stage
  <2>3. stage \in [Node -> [Job -> Stage]]
    BY Zenon DEF ChainInv, TypeOK
  <2> QED
    BY <2>1, <2>2, <2>3, MoveBothPoint DEF Delete, faults
<1>2. stage[i][j] = "deleting" /\ stage[i + 1][j] = "closed" /\ j.svc = "convo"
  BY DEF Delete, ChainInv, Linked, OwnStages
<1>3. IdleHeld' /\ IngestExclusive'
  BY <1>1, <1>2 DEF ChainInv, IdleHeld, IngestExclusive, Holding
<1>4. Pending'
  <2>1. \A n \in Caller, k \in Job :
          stage[n][k] = "handoff" => stage'[n][k] = "handoff"
    BY <1>1, <1>2
  <2> QED
    BY <1>1, <2>1, PendingKept, Zenon DEF ChainInv
<1>5. OwnStages'
  BY <1>1, <1>2 DEF ChainInv, OwnStages
<1>6. Linked'
  BY <1>1, <1>2 DEF ChainInv, Linked, OwnStages, Created
<1>7. DialDone'
  BY <1>1, <1>2 DEF ChainInv, DialDone, OwnStages
<1> QED
  BY <1>3, <1>4, <1>5, <1>6, <1>7, Zenon DEF ChainInv

\* The return of Close keeps the invariant.
LEMMA CloseReplyStep ==
  ASSUME ChainInv, NEW i \in Caller, NEW j \in Job, CloseReply(i, j), TypeOK'
  PROVE  ChainInv'
<1> USE ChainAssumption DEF ChainAssumption, Node, Server, Caller
<1>1. /\ \A n \in Node, k \in Job :
           stage'[n][k] = IF n = i /\ k = j THEN IF stage[i + 1][j] = "closed"
                          THEN AfterClose(i, j.svc) ELSE "failed" 
                          ELSE stage[n][k]
      /\ UNCHANGED <<idle, waiting, up, epoch>>
  <2>1. AfterClose(i, j.svc) \in Stage /\ "failed" \in Stage
    BY Zenon DEF AfterClose, Stage
  <2>2. stage \in [Node -> [Job -> Stage]]
    BY Zenon DEF ChainInv, TypeOK
  <2> QED
    BY <2>1, <2>2, MovePoint DEF CloseReply, faults
<1>2. /\ stage[i][j] = "awaiting"
      /\ stage[i + 1][j] \in {"closed", "failed"}
      /\ j.svc \in {"convo", "dial"}
  BY Zenon DEF CloseReply, Job, Service
<1>3. IdleHeld' /\ IngestExclusive'
  BY <1>1, <1>2 DEF ChainInv, IdleHeld, IngestExclusive, Holding, AfterClose
<1>4. Pending'
  <2>1. \A n \in Caller, k \in Job :
          stage[n][k] = "handoff" => stage'[n][k] = "handoff"
    BY <1>1, <1>2
  <2> QED
    BY <1>1, <2>1, PendingKept, Zenon DEF ChainInv
<1>5. OwnStages'
  BY <1>1, <1>2 DEF ChainInv, OwnStages, AfterClose
<1>6. Linked'
  BY <1>1, <1>2 DEF ChainInv, Linked, OwnStages, Created, AfterClose
<1>7. DialDone'
  BY <1>1, <1>2 DEF ChainInv, DialDone, OwnStages, AfterClose
<1> QED
  BY <1>3, <1>4, <1>5, <1>6, <1>7, Zenon DEF ChainInv

\* The end of Close on the last server keeps the invariant.
LEMMA LeaveStep ==
  ASSUME ChainInv, NEW j \in Job, Leave(j), TypeOK'
  PROVE  ChainInv'
<1> USE ChainAssumption DEF ChainAssumption, Node, Server, Caller
<1>1. /\ \A n \in Node, k \in Job :
           stage'[n][k] = IF n = N /\ k = j THEN "closed" ELSE stage[n][k]
      /\ UNCHANGED <<idle, waiting, up, epoch>>
  <2>1. "closed" \in Stage
    BY Zenon DEF Stage
  <2>2. stage \in [Node -> [Job -> Stage]]
    BY Zenon DEF ChainInv, TypeOK
  <2> QED
    BY <2>1, <2>2, MovePoint DEF Leave, faults
<1>2. stage[N][j] = "leaving"
  BY Zenon DEF Leave
<1>3. IdleHeld' /\ IngestExclusive'
  BY <1>1, <1>2 DEF ChainInv, IdleHeld, IngestExclusive, Holding
<1>4. Pending'
  <2>1. \A n \in Caller, k \in Job :
          stage[n][k] = "handoff" => stage'[n][k] = "handoff"
    BY <1>1, <1>2
  <2> QED
    BY <1>1, <2>1, PendingKept, Zenon DEF ChainInv
<1>5. OwnStages'
  BY <1>1, <1>2 DEF ChainInv, OwnStages
<1>6. Linked'
  BY <1>1, <1>2 DEF ChainInv, Linked, OwnStages, Created
<1>7. DialDone'
  BY <1>1, <1>2 DEF ChainInv, DialDone, OwnStages
<1> QED
  BY <1>3, <1>4, <1>5, <1>6, <1>7, Zenon DEF ChainInv

\* Fetching the dial buckets keeps the invariant.
LEMMA BucketsStep ==
  ASSUME ChainInv, NEW j \in Job, Buckets(j), TypeOK'
  PROVE  ChainInv'
<1> USE ChainAssumption DEF ChainAssumption, Node, Server, Caller
<1>1. /\ \A n \in Node, k \in Job :
           stage'[n][k] = IF n = 0 /\ k = j THEN "closed" ELSE stage[n][k]
      /\ UNCHANGED <<idle, waiting, up, epoch>>
  <2>1. stage[N][j] = "closed" /\ "closed" \in Stage
    BY DEF Buckets, ChainInv, DialDone, OwnStages, Stage
  <2>2. stage \in [Node -> [Job -> Stage]]
    BY Zenon DEF ChainInv, TypeOK
  <2> QED
    BY <2>1, <2>2, MovePoint DEF Buckets, faults
<1>2. stage[0][j] = "buckets"
  BY Zenon DEF Buckets
<1>3. IdleHeld' /\ IngestExclusive'
  BY <1>1, <1>2 DEF ChainInv, IdleHeld, IngestExclusive, Holding
<1>4. Pending'
  <2>1. \A n \in Caller, k \in Job :
          stage[n][k] = "handoff" => stage'[n][k] = "handoff"
    BY <1>1, <1>2
  <2> QED
    BY <1>1, <2>1, PendingKept, Zenon DEF ChainInv
<1>5. OwnStages'
  BY <1>1, <1>2 DEF ChainInv, OwnStages
<1>6. Linked'
  BY <1>1, <1>2 DEF ChainInv, Linked, OwnStages, Created
<1>7. DialDone'
  BY <1>1, <1>2 DEF ChainInv, DialDone, OwnStages
<1> QED
  BY <1>3, <1>4, <1>5, <1>6, <1>7, Zenon DEF ChainInv

\* Running a round in its goroutine keeps the invariant.
LEMMA EntryRunStep ==
  ASSUME ChainInv, NEW j \in Job, EntryRun(j), TypeOK'
  PROVE  ChainInv'
<1> USE ChainAssumption DEF ChainAssumption, Node, Server, Caller
<1>1. /\ \A n \in Node, k \in Job :
           stage'[n][k] = IF n = 0 /\ k = j THEN FirstCall(j.svc) ELSE stage[n][k]
      /\ UNCHANGED <<idle, waiting, up, epoch>>
  <2>1. FirstCall(j.svc) \in Stage
    BY Zenon DEF FirstCall, Stage
  <2>2. stage \in [Node -> [Job -> Stage]]
    BY Zenon DEF ChainInv, TypeOK
  <2> QED
    BY <2>1, <2>2, MovePoint DEF EntryRun, faults
<1>2. stage[0][j] = "receiving" /\ j.svc \in {"convo", "dial"}
  BY Zenon DEF EntryRun, Job, Service
<1>3. IdleHeld' /\ IngestExclusive'
  BY <1>1, <1>2 DEF ChainInv, IdleHeld, IngestExclusive, Holding, FirstCall
<1>4. Pending'
  <2>1. \A n \in Caller, k \in Job :
          stage[n][k] = "handoff" => stage'[n][k] = "handoff"
    BY <1>1, <1>2
  <2> QED
    BY <1>1, <2>1, PendingKept, Zenon DEF ChainInv
<1>5. OwnStages'
  BY <1>1, <1>2 DEF ChainInv, OwnStages, FirstCall
<1>6. Linked'
  BY <1>1, <1>2 DEF ChainInv, Linked, OwnStages, Created, FirstCall
<1>7. DialDone'
  BY <1>1, <1>2 DEF ChainInv, DialDone, OwnStages, FirstCall
<1> QED
  BY <1>3, <1>4, <1>5, <1>6, <1>7, Zenon DEF ChainInv

\* Giving Idle back keeps the invariant.
LEMMA UnlockStep ==
  ASSUME ChainInv, NEW s \in Server, NEW j \in Job, Unlock(s, j), TypeOK'
  PROVE  ChainInv'
<1> USE ChainAssumption DEF ChainAssumption, Node, Server, Caller
<1>1. /\ \A n \in Node, k \in Job :
           stage'[n][k] = IF n = s /\ k = j 
                          THEN (IF s = N THEN "leaving" ELSE FirstCall(j.svc))
                          ELSE stage[n][k]
      /\ UNCHANGED <<waiting, up, epoch>>
      /\ idle' = [idle EXCEPT ![s] = FALSE]
  <2>1. FirstCall(j.svc) \in Stage /\ "leaving" \in Stage
    BY Zenon DEF FirstCall, Stage
  <2>2. stage \in [Node -> [Job -> Stage]]
    BY Zenon DEF ChainInv, TypeOK
  <2> QED
    BY <2>1, <2>2, MovePoint DEF Unlock, UnlockIdle, faults
<1>2. /\ stage[s][j] = IF s = N THEN "filtering" ELSE "unlocking"
      /\ j.svc \in {"convo", "dial"}
      /\ idle \in [Server -> BOOLEAN]
  BY Zenon DEF Unlock, Job, Service, ChainInv, TypeOK
<1>3. IdleHeld' /\ IngestExclusive'
  BY <1>1, <1>2 DEF ChainInv, IdleHeld, IngestExclusive, Holding, FirstCall
<1>4. Pending'
  <2>1. \A n \in Caller, k \in Job :
          stage[n][k] = "handoff" => stage'[n][k] = "handoff"
    BY <1>1, <1>2
  <2> QED
    BY <1>1, <2>1, PendingKept, Zenon DEF ChainInv
<1>5. OwnStages'
  BY <1>1, <1>2 DEF ChainInv, OwnStages, FirstCall
<1>6. Linked'
  BY <1>1, <1>2 DEF ChainInv, Linked, OwnStages, Created, FirstCall
<1>7. DialDone'
  BY <1>1, <1>2 DEF ChainInv, DialDone, OwnStages, FirstCall
<1> QED
  BY <1>3, <1>4, <1>5, <1>6, <1>7, Zenon DEF ChainInv

\* A call that fails keeps the invariant.
LEMMA CallErrorStep ==
  ASSUME ChainInv, NEW i \in Node, NEW j \in Job, CallError(i, j), TypeOK'
  PROVE  ChainInv'
<1> USE ChainAssumption DEF ChainAssumption, Node, Server, Caller
<1>1. /\ \A n \in Node, k \in Job :
           stage'[n][k] = IF n = i /\ k = j THEN AfterError(i, stage[i][j]) ELSE stage[n][k]
      /\ UNCHANGED <<idle, waiting, up, epoch>>
  <2>1. AfterError(i, stage[i][j]) \in Stage
    BY Zenon DEF AfterError, Stage
  <2>2. stage \in [Node -> [Job -> Stage]]
    BY Zenon DEF ChainInv, TypeOK
  <2> QED
    BY <2>1, <2>2, MovePoint DEF CallError, faults
<1>2. /\ AfterError(i, stage[i][j]) \in {"absent", "failed"}
      /\ stage[i][j] \notin {"new", "open", "closed"}
      /\ stage[i][j] = "handoff" => i < N /\ ~up[i]
  BY Zenon DEF CallError, AfterError
<1>3. IdleHeld' /\ IngestExclusive'
  BY <1>1, <1>2 DEF ChainInv, IdleHeld, IngestExclusive, Holding
<1>4. Pending'
  BY <1>1, <1>2 DEF ChainInv, Pending, HasCaller, TypeOK
<1>5. OwnStages'
  BY <1>1, <1>2 DEF ChainInv, OwnStages
<1>6. Linked'
  BY <1>1, <1>2 DEF ChainInv, Linked, OwnStages, Created
<1>7. DialDone'
  BY <1>1, <1>2 DEF ChainInv, DialDone, OwnStages
<1> QED
  BY <1>3, <1>4, <1>5, <1>6, <1>7, Zenon DEF ChainInv

\* A NewRound call, by the entry server's loop or by Close, keeps the
\* invariant.
LEMMA CallNewRoundStep ==
  ASSUME ChainInv, NEW i \in Caller, NEW j \in Job, CallNewRound(i, j),
         stage[i][j] = IF i = 0 THEN "absent" ELSE "filtering",
         UNCHANGED <<idle, up, epoch>>, TypeOK'
  PROVE  ChainInv'
<1> USE ChainAssumption DEF ChainAssumption, Node, Server, Caller
<1>1. /\ \A n \in Node, k \in Job :
           stage'[n][k] = IF n = i /\ k = j THEN "handoff" ELSE stage[n][k]
      /\ UNCHANGED <<idle, up, epoch>>
  <2>1. "handoff" \in Stage
    BY Zenon DEF Stage
  <2>2. stage \in [Node -> [Job -> Stage]]
    BY Zenon DEF ChainInv, TypeOK
  <2> QED
    BY <2>1, <2>2, MovePoint DEF CallNewRound
<1>2. IdleHeld' /\ IngestExclusive'
  BY <1>1 DEF ChainInv, IdleHeld, IngestExclusive, Holding
<1>3. Pending'
  <2> DEFINE r == [job |-> j, epoch |-> IF i = 0 THEN epoch ELSE 0]
  <2>1. r.job = j /\ r.epoch = IF i = 0 THEN epoch ELSE 0
    BY Zenon
  <2>2. \A s \in Server : \A q \in waiting'[s] : q \in waiting[s] \/ (s = i + 1 /\ q = r)
    BY Zenon DEF CallNewRound, ChainInv, TypeOK
  <2> HIDE DEF r
  <2>3. epoch \in Nat /\ \A s \in Server : \A q \in waiting[s] : q.job \in Job
    BY DEF ChainInv, TypeOK
  <2> SUFFICES ASSUME NEW s \in Server, NEW q \in waiting'[s]
               PROVE  /\ IF s = 1 THEN q.epoch <= epoch ELSE q.epoch = 0
                      /\ HasCaller(s, q) => stage'[s - 1][q.job] = "handoff"
    BY <1>1 DEF Pending, HasCaller
  <2>4. CASE q \in waiting[s]
    BY <1>1, <2>3, <2>4 DEF ChainInv, Pending
  <2>5. CASE s = i + 1 /\ q = r
    BY <1>1, <2>1, <2>3, <2>5
  <2> QED
    BY <2>2, <2>4, <2>5, Zenon
<1>4. OwnStages'
  BY <1>1 DEF ChainInv, OwnStages
<1>5. Linked'
  BY <1>1, SMTT(30) DEF ChainInv, Linked, OwnStages, Created
<1>6. DialDone'
  BY <1>1 DEF ChainInv, DialDone
<1> QED
  BY <1>2, <1>3, <1>4, <1>5, <1>6, Zenon DEF ChainInv

\* NewRound keeps the invariant: its caller, if it still has one, is waiting
\* for it, and an existing round is left alone.
LEMMA NewRoundStep ==
  ASSUME ChainInv, NEW s \in Server, NEW q \in waiting[s], NewRound(s, q), TypeOK'
  PROVE  ChainInv'
<1> USE ChainAssumption DEF ChainAssumption, Node, Server, Caller
<1> DEFINE j  == q.job
           ok == ~Exists(stage[s][j])
           caller == IF ~HasCaller(s, q) THEN stage[s - 1][j]
                     ELSE IF ~ok THEN AfterError(s - 1, "handoff")
                     ELSE IF s = 1 THEN "receiving" ELSE "unlocking"
           callee == IF ok THEN Created(j.svc) ELSE stage[s][j]
<1>1. /\ j \in Job /\ j.svc \in {"convo", "dial"}
      /\ stage \in [Node -> [Job -> Stage]]
      /\ idle \in [Server -> BOOLEAN]
      /\ epoch \in Nat
  BY DEF ChainInv, TypeOK, Job, Service
<1>2. /\ ~idle[s]
      /\ idle' = [idle EXCEPT ![s] = TRUE]
      /\ waiting' = [waiting EXCEPT ![s] = @ \ {q}]
      /\ UNCHANGED <<up, epoch>>
  BY Zenon DEF NewRound, LockIdle, faults
<1>3. \A n \in Node, k \in Job :
        stage'[n][k] = IF n = s - 1 /\ k = j THEN caller
                       ELSE IF n = s /\ k = j THEN callee ELSE stage[n][k]
  <2>1. MoveBoth(s - 1, j, caller, callee)
    BY Zenon DEF NewRound, HasCaller
  <2>2. caller \in Stage /\ callee \in Stage
    BY <1>1 DEF AfterError, Created, Stage
  <2> HIDE DEF caller, callee, j
  <2>3. s - 1 \in Caller /\ (s - 1) + 1 = s
    OBVIOUS
  <2> QED
    BY <1>1, <2>1, <2>2, <2>3, MoveBothPoint
<1>4. HasCaller(s, q) => stage[s - 1][j] = "handoff"
  BY Zenon DEF ChainInv, Pending
<1>5. /\ ~HasCaller(s, q) => caller = stage[s - 1][j]
      /\ HasCaller(s, q) /\ ~ok => caller = IF s = 1 THEN "absent" ELSE "failed"
      /\ HasCaller(s, q) /\ ok => caller = IF s = 1 THEN "receiving" ELSE "unlocking"
      /\ ok => /\ callee = IF j.svc = "convo" THEN "new" ELSE "open"
               /\ stage[s][j] \in {"absent", "deleted"}
      /\ ~ok => /\ callee = stage[s][j]
                /\ stage[s][j] \notin {"absent", "deleted"}
  BY SMTT(30) DEF AfterError, Created, Exists
<1> HIDE DEF caller, callee, ok, j
<1>6. \A k \in Job : stage[s][k] \notin Holding
  BY <1>2, Zenon DEF ChainInv, IdleHeld
<1>7. IdleHeld' /\ IngestExclusive'
  <2>1. \A t \in Server, k \in Job :
          stage'[t][k] \in Holding =>
            stage[t][k] \in Holding \/ (t = s /\ k = j)
    BY <1>1, <1>3, <1>4, <1>5, <1>6 DEF Holding
  <2>2. \A t \in Server : idle[t] => idle'[t]
    BY <1>1, <1>2, Zenon
  <2>3. idle'[s]
    BY <1>1, <1>2, Zenon
  <2>4. IdleHeld'
    BY <2>1, <2>2, <2>3, Zenon DEF ChainInv, IdleHeld
  <2>5. IngestExclusive'
    BY <1>6, <2>1 DEF ChainInv, IngestExclusive
  <2> QED
    BY <2>4, <2>5, Zenon
<1>8. Pending'
  <2> SUFFICES ASSUME NEW t \in Server, NEW p \in waiting'[t]
               PROVE  /\ IF t = 1 THEN p.epoch <= epoch ELSE p.epoch = 0
                      /\ HasCaller(t, p) => stage'[t - 1][p.job] = "handoff"
    BY <1>2 DEF Pending, HasCaller
  <2>1. p \in waiting[t] /\ p.job \in Job /\ (t = s => p # q)
    BY <1>2, Zenon DEF ChainInv, TypeOK
  <2>2. IF t = 1 THEN p.epoch <= epoch ELSE p.epoch = 0
    BY <2>1, Zenon DEF ChainInv, Pending
  <2>3. ASSUME HasCaller(t, p) PROVE stage'[t - 1][p.job] = "handoff"
    <3>1. stage[t - 1][p.job] = "handoff"
      BY <2>1, <2>3, Zenon DEF ChainInv, Pending
    <3>2. CASE t - 1 = s /\ p.job = j
      BY <1>1, <1>6, <3>1, <3>2, Zenon DEF Holding
    <3>3. CASE t = s /\ p.job = j
      <4>1. ~HasCaller(s, q)
        <5>1. SUFFICES ASSUME HasCaller(s, q) PROVE FALSE
          BY Zenon
        <5>2. p.epoch = q.epoch
          BY <2>1, <2>2, <2>3, <3>3, <5>1 DEF ChainInv, Pending, HasCaller
        <5>3. p \in [job : Job, epoch : Nat] /\ q \in [job : Job, epoch : Nat]
          BY <2>1, Zenon DEF ChainInv, TypeOK
        <5>4. p = q
          BY <3>3, <5>2, <5>3 DEF j
        <5> QED
          BY <2>1, <3>3, <5>4, Zenon
      <4> QED
        BY <1>1, <1>3, <1>5, <3>1, <3>3, <4>1
    <3>4. CASE ~(t - 1 = s /\ p.job = j) /\ ~(t = s /\ p.job = j)
      BY <1>3, <2>1, <3>1, <3>4
    <3> QED
      BY <3>2, <3>3, <3>4, Zenon
  <2> QED
    BY <2>2, <2>3, Zenon
<1>9. OwnStages'
  BY <1>1, <1>3, <1>4, <1>5, SMTT(30) DEF ChainInv, OwnStages
<1>10. Linked'
  <2> SUFFICES ASSUME NEW i \in Caller, NEW k \in Job
               PROVE /\ stage'[i][k] = "unlocking" => stage'[i + 1][k] = Created(k.svc)
                     /\ up[i] =>
                        /\ stage'[i][k] = "receiving" => stage'[i + 1][k] = Created(k.svc)
                        /\ stage'[i][k] = "opening" => stage'[i + 1][k] = "new"
                        /\ stage'[i][k] \in {"adding", "closing"} => stage'[i + 1][k] = "open"
                        /\ stage'[i][k] \in {"getting", "deleting"} => stage'[i + 1][k] = "closed"
    BY <1>2, Zenon DEF Linked
  <2>1. CASE k # j
    <3>1. stage'[i][k] = stage[i][k] /\ stage'[i + 1][k] = stage[i + 1][k]
      BY <1>3, <2>1, Indices, Zenon
    <3> QED
      BY <3>1 DEF ChainInv, Linked
  <2>2. CASE k = j /\ i = s - 1
    <3>1. i + 1 = s /\ stage'[i][k] = caller /\ stage'[i + 1][k] = callee
      BY <1>1, <1>3, <2>2, Indices
    <3>2. CASE HasCaller(s, q)
      BY <1>5, <2>2, <3>1, <3>2, Zenon DEF Created
    <3>3. CASE ~HasCaller(s, q) /\ ~ok
      <4>1. stage'[i][k] = stage[i][k] /\ stage'[i + 1][k] = stage[i + 1][k]
        BY <1>5, <2>2, <3>1, <3>3, Zenon
      <4> QED
        BY <4>1 DEF ChainInv, Linked
    <3>4. CASE ~HasCaller(s, q) /\ ok
      <4>1. /\ stage'[i][k] = stage[i][k]
            /\ stage[i + 1][k] \in {"absent", "deleted"}
        BY <1>5, <2>2, <3>1, <3>4, Zenon
      <4>2. /\ stage[i][k] # "unlocking"
            /\ up[i] => stage[i][k] \notin {"receiving", "opening", "adding", "closing",
                                           "getting", "deleting"}
        BY <4>1, Zenon DEF ChainInv, Linked, Created
      <4> QED
        BY <4>1, <4>2, Zenon
    <3> QED
      BY <3>2, <3>3, <3>4, Zenon
  <2>3. CASE k = j /\ i = s
    <3>1. stage'[i][k] = callee /\ stage'[i + 1][k] = stage[i + 1][k]
      BY <1>1, <1>3, <2>3, Indices
    <3>2. CASE ok
      BY <1>5, <3>1, <3>2, Zenon
    <3>3. CASE ~ok
      <4>1. stage'[i][k] = stage[i][k]
        BY <1>5, <2>3, <3>1, <3>3, Zenon
      <4> QED
        BY <3>1, <4>1 DEF ChainInv, Linked
    <3> QED
      BY <3>2, <3>3, Zenon
  <2>4. CASE k = j /\ i # s - 1 /\ i # s
    <3>1. stage'[i][k] = stage[i][k]
      BY <1>3, <2>4
    <3>2. i + 1 # s - 1 => stage'[i + 1][k] = stage[i + 1][k]
      BY <1>3, <2>4
    <3>3. i + 1 = s - 1 => \/ stage'[i + 1][k] = stage[i + 1][k]
                          \/ stage[i + 1][k] = "handoff"
      BY <1>1, <1>3, <1>4, <1>5, <2>4
    <3> QED
      BY <3>1, <3>2, <3>3, SMTT(30) DEF ChainInv, Linked, Created
  <2> QED
    BY <2>1, <2>2, <2>3, <2>4, Zenon
<1>11. DialDone'
  <2>1. \A n \in Node, k \in Job :
          stage'[n][k] \in {"closed", "buckets"} => stage'[n][k] = stage[n][k]
    BY <1>1, <1>3, <1>4, <1>5
  <2>2. \A n \in Node, k \in Job :
          stage[n][k] = "closed" => stage'[n][k] = stage[n][k]
    BY <1>1, <1>3, <1>4, <1>5
  <2> QED
    BY <2>1, <2>2 DEF ChainInv, DialDone
<1> QED
  BY <1>7, <1>8, <1>9, <1>10, <1>11, Zenon DEF ChainInv

\* What a breaking connection may have done to the stages of server s.
LEMMA SeveredEffect ==
  ASSUME ChainInv, NEW s \in Server, NEW done \in SUBSET Job, NEW lost,
         Severed(s, done, lost)
  PROVE  /\ \A t \in Server : waiting'[t] \subseteq waiting[t]
         /\ \A k \in Job : LET c == CalleeAfter(s, done)[k] IN
              \/ c = stage[s][k]
              \/ stage[s - 1][k] = "opening" /\ stage[s][k] = "new" /\ c = "open"
              \/ stage[s - 1][k] = "closing" /\ stage[s][k] = "open" /\ c = "filtering"
              \/ /\ stage[s - 1][k] = "deleting" /\ stage[s][k] = "closed"
                 /\ c = "deleted" /\ k.svc = "convo"
<1>1. \A t \in Server : waiting'[t] \subseteq waiting[t]
  BY Zenon DEF Severed, ChainInv, TypeOK
<1>2. ASSUME NEW k \in Job, k \in done
      PROVE  /\ up[s - 1]
             /\ stage[s - 1][k] \in {"opening", "closing", "deleting"}
             /\ CalleeAfter(s, done)[k] = Effect(stage[s - 1][k], stage[s][k])
  BY <1>2, Zenon DEF Severed, CalleeAfter
<1>3. ASSUME NEW k \in Job, k \notin done
      PROVE  CalleeAfter(s, done)[k] = stage[s][k]
  BY <1>3, Zenon DEF CalleeAfter
<1>4. ASSUME NEW k \in Job, up[s - 1]
      PROVE  /\ stage[s - 1][k] = "deleting" => k.svc = "convo" /\ stage[s][k] = "closed"
             /\ stage[s - 1][k] = "opening" => stage[s][k] = "new"
             /\ stage[s - 1][k] = "closing" => stage[s][k] = "open"
  <2>1. s - 1 \in Caller /\ (s - 1) + 1 = s /\ s - 1 \in Node
    BY Indices, Zenon
  <2>2. /\ stage[s - 1][k] = "deleting" => stage[(s - 1) + 1][k] = "closed"
        /\ stage[s - 1][k] = "opening" => stage[(s - 1) + 1][k] = "new"
        /\ stage[s - 1][k] = "closing" => stage[(s - 1) + 1][k] = "open"
    BY <1>4, <2>1, Zenon DEF ChainInv, Linked
  <2>3. stage[s - 1][k] = "deleting" => k.svc = "convo"
    BY <2>1, Zenon DEF ChainInv, OwnStages
  <2> QED
    BY <2>1, <2>2, <2>3, Zenon
<1> QED
  BY <1>1, <1>2, <1>3, <1>4 DEF Effect

\* A connection that breaks keeps the invariant.
LEMMA DropStep ==
  ASSUME ChainInv, NEW i \in Node, Drop(i), TypeOK'
  PROVE  ChainInv'
<1> USE ChainAssumption DEF ChainAssumption, Node, Server, Caller
<1>1. /\ up' = [up EXCEPT ![i] = FALSE]
      /\ UNCHANGED <<idle, epoch>>
  BY Zenon DEF Drop
<1>2. /\ up \in [Node -> BOOLEAN]
      /\ \A t \in Server : \A q \in waiting[t] : q.job \in Job
  BY DEF ChainInv, TypeOK
<1>3. /\ \A t \in Server : waiting'[t] \subseteq waiting[t]
      /\ \A n \in Node, k \in Job :
           \/ stage'[n][k] = stage[n][k]
           \/ /\ n = i + 1
              /\ \/ stage[i][k] = "opening" /\ stage[n][k] = "new" /\ stage'[n][k] = "open"
                 \/ stage[i][k] = "closing" /\ stage[n][k] = "open" /\ stage'[n][k] = "filtering"
                 \/ /\ stage[i][k] = "deleting" /\ stage[n][k] = "closed"
                    /\ stage'[n][k] = "deleted" /\ k.svc = "convo"
  <2>1. CASE i = N
    BY <2>1, Zenon DEF Drop
  <2>2. CASE i # N
    <3>1. PICK done \in SUBSET Job, lost \in SUBSET waiting[i + 1] :
            /\ Severed(i + 1, done, lost)
            /\ stage' = [stage EXCEPT ![i + 1] = CalleeAfter(i + 1, done)]
      BY <2>2, Zenon DEF Drop
    <3>2. i + 1 \in Server /\ (i + 1) - 1 = i
      BY <2>2
    <3>3. \A n \in Node, k \in Job :
            stage'[n][k] = IF n = i + 1 THEN CalleeAfter(i + 1, done)[k] ELSE stage[n][k]
      BY <3>1, <3>2, Zenon DEF ChainInv, TypeOK
    <3> QED
      BY <3>1, <3>2, <3>3, SeveredEffect, SMTT(30)
  <2> QED
    BY <2>1, <2>2, Zenon
<1>4. IdleHeld' /\ IngestExclusive'
  <2>1. \A t \in Server, k \in Job : stage'[t][k] \in Holding => stage[t][k] \in Holding
    BY <1>3 DEF Holding
  <2> QED
    BY <1>1, <2>1, Zenon DEF ChainInv, IdleHeld, IngestExclusive
<1>5. Pending'
  <2>1. \A n \in Node, k \in Job : stage[n][k] = "handoff" => stage'[n][k] = "handoff"
    BY <1>3, Zenon
  <2>2. \A n \in Node : up'[n] => up[n]
    BY <1>1, <1>2, Zenon
  <2> QED
    BY <1>1, <1>2, <1>3, <2>1, <2>2 DEF ChainInv, Pending, HasCaller
<1>6. OwnStages'
  BY <1>3 DEF ChainInv, OwnStages
<1>7. Linked'
  <2>1. \A n \in Node : up'[n] => up[n] /\ n # i
    BY <1>1, <1>2, Zenon
  <2>2. \A n \in Node, k \in Job :
          stage'[n][k] \in {"unlocking", "receiving", "opening", "adding", "closing",
                            "getting", "deleting"}
            => stage'[n][k] = stage[n][k]
    BY <1>3
  <2>3. \A n \in Caller, k \in Job :
          n # i \/ stage[n][k] = "unlocking" => stage'[n + 1][k] = stage[n + 1][k]
    BY <1>3
  <2> QED
    BY <2>1, <2>2, <2>3, SMTT(30) DEF ChainInv, Linked
<1>8. DialDone'
  BY <1>3 DEF ChainInv, DialDone
<1> QED
  BY <1>4, <1>5, <1>6, <1>7, <1>8, Zenon DEF ChainInv

\* A restart of the entry server keeps the invariant: requests of an earlier
\* incarnation have no caller any more.
LEMMA RestartStep ==
  ASSUME ChainInv, EntryRestart, TypeOK'
  PROVE  ChainInv'
<1> USE ChainAssumption DEF ChainAssumption, Node, Server, Caller
<1>1. /\ up' = [up EXCEPT ![0] = TRUE, ![N] = TRUE]
      /\ epoch' = epoch + 1
      /\ UNCHANGED idle
  BY Zenon DEF EntryRestart
<1>2. /\ up \in [Node -> BOOLEAN] /\ epoch \in Nat
      /\ \A t \in Server : \A q \in waiting[t] : q.job \in Job /\ q.epoch \in Nat
  BY DEF ChainInv, TypeOK
<1>3. \A n \in Node : n # 0 /\ n # N => up'[n] = up[n]
  BY <1>1, <1>2, Zenon
<1>4. /\ \A t \in Server : waiting'[t] \subseteq waiting[t]
      /\ \A k \in Job : stage'[0][k] = "absent"
      /\ \A n \in Server, k \in Job :
           \/ stage'[n][k] = stage[n][k]
           \/ /\ n = 1
              /\ \/ stage[n][k] = "new" /\ stage'[n][k] = "open"
                 \/ stage[n][k] = "open" /\ stage'[n][k] = "filtering"
                 \/ /\ stage[n][k] = "closed" /\ stage'[n][k] = "deleted"
                    /\ k.svc = "convo"
  <2>1. PICK done \in SUBSET Job, lost \in SUBSET waiting[1] :
          /\ Severed(1, done, lost)
          /\ stage' = [stage EXCEPT ![0] = [j \in Job |-> "absent"],
                                    ![1] = CalleeAfter(1, done)]
    BY Zenon DEF EntryRestart
  <2>2. \A n \in Node, k \in Job :
          stage'[n][k] = IF n = 0 THEN "absent"
                         ELSE IF n = 1 THEN CalleeAfter(1, done)[k] ELSE stage[n][k]
    BY <2>1 DEF ChainInv, TypeOK
  <2>3. PICK s \in Server : s = 1
    OBVIOUS
  <2>4. /\ \A t \in Server : waiting'[t] \subseteq waiting[t]
        /\ \A k \in Job :
             \/ CalleeAfter(1, done)[k] = stage[1][k]
             \/ stage[1][k] = "new" /\ CalleeAfter(1, done)[k] = "open"
             \/ stage[1][k] = "open" /\ CalleeAfter(1, done)[k] = "filtering"
             \/ /\ stage[1][k] = "closed" /\ CalleeAfter(1, done)[k] = "deleted"
                /\ k.svc = "convo"
    <3>1. Severed(s, done, lost)
      BY <2>1, <2>3, Zenon
    <3>2. /\ \A t \in Server : waiting'[t] \subseteq waiting[t]
          /\ \A k \in Job :
               \/ CalleeAfter(s, done)[k] = stage[s][k]
               \/ stage[s][k] = "new" /\ CalleeAfter(s, done)[k] = "open"
               \/ stage[s][k] = "open" /\ CalleeAfter(s, done)[k] = "filtering"
               \/ /\ stage[s][k] = "closed" /\ CalleeAfter(s, done)[k] = "deleted"
                  /\ k.svc = "convo"
      BY <3>1, SeveredEffect, SMTT(30)
    <3> QED
      BY <2>3, <3>2, Zenon
  <2> QED
    BY <2>2, <2>4
<1>5. IdleHeld' /\ IngestExclusive'
  <2>1. \A t \in Server, k \in Job : stage'[t][k] \in Holding => stage[t][k] \in Holding
    BY <1>4, Zenon DEF Holding
  <2> QED
    BY <1>1, <2>1, Zenon DEF ChainInv, IdleHeld, IngestExclusive
<1>6. Pending'
  <2> SUFFICES ASSUME NEW t \in Server, NEW q \in waiting'[t]
               PROVE  /\ IF t = 1 THEN q.epoch <= epoch' ELSE q.epoch = 0
                      /\ HasCaller(t, q)' => stage'[t - 1][q.job] = "handoff"
    BY Zenon DEF Pending
  <2>1. /\ q \in waiting[t]
        /\ IF t = 1 THEN q.epoch <= epoch ELSE q.epoch = 0
    BY <1>4 DEF ChainInv, Pending
  <2>2. CASE t = 1
    BY <1>1, <1>2, <2>1, <2>2 DEF HasCaller
  <2>3. CASE t # 1
    <3>1. HasCaller(t, q)' => HasCaller(t, q)
      BY <1>3, <2>3 DEF HasCaller
    <3>2. stage[t - 1][q.job] = "handoff" => stage'[t - 1][q.job] = "handoff"
      BY <1>2, <1>4, <2>1, <2>3
    <3> QED
      BY <2>1, <2>3, <3>1, <3>2, Zenon DEF ChainInv, Pending
  <2> QED
    BY <2>2, <2>3, Zenon
<1>7. OwnStages'
  BY <1>4, SMTT(30) DEF ChainInv, OwnStages
<1>8. Linked'
  <2>1. \A n \in Node, k \in Job :
          stage'[n][k] \in {"unlocking", "receiving", "opening", "adding", "closing",
                            "getting", "deleting"}
            => n # 0 /\ stage'[n][k] = stage[n][k]
    BY <1>4
  <2>2. \A n \in Caller, k \in Job :
          n # 0 => stage'[n + 1][k] = stage[n + 1][k] /\ up'[n] = up[n]
    BY <1>3, <1>4
  <2> SUFFICES ASSUME NEW n \in Caller, NEW k \in Job
               PROVE  /\ stage'[n][k] = "unlocking" => stage'[n + 1][k] = Created(k.svc)
                      /\ up'[n] =>
                         /\ stage'[n][k] = "receiving" => stage'[n + 1][k] = Created(k.svc)
                         /\ stage'[n][k] = "opening" => stage'[n + 1][k] = "new"
                         /\ stage'[n][k] \in {"adding", "closing"} => stage'[n + 1][k] = "open"
                         /\ stage'[n][k] \in {"getting", "deleting"} => stage'[n + 1][k] = "closed"
    BY Zenon DEF Linked
  <2>3. CASE n # 0 /\ stage'[n][k] = stage[n][k]
    <3>1. stage'[n + 1][k] = stage[n + 1][k] /\ up'[n] = up[n]
      BY <2>2, <2>3, Zenon
    <3> QED
      BY <2>3, <3>1 DEF ChainInv, Linked
  <2>4. CASE ~(n # 0 /\ stage'[n][k] = stage[n][k])
    BY <2>1, <2>4, Indices
  <2> QED
    BY <2>3, <2>4, Zenon
<1>9. DialDone'
  BY <1>4 DEF ChainInv, DialDone
<1> QED
  BY <1>5, <1>6, <1>7, <1>8, <1>9, Zenon DEF ChainInv

\* A step that touches none of the variables of the invariant keeps it.
LEMMA QuietStep ==
  ASSUME ChainInv, UNCHANGED <<stage, idle, waiting, up, epoch>>, TypeOK'
  PROVE  ChainInv'
<1>1. IdleHeld' /\ IngestExclusive'
  BY Zenon DEF ChainInv, IdleHeld, IngestExclusive
<1>2. Pending'
  BY DEF ChainInv, Pending, HasCaller
<1>3. OwnStages'
  BY Zenon DEF ChainInv, OwnStages
<1>4. Linked' /\ DialDone'
  BY DEF ChainInv, Linked, DialDone
<1> QED
  BY <1>1, <1>2, <1>3, <1>4, Zenon DEF ChainInv

\* The invariant holds at the start.
LEMMA InitInv == Init => ChainInv
<1> SUFFICES ASSUME Init PROVE ChainInv
  BY Zenon
<1>1. \A i \in Node, j \in Job : stage[i][j] = "absent"
  BY Zenon DEF Init
<1>2. \A s \in Server : waiting[s] = {}
  BY Zenon DEF Init
<1>3. TypeOK
  BY Zenon DEF Init, TypeOK, Stage
<1> QED
  BY <1>1, <1>2, <1>3, Indices
  DEF ChainInv, IdleHeld, IngestExclusive, Holding, Pending, OwnStages, Linked, DialDone

\* Every step keeps the invariant.
LEMMA NextInv == ChainInv /\ [Next]_vars => ChainInv'
<1> SUFFICES ASSUME ChainInv, [Next]_vars PROVE ChainInv'
  BY Zenon
<1>1. TypeOK'
  BY TypeStep, Zenon DEF ChainInv
<1>2. ASSUME NEW j \in Job, EntryNewRound(j) PROVE ChainInv'
  BY <1>1, <1>2, Indices, CallNewRoundStep, Zenon DEF EntryNewRound, faults
<1>3. ASSUME NEW s \in Server, NEW j \in Job, HandOff(s, j) PROVE ChainInv'
  BY <1>1, <1>3, Indices, CallNewRoundStep, Zenon DEF HandOff, faults
<1>4. ASSUME NEW i \in Caller, DropData(i) PROVE ChainInv'
  BY <1>1, <1>4, QuietStep, Zenon DEF DropData
<1>5. CASE UNCHANGED vars
  BY <1>1, <1>5, QuietStep, Zenon DEF vars
<1>6. ASSUME NEW i \in Caller, NEW j \in Job, CallerStep(i, j) PROVE ChainInv'
  BY <1>1, <1>6, OpenStep, AddStep, CloseStep, CloseReplyStep, GetStep, DeleteStep, Zenon
  DEF CallerStep
<1>7. ASSUME NEW j \in Job, EntryStep(j) \/ Leave(j) PROVE ChainInv'
  BY <1>1, <1>2, <1>7, EntryRunStep, BucketsStep, LeaveStep, Zenon DEF EntryStep
<1>8. ASSUME NEW s \in Server, NEW j \in Job, ServerStep(s, j) PROVE ChainInv'
  BY <1>1, <1>3, <1>8, UnlockStep, Zenon DEF ServerStep
<1>9. ASSUME NEW s \in Server, NEW q \in waiting[s], NewRound(s, q) PROVE ChainInv'
  BY <1>1, <1>9, NewRoundStep, Zenon
<1>10. ASSUME NEW i \in Node, NEW j \in Job, CallError(i, j) PROVE ChainInv'
  BY <1>1, <1>10, CallErrorStep, Zenon
<1>11. ASSUME NEW i \in Node, Drop(i) PROVE ChainInv'
  BY <1>1, <1>11, DropStep, Zenon
<1>12. ASSUME EntryRestart PROVE ChainInv'
  BY <1>1, <1>12, RestartStep, Zenon
<1> QED
  BY <1>4, <1>5, <1>6, <1>7, <1>8, <1>9, <1>10, <1>11, <1>12, Zenon
  DEF Next, Step, Fault, Finished

\* The inductive invariant holds throughout.
THEOREM ChainInvariant == Spec => []ChainInv
BY InitInv, NextInv, PTL DEF Spec

\* The Idle mutex does its work under every fault: a server never takes in
\* two rounds at once, of whichever protocol.
THEOREM Exclusion == Spec => []IngestExclusive
<1>1. ChainInv => IngestExclusive
  BY Zenon DEF ChainInv
<1> QED
  BY <1>1, ChainInvariant, PTL

\* No Close ever unlocks a mutex that is not locked.
THEOREM UnlockSafe == Spec => []IdleHeld
<1>1. ChainInv => IdleHeld
  BY Zenon DEF ChainInv
<1> QED
  BY <1>1, ChainInvariant, PTL

\* On a live connection no call of a round driver meets getRound's error,
\* and the entry server asks for buckets only when they are there.
THEOREM Handshake == Spec => []CallsFindRound
<1>1. ChainInv => CallsFindRound
  BY ChainAssumption, SMTT(30)
  DEF ChainAssumption, ChainInv, Linked, OwnStages, DialDone, CallsFindRound, Node, Server, Caller
<1> QED
  BY <1>1, ChainInvariant, PTL

\* Idle is handed back only for a round that the next server already holds.
THEOREM HandBack == Spec => ReleaseAfterHandoff
<1> DEFINE Release(s) ==
      s < N /\ idle[s] /\ ~idle'[s] =>
        \E j \in Job : /\ stage[s][j] \in Holding
                       /\ stage'[s][j] \notin Holding
                       /\ stage[s + 1][j] \in Holding
<1>1. ASSUME ChainInv, [Next]_vars, NEW s \in Server PROVE Release(s)
  <2> SUFFICES ASSUME s < N, idle[s], ~idle'[s]
               PROVE  \E j \in Job : /\ stage[s][j] \in Holding
                                     /\ stage'[s][j] \notin Holding
                                     /\ stage[s + 1][j] \in Holding
    BY Zenon
  <2>1. idle \in [Server -> BOOLEAN] /\ stage \in [Node -> [Job -> Stage]]
    BY <1>1, Zenon DEF ChainInv, TypeOK
  <2>2. PICK t \in Server, j \in Job : Unlock(t, j)
    <3>1. ~UNCHANGED idle
      BY Zenon
    <3>2. ASSUME NEW t \in Server, NEW q, NewRound(t, q) PROVE FALSE
      BY <2>1, <3>2, Zenon DEF NewRound, LockIdle
    <3> QED
      BY <1>1, <3>1, <3>2
      DEF Next, Step, Fault, Finished, vars, EntryStep, EntryNewRound, EntryRun, Buckets,
          Leave, CallerStep, Open, Add, Close, CloseReply, Get, Delete, ServerStep, HandOff,
          CallError, Drop, DropData, EntryRestart
  <2>3. t = s
    BY <2>1, <2>2, Zenon DEF Unlock, UnlockIdle
  <2>4. stage[s][j] = "unlocking" /\ stage[s + 1][j] = Created(j.svc)
    BY <1>1, <2>2, <2>3, Indices, Zenon DEF Unlock, ChainInv, Linked
  <2>5. stage'[s][j] = FirstCall(j.svc)
    BY <2>1, <2>2, <2>3, Indices DEF Unlock, Move
  <2> QED
    BY <2>4, <2>5, Zenon DEF Holding, Created, FirstCall
<1>2. ChainInv /\ [Next]_vars => [\A s \in Server : Release(s)]_vars
  BY <1>1, Zenon
<1> QED
  BY <1>2, ChainInvariant, PTL DEF Spec, ReleaseAfterHandoff

-----------------------------------------------------------------------------
(***************************************************************************)
(* MixChain implements Pipeline, for every chain length and every number   *)
(* of rounds and faults: the initial states correspond, and every step of  *)
(* MixChain is a step of Pipeline or changes nothing that Pipeline sees.   *)
(***************************************************************************)

\* A step that takes no round in or out on any server is unseen.
LEMMA Unseen ==
  ASSUME \A s \in Server, k \in Job :
           stage'[s][k] \in Holding <=> stage[s][k] \in Holding
  PROVE  Ingesting' = Ingesting
BY Zenon DEF Ingesting

\* A step that changes the rounds that one server takes in.
LEMMA SeenAt ==
  ASSUME NEW s \in Server, NEW S \in SUBSET Job,
         \A t \in Server, k \in Job : t # s =>
           (stage'[t][k] \in Holding <=> stage[t][k] \in Holding),
         \A k \in Job : stage'[s][k] \in Holding <=> k \in S
  PROVE  Ingesting' = [Ingesting EXCEPT ![s] = S]
BY Zenon DEF Ingesting

\* The calls that a node makes to the next server after NewRound only move
\* the round between stages on the same side of the two servers' mutexes.
LEMMA CallerUnseen ==
  ASSUME ChainInv, NEW i \in Caller, NEW j \in Job, CallerStep(i, j)
  PROVE  Ingesting' = Ingesting /\ UNCHANGED <<idle, up>>
<1>0. i \in Node /\ i + 1 \in Node /\ stage \in [Node -> [Job -> Stage]] /\ i # i + 1
  BY Indices, ChainAssumption DEF ChainInv, TypeOK, ChainAssumption, Caller
<1>p. ASSUME NEW to, NEW ct, MoveBoth(i, j, to, ct),
             to \in Holding <=> stage[i][j] \in Holding,
             ct \in Holding <=> stage[i + 1][j] \in Holding
      PROVE  Ingesting' = Ingesting
  <2>1. \A n \in Node, k \in Job :
          stage'[n][k] = IF n = i /\ k = j THEN to
                         ELSE IF n = i + 1 /\ k = j THEN ct ELSE stage[n][k]
    BY <1>0, <1>p, Zenon DEF MoveBoth
  <2> QED BY <1>p, <2>1, Indices, Unseen
<1>1. UNCHANGED <<idle, up>>
  BY Zenon DEF CallerStep, Open, Add, Close, CloseReply, Get, Delete, faults
<1>2. CASE Open(i, j)
  <2>1. stage[i][j] = "opening" /\ stage[i + 1][j] = "new"
        /\ MoveBoth(i, j, "adding", "open")
    BY <1>2, Zenon DEF Open, Effect, ChainInv, Linked
  <2> QED BY <1>1, <1>p, <2>1, Zenon DEF Holding
<1>3. CASE Close(i, j)
  <2>1. stage[i][j] = "closing" /\ stage[i + 1][j] = "open"
        /\ MoveBoth(i, j, "awaiting", "filtering")
    BY <1>3, Zenon DEF Close, Effect, ChainInv, Linked
  <2> QED BY <1>1, <1>p, <2>1, Zenon DEF Holding
<1>4. CASE Delete(i, j)
  <2>1. stage[i][j] = "deleting" /\ stage[i + 1][j] = "closed"
        /\ MoveBoth(i, j, "closed", "deleted")
    BY <1>4, Zenon DEF Delete, Effect, ChainInv, Linked
  <2> QED BY <1>1, <1>p, <2>1, Zenon DEF Holding
<1>5. CASE Add(i, j) \/ Get(i, j) \/ CloseReply(i, j)
  <2>1. PICK to \in {"closing", "deleting", "failed", "getting", "buckets", "closed"} :
          Move(i, j, to)
    BY <1>5, Zenon DEF Add, Get, CloseReply, AfterClose
  <2>2. stage[i][j] \in {"adding", "getting", "awaiting"}
    BY <1>5, Zenon DEF Add, Get, CloseReply
  <2> QED BY <1>0, <1>1, <2>1, <2>2, Unseen DEF Move, Holding
<1> QED BY <1>1, <1>2, <1>3, <1>4, <1>5, Zenon DEF CallerStep

\* The steps of the entry server, of a server's Close before it unlocks Idle
\* and of the last server's Close after it are unseen.
LEMMA LocalUnseen ==
  ASSUME ChainInv, NEW j \in Job,
         EntryStep(j) \/ Leave(j) \/ \E s \in Server : HandOff(s, j)
  PROVE  Ingesting' = Ingesting /\ UNCHANGED <<idle, up>>
<1>0. stage \in [Node -> [Job -> Stage]] /\ 0 \in Node /\ N \in Node /\ 0 \notin Server
  BY Indices, Zenon DEF ChainInv, TypeOK
<1>1. CASE EntryStep(j)
  <2>1. PICK to : Move(0, j, to)
    BY <1>1, Zenon DEF EntryStep, EntryNewRound, CallNewRound, EntryRun, Buckets
  <2>2. Ingesting' = Ingesting
    BY <1>0, <2>1, Indices, Unseen, Zenon DEF Move
  <2> QED BY <1>1, <2>2, Zenon DEF EntryStep, EntryNewRound, EntryRun, Buckets, faults
<1>2. CASE Leave(j)
  <2>1. Ingesting' = Ingesting
    BY <1>0, <1>2, Indices, Unseen, Zenon DEF Leave, Move, Holding
  <2> QED BY <1>2, <2>1, Zenon DEF Leave, faults
<1>3. ASSUME NEW s \in Server, HandOff(s, j)
      PROVE  Ingesting' = Ingesting /\ UNCHANGED <<idle, up>>
  <2>1. Ingesting' = Ingesting
    BY <1>0, <1>3, Indices, Unseen DEF HandOff, CallNewRound, Move, Holding
  <2> QED BY <1>3, <2>1, Zenon DEF HandOff, faults
<1> QED BY <1>1, <1>2, <1>3, Zenon

\* NewRound takes the round, or refuses one it knows.
LEMMA NewRoundSeen ==
  ASSUME ChainInv, NEW s \in Server, NEW q \in waiting[s], NewRound(s, q)
  PROVE  P!Next
<1> DEFINE j == q.job
           ok == ~Exists(stage[s][j])
<1>0. /\ s - 1 \in Node /\ s \in Node /\ s - 1 # s /\ (s - 1) + 1 = s /\ s \in 1 .. N
      /\ stage \in [Node -> [Job -> Stage]] /\ j \in Job
  BY Indices, ChainAssumption DEF ChainInv, TypeOK, ChainAssumption, Server
<1>1. ~idle[s] /\ idle' = [idle EXCEPT ![s] = TRUE] /\ Links' = Links
  BY Zenon DEF NewRound, LockIdle, faults, Links
<1>2. \A k \in Job : stage[s][k] \notin Holding
  BY <1>1, Zenon DEF ChainInv, IdleHeld
<1>3. HasCaller(s, q) => stage[s - 1][j] = "handoff"
  BY Zenon DEF ChainInv, Pending
<1>4. PICK caller, callee :
        /\ MoveBoth(s - 1, j, caller, callee)
        /\ callee = IF ok THEN Created(j.svc) ELSE stage[s][j]
        /\ caller = IF ~HasCaller(s, q) THEN stage[s - 1][j]
                    ELSE IF ~ok THEN AfterError(s - 1, "handoff")
                    ELSE IF s = 1 THEN "receiving" ELSE "unlocking"
  BY Zenon DEF NewRound, HasCaller
<1>5. \A t \in Node, k \in Job :
        stage'[t][k] = IF t = s - 1 /\ k = j THEN caller
                       ELSE IF t = s /\ k = j THEN callee ELSE stage[t][k]
  BY <1>0, <1>4, Zenon DEF MoveBoth
<1> HIDE DEF j, ok
<1>6. CASE ok
  <2>1. callee \in Holding
    BY <1>4, <1>6, Zenon DEF Created, Holding
  <2>2. s > 1 => (caller \in Holding <=> stage[s - 1][j] \in Holding)
    BY <1>3, <1>4, <1>6 DEF Holding
  <2>3. \A t \in Server, k \in Job : t # s =>
          (stage'[t][k] \in Holding <=> stage[t][k] \in Holding)
    BY <1>0, <1>5, <2>2, Indices DEF Server
  <2>4. \A k \in Job : stage'[s][k] \in Holding <=> k \in {j}
    BY <1>0, <1>2, <1>5, <2>1, Zenon
  <2>5. Ingesting' = [Ingesting EXCEPT ![s] = {j}]
    BY <1>0, <2>3, <2>4, SeenAt, Zenon
  <2>6. s > 1 /\ Links[s - 1] => j \in Ingesting[s - 1]
    <3> SUFFICES ASSUME s > 1, Links[s - 1] PROVE j \in Ingesting[s - 1]
      BY Zenon
    <3>1. s - 1 \in 1 .. N - 1 /\ s - 1 \in Server
      BY ChainAssumption DEF ChainAssumption, Server
    <3>2. HasCaller(s, q)
      BY <3>1 DEF HasCaller, Links
    <3> QED BY <1>0, <1>3, <3>1, <3>2, Zenon DEF Ingesting, Holding
  <2>7. P!Take(s, j)
    BY <1>1, <2>5, <2>6, Zenon DEF P!Take
  <2> QED BY <1>0, <2>7, Zenon DEF P!Next
<1>7. CASE ~ok
  <2>1. \A t \in Server, k \in Job : ~(t = s - 1 /\ k = j) =>
          (stage'[t][k] \in Holding <=> stage[t][k] \in Holding)
    BY <1>0, <1>4, <1>5, <1>7, Indices, Zenon
  <2>2. CASE s = 1 \/ ~HasCaller(s, q)
    <3>1. \A t \in Server, k \in Job :
            stage'[t][k] \in Holding <=> stage[t][k] \in Holding
      <4>1. CASE s = 1
        <5>1. \A t \in Server : t # s - 1
          BY <4>1 DEF Server
        <5> QED BY <2>1, <5>1, Zenon
      <4>2. CASE ~HasCaller(s, q)
        <5>1. stage'[s - 1][j] = stage[s - 1][j]
          BY <1>0, <1>4, <1>5, <4>2, Zenon
        <5> QED BY <2>1, <5>1, Zenon
      <4> QED BY <2>2, <4>1, <4>2, Zenon
    <3> QED BY <1>0, <1>1, <3>1, Unseen, Zenon DEF P!Next, P!Refuse
  <2>3. CASE s # 1 /\ HasCaller(s, q)
    <3>1. s > 1 /\ s - 1 \in Server
      BY <2>3, ChainAssumption DEF ChainAssumption, Server
    <3>2. caller = "failed"
      BY <1>4, <1>7, <2>3, <3>1 DEF AfterError, Server
    <3>3. \A k \in Job : stage'[s - 1][k] \in Holding <=> k \in {}
      <4>1. stage[s - 1][j] \in Holding
        BY <1>3, <2>3, Zenon DEF Holding
      <4>2. \A k \in Job : k # j => stage[s - 1][k] \notin Holding
        BY <1>0, <3>1, <4>1, Zenon DEF ChainInv, IngestExclusive
      <4> QED BY <1>0, <1>5, <3>2, <4>2, Zenon DEF Holding
    <3>4. Ingesting' = [Ingesting EXCEPT ![s - 1] = {}]
      BY <2>1, <3>1, <3>3, SeenAt, Zenon
    <3> QED BY <1>0, <1>1, <3>1, <3>4, Zenon DEF P!Next, P!Refuse
  <2> QED BY <2>2, <2>3, Zenon
<1> QED BY <1>6, <1>7, Zenon

\* Idle.Unlock in Close gives the round to the next server.
LEMMA UnlockSeen ==
  ASSUME ChainInv, NEW s \in Server, NEW j \in Job, Unlock(s, j)
  PROVE  P!Next
<1>0. s \in Node /\ s \in 1 .. N /\ stage \in [Node -> [Job -> Stage]]
  BY Indices, Zenon DEF ChainInv, TypeOK, Server
<1>1. idle' = [idle EXCEPT ![s] = FALSE] /\ Links' = Links
  BY Zenon DEF Unlock, UnlockIdle, faults, Links
<1>2. stage[s][j] \in Holding
  BY Zenon DEF Unlock, Holding
<1>3. idle[s] /\ Ingesting[s] = {j}
  <2>1. \A k \in Job : stage[s][k] \in Holding <=> k = j
    BY <1>2, Zenon DEF ChainInv, IngestExclusive
  <2>2. idle[s]
    BY <1>2, Zenon DEF ChainInv, IdleHeld
  <2> QED BY <2>1, <2>2, Zenon DEF Ingesting
<1>4. PICK to \in {"leaving", "opening", "adding"} : Move(s, j, to)
  BY Zenon DEF Unlock, FirstCall
<1>5. Ingesting' = [Ingesting EXCEPT ![s] = {}]
  <2>1. \A t \in Server, k \in Job : t # s =>
          (stage'[t][k] \in Holding <=> stage[t][k] \in Holding)
    BY <1>0, <1>4, Indices, Zenon DEF Move
  <2>2. \A k \in Job : stage'[s][k] \in Holding <=> k \in {}
    BY <1>0, <1>2, <1>4, Zenon DEF Move, Holding, ChainInv, IngestExclusive
  <2> QED BY <2>1, <2>2, SeenAt, Zenon
<1>6. s < N => Ingesting[s] \subseteq Ingesting[s + 1]
  <2> SUFFICES ASSUME s < N PROVE j \in Ingesting[s + 1]
    BY <1>3, Zenon
  <2>1. s + 1 \in Server /\ s \in Caller /\ s # N
    BY <1>0, ChainAssumption DEF ChainAssumption, Server, Caller
  <2>2. stage[s + 1][j] = Created(j.svc)
    BY <2>1, Zenon DEF Unlock, ChainInv, Linked
  <2> QED BY <2>1, <2>2, Zenon DEF Created, Holding, Ingesting
<1>7. P!Give(s)
  BY <1>1, <1>3, <1>5, <1>6, Zenon DEF P!Give
<1> QED BY <1>0, <1>7, Zenon DEF P!Next

\* A failed call gives the round up, or ends a round that was already let go.
LEMMA CallErrorSeen ==
  ASSUME ChainInv, NEW i \in Node, NEW j \in Job, CallError(i, j)
  PROVE  P!Next \/ UNCHANGED P!pvars
<1>0. stage \in [Node -> [Job -> Stage]] /\ i \in 0 .. N
  BY Zenon DEF ChainInv, TypeOK, Node
<1>1. idle' = idle /\ Links' = Links /\ Move(i, j, AfterError(i, stage[i][j]))
  BY Zenon DEF CallError, faults, Links
<1>2. CASE i \in Server /\ stage[i][j] = "handoff"
  <2>1. i < N /\ ~up[i] /\ i \in 1 .. N - 1 /\ i \in 1 .. N
    BY <1>2, ChainAssumption DEF CallError, ChainAssumption, Server
  <2>2. stage[i][j] \in Holding
    BY <1>2, Zenon DEF Holding
  <2>3. \A k \in Job : stage'[i][k] \in Holding <=> k \in {}
    BY <1>0, <1>1, <1>2, <2>2, Zenon DEF Move, AfterError, Holding, ChainInv, IngestExclusive, Server
  <2>4. \A t \in Server, k \in Job : t # i =>
          (stage'[t][k] \in Holding <=> stage[t][k] \in Holding)
    BY <1>0, <1>1, Indices, Zenon DEF Move
  <2>5. Ingesting' = [Ingesting EXCEPT ![i] = {}]
    BY <1>2, <2>3, <2>4, SeenAt, Zenon
  <2>6. ~Links[i] /\ Ingesting[i] # {}
    BY <1>2, <2>1, <2>2, Zenon DEF Links, Ingesting
  <2>7. P!Abandon(i)
    BY <1>1, <2>1, <2>5, <2>6, Zenon DEF P!Abandon
  <2> QED BY <2>1, <2>7, Zenon DEF P!Next
<1>3. CASE ~(i \in Server /\ stage[i][j] = "handoff")
  <2>1. i \in Server => stage[i][j] \notin Holding
    BY <1>3, Zenon DEF CallError, Holding
  <2>2. i \in Server => AfterError(i, stage[i][j]) = "failed"
    BY <1>3, Zenon DEF AfterError, Server
  <2>3. Ingesting' = Ingesting
    BY <1>0, <1>1, <2>1, <2>2, Indices, Unseen, Zenon DEF Move, Holding
  <2> QED BY <1>1, <2>3, Zenon DEF P!pvars
<1> QED BY <1>2, <1>3, Zenon

\* What a server executed of the calls outstanding on a connection that
\* breaks takes no round in or out.
LEMMA SeveredUnseen ==
  ASSUME ChainInv, NEW s \in Server, NEW done \in SUBSET Job, NEW lost,
         Severed(s, done, lost)
  PROVE  \A k \in Job : CalleeAfter(s, done)[k] \in Holding <=> stage[s][k] \in Holding
<1>1. \A k \in Job : LET c == CalleeAfter(s, done)[k] IN
        \/ c = stage[s][k]
        \/ stage[s][k] = "new" /\ c = "open"
        \/ stage[s][k] = "open" /\ c = "filtering"
        \/ stage[s][k] = "closed" /\ c = "deleted"
  BY SeveredEffect, SMTT(30)
<1> QED BY <1>1, Zenon DEF Holding

\* A broken connection between two servers breaks their link.
LEMMA DropSeen ==
  ASSUME ChainInv, NEW i \in Node, Drop(i)
  PROVE  P!Next \/ UNCHANGED P!pvars
<1>0. stage \in [Node -> [Job -> Stage]] /\ up \in [Node -> BOOLEAN] /\ i \in 0 .. N
      /\ 1 .. N - 1 \subseteq Node
  BY ChainAssumption DEF ChainInv, TypeOK, Node, ChainAssumption
<1>1. idle' = idle /\ up[i] /\ up' = [up EXCEPT ![i] = FALSE]
  BY Zenon DEF Drop
<1>2. Ingesting' = Ingesting
  <2>1. CASE i = N
    BY <2>1, Zenon DEF Drop, Ingesting
  <2>2. CASE i # N
    <3>1. PICK done \in SUBSET Job, lost \in SUBSET waiting[i + 1] :
            /\ Severed(i + 1, done, lost)
            /\ stage' = [stage EXCEPT ![i + 1] = CalleeAfter(i + 1, done)]
      BY <2>2, Zenon DEF Drop
    <3>2. i + 1 \in Server /\ i + 1 \in Node
      BY <1>0, <2>2, Indices, Zenon
    <3>3. \A k \in Job : CalleeAfter(i + 1, done)[k] \in Holding <=> stage[i + 1][k] \in Holding
      BY <3>1, <3>2, SeveredUnseen, Zenon
    <3> QED BY <1>0, <3>1, <3>2, <3>3, Indices, Unseen, Zenon
  <2> QED BY <2>1, <2>2, Zenon
<1>3. CASE i \in 1 .. N - 1
  <2>1. Links' = [Links EXCEPT ![i] = FALSE] /\ Links[i]
    BY <1>0, <1>1, <1>3, Zenon DEF Links
  <2> QED BY <1>1, <1>2, <1>3, <2>1, Zenon DEF P!Next, P!Break
<1>4. CASE i \notin 1 .. N - 1
  <2>1. Links' = Links
    BY <1>0, <1>1, <1>4, Zenon DEF Links
  <2> QED BY <1>1, <1>2, <2>1, Zenon DEF P!pvars
<1> QED BY <1>3, <1>4, Zenon

\* A restart of the entry server is unseen.
LEMMA RestartUnseen ==
  ASSUME ChainInv, EntryRestart
  PROVE  UNCHANGED P!pvars
<1>0. stage \in [Node -> [Job -> Stage]] /\ up \in [Node -> BOOLEAN]
      /\ 1 .. N - 1 \subseteq Node /\ 0 \notin 1 .. N - 1 /\ N \notin 1 .. N - 1
  BY ChainAssumption DEF ChainInv, TypeOK, Node, ChainAssumption
<1>1. idle' = idle /\ up' = [up EXCEPT ![0] = TRUE, ![N] = TRUE]
  BY Zenon DEF EntryRestart
<1>2. Links' = Links
  BY <1>0, <1>1, Indices DEF Links
<1>3. PICK done \in SUBSET Job, lost \in SUBSET waiting[1] :
        /\ Severed(1, done, lost)
        /\ stage' = [stage EXCEPT ![0] = [j \in Job |-> "absent"],
                                  ![1] = CalleeAfter(1, done)]
  BY Zenon DEF EntryRestart
<1>4. \A k \in Job : CalleeAfter(1, done)[k] \in Holding <=> stage[1][k] \in Holding
  BY <1>3, Indices, SeveredUnseen, Zenon
<1>5. Ingesting' = Ingesting
  BY <1>0, <1>3, <1>4, Indices, Unseen, Zenon
<1> QED BY <1>1, <1>2, <1>5, Zenon DEF P!pvars

\* Every step of the chain is a step of the pipeline or unseen by it.
LEMMA StepSeen == ChainInv /\ [Next]_vars => [P!Next]_P!pvars
<1> SUFFICES ASSUME ChainInv, [Next]_vars PROVE P!Next \/ UNCHANGED P!pvars
  BY Zenon
<1>1. ASSUME Ingesting' = Ingesting, UNCHANGED <<idle, up>> PROVE UNCHANGED P!pvars
  BY <1>1, Zenon DEF P!pvars, Links
<1>2. ASSUME NEW j \in Job, EntryStep(j) \/ Leave(j) PROVE UNCHANGED P!pvars
  BY <1>1, <1>2, LocalUnseen, Zenon
<1>3. ASSUME NEW s \in Server, NEW j \in Job, ServerStep(s, j)
      PROVE  P!Next \/ UNCHANGED P!pvars
  BY <1>1, <1>3, LocalUnseen, UnlockSeen, Zenon DEF ServerStep
<1>4. ASSUME NEW i \in Caller, NEW j \in Job, CallerStep(i, j) PROVE UNCHANGED P!pvars
  BY <1>1, <1>4, CallerUnseen, Zenon
<1>5. CASE UNCHANGED vars
  BY <1>1, <1>5, Zenon DEF vars, Ingesting
<1>6. ASSUME NEW i \in Caller, DropData(i) PROVE UNCHANGED P!pvars
  BY <1>1, <1>6, Zenon DEF DropData, Ingesting
<1> QED
  BY <1>2, <1>3, <1>4, <1>5, <1>6, NewRoundSeen, CallErrorSeen, DropSeen, RestartUnseen, Zenon
  DEF Next, Step, Fault, Finished

\* The chain of servers, with every RPC, error return and fault, implements
\* the pipeline: each server takes in one round at a time, from the server
\* before it, and lets it go only into the hands of the next.
THEOREM PipelineImplemented == Spec => ImplementsPipeline
<1>1. Init => P!Init
  <2>1. ASSUME Init PROVE Ingesting = [s \in 1 .. N |-> {}]
    <3>1. \A s \in Server, j \in Job : stage[s][j] \notin Holding
      BY <2>1, Indices, Zenon DEF Init, Holding
    <3> QED BY <3>1, Zenon DEF Ingesting, Server
  <2>2. ASSUME Init PROVE Links = [s \in 1 .. N - 1 |-> TRUE]
    <3>1. \A s \in 1 .. N - 1 : up[s] = TRUE
      BY <2>2, ChainAssumption DEF Init, Node, ChainAssumption
    <3> QED BY <3>1, Zenon DEF Links
  <2> QED BY <2>1, <2>2, Zenon DEF Init, P!Init, Server
<1> QED BY <1>1, StepSeen, ChainInvariant, PTL DEF Spec, ImplementsPipeline, P!Spec
=============================================================================
