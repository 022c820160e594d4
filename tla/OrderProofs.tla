---------------------------- MODULE OrderProofs ----------------------------
(***************************************************************************)
(* The order of the rounds in MixChain, for every chain length and every   *)
(* number of rounds and broken connections, as long as the entry server    *)
(* does not restart: rounds of one protocol do not overtake each other,    *)
(* and a round that a node is done with is done on every server behind.    *)
(* As long as nothing fails at all, Idle is locked only for a round that   *)
(* somebody is going to finish.                                            *)
(***************************************************************************)
EXTENDS MixChainProofs

Request(j) == [job |-> j, epoch |-> 0]

\* A waiting NewRound request is the only one there will be for its round
\* and server, and its caller waits for it or has given up on it.
Asked ==
  \A s \in Server, j \in Job : Request(j) \in waiting[s] =>
    /\ stage[s][j] = "absent"
    /\ stage[s - 1][j] \in IF s = 1 THEN {"absent", "handoff"} ELSE {"handoff", "failed"}
    /\ s = 1 => j.round <= cur[j.svc]

\* No server knows of a round before the node in front of it hands it over.
NotYet ==
  /\ \A s \in Server, j \in Job :
       s < N /\ stage[s][j] \in {"absent", "new", "open", "filtering"}
         => stage[s + 1][j] = "absent"
  /\ \A j \in Job : up[0] /\ stage[0][j] = "absent" => stage[1][j] = "absent"

\* A server that gave up on a round before the next server took it keeps its
\* Idle locked for good, so that it never knows of a later round.
Stuck ==
  \A s \in Server, j \in Job :
    /\ s < N
    /\ stage[s][j] \notin Holding \cup {"absent"}
    /\ stage[s + 1][j] = "absent"
    => /\ idle[s]
       /\ \A k \in Job : stage[s][k] \notin Holding
       /\ \A k \in Job : k.svc = j.svc /\ j.round < k.round => stage[s][k] = "absent"

\* The entry server goes on to the next round number only when the first
\* server has taken the round.
Counted ==
  \A j \in Job :
    /\ stage[0][j] \in {"handoff", "receiving"} => j.round = cur[j.svc]
    /\ j.round < cur[j.svc] \/ stage[0][j] = "receiving" => stage[1][j] # "absent"

OrderInv ==
  epoch = 0 => Asked /\ NotYet /\ Stuck /\ Counted /\ NoOvertaking /\ DownstreamDone

-----------------------------------------------------------------------------
(***************************************************************************)
(* What one step may do, seen from a single node and job.  Late are the    *)
(* stages of a round that the next server has taken or that was given up.  *)
(***************************************************************************)
Late == {"opening", "adding", "closing", "awaiting", "getting", "deleting",
         "buckets", "leaving", "closed", "failed"}

EntryMoves(k) ==
  \/ stage[0][k] = "absent" /\ stage'[0][k] = "handoff" /\ k.round = cur[k.svc]
  \/ stage[0][k] = "handoff" /\ stage'[0][k] = "absent" /\ ~up'[0]
  \/ /\ stage[0][k] = "handoff" /\ stage'[0][k] = "receiving"
     /\ Request(k) \notin waiting'[1] /\ stage'[1][k] # "absent"
  \/ stage[0][k] = "receiving" /\ stage'[0][k] \in {"opening", "adding"}

\* Server s gets or works on a round that it has not handed over.
TakesIn(s, k) ==
  \/ /\ stage[s][k] = "absent" /\ stage'[s][k] = Created(k.svc)
     /\ Request(k) \in waiting[s] /\ Request(k) \notin waiting'[s] /\ ~idle[s]
  \/ stage[s][k] = "new" /\ stage'[s][k] = "open"
  \/ stage[s][k] = "open" /\ stage'[s][k] = "filtering"
  \/ s < N /\ stage[s][k] = "filtering" /\ stage'[s][k] = "handoff"

HandsOver(s, k) ==
  \/ /\ s < N /\ stage[s][k] = "handoff" /\ stage'[s][k] = "unlocking"
     /\ Request(k) \notin waiting'[s + 1] /\ stage'[s + 1][k] # "absent"
  \/ s < N /\ stage[s][k] = "handoff" /\ stage'[s][k] = "failed"
  \/ s < N /\ stage[s][k] = "unlocking" /\ stage'[s][k] \in {"opening", "adding"}
           /\ stage[s + 1][k] # "absent"
  \/ s = N /\ stage[s][k] = "filtering" /\ stage'[s][k] = "leaving"

Ends(i, k) ==
  \/ i # 0 /\ stage[i][k] = "closed" /\ stage'[i][k] = "deleted"
  \/ /\ stage[i][k] \in Late \ {"closed"} /\ stage'[i][k] \in Late
     /\ stage[i][k] = "failed" => stage'[i][k] = "failed"
     /\ stage'[i][k] = "closed" /\ k.svc = "convo" /\ i < N
          => stage[i + 1][k] = "closed" /\ stage'[i + 1][k] = "deleted"

Moves(i, k) ==
  \/ stage'[i][k] = stage[i][k]
  \/ i = 0 /\ EntryMoves(k)
  \/ i # 0 /\ (TakesIn(i, k) \/ HandsOver(i, k))
  \/ Ends(i, k)

\* Only the node in front sends a request, and it then waits for the reply.
RequestMoves ==
  \A s \in Server, j \in Job :
    Request(j) \in waiting'[s] =>
      \/ Request(j) \in waiting[s]
      \/ /\ up[s - 1] /\ stage'[s - 1][j] = "handoff"
         /\ stage[s - 1][j] = IF s = 1 THEN "absent" ELSE "filtering"

\* Idle is given back for a round that the next server has taken.
IdleMoves ==
  \A s \in Server : idle[s] => idle'[s] \/
    \E k \in Job : stage[s][k] = IF s = N THEN "filtering" ELSE "unlocking"

CurMoves ==
  \/ cur' = cur
  \/ \E j \in Job : /\ stage[0][j] = "receiving" /\ stage'[0][j] \in Late
                    /\ cur' = [cur EXCEPT ![j.svc] = @ + 1]

StepMoves ==
  /\ \A i \in Node, k \in Job : Moves(i, k)
  /\ RequestMoves /\ IdleMoves /\ CurMoves
  /\ up'[0] => up[0]

\* A step that leaves the requests, the mutexes, the counters and the
\* connections alone and moves one node's job.
LEMMA OneMove ==
  ASSUME TypeOK, NEW i \in Node, NEW j \in Job, NEW to \in Stage, Move(i, j, to),
         UNCHANGED <<waiting, idle, cur, up>>,
         stage'[i][j] = to => Moves(i, j)
  PROVE  StepMoves
<1>1. \A n \in Node, k \in Job :
        stage'[n][k] = IF n = i /\ k = j THEN to ELSE stage[n][k]
  BY MovePoint DEF TypeOK
<1>2. \A n \in Node, k \in Job : Moves(n, k)
  <2> SUFFICES ASSUME NEW n \in Node, NEW k \in Job PROVE Moves(n, k)
    OBVIOUS
  <2>1. CASE n = i /\ k = j
    BY <1>1, <2>1
  <2>2. CASE ~(n = i /\ k = j)
    BY <1>1, <2>2 DEF Moves
  <2> QED
    BY <2>1, <2>2
<1> QED
  BY <1>2 DEF StepMoves, RequestMoves, IdleMoves, CurMoves

\* The same for a call, which moves the caller and the callee.
LEMMA TwoMoves ==
  ASSUME TypeOK, NEW i \in Caller, NEW j \in Job, NEW to \in Stage, NEW ct \in Stage,
         MoveBoth(i, j, to, ct),
         UNCHANGED <<waiting, idle, cur, up>>,
         stage'[i][j] = to /\ stage'[i + 1][j] = ct => Moves(i, j) /\ Moves(i + 1, j)
  PROVE  StepMoves
<1>0. i \in Node /\ i + 1 \in Node /\ i # i + 1
  BY ChainAssumption DEF ChainAssumption, Caller, Node
<1>1. \A n \in Node, k \in Job :
        stage'[n][k] = IF n = i /\ k = j THEN to
                       ELSE IF n = i + 1 /\ k = j THEN ct ELSE stage[n][k]
  BY MoveBothPoint DEF TypeOK
<1>2. \A n \in Node, k \in Job : Moves(n, k)
  <2> SUFFICES ASSUME NEW n \in Node, NEW k \in Job PROVE Moves(n, k)
    OBVIOUS
  <2>1. CASE k = j /\ (n = i \/ n = i + 1)
    BY <1>0, <1>1, <2>1
  <2>2. CASE ~(k = j /\ (n = i \/ n = i + 1))
    BY <1>1, <2>2 DEF Moves
  <2> QED
    BY <2>1, <2>2
<1> QED
  BY <1>2 DEF StepMoves, RequestMoves, IdleMoves, CurMoves

\* The calls that a node makes to the next server after NewRound.
LEMMA CallerMoves ==
  ASSUME ChainInv, NEW i \in Caller, NEW j \in Job, CallerStep(i, j)
  PROVE  StepMoves
<1>0. i \in Node /\ i # N /\ i + 1 # 0 /\ i + 1 \in Node /\ TypeOK /\ j.svc \in Service
  BY Indices DEF ChainInv, Job
<1>1. UNCHANGED <<waiting, idle, cur, up>>
  BY SMTT(30) DEF CallerStep, Open, Add, Close, CloseReply, Get, Delete, faults
<1>2. CASE Open(i, j)
  <2>1. stage[i][j] = "opening" /\ stage[i + 1][j] = "new" /\ MoveBoth(i, j, "adding", "open")
    BY <1>2, SMTT(30) DEF Open, Effect, ChainInv, Linked
  <2> QED
    BY <1>0, <1>1, <2>1, TwoMoves, Zenon DEF Stage, Moves, Ends, TakesIn, Late
<1>3. CASE Close(i, j)
  <2>1. stage[i][j] = "closing" /\ stage[i + 1][j] = "open"
        /\ MoveBoth(i, j, "awaiting", "filtering")
    BY <1>3, SMTT(30) DEF Close, Effect, ChainInv, Linked
  <2> QED
    BY <1>0, <1>1, <2>1, TwoMoves, Zenon DEF Stage, Moves, Ends, TakesIn, Late
<1>4. CASE Delete(i, j)
  <2>1. stage[i][j] = "deleting" /\ stage[i + 1][j] = "closed"
        /\ MoveBoth(i, j, "closed", "deleted")
    BY <1>4 DEF Delete, Effect, ChainInv, Linked
  <2> QED
    BY <1>0, <1>1, <2>1, TwoMoves, Zenon DEF Stage, Moves, Ends, Late
<1>5. CASE Add(i, j) \/ Get(i, j) \/ CloseReply(i, j)
  <2>1. PICK to \in {"closing", "deleting", "failed", "getting", "buckets", "closed"} :
          Move(i, j, to) /\ (to = "closed" => j.svc # "convo")
    BY <1>5 DEF Add, Get, CloseReply, AfterClose
  <2>2. stage[i][j] \in {"adding", "getting", "awaiting"}
    BY <1>5 DEF Add, Get, CloseReply
  <2>3. to \in Stage
    BY <2>1 DEF Stage
  <2> QED
    BY <1>0, <1>1, <2>1, <2>2, <2>3, OneMove DEF Moves, Ends, Late
<1> QED
  BY <1>2, <1>3, <1>4, <1>5 DEF CallerStep

\* A NewRound call.
LEMMA CallNewRoundMoves ==
  ASSUME ChainInv, epoch = 0, NEW i \in Caller, NEW j \in Job, CallNewRound(i, j),
         stage[i][j] = IF i = 0 THEN "absent" ELSE "filtering",
         i = 0 => j.round = cur[j.svc],
         UNCHANGED <<idle, cur, up>>
  PROVE  StepMoves
<1>0. i \in Node /\ i < N /\ i + 1 \in Server
  BY Indices, ChainAssumption DEF ChainAssumption, Caller
<1>1. \A n \in Node, k \in Job :
        stage'[n][k] = IF n = i /\ k = j THEN "handoff" ELSE stage[n][k]
  BY <1>0, MovePoint DEF CallNewRound, ChainInv, TypeOK, Stage
<1>2. \A n \in Node, k \in Job : Moves(n, k)
  BY <1>0, <1>1 DEF Moves, EntryMoves, TakesIn
<1>3. RequestMoves
  <2> SUFFICES ASSUME NEW s \in Server, NEW k \in Job,
                      Request(k) \in waiting'[s], Request(k) \notin waiting[s]
               PROVE  /\ up[s - 1] /\ stage'[s - 1][k] = "handoff"
                      /\ stage[s - 1][k] = IF s = 1 THEN "absent" ELSE "filtering"
    BY DEF RequestMoves
  <2>1. waiting \in [Server -> SUBSET [job : Job, epoch : Nat]]
    BY DEF ChainInv, TypeOK
  <2>2. up[i] /\ s = i + 1 /\ Request(k).job = j
    BY <1>0, <2>1 DEF CallNewRound
  <2>3. k = j /\ s - 1 = i
    BY <1>0, <2>2 DEF Request, Caller
  <2> QED
    BY <1>0, <1>1, <2>2, <2>3 DEF Caller
<1> QED
  BY <1>2, <1>3 DEF StepMoves, IdleMoves, CurMoves

\* The steps of the entry server's own goroutines, and the end of Close.
LEMMA LocalMoves ==
  ASSUME ChainInv, epoch = 0, NEW j \in Job, EntryStep(j) \/ Leave(j)
  PROVE  StepMoves
<1>0. TypeOK /\ 0 \in Node /\ N \in Node /\ N # 0 /\ 0 \in Caller /\ j.svc \in Service
  BY Indices DEF ChainInv, Job
<1>1. CASE EntryNewRound(j)
  BY <1>0, <1>1, CallNewRoundMoves DEF EntryNewRound, faults
<1>2. CASE EntryRun(j)
  <2>1. /\ FirstCall(j.svc) \in Stage /\ FirstCall(j.svc) \in Late
        /\ FirstCall(j.svc) \in {"opening", "adding"}
    BY DEF FirstCall, Stage, Late
  <2>2. \A n \in Node, k \in Job :
          stage'[n][k] = IF n = 0 /\ k = j THEN FirstCall(j.svc) ELSE stage[n][k]
    BY <1>0, <1>2, <2>1, MovePoint DEF EntryRun, TypeOK
  <2>3. \A n \in Node, k \in Job : Moves(n, k)
    BY <1>0, <1>2, <2>1, <2>2 DEF EntryRun, Moves, EntryMoves
  <2>4. CurMoves
    BY <1>0, <1>2, <2>1, <2>2, Zenon DEF EntryRun, CurMoves
  <2> QED
    BY <1>2, <2>3, <2>4 DEF EntryRun, faults, StepMoves, RequestMoves, IdleMoves
<1>3. CASE Buckets(j)
  <2>1. PICK to \in {"closed", "failed"} : Move(0, j, to)
    BY <1>3 DEF Buckets
  <2>2. stage[0][j] = "buckets" /\ j.svc # "convo" /\ to \in Stage
    BY <1>0, <1>3 DEF Buckets, ChainInv, OwnStages, Stage
  <2> QED
    BY <1>0, <1>3, <2>1, <2>2, OneMove DEF Buckets, faults, Moves, Ends, Late
<1>4. CASE Leave(j)
  <2>1. /\ stage[N][j] = "leaving" /\ Move(N, j, "closed") /\ "closed" \in Stage
        /\ ~(N < N) /\ UNCHANGED <<waiting, idle, cur, up>>
    BY <1>4, ChainAssumption DEF ChainAssumption, Leave, faults, Stage
  <2> QED
    BY <1>0, <2>1, OneMove DEF Moves, Ends, Late
<1> QED
  BY <1>1, <1>2, <1>3, <1>4 DEF EntryStep

\* Close up to the call of NewRound and the unlocking of Idle.
LEMMA ServerMoves ==
  ASSUME ChainInv, epoch = 0, NEW s \in Server, NEW j \in Job, ServerStep(s, j)
  PROVE  StepMoves
<1>0. TypeOK /\ s \in Node /\ s # 0 /\ j.svc \in Service
  BY Indices DEF ChainInv, Job
<1>1. CASE HandOff(s, j)
  <2>1. s \in Caller
    BY <1>1, Indices DEF HandOff
  <2> QED
    BY <1>0, <1>1, <2>1, CallNewRoundMoves DEF HandOff, faults
<1>2. CASE Unlock(s, j)
  <2> DEFINE to == IF s = N THEN "leaving" ELSE FirstCall(j.svc)
  <2>1. to \in Stage /\ (s # N => to \in {"opening", "adding"}) /\ (s = N => to = "leaving")
    BY DEF FirstCall, Stage
  <2>2. Move(s, j, to)
    BY <1>2 DEF Unlock
  <2> HIDE DEF to
  <2>3. \A n \in Node, k \in Job :
          stage'[n][k] = IF n = s /\ k = j THEN to ELSE stage[n][k]
    BY <1>0, <2>1, <2>2, MovePoint DEF TypeOK
  <2>4. s # N => s < N /\ stage[s + 1][j] # "absent"
    <3>1. s # N => s < N /\ s \in Caller
      BY ChainAssumption DEF ChainAssumption, Server, Caller
    <3> QED
      BY <1>2, <3>1 DEF Unlock, ChainInv, Linked, Created
  <2>5. \A n \in Node, k \in Job : Moves(n, k)
    BY <1>0, <1>2, <2>1, <2>3, <2>4 DEF Unlock, Moves, HandsOver
  <2>6. IdleMoves
    <3>1. stage[s][j] = IF s = N THEN "filtering" ELSE "unlocking"
      BY <1>2 DEF Unlock
    <3>2. \A t \in Server : t # s => idle'[t] = idle[t]
      BY <1>0, <1>2 DEF Unlock, UnlockIdle, TypeOK
    <3> QED
      BY <3>1, <3>2 DEF IdleMoves
  <2> QED
    BY <1>2, <2>5, <2>6 DEF Unlock, faults, StepMoves, RequestMoves, CurMoves
<1> QED
  BY <1>1, <1>2 DEF ServerStep

\* A call that returns an error.
LEMMA CallErrorMoves ==
  ASSUME ChainInv, NEW i \in Node, NEW j \in Job, CallError(i, j)
  PROVE  StepMoves
<1>0. TypeOK /\ AfterError(i, stage[i][j]) \in Stage
  BY DEF ChainInv, AfterError, Stage
<1>1. \/ i = 0 /\ stage[i][j] = "handoff" /\ ~up[0] /\ AfterError(i, stage[i][j]) = "absent"
      \/ i # 0 /\ i < N /\ stage[i][j] = "handoff" /\ AfterError(i, stage[i][j]) = "failed"
      \/ /\ stage[i][j] \in Late \ {"closed"} /\ AfterError(i, stage[i][j]) = "failed"
  BY SMTT(30) DEF CallError, AfterError, Late
<1>2. UNCHANGED <<waiting, idle, cur, up>> /\ Move(i, j, AfterError(i, stage[i][j]))
  BY DEF CallError, faults
<1> QED
  BY <1>0, <1>1, <1>2, OneMove DEF Moves, EntryMoves, HandsOver, Ends, Late

\* NewRound on server s.  The round is new to the server, so that the caller
\* meets no error.
LEMMA NewRoundMoves ==
  ASSUME ChainInv, epoch = 0, Asked, NEW s \in Server, NEW q \in waiting[s], NewRound(s, q)
  PROVE  StepMoves
<1> DEFINE j == q.job
           caller == IF ~HasCaller(s, q) THEN stage[s - 1][j]
                     ELSE IF s = 1 THEN "receiving" ELSE "unlocking"
           callee == Created(j.svc)
<1>0. /\ s - 1 \in Node /\ s \in Node /\ s - 1 # s /\ s - 1 \in Caller /\ (s - 1) + 1 = s
      /\ s - 1 < N /\ j \in Job /\ s # 0
      /\ waiting \in [Server -> SUBSET [job : Job, epoch : Nat]]
      /\ q \in [job : Job, epoch : Nat]
      /\ stage \in [Node -> [Job -> Stage]]
      /\ idle \in [Server -> BOOLEAN]
  BY Indices, ChainAssumption DEF ChainInv, TypeOK, ChainAssumption, Server
<1>1. q = Request(j)
  <2>1. q.epoch = 0
    BY <1>0 DEF ChainInv, Pending
  <2> QED
    BY <1>0, <2>1 DEF Request
<1>2. stage[s][j] = "absent"
  BY <1>0, <1>1 DEF Asked
<1>3. HasCaller(s, q) => stage[s - 1][j] = "handoff"
  BY DEF ChainInv, Pending
<1>4. /\ MoveBoth(s - 1, j, caller, callee)
      /\ ~idle[s] /\ idle' = [idle EXCEPT ![s] = TRUE]
      /\ waiting' = [waiting EXCEPT ![s] = @ \ {q}]
      /\ UNCHANGED <<cur, up>>
  BY <1>2 DEF NewRound, LockIdle, HasCaller, Exists, faults
<1>5. caller \in Stage /\ callee \in Stage /\ callee # "absent"
  BY <1>0 DEF Stage, Created
<1>6. caller = stage[s - 1][j] \/
        (stage[s - 1][j] = "handoff" /\ caller = IF s = 1 THEN "receiving" ELSE "unlocking")
  BY <1>3
<1> HIDE DEF caller, j
<1>7. \A n \in Node, k \in Job :
        stage'[n][k] = IF n = s - 1 /\ k = j THEN caller
                       ELSE IF n = s /\ k = j THEN callee ELSE stage[n][k]
  BY <1>0, <1>4, <1>5, MoveBothPoint
<1>8. \A t \in Server : waiting'[t] \subseteq waiting[t]
  BY <1>0, <1>4
<1>9. Request(j) \notin waiting'[s]
  BY <1>0, <1>1, <1>4
<1>10. Moves(s, j)
  BY <1>0, <1>1, <1>2, <1>4, <1>7, <1>9 DEF Moves, TakesIn
<1>11. Moves(s - 1, j)
  <2>1. stage'[s - 1][j] = caller /\ stage'[s][j] # "absent"
    BY <1>0, <1>5, <1>7
  <2>2. CASE caller = stage[s - 1][j]
    BY <2>1, <2>2 DEF Moves
  <2>3. CASE s = 1 /\ stage[0][j] = "handoff" /\ caller = "receiving"
    <3>1. EntryMoves(j)
      BY <1>9, <2>1, <2>3 DEF EntryMoves
    <3> QED
      BY <2>3, <3>1 DEF Moves
  <2>4. CASE s # 1 /\ stage[s - 1][j] = "handoff" /\ caller = "unlocking"
    <3>1. HandsOver(s - 1, j)
      BY <1>0, <1>9, <2>1, <2>4 DEF HandsOver
    <3>2. s - 1 # 0
      BY <1>0, <2>4 DEF Node
    <3> QED
      BY <3>1, <3>2 DEF Moves
  <2> QED
    BY <1>0, <1>6, <2>2, <2>3, <2>4
<1>12. \A n \in Node, k \in Job : Moves(n, k)
  <2>1. \A n \in Node, k \in Job : ~(k = j /\ (n = s - 1 \/ n = s)) => Moves(n, k)
    BY <1>7 DEF Moves
  <2> QED
    BY <1>10, <1>11, <2>1
<1>13. IdleMoves
  BY <1>0, <1>4 DEF IdleMoves
<1> QED
  BY <1>4, <1>8, <1>12, <1>13 DEF StepMoves, RequestMoves, CurMoves

\* A connection that breaks.
LEMMA DropMoves ==
  ASSUME ChainInv, NEW i \in Node, Drop(i)
  PROVE  StepMoves
<1>0. stage \in [Node -> [Job -> Stage]] /\ up \in [Node -> BOOLEAN] /\ 0 \in Node
  BY Indices DEF ChainInv, TypeOK
<1>1. UNCHANGED <<idle, cur>> /\ up' = [up EXCEPT ![i] = FALSE]
  BY DEF Drop
<1>2. up'[0] => up[0]
  BY <1>0, <1>1
<1>3. CASE i = N
  BY <1>1, <1>2, <1>3 DEF Drop, StepMoves, Moves, RequestMoves, IdleMoves, CurMoves
<1>4. CASE i # N
  <2>0. i + 1 \in Server /\ i + 1 \in Node /\ i + 1 # 0
    BY <1>4, Indices
  <2>1. PICK done \in SUBSET Job, lost \in SUBSET waiting[i + 1] :
          /\ Severed(i + 1, done, lost)
          /\ stage' = [stage EXCEPT ![i + 1] = CalleeAfter(i + 1, done)]
    BY <1>4, ZenonT(30) DEF Drop
  <2>2. \A n \in Node, k \in Job :
          stage'[n][k] = IF n = i + 1 THEN CalleeAfter(i + 1, done)[k] ELSE stage[n][k]
    BY <1>0, <2>0, <2>1
  <2>3. /\ \A t \in Server : waiting'[t] \subseteq waiting[t]
        /\ \A k \in Job : LET c == CalleeAfter(i + 1, done)[k] IN
             \/ c = stage[i + 1][k]
             \/ stage[i + 1][k] = "new" /\ c = "open"
             \/ stage[i + 1][k] = "open" /\ c = "filtering"
             \/ stage[i + 1][k] = "closed" /\ c = "deleted"
    BY <2>0, <2>1, SeveredEffect, SMTT(30)
  <2>4. \A n \in Node, k \in Job : Moves(n, k)
    BY <2>0, <2>2, <2>3 DEF Moves, TakesIn, Ends
  <2> QED
    BY <1>1, <1>2, <2>3, <2>4 DEF StepMoves, RequestMoves, IdleMoves, CurMoves
<1> QED
  BY <1>3, <1>4

\* Every step within the first incarnation of the entry server.
LEMMA NextMoves ==
  ASSUME ChainInv, epoch = 0, epoch' = 0, Asked, [Next]_vars
  PROVE  StepMoves
<1>1. CASE UNCHANGED vars \/ Finished \/ \E i \in Caller : DropData(i)
  BY <1>1 DEF vars, Finished, DropData, StepMoves, Moves, RequestMoves, IdleMoves, CurMoves
<1>2. ~EntryRestart
  BY DEF EntryRestart
<1> QED
  BY <1>1, <1>2, LocalMoves, NewRoundMoves, CallerMoves, ServerMoves, CallErrorMoves, DropMoves
  DEF Next, Step, Fault

-----------------------------------------------------------------------------
(***************************************************************************)
(* The invariant is kept.                                                  *)
(***************************************************************************)

\* What the moves of a server imply for the sets of stages the invariant
\* speaks of.
LEMMA ServerStages ==
  ASSUME NEW s \in Server, NEW k \in Job, Moves(s, k)
  PROVE  /\ stage[s][k] # "absent" => stage'[s][k] # "absent"
         /\ stage[s][k] = "absent" /\ stage'[s][k] # "absent"
              => Request(k) \in waiting[s] /\ Request(k) \notin waiting'[s] /\ ~idle[s]
         /\ stage'[s][k] \in Holding => stage[s][k] \in Holding \cup {"absent"}
         /\ stage'[s][k] \in {"new", "open", "filtering"}
              => stage[s][k] \in {"absent", "new", "open", "filtering"}
         /\ stage[s][k] = "failed" => stage'[s][k] = "failed"
BY Indices DEF Moves, TakesIn, HandsOver, Ends, Late, Created, Holding

\* A request is sent once, and its caller does not move on without it.
LEMMA AskedStep ==
  ASSUME ChainInv, StepMoves, epoch = 0, Asked, NotYet, Counted
  PROVE  Asked'
<1> SUFFICES ASSUME NEW s \in Server, NEW j \in Job, Request(j) \in waiting'[s]
             PROVE  /\ stage'[s][j] = "absent"
                    /\ stage'[s - 1][j] \in IF s = 1 THEN {"absent", "handoff"}
                                                    ELSE {"handoff", "failed"}
                    /\ s = 1 => j.round <= cur'[j.svc]
  BY DEF Asked, Request
<1>0. /\ s \in Node /\ s - 1 \in Node /\ s - 1 \in Caller /\ (s - 1) + 1 = s /\ s # 0 /\ 0 \in Node
      /\ s # 1 => s - 1 \in Server /\ s - 1 # 0 /\ s - 1 < N
      /\ j.round \in Nat /\ j.svc \in Service /\ cur \in [Service -> Nat]
  BY Indices, ChainAssumption DEF ChainAssumption, Server, ChainInv, TypeOK, Job, Round
<1>1. Moves(s, j) /\ Moves(s - 1, j)
  BY <1>0 DEF StepMoves
<1>2. s = 1 => j.round <= cur[j.svc]
  <2>1. CASE Request(j) \in waiting[s]
    BY <2>1 DEF Asked
  <2>2. CASE Request(j) \notin waiting[s]
    <3>1. s = 1 => stage[0][j] = "absent" /\ stage'[0][j] = "handoff" /\ Moves(0, j)
      BY <1>1, <2>2 DEF StepMoves, RequestMoves
    <3>2. s = 1 => j.round = cur[j.svc]
      BY <3>1 DEF Moves, EntryMoves, Ends, Late
    <3> QED
      BY <1>0, <3>2
  <2> QED
    BY <2>1, <2>2
<1>3. s = 1 => j.round <= cur'[j.svc]
  BY <1>0, <1>2 DEF StepMoves, CurMoves, Job
<1>4. stage[s][j] = "absent"
  <2>1. CASE Request(j) \in waiting[s]
    BY <2>1 DEF Asked
  <2>2. CASE Request(j) \notin waiting[s]
    <3>1. /\ up[s - 1]
          /\ stage[s - 1][j] = IF s = 1 THEN "absent" ELSE "filtering"
      BY <2>2 DEF StepMoves, RequestMoves
    <3> QED
      BY <1>0, <3>1 DEF NotYet
  <2> QED
    BY <2>1, <2>2
<1>5. stage'[s][j] = "absent"
  BY <1>1, <1>4, ServerStages
<1>6. stage'[s - 1][j] \in IF s = 1 THEN {"absent", "handoff"} ELSE {"handoff", "failed"}
  <2>1. CASE Request(j) \notin waiting[s]
    BY <2>1 DEF StepMoves, RequestMoves
  <2>2. CASE Request(j) \in waiting[s] /\ s = 1
    <3>1. stage[0][j] \in {"absent", "handoff"} /\ Moves(0, j)
      BY <1>1, <2>2, SMTT(30) DEF Asked
    <3> QED
      BY <2>2, <3>1 DEF Moves, EntryMoves, Ends, Late
  <2>3. CASE Request(j) \in waiting[s] /\ s # 1
    <3>1. stage[s - 1][j] \in {"handoff", "failed"}
      BY <2>3 DEF Asked
    <3> QED
      BY <1>0, <1>1, <2>3, <3>1 DEF Moves, TakesIn, HandsOver, Ends, Late
  <2> QED
    BY <2>1, <2>2, <2>3
<1> QED
  BY <1>3, <1>5, <1>6

\* A round reaches a server only through a request for it.
LEMMA NotYetStep ==
  ASSUME ChainInv, StepMoves, epoch = 0, Asked, NotYet
  PROVE  NotYet'
<1>1. ASSUME NEW s \in Server, NEW j \in Job, s < N,
             stage'[s][j] \in {"absent", "new", "open", "filtering"}
      PROVE  stage'[s + 1][j] = "absent"
  <2>0. s + 1 \in Server /\ (s + 1) - 1 = s /\ s + 1 # 1 /\ s + 1 \in Node /\ s \in Node
    BY <1>1, ChainAssumption DEF ChainAssumption, Server, Node
  <2>1. Moves(s, j) /\ Moves(s + 1, j)
    BY <2>0 DEF StepMoves
  <2>2. stage[s][j] \in {"absent", "new", "open", "filtering"}
    BY <1>1, <2>1, ServerStages
  <2>3. stage[s + 1][j] = "absent"
    BY <1>1, <2>2 DEF NotYet
  <2>4. Request(j) \notin waiting[s + 1]
    BY <2>0, <2>2 DEF Asked
  <2> QED
    BY <2>0, <2>1, <2>3, <2>4, ServerStages
<1>2. ASSUME NEW j \in Job, up'[0], stage'[0][j] = "absent"
      PROVE  stage'[1][j] = "absent"
  <2>0. 1 \in Server /\ 1 \in Node /\ 0 \in Node
    BY Indices
  <2>1. Moves(0, j) /\ Moves(1, j) /\ up[0]
    BY <1>2, <2>0 DEF StepMoves
  <2>2. stage[0][j] = "absent"
    BY <1>2, <2>1 DEF Moves, EntryMoves, Ends, Late
  <2>3. stage[1][j] = "absent"
    BY <2>1, <2>2 DEF NotYet
  <2>4. Request(j) \notin waiting[1]
    <3> SUFFICES ASSUME Request(j) \in waiting[1] PROVE FALSE
      OBVIOUS
    <3>1. HasCaller(1, Request(j)) /\ Request(j).job = j
      BY <2>1 DEF HasCaller, Request
    <3> QED
      BY <2>0, <2>2, <3>1 DEF ChainInv, Pending
  <2> QED
    BY <2>0, <2>1, <2>3, <2>4, ServerStages
<1> QED
  BY <1>1, <1>2 DEF NotYet

\* The round counter passes only rounds that the first server has taken.
LEMMA CountedStep ==
  ASSUME ChainInv, StepMoves, Counted
  PROVE  Counted'
<1> SUFFICES ASSUME NEW j \in Job
             PROVE  /\ stage'[0][j] \in {"handoff", "receiving"} => j.round = cur'[j.svc]
                    /\ j.round < cur'[j.svc] \/ stage'[0][j] = "receiving"
                         => stage'[1][j] # "absent"
  BY DEF Counted
<1>0. 1 \in Server /\ 1 \in Node /\ 0 \in Node /\ Moves(0, j) /\ Moves(1, j)
  BY Indices DEF StepMoves
<1>1. j.round \in Nat /\ j.svc \in Service /\ cur \in [Service -> Nat]
  BY ChainAssumption DEF ChainAssumption, Job, Round, ChainInv, TypeOK
<1>2. stage'[0][j] \in {"handoff", "receiving"}
        => j.round = cur[j.svc] /\ stage[0][j] \in {"absent", "handoff", "receiving"}
  BY <1>0 DEF Counted, Moves, EntryMoves, Ends, Late
<1>3. stage[1][j] # "absent" => stage'[1][j] # "absent"
  BY <1>0, ServerStages
<1>4. stage'[0][j] = "receiving" => stage'[1][j] # "absent"
  <2>1. stage'[0][j] = "receiving" => stage[0][j] = "receiving" \/ stage'[1][j] # "absent"
    BY <1>0 DEF Moves, EntryMoves, Ends, Late
  <2> QED
    BY <1>3, <2>1 DEF Counted
<1>5. CASE cur' = cur
  BY <1>2, <1>3, <1>4, <1>5 DEF Counted
<1>6. ASSUME NEW k \in Job, stage[0][k] = "receiving", stage'[0][k] \in Late,
             cur' = [cur EXCEPT ![k.svc] = @ + 1]
      PROVE  /\ stage'[0][j] \in {"handoff", "receiving"} => j.round = cur'[j.svc]
             /\ j.round < cur'[j.svc] => stage'[1][j] # "absent"
  <2>1. k.svc \in Service /\ k.round = cur[k.svc]
    BY <1>6 DEF Counted, Job
  <2>2. CASE j.svc # k.svc
    BY <1>1, <1>2, <1>3, <1>6, <2>1, <2>2 DEF Counted
  <2>3. CASE j.svc = k.svc
    <3>1. cur'[j.svc] = k.round + 1 /\ k.round \in Nat
      BY <1>1, <1>6, <2>1, <2>3
    <3>2. j.round = k.round => j = k
      BY <2>3 DEF Job
    <3>3. stage'[0][j] \notin {"handoff", "receiving"}
      <4>1. stage'[0][j] \in {"handoff", "receiving"} => j = k
        BY <1>2, <2>1, <2>3, <3>2
      <4> QED
        BY <1>6, <4>1 DEF Late
    <3>4. j.round < cur'[j.svc] => stage[1][j] # "absent"
      <4>1. j.round < cur'[j.svc] => j.round < cur[j.svc] \/ j = k
        BY <1>1, <2>1, <2>3, <3>1, <3>2
      <4> QED
        BY <1>6, <4>1 DEF Counted
    <3> QED
      BY <1>3, <3>3, <3>4
  <2> QED
    BY <2>2, <2>3
<1> QED
  BY <1>4, <1>5, <1>6 DEF StepMoves, CurMoves

\* A request for a round finds the server past every earlier round.
LEMMA EarlierTaken ==
  ASSUME ChainInv, epoch = 0, Asked, Stuck, Counted, NoOvertaking,
         NEW s \in Server, NEW j \in Job, NEW k \in Job,
         j.svc = k.svc, j.round < k.round, Request(k) \in waiting[s]
  PROVE  stage[s][j] # "absent"
<1>0. /\ s # 1 => s - 1 \in Server /\ s - 1 < N /\ (s - 1) + 1 = s
      /\ j.round \in Nat /\ k.round \in Nat /\ j.svc \in Service /\ cur \in [Service -> Nat]
  BY ChainAssumption DEF ChainAssumption, Server, Job, Round, ChainInv, TypeOK
<1>1. CASE s = 1
  <2>1. k.round <= cur[j.svc]
    BY <1>1 DEF Asked
  <2>2. j.round < cur[j.svc]
    BY <1>0, <2>1
  <2> QED
    BY <1>1, <2>2 DEF Counted
<1>2. CASE s # 1
  <2>1. stage[s - 1][k] # "absent"
    BY <1>2 DEF Asked
  <2>2. stage[s - 1][j] \notin Holding \cup {"absent"}
    BY <1>0, <1>2, <2>1 DEF NoOvertaking
  <2> QED
    BY <1>0, <1>2, <2>1, <2>2 DEF Stuck
<1> QED
  BY <1>1, <1>2

\* A server takes a round only when it is through with the earlier ones.
LEMMA NoOvertakingStep ==
  ASSUME ChainInv, StepMoves, epoch = 0, epoch' = 0, Asked, Stuck, Counted, NoOvertaking
  PROVE  NoOvertaking'
<1> SUFFICES ASSUME NEW s \in Server, NEW j \in Job, NEW k \in Job,
                    j.svc = k.svc, j.round < k.round, stage'[s][k] # "absent"
             PROVE  stage'[s][j] \notin Holding \cup {"absent"}
  BY DEF NoOvertaking, Holding
<1>0. Moves(s, j) /\ Moves(s, k)
  BY Indices DEF StepMoves
<1>1. CASE stage[s][k] # "absent"
  <2>1. stage[s][j] \notin Holding \cup {"absent"}
    BY <1>1 DEF NoOvertaking
  <2> QED
    BY <1>0, <2>1, ServerStages
<1>2. CASE stage[s][k] = "absent"
  <2>1. Request(k) \in waiting[s] /\ ~idle[s]
    BY <1>0, <1>2, ServerStages
  <2>2. stage[s][j] # "absent"
    BY <2>1, EarlierTaken
  <2>3. stage[s][j] \notin Holding
    BY <2>1 DEF ChainInv, IdleHeld
  <2> QED
    BY <1>0, <2>2, <2>3, ServerStages
<1> QED
  BY <1>1, <1>2

\* A server that gave up on a round never unlocks Idle again.
LEMMA StuckStep ==
  ASSUME ChainInv, StepMoves, epoch = 0, Asked, Stuck, NoOvertaking
  PROVE  Stuck'
<1> SUFFICES ASSUME NEW s \in Server, NEW j \in Job, s < N,
                    stage'[s][j] \notin Holding \cup {"absent"},
                    stage'[s + 1][j] = "absent"
             PROVE  /\ idle'[s]
                    /\ \A k \in Job : stage'[s][k] \notin Holding
                    /\ \A k \in Job : k.svc = j.svc /\ j.round < k.round
                                        => stage'[s][k] = "absent"
  BY DEF Stuck, Holding
<1>0. /\ s + 1 \in Server /\ s \in Node /\ s + 1 \in Node /\ s # 0 /\ s # N
      /\ \A k \in Job : Moves(s, k) /\ Moves(s + 1, k)
  BY ChainAssumption DEF ChainAssumption, Server, Node, StepMoves
<1>1. stage[s + 1][j] = "absent"
  BY <1>0, ServerStages
<1>2. stage[s][j] \notin Holding \cup {"absent"} \/ stage[s][j] = "handoff"
  <2>1. CASE stage'[s][j] = stage[s][j]
    BY <2>1
  <2>2. CASE TakesIn(s, j)
    BY <2>2 DEF TakesIn, Created, Holding
  <2>3. CASE HandsOver(s, j)
    BY <1>0, <1>1, <2>3 DEF HandsOver, Holding
  <2>4. CASE Ends(s, j)
    BY <2>4 DEF Ends, Late, Holding
  <2> QED
    BY <1>0, <2>1, <2>2, <2>3, <2>4 DEF Moves
<1>3. /\ idle[s]
      /\ \A k \in Job : k # j => stage[s][k] \notin Holding
      /\ \A k \in Job : k.svc = j.svc /\ j.round < k.round => stage[s][k] = "absent"
  <2>1. CASE stage[s][j] = "handoff"
    <3>1. stage[s][j] \in Holding
      BY <2>1 DEF Holding
    <3> QED
      BY <3>1 DEF ChainInv, IdleHeld, IngestExclusive, NoOvertaking
  <2>2. CASE stage[s][j] \notin Holding \cup {"absent"}
    BY <1>1, <2>2 DEF Stuck
  <2> QED
    BY <1>2, <2>1, <2>2
<1>4. \A k \in Job : stage'[s][k] \notin Holding
  BY <1>0, <1>3, ServerStages, SMTT(30) DEF Holding
<1>5. \A k \in Job : k.svc = j.svc /\ j.round < k.round => stage'[s][k] = "absent"
  BY <1>0, <1>3, ServerStages, SMTT(30)
<1>6. idle'[s]
  <2>1. \A k \in Job : stage[s][k] # "unlocking"
    BY <1>2, <1>3 DEF Holding
  <2> QED
    BY <1>0, <1>3, <2>1 DEF StepMoves, IdleMoves
<1> QED
  BY <1>4, <1>5, <1>6

\* A round is done at a node only when it is done behind it, and stays so.
LEMMA DownstreamStep ==
  ASSUME ChainInv, ChainInv', StepMoves, epoch = 0, Asked, DownstreamDone
  PROVE  DownstreamDone'
<1> SUFFICES ASSUME NEW i \in Node, NEW t \in Server, NEW j \in Job, i < t,
                    stage'[i][j] \in {"closed", "deleted", "buckets"}
             PROVE  stage'[t][j] = IF j.svc = "convo" THEN "deleted" ELSE "closed"
  BY DEF DownstreamDone
<1>0. /\ i \in 0 .. N /\ t \in 1 .. N /\ N \in Nat /\ t \in Node /\ t - 1 \in Node
      /\ i < N /\ i + 1 \in Server
      /\ Moves(i, j) /\ Moves(t, j)
  BY ChainAssumption DEF ChainAssumption, Node, Server, StepMoves
<1>1. CASE j.svc # "convo"
  <2>1. stage'[i][j] # "deleted"
    BY <1>1 DEF ChainInv, OwnStages
  <2> QED
    BY <1>1, <2>1 DEF ChainInv, DialDone, Job, Service
<1>2. CASE j.svc = "convo"
  <2>1. stage'[i][j] # "buckets"
    BY <1>2, SMTT(30) DEF ChainInv, OwnStages
  <2>2. \/ stage[i][j] \in {"closed", "deleted"}
        \/ stage[i + 1][j] = "closed" /\ stage'[i + 1][j] = "deleted"
    <3>1. CASE stage'[i][j] = stage[i][j]
      BY <2>1, <3>1
    <3>2. CASE i = 0 /\ EntryMoves(j)
      BY <3>2 DEF EntryMoves
    <3>3. CASE TakesIn(i, j)
      BY <3>3 DEF TakesIn, Created
    <3>4. CASE HandsOver(i, j)
      BY <3>4 DEF HandsOver
    <3>5. CASE Ends(i, j)
      BY <1>0, <1>2, <2>1, <3>5 DEF Ends, Late
    <3> QED
      BY <1>0, <3>1, <3>2, <3>3, <3>4, <3>5 DEF Moves
  <2>3. ASSUME stage[t][j] = "deleted" PROVE stage'[t][j] = "deleted"
    <3>1. t # 0
      BY <1>0
    <3>2. CASE TakesIn(t, j) \/ HandsOver(t, j)
      BY <2>3, <3>2 DEF TakesIn, HandsOver
    <3>3. CASE Ends(t, j)
      BY <2>3, <3>3 DEF Ends, Late
    <3> QED
      BY <1>0, <2>3, <3>1, <3>2, <3>3 DEF Moves
  <2>4. CASE stage[i][j] \in {"closed", "deleted"}
    BY <1>2, <2>3, <2>4 DEF DownstreamDone
  <2>5. CASE stage[i + 1][j] = "closed" /\ stage'[i + 1][j] = "deleted"
    <3>1. CASE t = i + 1
      BY <1>2, <2>5, <3>1
    <3>2. CASE t # i + 1
      <4>1. i + 1 < t /\ i + 1 \in Node
        BY <1>0, <3>2 DEF Node
      <4> QED
        BY <1>2, <2>3, <2>5, <4>1 DEF DownstreamDone
    <3> QED
      BY <3>1, <3>2
  <2> QED
    BY <2>2, <2>4, <2>5
<1> QED
  BY <1>1, <1>2

\* The invariant holds at the start.
LEMMA InitOrder == Init => OrderInv
<1> SUFFICES ASSUME Init PROVE Asked /\ NotYet /\ Stuck /\ Counted /\ NoOvertaking /\ DownstreamDone
  BY DEF OrderInv
<1>1. /\ \A i \in Node, j \in Job : stage[i][j] = "absent"
      /\ \A s \in Server : waiting[s] = {}
      /\ \A svc \in Service : cur[svc] = 0
  BY DEF Init
<1>2. \A j \in Job : ~(j.round < 0) /\ j.svc \in Service
  BY ChainAssumption DEF ChainAssumption, Job, Round
<1>3. \A s \in Server : s \in Node /\ (s < N => s + 1 \in Node)
  BY ChainAssumption DEF ChainAssumption, Node, Server
<1>4. Asked /\ NotYet
  BY <1>1, <1>3, Indices DEF Asked, NotYet
<1>5. Counted
  BY <1>1, <1>2, Indices DEF Counted
<1>6. Stuck /\ NoOvertaking
  BY <1>1, <1>3 DEF Stuck, NoOvertaking
<1>7. DownstreamDone
  BY <1>1 DEF DownstreamDone
<1> QED
  BY <1>4, <1>5, <1>6, <1>7

\* Every step keeps it; a restart of the entry server ends its claim.
LEMMA NextOrder == ChainInv /\ ChainInv' /\ OrderInv /\ [Next]_vars => OrderInv'
<1> SUFFICES ASSUME ChainInv, ChainInv', OrderInv, [Next]_vars, epoch' = 0 PROVE OrderInv'
  BY DEF OrderInv
<1>1. epoch = 0
  <2>1. epoch \in Nat
    BY SMTT(30) DEF ChainInv, TypeOK
  <2>2. epoch' = epoch \/ epoch' = epoch + 1
    BY ZenonT(30)
       DEF Next, Step, Fault, Finished, vars, EntryStep, EntryNewRound, EntryRun, Buckets, Leave,
           NewRound, CallerStep, Open, Add, Close, CloseReply, Get, Delete, ServerStep, HandOff,
           Unlock, CallError, Drop, DropData, EntryRestart, faults
  <2> QED
    BY <2>1, <2>2
<1>2. Asked /\ NotYet /\ Stuck /\ Counted /\ NoOvertaking /\ DownstreamDone
  BY <1>1 DEF OrderInv
<1>3. StepMoves
  BY <1>1, <1>2, NextMoves
<1> QED
  BY <1>1, <1>2, <1>3, AskedStep, NotYetStep, CountedStep, NoOvertakingStep, StuckStep,
     DownstreamStep
  DEF OrderInv

\* The ordering invariant holds throughout.
THEOREM OrderInvariant == Spec => []OrderInv
BY InitOrder, NextOrder, ChainInvariant, PTL DEF Spec

\* Until the entry server restarts, rounds of one protocol never overtake
\* each other on any server, whatever connections break.
THEOREM InOrder == Spec => []NoOvertaking
<1>1. OrderInv => NoOvertaking
  BY DEF OrderInv, NoOvertaking
<1> QED
  BY <1>1, OrderInvariant, PTL

\* Until the entry server restarts, a round that a node reports as done is
\* done on every server behind it, and no NewRound creates it again.
THEOREM DoneBehind == Spec => []DownstreamDone
<1>1. OrderInv => DownstreamDone
  BY DEF OrderInv, DownstreamDone
<1> QED
  BY <1>1, OrderInvariant, PTL

-----------------------------------------------------------------------------
\* No connection has broken and the entry server has not restarted.
Healthy == drops + epoch = 0

\* A round that is open on a server has a caller that is going to close it.
OpenDriven ==
  \A i \in Caller, j \in Job :
    stage[i + 1][j] \in {"new", "open"} => stage[i][j] \in Driving

\* As long as nothing fails, all connections are there and Idle is locked
\* only for a round, which has a caller as long as it is open.
HealthyInv ==
  Healthy => /\ \A i \in Node : up[i]
             /\ \A i \in Caller : dataUp[i]
             /\ LockedMeansBusy
             /\ OpenDriven

\* A step after which nothing has failed was not a failure.
LEMMA StaysHealthy ==
  ASSUME TypeOK, [Next]_vars, Healthy'
  PROVE  /\ Healthy /\ epoch = 0
         /\ UNCHANGED <<up, dataUp>>
         /\ Step \/ UNCHANGED vars
<1>1. drops \in Nat /\ epoch \in Nat
  BY DEF TypeOK
<1>2. CASE Fault
  <2>1. (drops' = drops + 1 /\ epoch' = epoch) \/ (drops' = drops /\ epoch' = epoch + 1)
    BY <1>2 DEF Fault, Drop, DropData, EntryRestart
  <2> QED BY <1>1, <2>1, SMTT(30) DEF Healthy
<1>3. CASE Step
  <2>1. UNCHANGED <<up, dataUp, drops, epoch>>
    BY <1>3, ZenonT(30)
       DEF Step, EntryStep, EntryNewRound, EntryRun, Buckets, Leave, NewRound, CallerStep,
           Open, Add, Close, CloseReply, Get, Delete, ServerStep, HandOff, Unlock,
           CallError, faults
  <2> QED BY <1>1, <1>3, <2>1, SMTT(30) DEF Healthy
<1>4. CASE UNCHANGED vars
  BY <1>1, <1>4 DEF vars, Healthy
<1> QED BY <1>2, <1>3, <1>4 DEF Next, Finished

\* A step that leaves Idle and what the servers take in alone.
LEMMA StillBusy ==
  ASSUME LockedMeansBusy, Ingesting' = Ingesting, UNCHANGED idle
  PROVE  LockedMeansBusy'
<1>1. SUFFICES ASSUME NEW s \in Server, idle'[s] PROVE \E j \in Job : stage'[s][j] \in Holding
  BY DEF LockedMeansBusy
<1>2. PICK j \in Job : stage[s][j] \in Holding
  BY <1>1 DEF LockedMeansBusy
<1>3. j \in Ingesting[s]
  BY <1>2 DEF Ingesting
<1>4. j \in Ingesting'[s]
  BY <1>3
<1> QED BY <1>4 DEF Ingesting

\* NewRound locks Idle for the round it creates: without a restart, no round
\* is asked for twice.
LEMMA NewRoundBusy ==
  ASSUME ChainInv, Asked, epoch = 0, LockedMeansBusy,
         NEW s \in Server, NEW q \in waiting[s], NewRound(s, q)
  PROVE  LockedMeansBusy'
<1>1. q \in [job : Job, epoch : Nat] /\ q.epoch = 0
  BY Indices DEF ChainInv, TypeOK, Pending
<1>2. q = Request(q.job) /\ q.job \in Job
  BY <1>1 DEF Request
<1>3. stage[s][q.job] = "absent"
  BY <1>2 DEF Asked
<1>4. PICK caller \in Stage : MoveBoth(s - 1, q.job, caller, Created(q.job.svc))
  <2>1. stage[s - 1][q.job] \in Stage
    BY <1>2, Indices DEF ChainInv, TypeOK
  <2>2. AfterError(s - 1, "handoff") \in Stage /\ "receiving" \in Stage /\ "unlocking" \in Stage
    BY DEF AfterError, Stage
  <2> QED BY <1>3, <2>1, <2>2 DEF NewRound, Exists
<1>5. \A n \in Node, k \in Job :
        stage'[n][k] = IF n = s - 1 /\ k = q.job THEN caller
                       ELSE IF n = s /\ k = q.job THEN Created(q.job.svc)
                       ELSE stage[n][k]
  <2>1. s - 1 \in Caller /\ (s - 1) + 1 = s
    BY Indices
  <2>2. Created(q.job.svc) \in Stage
    BY DEF Created, Stage
  <2>3. stage \in [Node -> [Job -> Stage]]
    BY DEF ChainInv, TypeOK
  <2> DEFINE c == s - 1
             j == q.job
             ct == Created(q.job.svc)
  <2>4. c \in Caller /\ j \in Job /\ ct \in Stage /\ c + 1 = s /\ MoveBoth(c, j, caller, ct)
    BY <1>2, <1>4, <2>1, <2>2, SMTT(30)
  <2>5. ASSUME c \in Caller, j \in Job, ct \in Stage, MoveBoth(c, j, caller, ct)
        PROVE  \A n \in Node, k \in Job :
                 stage'[n][k] = IF n = c /\ k = j THEN caller
                                ELSE IF n = c + 1 /\ k = j THEN ct ELSE stage[n][k]
    <3> HIDE DEF c, j, ct
    <3> QED BY <1>4, <2>3, <2>5, MoveBothPoint, SMTT(30)
  <2> QED BY <2>4, <2>5, Zenon
<1>6. Created(q.job.svc) \in Holding
  BY DEF Created, Holding
<1>7. caller \in Holding \/ stage[s - 1][q.job] \notin Holding \/ s - 1 \notin Server
  <2>1. CASE ~(up[s - 1] /\ (s = 1 => q.epoch = epoch))
    <3>1. MoveBoth(s - 1, q.job, stage[s - 1][q.job], Created(q.job.svc))
      BY <1>3, <2>1 DEF NewRound, Exists
    <3>2. stage'[s - 1][q.job] = stage[s - 1][q.job]
      <4>1. s - 1 \in Caller /\ s - 1 \in Node /\ (s - 1) + 1 = s
        BY Indices
      <4>2. Created(q.job.svc) \in Stage /\ stage[s - 1][q.job] \in Stage
        BY <1>2, <4>1 DEF Created, Stage, ChainInv, TypeOK
      <4> QED BY <1>2, <3>1, <4>1, <4>2, MoveBothPoint DEF ChainInv, TypeOK
    <3>3. stage'[s - 1][q.job] = caller
      BY <1>2, <1>5, Indices
    <3> QED BY <3>2, <3>3
  <2>2. CASE up[s - 1] /\ (s = 1 => q.epoch = epoch) /\ s # 1
    <3>1. MoveBoth(s - 1, q.job, "unlocking", Created(q.job.svc))
      BY <1>3, <2>2 DEF NewRound, Exists
    <3>2. stage'[s - 1][q.job] = "unlocking"
      <4>1. s - 1 \in Caller /\ s - 1 \in Node /\ (s - 1) + 1 = s
        BY Indices
      <4>2. Created(q.job.svc) \in Stage /\ "unlocking" \in Stage
        BY DEF Created, Stage
      <4> QED BY <1>2, <3>1, <4>1, <4>2, MoveBothPoint DEF ChainInv, TypeOK
    <3>3. stage'[s - 1][q.job] = caller
      BY <1>2, <1>5, Indices
    <3> QED BY <3>2, <3>3 DEF Holding
  <2>3. CASE s = 1
    BY <2>3 DEF Server
  <2> QED BY <2>1, <2>2, <2>3
<1>8. \A t \in Server : t # s => idle'[t] = idle[t]
  BY DEF NewRound, LockIdle, ChainInv, TypeOK
<1>9. ASSUME NEW t \in Server, idle'[t] PROVE \E k \in Job : stage'[t][k] \in Holding
  <2>1. CASE t = s
    <3>1. s \in Node /\ s # s - 1
      BY ChainAssumption DEF ChainAssumption, Server, Node
    <3>2. stage'[s][q.job] = Created(q.job.svc)
      BY <1>2, <1>5, <3>1
    <3> QED BY <1>2, <1>6, <2>1, <3>2
  <2>2. CASE t # s
    <3>1. PICK k \in Job : stage[t][k] \in Holding
      BY <1>8, <1>9, <2>2 DEF LockedMeansBusy
    <3>2. t \in Node
      BY Indices
    <3>3. stage'[t][k] \in Holding
      BY <1>5, <1>7, <2>2, <3>1, <3>2
    <3> QED BY <3>3
  <2> QED BY <2>1, <2>2
<1> QED BY <1>9 DEF LockedMeansBusy

\* Close gives Idle back as it lets the round go.
LEMMA UnlockBusy ==
  ASSUME ChainInv, LockedMeansBusy, NEW s \in Server, NEW j \in Job, Unlock(s, j)
  PROVE  LockedMeansBusy'
<1>1. /\ idle' = [idle EXCEPT ![s] = FALSE]
      /\ Move(s, j, IF s = N THEN "leaving" ELSE FirstCall(j.svc))
  BY DEF Unlock, UnlockIdle
<1>2. ASSUME NEW t \in Server, idle'[t] PROVE \E k \in Job : stage'[t][k] \in Holding
  <2>1. t # s /\ idle[t] /\ t \in Node
    BY <1>1, <1>2, Indices DEF ChainInv, TypeOK
  <2>2. stage'[t] = stage[t]
    BY <1>1, <2>1 DEF Move, ChainInv, TypeOK
  <2> QED BY <2>1, <2>2 DEF LockedMeansBusy
<1> QED BY <1>2 DEF LockedMeansBusy

\* The steps that move one node.
LEMMA OneDriven ==
  ASSUME TypeOK, OpenDriven, NEW i \in Node, NEW j \in Job, NEW to \in Stage, Move(i, j, to),
         to \notin {"new", "open"},
         stage[i][j] \in Driving => to \in Driving
  PROVE  OpenDriven'
<1>1. \A n \in Node, k \in Job :
        stage'[n][k] = IF n = i /\ k = j THEN to ELSE stage[n][k]
  BY MovePoint DEF TypeOK
<1>2. ASSUME NEW c \in Caller, NEW k \in Job, stage'[c + 1][k] \in {"new", "open"}
      PROVE  stage'[c][k] \in Driving
  <2>1. c \in Node /\ c + 1 \in Node
    BY Indices
  <2>2. stage[c + 1][k] \in {"new", "open"}
    BY <1>1, <1>2, <2>1
  <2>3. stage[c][k] \in Driving
    BY <2>2 DEF OpenDriven
  <2> QED BY <1>1, <2>1, <2>3
<1> QED BY <1>2 DEF OpenDriven

\* The steps that move a caller and its callee, which is not driving.
LEMMA TwoDriven ==
  ASSUME TypeOK, OpenDriven, NEW i \in Caller, NEW j \in Job, NEW to \in Stage, NEW ct \in Stage,
         MoveBoth(i, j, to, ct),
         to \notin {"new", "open"},
         stage[i + 1][j] \notin Driving,
         ct \in {"new", "open"} => to \in Driving
  PROVE  OpenDriven'
<1>1. \A n \in Node, k \in Job :
        stage'[n][k] = IF n = i /\ k = j THEN to
                       ELSE IF n = i + 1 /\ k = j THEN ct ELSE stage[n][k]
  BY MoveBothPoint DEF TypeOK
<1>2. ASSUME NEW c \in Caller, NEW k \in Job, stage'[c + 1][k] \in {"new", "open"}
      PROVE  stage'[c][k] \in Driving
  <2>1. c \in Node /\ c + 1 \in Node /\ i \in Node /\ i + 1 \in Node /\ i # i + 1
        /\ c \in Int /\ i \in Int
    BY Indices, ChainAssumption DEF ChainAssumption, Caller
  <2>2. CASE c = i /\ k = j
    <3>1. stage'[c + 1][k] = ct /\ stage'[c][k] = to
      BY <1>1, <2>1, <2>2
    <3> QED BY <1>2, <3>1
  <2>3. CASE ~(c = i /\ k = j)
    <3>1. ~(c + 1 = i + 1 /\ k = j)
      BY <2>1, <2>3
    <3>2. stage[c + 1][k] \in {"new", "open"}
      BY <1>1, <1>2, <2>1, <3>1
    <3>3. stage[c][k] \in Driving
      BY <3>2 DEF OpenDriven
    <3> QED BY <1>1, <2>1, <2>3, <3>3
  <2> QED BY <2>2, <2>3
<1> QED BY <1>2 DEF OpenDriven

\* The calls of RunConvoRound and RunDialRound: a caller drives the round
\* until Close has started on the server.
LEMMA CallerDriven ==
  ASSUME ChainInv, OpenDriven, NEW i \in Caller, NEW j \in Job, up[i], CallerStep(i, j)
  PROVE  OpenDriven'
<1>0. i \in Node /\ i + 1 \in Node /\ TypeOK
  BY Indices, SMTT(30) DEF ChainInv
<1>1. CASE Open(i, j)
  <2>1. stage[i + 1][j] = "new" /\ MoveBoth(i, j, "adding", "open")
    BY <1>1 DEF Open, Effect, ChainInv, Linked
  <2> QED BY <1>0, <2>1, TwoDriven, ZenonT(30) DEF Stage, Driving
<1>2. CASE Close(i, j)
  <2>1. stage[i + 1][j] = "open" /\ MoveBoth(i, j, "awaiting", "filtering")
    BY <1>2 DEF Close, Effect, ChainInv, Linked
  <2> QED BY <1>0, <2>1, TwoDriven, ZenonT(30) DEF Stage, Driving
<1>3. CASE Delete(i, j)
  <2>1. stage[i + 1][j] = "closed" /\ MoveBoth(i, j, "closed", "deleted")
    BY <1>3 DEF Delete, Effect, ChainInv, Linked
  <2> QED BY <1>0, <2>1, TwoDriven, ZenonT(30) DEF Stage, Driving
<1>4. CASE Add(i, j)
  <2>1. Move(i, j, "closing")
    BY <1>4 DEF Add, ChainInv, Linked
  <2> QED BY <1>0, <2>1, OneDriven DEF Stage, Driving
<1>5. CASE Get(i, j) \/ CloseReply(i, j)
  <2>1. PICK to \in {"deleting", "failed", "getting", "buckets", "closed"} : Move(i, j, to)
    BY <1>5 DEF Get, CloseReply, AfterClose
  <2>2. stage[i][j] \in {"getting", "awaiting"}
    BY <1>5 DEF Get, CloseReply
  <2>3. to \in Stage /\ to \notin {"new", "open"} /\ stage[i][j] \notin Driving
    BY <2>1, <2>2 DEF Stage, Driving
  <2> QED BY <1>0, <2>1, <2>3, OneDriven
<1> QED BY <1>1, <1>2, <1>3, <1>4, <1>5 DEF CallerStep

\* The steps of one node's own goroutines.
LEMMA LocalDriven ==
  ASSUME TypeOK, OpenDriven, NEW j \in Job,
         EntryStep(j) \/ Leave(j) \/ \E s \in Server : ServerStep(s, j)
  PROVE  OpenDriven'
<1>1. PICK i \in Node, to \in {"handoff", "opening", "adding", "leaving", "closed", "failed"} :
        /\ Move(i, j, to)
        /\ stage[i][j] \in Driving => to \in {"opening", "adding"}
  BY Indices, ZenonT(30)
     DEF EntryStep, EntryNewRound, EntryRun, Buckets, Leave, ServerStep, HandOff, Unlock,
         CallNewRound, FirstCall, Driving
<1>2. to \in Stage /\ to \notin {"new", "open"} /\ (stage[i][j] \in Driving => to \in Driving)
  BY <1>1, ZenonT(30) DEF Stage, Driving
<1> QED BY <1>1, <1>2, OneDriven, SMTT(30)

\* NewRound opens a round for the caller that waits for it.
LEMMA NewRoundDriven ==
  ASSUME ChainInv, Asked, epoch = 0, OpenDriven,
         NEW s \in Server, NEW q \in waiting[s], up[s - 1], NewRound(s, q)
  PROVE  OpenDriven'
<1>1. q \in [job : Job, epoch : Nat] /\ q.epoch = 0
  BY Indices DEF ChainInv, TypeOK, Pending
<1>2. q = Request(q.job) /\ q.job \in Job
  BY <1>1 DEF Request
<1>3. stage[s][q.job] = "absent"
  BY <1>2 DEF Asked
<1>4. MoveBoth(s - 1, q.job, IF s = 1 THEN "receiving" ELSE "unlocking", Created(q.job.svc))
  BY <1>1, <1>3 DEF NewRound, Exists
<1>5. s - 1 \in Caller /\ (s - 1) + 1 = s /\ TypeOK
  BY Indices DEF ChainInv
<1>6. /\ (IF s = 1 THEN "receiving" ELSE "unlocking") \in Driving
      /\ (IF s = 1 THEN "receiving" ELSE "unlocking") \in Stage \ {"new", "open"}
      /\ Created(q.job.svc) \in Stage
      /\ stage[s][q.job] \notin Driving
  BY <1>3 DEF Driving, Stage, Created
<1> QED BY <1>2, <1>4, <1>5, <1>6, TwoDriven

\* As long as nothing fails, every step keeps HealthyInv.
LEMMA NextHealthy == ChainInv /\ OrderInv /\ HealthyInv /\ [Next]_vars => HealthyInv'
<1> SUFFICES ASSUME ChainInv, OrderInv, HealthyInv, [Next]_vars, Healthy' PROVE HealthyInv'
  BY DEF HealthyInv
<1>1. /\ Healthy /\ epoch = 0 /\ UNCHANGED <<up, dataUp>>
      /\ Step \/ UNCHANGED vars
  BY StaysHealthy DEF ChainInv
<1>2. /\ \A i \in Node : up[i]
      /\ \A i \in Caller : dataUp[i]
      /\ LockedMeansBusy /\ OpenDriven /\ Asked
  BY <1>1, SMTT(30) DEF HealthyInv, OrderInv
<1>3. LockedMeansBusy'
  <2>1. CASE UNCHANGED vars
    BY <1>2, <2>1 DEF vars, LockedMeansBusy
  <2>2. ASSUME NEW j \in Job, EntryStep(j) \/ Leave(j) \/ \E s \in Server : HandOff(s, j)
        PROVE  LockedMeansBusy'
    BY <1>2, <2>2, LocalUnseen, StillBusy
  <2>3. ASSUME NEW i \in Caller, NEW j \in Job, CallerStep(i, j) PROVE LockedMeansBusy'
    BY <1>2, <2>3, CallerUnseen, StillBusy
  <2>4. ASSUME NEW i \in Node, NEW j \in Job, CallError(i, j) PROVE FALSE
    BY <1>2, <2>4, Indices, ZenonT(30) DEF CallError, Caller, Node
  <2> QED
    BY <1>1, <1>2, <2>1, <2>2, <2>3, <2>4, NewRoundBusy, UnlockBusy, ZenonT(30) DEF Step, ServerStep
<1>4. OpenDriven'
  <2>1. CASE UNCHANGED vars
    BY <1>2, <2>1 DEF vars, OpenDriven
  <2>2. ASSUME NEW i \in Caller, NEW j \in Job, CallerStep(i, j) PROVE OpenDriven'
    BY <1>2, <2>2, CallerDriven, Indices
  <2>3. ASSUME NEW s \in Server, NEW q \in waiting[s], NewRound(s, q) PROVE OpenDriven'
    BY <1>1, <1>2, <2>3, NewRoundDriven, Indices
  <2>4. ASSUME NEW i \in Node, NEW j \in Job, CallError(i, j) PROVE FALSE
    BY <1>2, <2>4, Indices DEF CallError, Caller, Node
  <2>5. TypeOK
    BY DEF ChainInv
  <2> QED
    BY <1>1, <1>2, <2>1, <2>2, <2>3, <2>4, <2>5, LocalDriven, Zenon DEF Step
<1> QED BY <1>1, <1>2, <1>3, <1>4 DEF HealthyInv

\* As long as no connection breaks and the entry server is not restarted,
\* Idle is locked only for a round that its server's Close is busy with or
\* that the node in front is going to close: what NewRound waits for does
\* end.  After a fault it need not.
THEOREM IdleOnlyWhenBusy == Spec => [](Healthy => IdleDriven)
<1>1. Init => HealthyInv
  <2> SUFFICES ASSUME Init PROVE OpenDriven /\ LockedMeansBusy
    BY Indices DEF Init, HealthyInv
  <2>1. LockedMeansBusy
    BY DEF Init, LockedMeansBusy
  <2>2. OpenDriven
    BY Indices DEF Init, OpenDriven
  <2> QED BY <2>1, <2>2
<1>2. HealthyInv => (Healthy => IdleDriven)
  <2> SUFFICES ASSUME LockedMeansBusy, OpenDriven, NEW s \in Server, idle[s]
               PROVE  \E j \in Job :
                        /\ stage[s][j] \in Holding
                        /\ stage[s][j] \in {"new", "open"} => stage[s - 1][j] \in Driving
    BY DEF HealthyInv, IdleDriven
  <2>1. PICK j \in Job : stage[s][j] \in Holding
    BY DEF LockedMeansBusy
  <2>2. s - 1 \in Caller /\ (s - 1) + 1 = s
    BY Indices
  <2> QED BY <2>1, <2>2 DEF OpenDriven
<1> QED BY <1>1, <1>2, NextHealthy, ChainInvariant, OrderInvariant, PTL DEF Spec
=============================================================================
