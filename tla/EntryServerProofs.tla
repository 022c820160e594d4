------------------------- MODULE EntryServerProofs --------------------------
(***************************************************************************)
(* Every answer of the entry server goes to the connection its request     *)
(* came from and is about the round and the protocol the request was made  *)
(* for, and no request is lost or handled twice, with any number of        *)
(* connections and requests.                                               *)
(***************************************************************************)
EXTENDS EntryServer, FiniteSetTheorems, TLAPS

\* A request that has been read, with its protocol, or a bad message.
ReadRequest == [conn : Conn, svc : Protocol \cup {"none"}, round : Round]

Entry == [conn : Conn, onion : Req]

Sent == [to : Conn, type : MsgType, round : Nat, about : Req]

\* What a message about a request of protocol svc may be.
AnswerTypes(svc) ==
  IF svc = "none" THEN {"BadRequestError"} ELSE {AnswerType(svc), ErrorType(svc)}

\* The types of what the proof is about.
EntryTypes ==
  /\ read \in [Req -> {Unread} \cup ReadRequest]
  /\ handlers \subseteq Req
  /\ round \in [Protocol -> Nat]
  /\ requests \in [Protocol -> Seq(Entry)]
  /\ running \subseteq [svc : Protocol, round : Nat, reqs : Seq(Entry)]
  /\ outgoing \subseteq Sent
  /\ log \in [Req -> Seq(Sent)]

\* An entry of a list of requests for round r of svc.
EntryFor(e, svc, r) ==
  /\ read[e.onion] \in ReadRequest
  /\ read[e.onion].conn = e.conn
  /\ read[e.onion].svc = svc
  /\ read[e.onion].round = r

\* A message answers its request.
Right(m) ==
  /\ read[m.about] \in ReadRequest
  /\ m.to = read[m.about].conn
  /\ m.round = read[m.about].round
  /\ m.type \in AnswerTypes(read[m.about].svc)

HandlersRight == \A q \in handlers : read[q] \in ReadRequest /\ read[q].svc \in Protocol

ListsRight ==
  \A svc \in Protocol : \A i \in DOMAIN requests[svc] :
    EntryFor(requests[svc][i], svc, round[svc])

RunsRight ==
  \A run \in running : \A i \in DOMAIN run.reqs : EntryFor(run.reqs[i], run.svc, run.round)

SendsRight == \A m \in outgoing : Right(m)

LogRight ==
  \A q \in Req : \A i \in DOMAIN log[q] : Right(log[q][i]) /\ log[q][i].about = q

(***************************************************************************)
(* The inductive invariant follows a request through the server: its       *)
(* handler, the list of the current round, a running round, a Send and the *)
(* log.  The list and the round number change together in EndRound, which  *)
(* is why an entry of the list is always for the current round.            *)
(***************************************************************************)
EntryInv ==
  EntryTypes /\ HandlersRight /\ ListsRight /\ RunsRight /\ SendsRight /\ LogRight

\* The mark of a request that has not been read is not a request.
LEMMA UnreadIsNot == Unread \notin ReadRequest
<1> SUFFICES ASSUME Unread \in ReadRequest PROVE FALSE
  OBVIOUS
<1>1. \A f \in ReadRequest : "svc" \in DOMAIN f
  BY DEF ReadRequest
<1>2. "svc" \in DOMAIN Unread
  BY <1>1
<1> QED BY <1>2 DEF Unread

\* The types of the answers exist.
LEMMA TypesExist ==
  ASSUME NEW svc \in Protocol
  PROVE  /\ AnswerType(svc) \in MsgType /\ ErrorType(svc) \in MsgType
         /\ AnswerType(svc) \in AnswerTypes(svc) /\ ErrorType(svc) \in AnswerTypes(svc)
BY EntryAssumption DEF EntryAssumption, AnswerType, ErrorType, AnswerTypes, MsgType

\* What is known of requests that were read stays true when another is read.
LEMMA ReadKeeps ==
  ASSUME EntryInv, NEW q \in Req, NEW new \in ReadRequest,
         read[q] = Unread, read' = [read EXCEPT ![q] = new],
         UNCHANGED <<round, requests, running, log>>
  PROVE  /\ read' \in [Req -> {Unread} \cup ReadRequest]
         /\ \A h \in handlers : read'[h] \in ReadRequest /\ read'[h].svc \in Protocol
         /\ ListsRight' /\ RunsRight' /\ LogRight'
         /\ \A m \in outgoing : Right(m)'
<1>1. EntryTypes
  BY DEF EntryInv
<1>2. \A p \in Req : read[p] \in ReadRequest => read'[p] = read[p]
  BY <1>1, UnreadIsNot DEF EntryTypes
<1>3. read' \in [Req -> {Unread} \cup ReadRequest]
  BY <1>1 DEF EntryTypes
<1>4. \A h \in handlers : read'[h] \in ReadRequest /\ read'[h].svc \in Protocol
  BY <1>1, <1>2 DEF EntryInv, EntryTypes, HandlersRight
<1>5. ASSUME NEW svc \in Protocol, NEW i \in DOMAIN requests'[svc]
      PROVE  EntryFor(requests[svc][i], svc, round[svc])'
  <2>1. requests[svc] \in Seq(Entry) /\ i \in DOMAIN requests[svc]
    BY <1>1 DEF EntryTypes
  <2>2. requests[svc][i] \in Entry
    BY <2>1
  <2>3. requests[svc][i].onion \in Req
    BY <2>2 DEF Entry
  <2> QED BY <1>2, <2>1, <2>3 DEF EntryInv, ListsRight, EntryFor
<1>6. ASSUME NEW run \in running', NEW i \in DOMAIN run.reqs
      PROVE  EntryFor(run.reqs[i], run.svc, run.round)'
  <2>1. run \in running /\ run.reqs \in Seq(Entry)
    BY <1>1 DEF EntryTypes
  <2>2. run.reqs[i] \in Entry
    BY <2>1
  <2>3. run.reqs[i].onion \in Req
    BY <2>2 DEF Entry
  <2> QED BY <1>2, <2>1, <2>3 DEF EntryInv, RunsRight, EntryFor
<1>7. ASSUME NEW m \in outgoing PROVE Right(m)'
  <2>1. m.about \in Req
    BY <1>1 DEF EntryTypes, Sent
  <2> QED BY <1>2, <2>1 DEF EntryInv, SendsRight, Right
<1>8. ASSUME NEW p \in Req, NEW i \in DOMAIN log'[p]
      PROVE  Right(log[p][i])' /\ log'[p][i].about = p
  BY <1>2 DEF EntryInv, LogRight, Right
<1> QED BY <1>3, <1>4, <1>5, <1>6, <1>7, <1>8 DEF ListsRight, RunsRight, LogRight

\* What is known of requests is kept by a step that reads none and leaves the
\* place in question alone or makes it smaller.
LEMMA Kept ==
  ASSUME EntryInv, UNCHANGED read
  PROVE  /\ handlers' \subseteq handlers => HandlersRight'
         /\ UNCHANGED <<round, requests>> => ListsRight'
         /\ running' \subseteq running => RunsRight'
         /\ outgoing' \subseteq outgoing => SendsRight'
         /\ UNCHANGED log => LogRight'
<1>1. ASSUME handlers' \subseteq handlers PROVE HandlersRight'
  BY <1>1 DEF EntryInv, HandlersRight
<1>2. ASSUME UNCHANGED <<round, requests>> PROVE ListsRight'
  BY <1>2 DEF EntryInv, ListsRight, EntryFor
<1>3. ASSUME running' \subseteq running PROVE RunsRight'
  BY <1>3 DEF EntryInv, RunsRight, EntryFor
<1>4. ASSUME outgoing' \subseteq outgoing PROVE SendsRight'
  BY <1>4 DEF EntryInv, SendsRight, Right
<1>5. ASSUME UNCHANGED log PROVE LogRight'
  BY <1>5 DEF EntryInv, LogRight, Right
<1> QED BY <1>1, <1>2, <1>3, <1>4, <1>5

\* The invariant holds at the start.
LEMMA InitEntry == Init => EntryInv
<1> SUFFICES ASSUME Init PROVE EntryInv
  OBVIOUS
<1>1. <<>> \in Seq(Entry) /\ <<>> \in Seq(Sent) /\ DOMAIN <<>> = {}
  OBVIOUS
<1>2. EntryTypes
  BY <1>1 DEF Init, EntryTypes
<1> QED
  BY <1>1, <1>2 DEF Init, EntryInv, HandlersRight, ListsRight, RunsRight, SendsRight, LogRight

\* The answers that a running round sends are right.
LEMMA AnswersOf ==
  ASSUME EntryInv, NEW run \in running, NEW type \in MsgType,
         type \in AnswerTypes(run.svc)
  PROVE  /\ Answers(run, type) \subseteq Sent
         /\ \A m \in Answers(run, type) : Right(m)
<1> SUFFICES ASSUME NEW m \in Answers(run, type) PROVE m \in Sent /\ Right(m)
  OBVIOUS
<1>1. PICK i \in DOMAIN run.reqs :
        m = [to |-> run.reqs[i].conn, type |-> type, round |-> run.round,
             about |-> run.reqs[i].onion]
  BY DEF Answers
<1>2. run.reqs \in Seq(Entry) /\ run.round \in Nat
  BY DEF EntryInv, EntryTypes
<1>3. run.reqs[i] \in Entry
  BY <1>2
<1>4. run.reqs[i].conn \in Conn /\ run.reqs[i].onion \in Req
  BY <1>3 DEF Entry
<1>5. m \in Sent
  BY <1>1, <1>2, <1>4 DEF Sent
<1>6. EntryFor(run.reqs[i], run.svc, run.round)
  BY DEF EntryInv, RunsRight
<1>7. m.to = run.reqs[i].conn /\ m.type = type /\ m.round = run.round
      /\ m.about = run.reqs[i].onion
  BY <1>1
<1>8. Right(m)
  BY <1>6, <1>7 DEF EntryFor, Right
<1> QED BY <1>5, <1>8

\* A step of the mix servers, or a call to them that hangs.
MixStep ==
  \/ Leak \/ Disconnect
  \/ \E svc \in Protocol : HangNewRound(svc)
  \/ \E run \in running : HangRun(run)

\* Such a step moves no request.
LEMMA MixMovesNone ==
  MixStep => UNCHANGED <<conn, read, handlers, round, requests, running, outgoing, log>>
BY DEF MixStep, Leak, Disconnect, HangNewRound, HangRun

\* Only running rounds end.
LEMMA EndsRunning ==
  ASSUME NEW run, RoundOK(run) \/ RoundFails(run)
  PROVE  run \in running
BY DEF RoundOK, RoundFails

\* Every step keeps the invariant.
LEMMA NextEntry == EntryInv /\ [Next]_vars => EntryInv'
<1> SUFFICES ASSUME EntryInv, [Next]_vars PROVE EntryInv'
  OBVIOUS
<1>t. EntryTypes
  BY DEF EntryInv
<1>1. CASE UNCHANGED <<read, handlers, round, requests, running, outgoing, log>>
  BY <1>1, <1>t, Kept DEF EntryInv, EntryTypes
<1>2. ASSUME NEW c \in Conn, Register(c) \/ Break(c) \/ ReadFails(c) PROVE EntryInv'
  BY <1>1, <1>2 DEF Register, Break, ReadFails
<1>3. ASSUME NEW c \in Conn, NEW q \in Req, NEW svc \in Protocol, NEW r \in Round, Read(c, q, svc, r)
      PROVE  EntryInv'
  <2> DEFINE new == [conn |-> c, svc |-> svc, round |-> r]
  <2>1. new \in ReadRequest /\ new.svc = svc
    BY DEF ReadRequest
  <2>2. /\ read[q] = Unread /\ read' = [read EXCEPT ![q] = new]
        /\ handlers' = handlers \cup {q}
        /\ UNCHANGED <<round, requests, running, outgoing, log>>
    BY <1>3 DEF Read
  <2>3. read'[q] = new
    BY <1>t, <2>2 DEF EntryTypes
  <2> HIDE DEF new
  <2>4. EntryTypes'
    BY <1>t, <2>1, <2>2, ReadKeeps DEF EntryTypes
  <2>5. HandlersRight'
    BY <2>1, <2>2, <2>3, ReadKeeps, Zenon DEF HandlersRight
  <2> QED BY <2>1, <2>2, <2>4, <2>5, ReadKeeps, Zenon DEF EntryInv, SendsRight
<1>4. ASSUME NEW c \in Conn, NEW q \in Req, ReadBad(c, q) PROVE EntryInv'
  <2> DEFINE new == [conn |-> c, svc |-> "none", round |-> 0]
             m   == [to |-> c, type |-> "BadRequestError", round |-> 0, about |-> q]
  <2>1. new \in ReadRequest /\ m \in Sent
    BY EntryAssumption DEF ReadRequest, Sent, MsgType, Round, EntryAssumption
  <2>2. /\ read[q] = Unread /\ read' = [read EXCEPT ![q] = new]
        /\ outgoing' = outgoing \cup {m}
        /\ UNCHANGED <<handlers, round, requests, running, log>>
    BY <1>4 DEF ReadBad
  <2>3. read'[q] = new
    BY <1>t, <2>2 DEF EntryTypes
  <2>4. Right(m)'
    <3>1. m.about = q /\ m.to = c /\ m.round = 0 /\ m.type = "BadRequestError"
          /\ new.conn = c /\ new.round = 0 /\ new.svc = "none"
      OBVIOUS
    <3> HIDE DEF new, m
    <3> QED BY <2>1, <2>3, <3>1 DEF Right, AnswerTypes
  <2> HIDE DEF new, m
  <2>5. EntryTypes'
    BY <1>t, <2>1, <2>2, ReadKeeps DEF EntryTypes
  <2>6. SendsRight'
    BY <2>1, <2>2, <2>4, ReadKeeps, Zenon DEF SendsRight
  <2> QED BY <2>1, <2>2, <2>5, <2>6, ReadKeeps, Zenon DEF EntryInv, HandlersRight
<1>5. ASSUME NEW q \in Req, Handle(q) PROVE EntryInv'
  <2> DEFINE svc == read[q].svc
             m   == [to |-> read[q].conn, type |-> ErrorType(svc),
                     round |-> read[q].round, about |-> q]
             e   == [conn |-> read[q].conn, onion |-> q]
  <2>1. /\ q \in handlers /\ read[q] \in ReadRequest /\ svc \in Protocol
        /\ handlers' = handlers \ {q}
        /\ UNCHANGED <<read, round, running, log>>
    BY <1>5 DEF Handle, EntryInv, HandlersRight
  <2>2. read[q].conn \in Conn /\ read[q].round \in Round /\ read[q].round \in Nat
    BY <2>1, EntryAssumption DEF ReadRequest, Round, EntryAssumption
  <2>3. CASE WrongRound(q)
    <3>1. outgoing' = outgoing \cup {m} /\ UNCHANGED requests
      BY <1>5, <2>3 DEF Handle
    <3>2. m \in Sent
      BY <2>1, <2>2, TypesExist DEF Sent
    <3>3. Right(m)
      <4>1. m.about = q /\ m.to = read[q].conn /\ m.round = read[q].round
            /\ m.type = ErrorType(svc)
        OBVIOUS
      <4> HIDE DEF m
      <4> QED BY <2>1, <4>1, TypesExist DEF Right
    <3> HIDE DEF m
    <3>4. EntryTypes'
      BY <1>t, <2>1, <3>1, <3>2 DEF EntryTypes
    <3>5. SendsRight'
      BY <2>1, <3>1, <3>3 DEF EntryInv, SendsRight, Right
    <3> QED BY <2>1, <3>1, <3>4, <3>5, Kept DEF EntryInv
  <2>4. CASE ~WrongRound(q)
    <3>1. requests' = [requests EXCEPT ![svc] = Append(@, e)] /\ UNCHANGED outgoing
      BY <1>5, <2>4 DEF Handle
    <3>2. e \in Entry /\ e.conn = read[q].conn /\ e.onion = q
      BY <2>2 DEF Entry
    <3>3. EntryFor(e, svc, round[svc])
      BY <2>1, <2>4, <3>2 DEF EntryFor, WrongRound
    <3> HIDE DEF e
    <3>4. EntryTypes'
      BY <1>t, <2>1, <3>1, <3>2 DEF EntryTypes
    <3>5. ASSUME NEW v \in Protocol, NEW i \in DOMAIN requests'[v]
          PROVE  EntryFor(requests[v][i], v, round[v])'
      <4>1. requests[v] \in Seq(Entry)
        BY <1>t DEF EntryTypes
      <4>2. CASE v = svc
        <5>1. requests'[v] = Append(requests[v], e)
          BY <1>t, <2>1, <3>1, <4>2 DEF EntryTypes
        <5>2. CASE i \in DOMAIN requests[v]
          <6>1. requests'[v][i] = requests[v][i]
            BY <4>1, <5>1, <5>2
          <6>2. EntryFor(requests[v][i], v, round[v])
            BY <5>2 DEF EntryInv, ListsRight
          <6> QED BY <2>1, <6>1, <6>2 DEF EntryFor
        <5>3. CASE i \notin DOMAIN requests[v]
          <6>1. requests'[v][i] = e
            BY <3>2, <4>1, <5>1, <5>3
          <6> QED BY <2>1, <3>3, <4>2, <6>1 DEF EntryFor
        <5> QED BY <5>2, <5>3
      <4>3. CASE v # svc
        <5>1. requests'[v] = requests[v]
          BY <1>t, <3>1, <4>3 DEF EntryTypes
        <5>2. EntryFor(requests[v][i], v, round[v])
          BY <5>1 DEF EntryInv, ListsRight
        <5> QED BY <2>1, <5>1, <5>2 DEF EntryFor
      <4> QED BY <4>2, <4>3
    <3>6. ListsRight'
      BY <3>5 DEF ListsRight
    <3> QED BY <2>1, <3>1, <3>4, <3>6, Kept DEF EntryInv
  <2> QED BY <2>3, <2>4
<1>6. ASSUME NEW svc \in Protocol, NewRound(svc) \/ (\E c \in Conn : Announce(svc, c))
      PROVE  EntryInv'
  BY <1>1, <1>6 DEF NewRound, Announce
<1>7. ASSUME NEW svc \in Protocol, EndRound(svc) PROVE EntryInv'
  <2> DEFINE new == [svc |-> svc, round |-> round[svc], reqs |-> requests[svc]]
  <2>1. /\ running' = running \cup {new}
        /\ round' = [round EXCEPT ![svc] = @ + 1]
        /\ requests' = [requests EXCEPT ![svc] = <<>>]
        /\ UNCHANGED <<read, handlers, outgoing, log>>
    BY <1>7 DEF EndRound
  <2>2. new \in [svc : Protocol, round : Nat, reqs : Seq(Entry)]
    BY <1>t DEF EntryTypes
  <2>3. \A i \in DOMAIN new.reqs : EntryFor(new.reqs[i], new.svc, new.round)
    BY DEF EntryInv, ListsRight
  <2> HIDE DEF new
  <2>4. EntryTypes'
    <3>1. round' \in [Protocol -> Nat]
      BY <1>t, <2>1 DEF EntryTypes
    <3>2. requests' \in [Protocol -> Seq(Entry)]
      <4>1. <<>> \in Seq(Entry)
        OBVIOUS
      <4> QED BY <1>t, <2>1, <4>1 DEF EntryTypes
    <3>3. running' \subseteq [svc : Protocol, round : Nat, reqs : Seq(Entry)]
      BY <1>t, <2>1, <2>2 DEF EntryTypes
    <3> QED BY <1>t, <2>1, <3>1, <3>2, <3>3 DEF EntryTypes
  <2>5. ASSUME NEW v \in Protocol, NEW i \in DOMAIN requests'[v]
        PROVE  EntryFor(requests[v][i], v, round[v])'
    <3>1. v # svc
      BY <1>t, <2>1 DEF EntryTypes
    <3>2. requests'[v] = requests[v] /\ round'[v] = round[v]
      BY <1>t, <2>1, <3>1 DEF EntryTypes
    <3>3. EntryFor(requests[v][i], v, round[v])
      BY <3>2 DEF EntryInv, ListsRight
    <3> QED BY <2>1, <3>2, <3>3 DEF EntryFor
  <2>6. RunsRight'
    <3>1. \A run \in running' : \A i \in DOMAIN run.reqs :
            EntryFor(run.reqs[i], run.svc, run.round)
      BY <2>1, <2>3 DEF EntryInv, RunsRight
    <3> QED BY <2>1, <3>1 DEF RunsRight, EntryFor
  <2>7. ListsRight'
    BY <2>5 DEF ListsRight
  <2> QED BY <2>1, <2>4, <2>6, <2>7, Kept DEF EntryInv
<1>8. ASSUME NEW run \in running, RoundOK(run) \/ RoundFails(run) PROVE EntryInv'
  <2>1. run.svc \in Protocol
    BY <1>t DEF EntryTypes
  <2>2. PICK type \in {AnswerType(run.svc), ErrorType(run.svc)} :
          outgoing' = outgoing \cup Answers(run, type)
    BY <1>8 DEF RoundOK, RoundFails
  <2>3. running' = running \ {run} /\ UNCHANGED <<read, handlers, round, requests, log>>
    BY <1>8 DEF RoundOK, RoundFails
  <2>4. type \in MsgType /\ type \in AnswerTypes(run.svc)
    BY <2>1, TypesExist
  <2>5. Answers(run, type) \subseteq Sent /\ \A m \in Answers(run, type) : Right(m)
    BY <2>4, AnswersOf
  <2>6. EntryTypes'
    BY <1>t, <2>2, <2>3, <2>5 DEF EntryTypes
  <2>7. SendsRight'
    BY <2>2, <2>3, <2>5 DEF EntryInv, SendsRight, Right
  <2> QED BY <2>3, <2>6, <2>7, Kept DEF EntryInv
<1>9. ASSUME NEW m \in outgoing, Send(m) PROVE EntryInv'
  <2>1. outgoing' = outgoing \ {m} /\ UNCHANGED <<read, handlers, round, requests, running>>
    BY <1>9 DEF Send
  <2>2. m \in Sent /\ m.about \in Req /\ Right(m)
    BY <1>t DEF EntryInv, SendsRight, EntryTypes, Sent
  <2>3. /\ \A q \in Req : q # m.about => log'[q] = log[q]
        /\ log'[m.about] \in {log[m.about], Append(log[m.about], m)}
        /\ log' \in [Req -> Seq(Sent)]
    BY <1>9, <1>t, <2>2 DEF Send, EntryTypes
  <2>4. EntryTypes'
    BY <1>t, <2>1, <2>3 DEF EntryTypes
  <2>5. ASSUME NEW q \in Req, NEW i \in DOMAIN log'[q]
        PROVE  Right(log[q][i])' /\ log'[q][i].about = q
    <3>1. CASE log'[q] = log[q]
      <4>1. Right(log[q][i]) /\ log[q][i].about = q
        BY <3>1 DEF EntryInv, LogRight
      <4> QED BY <2>1, <3>1, <4>1 DEF Right
    <3>2. CASE q = m.about /\ log'[q] = Append(log[q], m)
      <4>1. log[q] \in Seq(Sent)
        BY <1>t DEF EntryTypes
      <4>2. CASE i \in DOMAIN log[q]
        <5>1. log'[q][i] = log[q][i]
          BY <2>2, <3>2, <4>1, <4>2
        <5>2. Right(log[q][i]) /\ log[q][i].about = q
          BY <4>2 DEF EntryInv, LogRight
        <5> QED BY <2>1, <5>1, <5>2 DEF Right
      <4>3. CASE i \notin DOMAIN log[q]
        <5>1. log'[q][i] = m
          BY <2>2, <3>2, <4>1, <4>3
        <5> QED BY <2>1, <2>2, <3>2, <5>1 DEF Right
      <4> QED BY <4>2, <4>3
    <3> QED BY <2>3, <3>1, <3>2
  <2>6. LogRight'
    BY <2>5 DEF LogRight
  <2> QED BY <2>1, <2>4, <2>6, Kept DEF EntryInv
<1>10. CASE UNCHANGED vars \/ MixStep
  BY <1>1, <1>10, MixMovesNone DEF vars
<1> QED
  BY <1>2, <1>3, <1>4, <1>5, <1>6, <1>7, <1>8, <1>9, <1>10, EndsRunning
     DEF Next, ConnStep, LoopStep, Handlers, Runs, Sends, Environment, MixStep

\* Every answer goes to the connection its request came from and names the
\* round and the protocol that the request was made for, however handlers,
\* the round loops, running rounds and broken connections interleave.
THEOREM AnsweredRight == Spec => []AnswersRight
<1>1. EntryInv => AnswersRight
  <2> SUFFICES ASSUME EntryInv, NEW q \in Req, NEW m \in Range(log[q])
               PROVE  /\ m.to = read[q].conn
                      /\ m.round = read[q].round
                      /\ m.type \in IF read[q].svc = "none" THEN {"BadRequestError"}
                                    ELSE {AnswerType(read[q].svc), ErrorType(read[q].svc)}
    BY Zenon DEF AnswersRight
  <2>1. PICK i \in DOMAIN log[q] : m = log[q][i]
    BY DEF Range
  <2>2. Right(m) /\ m.about = q
    BY <2>1 DEF EntryInv, LogRight
  <2> QED BY <2>2 DEF Right, AnswerTypes
<1> QED BY <1>1, InitEntry, NextEntry, PTL DEF Spec

(***************************************************************************)
(* Accounted.  To the invariant above it adds the state of the connections *)
(* and, for each request, what Accounted says of the set of its places.    *)
(* Every step leaves a request's place alone, exchanges it for one other,  *)
(* or gives it up together with the connection; it never adds a second.    *)
(***************************************************************************)
ConnType == conn \in [Conn -> {"absent", "open", "broken", "gone"}]

\* A request has been read from a connection that was registered.
Connected == \A q \in Req : read[q] # Unread => conn[read[q].conn] # "absent"

\* What Accounted says of one request, with the places it rests on: there is
\* at most one, none for a request that was not read, and one as long as the
\* connection is open.
AccountedFor(q) ==
  /\ \A x, y \in Places(q) : x = y
  /\ read[q] = Unread => Places(q) = {}
  /\ read[q] # Unread /\ conn[read[q].conn] = "open" => Places(q) # {}

AccountInv ==
  /\ EntryInv /\ ConnType /\ Connected
  /\ \A q \in Req : AccountedFor(q)

\* What it means to be one of the places of q, one kind at a time.
PlaceOf(q, y) ==
  \/ q \in handlers /\ y = <<"handler", q, 0>>
  \/ \E svc \in Protocol : \E i \in DOMAIN requests[svc] :
       requests[svc][i].onion = q /\ y = <<"list", svc, i>>
  \/ \E run \in running : \E i \in DOMAIN run.reqs :
       run.reqs[i].onion = q /\ y = <<"run", run, i>>
  \/ \E m \in outgoing : m.about = q /\ y = <<"send", m, 0>>
  \/ \E i \in DOMAIN log[q] : y = <<"log", q, i>>

LEMMA PlaceIs ==
  ASSUME NEW q \in Req, NEW y
  PROVE  y \in Places(q) <=> PlaceOf(q, y)
<1>1. y \in {<<"handler", h, 0>> : h \in handlers \cap {q}}
      <=> q \in handlers /\ y = <<"handler", q, 0>>
  OBVIOUS
<1>2. y \in (UNION {{<<"list", svc, i>> : i \in Spots(q, requests[svc])} : svc \in Protocol})
      <=> \E svc \in Protocol : \E i \in DOMAIN requests[svc] :
            requests[svc][i].onion = q /\ y = <<"list", svc, i>>
  BY DEF Spots
<1>3. y \in (UNION {{<<"run", run, i>> : i \in Spots(q, run.reqs)} : run \in running})
      <=> \E run \in running : \E i \in DOMAIN run.reqs :
            run.reqs[i].onion = q /\ y = <<"run", run, i>>
  BY DEF Spots
<1>4. y \in {<<"send", m, 0>> : m \in {o \in outgoing : o.about = q}}
      <=> \E m \in outgoing : m.about = q /\ y = <<"send", m, 0>>
  OBVIOUS
<1>5. y \in {<<"log", q, i>> : i \in DOMAIN log[q]}
      <=> \E i \in DOMAIN log[q] : y = <<"log", q, i>>
  OBVIOUS
<1> QED BY <1>1, <1>2, <1>3, <1>4, <1>5, Zenon DEF Places, PlaceOf

\* The same in the next state.
LEMMA PlaceIsNext ==
  ASSUME NEW q \in Req, NEW y
  PROVE  y \in Places(q)' <=> PlaceOf(q, y)'
<1>1. y \in {<<"handler", h, 0>> : h \in handlers' \cap {q}}
      <=> q \in handlers' /\ y = <<"handler", q, 0>>
  OBVIOUS
<1>2. y \in (UNION {{<<"list", svc, i>> : i \in Spots(q, requests'[svc])} : svc \in Protocol})
      <=> \E svc \in Protocol : \E i \in DOMAIN requests'[svc] :
            requests'[svc][i].onion = q /\ y = <<"list", svc, i>>
  BY DEF Spots
<1>3. y \in (UNION {{<<"run", run, i>> : i \in Spots(q, run.reqs)} : run \in running'})
      <=> \E run \in running' : \E i \in DOMAIN run.reqs :
            run.reqs[i].onion = q /\ y = <<"run", run, i>>
  BY DEF Spots
<1>4. y \in {<<"send", m, 0>> : m \in {o \in outgoing' : o.about = q}}
      <=> \E m \in outgoing' : m.about = q /\ y = <<"send", m, 0>>
  OBVIOUS
<1>5. y \in {<<"log", q, i>> : i \in DOMAIN log'[q]}
      <=> \E i \in DOMAIN log'[q] : y = <<"log", q, i>>
  BY SMTT(30)
<1> QED BY <1>1, <1>2, <1>3, <1>4, <1>5, Zenon DEF Places, PlaceOf

\* A connection is never absent again, and opens only once.
LEMMA ConnMoves ==
  ASSUME ConnType, EntryTypes, [Next]_vars
  PROVE  /\ ConnType'
         /\ \A c \in Conn : /\ conn'[c] = "absent" => conn[c] = "absent"
                            /\ conn'[c] = "open" => conn[c] \in {"absent", "open"}
<1>1. CASE UNCHANGED conn
  BY <1>1 DEF ConnType
<1>2. ASSUME NEW c \in Conn, Register(c) \/ Break(c) \/ ReadFails(c)
             \/ \E svc \in Protocol : Announce(svc, c)
      PROVE  /\ ConnType'
             /\ \A d \in Conn : /\ conn'[d] = "absent" => conn[d] = "absent"
                                /\ conn'[d] = "open" => conn[d] \in {"absent", "open"}
  BY <1>2 DEF ConnType, Register, Break, ReadFails, Announce
<1>3. ASSUME NEW m \in outgoing, Send(m)
      PROVE  /\ ConnType'
             /\ \A d \in Conn : /\ conn'[d] = "absent" => conn[d] = "absent"
                                /\ conn'[d] = "open" => conn[d] \in {"absent", "open"}
  <2>1. m.to \in Conn
    BY DEF EntryTypes, Sent
  <2> QED BY <1>3, <2>1 DEF ConnType, Send
<1> QED
  BY <1>1, <1>2, <1>3, MixMovesNone, ZenonT(30)
     DEF Next, ConnStep, LoopStep, Handlers, Runs, Sends, Environment, vars, Read, ReadBad,
         Handle, NewRound, EndRound, RoundOK, RoundFails, MixStep

\* A request that has been read before stays accounted for when its place is
\* kept or exchanged for one other place, or given up with its connection.
LEMMA Carried ==
  ASSUME AccountInv, [Next]_vars, NEW q \in Req, read'[q] = read[q],
         Places(q)' # {} => Places(q) # {},
         \A x, y \in Places(q)' : x = y,
         read[q] # Unread /\ conn'[read[q].conn] = "open" /\ Places(q) # {} => Places(q)' # {}
  PROVE  AccountedFor(q)'
<1>1. AccountedFor(q) /\ EntryTypes
  BY DEF AccountInv, EntryInv
<1>2. read[q] # Unread => read[q].conn \in Conn
  BY <1>1 DEF EntryTypes, ReadRequest
<1>3. read[q] # Unread /\ conn'[read[q].conn] = "open" => conn[read[q].conn] = "open"
  BY <1>1, <1>2, ConnMoves DEF AccountInv, Connected
<1> QED BY <1>1, <1>3 DEF AccountedFor

\* A step that leaves the places of a request alone.
LEMMA NotMoved ==
  ASSUME AccountInv, [Next]_vars, NEW q \in Req, read'[q] = read[q],
         \A y : PlaceOf(q, y)' <=> PlaceOf(q, y)
  PROVE  AccountedFor(q)'
<1>0. \A y : y \in Places(q)' <=> y \in Places(q)
  BY PlaceIs, PlaceIsNext
<1>1. Places(q)' = Places(q)
  BY <1>0, Zenon
<1>2. \A x, y \in Places(q)' : x = y
  BY <1>1 DEF AccountInv, AccountedFor
<1> QED BY <1>1, <1>2, Carried

\* Connected is kept: a request is read from a connection that is open.
LEMMA ConnectedKept ==
  ASSUME AccountInv, [Next]_vars
  PROVE  Connected'
<1>1. EntryTypes /\ Connected /\ ConnType
  BY DEF AccountInv, EntryInv
<1>2. SUFFICES ASSUME NEW q \in Req, read'[q] # Unread PROVE conn'[read'[q].conn] # "absent"
  BY DEF Connected
<1>3. CASE read'[q] = read[q]
  <2>1. read[q].conn \in Conn /\ conn[read[q].conn] # "absent"
    BY <1>1, <1>2, <1>3 DEF EntryTypes, ReadRequest, Connected
  <2> QED BY <1>1, <1>3, <2>1, ConnMoves
<1>4. ASSUME NEW c \in Conn, NEW p \in Req, NEW svc \in Protocol, NEW r \in Round, Read(c, p, svc, r)
      PROVE  conn'[read'[q].conn] # "absent"
  BY <1>1, <1>3, <1>4 DEF Read, EntryTypes
<1>5. ASSUME NEW c \in Conn, NEW p \in Req, ReadBad(c, p)
      PROVE  conn'[read'[q].conn] # "absent"
  BY <1>1, <1>3, <1>5 DEF ReadBad, EntryTypes
<1>6. CASE UNCHANGED read
  BY <1>3, <1>6, SMTT(30)
<1> QED
  BY <1>4, <1>5, <1>6, MixMovesNone, ZenonT(30)
     DEF Next, ConnStep, LoopStep, Handlers, Runs, Sends, Environment, vars, Register, Break,
         ReadFails, Handle, NewRound, Announce, EndRound, RoundOK, RoundFails, Send, MixStep

\* A step that exchanges the place of a request, x, for another one, z, or
\* for none if that takes the connection away.
LEMMA Exchanged ==
  ASSUME AccountInv, [Next]_vars, NEW q \in Req, read'[q] = read[q], NEW x, NEW z,
         PlaceOf(q, x), ~PlaceOf(q, x)',
         \A y : PlaceOf(q, y)' => PlaceOf(q, y) \/ y = z,
         PlaceOf(q, z)' \/ (read[q] # Unread => conn'[read[q].conn] # "open")
  PROVE  AccountedFor(q)'
<1>1. x \in Places(q) /\ \A y \in Places(q) : y = x
  BY PlaceIs DEF AccountInv, AccountedFor
<1>2. ASSUME NEW y \in Places(q)' PROVE y = z
  <2>1. PlaceOf(q, y)' /\ y # x
    BY PlaceIsNext
  <2>2. ~PlaceOf(q, y)
    BY <1>1, <2>1, PlaceIs
  <2> QED BY <2>1, <2>2
<1>3. Places(q)' # {} \/ (read[q] # Unread => conn'[read[q].conn] # "open")
  BY PlaceIsNext
<1> QED BY <1>1, <1>2, <1>3, Carried, ZenonT(30)

\* readLoop with a request that parses.
LEMMA ReadAccounted ==
  ASSUME AccountInv, [Next]_vars, NEW c \in Conn, NEW q \in Req, NEW svc \in Protocol,
         NEW r \in Round, Read(c, q, svc, r), NEW p \in Req
  PROVE  AccountedFor(p)'
<1>1. /\ read[q] = Unread /\ handlers' = handlers \cup {q}
      /\ read' = [read EXCEPT ![q] = [conn |-> c, svc |-> svc, round |-> r]]
      /\ UNCHANGED <<requests, running, outgoing, log>>
  BY SMTT(30) DEF Read
<1>2. CASE p # q
  <2>1. read'[p] = read[p]
    BY <1>1, <1>2, SMTT(30) DEF AccountInv, EntryInv, EntryTypes
  <2>2. \A y : PlaceOf(p, y)' <=> PlaceOf(p, y)
    BY <1>1, <1>2 DEF PlaceOf
  <2> QED BY <2>1, <2>2, NotMoved
<1>3. CASE p = q
  <2>1. \A y : ~PlaceOf(q, y)
    BY <1>1, PlaceIs, SMTT(30) DEF AccountInv, AccountedFor
  <2>2. \A y : PlaceOf(q, y)' <=> PlaceOf(q, y) \/ y = <<"handler", q, 0>>
    BY <1>1 DEF PlaceOf
  <2>3. Places(q)' = {<<"handler", q, 0>>}
    BY <2>1, <2>2, PlaceIsNext
  <2>4. read'[q] \in ReadRequest
    BY <1>1 DEF AccountInv, EntryInv, EntryTypes, ReadRequest
  <2>5. read'[q] # Unread
    BY <2>4, UnreadIsNot
  <2> QED BY <1>3, <2>3, <2>5 DEF AccountedFor
<1> QED BY <1>2, <1>3

\* readLoop with a message that does not parse.
LEMMA ReadBadAccounted ==
  ASSUME AccountInv, [Next]_vars, NEW c \in Conn, NEW q \in Req, ReadBad(c, q), NEW p \in Req
  PROVE  AccountedFor(p)'
<1> DEFINE m == [to |-> c, type |-> "BadRequestError", round |-> 0, about |-> q]
<1>1. /\ read[q] = Unread /\ outgoing' = outgoing \cup {m}
      /\ read' = [read EXCEPT ![q] = [conn |-> c, svc |-> "none", round |-> 0]]
      /\ UNCHANGED <<handlers, requests, running, log>>
  BY DEF ReadBad
<1>2. m.about = q
  OBVIOUS
<1> HIDE DEF m
<1>3. CASE p # q
  <2>1. read'[p] = read[p]
    BY <1>1, <1>3, SMTT(30) DEF AccountInv, EntryInv, EntryTypes
  <2>2. \A y : PlaceOf(p, y)' <=> PlaceOf(p, y)
    BY <1>1, <1>2, <1>3 DEF PlaceOf
  <2> QED BY <2>1, <2>2, NotMoved
<1>4. CASE p = q
  <2>1. \A y : ~PlaceOf(q, y)
    BY <1>1, PlaceIs, SMTT(30) DEF AccountInv, AccountedFor
  <2>2. \A y : PlaceOf(q, y)' <=> PlaceOf(q, y) \/ y = <<"send", m, 0>>
    BY <1>1, <1>2 DEF PlaceOf
  <2>3. Places(q)' = {<<"send", m, 0>>}
    BY <2>1, <2>2, PlaceIsNext
  <2>4. read'[q] \in ReadRequest
    BY <1>1, EntryAssumption
       DEF AccountInv, EntryInv, EntryTypes, ReadRequest, Round, EntryAssumption
  <2>5. read'[q] # Unread
    BY <2>4, UnreadIsNot
  <2> QED BY <1>4, <2>3, <2>5 DEF AccountedFor
<1> QED BY <1>3, <1>4

\* handleConvoRequest and handleDialRequest.
LEMMA HandleAccounted ==
  ASSUME AccountInv, [Next]_vars, NEW q \in Req, Handle(q), NEW p \in Req
  PROVE  AccountedFor(p)'
<1>a. PICK svc : svc = read[q].svc
  OBVIOUS
<1>b. PICK m : m = [to |-> read[q].conn, type |-> ErrorType(svc),
                    round |-> read[q].round, about |-> q]
  BY Zenon
<1>c. PICK e : e = [conn |-> read[q].conn, onion |-> q]
  BY Zenon
<1>t. EntryTypes
  BY DEF AccountInv, EntryInv
<1>1. /\ q \in handlers /\ svc \in Protocol /\ handlers' = handlers \ {q}
      /\ UNCHANGED <<read, running, log>>
  BY <1>a DEF Handle, AccountInv, EntryInv, HandlersRight
<1>2. m.about = q /\ e.onion = q
  BY <1>b, <1>c, SMTT(30)
<1>3. PlaceOf(q, <<"handler", q, 0>>) /\ ~PlaceOf(q, <<"handler", q, 0>>)'
  BY <1>1 DEF PlaceOf
<1>4. CASE WrongRound(q)
  <2>1. outgoing' = outgoing \cup {m} /\ UNCHANGED requests
    BY <1>a, <1>b, <1>4 DEF Handle
  <2>2. CASE p # q
    <3>1. \A y : PlaceOf(p, y)' <=> PlaceOf(p, y)
      BY <1>1, <1>2, <2>1, <2>2, SMTT(30) DEF PlaceOf
    <3> QED BY <1>1, <3>1, NotMoved, SMTT(30)
  <2>3. CASE p = q
    <3>1. PlaceOf(q, <<"send", m, 0>>)'
      BY <1>2, <2>1, SMTT(30) DEF PlaceOf
    <3>2. \A y : PlaceOf(q, y)' => PlaceOf(q, y) \/ y = <<"send", m, 0>>
      BY <1>1, <2>1 DEF PlaceOf
    <3> QED BY <1>1, <1>3, <2>3, <3>1, <3>2, Exchanged
  <2> QED BY <2>2, <2>3
<1>5. CASE ~WrongRound(q)
  <2>0. PICK k : k = Len(requests[svc]) + 1
    BY SMTT(30)
  <2>1. requests' = [requests EXCEPT ![svc] = Append(@, e)] /\ UNCHANGED outgoing
    BY <1>a, <1>c, <1>5 DEF Handle
  <2>2. e \in Entry
    BY <1>t, <1>a, <1>c, <1>1 DEF Entry, EntryTypes, AccountInv, EntryInv, HandlersRight, ReadRequest
  <2>3. /\ DOMAIN requests'[svc] = DOMAIN requests[svc] \cup {k}
        /\ requests'[svc][k] = e
        /\ \A i \in DOMAIN requests[svc] : requests'[svc][i] = requests[svc][i]
        /\ k \notin DOMAIN requests[svc]
    <3>1. requests[svc] \in Seq(Entry) /\ requests'[svc] = Append(requests[svc], e)
      BY <1>t, <1>1, <2>1 DEF EntryTypes
    <3> QED BY <2>0, <2>2, <3>1
  <2>4. \A v \in Protocol : v # svc => requests'[v] = requests[v]
    BY <1>t, <1>1, <2>1 DEF EntryTypes
  <2>6. ASSUME NEW y, y # <<"handler", q, 0>>
        PROVE  PlaceOf(p, y)' <=> PlaceOf(p, y) \/ (p = q /\ y = <<"list", svc, k>>)
    <3> DEFINE List == \E v \in Protocol : \E i \in DOMAIN requests[v] :
                         requests[v][i].onion = p /\ y = <<"list", v, i>>
               Hand == p \in handlers /\ y = <<"handler", p, 0>>
               Rest == \/ \E r \in running : \E i \in DOMAIN r.reqs :
                            r.reqs[i].onion = p /\ y = <<"run", r, i>>
                       \/ \E o \in outgoing : o.about = p /\ y = <<"send", o, 0>>
                       \/ \E i \in DOMAIN log[p] : y = <<"log", p, i>>
    <3>1. List' <=> List \/ (p = q /\ y = <<"list", svc, k>>)
      BY <1>1, <1>2, <2>3, <2>4
    <3>2. Hand' <=> Hand
      BY <1>1, <2>6
    <3>3. Rest' <=> Rest
      BY <1>1, <2>1
    <3>4. (PlaceOf(p, y) <=> Hand \/ List \/ Rest) /\ (PlaceOf(p, y)' <=> Hand' \/ List' \/ Rest')
      BY Zenon DEF PlaceOf
    <3> HIDE DEF List, Hand, Rest
    <3> QED BY <3>1, <3>2, <3>3, <3>4
  <2>7. CASE p # q
    <3>1. \A y : PlaceOf(p, y)' <=> PlaceOf(p, y)
      <4>1. ~PlaceOf(p, <<"handler", q, 0>>) /\ ~PlaceOf(p, <<"handler", q, 0>>)'
        BY <2>7, SMTT(30) DEF PlaceOf
      <4> QED BY <2>6, <2>7, <4>1
    <3> QED BY <1>1, <3>1, NotMoved
  <2>8. CASE p = q
    <3>1. PlaceOf(q, <<"list", svc, k>>)'
      BY <2>6, <2>8
    <3>2. \A y : PlaceOf(q, y)' => PlaceOf(q, y) \/ y = <<"list", svc, k>>
      BY <1>3, <2>6, <2>8
    <3> QED BY <1>1, <1>3, <2>8, <3>1, <3>2, Exchanged
  <2> QED BY <2>7, <2>8
<1> QED BY <1>4, <1>5

\* The end of the waiting period: the list moves into the running round.
LEMMA EndRoundAccounted ==
  ASSUME AccountInv, [Next]_vars, NEW svc \in Protocol, EndRound(svc), NEW p \in Req
  PROVE  AccountedFor(p)'
<1>0. PICK run : run = [svc |-> svc, round |-> round[svc], reqs |-> requests[svc]]
  BY ZenonT(30)
<1> DEFINE L(i) == <<"list", svc, i>>
           R(i) == <<"run", run, i>>
<1>1. /\ running' = running \cup {run} /\ run.reqs = requests[svc]
      /\ requests' = [requests EXCEPT ![svc] = <<>>]
      /\ UNCHANGED <<read, handlers, outgoing, log>>
  BY <1>0 DEF EndRound
<1>2. requests'[svc] = <<>> /\ \A v \in Protocol : v # svc => requests'[v] = requests[v]
  BY <1>1 DEF AccountInv, EntryInv, EntryTypes
<1>3. \A v \in Protocol : \A i \in DOMAIN requests'[v] :
         v # svc /\ i \in DOMAIN requests[v] /\ requests'[v][i] = requests[v][i]
  BY <1>2
<1>4. ASSUME NEW y
      PROVE  PlaceOf(p, y)' <=>
               \/ PlaceOf(p, y) /\ \A i \in DOMAIN requests[svc] : y # L(i)
               \/ \E i \in DOMAIN requests[svc] :
                    y = R(i) /\ requests[svc][i].onion = p
  <2> DEFINE List == \E v \in Protocol : \E i \in DOMAIN requests[v] :
                       requests[v][i].onion = p /\ y = <<"list", v, i>>
             Run  == \E r \in running : \E i \in DOMAIN r.reqs :
                       r.reqs[i].onion = p /\ y = <<"run", r, i>>
             Rest == \/ p \in handlers /\ y = <<"handler", p, 0>>
                     \/ \E m \in outgoing : m.about = p /\ y = <<"send", m, 0>>
                     \/ \E i \in DOMAIN log[p] : y = <<"log", p, i>>
             Stays == \A i \in DOMAIN requests[svc] : y # L(i)
             Moved == \E i \in DOMAIN requests[svc] : y = R(i) /\ requests[svc][i].onion = p
  <2>1. List' <=> List /\ Stays
    BY <1>2, <1>3
  <2>2. Run' <=> Run \/ Moved
    BY <1>1
  <2>3. Rest' <=> Rest
    BY <1>1
  <2>4. Run \/ Rest => Stays
    OBVIOUS
  <2>5. (PlaceOf(p, y) <=> List \/ Run \/ Rest) /\ (PlaceOf(p, y)' <=> List' \/ Run' \/ Rest')
    BY Zenon DEF PlaceOf
  <2>6. PlaceOf(p, y)' <=> (PlaceOf(p, y) /\ Stays) \/ Moved
    <3> HIDE DEF List, Run, Rest, Stays, Moved
    <3> QED BY <2>1, <2>2, <2>3, <2>4, <2>5
  <2> QED BY <2>6, Zenon
<1>5. ASSUME NEW i \in DOMAIN requests[svc], requests[svc][i].onion = p
      PROVE  PlaceOf(p, L(i)) /\ ~PlaceOf(p, L(i))' /\ PlaceOf(p, R(i))'
  <2>1. PlaceOf(p, L(i))
    BY <1>5 DEF PlaceOf
  <2>2. L(i) # R(i) /\ \A j : L(i) # R(j)
    BY SMTT(30)
  <2> QED BY <1>4, <1>5, <2>1, <2>2, SMTT(30)
<1>6. CASE \E i \in DOMAIN requests[svc] : requests[svc][i].onion = p
  <2>1. PICK i \in DOMAIN requests[svc] : requests[svc][i].onion = p
    BY <1>6
  <2>2. \A j \in DOMAIN requests[svc] : requests[svc][j].onion = p => j = i
    <3>1. \A j \in DOMAIN requests[svc] : requests[svc][j].onion = p => L(j) = L(i)
      <4>1. \A x, y \in Places(p) : x = y
        BY DEF AccountInv, AccountedFor
      <4> QED BY <1>5, <2>1, <4>1, PlaceIs, ZenonT(30)
    <3> QED BY <3>1
  <2>3. \A y : PlaceOf(p, y)' => PlaceOf(p, y) \/ y = R(i)
    BY <1>4, <2>2
  <2> HIDE DEF L, R
  <2> QED BY <1>1, <1>5, <2>1, <2>3, Exchanged
<1>7. CASE ~\E i \in DOMAIN requests[svc] : requests[svc][i].onion = p
  <2>1. \A i \in DOMAIN requests[svc] : ~PlaceOf(p, L(i))
    BY <1>7 DEF PlaceOf
  <2>2. \A y : PlaceOf(p, y)' <=> PlaceOf(p, y)
    BY <1>4, <1>7, <2>1
  <2> QED BY <1>1, <2>2, NotMoved
<1> QED BY <1>6, <1>7, SMTT(30)

\* A round that ends turns every request of its list into one answer.
LEMMA RoundAccounted ==
  ASSUME AccountInv, [Next]_vars, NEW run \in running, NEW type,
         running' = running \ {run}, outgoing' = outgoing \cup Answers(run, type),
         UNCHANGED <<read, handlers, requests, log>>, NEW p \in Req
  PROVE  AccountedFor(p)'
<1> DEFINE Ans(i) == [to |-> run.reqs[i].conn, type |-> type, round |-> run.round,
                      about |-> run.reqs[i].onion]
           R(i) == <<"run", run, i>>
           S(i) == <<"send", Ans(i), 0>>
<1>1. \A m : m \in outgoing' <=> m \in outgoing \/ \E i \in DOMAIN run.reqs : m = Ans(i)
  BY ZenonT(30) DEF Answers
<1>2. \A i \in DOMAIN run.reqs : Ans(i).about = run.reqs[i].onion
  OBVIOUS
<1> HIDE DEF Ans
<1>3. ASSUME NEW y
      PROVE  PlaceOf(p, y)' <=>
               \/ PlaceOf(p, y) /\ \A i \in DOMAIN run.reqs : y # R(i)
               \/ \E i \in DOMAIN run.reqs : y = S(i) /\ run.reqs[i].onion = p
  <2> DEFINE Run  == \E r \in running : \E i \in DOMAIN r.reqs :
                       r.reqs[i].onion = p /\ y = <<"run", r, i>>
             Out  == \E m \in outgoing : m.about = p /\ y = <<"send", m, 0>>
             Rest == \/ p \in handlers /\ y = <<"handler", p, 0>>
                     \/ \E svc \in Protocol : \E i \in DOMAIN requests[svc] :
                          requests[svc][i].onion = p /\ y = <<"list", svc, i>>
                     \/ \E i \in DOMAIN log[p] : y = <<"log", p, i>>
             Stays == \A i \in DOMAIN run.reqs : y # R(i)
             Moved == \E i \in DOMAIN run.reqs : y = S(i) /\ run.reqs[i].onion = p
  <2>1. Run' <=> Run /\ Stays
    OBVIOUS
  <2>2. Out' <=> Out \/ Moved
    BY <1>1, <1>2
  <2>3. Rest' <=> Rest
    OBVIOUS
  <2>4. Out \/ Rest => Stays
    OBVIOUS
  <2>5. (PlaceOf(p, y) <=> Run \/ Out \/ Rest) /\ (PlaceOf(p, y)' <=> Run' \/ Out' \/ Rest')
    BY Zenon DEF PlaceOf
  <2>6. PlaceOf(p, y)' <=> (PlaceOf(p, y) /\ Stays) \/ Moved
    <3> HIDE DEF Run, Out, Rest, Stays, Moved
    <3> QED BY <2>1, <2>2, <2>3, <2>4, <2>5
  <2> QED BY <2>6, Zenon
<1>4. ASSUME NEW i \in DOMAIN run.reqs, run.reqs[i].onion = p
      PROVE  PlaceOf(p, R(i)) /\ ~PlaceOf(p, R(i))' /\ PlaceOf(p, S(i))'
  <2>1. PlaceOf(p, R(i))
    BY <1>4 DEF PlaceOf
  <2>2. R(i) # S(i) /\ \A j : R(i) # S(j)
    BY SMTT(30)
  <2> QED BY <1>3, <1>4, <2>1, <2>2
<1>5. CASE \E i \in DOMAIN run.reqs : run.reqs[i].onion = p
  <2>1. PICK i \in DOMAIN run.reqs : run.reqs[i].onion = p
    BY <1>5
  <2>2. \A j \in DOMAIN run.reqs : run.reqs[j].onion = p => j = i
    <3>1. \A j \in DOMAIN run.reqs : run.reqs[j].onion = p => R(j) = R(i)
      <4>1. \A x, y \in Places(p) : x = y
        BY DEF AccountInv, AccountedFor
      <4> QED BY <1>4, <2>1, <4>1, PlaceIs, ZenonT(30)
    <3> QED BY <3>1
  <2>3. \A y : PlaceOf(p, y)' => PlaceOf(p, y) \/ y = S(i)
    BY <1>3, <2>2
  <2> HIDE DEF R, S
  <2> QED BY <1>4, <2>1, <2>3, Exchanged
<1>6. CASE ~\E i \in DOMAIN run.reqs : run.reqs[i].onion = p
  <2>1. \A i \in DOMAIN run.reqs : ~PlaceOf(p, R(i))
    BY <1>6 DEF PlaceOf
  <2>2. \A y : PlaceOf(p, y)' <=> PlaceOf(p, y)
    BY <1>3, <1>6, <2>1
  <2> QED BY <2>2, NotMoved
<1> QED BY <1>5, <1>6, SMTT(30)

\* connection.Send: the answer is written, or the connection is closed.
LEMMA SendAccounted ==
  ASSUME AccountInv, [Next]_vars, NEW m \in outgoing, Send(m), NEW p \in Req
  PROVE  AccountedFor(p)'
<1>t. EntryTypes
  BY DEF AccountInv, EntryInv
<1>1. /\ outgoing' = outgoing \ {m}
      /\ UNCHANGED <<read, handlers, requests, running>>
  BY DEF Send
<1>2. m \in Sent /\ m.about \in Req /\ m.to \in Conn /\ m.type \in Envelops
  BY <1>t DEF EntryTypes, Sent, Envelops
<1>3. \A q \in Req : q # m.about => log'[q] = log[q]
  BY <1>t, <1>2 DEF Send, EntryTypes
<1>4. CASE p # m.about
  <2>1. \A y : PlaceOf(p, y)' <=> PlaceOf(p, y)
    BY <1>1, <1>3, <1>4 DEF PlaceOf
  <2> QED BY <1>1, <2>1, NotMoved, SMTT(30)
<1>5. CASE p = m.about
  <2>1. PlaceOf(p, <<"send", m, 0>>) /\ ~PlaceOf(p, <<"send", m, 0>>)'
    BY <1>1, <1>5 DEF PlaceOf
  <2>2. log[p] \in Seq(Sent) /\ log[p] = <<>>
    <3>1. log[p] \in Seq(Sent)
      BY <1>t DEF EntryTypes
    <3>2. 1 \in DOMAIN log[p] => PlaceOf(p, <<"log", p, 1>>)
      BY DEF PlaceOf
    <3>3. 1 \notin DOMAIN log[p]
      <4>1. \A x, y \in Places(p) : x = y
        BY DEF AccountInv, AccountedFor
      <4>2. <<"send", m, 0>> \in Places(p)
        BY <2>1, PlaceIs
      <4>3. 1 \in DOMAIN log[p] => <<"log", p, 1>> \in Places(p)
        BY <3>2, PlaceIs
      <4> QED BY <4>1, <4>2, <4>3
    <3>4. Len(log[p]) \in Nat /\ DOMAIN log[p] = 1 .. Len(log[p])
      BY <3>1
    <3>5. Len(log[p]) = 0
      BY <3>3, <3>4
    <3> QED BY <3>1, <3>5
  <2>3. CASE conn[m.to] = "open"
    <3>1. log'[p] = Append(log[p], m)
      BY <1>t, <1>2, <1>5, <2>3 DEF Send, EntryTypes
    <3>2. DOMAIN log'[p] = {1}
      BY <1>2, <2>2, <3>1
    <3>3. PlaceOf(p, <<"log", p, 1>>)'
      BY <3>2 DEF PlaceOf
    <3>4. \A y : PlaceOf(p, y)' => PlaceOf(p, y) \/ y = <<"log", p, 1>>
      BY <1>1, <3>2 DEF PlaceOf
    <3> QED BY <1>1, <2>1, <3>3, <3>4, Exchanged
  <2>4. CASE conn[m.to] # "open"
    <3>1. log'[p] = log[p]
      BY <1>t, <1>2, <1>5, <2>4 DEF Send, EntryTypes
    <3>2. conn'[m.to] = "gone"
      BY <1>2, <2>4 DEF Send, AccountInv, ConnType
    <3>3. m.to = read[p].conn
      BY <1>5, SMTT(30) DEF AccountInv, EntryInv, SendsRight, Right
    <3>4. \A y : PlaceOf(p, y)' => PlaceOf(p, y)
      BY <1>1, <3>1 DEF PlaceOf
    <3>5. read[p] # Unread => conn'[read[p].conn] # "open"
      BY <3>2, <3>3
    <3> QED BY <1>1, <2>1, <3>4, <3>5, Exchanged
  <2> QED BY <2>3, <2>4
<1> QED BY <1>4, <1>5

LEMMA InitAccount == Init => AccountInv
<1> SUFFICES ASSUME Init PROVE AccountInv
  OBVIOUS
<1>1. ConnType /\ Connected
  BY DEF Init, ConnType, Connected
<1>2. ASSUME NEW q \in Req PROVE AccountedFor(q)
  <2>1. \A y : y \notin Places(q)
    <3>1. /\ handlers = {} /\ running = {} /\ outgoing = {} /\ log[q] = <<>>
          /\ \A svc \in Protocol : requests[svc] = <<>>
      BY DEF Init
    <3>2. DOMAIN <<>> = {}
      OBVIOUS
    <3>3. \A y : ~PlaceOf(q, y)
      BY <3>1, <3>2 DEF PlaceOf
    <3> QED BY <3>3, PlaceIs
  <2>2. read[q] = Unread
    BY DEF Init
  <2> QED BY <2>1, <2>2 DEF AccountedFor
<1> QED BY <1>1, <1>2, InitEntry DEF AccountInv

LEMMA NextAccount == AccountInv /\ [Next]_vars => AccountInv'
<1> SUFFICES ASSUME AccountInv, [Next]_vars PROVE AccountInv'
  OBVIOUS
<1>1. EntryInv' /\ ConnType' /\ Connected'
  BY NextEntry, ConnMoves, ConnectedKept DEF AccountInv, EntryInv
<1>2. ASSUME NEW q \in Req PROVE AccountedFor(q)'
  <2>1. CASE UNCHANGED <<read, handlers, requests, running, outgoing, log>>
    <3>1. \A y : PlaceOf(q, y)' <=> PlaceOf(q, y)
      BY <2>1 DEF PlaceOf
    <3> QED BY <2>1, <3>1, NotMoved, SMTT(30)
  <2>2. CASE UNCHANGED vars \/ MixStep
    BY <2>1, <2>2, MixMovesNone DEF vars
  <2>3. ASSUME NEW c \in Conn, Register(c) \/ Break(c) \/ ReadFails(c)
        PROVE  AccountedFor(q)'
    BY <2>1, <2>3 DEF Register, Break, ReadFails
  <2>4. ASSUME NEW svc \in Protocol, NEW c \in Conn, NewRound(svc) \/ Announce(svc, c)
        PROVE  AccountedFor(q)'
    BY <2>1, <2>4 DEF NewRound, Announce
  <2>5. ASSUME NEW svc \in Protocol, NewRound(svc) PROVE AccountedFor(q)'
    BY <2>1, <2>5 DEF NewRound
  <2>6. ASSUME NEW run \in running, RoundOK(run) \/ RoundFails(run)
        PROVE  AccountedFor(q)'
    <3>1. CASE RoundOK(run)
      <4>1. /\ running' = running \ {run}
            /\ outgoing' = outgoing \cup Answers(run, AnswerType(run.svc))
            /\ UNCHANGED <<read, handlers, requests, log>>
        BY <3>1 DEF RoundOK
      <4> QED BY <4>1, RoundAccounted
    <3>2. CASE RoundFails(run)
      <4>1. /\ running' = running \ {run}
            /\ outgoing' = outgoing \cup Answers(run, ErrorType(run.svc))
            /\ UNCHANGED <<read, handlers, requests, log>>
        BY <3>2 DEF RoundFails
      <4> QED BY <4>1, RoundAccounted
    <3> QED BY <2>6, <3>1, <3>2
  <2>7. ASSUME NEW svc \in Protocol, LoopStep(svc) PROVE AccountedFor(q)'
    BY <2>2, <2>4, <2>5, <2>7, EndRoundAccounted DEF LoopStep, MixStep
  <2>8. CASE Environment
    BY <2>2, <2>3, <2>6, <2>8, ReadAccounted, ReadBadAccounted, EndsRunning, SMTT(30)
       DEF Environment, MixStep
  <2> QED
    BY <2>2, <2>3, <2>6, <2>7, <2>8, HandleAccounted, SendAccounted
       DEF Next, ConnStep, Handlers, Runs, Sends, MixStep
<1> QED BY <1>1, <1>2 DEF AccountInv

\* No request is lost or handled twice: while its connection is open, a
\* request that was read is in exactly one of its handler, the list of a
\* round, a running round, a Send and the log.
THEOREM EntryAccounted == Spec => []Accounted
<1>1. AccountInv => Accounted
  <2> SUFFICES ASSUME AccountInv, NEW q \in Req, read[q] # Unread
               PROVE  /\ Cardinality(Places(q)) <= 1
                      /\ conn[read[q].conn] = "open" => Cardinality(Places(q)) = 1
    BY DEF Accounted
  <2>1. AccountedFor(q)
    BY SMTT(30) DEF AccountInv
  <2>2. CASE Places(q) = {}
    BY <2>1, <2>2, FS_EmptySet DEF AccountedFor
  <2>3. CASE Places(q) # {}
    <3>1. PICK x : x \in Places(q)
      BY <2>3
    <3>2. Places(q) = {x}
      BY <2>1, <3>1 DEF AccountedFor
    <3>3. Cardinality({x}) = 1
      BY FS_Singleton
    <3> QED BY <3>2, <3>3
  <2> QED BY <2>2, <2>3
<1> QED BY <1>1, InitAccount, NextAccount, PTL DEF Spec
=============================================================================
