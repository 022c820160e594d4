---------------------------- MODULE EntryServer -----------------------------
(***************************************************************************)
(* The entry server: websocket connections come and go, a goroutine per    *)
(* message handles the requests of clients, one loop per protocol opens a  *)
(* round on the first mix server, announces it, waits, and hands the       *)
(* requests collected so far to a goroutine that runs the round and sends  *)
(* the answers.                                                            *)
(*                                                                         *)
(* What the mix servers do with a call is abstracted to its outcome:       *)
(* replies in the order of the onions, an error, or nothing at all.  The   *)
(* last happens once an Idle mutex has been left locked on one of them     *)
(* (see LockedMeansBusy in MixChain): a call has no timeout, and only the  *)
(* end of a connection makes it return.                                    *)
(***************************************************************************)
EXTENDS Integers, Sequences, FiniteSets, Functions, Envelope

CONSTANTS
  Conn,       \* the websocket connections
  Req,        \* the messages clients send, also standing for their onions
  Protocol,   \* the protocols run: a subset of {"convo", "dial"}
  MaxRound    \* bound: rounds 0..MaxRound of each protocol are run

ASSUME EntryAssumption ==
  /\ Protocol \subseteq {"convo", "dial"}
  /\ MaxRound \in Nat

Round == 0 .. MaxRound

VARIABLES
  conn,      \* conn[c]: "absent", "open", "broken" (registered, but reads and
             \* writes fail) or "gone" (closed and unregistered)
  read,      \* read[q]: the request as read from its connection, or Unread
  handlers,  \* requests whose handler goroutine has not run yet
  round,     \* convoRound and dialRound
  requests,  \* convoRequests and dialRequests
  loop,      \* loop[svc]: the round loop is in "newRound" or "receiving", or
             \* "hung" in a call of NewRound that does not return
  targets,   \* targets[svc]: connections the broadcast has still to reach
  running,   \* the runConvoRound and runDialRound goroutines
  outgoing,  \* Sends under way
  log,       \* history: log[q] is the sequence of messages sent about q
  mix,       \* the mix servers: "up", "stuck" (on one of them Idle is locked
             \* for good) or "down" (the connection to the first is lost)
  hung       \* the running rounds waiting for a call that does not return

vars == <<conn, read, handlers, round, requests, loop, targets, running,
          outgoing, log, mix, hung>>

\* The state of the calls to the mix servers.
mixVars == <<mix, hung>>

Unread == [conn |-> "none"]

Registered == {c \in Conn : conn[c] \in {"open", "broken"}}

ErrorType(svc)  == IF svc = "convo" THEN "ConvoError" ELSE "DialError"
AnswerType(svc) == IF svc = "convo" THEN "ConvoResponse" ELSE "DialBucket"

Init ==
  /\ conn = [c \in Conn |-> "absent"]
  /\ read = [q \in Req |-> Unread]
  /\ handlers = {}
  /\ round = [svc \in Protocol |-> 0]
  /\ requests = [svc \in Protocol |-> <<>>]
  /\ loop = [svc \in Protocol |-> "newRound"]
  /\ targets = [svc \in Protocol |-> {}]
  /\ running = {}
  /\ outgoing = {}
  /\ log = [q \in Req |-> <<>>]
  /\ mix = "up"
  /\ hung = {}

\* wsHandler: a client connects.
Register(c) ==
  /\ conn[c] = "absent"
  /\ conn' = [conn EXCEPT ![c] = "open"]
  /\ UNCHANGED <<read, handlers, round, requests, loop, targets, running, outgoing, log,
                 mixVars>>

\* The network or the client breaks the connection.
Break(c) ==
  /\ conn[c] = "open"
  /\ conn' = [conn EXCEPT ![c] = "broken"]
  /\ UNCHANGED <<read, handlers, round, requests, loop, targets, running, outgoing, log,
                 mixVars>>

\* readLoop: ReadJSON fails, and c.Close() unregisters the connection.
ReadFails(c) ==
  /\ conn[c] = "broken"
  /\ conn' = [conn EXCEPT ![c] = "gone"]
  /\ UNCHANGED <<read, handlers, round, requests, loop, targets, running, outgoing, log,
                 mixVars>>

\* readLoop: a well-formed request is read; go c.handleRequest(v).  (For a
\* message of another known type handleRequest does nothing.)
Read(c, q, svc, r) ==
  /\ conn[c] = "open"
  /\ read[q] = Unread
  /\ read' = [read EXCEPT ![q] = [conn |-> c, svc |-> svc, round |-> r]]
  /\ handlers' = handlers \cup {q}
  /\ UNCHANGED <<conn, round, requests, loop, targets, running, outgoing, log, mixVars>>

\* readLoop: Open fails; go c.Send(&BadRequestError), and handleRequest(nil)
\* does nothing.
ReadBad(c, q) ==
  /\ conn[c] = "open"
  /\ read[q] = Unread
  /\ read' = [read EXCEPT ![q] = [conn |-> c, svc |-> "none", round |-> 0]]
  /\ outgoing' = outgoing \cup
       {[to |-> c, type |-> "BadRequestError", round |-> 0, about |-> q]}
  /\ UNCHANGED <<conn, handlers, round, requests, loop, targets, running, log, mixVars>>

\* Mutant: the round of a request is not compared with the current one.
WrongRoundNever(q) == FALSE

\* if r.Round != currRound
WrongRound(q) == read[q].round # round[read[q].svc]

\* handleConvoRequest and handleDialRequest, each one critical section of
\* convoMu or dialMu.
Handle(q) ==
  /\ q \in handlers
  /\ handlers' = handlers \ {q}
  /\ IF WrongRound(q)
       THEN /\ outgoing' = outgoing \cup
                 {[to |-> read[q].conn, type |-> ErrorType(read[q].svc),
                   round |-> read[q].round, about |-> q]}
            /\ UNCHANGED requests
       ELSE /\ requests' = [requests EXCEPT ![read[q].svc] =
                              Append(@, [conn |-> read[q].conn, onion |-> q])]
            /\ UNCHANGED outgoing
  /\ UNCHANGED <<conn, read, round, loop, targets, running, log, mixVars>>

\* convoRoundLoop, dialRoundLoop: NewRound succeeds on the first server and
\* the broadcast starts.  (When NewRound fails the loop tries again later.
\* It always fails once the connection is lost: a vrpc.Client does not redial.)
NewRound(svc) ==
  /\ loop[svc] = "newRound"
  /\ round[svc] \in Round
  /\ mix # "down"
  /\ loop' = [loop EXCEPT ![svc] = "receiving"]
  /\ targets' = [targets EXCEPT ![svc] = Registered]
  /\ UNCHANGED <<conn, read, handlers, round, requests, running, outgoing, log, mixVars>>

\* The first server's NewRound waits for an Idle mutex that stays locked.
HangNewRound(svc) ==
  /\ loop[svc] = "newRound"
  /\ round[svc] \in Round
  /\ mix = "stuck"
  /\ loop' = [loop EXCEPT ![svc] = "hung"]
  /\ UNCHANGED <<conn, read, handlers, round, requests, targets, running, outgoing, log,
                 mixVars>>

\* broadcast: the announcement is written to one of the connections; when
\* that fails Send closes the connection.
Announce(svc, c) ==
  /\ c \in targets[svc]
  /\ targets' = [targets EXCEPT ![svc] = @ \ {c}]
  /\ conn' = [conn EXCEPT ![c] = IF @ = "open" THEN @ ELSE "gone"]
  /\ UNCHANGED <<read, handlers, round, requests, loop, running, outgoing, log, mixVars>>

\* Mutant: the collected requests are not taken off the list.
EndRoundKeeps(svc) ==
  /\ loop[svc] = "receiving"
  /\ targets[svc] = {}
  /\ running' = running \cup
       {[svc |-> svc, round |-> round[svc], reqs |-> requests[svc]]}
  /\ round' = [round EXCEPT ![svc] = @ + 1]
  /\ loop' = [loop EXCEPT ![svc] = "newRound"]
  /\ UNCHANGED <<conn, read, handlers, requests, targets, outgoing, log, mixVars>>

\* The wait is over; in one critical section the requests are handed to a
\* goroutine and the next round begins.
EndRound(svc) ==
  /\ loop[svc] = "receiving"
  /\ targets[svc] = {}
  /\ running' = running \cup
       {[svc |-> svc, round |-> round[svc], reqs |-> requests[svc]]}
  /\ round' = [round EXCEPT ![svc] = @ + 1]
  /\ requests' = [requests EXCEPT ![svc] = <<>>]
  /\ loop' = [loop EXCEPT ![svc] = "newRound"]
  /\ UNCHANGED <<conn, read, handlers, targets, outgoing, log, mixVars>>

\* What a round goroutine sends: one message of the given type for every
\* request, to conns[i] about onions[i].
Answers(run, type) ==
  {[to |-> run.reqs[i].conn, type |-> type, round |-> run.round,
    about |-> run.reqs[i].onion] : i \in DOMAIN run.reqs}

\* runConvoRound, runDialRound: the mix servers have run the round (for dial,
\* the last server has also returned the buckets).
RoundOK(run) ==
  /\ run \in running \ hung
  /\ mix # "down"
  /\ running' = running \ {run}
  /\ outgoing' = outgoing \cup Answers(run, AnswerType(run.svc))
  /\ UNCHANGED <<conn, read, handlers, round, requests, loop, targets, log, mixVars>>

\* Mutant: an error of the mix servers is only logged.
RoundFailsSilently(run) ==
  /\ run \in running
  /\ running' = running \ {run}
  /\ hung' = hung \ {run}
  /\ UNCHANGED <<conn, read, handlers, round, requests, loop, targets, outgoing, log, mix>>

\* RunConvoRound, RunDialRound or Buckets returned an error: "server error".
RoundFails(run) ==
  /\ run \in running
  /\ running' = running \ {run}
  /\ hung' = hung \ {run}
  /\ outgoing' = outgoing \cup Answers(run, ErrorType(run.svc))
  /\ UNCHANGED <<conn, read, handlers, round, requests, loop, targets, log, mix>>

\* Close on some server of the chain calls NewRound on the next one, where
\* Idle stays locked: RunConvoRound or RunDialRound does not return.
HangRun(run) ==
  /\ run \in running \ hung
  /\ mix = "stuck"
  /\ hung' = hung \cup {run}
  /\ UNCHANGED <<conn, read, handlers, round, requests, loop, targets, running, outgoing,
                 log, mix>>

\* An error return of Close or NewRound leaves Idle locked on a mix server.
Leak ==
  /\ mix = "up"
  /\ mix' = "stuck"
  /\ UNCHANGED <<conn, read, handlers, round, requests, loop, targets, running, outgoing,
                 log, hung>>

\* The connection to the first server is lost: net/rpc ends every pending
\* call with an error.
Disconnect ==
  /\ mix # "down"
  /\ mix' = "down"
  /\ hung' = {}
  /\ loop' = [svc \in Protocol |-> IF loop[svc] = "hung" THEN "newRound" ELSE loop[svc]]
  /\ UNCHANGED <<conn, read, handlers, round, requests, targets, running, outgoing, log>>

\* connection.Send.  Envelop fails for a type it does not know; a write to a
\* broken or closed connection fails, and c.Close() unregisters it.
Send(m) ==
  /\ m \in outgoing
  /\ outgoing' = outgoing \ {m}
  /\ conn' = [conn EXCEPT ![m.to] =
                IF @ = "open" \/ m.type \notin Envelops THEN @ ELSE "gone"]
  /\ log' = [log EXCEPT ![m.about] =
               IF conn[m.to] = "open" /\ m.type \in Envelops THEN Append(@, m) ELSE @]
  /\ UNCHANGED <<read, handlers, round, requests, loop, targets, running, mixVars>>

ConnStep(c)   == ReadFails(c)
LoopStep(svc) == \/ NewRound(svc) \/ HangNewRound(svc)
                 \/ (\E c \in Conn : Announce(svc, c))
                 \/ EndRound(svc)
Handlers      == \E q \in Req : Handle(q)
Runs          == \E run \in running \ hung : RoundOK(run) \/ RoundFails(run) \/ HangRun(run)
Sends         == \E m \in outgoing : Send(m)

\* Clients and mix servers.  A hung call may still end with an error, when a
\* connection further down the chain is lost; nothing makes it.
Environment ==
  \/ \E c \in Conn : Register(c) \/ Break(c)
  \/ \E c \in Conn, q \in Req, svc \in Protocol, r \in Round : Read(c, q, svc, r)
  \/ \E c \in Conn, q \in Req : ReadBad(c, q)
  \/ \E run \in hung : RoundFails(run)
  \/ Leak
  \/ Disconnect

Next == \/ \E c \in Conn : ConnStep(c)
        \/ \E svc \in Protocol : LoopStep(svc)
        \/ Handlers
        \/ Runs
        \/ Sends
        \/ Environment

Spec == Init /\ [][Next]_vars

\* Goroutines are scheduled fairly.  A call to the mix servers returns or is
\* stuck behind a locked Idle: nothing is assumed of the calls in hung, or
\* of a loop in "hung".
FairSpec ==
  /\ Spec
  /\ \A c \in Conn : WF_vars(ConnStep(c))
  /\ \A svc \in Protocol : WF_vars(LoopStep(svc))
  /\ WF_vars(Handlers)
  /\ WF_vars(Runs)
  /\ WF_vars(Sends)

-----------------------------------------------------------------------------
Message == [to : Conn, type : MsgType, round : Round, about : Req]

\* Every variable has its type: a message is only ever sent on a connection
\* and about a request that exist.
TypeOK ==
  /\ conn \in [Conn -> {"absent", "open", "broken", "gone"}]
  /\ \A q \in Req : read[q] \in {Unread} \cup
       [conn : Conn, svc : Protocol \cup {"none"}, round : Round]
  /\ handlers \subseteq Req
  /\ round \in [Protocol -> 0 .. MaxRound + 1]
  /\ \A svc \in Protocol : Range(requests[svc]) \subseteq [conn : Conn, onion : Req]
  /\ loop \in [Protocol -> {"newRound", "receiving", "hung"}]
  /\ targets \in [Protocol -> SUBSET Conn]
  /\ outgoing \subseteq Message
  /\ \A q \in Req : Range(log[q]) \subseteq Message
  /\ mix \in {"up", "stuck", "down"}
  /\ hung \subseteq running

\* The places of q in a list of requests.
Spots(q, reqs) == {i \in DOMAIN reqs : reqs[i].onion = q}

\* Where q is between being read and being answered: with its handler, in the
\* list of a round, in a running round, in a Send or in the log.
Places(q) ==
  {<<"handler", h, 0>> : h \in handlers \cap {q}}
  \cup (UNION {{<<"list", svc, i>> : i \in Spots(q, requests[svc])} : svc \in Protocol})
  \cup (UNION {{<<"run", run, i>> : i \in Spots(q, run.reqs)} : run \in running})
  \cup {<<"send", m, 0>> : m \in {o \in outgoing : o.about = q}}
  \cup {<<"log", q, i>> : i \in DOMAIN log[q]}

\* No request is lost or handled twice, however the handler goroutines, the
\* end of the waiting period and the running rounds interleave: as long as
\* its connection is open, a request is in exactly one place (its handler,
\* the list of the current round, one running round, one Send, or answered).
Accounted ==
  \A q \in Req : read[q] # Unread =>
    /\ Cardinality(Places(q)) <= 1
    /\ conn[read[q].conn] = "open" => Cardinality(Places(q)) = 1

\* An answer goes to the connection its request came from and names the
\* round the request was made for; a request of one protocol is not answered
\* with a message of the other.  It takes the round number under which the
\* batch was run, so no request is run in a round it was not made for.
AnswersRight ==
  \A q \in Req : \A m \in Range(log[q]) :
    /\ m.to = read[q].conn
    /\ m.round = read[q].round
    /\ m.type \in IF read[q].svc = "none" THEN {"BadRequestError"}
                  ELSE {AnswerType(read[q].svc), ErrorType(read[q].svc)}

\* q has been read from an open connection and is not answered.
Waits(q) == read[q] # Unread /\ conn[read[q].conn] = "open" /\ log[q] = <<>>

\* q is in a round whose call does not return, or in the list of a round that
\* the mix servers do not let begin.
Blocked(q) ==
  \/ \E run \in hung : Spots(q, run.reqs) # {}
  \/ \E svc \in Protocol :
       /\ Spots(q, requests[svc]) # {}
       /\ loop[svc] = "hung" \/ (loop[svc] = "newRound" /\ mix = "down")

\* Every request read from a connection, and every message that does not
\* parse, is answered, if only by an error, unless the connection breaks or
\* the mix servers block the round: the entry server itself keeps no request
\* waiting, before, during or after a call of its own that hangs, and rounds
\* that hang do not keep the requests of other rounds from their answers.
AllAnswered == \A q \in Req : Waits(q) ~> (~Waits(q) \/ Blocked(q))

\* entry_api.go lists DialError among the messages from server to client:
\* whatever the entry server sends, Envelope.Open can open.
ClientsUnderstand ==
  \A q \in Req : \A m \in Range(log[q]) : m.type \in Opens
=============================================================================
