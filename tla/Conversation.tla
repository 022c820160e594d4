---------------------------- MODULE Conversation ----------------------------
(***************************************************************************)
(* Two users talking to each other: the client's GUI thread, its Client    *)
(* and Conversation objects, and the goroutines that handle announcements  *)
(* and responses, two of which may run at the same time and in any order.  *)
(* A user always has a conversation selected, at first with themselves.    *)
(*                                                                         *)
(* The entry server and the mix servers are reduced to what they promise:  *)
(* rounds follow each other, a request that comes too late is rejected,    *)
(* and a round that succeeds answers two requests for the same dead drop   *)
(* with each other's message and a lone one with its own.                  *)
(***************************************************************************)
EXTENDS Integers, Sequences, FiniteSets, Functions

CONSTANTS
  MaxRound,     \* bound: rounds 0..MaxRound are run
  MaxTexts,     \* bound: texts each user types
  MaxSwitches,  \* bound: /talk commands each user enters
  QueueCap,     \* capacity of outQueue (64 in the code)
  SizeMessage,  \* bytes of a message (240 in the code), one for its type
  Lengths,      \* Lengths[k]: bytes of the k-th text a user types
  None,         \* no value
  Timestamp     \* the body of a message without a text

User  == {"alice", "bob"}
Round == 0 .. MaxRound

\* A text of a user, by its number; only its length matters otherwise.
Text == [from : User, to : User, k : Nat, len : Nat]

\* A message in its box, as Seal makes it.
Sealed == [keys : SUBSET User, round : Round, role : {0, 1}, body : Text \cup {Timestamp}]

\* What a client sends in a round, with the peer it is meant for.
Drop    == ({"random"} \X User) \cup {<<"hmac", User>>}
Request == [peer : User, drop : Drop, msg : Sealed]

ASSUME ConversationAssumption ==
  /\ MaxRound \in Nat
  /\ MaxTexts \in [User -> Nat]
  /\ MaxSwitches \in [User -> Nat]
  /\ QueueCap \in Nat \ {0}
  /\ SizeMessage \in Nat \ {0}
  /\ \A u \in User : \A k \in 1 .. MaxTexts[u] : Lengths[k] \in Nat
  /\ None \notin User \cup Text \cup Sealed \cup Request
  /\ Timestamp \notin Text

VARIABLES
  stage,          \* stage[u]: "offline", "connecting" or "online"
  arg,            \* arg[u]: the conversation Connect activates
  selectedConvo,  \* selectedConvo[u]: the peer of the GUI's conversation
  convoHandler,   \* convoHandler[u]: the peer of the client's conversation
  typed,          \* typed[u]: number of texts typed
  switches,       \* switches[u]: number of /talk commands
  gui,            \* gui[u]: the text QueueTextMessage is sending, or None
  outQueue,       \* outQueue[u][p]
  pendingRounds,  \* pendingRounds[u][p][r]: the message sent, or None
  roundHandlers,  \* roundHandlers[u][r]: a peer, or None
  pc,             \* pc[u][r]: how far u's client is with round r
  request,        \* request[u][r]: peer, dead drop and message of the request
  picked,         \* history: picked[u][r] is what PickHandler found
  raced,          \* history: u's last /talk came while Connect was running
  status,         \* status[r]: "future", "open", "closed" or "done"
  told,           \* told[r]: the users round r is announced to
  shown           \* shown[u]: the texts printed, with the name printed

guiVars   == <<stage, arg, selectedConvo, convoHandler, typed, switches, gui, raced>>
roundVars == <<status, told>>
vars == <<guiVars, outQueue, pendingRounds, roundHandlers, pc, request, picked,
          roundVars, shown>>

Init ==
  /\ stage = [u \in User |-> "offline"]
  /\ arg = [u \in User |-> None]
  /\ selectedConvo = [u \in User |-> u]
  /\ convoHandler = [u \in User |-> None]
  /\ typed = [u \in User |-> 0]
  /\ switches = [u \in User |-> 0]
  /\ gui = [u \in User |-> None]
  /\ outQueue = [u \in User |-> [p \in User |-> <<>>]]
  /\ pendingRounds = [u \in User |-> [p \in User |-> [r \in Round |-> None]]]
  /\ roundHandlers = [u \in User |-> [r \in Round |-> None]]
  /\ pc = [u \in User |-> [r \in Round |-> "none"]]
  /\ request = [u \in User |-> [r \in Round |-> None]]
  /\ picked = [u \in User |-> [r \in Round |-> None]]
  /\ raced = [u \in User |-> FALSE]
  /\ status = [r \in Round |-> "future"]
  /\ told = [r \in Round |-> {}]
  /\ shown = [u \in User |-> <<>>]

-----------------------------------------------------------------------------
\* GuiClient.Connect, first part: the client exists from now on, and
\* gc.selectedConvo has been read to be passed to activateConvo.
ConnectStart(u) ==
  /\ stage[u] = "offline"
  /\ stage' = [stage EXCEPT ![u] = "connecting"]
  /\ arg' = [arg EXCEPT ![u] = selectedConvo[u]]
  /\ UNCHANGED <<selectedConvo, convoHandler, typed, switches, gui, raced, outQueue,
                 pendingRounds, roundHandlers, pc, request, picked, roundVars, shown>>

\* activateConvo and Client.Connect.  Connect is not tried again when it
\* fails, and no round is ever announced to this client: it stays here.
ConnectEnd(u) ==
  /\ stage[u] = "connecting"
  /\ stage' = [stage EXCEPT ![u] = "online"]
  /\ convoHandler' = [convoHandler EXCEPT ![u] = arg[u]]
  /\ arg' = [arg EXCEPT ![u] = None]
  /\ UNCHANGED <<selectedConvo, typed, switches, gui, raced, outQueue,
                 pendingRounds, roundHandlers, pc, request, picked, roundVars, shown>>

\* Mutant: switching back and forth does not reach the client.
ActivatedNever(u, p) == convoHandler[u]

\* activateConvo: the client's conversation, once there is a client.
Activated(u, p) == IF stage[u] = "offline" THEN convoHandler[u] ELSE p

\* handleLine "/talk p": switchConversation, with activateConvo when the
\* client exists.  (A /talk that would change neither is left out.  The
\* selection and the activation are one step here; Client has them apart.)
Talk(u, p) ==
  /\ gui[u] = None
  /\ <<p, Activated(u, p)>> # <<selectedConvo[u], convoHandler[u]>>
  /\ switches[u] < MaxSwitches[u]
  /\ switches' = [switches EXCEPT ![u] = @ + 1]
  /\ selectedConvo' = [selectedConvo EXCEPT ![u] = p]
  /\ convoHandler' = [convoHandler EXCEPT ![u] = Activated(u, p)]
  /\ raced' = [raced EXCEPT ![u] = stage[u] = "connecting"]
  /\ UNCHANGED <<stage, arg, typed, gui, outQueue, pendingRounds, roundHandlers,
                 pc, request, picked, roundVars, shown>>

\* handleLine with a text: QueueTextMessage, which blocks the GUI thread when
\* the queue is full.
TypeText(u) ==
  LET p    == selectedConvo[u]
      k    == typed[u] + 1
      text == [from |-> u, to |-> p, k |-> k, len |-> Lengths[k]]
  IN /\ gui[u] = None
     /\ typed[u] < MaxTexts[u]
     /\ typed' = [typed EXCEPT ![u] = @ + 1]
     /\ IF Len(outQueue[u][p]) < QueueCap
          THEN /\ outQueue' = [outQueue EXCEPT ![u][p] = Append(@, text)]
               /\ UNCHANGED gui
          ELSE /\ gui' = [gui EXCEPT ![u] = text]
               /\ UNCHANGED outQueue
     /\ UNCHANGED <<stage, arg, selectedConvo, convoHandler, switches, raced, pendingRounds,
                    roundHandlers, pc, request, picked, roundVars, shown>>

\* The queue has room again for the text the GUI thread waits with.
Unblock(u) ==
  /\ gui[u] # None
  /\ Len(outQueue[u][gui[u].to]) < QueueCap
  /\ outQueue' = [outQueue EXCEPT ![u][gui[u].to] = Append(@, gui[u])]
  /\ gui' = [gui EXCEPT ![u] = None]
  /\ UNCHANGED <<stage, arg, selectedConvo, convoHandler, typed, switches, raced,
                 pendingRounds, roundHandlers, pc, request, picked, roundVars, shown>>

-----------------------------------------------------------------------------
\* The entry server announces round r to the users that are connected.
OpenRound(r) ==
  /\ status[r] = "future"
  /\ r > 0 => status[r - 1] \notin {"future", "open"}
  /\ status' = [status EXCEPT ![r] = "open"]
  /\ told' = [told EXCEPT ![r] = {u \in User : stage[u] = "online"}]
  /\ UNCHANGED <<guiVars, outQueue, pendingRounds, roundHandlers, pc, request,
                 picked, shown>>

\* The entry server stops collecting requests for round r.
CloseRound(r) ==
  /\ status[r] = "open"
  /\ status' = [status EXCEPT ![r] = "closed"]
  /\ UNCHANGED <<guiVars, outQueue, pendingRounds, roundHandlers, pc, request,
                 picked, told, shown>>

\* The mix servers have run round r.  When they fail, the clients get a
\* ConvoError, which handleResponse ignores: the round stays closed.
EndRound(r) ==
  /\ status[r] = "closed"
  /\ status' = [status EXCEPT ![r] = "done"]
  /\ UNCHANGED <<guiVars, outQueue, pendingRounds, roundHandlers, pc, request,
                 picked, told, shown>>

-----------------------------------------------------------------------------
\* readLoop gets the announcement of round r; a goroutine of handleResponse
\* goes through the critical section of nextConvoRequest.
PickHandler(u, r) ==
  /\ status[r] # "future" /\ u \in told[r]
  /\ pc[u][r] = "none"
  /\ roundHandlers' = [roundHandlers EXCEPT ![u][r] = convoHandler[u]]
  /\ picked' = [picked EXCEPT ![u][r] = convoHandler[u]]
  /\ pc' = [pc EXCEPT ![u][r] = "picked"]
  /\ UNCHANGED <<guiVars, outQueue, pendingRounds, request, roundVars, shown>>

Rank(u) == IF u = "alice" THEN 0 ELSE 1

\* myRole of u in the conversation with p; theirRole is myRole(p, u).
myRole(u, p) == IF Rank(u) < Rank(p) THEN 0 ELSE 1

Solo(u, p) == u = p

\* Mutant: the dead drop is computed from the own key alone.
deadDropOwnKey(u, p) == IF Solo(u, p) THEN <<"random", u>> ELSE <<"hmac", u>>

\* A fresh random drop when solo, otherwise one that both peers compute from
\* their shared key (and the round: drops of different rounds never meet).
deadDrop(u, p) == IF Solo(u, p) THEN <<"random", u>> ELSE <<"hmac", User>>

\* Mutant: the message type is forgotten when the room is counted.
MarshalNoTag(body) ==
  IF body = Timestamp THEN body
  ELSE [body EXCEPT !.len = IF @ <= SizeMessage THEN @ ELSE SizeMessage]

\* ConvoMessage.Marshal: what does not fit behind the type is cut off, and
\* what is left of the array stays zero.  Unmarshal and TrimRight give the
\* same text again, without the zeros.
Marshal(body) ==
  IF body = Timestamp THEN body
  ELSE [body EXCEPT !.len = IF @ < SizeMessage THEN @ ELSE SizeMessage - 1]

\* Conversation.Seal with the round and the role in the nonce.
Seal(u, p, r, body) ==
  [keys |-> {u, p}, round |-> r, role |-> myRole(u, p), body |-> body]

\* Mutant: the queue is read but the message is not taken off it.
DequeuedNot(q) == q

\* What is left of outQueue after the select: the default case of an empty
\* queue takes nothing.
Dequeued(q) == IF q = <<>> THEN q ELSE Tail(q)

\* nextConvoRequest reads c.convoHandler once more, outside the critical
\* section, NextConvoRequest of that conversation makes the request, and it
\* is sent.  The entry server takes it into the batch of round r or answers
\* with a ConvoError, which handleResponse ignores.
NextConvoRequest(u, r) ==
  LET p    == convoHandler[u]
      q    == outQueue[u][p]
      body == IF q = <<>> THEN Timestamp ELSE Head(q)
      msg  == Seal(u, p, r, Marshal(body))
  IN /\ pc[u][r] = "picked"
     /\ outQueue' = [outQueue EXCEPT ![u][p] = Dequeued(q)]
     /\ pendingRounds' = [pendingRounds EXCEPT ![u][p][r] = msg]
     /\ request' = [request EXCEPT ![u][r] =
                      [peer |-> p, drop |-> deadDrop(u, p), msg |-> msg]]
     /\ pc' = [pc EXCEPT ![u][r] = IF status[r] = "open" THEN "sent" ELSE "rejected"]
     /\ UNCHANGED <<guiVars, roundHandlers, picked, roundVars, shown>>

\* u's request is in the batch of round r.
InBatch(u, r) == pc[u][r] \in {"sent", "finished"}

\* The users whose requests meet u's at its dead drop.
Partners(u, r) ==
  {v \in User \ {u} : InBatch(v, r) /\ request[v][r].drop = request[u][r].drop}

\* The message the mix servers return to u.
Reply(u, r) ==
  IF Partners(u, r) = {} THEN request[u][r].msg
  ELSE request[CHOOSE v \in Partners(u, r) : TRUE][r].msg

\* Conversation.Open succeeds.
Opens(u, p, r, msg) ==
  msg.keys = {u, p} /\ msg.round = r /\ msg.role = myRole(p, u)

\* Mutant: the response is handled by the conversation now selected.
ResponseHandlerNow(u, r) == convoHandler[u]

\* The conversation a response is handed to, c.roundHandlers[r.Round].
ResponseHandler(u, r) == roundHandlers[u][r]

\* The response of round r arrives: deliverConvoResponse takes the handler of
\* the round, and HandleConvoResponse of that conversation the message it
\* has pending.
HandleConvoResponse(u, r) ==
  LET p       == ResponseHandler(u, r)
      pending == pendingRounds[u][p][r]
      msg     == Reply(u, r)
      accepts == /\ pending # None
                 /\ ~(msg = pending /\ ~Solo(u, p))
                 /\ Opens(u, p, r, msg)
  IN /\ pc[u][r] = "sent" /\ status[r] = "done"
     /\ roundHandlers' = [roundHandlers EXCEPT ![u][r] = None]
     /\ pendingRounds' = [pendingRounds EXCEPT ![u][p][r] = None]
     /\ shown' = [shown EXCEPT ![u] =
                    IF accepts /\ msg.body # Timestamp
                    THEN Append(@, [name |-> p, text |-> msg.body]) ELSE @]
     /\ pc' = [pc EXCEPT ![u][r] = "finished"]
     /\ UNCHANGED <<guiVars, outQueue, request, picked, roundVars>>

GuiStep(u) == ConnectStart(u) \/ ConnectEnd(u) \/ (\E p \in User : Talk(u, p))
              \/ TypeText(u) \/ Unblock(u)

EntryStep(r) == OpenRound(r) \/ CloseRound(r) \/ EndRound(r)

ClientStep(u, r) ==
  PickHandler(u, r) \/ NextConvoRequest(u, r) \/ HandleConvoResponse(u, r)

Next == \/ \E u \in User : GuiStep(u)
        \/ \E r \in Round : EntryStep(r)
        \/ \E u \in User, r \in Round : ClientStep(u, r)

Spec == Init /\ [][Next]_vars

-----------------------------------------------------------------------------
\* Between the two reads of c.convoHandler in nextConvoRequest the user has
\* switched: the response goes to another conversation than the request.
Split(u, r) == picked[u][r] # request[u][r].peer

\* A text printed as coming from a peer was typed by that peer in the
\* conversation with this user, whole if it is shorter than a message and cut
\* to what fits otherwise, and is printed once, however the rounds overlap
\* and the users switch.
ShownRight ==
  \A u \in User :
    /\ \A i \in DOMAIN shown[u] :
         LET text == shown[u][i].text
         IN /\ text.from = shown[u][i].name /\ text.to = u
            /\ text.len = Lengths[text.k] \/ text.len = SizeMessage - 1
            /\ text.len < SizeMessage /\ text.len <= Lengths[text.k]
    /\ IsInjective(shown[u])

\* When two users exchange requests with each other in a round that succeeds,
\* a text that one of them sent is printed by the other once the response is
\* handled, unless the receiver switched while the request was made.
Exchanged ==
  \A u \in User, r \in Round : \A v \in User \ {u} :
    /\ pc[u][r] = "finished" /\ InBatch(v, r)
    /\ request[u][r].peer = v /\ request[v][r].peer = u
    /\ ~Split(u, r)
    /\ request[v][r].msg.body # Timestamp
    => [name |-> v, text |-> request[v][r].msg.body] \in Range(shown[u])

\* The places in queues where u's text number k waits.
Waiting(u, k) ==
  {at \in User \X (1 .. QueueCap) :
     LET q == outQueue[u][at[1]] IN at[2] <= Len(q) /\ q[at[2]].k = k}

\* The rounds whose request carries it.
Carried(u, k) ==
  {r \in Round : request[u][r] # None /\ request[u][r].msg.body # Timestamp
                 /\ request[u][r].msg.body.k = k}

\* A text that was typed is in the GUI thread, in one queue or in the request
\* of exactly one round: concurrent announcements neither send it twice nor
\* drop it.
TextAccounted ==
  \A u \in User : \A k \in 1 .. typed[u] :
    Cardinality(Waiting(u, k)) + Cardinality(Carried(u, k))
      + (IF gui[u] # None /\ gui[u].k = k THEN 1 ELSE 0) = 1

\* When a response has been handled nothing about its round is left in
\* roundHandlers, and a message is left in pendingRounds exactly when the
\* user switched between the two reads of convoHandler; that response is
\* the only kind that HandleConvoResponse finds no pending round for.
LeftoverOnlyOnSwitch ==
  \A u \in User, r \in Round : pc[u][r] = "finished" =>
    /\ roundHandlers[u][r] = None
    /\ (\E p \in User : pendingRounds[u][p][r] # None) <=> Split(u, r)

\* The client's conversation is the one selected in the GUI, unless the last
\* switch came while Connect was activating the conversation selected before.
HandlerFollowsGui ==
  \A u \in User : stage[u] = "online" /\ ~raced[u] =>
    convoHandler[u] = selectedConvo[u]
=============================================================================
