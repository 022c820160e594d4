------------------------------- MODULE Client -------------------------------
(***************************************************************************)
(* The threads of one client: the GUI thread, which hands dial requests    *)
(* and texts to bounded channels and waits when they are full; the         *)
(* goroutine that connects; and a goroutine for every announced round,     *)
(* which takes from a channel what there is and writes a request to the    *)
(* one websocket, under the mutex that also guards the selected            *)
(* conversation.  A connection that fails is closed and not made again.    *)
(*                                                                         *)
(* Rounds go on for ever: an announcement is known by the slot it takes    *)
(* among those being handled at one time, and slots are used again.        *)
(* What requests and responses mean is the subject of Conversation.        *)
(***************************************************************************)
EXTENDS Integers, Sequences, FiniteSets

CONSTANTS
  Peer, Me,      \* whom one can talk to; oneself is one of them
  DialCap,       \* capacity of userDialRequests (4 in the code)
  TextCap,       \* capacity of a conversation's outQueue (64 in the code)
  Slots,         \* bound: Slots[svc] announcements are handled at one time
  MaxDials,      \* bound: /dial commands
  MaxTexts,      \* bound: texts typed
  MaxTalks,      \* bound: /talk commands
  None           \* no value

Service == {"convo", "dial"}

Task == UNION {{svc} \X (1 .. Slots[svc]) : svc \in Service}

\* What the GUI thread may be waiting to do; commands are numbered.
Wish == [do : {"dial", "text"}, k : Nat] \cup [do : {"talk"}]

ASSUME ClientAssumption ==
  /\ Me \in Peer
  /\ DialCap \in Nat \ {0} /\ TextCap \in Nat \ {0}
  /\ Slots \in [Service -> Nat \ {0}]
  /\ MaxDials \in Nat /\ MaxTexts \in Nat /\ MaxTalks \in Nat
  /\ None \notin Peer \cup Task \cup Wish

VARIABLES
  conn,              \* "offline" (gc.client is nil), "created" (Connect has read
                     \* selectedConvo), "activated", "online", "broken" (reads
                     \* and writes fail) or "closed" (also when dialing failed)
  arg,               \* the conversation Connect activates
  selectedConvo,     \* the GUI's conversation
  convoHandler,      \* the client's conversation
  gui,               \* what the GUI thread is waiting to do, or None
  entered,           \* entered[what]: how many commands there were
  userDialRequests,
  outQueue,          \* outQueue[p]
  mu,                \* the Client's mutex: the task that writes, or None
  pc,                \* pc[t]: how far the goroutine of an announcement is
  carried            \* history: carried[what][k] requests carried command k

inputVars == <<selectedConvo, gui, entered>>
queueVars == <<userDialRequests, outQueue, carried>>
vars == <<conn, arg, inputVars, convoHandler, queueVars, mu, pc>>

Init ==
  /\ conn = "offline" /\ arg = None
  /\ selectedConvo = Me /\ convoHandler = None
  /\ gui = None
  /\ entered = [dial |-> 0, text |-> 0, talk |-> 0]
  /\ userDialRequests = <<>>
  /\ outQueue = [p \in Peer |-> <<>>]
  /\ mu = None
  /\ pc = [t \in Task |-> "idle"]
  /\ carried = [dial |-> [k \in 1 .. MaxDials |-> 0], text |-> [k \in 1 .. MaxTexts |-> 0]]

-----------------------------------------------------------------------------
\* The GUI thread

Enter(what, max) ==
  /\ gui = None
  /\ entered[what] < max
  /\ entered' = [entered EXCEPT ![what] = @ + 1]

\* handleLine, "/dial": QueueRequest is called.
EnterDial ==
  /\ Enter("dial", MaxDials)
  /\ gui' = [do |-> "dial", k |-> entered'.dial]
  /\ UNCHANGED <<conn, arg, selectedConvo, convoHandler, queueVars, mu, pc>>

\* handleLine with a text: QueueTextMessage of the selected conversation.
EnterText ==
  /\ Enter("text", MaxTexts)
  /\ gui' = [do |-> "text", k |-> entered'.text]
  /\ UNCHANGED <<conn, arg, selectedConvo, convoHandler, queueVars, mu, pc>>

\* handleLine, "/talk": switchConversation, and activateConvo if the client
\* exists.
EnterTalk(p) ==
  /\ Enter("talk", MaxTalks)
  /\ selectedConvo' = p
  /\ gui' = IF conn = "offline" THEN None ELSE [do |-> "talk"]
  /\ UNCHANGED <<conn, arg, convoHandler, queueVars, mu, pc>>

\* d.userDialRequests <- publicKey
QueueRequest ==
  /\ gui # None /\ gui.do = "dial"
  /\ Len(userDialRequests) < DialCap
  /\ userDialRequests' = Append(userDialRequests, gui.k)
  /\ gui' = None
  /\ UNCHANGED <<conn, arg, selectedConvo, entered, convoHandler, outQueue, carried, mu, pc>>

\* c.outQueue <- msg
QueueTextMessage ==
  /\ gui # None /\ gui.do = "text"
  /\ Len(outQueue[selectedConvo]) < TextCap
  /\ outQueue' = [outQueue EXCEPT ![selectedConvo] = Append(@, gui.k)]
  /\ gui' = None
  /\ UNCHANGED <<conn, arg, selectedConvo, entered, convoHandler, userDialRequests,
                 carried, mu, pc>>

\* Client.SetConvoHandler, from activateConvo.
SetConvoHandler ==
  /\ gui # None /\ gui.do = "talk"
  /\ mu = None
  /\ convoHandler' = selectedConvo
  /\ gui' = None
  /\ UNCHANGED <<conn, arg, selectedConvo, entered, queueVars, mu, pc>>

-----------------------------------------------------------------------------
\* The goroutine that connects

\* GuiClient.Connect: the client is made and gc.selectedConvo is read.
ConnectStart ==
  /\ conn = "offline"
  /\ conn' = "created" /\ arg' = selectedConvo
  /\ UNCHANGED <<inputVars, convoHandler, queueVars, mu, pc>>

\* activateConvo of what was read.
ConnectActivate ==
  /\ conn = "created"
  /\ conn' = "activated" /\ arg' = None
  /\ convoHandler' = arg
  /\ UNCHANGED <<inputVars, queueVars, mu, pc>>

\* Client.Connect dials the entry server, once.
ConnectDial ==
  /\ conn = "activated"
  /\ conn' \in {"online", "closed"}
  /\ UNCHANGED <<arg, inputVars, convoHandler, queueVars, mu, pc>>

-----------------------------------------------------------------------------
\* The connection and the goroutines of announced rounds

\* The network or the entry server breaks the connection.
Break ==
  /\ conn = "online"
  /\ conn' = "broken"
  /\ UNCHANGED <<arg, inputVars, convoHandler, queueVars, mu, pc>>

\* readLoop: ReadJSON fails, the connection is closed and the loop ends.
ReadFails ==
  /\ conn = "broken"
  /\ conn' = "closed"
  /\ UNCHANGED <<arg, inputVars, convoHandler, queueVars, mu, pc>>

\* readLoop reads an announcement: go c.handleResponse(v)
Announced(t) ==
  /\ conn = "online"
  /\ pc[t] = "idle"
  /\ pc' = [pc EXCEPT ![t] = "told"]
  /\ UNCHANGED <<conn, arg, inputVars, convoHandler, queueVars, mu>>

\* Client.nextConvoRequest, the part under the mutex.  (What it enters into
\* roundHandlers is in Conversation.)
PickHandler(t) ==
  /\ t[1] = "convo" /\ pc[t] = "told"
  /\ mu = None
  /\ pc' = [pc EXCEPT ![t] = "picked"]
  /\ UNCHANGED <<conn, arg, inputVars, convoHandler, queueVars, mu>>

\* Conversation.NextConvoRequest of the conversation found now: with a text
\* if there is one, or with a timestamp.
NextConvoRequest(t) ==
  LET q == outQueue[convoHandler] IN
  /\ t[1] = "convo" /\ pc[t] = "picked"
  /\ IF q = <<>> THEN UNCHANGED <<outQueue, carried>>
     ELSE /\ outQueue' = [outQueue EXCEPT ![convoHandler] = Tail(@)]
          /\ carried' = [carried EXCEPT !.text[Head(q)] = @ + 1]
  /\ pc' = [pc EXCEPT ![t] = "made"]
  /\ UNCHANGED <<conn, arg, inputVars, convoHandler, userDialRequests, mu>>

\* Mutant: the select has no default, and without a dial there is no request.
NextDialRequestWaits(t) ==
  /\ t[1] = "dial" /\ pc[t] = "told"
  /\ userDialRequests # <<>>
  /\ userDialRequests' = Tail(userDialRequests)
  /\ carried' = [carried EXCEPT !.dial[Head(userDialRequests)] = @ + 1]
  /\ pc' = [pc EXCEPT ![t] = "made"]
  /\ UNCHANGED <<conn, arg, inputVars, convoHandler, outQueue, mu>>

\* Mutant: the request is looked at and taken off the queue by different
\* steps, so that two rounds may find the same one.
NextDialRequestRacy(t) ==
  /\ t[1] = "dial" /\ pc[t] = "told"
  /\ IF userDialRequests = <<>> THEN UNCHANGED <<userDialRequests, carried>>
     ELSE /\ userDialRequests' \in {userDialRequests, Tail(userDialRequests)}
          /\ carried' = [carried EXCEPT !.dial[Head(userDialRequests)] = @ + 1]
  /\ pc' = [pc EXCEPT ![t] = "made"]
  /\ UNCHANGED <<conn, arg, inputVars, convoHandler, outQueue, mu>>

\* Dialer.NextDialRequest: with a queued dial, or with a fake introduction.
NextDialRequest(t) ==
  /\ t[1] = "dial" /\ pc[t] = "told"
  /\ IF userDialRequests = <<>> THEN UNCHANGED <<userDialRequests, carried>>
     ELSE /\ userDialRequests' = Tail(userDialRequests)
          /\ carried' = [carried EXCEPT !.dial[Head(userDialRequests)] = @ + 1]
  /\ pc' = [pc EXCEPT ![t] = "made"]
  /\ UNCHANGED <<conn, arg, inputVars, convoHandler, outQueue, mu>>

\* Client.Send: c.Lock(), and WriteJSON with a deadline begins.
SendLock(t) ==
  /\ pc[t] = "made" /\ mu = None
  /\ mu' = t
  /\ pc' = [pc EXCEPT ![t] = "writing"]
  /\ UNCHANGED <<conn, arg, inputVars, convoHandler, queueVars>>

\* The request is written.
SendOK(t) ==
  /\ pc[t] = "writing" /\ conn = "online"
  /\ mu' = None
  /\ pc' = [pc EXCEPT ![t] = "idle"]
  /\ UNCHANGED <<conn, arg, inputVars, convoHandler, queueVars>>

\* Mutant: Send returns early without c.Unlock().
SendFailsLocked(t) ==
  /\ pc[t] = "writing"
  /\ conn' = "closed"
  /\ pc' = [pc EXCEPT ![t] = "idle"]
  /\ UNCHANGED <<arg, inputVars, convoHandler, queueVars, mu>>

\* WriteJSON fails, be it that the deadline has passed: c.Close()
SendFails(t) ==
  /\ pc[t] = "writing"
  /\ mu' = None
  /\ conn' = "closed"
  /\ pc' = [pc EXCEPT ![t] = "idle"]
  /\ UNCHANGED <<arg, inputVars, convoHandler, queueVars>>

Input   == EnterDial \/ EnterText \/ \E p \in Peer : EnterTalk(p)
GuiStep == QueueRequest \/ QueueTextMessage \/ SetConvoHandler
Connect == ConnectStart \/ ConnectActivate \/ ConnectDial
Handle(t) ==
  \/ PickHandler(t) \/ NextConvoRequest(t) \/ NextDialRequest(t)
  \/ SendLock(t) \/ SendOK(t) \/ SendFails(t)

Next == Input \/ GuiStep \/ Connect \/ Break \/ ReadFails
        \/ \E t \in Task : Announced(t) \/ Handle(t)

Spec == Init /\ [][Next]_vars

\* Goroutines are scheduled fairly, and sync.Mutex hands itself to a waiter
\* that has starved (since Go 1.9): hence strong fairness for what waits for
\* it.  A write ends by its deadline.  The entry server goes on announcing
\* rounds of both kinds while the connection holds.  The user may stop typing
\* at any time.
FairSpec ==
  /\ Spec
  /\ SF_vars(GuiStep)
  /\ WF_vars(Connect) /\ WF_vars(ReadFails)
  /\ \A t \in Task : SF_vars(Handle(t))
  /\ \A svc \in Service : WF_vars(\E t \in Task : t[1] = svc /\ Announced(t))

-----------------------------------------------------------------------------
\* The channels that hold commands of a kind.
Channels(what) == IF what = "dial" THEN [p \in {Me} |-> userDialRequests] ELSE outQueue

\* The places of command k in a channel.
Spots(k, q) == {i \in DOMAIN q : q[i] = k}

\* Where command k of a kind is: with the GUI thread, in a channel, or in the
\* requests that carried it.
Places(what, k) ==
  {<<"gui", g, 0>> : g \in {gui} \cap {[do |-> what, k |-> k]}}
  \cup (UNION {{<<"channel", p, i>> : i \in Spots(k, Channels(what)[p])} :
               p \in DOMAIN Channels(what)})
  \cup {<<"request", k, i>> : i \in 1 .. carried[what][k]}

\* Every /dial and every text is with the GUI thread, in a channel or in
\* exactly one request, however the goroutines of overlapping rounds and the
\* GUI thread take turns; channels keep the order in which they were entered.
CommandsAccounted ==
  \A what \in {"dial", "text"} :
    /\ \A k \in 1 .. entered[what] : Cardinality(Places(what, k)) = 1
    /\ \A p \in DOMAIN Channels(what) : \A i, j \in DOMAIN Channels(what)[p] :
         i < j => Channels(what)[p][i] < Channels(what)[p][j]

\* Every announced round gets a request, whatever the user does and however
\* long the GUI thread or another round's write keeps something: cover
\* traffic does not depend on the user.
CoverTraffic == \A t \in Task : pc[t] = "told" ~> pc[t] = "writing"

\* There is no connection, and there will be none.
Lost == conn \in {"broken", "closed"}

\* The GUI thread, which also handles the keys that quit, does not hang:
\* not at all for /talk; for /dial and for a text, whose channels may be full
\* of what was entered before, as long as the connection holds.  A text also
\* waits for ever when Connect has activated another conversation than the
\* one that the user has selected in the meantime.
Responsive ==
  LET Does(what) == gui # None /\ gui.do = what
      Stranded == /\ conn \notin {"offline", "created"}
                  /\ convoHandler # selectedConvo
  IN /\ Does("talk") ~> gui = None
     /\ Does("dial") ~> gui = None \/ Lost
     /\ Does("text") ~> gui = None \/ Lost \/ Stranded
=============================================================================
