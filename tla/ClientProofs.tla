---------------------------- MODULE ClientProofs ----------------------------
(***************************************************************************)
(* No /dial command and no text of the user is lost or sent twice, for     *)
(* every capacity of the channels and every number of peers, commands and  *)
(* rounds handled at one time.                                             *)
(***************************************************************************)
EXTENDS Client, FiniteSetTheorems, TLAPS

\* Commands of one kind on their way: of those numbered 1 to n, the GUI thread
\* holds w (none if w is 0), the channels hold others, in order and each in
\* one place, and the rest were carried once.
Accounts(D, w, n, max, ch, ca) ==
  /\ n \in 0 .. max /\ w \in {0, n}
  /\ ch \in [D -> Seq(1 .. max)]
  /\ ca \in [1 .. max -> {0, 1}]
  /\ \A k \in 1 .. max : k > n => ca[k] = 0
  /\ w # 0 => ca[w] = 0
  /\ \A p \in D : \A i \in DOMAIN ch[p] :
       ch[p][i] <= n /\ ch[p][i] # w /\ ca[ch[p][i]] = 0
  /\ \A p \in D : \A i, j \in DOMAIN ch[p] : i < j => ch[p][i] < ch[p][j]
  /\ \A p, r \in D : \A i \in DOMAIN ch[p], j \in DOMAIN ch[r] :
       ch[p][i] = ch[r][j] => p = r
  /\ \A k \in 1 .. n : \/ k = w \/ ca[k] = 1
                       \/ \E p \in D : \E i \in DOMAIN ch[p] : ch[p][i] = k

\* A command is entered.
LEMMA Enters ==
  ASSUME NEW D, NEW n, NEW max \in Nat, NEW ch, NEW ca,
         Accounts(D, 0, n, max, ch, ca), n < max
  PROVE  Accounts(D, n + 1, n + 1, max, ch, ca)
<1>1. n \in Nat /\ n + 1 \in 0 .. max /\ n + 1 \in 1 .. max /\ n + 1 # 0
  BY DEF Accounts
<1>2. ca[n + 1] = 0
  BY <1>1 DEF Accounts
<1>3. ASSUME NEW p \in D, NEW i \in DOMAIN ch[p]
      PROVE  ch[p][i] <= n + 1 /\ ch[p][i] # n + 1 /\ ca[ch[p][i]] = 0
  <2>1. ch[p][i] \in 1 .. max
    BY DEF Accounts
  <2>2. ch[p][i] <= n /\ ca[ch[p][i]] = 0
    BY DEF Accounts
  <2> QED BY <1>1, <2>1, <2>2
<1>4. \A k \in 1 .. max : k > n + 1 => ca[k] = 0
  BY <1>1 DEF Accounts
<1>5. ASSUME NEW k \in 1 .. n + 1
      PROVE  \/ k = n + 1 \/ ca[k] = 1
             \/ \E p \in D : \E i \in DOMAIN ch[p] : ch[p][i] = k
  BY <1>1 DEF Accounts
<1> QED BY <1>1, <1>2, <1>3, <1>4, <1>5 DEF Accounts

\* The GUI thread puts what it holds into a channel.
LEMMA Enqueues ==
  ASSUME NEW D, NEW w, NEW n, NEW max \in Nat, NEW ch, NEW ca,
         Accounts(D, w, n, max, ch, ca), w # 0, NEW r \in D
  PROVE  Accounts(D, 0, n, max, [ch EXCEPT ![r] = Append(@, w)], ca)
<1> DEFINE new == [ch EXCEPT ![r] = Append(@, w)]
           l   == Len(ch[r])
<1>1. /\ n \in Nat /\ n \in 0 .. max /\ w = n /\ w \in 1 .. max /\ ch[r] \in Seq(1 .. max)
      /\ ch \in [D -> Seq(1 .. max)]
  BY DEF Accounts
<1>2. /\ l \in Nat /\ DOMAIN ch[r] = 1 .. l
      /\ Append(ch[r], w) \in Seq(1 .. max)
      /\ DOMAIN Append(ch[r], w) = 1 .. l + 1
      /\ Append(ch[r], w)[l + 1] = w
      /\ \A i \in 1 .. l : Append(ch[r], w)[i] = ch[r][i]
  BY <1>1
<1>3. /\ new \in [D -> Seq(1 .. max)]
      /\ new[r] = Append(ch[r], w)
      /\ \A p \in D : p # r => new[p] = ch[p]
  BY <1>1, <1>2
<1> HIDE DEF new, l
<1>4. \A p \in D : \A i \in DOMAIN new[p] :
        \/ i \in DOMAIN ch[p] /\ new[p][i] = ch[p][i]
        \/ p = r /\ i = l + 1 /\ new[p][i] = w
  <2>1. \A i \in 1 .. l + 1 : i \in 1 .. l \/ i = l + 1
    BY <1>2
  <2> QED BY <1>2, <1>3, <2>1, Zenon
<1>5. \A p \in D : \A i \in DOMAIN ch[p] : i \in DOMAIN new[p] /\ new[p][i] = ch[p][i]
  <2>1. \A i \in 1 .. l : i \in 1 .. l + 1
    BY <1>2
  <2> QED BY <1>2, <1>3, <2>1, Zenon
<1>6. \A p \in D : \A i \in DOMAIN ch[p] :
        ch[p][i] \in 1 .. max /\ ch[p][i] <= n /\ ch[p][i] # w /\ ca[ch[p][i]] = 0
  BY DEF Accounts
<1>7. ca[w] = 0
  BY DEF Accounts
<1>8. \A p \in D : \A i \in DOMAIN new[p] :
        new[p][i] <= n /\ new[p][i] # 0 /\ ca[new[p][i]] = 0
  <2>1. w <= n /\ w # 0
    BY <1>1
  <2>2. \A p \in D : \A i \in DOMAIN ch[p] : ch[p][i] # 0
    BY <1>6
  <2> QED BY <1>4, <1>6, <1>7, <2>1, <2>2
<1>9. ASSUME NEW p \in D, NEW i \in DOMAIN new[p], NEW j \in DOMAIN new[p], i < j
      PROVE  new[p][i] < new[p][j]
  <2>1. CASE i \in DOMAIN ch[p] /\ j \in DOMAIN ch[p]
    BY <1>5, <1>9, <2>1 DEF Accounts
  <2>2. CASE p = r /\ j = l + 1 /\ i \in DOMAIN ch[p]
    <3>1. new[p][j] = w /\ new[p][i] = ch[p][i]
      BY <1>2, <1>3, <1>5, <2>2
    <3>2. ch[p][i] \in 1 .. max /\ ch[p][i] <= n /\ ch[p][i] # w
      BY <1>6, <2>2
    <3> QED BY <1>1, <3>1, <3>2
  <2>3. CASE p = r /\ i = l + 1
    BY <1>2, <1>3, <1>9, <2>3
  <2> QED BY <1>4, <2>1, <2>2, <2>3
<1>10. ASSUME NEW p \in D, NEW s \in D, NEW i \in DOMAIN new[p], NEW j \in DOMAIN new[s],
              new[p][i] = new[s][j]
       PROVE  p = s
  <2>1. \A a, b \in D : \A x \in DOMAIN ch[a], y \in DOMAIN ch[b] : ch[a][x] = ch[b][y] => a = b
    BY DEF Accounts
  <2> QED BY <1>4, <1>6, <1>10, <2>1
<1>11. ASSUME NEW k \in 1 .. n
       PROVE  \/ k = 0 \/ ca[k] = 1
              \/ \E p \in D : \E i \in DOMAIN new[p] : new[p][i] = k
  <2>1. CASE k = w
    <3>1. l + 1 \in DOMAIN new[r] /\ new[r][l + 1] = w
      BY <1>2, <1>3
    <3> QED BY <2>1, <3>1
  <2>2. CASE k # w
    <3>1. ca[k] = 1 \/ \E p \in D : \E i \in DOMAIN ch[p] : ch[p][i] = k
      BY <2>2 DEF Accounts
    <3> QED BY <1>5, <3>1
  <2> QED BY <2>1, <2>2
<1>12. \A k \in 1 .. max : k > n => ca[k] = 0
  BY DEF Accounts
<1>13. ca \in [1 .. max -> {0, 1}]
  BY DEF Accounts
<1>14. Accounts(D, 0, n, max, new, ca)
  BY <1>1, <1>3, <1>8, <1>9, <1>10, <1>11, <1>12, <1>13 DEF Accounts
<1> QED BY <1>14 DEF new

\* A round takes the first command off a channel and carries it.
LEMMA Dequeues ==
  ASSUME NEW D, NEW w, NEW n, NEW max \in Nat, NEW ch, NEW ca,
         Accounts(D, w, n, max, ch, ca), NEW r \in D, ch[r] # <<>>
  PROVE  Accounts(D, w, n, max, [ch EXCEPT ![r] = Tail(@)],
                  [ca EXCEPT ![Head(ch[r])] = @ + 1])
<1> DEFINE new == [ch EXCEPT ![r] = Tail(@)]
           l   == Len(ch[r])
           h   == Head(ch[r])
           nca == [ca EXCEPT ![h] = @ + 1]
<1>1. /\ n \in Nat /\ n \in 0 .. max /\ w \in {0, n} /\ ch[r] \in Seq(1 .. max)
      /\ ch \in [D -> Seq(1 .. max)] /\ ca \in [1 .. max -> {0, 1}]
  BY DEF Accounts
<1>2. /\ l \in Nat /\ l >= 1 /\ DOMAIN ch[r] = 1 .. l
      /\ Tail(ch[r]) \in Seq(1 .. max)
      /\ DOMAIN Tail(ch[r]) = 1 .. l - 1
      /\ \A i \in 1 .. l - 1 : Tail(ch[r])[i] = ch[r][i + 1]
      /\ h = ch[r][1] /\ h \in 1 .. max
  <2>1. l \in Nat /\ l >= 1 /\ DOMAIN ch[r] = 1 .. l
    BY <1>1
  <2>2. /\ Tail(ch[r]) \in Seq(1 .. max)
        /\ Len(Tail(ch[r])) = l - 1
        /\ \A i \in 1 .. l - 1 : Tail(ch[r])[i] = ch[r][i + 1]
    BY <1>1, <2>1
  <2>3. DOMAIN Tail(ch[r]) = 1 .. l - 1
    BY <2>2
  <2>4. h = ch[r][1] /\ h \in 1 .. max
    BY <1>1, <2>1
  <2> QED BY <2>1, <2>2, <2>3, <2>4
<1>3. /\ new \in [D -> Seq(1 .. max)]
      /\ new[r] = Tail(ch[r])
      /\ \A p \in D : p # r => new[p] = ch[p]
  BY <1>1, <1>2
<1>4. /\ 1 \in DOMAIN ch[r] /\ ch[r][1] = h
      /\ h <= n /\ h # w /\ ca[h] = 0
  BY <1>2 DEF Accounts
<1>5. /\ nca \in [1 .. max -> {0, 1}] /\ nca[h] = 1
      /\ \A k \in 1 .. max : k # h => nca[k] = ca[k]
  BY <1>1, <1>2, <1>4
<1> HIDE DEF new, l, h, nca
\* Where an entry of the new channel was in the old one.
<1> DEFINE Old(p, i) == IF p = r THEN i + 1 ELSE i
<1>6. ASSUME NEW p \in D, NEW i \in DOMAIN new[p]
      PROVE  /\ Old(p, i) \in DOMAIN ch[p] /\ new[p][i] = ch[p][Old(p, i)]
             /\ new[p][i] # h
  <2>1. CASE p = r
    <3>0. i \in 1 .. l - 1 /\ new[p][i] = ch[r][i + 1]
      BY <1>2, <1>3, <2>1, Zenon
    <3>1. i + 1 \in 1 .. l /\ 1 \in 1 .. l /\ new[p][i] = ch[r][i + 1] /\ 1 < i + 1
      BY <1>2, <3>0
    <3>2. ch[r][1] < ch[r][i + 1]
      <4>1. \A a, b \in DOMAIN ch[r] : a < b => ch[r][a] < ch[r][b]
        BY DEF Accounts
      <4> QED BY <1>2, <3>1, <4>1, SMTT(30)
    <3>3. ch[r][i + 1] \in Int /\ ch[r][1] \in Int
      BY <1>1, <1>2, <3>1
    <3> QED BY <1>2, <1>4, <2>1, <3>1, <3>2, <3>3
  <2>2. CASE p # r
    <3>1. new[p] = ch[p]
      BY <1>3, <2>2
    <3> QED BY <1>4, <2>2, <3>1 DEF Accounts
  <2> QED BY <2>1, <2>2
<1>7. \A p \in D : \A i, j \in DOMAIN new[p] : i < j => Old(p, i) < Old(p, j)
  <2>1. \A p \in D : \A i \in DOMAIN new[p] : i \in Int
    BY <1>3
  <2> QED BY <2>1
<1> HIDE DEF Old
<1>8. \A p \in D : \A i \in DOMAIN new[p] :
        new[p][i] \in 1 .. max /\ new[p][i] <= n /\ new[p][i] # w /\ nca[new[p][i]] = 0
  <2>1. \A p \in D : \A i \in DOMAIN ch[p] :
          ch[p][i] \in 1 .. max /\ ch[p][i] <= n /\ ch[p][i] # w /\ ca[ch[p][i]] = 0
    BY DEF Accounts
  <2> QED BY <1>5, <1>6, <2>1
<1>9. \A p \in D : \A i, j \in DOMAIN new[p] : i < j => new[p][i] < new[p][j]
  <2>1. \A p \in D : \A i, j \in DOMAIN ch[p] : i < j => ch[p][i] < ch[p][j]
    BY DEF Accounts
  <2> QED BY <1>6, <1>7, <2>1
<1>10. \A p, s \in D : \A i \in DOMAIN new[p], j \in DOMAIN new[s] :
         new[p][i] = new[s][j] => p = s
  <2>1. \A a, b \in D : \A x \in DOMAIN ch[a], y \in DOMAIN ch[b] : ch[a][x] = ch[b][y] => a = b
    BY DEF Accounts
  <2> QED BY <1>6, <2>1
<1>11. ASSUME NEW k \in 1 .. n
       PROVE  \/ k = w \/ nca[k] = 1
              \/ \E p \in D : \E i \in DOMAIN new[p] : new[p][i] = k
  <2>0. k \in 1 .. max
    BY <1>1
  <2>1. CASE k = w \/ k = h \/ ca[k] = 1
    BY <1>5, <2>0, <2>1
  <2>2. ASSUME NEW p \in D, NEW i \in DOMAIN ch[p], ch[p][i] = k, k # h
        PROVE  \E j \in DOMAIN new[p] : new[p][j] = k
    <3>1. CASE p # r
      BY <1>3, <2>2, <3>1
    <3>2. CASE p = r
      <4>1. i \in 1 .. l /\ i # 1
        BY <1>2, <2>2, <3>2
      <4>2. i - 1 \in 1 .. l - 1 /\ (i - 1) + 1 = i
        BY <1>2, <4>1
      <4>3. new[r][i - 1] = k
        BY <1>2, <1>3, <2>2, <3>2, <4>2
      <4> QED BY <1>2, <1>3, <3>2, <4>2, <4>3, Zenon
    <3> QED BY <3>1, <3>2
  <2> QED BY <2>1, <2>2, Zenon DEF Accounts
<1>12. \A k \in 1 .. max : k > n => nca[k] = 0
  <2>1. \A k \in 1 .. max : k > n => ca[k] = 0
    BY DEF Accounts
  <2> QED BY <1>1, <1>2, <1>4, <1>5, <2>1
<1>13. w # 0 => nca[w] = 0
  <2>1. w # 0 => w \in 1 .. max /\ ca[w] = 0
    BY <1>1 DEF Accounts
  <2> QED BY <1>4, <1>5, <2>1
<1>14. Accounts(D, w, n, max, new, nca)
  BY <1>1, <1>3, <1>5, <1>8, <1>9, <1>10, <1>11, <1>12, <1>13 DEF Accounts
<1> QED BY <1>14 DEF new, nca, h

\* Where a command is: the GUI thread holds it, or a request carries it, or it
\* is at one position of one channel.
AtGui(D, w, ch, ca, k) ==
  k = w /\ ca[k] = 0 /\ \A p \in D : \A i \in DOMAIN ch[p] : ch[p][i] # k

InRequest(D, w, ch, ca, k) ==
  k # w /\ ca[k] = 1 /\ \A p \in D : \A i \in DOMAIN ch[p] : ch[p][i] # k

InChannel(D, w, ch, ca, k) ==
  /\ k # w /\ ca[k] = 0
  /\ \E p \in D : \E i \in DOMAIN ch[p] :
       /\ ch[p][i] = k
       /\ \A r \in D : \A j \in DOMAIN ch[r] : ch[r][j] = k => r = p /\ j = i

\* A command that was entered is in exactly one place.
LEMMA OnePlace ==
  ASSUME NEW D, NEW w, NEW n, NEW max \in Nat, NEW ch, NEW ca,
         Accounts(D, w, n, max, ch, ca), NEW k \in 1 .. n
  PROVE  AtGui(D, w, ch, ca, k) \/ InRequest(D, w, ch, ca, k) \/ InChannel(D, w, ch, ca, k)
<1> USE DEF AtGui, InRequest, InChannel
<1>1. n \in 0 .. max /\ k \in 1 .. max /\ ca[k] \in {0, 1} /\ ch \in [D -> Seq(1 .. max)]
  BY DEF Accounts
<1>2. CASE k = w
  BY <1>1, <1>2 DEF Accounts
<1>3. CASE ca[k] = 1
  <2>1. k # w
    BY <1>1, <1>3 DEF Accounts
  <2>2. \A p \in D : \A i \in DOMAIN ch[p] : ca[ch[p][i]] = 0
    BY DEF Accounts
  <2> QED BY <1>3, <2>1, <2>2
<1>4. CASE k # w /\ ca[k] # 1
  <2>1. PICK p \in D : \E i \in DOMAIN ch[p] : ch[p][i] = k
    BY <1>4 DEF Accounts
  <2>2. PICK i \in DOMAIN ch[p] : ch[p][i] = k
    BY <2>1
  <2>3. ASSUME NEW r \in D, NEW j \in DOMAIN ch[r], ch[r][j] = k PROVE r = p /\ j = i
    <3>1. r = p
      BY <2>2, <2>3 DEF Accounts
    <3>2. j \in Int /\ i \in Int
      BY <1>1
    <3>3. \A a, b \in DOMAIN ch[p] : a < b => ch[p][a] < ch[p][b]
      BY DEF Accounts
    <3>4. ~(k < k)
      BY <1>1
    <3>5. ~(i < j) /\ ~(j < i)
      BY <2>2, <2>3, <3>1, <3>3, <3>4
    <3> QED BY <3>1, <3>2, <3>5
  <2> QED BY <1>1, <1>4, <2>2, <2>3
<1> QED BY <1>2, <1>3, <1>4

-----------------------------------------------------------------------------
\* The command of a kind that the GUI thread holds, 0 if there is none.
Holds(what) == IF gui # None /\ gui.do = what THEN gui.k ELSE 0

DialAccounts ==
  Accounts({Me}, Holds("dial"), entered.dial, MaxDials, [p \in {Me} |-> userDialRequests],
           carried.dial)

TextAccounts ==
  Accounts(Peer, Holds("text"), entered.text, MaxTexts, outQueue, carried.text)

\* The types, and that a round finds a conversation: announcements come on a
\* connection, which is made after the first conversation is activated.
ClientTypes ==
  /\ selectedConvo \in Peer
  /\ gui \in {None} \cup [do : {"dial", "text"}, k : Nat \ {0}] \cup [do : {"talk"}]
  /\ entered \in [dial : Nat, text : Nat, talk : Nat]
  /\ DOMAIN carried = {"dial", "text"}
  /\ conn = "created" => arg \in Peer
  /\ conn \notin {"offline", "created"} => convoHandler \in Peer
  /\ pc \in [Task -> {"idle", "told", "picked", "made", "writing"}]
  /\ \A t \in Task : pc[t] # "idle" => conn \notin {"offline", "created"}

(***************************************************************************)
(* The inductive invariant: the accounts of the two kinds of commands, and *)
(* the order of Connect that lets every round find a conversation.         *)
(***************************************************************************)
ClientInv == ClientTypes /\ DialAccounts /\ TextAccounts

LEMMA InitClient == Init => ClientInv
<1> SUFFICES ASSUME Init PROVE ClientInv
  OBVIOUS
<1>0. Me \in Peer /\ MaxDials \in Nat /\ MaxTexts \in Nat
  BY ClientAssumption DEF ClientAssumption
<1>1. ClientTypes
  BY <1>0 DEF Init, ClientTypes
<1>2. Holds("dial") = 0 /\ Holds("text") = 0
  BY DEF Init, Holds
<1>3. ASSUME NEW D, NEW max \in Nat
      PROVE  Accounts(D, 0, 0, max, [p \in D |-> <<>>], [k \in 1 .. max |-> 0])
  BY <1>3 DEF Accounts
<1>4. DialAccounts
  BY <1>0, <1>2, <1>3, ZenonT(30) DEF Init, DialAccounts
<1>5. TextAccounts
  BY <1>0, <1>2, <1>3 DEF Init, TextAccounts
<1> QED BY <1>1, <1>4, <1>5 DEF ClientInv

\* The types are kept by every step.
LEMMA TypesKept == ClientInv /\ [Next]_vars => ClientTypes'
<1> SUFFICES ASSUME ClientInv, [Next]_vars PROVE ClientTypes'
  OBVIOUS
<1>t. ClientTypes
  BY DEF ClientInv
<1> USE DEF ClientTypes
<1>1. ASSUME EnterDial \/ EnterText PROVE ClientTypes'
  BY <1>t, <1>1 DEF EnterDial, EnterText, Enter, queueVars
<1>2. ASSUME NEW p \in Peer, EnterTalk(p) PROVE ClientTypes'
  BY <1>t, <1>2 DEF EnterTalk, Enter, queueVars
<1>3. CASE GuiStep
  BY <1>t, <1>3 DEF GuiStep, QueueRequest, QueueTextMessage, SetConvoHandler, queueVars
<1>4. CASE Connect
  BY <1>t, <1>4 DEF Connect, ConnectStart, ConnectActivate, ConnectDial, queueVars, inputVars
<1>5. CASE Break \/ ReadFails
  BY <1>t, <1>5 DEF Break, ReadFails, queueVars, inputVars
<1>6. ASSUME NEW t \in Task, Announced(t) \/ PickHandler(t) \/ SendLock(t) \/ SendOK(t)
                             \/ SendFails(t)
      PROVE  ClientTypes'
  BY <1>t, <1>6
     DEF Announced, PickHandler, SendLock, SendOK, SendFails, queueVars, inputVars
<1>7. ASSUME NEW t \in Task, NextConvoRequest(t) PROVE ClientTypes'
  BY <1>t, <1>7 DEF NextConvoRequest, inputVars
<1>8. ASSUME NEW t \in Task, NextDialRequest(t) PROVE ClientTypes'
  BY <1>t, <1>8 DEF NextDialRequest, inputVars
<1>9. CASE UNCHANGED vars
  BY <1>t, <1>9 DEF vars, queueVars, inputVars
<1> QED
  BY <1>1, <1>2, <1>3, <1>4, <1>5, <1>6, <1>7, <1>8, <1>9 DEF Next, Input, Handle

\* What a step that does not touch the commands of a kind leaves.
LEMMA DialsLeft ==
  ASSUME DialAccounts, entered'.dial = entered.dial, UNCHANGED userDialRequests,
         carried'.dial = carried.dial, Holds("dial")' = Holds("dial")
  PROVE  DialAccounts'
BY DEF DialAccounts

LEMMA TextsLeft ==
  ASSUME TextAccounts, entered'.text = entered.text, UNCHANGED outQueue,
         carried'.text = carried.text, Holds("text")' = Holds("text")
  PROVE  TextAccounts'
BY DEF TextAccounts

LEMMA NextClient == ClientInv /\ [Next]_vars => ClientInv'
<1> SUFFICES ASSUME ClientInv, [Next]_vars PROVE ClientInv'
  OBVIOUS
<1>0. /\ Me \in Peer /\ MaxDials \in Nat /\ MaxTexts \in Nat
      /\ None \notin [do : {"dial", "text"}, k : Nat]
      /\ None \notin [do : {"talk"}]
  BY ClientAssumption DEF ClientAssumption, Wish
<1>t. ClientTypes /\ ClientTypes' /\ DialAccounts /\ TextAccounts
  BY TypesKept DEF ClientInv
<1>k. SUFFICES DialAccounts' /\ TextAccounts'
  BY <1>t DEF ClientInv
<1>u. ASSUME UNCHANGED <<gui, entered, userDialRequests, outQueue, carried>>
      PROVE  DialAccounts' /\ TextAccounts'
  BY <1>t, <1>u, DialsLeft, TextsLeft DEF Holds
<1>1. CASE EnterDial
  <2>1. /\ gui = None /\ entered.dial < MaxDials
        /\ entered'.dial = entered.dial + 1 /\ entered'.text = entered.text
        /\ gui' = [do |-> "dial", k |-> entered.dial + 1]
        /\ UNCHANGED <<userDialRequests, outQueue, carried>>
    BY <1>t, <1>1 DEF EnterDial, Enter, ClientTypes, queueVars
  <2>2. gui' # None /\ gui'.do = "dial" /\ gui'.k = entered.dial + 1
    BY <1>0, <1>t, <2>1 DEF ClientTypes
  <2>3. Holds("dial")' = entered.dial + 1 /\ Holds("text")' = 0
    BY <2>2 DEF Holds
  <2>4. Holds("dial") = 0 /\ Holds("text") = 0
    BY <2>1 DEF Holds
  <2>5. DialAccounts'
    BY <1>0, <1>t, <2>1, <2>3, <2>4, Enters DEF DialAccounts
  <2> QED BY <1>t, <2>1, <2>3, <2>4, <2>5, TextsLeft
<1>2. CASE EnterText
  <2>1. /\ gui = None /\ entered.text < MaxTexts
        /\ entered'.text = entered.text + 1 /\ entered'.dial = entered.dial
        /\ gui' = [do |-> "text", k |-> entered.text + 1]
        /\ UNCHANGED <<userDialRequests, outQueue, carried>>
    BY <1>t, <1>2 DEF EnterText, Enter, ClientTypes, queueVars
  <2>2. gui' # None /\ gui'.do = "text" /\ gui'.k = entered.text + 1
    BY <1>0, <1>t, <2>1 DEF ClientTypes
  <2>3. Holds("text")' = entered.text + 1 /\ Holds("dial")' = 0
    BY <2>2 DEF Holds
  <2>4. Holds("dial") = 0 /\ Holds("text") = 0
    BY <2>1 DEF Holds
  <2>5. TextAccounts'
    BY <1>0, <1>t, <2>1, <2>3, <2>4, Enters DEF TextAccounts
  <2> QED BY <1>t, <2>1, <2>3, <2>4, <2>5, DialsLeft
<1>3. ASSUME NEW p \in Peer, EnterTalk(p) PROVE DialAccounts' /\ TextAccounts'
  <2>1. /\ gui = None
        /\ entered'.text = entered.text /\ entered'.dial = entered.dial
        /\ gui' = None \/ gui' = [do |-> "talk"]
        /\ UNCHANGED <<userDialRequests, outQueue, carried>>
    BY <1>t, <1>3 DEF EnterTalk, Enter, ClientTypes, queueVars
  <2>2. /\ Holds("dial")' = 0 /\ Holds("text")' = 0
        /\ Holds("dial") = 0 /\ Holds("text") = 0
    BY <2>1 DEF Holds
  <2> QED BY <1>t, <2>1, <2>2, DialsLeft, TextsLeft
<1>4. CASE QueueRequest
  <2>1. /\ gui # None /\ gui.do = "dial" /\ gui' = None /\ gui.k \in Nat \ {0}
        /\ userDialRequests' = Append(userDialRequests, gui.k)
        /\ UNCHANGED <<entered, outQueue, carried>>
    BY <1>t, <1>4 DEF QueueRequest, ClientTypes
  <2>2. /\ Holds("dial")' = 0 /\ Holds("text")' = 0
        /\ Holds("dial") = gui.k /\ Holds("text") = 0
    BY <2>1 DEF Holds
  <2>3. [[p \in {Me} |-> userDialRequests] EXCEPT ![Me] = Append(@, gui.k)]
        = [p \in {Me} |-> userDialRequests']
    BY <2>1, SMTT(30)
  <2>4. Me \in {Me} /\ gui.k # 0
    BY <2>1
  <2>5. DialAccounts'
    <3>1. Accounts({Me}, 0, entered.dial, MaxDials,
                   [[p \in {Me} |-> userDialRequests] EXCEPT ![Me] = Append(@, gui.k)],
                   carried.dial)
      BY <1>0, <1>t, <2>2, <2>4, Enqueues DEF DialAccounts
    <3> QED BY <2>1, <2>2, <2>3, <3>1 DEF DialAccounts
  <2> QED BY <1>t, <2>1, <2>2, <2>5, TextsLeft
<1>5. CASE QueueTextMessage
  <2>1. /\ gui # None /\ gui.do = "text" /\ gui' = None /\ gui.k \in Nat \ {0}
        /\ outQueue' = [outQueue EXCEPT ![selectedConvo] = Append(@, gui.k)]
        /\ UNCHANGED <<entered, userDialRequests, carried>>
    BY <1>t, <1>5 DEF QueueTextMessage, ClientTypes
  <2>2. /\ Holds("dial")' = 0 /\ Holds("text")' = 0
        /\ Holds("text") = gui.k /\ Holds("dial") = 0
    BY <2>1 DEF Holds
  <2>3. selectedConvo \in Peer /\ gui.k # 0
    BY <1>t, <2>1 DEF ClientTypes
  <2>4. TextAccounts'
    <3>1. Accounts(Peer, 0, entered.text, MaxTexts,
                   [outQueue EXCEPT ![selectedConvo] = Append(@, gui.k)], carried.text)
      BY <1>0, <1>t, <2>2, <2>3, Enqueues, Zenon DEF TextAccounts
    <3> QED BY <2>1, <2>2, <3>1 DEF TextAccounts
  <2> QED BY <1>t, <2>1, <2>2, <2>4, DialsLeft
<1>6. CASE SetConvoHandler
  <2>1. /\ gui # None /\ gui.do = "talk" /\ gui' = None
        /\ UNCHANGED <<entered, userDialRequests, outQueue, carried>>
    BY <1>6 DEF SetConvoHandler, queueVars
  <2>2. /\ Holds("dial")' = 0 /\ Holds("text")' = 0
        /\ Holds("dial") = 0 /\ Holds("text") = 0
    BY <2>1 DEF Holds
  <2> QED BY <1>t, <2>1, <2>2, DialsLeft, TextsLeft
<1>7. CASE Connect \/ Break \/ ReadFails
  BY <1>u, <1>7
     DEF Connect, ConnectStart, ConnectActivate, ConnectDial, Break, ReadFails, queueVars,
         inputVars
<1>8. ASSUME NEW t \in Task, Announced(t) \/ PickHandler(t) \/ SendLock(t) \/ SendOK(t)
                             \/ SendFails(t)
      PROVE  DialAccounts' /\ TextAccounts'
  BY <1>u, <1>8
     DEF Announced, PickHandler, SendLock, SendOK, SendFails, queueVars, inputVars
<1>9. ASSUME NEW t \in Task, NextConvoRequest(t) PROVE DialAccounts' /\ TextAccounts'
  <2>1. convoHandler \in Peer /\ UNCHANGED <<gui, entered, userDialRequests>>
    BY <1>t, <1>9 DEF NextConvoRequest, ClientTypes, inputVars
  <2>2. CASE outQueue[convoHandler] = <<>>
    BY <1>u, <1>9, <2>1, <2>2 DEF NextConvoRequest
  <2>3. CASE outQueue[convoHandler] # <<>>
    <3>1. /\ outQueue' = [outQueue EXCEPT ![convoHandler] = Tail(@)]
          /\ carried' = [carried EXCEPT !.text[Head(outQueue[convoHandler])] = @ + 1]
      BY <1>9, <2>3 DEF NextConvoRequest
    <3>2. /\ carried'.text = [carried.text EXCEPT ![Head(outQueue[convoHandler])] = @ + 1]
          /\ carried'.dial = carried.dial
      BY <1>t, <3>1 DEF ClientTypes
    <3>3. Holds("text")' = Holds("text") /\ Holds("dial")' = Holds("dial")
      BY <2>1 DEF Holds
    <3>4. TextAccounts'
      <4>1. Accounts(Peer, Holds("text"), entered.text, MaxTexts,
                     [outQueue EXCEPT ![convoHandler] = Tail(@)],
                     [carried.text EXCEPT ![Head(outQueue[convoHandler])] = @ + 1])
        BY <1>0, <1>t, <2>1, <2>3, Dequeues, Zenon DEF TextAccounts
      <4> QED BY <2>1, <3>1, <3>2, <3>3, <4>1 DEF TextAccounts
    <3> QED BY <1>t, <2>1, <3>2, <3>3, <3>4, DialsLeft
  <2> QED BY <2>2, <2>3
<1>10. ASSUME NEW t \in Task, NextDialRequest(t) PROVE DialAccounts' /\ TextAccounts'
  <2>1. UNCHANGED <<gui, entered, outQueue>>
    BY <1>10 DEF NextDialRequest, inputVars
  <2>2. CASE userDialRequests = <<>>
    BY <1>u, <1>10, <2>1, <2>2 DEF NextDialRequest
  <2>3. CASE userDialRequests # <<>>
    <3> DEFINE ch == [p \in {Me} |-> userDialRequests]
    <3>1. /\ userDialRequests' = Tail(userDialRequests)
          /\ carried' = [carried EXCEPT !.dial[Head(userDialRequests)] = @ + 1]
      BY <1>10, <2>3 DEF NextDialRequest
    <3>2. /\ carried'.dial = [carried.dial EXCEPT ![Head(userDialRequests)] = @ + 1]
          /\ carried'.text = carried.text
      BY <1>t, <3>1 DEF ClientTypes
    <3>3. Holds("text")' = Holds("text") /\ Holds("dial")' = Holds("dial")
      BY <2>1 DEF Holds
    <3>4. /\ Me \in {Me} /\ ch[Me] = userDialRequests
          /\ [ch EXCEPT ![Me] = Tail(@)] = [p \in {Me} |-> userDialRequests']
      BY <3>1, Zenon
    <3> HIDE DEF ch
    <3>5. Accounts({Me}, Holds("dial"), entered.dial, MaxDials, [ch EXCEPT ![Me] = Tail(@)],
                   [carried.dial EXCEPT ![Head(ch[Me])] = @ + 1])
      BY <1>0, <1>t, <2>3, <3>4, Dequeues, Zenon DEF DialAccounts, ch
    <3>6. DialAccounts'
      BY <2>1, <3>2, <3>3, <3>4, <3>5 DEF DialAccounts
    <3> QED BY <1>t, <2>1, <3>2, <3>3, <3>6, TextsLeft
  <2> QED BY <2>2, <2>3
<1>11. CASE UNCHANGED vars
  BY <1>u, <1>11 DEF vars, queueVars, inputVars
<1> QED
  BY <1>1, <1>2, <1>3, <1>4, <1>5, <1>6, <1>7, <1>8, <1>9, <1>10, <1>11
     DEF Next, Input, GuiStep, Handle

\* The places of a command, one kind at a time.
LEMMA PlaceOf ==
  ASSUME NEW what, NEW k, NEW y
  PROVE  y \in Places(what, k) <=>
           \/ gui = [do |-> what, k |-> k] /\ y = <<"gui", gui, 0>>
           \/ \E p \in DOMAIN Channels(what) : \E i \in DOMAIN Channels(what)[p] :
                Channels(what)[p][i] = k /\ y = <<"channel", p, i>>
           \/ \E i \in 1 .. carried[what][k] : y = <<"request", k, i>>
<1>1. y \in {<<"gui", g, 0>> : g \in {gui} \cap {[do |-> what, k |-> k]}}
      <=> gui = [do |-> what, k |-> k] /\ y = <<"gui", gui, 0>>
  BY Zenon
<1>2. y \in (UNION {{<<"channel", p, i>> : i \in Spots(k, Channels(what)[p])} :
                    p \in DOMAIN Channels(what)})
      <=> \E p \in DOMAIN Channels(what) : \E i \in DOMAIN Channels(what)[p] :
            Channels(what)[p][i] = k /\ y = <<"channel", p, i>>
  BY DEF Spots
<1>3. y \in {<<"request", k, i>> : i \in 1 .. carried[what][k]}
      <=> \E i \in 1 .. carried[what][k] : y = <<"request", k, i>>
  OBVIOUS
<1> QED BY <1>1, <1>2, <1>3, Zenon DEF Places

\* Commands of a kind that are accounted for have one place each.
LEMMA AccountsPlace ==
  ASSUME NEW what \in {"dial", "text"}, NEW D, NEW n, NEW max \in Nat, ClientTypes,
         DOMAIN Channels(what) = D,
         Accounts(D, Holds(what), n, max, Channels(what), carried[what]),
         NEW k \in 1 .. n
  PROVE  Cardinality(Places(what, k)) = 1
<1>1. SUFFICES \E x : Places(what, k) = {x}
  BY FS_Singleton, Zenon
<1>2. gui = [do |-> what, k |-> k] <=> k = Holds(what)
  <2>1. k \in Nat /\ k # 0
    BY DEF Accounts
  <2>2. ASSUME k = Holds(what) PROVE gui = [do |-> what, k |-> k]
    <3>1. gui # None /\ gui.do = what /\ gui.k = k
      BY <2>1, <2>2 DEF Holds
    <3>2. gui \in [do : {"dial", "text"}, k : Nat \ {0}]
      BY <3>1 DEF ClientTypes
    <3> QED BY <3>1, <3>2
  <2>3. ASSUME gui = [do |-> what, k |-> k] PROVE k = Holds(what)
    <3>1. gui # None
      BY <2>1, <2>3, ClientAssumption DEF ClientAssumption, Wish
    <3> QED BY <2>3, <3>1 DEF Holds
  <2> QED BY <2>2, <2>3
<1>3. CASE AtGui(D, Holds(what), Channels(what), carried[what], k)
  <2>1. \A y : y \in Places(what, k) <=> y = <<"gui", gui, 0>>
    BY <1>2, <1>3, PlaceOf DEF AtGui
  <2>2. Places(what, k) = {<<"gui", gui, 0>>}
    BY <2>1
  <2> QED BY <2>2, Zenon
<1>4. CASE InRequest(D, Holds(what), Channels(what), carried[what], k)
  <2>1. \A y : y \in Places(what, k) <=> y = <<"request", k, 1>>
    BY <1>2, <1>4, PlaceOf DEF InRequest
  <2>2. Places(what, k) = {<<"request", k, 1>>}
    BY <2>1
  <2> QED BY <2>2, Zenon
<1>5. CASE InChannel(D, Holds(what), Channels(what), carried[what], k)
  <2>0. PICK p \in D : \E i \in DOMAIN Channels(what)[p] :
          /\ Channels(what)[p][i] = k
          /\ \A r \in D : \A j \in DOMAIN Channels(what)[r] :
               Channels(what)[r][j] = k => r = p /\ j = i
    BY <1>5 DEF InChannel
  <2>1. PICK i \in DOMAIN Channels(what)[p] :
          /\ Channels(what)[p][i] = k
          /\ \A r \in D : \A j \in DOMAIN Channels(what)[r] :
               Channels(what)[r][j] = k => r = p /\ j = i
    BY <2>0
  <2>2. \A y : y \in Places(what, k) <=> y = <<"channel", p, i>>
    BY <1>2, <1>5, <2>1, PlaceOf DEF InChannel
  <2>3. Places(what, k) = {<<"channel", p, i>>}
    BY <2>2
  <2> QED BY <2>3, ZenonT(30)
<1> QED BY <1>3, <1>4, <1>5, OnePlace, Zenon

\* No /dial and no text is lost or sent twice, and channels keep their order,
\* however the GUI thread and the goroutines of overlapping rounds take turns
\* and whatever the connection does.
THEOREM NoCommandLost == Spec => []CommandsAccounted
<1>1. ClientInv => CommandsAccounted
  <2> SUFFICES ASSUME ClientInv, NEW what \in {"dial", "text"}
               PROVE  /\ \A k \in 1 .. entered[what] : Cardinality(Places(what, k)) = 1
                      /\ \A p \in DOMAIN Channels(what) : \A i, j \in DOMAIN Channels(what)[p] :
                           i < j => Channels(what)[p][i] < Channels(what)[p][j]
    BY DEF CommandsAccounted
  <2>1. PICK max \in Nat :
          Accounts(DOMAIN Channels(what), Holds(what), entered[what], max, Channels(what),
                   carried[what])
    <3>1. MaxDials \in Nat /\ MaxTexts \in Nat
      BY ClientAssumption DEF ClientAssumption
    <3>2. CASE what = "dial"
      <4>1. DOMAIN Channels(what) = {Me}
        BY <3>2 DEF Channels
      <4>2. Accounts({Me}, Holds(what), entered[what], MaxDials, Channels(what), carried[what])
        BY <3>2 DEF ClientInv, DialAccounts, Channels
      <4> QED BY <3>1, <4>1, <4>2
    <3>3. CASE what = "text"
      <4>1. DOMAIN Channels(what) = Peer
        BY <3>3 DEF Channels, ClientInv, TextAccounts, Accounts
      <4>2. Accounts(Peer, Holds(what), entered[what], MaxTexts, Channels(what), carried[what])
        BY <3>3 DEF ClientInv, TextAccounts, Channels
      <4> QED BY <3>1, <4>1, <4>2
    <3> QED BY <3>2, <3>3
  <2>2. \A k \in 1 .. entered[what] : Cardinality(Places(what, k)) = 1
    BY <2>1, AccountsPlace DEF ClientInv
  <2>3. \A p \in DOMAIN Channels(what) : \A i, j \in DOMAIN Channels(what)[p] :
          i < j => Channels(what)[p][i] < Channels(what)[p][j]
    BY <2>1 DEF Accounts
  <2> QED BY <2>2, <2>3
<1> QED BY <1>1, InitClient, NextClient, PTL DEF Spec
=============================================================================
