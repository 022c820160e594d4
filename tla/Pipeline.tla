------------------------------ MODULE Pipeline ------------------------------
(***************************************************************************)
(* What the Idle mutexes promise about the chain, without any RPC: each    *)
(* server holds at most one round, takes a round only while the server     *)
(* before it holds it, and lets a round go only when the next server has   *)
(* it.  A server on a broken chain may give a round up; its place is then  *)
(* locked for good.                                                        *)
(***************************************************************************)
EXTENDS Integers

CONSTANTS
  N,      \* number of servers
  Job     \* the rounds

VARIABLES
  held,     \* held[s]: the rounds server s is taking in, at most one
  locked,   \* locked[s]: server s takes no round
  link      \* link[s]: servers s and s + 1 can talk to each other

pvars == <<held, locked, link>>

Init ==
  /\ held   = [s \in 1 .. N |-> {}]
  /\ locked = [s \in 1 .. N |-> FALSE]
  /\ link   = [s \in 1 .. N - 1 |-> TRUE]

\* Server s takes round j, from the server before it unless that one is lost.
Take(s, j) ==
  /\ ~locked[s]
  /\ locked' = [locked EXCEPT ![s] = TRUE]
  /\ s > 1 /\ link[s - 1] => j \in held[s - 1]
  /\ held' = [held EXCEPT ![s] = {j}]
  /\ UNCHANGED link

\* Server s is done with taking its round in: the next server has it.
Give(s) ==
  /\ locked[s]
  /\ locked' = [locked EXCEPT ![s] = FALSE]
  /\ held[s] # {}
  /\ s < N => held[s] \subseteq held[s + 1]
  /\ held' = [held EXCEPT ![s] = {}]
  /\ UNCHANGED link

\* Server s gives up a round that it cannot pass on, and stays locked.
Abandon(s) ==
  /\ s < N /\ ~link[s]
  /\ held[s] # {}
  /\ held' = [held EXCEPT ![s] = {}]
  /\ UNCHANGED <<locked, link>>

\* Server s refuses a round it already knows, and stays locked; the server
\* before it, if it is there to hear of it, gives the round up.
Refuse(s) ==
  /\ ~locked[s]
  /\ locked' = [locked EXCEPT ![s] = TRUE]
  /\ \/ UNCHANGED held
     \/ s > 1 /\ held' = [held EXCEPT ![s - 1] = {}]
  /\ UNCHANGED link

Break(s) ==
  /\ link[s]
  /\ link' = [link EXCEPT ![s] = FALSE]
  /\ UNCHANGED <<held, locked>>

Next ==
  \/ \E s \in 1 .. N, j \in Job : Take(s, j)
  \/ \E s \in 1 .. N : Give(s) \/ Abandon(s) \/ Refuse(s)
  \/ \E s \in 1 .. N - 1 : Break(s)

Spec == Init /\ [][Next]_pvars
=============================================================================
