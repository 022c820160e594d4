# Vuvuzela: a TLA+ verification project

Vuvuzela is a messaging system in which clients exchange fixed-size messages in
rounds. An *entry server* collects one onion from every client, a chain of *mix
servers* decrypts, adds noise to, shuffles and exchanges them, and the replies
travel back the same way. There are two protocols: *conversation* ("convo")
rounds exchange messages through dead drops; *dialing* ("dial") rounds deliver
introductions to buckets.

This directory holds TLA+ modules translated from the Go code in `src/`, TLC
configurations that check them on small instances, and proofs, checked by TLAPS,
of the most important properties for every value of the constants.
`PROJECT.json` maps each definition to the lines it models.

## 1. The system and its parts

| Part | Code | State | Operations | Interacts with |
|---|---|---|---|---|
| Conversation service | `convo.go` | `rounds` with status, slices and noise; mutex `Idle` (shared with dial) | NewRound, Open, Add, Close, Get, Delete | caller: entry server or server before; callee: next server |
| Dial service | `dial.go` | `rounds`; same `Idle` | NewRound, Add, Close, Buckets | same, and the entry server at the last server |
| Round drivers | `convo.go:354`, `dial.go:232` | none | RunConvoRound, RunDialRound | run inside the entry server and inside each Close |
| RPC client | `vrpc/client.go` | connections, dialed once | Call, CallMany | net/rpc |
| Entry server | `vuvuzela-entry-server` | connections, two round numbers, two lists of requests | handlers, two round loops, round goroutines, Send | clients, first and last server |
| Client | `vuvuzela-client/client.go` | websocket and its mutex, `convoHandler`, `roundHandlers` | Connect, Send, nextConvoRequest, deliverConvoResponse | GUI thread, entry server |
| Conversation | `vuvuzela-client/conversation.go` | `outQueue`, `pendingRounds` | QueueTextMessage, NextConvoRequest, HandleConvoResponse | Client, GUI |
| GUI | `vuvuzela-client/gui.go` | `selectedConvo`, `client` | handleLine, switchConversation, Connect | Client, Conversation, Dialer |
| Dialer | `vuvuzela-client/dialer.go` | queue of four requests | QueueRequest, NextDialRequest, HandleDialBucket | Client, GUI |
| Algorithms | `shuffle.go`, `noise.go`, `internal/span.go`, `internal/parallelfor.go` | local | Shuffle, Unshuffle, Intn, Fill..., Spans, ParallelFor | services |
| PKI, onions | `pki.go`, `onionbox/onion.go` | the order of the servers | Index, NextServer, NextServerKeys, overheads, Seal, Open | services, clients |
| Randomness | `rand/salsa20rand.go` | per CPU: buffer, offset, nonce, mutex | Read, fill | fake traffic, onions, shuffles |
| Logging, histogram, drawing, flags and files | the rest | | | |

What is hard here: rounds of both protocols overlap along the chain and contend
for one mutex per server that one handler locks and another unlocks; the RPCs of
a round must find exactly the status the previous one left; an error return may
leave the mutex locked; connections are never dialed again; the entry server may
restart and count from 0; batches are processed by parallel calls and
goroutines; replies must find their way back through filters and shuffles;
requests race with the change of rounds; the client handles every message in a
goroutine of its own while the user switches conversations; the GUI thread waits
on bounded channels that only a live connection empties; the workers that make
fake onions share random number generators. `PROJECT.json` lists these as hazards
with their lines.

## 2. The modules

### MixChain: the round pipeline
Node 0 is the entry server, nodes 1..N are mix servers. `stage[i][j]` says how
far node `i` is with job `j` (a protocol and a round number), standing both for
the status in `srv.rounds` and for the place in the code the handler or goroutine
has reached. `idle[s]` is the mutex; `waiting[s]` holds the NewRound requests that
wait for it. There is one action per RPC, and `Close` is split where it calls the
next server, so that other handlers run in between. `Drop` and `DropData` break
connections at any moment, with every combination of requests executed or lost;
`EntryRestart` kills and restarts the entry server. `CallMany` of all Adds (Gets)
is one step here: what happens inside is the subject of `CallMany` and
`ConvoRound`. A crash of a mix server is not modelled: it loses all rounds in
memory, and its neighbours see what `Drop` shows.

### Pipeline: what the chain promises
An abstract specification without RPCs, stages or entry server: a line of stations
that hold one round each. A station takes a round from the station before it,
gives it away when the next one has it, and stays locked for good when it gives a
round up or refuses one. `MixChain` implements it under the mapping `held` (rounds
in a stage between NewRound and the unlock of `Idle`), `locked` (`idle`) and `link`
(the connections between mix servers); `ImplementsPipeline` is checked and proved.

### Onions: the PKI and the boxes
`Index`, `NextServer`, `NextServerKeys`, the overheads, `Seal` and `Open` over a
sequence of server names. An onion is a record with the list of its layers, so that
its size is the number of layers and a box opens with its key only. The models of
rounds learn only from these operators who the last server is, what to seal noise
with and which sizes to expect, so that a mistake in one of them shows in a round.

### ConvoRound and DialRound: the data of one round
One round without failures, on onions of module `Onions`; a reply carries the keys
it is sealed with. The concurrency is that of parallel Adds and Gets and the noise
goroutine. The algorithms (`Spans`, `Shuffle`, `Unshuffle`, `Filter`, `Collect`,
`Partner`) are operators of `Batch`. The panic of `replies[:round.numIncoming]` is a
state. The dedup key (the last 8 bytes of a message) is taken to be equal only for
copies of the same onion.

### EntryServer and Envelope
Connections, one handler goroutine per message, the round loop of each protocol
(announce, wait, hand over), round goroutines and Sends, all interleaved. A
critical section of `convoMu` or `dialMu` is one step. What the mix servers do with a
call is success, an error, or nothing: once `Idle` has leaked on one of them (`Leak`, the
finding of `mix_leak`), a call of NewRound (`HangNewRound`) or of RunConvoRound or
RunDialRound (`HangRun`) may not return, and the code sets no timeout. `Disconnect` loses
the connection to the first server, which ends all pending calls with an error and lets
no later one succeed; a hung call may also fail when a connection further down breaks.

### Conversation
Two users, alice and bob, with GUI thread, `Client`, and one `Conversation` per
peer (each user also starts in one with themselves). `PickHandler` and
`NextConvoRequest` are the two reads of `c.convoHandler` in `nextConvoRequest`,
the second one outside the lock. The handler is an interface value that always
holds a `*Conversation`, so that an unsynchronised read yields the old or the new
one. `picked` and `raced` are history variables. A message has a type byte and room for the
rest (`Marshal`), so that a text that is too long loses its end.

### Client
The threads of one client over rounds that never end: the GUI thread with the
commands `/dial`, `/talk` and texts, which it hands to bounded channels; the
goroutine that connects; one goroutine per announcement, which takes from a channel
what there is, and writes to the websocket under the client's mutex. The connection
may fail to be made or break at any moment, and is not made again. An announcement
is known by its slot among those being handled, so that liveness is about infinitely
many rounds. `carried` is a history variable.

### CallMany, ParallelFor, Shuffler
The three concurrent or iterative building blocks, at the grain of channel
operations, calls of `Next`, and loop iterations. In `CallMany` the server may
execute a call before or after the caller has given up on it. `MCShuffler` compares
the loops of `Shuffler` with the operators of `Batch`.

### Rand and Noise: fake traffic
`Rand` is `rand.Reader`: one generator per CPU behind a mutex, with the copy out of
the buffer and the move of `bufferOffset` as separate steps. A byte is known by its
generator and its place in the keystream. `Noise` composes `ParallelFor` and `Rand`:
the workers of a loop run the bodies of the Fill functions, whose reads (for the
exchange, and for the key pairs inside `Seal`) share the generators.

### How they fit together
`CallMany` and `ParallelFor` justify treating "all Adds, then Close" and "the loop
body for each index, once" as they are treated in `MixChain`, `ConvoRound` and
`DialRound`. `Shuffler` and its proof justify `Batch!Shuffle` and
`Batch!Unshuffle`; `Noise` justifies that the fakes of a round are all there and
differ. `MixChain` shows that the RPCs of one round come in the order that
`ConvoRound` and `DialRound` assume, whatever other rounds do. `ConvoRound` shows
what `EntryServer` (replies in the order of the onions) and `Conversation` (two
requests at one dead drop get each other's message) assume of a round. `Client`
shows that the requests that `Conversation` and `DialRound` start from are made.

## 3. The runs

| Run | Instance | What it shows | States |
|---|---|---|---|
| `mix_pipeline` | 3 servers, 2 rounds of each protocol, no faults | Idle is locked only for a round that somebody is going to finish, and handed back only after the next server took it; all rounds end; convo rounds are deleted everywhere | 66 thousand |
| `mix_faults` | 2 servers, 2 rounds of each, 1 fault | one round at a time per server; no unlock of an unlocked mutex; calls find their round; done means done downstream; no overtaking; the chain implements `Pipeline` | 900 thousand |
| `mix_leak` | 2 servers, 1 round of each protocol, 1 fault; expected violation | `LockedMeansBusy` fails: an error return leaves Idle locked | |
| `convo` | chains of 1, 2 and 3 servers, up to 3 onions, one of them bad, noise of 0 to 2 | nothing lost, doubled or left nil; replies right and of one size; counts right; when Close panics | 124 thousand |
| `dial` | 2 servers, 2 clients, 2 buckets, up to 3 requests | every introduction reaches its addressee once; buckets hold the noise of every server | 504 thousand |
| `entry` | 2 connections, 2 requests, 2 convo rounds, mix servers that fail or hang | no request lost or run twice or in the wrong round; all are answered but those the mix servers keep | 377 thousand |
| `entry_dial` | 1 connection, 1 request, dial; expected violation | the entry server sends a message clients cannot open | |
| `conversation` | 2 users, 2 rounds, queue of 1, 1 switch each | texts are shown once, by the right name; none is sent twice; what a switch at a bad moment does | 1.4 million |
| `client` | 2 dial rounds and 1 convo round at a time, 2 dials, 2 texts, 1 switch, channels of 1 | no command is lost or sent twice on the way to a request; every announced round gets a request; when the GUI thread may hang | 65 thousand |
| `callmany` | up to 4 calls, 2 connections, channel of 2 | nil means all were executed; no send on a closed channel; no goroutine is left | 51 thousand |
| `noise` | 2 workers, 2 generators with a buffer of 3, n up to 3, up to 8 reads | each index once; returns, when all is done; no keystream is used twice; the fakes are complete and differ | 142 thousand |
| `shuffler` | batches of up to 5, 4-bit random numbers | Unshuffle inverts Shuffle; shuffles and orders are one to one; Intn is unbiased | 2 thousand |

Bounds. Two rounds of each protocol are the least that overlap and overtake; three
servers are the least with one that is neither first nor last; a second fault
adds nothing that the proofs, which allow any number, do not cover for the
properties proved. Three onions allow a copy and a pair, or three accesses to one
dead drop. The channel and queue capacities are smaller than the number of items,
so that they fill up. A buffer of three bytes and exchanges of two run out in the
middle of a read and between reads. `MinStep` and `Chunks` of `ParallelFor` are smaller than in
the code so that small loops have several chunks. In loops this small the step is always
`MinStep`; the larger steps of long loops are covered by the proofs (`IndexOnce`,
`LoopComplete`), which hold for every `n`, `Chunks` and `MinStep`.

Deadlock is checked except where the system really may stop or the bound on rounds
stops it: `mix_faults` and `mix_leak` (a locked Idle stops everything),
`entry` and `conversation` (the rounds end), `client` (a client without a connection
only waits for its user).

Fairness. `MixChain` assumes that some enabled step is taken (goroutines run, calls
on live connections are answered). `EntryServer` assumes that each goroutine that can
run does; of its calls to the mix servers it assumes only that one returns, fails or is
stuck behind a leaked `Idle`. A stuck call is under no fairness, and `AllAnswered` says
that nothing else keeps a request waiting for ever: it is answered, or its connection
breaks, or it is in a round whose call hangs or in the list of a round that cannot begin.
`CallMany` assumes that its calls return or fail: it is used for Add and Get, which
wait for no mutex that is held across calls. `Noise` assumes fairness of each worker, its
reads included.
`Client` assumes strong fairness for what waits on the client's mutex or on a channel: a
channel serves its waiters in order, and a `sync.Mutex` hands itself to a waiter that
starves. The latter is so from Go 1.9 on; the repository asks for Go 1.4 or later, and
with an older runtime `Responsive` rests on a waiter not losing every race. `Client` also
assumes that a write ends by its deadline, and that the entry server goes on announcing
rounds while the connection holds. That is what its loops do until `Idle` leaks on a mix
server and NewRound hangs; then the queues of clients are no longer emptied, and a full
one blocks the GUI thread. Nothing is assumed about users or faults. With bounded rounds, the liveness of `MixChain` says nothing
about starvation at `Idle`.

`entry` runs the convo protocol: the dial handlers and loop are the same code with
other names, and the `entry_dial` run exercises them.

## 4. Findings

* `mix_leak`: `Idle` stays locked after the error returns of `NewRound`
  (`convo.go:94`, `dial.go:74`) and after a failed `NewRound` on the next server
  (`convo.go:234`, `dial.go:173`); every later round of both protocols then waits
  at that server for ever. What that means for clients is in `EntryServer`: the
  requests of a round whose call hangs, and of the rounds behind it, are not answered.
* `entry_dial`: `MsgDialError` is listed and sent as a message from server to
  client, and `Envelope.Open` has no case for it.

## 5. The proofs

| Module | Theorems | Argument |
|---|---|---|
| `MixChainProofs` | `TypeCorrect`, `Exclusion`, `UnlockSafe`, `Handshake`, `HandBack`; `PipelineImplemented` | `ChainInv`, inductive; step simulation |
| `OrderProofs` | `InOrder`, `DoneBehind`, `IdleOnlyWhenBusy` | `OrderInv`, inductive relative to `ChainInv`; `HealthyInv` |
| `EntryServerProofs` | `AnsweredRight`, `EntryAccounted` | inductive invariant over lists, running rounds and messages; a ledger of requests |
| `ConversationProofs` | `TextsAccounted`, `NothingLeft`, `HandlerFollows`, `ShownTexts`, `ExchangeShown` | `ConvInv`, inductive |
| `ClientProofs` | `NoCommandLost` | `ClientInv`, inductive |
| `NoiseProofs` | `IndexOnce`, `LoopComplete`; `FreshBytes`; `NoiseComposes`, `FakesDiffer` | `LoopInv` and `RandInv`, inductive; `NoiseInv` for the composition |
| `ShufflerProofs` | `ShufflePermutes`, `UnshuffleInverts`; `Unbiased` | loop invariant over the history of the batch; a bijection |
| `CallManyProofs` | `NilIsComplete`, `ClosedIsQuiet` | `CallInv` and `Unfed`, inductive |

They hold for every number of servers, rounds, faults, workers, iterations, onions,
calls, connections, requests, users' texts and commands, goroutines and CPUs, under the
ASSUMEs of the modules: the constants are natural numbers, positive where zero makes no
sense; for `Shuffler` also that the random numbers reach the length of the batch, and
for `Noise` that the goroutines that read are the workers of the loop.

*MixChain.* None of the invariants is inductive by itself: that Idle is locked
during `filtering` depends on who may have called Close. `ChainInv` adds, for each
pair of neighbours and each job, which stages of caller and callee go together
while their connection lives, that a request waits at a server only while its
caller is in `handoff` (or belongs to an earlier incarnation of the entry server),
that dial rounds close from the last server backwards, and that a round in one of
the holding stages owns Idle. There is one lemma per
action; broken connections and restarts are covered by `SeveredEffect`.

*Order.* `NoOvertaking` and `DownstreamDone` speak of servers far apart, so they need
to know why a later round cannot be ahead anywhere. `OrderInv` adds: a server knows
of a round only after the node before it handed it over (`NotYet`); a waiting request
is the only one for its round and server (`Asked`); the entry server counts on only
when the first server has taken the round (`Counted`); and a server that gave up on a
round before the next one took it keeps `Idle` locked, so that it never knows of a
later round (`Stuck`): the leak of the findings is what keeps the order after a
broken connection. The proof first reduces every action to what it may do to one node
and job (`StepMoves`), and then has one lemma per conjunct.

`IdleOnlyWhenBusy` needs the opposite view: as long as nothing has failed (`Healthy`), a
locked `Idle` belongs to a round in a holding stage, because every path of Close leads
to the unlock, and an open round has a caller that has not yet called Close
(`OpenDriven`). `mix_leak` shows that after one fault this no longer holds.

*Pipeline.* Each action of `MixChain` is one action of `Pipeline` or is not seen by
it; `ChainInv` says that a hand-over finds the round held on both sides.

*Entry server.* Every entry of a list of requests was read from its connection, for
the list's protocol and current round; the same holds of a running round with its own
number, and so of every message about a request. That the round number is compared
and the entry appended in one critical section is what carries it; a call that hangs
moves no request (`MixMovesNone`). `EntryAccounted`
adds a ledger: a request is in exactly one of its handler, a list, a running round, a
Send and the log, where lists are sequences without repetition and disjoint.

*Conversation.* The invariant has a part for each question: the ledger of a user's
texts (typed, in one queue, or in the request of one round); the state of a round
between the announcement and the handling of its response, with who was picked and
whose request was made; where the client's conversation comes from; and for every text
shown, the round it came with. That a text is shown once and under the right name
(`ShownTexts`) needs all of them, for both users together.

*Client.* Commands of a kind are numbered in the order they are typed. Of those
numbered so far the GUI thread holds at most the last, the channels hold others in
increasing order and each in one place, and all the rest were carried exactly once.

*Rand.* Who is past `Lock` holds the mutex of the generator chosen, and the bytes
handed out lie before the generator's place in its keystream, or before the place it
is about to be moved to by the one goroutine that has copied.

*Noise.* Each step of the composition is a step of `ParallelFor` or of `Rand` or
is not seen by it (`NoiseComposes`), so that both invariants carry over. `NoiseInv` adds
where the bytes have gone: a body has what its reads asked for up to what the Read under
way still owes; all bytes in the hands of bodies and in the slices were handed out; and
no byte is at two places, apart from the dead drop a pair shares. A copy adds bytes that
were never handed out (`FreshBytes`), the end of a body moves bytes from its hands to its
own slots (`IndexOnce`), and when the loop returns all slots are filled (`LoopComplete`).

*ParallelFor.* The chunks drawn and not used up are disjoint, lie below the shared
counter, and together with the indices in hand and those done make up all indices
below it; the WaitGroup counts the workers that have not left.

*Shuffler.* While shuffling, the batch is injective and each step is recorded;
while unshuffling at `i`, the batch is the image under `Reply` of the recorded
batch before iteration `i`.

*CallMany.* The caller's count is the number of results it took without error, a
finite-set argument: when it equals the number of calls, all have been received.

*Intn.* The numbers accepted for a bound are whole blocks of it, so that adding `j` is
a bijection between the numbers that give 0 and those that give `j`.

Only model-checked: liveness, which is out of the prover's reach; everything about
`ConvoRound` and `DialRound`, and with it what the folds of `Batch` and `Onions`
compute; that the order of a shuffled batch determines the numbers drawn.

## 6. Not modelled

* Cryptography beyond who can open what, the cipher of the random number generator
  and the CPU instruction that chooses one: external.
* The Laplace distribution: floating point. Only the numbers drawn matter to a round.
* Flags, configuration and PKI files, base32 and binary encodings, logging and the
  drawing of the GUI: input and output without state of their own.
* The histogram: a web page fed by a non-blocking send, which cannot hold up a round.
  `CountsRight` checks the counts that are sent.
* The status bar of a conversation (last round, latency, whether the peer responds):
  shown and never used.
* Crashes of mix servers: they lose all rounds in memory, and their neighbours see
  what `Drop` shows.
* Late Adds of a `CallMany` that has returned an error: they write to a round that
  nobody will close. `CallMany` has the late executions, `MixChain` has no effect for
  them.
* A user whose own name is not in the PKI file: the client then starts without a
  conversation, which the models exclude.
