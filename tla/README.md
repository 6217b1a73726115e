# calnet in TLA+

calnet is a small overlay network. A *control server* registers nodes, gives
each an address and tells nodes of each other; a *node* opens a tunnel device
and a UDP socket, exchanges endpoints with its peers and sends packets to them
directly, or through the *relay* the control server runs on a websocket.

This directory holds TLA+ modules of the control server, of the nodes as its
clients, of their sockets and peers and of the relay, the TLC runs that check
them on small instances, and proofs for TLAPS. Paths below are relative to the
repository, `src/` being its root; `PROJECT.json` maps every definition to the
lines it models.

## 1. Inventory

| Component | State it keeps | Operations | Module |
|---|---|---|---|
| control service, `control/control_service/service.go` | `nextIP`, `notifyChans`, the mutex `mu` | `New`, `LoginNode`/`registerNode`, `Update`, `getNotifyChan`, `VerifyNodeForRelay`, `LogoutNode` (no effect) | `ControlService` |
| database, `control/database/database.go` | table `nodes` (AUTOINCREMENT `id`, no UNIQUE on the key) | `GetNode`, `GetNodes`, `CreateNode`; `UpdateNode`, `DeleteNode` are never called | `ControlService` |
| HTTP handlers, `control/server/routes.go` | none | `loginHandler`, `updateHandler`, `healthHandler` | `ControlService` (`Begin`, `Answer`, `Finish`) |
| relay, `relayHandler` in `control/server/routes.go` | `relayConns` (weak pointers), the RWMutex `mu`, the websockets | connect, register, forward, end | `Relay` |
| server process, `cmd/control/main.go` | none | start, graceful stop | `Restart` in `ControlService` |
| node, `node/node.go`, `node/client.go` | keys, `running`, `runCtx`, the update goroutine | `Login`, `Up`, `Down`, update routine | `Membership` |
| controller, `node/controller.go` | `peersByID`, `peersByIP`, `config`, `up` | `SetConfig`, `Up`, `ProcessPeerUpdate`, `AddPeer`, tunnel loop; `Down` is never called | `Membership`; the steps of `Up` in `UdpMux` |
| relay client, `node/relay.go` | one websocket | connect, `SendPacket`, `ReadPacket`, `Close` | `UdpMux`, the client's side of `Relay`, `RelayFlow` |
| UDP mux, `node/udpmux.go` | socket, relay client, `bindActive`, read loops, STUN answers | `Bind`, `Unbind`, `read`, `startReadLoop`, `relayReadLoop`, `doStun`, `handleStun` | `UdpMux` |
| peer, `node/peer.go` | candidates, `activeAddr`, times of pings and pongs, the mutex `mu` | inbound packets, pings, pongs, endpoint exchange, `write` | `Peer`, used by `PeerPath` and `PeerPair`; its lock in `RelayFlow` |
| tunnel device, `node/tun*.go` | OS device | open, configure, read, write, close | opening and closing in `UdpMux`, writing in `PeerPair`; the rest is operating system calls |
| keys, `keys/` | none | generate, encode, box | none: keys are model values |
| test relay, `testrelay/` | as the relay | as the relay, two fixed nodes | none: a copy for tests |

How they interact:

* A node calls the server over HTTP, each call a goroutine at the server.
  `Login` and `Up` call while they hold `Node.mu`; the update goroutine polls
  with `Update(false)`, which the server holds for ten seconds in a `select` on
  the node's notify channel.
* A registration and a first poll change state shared by all handlers: `nextIP`
  under `mu`, the notify channels under `mu`, the table under SQLite.
* `Controller.Up` binds the UDP mux, which dials the relay; a packet for a peer
  that has no direct path is written to the relay, whose handler for the sender
  writes it to the connection of the receiver.
* A `Peer` is entered by three goroutines of its node: the tunnel loop (`write`),
  the UDP loop (`inboundPacket`) and the relay loop (`inboundRelayPacket`). Each
  holds `Peer.mu` throughout, its writes to the relay included.

Hard behaviour, and what makes each component correct (the full list, at its
lines, is `hazards` in `PROJECT.json`):

* *Control service.* Overlapping registrations, inserts that fail, a crash
  between the insert and the increment of `nextIP`. Correct when addresses are
  unique, the lowest free one is given, and a lease outlives restarts. Tokens
  of the notify channels are lossy (`default`, timer): correct when the loss of
  a token never loses an announcement. No error path may keep the mutex.
* *Database.* `LoginNode` reads and inserts without a lock in between and the key
  column is not unique; correct when a key still has one row.
* *Node and controller.* Every call can fail, `Up` half way too; `Down` leaves the
  controller up. Correct when the two peer tables agree and an announced peer
  is learned unless the update routine has ended, and when one routine polls.
* *Relay.* A reconnect races the end of the old connection, other handlers
  forward to it meanwhile, the garbage collector clears weak pointers between a
  check and a use. Correct when an open connection is the one that gets its
  node's packets, and no packet is misrouted, forged or doubled.
* *UDP mux.* `Bind` goes on after a dial that failed; `read` looks at `bindActive`
  and `conn` without the lock `Unbind` holds; a later step of `Up` may fail when
  the loops run already, and a step of the undoing may fail as well. Correct when what
  a failed call opened is closed and its loops end, and when no goroutine of a node that is up uses a nil `conn`.
* *Peer.* Eight times and as many thresholds decide when to ping, to ask for
  endpoints, to change the path and to give it up, while pongs come late or
  never and lists of endpoints replace the candidates. Correct when a node with
  something to send finds a path again and again, a path that has gone silent
  is left, and packets arrive once and at the right node whatever path they take.
* *Back-pressure.* Writes to the relay have no deadline and are made under
  `Peer.mu`; the relay loop needs that lock, and the relay writes to a node before
  it reads on. Correct when nobody waits for ever.

## 2. Modules

```
AddressPool      <--refines--  ControlService  <--EXTENDS--  Membership
                               ControlServiceProofs          MembershipProofs
                                                             MCMembership
DatagramNetwork  <--refines--  Relay       RelayProofs       MCRelay
DatagramNetwork  <--refines--  PeerPair    PeerPairProofs
                               PeerPair    --EXTENDS-->  Peer
                               PeerPath    --EXTENDS-->  Peer
                               PeerPath    PeerPathProofs    MCPeerPath
UdpMux           UdpMuxProofs
RelayFlow        RelayFlowProofs
```

**`AddressPool`** says what the server promises of addresses: a registration
leases the lowest address nobody has, and no lease is ever changed. It knows no
handler, mutex, `nextIP` or restart.

**`ControlService`**. One action for each stretch of a handler between two points
where another goroutine can act: database calls, the mutex, the `select`.
`pc[h]` is where the handler is.

| `pc` | Next action | Code |
|---|---|---|
| `idle` | `Begin` | decoding of the request and the zero key check |
| `lookup` | `LoginNode`, `Update`, `QueryFails` | `GetNode` and the code up to the next such point |
| `register`, `insert` | `RegisterNode`, `CreateNode`, `CreateNodeFails` | `registerNode` |
| `chan` | `GetNotifyChan` | `getNotifyChan`, `notifyAllExceptLocked` included |
| `wait` | `TakeToken`, `PollTimeout` | the `select` |
| `peers` | `GetPeersOfNode`, `QueryFails` | `getPeersOfNode` |
| `done` | `Finish` | the response, the end of the goroutine |

An address is its distance from the prefix's, a row ID its position in `nodes`,
a notify channel the number of its tokens. `Expire` is the passing of the
thirty days. `Restart` is a process that dies at any point, with or without a
graceful shutdown, and `New` after it. `unseen` is history: for each node with a
channel, the nodes announced to it which no poll has answered with. A query
that fails after the token was taken empties it, as the announcement is spent
then and the caller has an error.

**`Membership`** extends it with node processes. `host[n]` has the fields of
`Node` and `Controller`; `api` is the call that holds `Node.mu`, `routine` the
update goroutine, `caller[h]` who waits for handler `h`. A call whose connection
breaks leaves an orphan handler that goes on at the server, and whose queries
may then fail, since its request context is cancelled. Faults: broken
connection or client timeout, failing query or insert, failing health check,
failing `Controller.Up`, expiring key, restart of the server, restart of a node.
The API is called in any order the methods of `Node` allow; `cmd/node` itself
calls `Login`, `Up` and `Down` once each. `Route` is what the tunnel loop does with a
packet for an address: nothing if it is the node's own, outside the prefix or
nobody's. `config` is replaced by every `Up`, also by one that then fails because
the controller is up already. The server never compares an address with the
prefix, so the last of three rows lies outside a prefix of two.

**`DatagramNetwork`** says what the relay promises: a packet arrives at its
destination with the ID of its sender, at most once; it may be lost or overtaken.
Packets are numbered as they are sent (`sent`), so that two with the same content
are told apart. The module proves of itself that a packet arrives at most once.

**`Relay`**. A goroutine of `relayHandler` and its websocket are one handler.
`CheckDuplicate` and `CloseDuplicate` are two steps because `ec.Value()` is
called twice (196, 197), and `CheckConn` and `Write` for the same reason (232,
238). `Collect` is the garbage collector: it may clear all weak pointers to a
connection once its goroutine has ended, and makes `h` free for another
connection. `CloseDuplicatePanics` leaves the mutex locked for ever (`Leaked`):
net/http recovers the panic and line 201 has no `defer`. `Read` drops a packet
for the sender itself. Packets shorter than their header, or for ID 0, are left
out: `RelayClient.SendPacket` always writes the header, and no peer has ID 0. The Close of a duplicate is
atomic with the end of that connection at the server's side; how long its
handshake takes is not modelled.

**`Peer`** has no variables: each handler of `Peer` holds the lock from its first
line to its last and is an operator from the state of the object to its new
state and what it sends (`Write`, `HandlePing`, `HandlePong`,
`HandleEndpointRequest`, `HandleEndpointResponse`). A time is its age in units,
capped at `Never`; a zero time has that age too, as the code compares
both in the same way except where `ponged` tells them apart.

**`PeerPath`** puts one `Peer` into any environment: tunnel packets at any rate, pongs
to its pings early, late or never, endpoint lists at any time, a clock. `quiet`
and `burst` are history.

**`PeerPair`** composes two of them with UDP, a set of packets that come in any order
or are lost, and the relay as a queue in each direction. Data packets that are
followed have a number; `arrived` is what a tunnel was given, `noise` says that a
ping or a pong was written to one. It refines `DatagramNetwork`, the abstraction
`Relay` refines as well: for the tunnels, two nodes are such a network too.

**`UdpMux`** has one action for each step of `Controller.Up`, of `Bind` and of `Unbind` that
another goroutine can see, and for each of the two read loops. `read` is two
steps: the look at the fields (319-326) and the assertion on `conn` (327), which
panics on nil. A read of an interface that is being written may also see half of
it; `ReadAssertsNil` has both outcomes. `CloseConnFails` is `Unbind` returning at an error
of `conn.Close`, before the relay client is closed; `closeFailed` remembers it. A relay
read is two steps as well: `RelayBegins` takes the connection and fails at once or
waits, `RelayReads` and `RelayReadFails` end the wait. A new call of `Up` makes a new
mux while the loops of the old one may still be on their way out.

**`RelayFlow`** is who waits for whom. A thread is out of the `Peer`, waiting for its
lock or inside with packets to write; a connection has room for `UpCap` and
`DownCap` packets; the relay's goroutine of a node reads a packet and then writes
it. What the `Peer` knows is one bit. The UDP loop takes the lock too, but never
writes to the relay under it and nobody waits for what it does, so it is left out.

**`MC*`** add symmetry sets for TLC and nothing else. **`*Proofs`** hold the theorems;
`MembershipProofs` builds on `ControlServiceProofs` as the modules it is about do.
Operators named `X_Y` next to an operator `X` are variants with a plausible bug;
nothing uses them but the sensitivity check of the property they break.

## 3. Runs

| Run | Instance | What it shows |
|---|---|---|
| `control_safety` | 2 keys, 2 handlers, 2 rows, channel capacity 1 | `IInv`, `UniqueAddresses`, `NoticeCovered`, the refinement of `AddressPool`, and `EveryRequestAnswered`: no handler waits for ever |
| `membership_faults` | 2 hosts, 3 keys, 3 rows, 2 handlers, a prefix of 2, any 1 fault | `OneRowPerKey`, `RoutesAgree`, `LinkedWhenQuiet`, and `OneUpdateRoutine`: no second update routine is started beside one that `Down` has cancelled |
| `membership_missed_peer` | the same, no fault | **violated** `NotifyChanHasUpdates` (finding 1) |
| `membership_liveness` | 2 hosts, 2 keys, 2 handlers, no fault | `AnnouncedIsLearned`: a node that runs learns what it is told of, unless its user stops it |
| `relay_safety` | 2 nodes, 3 handlers, 3 packets | `RelayInv`, `OpenIsRouted`, and the refinement of `DatagramNetwork` |
| `relay_liveness` | 2 nodes, 2 handlers, 3 packets | `RegistrationEnds`, `ClosedHandlerEnds` |
| `relay_unreachable` | 2 nodes, 2 handlers, 1 packet | **violated** `UnreachableIsDropped` (finding 2) |
| `peer_path_safety` | 1 peer, 2 endpoints, thresholds in units of 5 s | `PathInv`, `NeverPruned`, `SilentPathGivenUp` |
| `peer_pair` | 2 nodes, 1 talks, 1 packet followed, 1 lost | `TalkerFindsPath`, and the refinement of `DatagramNetwork` by what the tunnels see |
| `peer_pair_relay_data` | 2 nodes, 1 packet, no loss | **violated** `RelayCarriesData` (finding 3) |
| `udpmux_safety` | 2 calls of `Up`, any step of which fails, the undoing included, 2 sockets break | `MuxInv`, `PortIsFree`, `ReadsWhileUp`, `PanicsOnlyOfOldRead`, and `FailedUpReleases`: what a failed call opened is closed, but for the relay connection after an error of `conn.Close` |
| `relay_flow` | 2 nodes, 1 packet of room in each place | `FlowInv`, `BlockedTogether`, `WaitForEver`, `HandledUnlessAllWait` |

The bounds and why they are enough:

* *Handlers.* Two overlap in every pair of places; a third goroutine meets the
  same table and mutex. The relay needs three: a sender, an old connection of
  the receiver and the one that replaces it. The proofs hold for any number.
* *Keys, MaxNodes.* Three rows are the fewest with which a channel fills: a
  node with capacity 1 is announced two others, and the second finds it full.
  That is reached in the `membership` runs; `control_safety`, which also checks
  liveness, has two keys, and its safety properties are proved for any number. In
  `ControlService` a key may log in any number of times, two rows for one key
  included.
* *ChanCap.* 1 instead of 5 reaches both branches of the `select` with three
  nodes; the proofs hold for every capacity but 0.
* *MaxNodes* bounds rows by a guard in `CreateNode`; an insert at the bound can
  only fail. *PrefixSize* is 2, so that a third row lies outside the prefix.
* *MaxFaults.* One fault at any point of the run, after which users may call
  again; liveness is stated without faults, because one failed poll ends the
  update routine by design while the node counts as running.
* *InCap, OutCap, MaxPackets.* One packet in each direction makes `Write` block;
  three packets let one wait behind another while the receiver reconnects.
* *Thresholds of a peer.* `PeerPath` counts in units of about five seconds: 5, 9, 10
  and 20 seconds become 1, 2, 2 and 4 units and keep their order, with `>=` and `>` as
  in the code; five minutes become 4 units, the fewest that are not shorter than the
  others. `PeerPair` is coarser, a unit being what the network needs at most, so
  that everything that is due after 5 to 10 seconds is due in the next unit and
  what is due after 20 seconds or more in the one after that. Attempts are not
  counted there (`PruneAttempts` is 0): only `maybePruneCandidate` reads them, and by
  `NoCandidateIsPruned` it finds nothing for any number. The proofs hold for all
  thresholds that satisfy `PeerAssumption` and, in `PeerPath`, `FlightAssumption`:
  `CheckEvery <= SilentAfter` and `2 * CheckEvery <= FullActive`, in the code 9, 10 and
  20 seconds.
* *Endpoints.* Two are needed for one to replace the other; each node of a
  pair has one.
* *MaxFlight* in `PeerPath` is the age at which a ping is lost: one unit makes a
  pong come before and after the next ping. *MaxData, MaxLosses, MaxFlight* in
  `PeerPair`: one packet is followed at a time among any number that are not, one is
  lost at any point, and a node writes when at most one is on its way.
* *MaxUps, MaxFaults* in `UdpMux`: a second call meets the loops of the first, and both
  sockets may break.
* *UpCap, DownCap* are 1: a larger buffer only delays the state in which it is full,
  and the theorems hold for any. A request and the data after it do not fit at once,
  so that a thread also waits between the two.

`CHECK_DEADLOCK FALSE`: the membership system stops when users call nothing any
more and no fault is left; the relay stops for good when its mutex has leaked
and its clients wait; the process of `UdpMux` panics or exits; the nodes of
`RelayFlow` block each other. All of that is what the code does.

Symmetry is used in runs with safety properties only, and no definition of those
modules picks out one of the values by CHOOSE. (`Other` in `PeerPair` and `RelayFlow`
does not either, there being two nodes; their runs check liveness and use none.)

Fairness:

* Weak fairness of a handler, of a host's own steps and of the update routine:
  they are goroutines, which the Go scheduler runs. Users, clients, faults, the
  expiry of keys and the collector are under none.
* Strong fairness where a mutex is taken (`RegisterNode`, `GetNotifyChan`; `Lock`,
  `Lookup`): `sync.Mutex` hands itself to a waiter starved for a millisecond, and
  a pending writer of `sync.RWMutex` is let in before later readers.
* Strong fairness of `TakeToken` in `Membership`: a token in the buffer is ready
  when a poll enters its `select`, ten seconds before the timer.
* Strong fairness of the update routine: the only thing that disables it is a
  pool of handlers that is busy, and the server has a goroutine for each request.
* `PeerPair` (`TimelySpec`): the network delivers or loses a packet within a unit of
  time, which is five seconds or more, and the tunnel of a talker has a packet in
  each. Without packets nothing drives the search for a path: every timer of
  `peer.go` is looked at by a write.
* `UdpMux`: weak fairness of a call of `Up` once it has begun and of both loops. Dialling
  ends by the timeout of its context.
* `RelayFlow`: weak fairness of the goroutines, strong fairness of taking `Peer.mu`.
  Packets of the tunnel are under none.

## 4. What is proved

TLAPS checks these for all values of the constants that satisfy the assumptions
named in the modules: `ControlAssumption`, `MembershipAssumption`, `RelayAssumption`,
`PeerAssumption`, `FlightAssumption`, `PairAssumption`, `MuxAssumption` and `FlowAssumption`.
They say that the special values differ from the others, that bounds are
numbers and capacities not zero, that a pair has two nodes, and in which order
the thresholds are. Every safety property and every refinement that a run with
the verdict "pass" checks is stated by a theorem.

**Control server** (`ControlServiceProofs`). `NoticeCovered` and `UniqueAddresses` are
not inductive. The invariant `IInv` adds
* `HandlerInv`: who is about to insert holds `mu` and its copy of the address is
  the current `nextIP`; who waits has a row and a channel;
* `AddressInv`: row *i* has address *i* and `nextIP` is the length of the table plus
  one. It gives `UniqueAddresses`, and, by the lemma `FirstFreeIsNext`, that the scan
  of `New` after a restart finds what `nextIP` was before;
* `UnseenInv`: what was announced to a node is a row of the table other than its
  own, so that reading the table answers all of it.

From `Invariance` (`Spec => []IInv`), one lemma for each kind of action, follow
`TypeCorrect`, `AddressesUnique` and `NoticesKept`. The heart of `NoticesKept` is that
when the last token of a channel is taken the taker is itself a poll about to
read the table, and that a channel that is full has a token already.
`PoolRefinement` maps `CreateNode` to `Lease` (lemma `InsertLeases`) and every other
action to a stutter, the restart included: the table is all the pool stands for.

**Nodes and server** (`MembershipProofs`). None of the three properties is inductive,
and all hang on the same thing: which calls may be on their way at once. `MInv`
is `IInv` of the server and
* `HostsTyped`, `TableInv`: the types; a node's peers are rows and stand in `peersByIP`
  at their own address; a controller that is up has the config of a row, and one is
  up wherever an update routine is left;
* `AnswerInv`, `CallerInv`: an answer tells of rows; a caller waits for one handler,
  which works on the call it made;
* `KeyInv`: a key belongs to the host that drew it; a handler that may still
  register a key is the only one to do so, and the host that has the key waits
  for it. A login that broke off does not spoil that, because `Login` throws the
  key of a call that failed away (`node.go:118`) and draws another, and the
  handler it has left behind registers a key nobody has;
* `PollInv`: a handler that polls works for the row of its key, and is the only
  one of that key while somebody waits for it; a node whose row has a channel has
  been through `Up`;
* `LinkInv`: of two nodes with channels one is *told* of the other, that is, the news
  is still pending, or whoever polls for it knows, or has an answer that says so
  or that ends its routine.

The proof has two halves. A step of the server leaves the nodes alone (`ServeStep`, over the
frame lemma `HandlerFrame`). A step of a node leaves the table and the channels alone;
most of these only *settle* things, that is, end calls and start none, and one
lemma (`SettledStep`) does for all of them, so that only the steps that make a call
(`LoginStep`, `AskStep`) and those that take an answer need an argument of their own.
From `MembershipInvariance` follow `MembershipTypeCorrect`, `KeysRegisterOnce` (the code has
no lock between the lookup and the insert, nor a UNIQUE in the table: it is the client
that makes this hold), `RoutesAreThePeers`, `WaitingNodesAreLinked` and `OneRoutineIsStarted` (a
controller that is up refuses the second `Up` before it comes to the routine). `NodesShareThePool` carries
`PoolRefinement` over to the composition, since each step of it is one of the server
or leaves the table alone.

**Relay** (`RelayProofs`). `OpenIsRouted` needs `LockInv` (who registers has the mutex, a
leaked one stays leaked), `WeakInv` (a weak pointer is nil or leads to a
connection of the node it is looked up for, also after the collector and a
reuse of the handler), and `NoOtherOpen` (when a registration is about to enter
its connection no other of the same node is open). `RelayInvariance` and
`OpenRouted` are the theorems.

`RelayImplementsNetwork` is the refinement. The abstract set of packets on their way is
computed from the queues of the connections and the hands of the handlers, and a
set forgets how often a packet is in it. So `PacketInv` says that no number is carried in two
places and that only an open connection has a queue. Then a packet that is taken
out of one place is gone from the set: `Send` is the client's write, `Arrive` the
relay's `Write`, and all that drops packets (ends, duplicates, breaks, a destination
that is not there) is `Lose`. `RelayForwardsOnce` is the promise `PacketsArriveOnce` of
`DatagramNetwork` (invariant `NetInv`: the numbers on their way differ from each other and
from those that came in), read back for the relay.

**Peer** (`PeerPathProofs`). `pingAllLocked` looks for candidates to prune and collects them
without removing them. `NoCandidateIsPruned`: it never finds one when a full
ping is due. `PathInv` says for that (`PingedByFull`) that a candidate was last pinged by a
full ping, that is no later than the last one, or has had a pong since:
`pingAllLocked` stamps both, and the only other ping that is stamped answers a
first pong. The first kind is too long ago for `maybePruneCandidate` and the second has answered;
the argument uses `PruneWindow <= FullIdle`, `FullIdle <= FullActive` and
`PruneWindow <= PongOld`. The proof has a lemma for each handler and each piece the
handlers are made of.

`SilentPathIsGivenUp`: at most three packets in a row go to an address that is silent.
A write to one goes with a full ping, or with a check of the address, or gives it up
(lemma `SilentWrite`). `BurstInv` keeps which of these the last packet went with: as
packets in a row are less than `CheckEvery` apart, two checks are never so close,
and as `2 * CheckEvery <= FullActive`, neither are a full ping, one packet and the next
full ping. Check, full ping, check is the longest there is; after a check that is
close to a full ping the next write gives the address up.

**Two peers** (`PeerPairProofs`). `PairImplementsTunnel` and, for the specification that the run
checks, `TimelyImplementsTunnel`. `PairInv` says that data that is followed has a number that was
sent, and is on the direct way or in the relay, not on both. Nothing of what a
`Peer` knows or measures is needed: only that `write` puts a packet on one of the two
ways (`WriteSendsOnce`) and that no other handler sends data (`HandlersSendNoData`). So the
steps of the handlers, of the network and of the clock send no new data
(`NoNewData`: a `Lose` or a stutter), a followed write is `Send` and a read of UDP is
`Arrive`. The relay's data is among what is lost: that is finding 3.
`TunnelsGetDataOnce` reads `PacketsArriveOnce` back for the tunnels.

**UDP mux** (`UdpMuxProofs`). The invariant describes what a mux holds at each place `Up` may be
(`Stage`): as it was made before `Bind`; after it a socket and a relay connection, or
neither if the dial failed; given up in the order of `Unbind`; and nothing when `Up` has
undone it, whichever way `Unbind` went. A step of `Up` moves the last mux one stage on and leaves the earlier ones
in theirs; the loops move in no stage they do not keep. Out of it come
`ConnOfABindIsOpen`, `BindFindsItsPortFree`, `LoopsReadWhileUp` and `OnlyAnOldReadPanics`.

**Relay flow** (`RelayFlowProofs`). `OneInsidePeer`: the thread inside a `Peer` is the one with the
lock, and nobody else has anything to write. `DeadlockIsForEver`: from `AllWait` every step
leads to `AllWait`, since a lock whose holder has packets to write is not released
and the only thing that still moves is a tunnel packet that joins the queue for
it (lemma `StoppedStep`). `NobodyIsStoppedAlone`: if no goroutine with work can go on and one has
come to a lock, everything from there to the other node is full and its relay loop
waits for a lock too (`FullToTheOther`), and from there back again.

**Only model-checked**, because liveness under fairness is beyond the provers:
`EveryRequestAnswered`, `AnnouncedIsLearned`, `RegistrationEnds`, `ClosedHandlerEnds`,
`TalkerFindsPath`, `FailedUpReleases` and `HandledUnlessAllWait`; and the findings, which are
counterexamples.

## 5. Findings

1. *A peer can be missed for ever* (`membership_missed_peer`). A node is announced
   when it polls for the first time, to nodes that have polled already. One that
   made its full sync before a peer registered and polls first after that peer did
   gets no token, and neither side repeats the announcement. `LinkedWhenQuiet` is
   what does hold: of two such nodes one knows the other.
2. *An unreachable destination can end the sender's connection*
   (`relay_unreachable`). The handler says it drops the packet (`routes.go:233`),
   but does so only when the destination's connection has been collected. Between
   its end and its collection `Write` fails and the sender's handler returns.
3. *Data does not come through the relay* (`peer_pair_relay_data`). "We can use the relay
   while we are waiting for a path" (`peer.go:129`), and `write` sends it there, but
   `inboundRelayPacket` (88-111) has no case for it and drops it.

Further disagreements between the code and its comments, stated as properties
that no run checks. To see one, put the property in the place of those of the
component's configuration; TLC finds each violated within a minute.

* `LoginChecksExpiry` (`ControlService`): "If the node is found, validate the key is not
  expired" (`service.go:80`); the check is commented out (90-94). The node is told it
  is logged in and its next call fails.
* `OnlyDataReachesTun` (`PeerPair`): the switch on pings and pongs does not return, so
  both are written to the tunnel as "a data packet for now" (`peer.go:84-85`).
* `DiscardedOnlyWhenSilent` (`PeerPath`): the pong that makes the first address active
  (`peer.go:221`) does not set `lastActiveAddrPong`, and a write may give up the path
  as "no long valid" (149-151) although its pong has just come in.
* `CancelledIsInactive` (`UdpMux`): "cancelling bind" (`udpmux.go:135`) is followed by
  `bindActive = true` (141), and the node is up without a socket.
* `LoopStopsWithoutError` (`UdpMux`): `Unbind` clears `bindActive` "first before closing conn to
  signal read loop to stop without error" (156), but `read` looks at both without the
  lock (323), and panics when `conn` is cleared before line 327.
* `RelayKeepsMoving` (`RelayFlow`): two nodes whose connections to the relay are full
  block each other for ever, each relay loop waiting for a lock that is held
  over a write to the relay (`peer.go:139`, 253).
* A failed `Up` can leave its relay connection open: when `conn.Close` returns an error
  `Unbind` returns (`udpmux.go:162-164`) before `rc.Close` (166), and a relay loop that
  looks at `bindActive` then ends without closing it. `FailedUpReleases` says that this
  is the only case. The relay closes it as a duplicate when the node dials again.
* "got a better active address" (`peer.go:226`): `c.rtt` is the time since the last ping
  of the candidate, whichever ping the pong answers (211, 233), so a late pong looks
  fast. The models keep no round trips and have no property for this.

## 6. Not modelled, and why

* STUN on the wire, the list of the interfaces' addresses, encryption and JSON: I/O
  and data that no property here tells apart. Which endpoints a node sends is a free
  choice in `PeerPath`.
* The tunnel device beyond its place in `Up`: operating system calls.
* `DeleteNode`, `UpdateNode`, `notifyAll`, `Controller.Down`, `DeregisterPeer`,
  `pingAllWithPunchLocked`: nothing calls them. `DeletePeer` and `UpdatePeer` are
  empty.
* The magic packet of `inboundRelayPacket`: only a test program sends it.
* Messages of the relay that are no binary message or have no header, at which
  `ReadPacket` gives an error (`relay.go:99-105`) and the relay loop would end:
  `relayHandler` writes binary messages with a header only (`routes.go:237-238`).
* An error of `LastInsertId` (`database.go:280-283`), with which a row would be there
  and `nextIP` not moved: the SQLite driver of `go.mod` never returns one.
* UDP packets that the network doubles; the node has nothing against them before
  the tunnel's own protocols.
* Broken connections in `RelayFlow`: `Relay` and `UdpMux` have them.
* Loss of committed rows on a power failure (the database runs with
  `synchronous=NORMAL`): the process dies in the model, the disk does not.
* Time, except in `Peer`: the timers are choices; no bound on how long anything takes
  is claimed.

## 7. Plan

Done, in this order because registration, announcement and forwarding are what
every packet depends on: `ControlService` with `AddressPool`; `Membership` with the tunnel
loop's routing; `Relay` with `DatagramNetwork`; `Peer`, `PeerPath`, `PeerPair`; `UdpMux`;
`RelayFlow`; and for each of them the proofs of the safety properties and refinements its
runs check.

Next proofs: action properties that the liveness runs rest on: that a peer once
known to a node is forgotten only with its process, that what is announced to a
node leaves `unseen` only in an answer, and that the stages of a mux (`Stage`) are
passed in order.

Next modules: `VerifyNodeForRelay` composed of `ControlService` and `Relay`; two peers over
`Relay` itself, with reconnects, in place of the queue of `PeerPair`.
