------------------------------ MODULE RelayFlow ------------------------------
(***************************************************************************)
(* Who waits for whom between two nodes and the relay.  On a node the      *)
(* tunnel loop and the relay loop write to the relay while they hold the   *)
(* lock of the Peer for the other node, and a write waits, without a time  *)
(* limit, for room on the connection.  The UDP loop takes the lock too,    *)
(* but nobody waits for what it does under it; it is left out.  The relay  *)
(* has one goroutine for each node, which writes a packet to the other's   *)
(* connection before it reads on.                                          *)
(* What the Peer knows is one bit here: that it has candidates.            *)
(***************************************************************************)
EXTENDS Naturals, Sequences, FiniteSets

CONSTANTS
  Nodes,     \* the two nodes
  UpCap,     \* packets that fit on the way from a node to the relay
  DownCap,   \* ... and from the relay to a node
  Nothing    \* no packet in hand

ASSUME FlowAssumption ==
  /\ \E a, b \in Nodes : a # b /\ Nodes = {a, b}
  /\ Nothing \notin {"data", "request", "response"}
  /\ UpCap \in Nat \ {0} /\ DownCap \in Nat \ {0}

Kinds == {"data", "request", "response"}

\* The tunnel loop and the relay loop.
Threads == {"tun", "relay"}

VARIABLES
  place,   \* node -> thread -> where it is: out of the Peer, waiting, inside
  task,    \* node -> what brings its relay loop to the Peer
  todo,    \* node -> thread -> packets it still has to write
  mu,      \* node -> the thread that has the lock of the Peer, or "free"
  known,   \* node -> the Peer has candidates
  toRelay, \* node -> packets on their way from it
  hand,    \* node -> the packet its relay goroutine forwards
  toNode   \* node -> packets on their way to it

flowVars == <<place, task, todo, mu, known, toRelay, hand, toNode>>
peerVars == <<todo, mu, known>>
wireVars == <<toRelay, hand, toNode>>

Other(n) == CHOOSE m \in Nodes : m # n

FlowInit ==
  /\ place = [n \in Nodes |-> [t \in Threads |-> "out"]]
  /\ task = [n \in Nodes |-> Nothing]
  /\ todo = [n \in Nodes |-> [t \in Threads |-> <<>>]]
  /\ mu = [n \in Nodes |-> "free"]
  /\ known = [n \in Nodes |-> FALSE]
  /\ toRelay = [n \in Nodes |-> <<>>]
  /\ hand = [n \in Nodes |-> Nothing]
  /\ toNode = [n \in Nodes |-> <<>>]

-----------------------------------------------------------------------------
\* Thread t is about to take the lock of the Peer.
Enters(n, t) ==
  /\ place[n][t] = "out"
  /\ place' = [place EXCEPT ![n][t] = "waiting"]

\* The tunnel has a packet for the other node.
TunPacket(n) ==
  /\ Enters(n, "tun")
  /\ UNCHANGED <<task, peerVars, wireVars>>

\* inboundRelayPacket; data does not get as far as the lock.
RelayPacket(n) ==
  /\ place[n]["relay"] = "out"
  /\ toNode[n] # <<>>
  /\ toNode' = [toNode EXCEPT ![n] = Tail(@)]
  /\ IF Head(toNode[n]) = "data"
     THEN UNCHANGED <<place, task>>
     ELSE /\ Enters(n, "relay")
          /\ task' = [task EXCEPT ![n] = Head(toNode[n])]
  /\ UNCHANGED <<peerVars, toRelay, hand>>

(***************************************************************************)
(* Under the lock: what a thread writes to the relay.  A packet of the     *)
(* tunnel goes by the relay, or by UDP when there is an active address,    *)
(* which needs candidates; endpoints are asked for first when there are    *)
(* none, or again after a while.                                           *)
(***************************************************************************)
TunWrites(n) ==
  IF known[n] THEN {<<>>, <<"data">>, <<"request", "data">>}
              ELSE {<<"request", "data">>}

Writes(n, t) ==
  CASE t = "tun"                           -> TunWrites(n)
    [] t = "relay" /\ task[n] = "request"  -> {<<"response">>}
    [] t = "relay" /\ task[n] = "response" -> {<<>>}

\* (variant: the handler of a request does not take the lock)
Acquire_RequestUnlocked(n, t) ==
  /\ place[n][t] = "waiting"
  /\ mu[n] = "free" \/ (t = "relay" /\ task[n] = "request")
  /\ mu' = [mu EXCEPT ![n] = t]
  /\ place' = [place EXCEPT ![n][t] = "inside"]
  /\ known' = [known EXCEPT ![n] = @ \/ t = "relay"]
  /\ \E ps \in Writes(n, t) : todo' = [todo EXCEPT ![n][t] = ps]
  /\ UNCHANGED <<task, wireVars>>

Acquire(n, t) ==
  /\ place[n][t] = "waiting" /\ mu[n] = "free"
  /\ mu' = [mu EXCEPT ![n] = t]
  /\ place' = [place EXCEPT ![n][t] = "inside"]
  /\ known' = [known EXCEPT ![n] = @ \/ t = "relay"]
  /\ \E ps \in Writes(n, t) : todo' = [todo EXCEPT ![n][t] = ps]
  /\ UNCHANGED <<task, wireVars>>

\* (variant: a packet there is no room for is dropped)
WriteRelayPacket_GivesUp(n, t) ==
  /\ todo[n][t] # <<>>
  /\ toRelay' = IF Len(toRelay[n]) < UpCap
                THEN [toRelay EXCEPT ![n] = Append(@, Head(todo[n][t]))]
                ELSE toRelay
  /\ todo' = [todo EXCEPT ![n][t] = Tail(@)]
  /\ UNCHANGED <<place, task, mu, known, hand, toNode>>

WriteRelayPacket(n, t) ==
  /\ todo[n][t] # <<>>
  /\ Len(toRelay[n]) < UpCap
  /\ toRelay' = [toRelay EXCEPT ![n] = Append(@, Head(todo[n][t]))]
  /\ todo' = [todo EXCEPT ![n][t] = Tail(@)]
  /\ UNCHANGED <<place, task, mu, known, hand, toNode>>

\* (variant: the return for a response does not unlock)
Release_KeepsLock(n, t) ==
  /\ place[n][t] = "inside" /\ todo[n][t] = <<>>
  /\ place' = [place EXCEPT ![n][t] = "out"]
  /\ mu' = [mu EXCEPT ![n] = IF t = "relay" /\ task[n] = "response"
                              THEN @ ELSE "free"]
  /\ task' = IF t = "relay" THEN [task EXCEPT ![n] = Nothing] ELSE task
  /\ UNCHANGED <<todo, known, wireVars>>

Release(n, t) ==
  /\ place[n][t] = "inside" /\ todo[n][t] = <<>>
  /\ place' = [place EXCEPT ![n][t] = "out"]
  /\ mu' = [mu EXCEPT ![n] = "free"]
  /\ task' = IF t = "relay" THEN [task EXCEPT ![n] = Nothing] ELSE task
  /\ UNCHANGED <<todo, known, wireVars>>

-----------------------------------------------------------------------------
\* The relay's goroutine of node n: a packet is read, and then written.
RelayReads(n) ==
  /\ hand[n] = Nothing
  /\ toRelay[n] # <<>>
  /\ hand' = [hand EXCEPT ![n] = Head(toRelay[n])]
  /\ toRelay' = [toRelay EXCEPT ![n] = Tail(@)]
  /\ UNCHANGED <<place, task, peerVars, toNode>>

RelayForwards(n) ==
  /\ hand[n] # Nothing
  /\ Len(toNode[Other(n)]) < DownCap
  /\ toNode' = [toNode EXCEPT ![Other(n)] = Append(@, hand[n])]
  /\ hand' = [hand EXCEPT ![n] = Nothing]
  /\ UNCHANGED <<place, task, peerVars, toRelay>>

ThreadStep(n, t) == WriteRelayPacket(n, t) \/ Release(n, t)
RelayStep(n)     == RelayReads(n) \/ RelayForwards(n)

FlowNext ==
  \E n \in Nodes :
    \/ TunPacket(n) \/ RelayPacket(n) \/ RelayStep(n)
    \/ \E t \in Threads : Acquire(n, t) \/ ThreadStep(n, t)

FlowSpec == FlowInit /\ [][FlowNext]_flowVars

\* Goroutines are scheduled, and a sync.Mutex does not starve a waiter.
FlowFairness ==
  \A n \in Nodes :
    /\ WF_flowVars(RelayPacket(n)) /\ WF_flowVars(RelayStep(n))
    /\ WF_flowVars(\E t \in Threads : ThreadStep(n, t))
    /\ \A t \in Threads : SF_flowVars(Acquire(n, t))

FairFlowSpec == FlowSpec /\ FlowFairness

-----------------------------------------------------------------------------
(***************************************************************************)
(* Types, and the lock: the thread inside the Peer is the one that has it, *)
(* and no other has anything to write.                                     *)
(***************************************************************************)
FlowTypeOK ==
  /\ place \in [Nodes -> [Threads -> {"out", "waiting", "inside"}]]
  /\ task \in [Nodes -> {"request", "response", Nothing}]
  /\ todo \in [Nodes -> [Threads -> Seq(Kinds)]]
  /\ mu \in [Nodes -> Threads \cup {"free"}]
  /\ known \in [Nodes -> BOOLEAN]
  /\ toRelay \in [Nodes -> Seq(Kinds)] /\ toNode \in [Nodes -> Seq(Kinds)]
  /\ hand \in [Nodes -> Kinds \cup {Nothing}]
  /\ \A n \in Nodes : Len(toRelay[n]) <= UpCap /\ Len(toNode[n]) <= DownCap

LockInv ==
  \A n \in Nodes :
    /\ \A t \in Threads : /\ place[n][t] = "inside" <=> mu[n] = t
                          /\ todo[n][t] # <<>> => mu[n] = t
    /\ place[n]["relay"] # "out" <=> task[n] # Nothing

FlowInv == FlowTypeOK /\ LockInv

(***************************************************************************)
(* A node is stopped: a thread writes to the relay under the lock of its   *)
(* Peer, there is no room, the relay's goroutine has a packet in hand, and *)
(* the loop that would make room for the other node's packets waits.       *)
(***************************************************************************)
Stopped(n) ==
  /\ \E t \in Threads : todo[n][t] # <<>>
  /\ Len(toRelay[n]) = UpCap
  /\ hand[n] # Nothing
  /\ Len(toNode[n]) = DownCap
  /\ place[n]["relay"] # "out"

AllWait == \A n \in Nodes : Stopped(n)

(***************************************************************************)
(* The two nodes block each other or nobody is blocked: while one of them  *)
(* does not wait for the other, some goroutine that has work can go on.    *)
(***************************************************************************)
CanStep ==
  \E n \in Nodes :
    \/ place[n]["relay"] = "out" /\ toNode[n] # <<>>
    \/ hand[n] = Nothing /\ toRelay[n] # <<>>
    \/ hand[n] # Nothing /\ Len(toNode[Other(n)]) < DownCap
    \/ \E t \in Threads :
         \/ place[n][t] = "waiting" /\ mu[n] = "free"
         \/ todo[n][t] # <<>> /\ Len(toRelay[n]) < UpCap
         \/ place[n][t] = "inside" /\ todo[n][t] = <<>>

BlockedTogether ==
  (\E n \in Nodes, t \in Threads : place[n][t] # "out") /\ ~CanStep => AllWait

(***************************************************************************)
(* Nothing undoes that: no write to the relay ends, by a timeout either.   *)
(***************************************************************************)
WaitForEver == [][AllWait => AllWait']_flowVars

(***************************************************************************)
(* A packet of the tunnel is handled in the end, whatever comes in from    *)
(* the relay meanwhile, unless both nodes wait for each other.             *)
(***************************************************************************)
HandledUnlessAllWait ==
  \A n \in Nodes :
    place[n]["tun"] = "waiting" ~> (place[n]["tun"] = "out" \/ AllWait)

(***************************************************************************)
(* write: "We can use the relay while we are waiting for a path".  Writing *)
(* to it does not stop both nodes for ever.  The code does not keep to     *)
(* that: TLC finds a state of AllWait.                                     *)
(***************************************************************************)
RelayKeepsMoving == ~AllWait
=============================================================================
