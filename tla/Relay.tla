-------------------------------- MODULE Relay --------------------------------
(***************************************************************************)
(* The relay of the control server (relayHandler): one goroutine for each  *)
(* websocket, a table of weak pointers to the connections under an         *)
(* RWMutex, and the forwarding of packets from one connection to another.  *)
(*                                                                         *)
(* A goroutine and its connection are one handler h here.  Nothing but the *)
(* goroutine holds a strong pointer to the connection for longer than a    *)
(* call, so once it has ended the garbage collector may clear every weak   *)
(* pointer to it at any time, between a test of Value() and its use too.   *)
(* A panic of a handler is recovered by net/http: its deferred calls run,  *)
(* and a mutex it held without a defer is held for ever.                   *)
(***************************************************************************)
EXTENDS Naturals, Sequences, FiniteSets

CONSTANTS
  Nodes,       \* the node IDs VerifyNodeForRelay returns
  Handlers,    \* goroutines serving websockets
  Unlocked,    \* value of mu when no handler has it locked for writing
  Leaked,      \* ... when a handler panicked with the lock
  Nil,         \* a weak pointer to a collected connection, or none
  InCap,       \* bound: packets a client has sent and the handler not read
  OutCap,      \* packets written to a connection before Write blocks
  MaxPackets   \* bound: packets sent

ASSUME RelayAssumption ==
  /\ Unlocked \notin Handlers /\ Leaked \notin Handlers /\ Nil \notin Handlers
  /\ Unlocked # Leaked /\ Nil \notin Nodes
  /\ InCap \in Nat \ {0} /\ OutCap \in Nat \ {0} /\ MaxPackets \in Nat

VARIABLES
  mu,          \* the writer of the RWMutex; readers hold it for one step
  relayConns,  \* node ID -> weak pointer to its latest connection
  pc,          \* where each handler is
  owner,       \* nodeID of each handler, Nil before it has one
  socket,      \* the state of its websocket
  inq,         \* what the client has sent on it
  backlog,     \* number of packets written to it and not received yet
  packet,      \* the packet the handler forwards: [dst, num]
  conn,        \* the weak pointer it looked up for the destination
  sent,        \* number of packets sent so far
  arrived      \* history: node -> the packets written to its connections

regVars  == <<mu, relayConns>>
connVars == <<socket, inq, backlog>>
fwdVars  == <<packet, conn>>
vars     == <<mu, relayConns, pc, owner, socket, inq, backlog,
              packet, conn, sent, arrived>>

-----------------------------------------------------------------------------
Labels   == {"idle", "lock", "dup", "close", "put",
             "read", "lookup", "check", "write", "ending", "ended"}
Weak     == Handlers \cup {Nil}
Message  == [dst : Nodes, num : 1..MaxPackets]
NoPacket == [dst |-> Nil, num |-> 0]

\* The forwarding loop of a handler, which starts once it is in relayConns.
Forwarding(h) == pc[h] \in {"read", "lookup", "check", "write"}

\* The pointer relayConns has for node n; a missing entry is a nil one.
ConnOf(n) == IF n \in DOMAIN relayConns THEN relayConns[n] ELSE Nil

Init ==
  /\ mu = Unlocked
  /\ relayConns = [n \in {} |-> Nil]
  /\ pc = [h \in Handlers |-> "idle"]
  /\ owner = [h \in Handlers |-> Nil]
  /\ socket = [h \in Handlers |-> "none"]
  /\ inq = [h \in Handlers |-> <<>>]
  /\ backlog = [h \in Handlers |-> 0]
  /\ packet = [h \in Handlers |-> NoPacket]
  /\ conn = [h \in Handlers |-> Nil]
  /\ sent = 0
  /\ arrived = [n \in Nodes |-> <<>>]

Goto(h, l) == pc' = [pc EXCEPT ![h] = l]

-----------------------------------------------------------------------------
(***************************************************************************)
(* The clients and the network between.                                    *)
(***************************************************************************)
\* A client connects with the key of node n; its key is verified and the
\* websocket accepted.  A node may connect again while it is connected.
Connect(h, n) ==
  /\ pc[h] = "idle"
  /\ Goto(h, "lock")
  /\ owner' = [owner EXCEPT ![h] = n]
  /\ socket' = [socket EXCEPT ![h] = "open"]
  /\ UNCHANGED <<regVars, inq, backlog, fwdVars, sent, arrived>>

\* RelayClient.SendPacket.
ClientSends(h, d) ==
  /\ socket[h] = "open"
  /\ Len(inq[h]) < InCap
  /\ sent < MaxPackets
  /\ sent' = sent + 1
  /\ inq' = [inq EXCEPT ![h] = Append(@, [dst |-> d, num |-> sent + 1])]
  /\ UNCHANGED <<regVars, pc, owner, socket, backlog, fwdVars, arrived>>

\* RelayClient.ReadPacket.
ClientReads(h) ==
  /\ socket[h] = "open"
  /\ backlog[h] > 0
  /\ backlog' = [backlog EXCEPT ![h] = @ - 1]
  /\ UNCHANGED <<regVars, pc, owner, socket, inq, fwdVars, sent, arrived>>

\* The connection of h is closed: what it holds is lost.
Closed(h) ==
  /\ socket' = [socket EXCEPT ![h] = IF @ = "open" THEN "closed" ELSE @]
  /\ inq' = [inq EXCEPT ![h] = <<>>]
  /\ backlog' = [backlog EXCEPT ![h] = 0]

\* The client closes it, or the network breaks it.
Break(h) ==
  /\ socket[h] = "open"
  /\ Closed(h)
  /\ UNCHANGED <<regVars, pc, owner, fwdVars, sent, arrived>>

-----------------------------------------------------------------------------
(***************************************************************************)
(* Registration, under mu.Lock().  Variant: no mutex.                      *)
(***************************************************************************)
CanLock_Always == TRUE
CanLock        == mu = Unlocked

Lock(h) ==
  /\ pc[h] = "lock"
  /\ CanLock
  /\ mu' = h
  /\ Goto(h, "dup")
  /\ UNCHANGED <<relayConns, owner, connVars, fwdVars, sent, arrived>>

\* Is there a connection of this node already?
CheckDuplicate(h) ==
  /\ pc[h] = "dup"
  /\ Goto(h, IF ConnOf(owner[h]) = Nil THEN "put" ELSE "close")
  /\ UNCHANGED <<regVars, owner, connVars, fwdVars, sent, arrived>>

\* Close it; Value() is called a second time.  (variant: it is left open)
CloseDuplicate_Skipped(h) ==
  /\ pc[h] = "close"
  /\ Goto(h, "put")
  /\ UNCHANGED <<regVars, owner, connVars, fwdVars, sent, arrived>>

CloseDuplicate(h) ==
  LET old == ConnOf(owner[h])
  IN /\ pc[h] = "close"
     /\ old # Nil
     /\ Closed(old)
     /\ Goto(h, "put")
     /\ UNCHANGED <<regVars, owner, fwdVars, sent, arrived>>

\* The connection was collected in between: Close on a nil pointer panics.
CloseDuplicatePanics(h) ==
  /\ pc[h] = "close"
  /\ ConnOf(owner[h]) = Nil
  /\ mu' = Leaked
  /\ Goto(h, "ending")
  /\ UNCHANGED <<relayConns, owner, connVars, fwdVars, sent, arrived>>

\* (variant: no unlock after the entry is made)
Put_KeepsLock(h) ==
  /\ pc[h] = "put"
  /\ relayConns' = [n \in DOMAIN relayConns \cup {owner[h]} |->
                      IF n = owner[h] THEN h ELSE relayConns[n]]
  /\ Goto(h, "read")
  /\ UNCHANGED <<mu, owner, connVars, fwdVars, sent, arrived>>

Put(h) ==
  /\ pc[h] = "put"
  /\ relayConns' = [n \in DOMAIN relayConns \cup {owner[h]} |->
                      IF n = owner[h] THEN h ELSE relayConns[n]]
  /\ mu' = Unlocked
  /\ Goto(h, "read")
  /\ UNCHANGED <<owner, connVars, fwdVars, sent, arrived>>

-----------------------------------------------------------------------------
(***************************************************************************)
(* The forwarding loop.  A packet to the sender itself is dropped.         *)
(***************************************************************************)
Read(h) ==
  LET p == Head(inq[h])
  IN /\ pc[h] = "read"
     /\ socket[h] = "open"
     /\ inq[h] # <<>>
     /\ inq' = [inq EXCEPT ![h] = Tail(@)]
     /\ \/ /\ p.dst = owner[h]
           /\ UNCHANGED <<pc, packet>>
        \/ /\ p.dst # owner[h]
           /\ packet' = [packet EXCEPT ![h] = p]
           /\ Goto(h, "lookup")
     /\ UNCHANGED <<regVars, owner, socket, backlog, conn, sent, arrived>>

\* A failed Read ends the handler.  (variant: it reads again)
ReadFails_Continues(h) ==
  /\ pc[h] = "read"
  /\ socket[h] = "closed"
  /\ UNCHANGED vars

ReadFails(h) ==
  /\ pc[h] = "read"
  /\ socket[h] = "closed"
  /\ Goto(h, "ending")
  /\ UNCHANGED <<regVars, owner, connVars, fwdVars, sent, arrived>>

\* Look the destination up under mu.RLock().
Lookup(h) ==
  /\ pc[h] = "lookup"
  /\ CanLock
  /\ conn' = [conn EXCEPT ![h] = ConnOf(packet[h].dst)]
  /\ Goto(h, "check")
  /\ UNCHANGED <<regVars, owner, connVars, packet, sent, arrived>>

\* Without a connection for the destination the packet is dropped.
CheckConn(h) ==
  /\ pc[h] = "check"
  /\ \/ /\ conn[h] = Nil
        /\ packet' = [packet EXCEPT ![h] = NoPacket]
        /\ Goto(h, "read")
     \/ /\ conn[h] # Nil
        /\ Goto(h, "write")
        /\ UNCHANGED packet
  /\ UNCHANGED <<regVars, owner, connVars, conn, sent, arrived>>

\* What Write sends: the packet with the sender's ID for its header.
\* (variant: the header is left as the client sent it)
Header_Unchanged(h) == packet[h].dst
Header(h)           == owner[h]

\* Write to the destination; it blocks while the connection is full.
Write(h) ==
  LET d == conn[h]
  IN /\ pc[h] = "write"
     /\ d # Nil
     /\ socket[d] = "open"
     /\ backlog[d] < OutCap
     /\ backlog' = [backlog EXCEPT ![d] = @ + 1]
     /\ arrived' = [arrived EXCEPT ![owner[d]] =
                      Append(@, [src |-> Header(h), dst |-> owner[d],
                                 num |-> packet[h].num])]
     /\ packet' = [packet EXCEPT ![h] = NoPacket]
     /\ conn' = [conn EXCEPT ![h] = Nil]
     /\ Goto(h, "read")
     /\ UNCHANGED <<regVars, owner, socket, inq, sent>>

\* Write fails on a closed connection, or panics when it was collected
\* since the check: either way the sender's handler returns.
WriteFails(h) ==
  /\ pc[h] = "write"
  /\ conn[h] # Nil => socket[conn[h]] = "closed"
  /\ Goto(h, "ending")
  /\ UNCHANGED <<regVars, owner, connVars, fwdVars, sent, arrived>>

\* The deferred Close of the handler's own connection.
End(h) ==
  /\ pc[h] = "ending"
  /\ Closed(h)
  /\ packet' = [packet EXCEPT ![h] = NoPacket]
  /\ conn' = [conn EXCEPT ![h] = Nil]
  /\ Goto(h, "ended")
  /\ UNCHANGED <<regVars, owner, sent, arrived>>

\* The connection is collected: every weak pointer to it becomes nil.  The
\* entry of relayConns stays.  From here on h is another handler.
Collect(h) ==
  /\ pc[h] = "ended"
  /\ relayConns' = [n \in DOMAIN relayConns |->
                      IF relayConns[n] = h THEN Nil ELSE relayConns[n]]
  /\ conn' = [g \in Handlers |-> IF conn[g] = h THEN Nil ELSE conn[g]]
  /\ socket' = [socket EXCEPT ![h] = "none"]
  /\ owner' = [owner EXCEPT ![h] = Nil]
  /\ Goto(h, "idle")
  /\ UNCHANGED <<mu, inq, backlog, packet, sent, arrived>>

-----------------------------------------------------------------------------
HandlerStep(h) ==
  \/ Lock(h) \/ CheckDuplicate(h) \/ CloseDuplicate(h)
  \/ CloseDuplicatePanics(h) \/ Put(h)
  \/ Read(h) \/ ReadFails(h) \/ Lookup(h) \/ CheckConn(h)
  \/ Write(h) \/ WriteFails(h) \/ End(h)

ClientStep(h) ==
  \/ \E n \in Nodes : Connect(h, n) \/ ClientSends(h, n)
  \/ ClientReads(h)
  \/ Break(h)

Next == \E h \in Handlers : HandlerStep(h) \/ ClientStep(h) \/ Collect(h)

(***************************************************************************)
(* Goroutines are scheduled; sync.RWMutex lets a waiting goroutine in      *)
(* however many others pass.  Clients and the collector owe nothing.       *)
(***************************************************************************)
Fairness ==
  \A h \in Handlers :
    WF_vars(HandlerStep(h)) /\ SF_vars(Lock(h)) /\ SF_vars(Lookup(h))

Spec == Init /\ [][Next]_vars /\ Fairness

-----------------------------------------------------------------------------
(***************************************************************************)
(* The packets on their way: sent on a connection and not read yet, or in  *)
(* the hands of a handler.                                                 *)
(***************************************************************************)
Addressed(h, p) == [src |-> owner[h], dst |-> p.dst, num |-> p.num]

InHand(h) == pc[h] \in {"lookup", "check", "write"}

Pending ==
  {Addressed(h, packet[h]) : h \in {g \in Handlers : InHand(g)}}
    \cup UNION {{Addressed(h, inq[h][i]) : i \in 1..Len(inq[h])} :
                  h \in Handlers}

Network == INSTANCE DatagramNetwork WITH pending <- Pending

\* The relay is a datagram network: no packet is misrouted, forwarded under
\* another sender's ID or forwarded twice, whatever reconnects, connections
\* that break and the collector do.
ImplementsNetwork == Network!Spec

-----------------------------------------------------------------------------
RelayTypeOK ==
  /\ mu \in Handlers \cup {Unlocked, Leaked}
  /\ DOMAIN relayConns \subseteq Nodes
  /\ relayConns \in [DOMAIN relayConns -> Weak]
  /\ pc \in [Handlers -> Labels]
  /\ owner \in [Handlers -> Nodes \cup {Nil}]
  /\ socket \in [Handlers -> {"none", "open", "closed"}]
  /\ inq \in [Handlers -> Seq(Message)]
  /\ backlog \in [Handlers -> 0..OutCap]
  /\ packet \in [Handlers -> Message \cup {NoPacket}]
  /\ conn \in [Handlers -> Weak]
  /\ sent \in 0..MaxPackets
  /\ arrived \in [Nodes -> Seq(Network!Packet)]

(***************************************************************************)
(* A node whose client is connected gets its packets on that connection:   *)
(* an open connection in its forwarding loop is the one relayConns has for *)
(* its node.  So a node has at most one that is open, and a reconnect that *)
(* overtakes the old connection's end does not lose the entry.             *)
(***************************************************************************)
OpenIsRouted ==
  \A h \in Handlers :
    Forwarding(h) /\ socket[h] = "open" => ConnOf(owner[h]) = h

(***************************************************************************)
(* Its inductive strengthening: a handler at work has a node; who is       *)
(* registering has the mutex; a weak pointer leads to a connection of the  *)
(* node it is looked up for; and when the duplicate has been dealt with no *)
(* other connection of the node is open in its loop.                       *)
(***************************************************************************)
Registering(h) == pc[h] \in {"dup", "close", "put"}

OwnerInv == \A h \in Handlers : pc[h] # "idle" => owner[h] \in Nodes

LockInv == \A h \in Handlers : Registering(h) => mu = h

WeakInv ==
  /\ \A n \in DOMAIN relayConns :
       relayConns[n] # Nil =>
         /\ owner[relayConns[n]] = n
         /\ pc[relayConns[n]] \notin {"idle", "lock"}
  /\ \A h \in Handlers :
       InHand(h) => packet[h] \in Message
  /\ \A h \in Handlers :
       (InHand(h) /\ pc[h] # "lookup" /\ conn[h] # Nil) =>
         /\ owner[conn[h]] = packet[h].dst
         /\ pc[conn[h]] \notin {"idle", "lock"}

NoOtherOpen ==
  \A h, g \in Handlers :
    (pc[h] = "put" /\ Forwarding(g) /\ owner[g] = owner[h])
      => socket[g] # "open"

RelayInv ==
  /\ RelayTypeOK /\ OwnerInv /\ LockInv /\ WeakInv
  /\ NoOtherOpen /\ OpenIsRouted

(***************************************************************************)
(* A node that connects is registered in the end, unless a registration    *)
(* has panicked with the mutex.                                            *)
(***************************************************************************)
RegistrationEnds ==
  \A h \in Handlers :
    pc[h] = "lock" ~> (pc[h] # "lock" \/ mu = Leaked)

(***************************************************************************)
(* A handler does not outlive its connection, but for two cases: it is in  *)
(* Write to a node that does not read, or needs a mutex that is lost.      *)
(***************************************************************************)
StuckInWrite(h) ==
  /\ pc[h] = "write"
  /\ conn[h] # Nil
  /\ socket[conn[h]] = "open" /\ backlog[conn[h]] = OutCap

ClosedHandlerEnds ==
  \A h \in Handlers :
    socket[h] = "closed" ~>
      (pc[h] \in {"ended", "idle"} \/ StuckInWrite(h) \/ mu = Leaked)

(***************************************************************************)
(* relayHandler: "destination node conn not found - dropping packet".  A   *)
(* handler whose own connection is open does not end because the one of    *)
(* the destination is gone.                                                *)
(***************************************************************************)
UnreachableIsDropped ==
  [][\A h \in Handlers :
       (pc[h] \in {"check", "write"} /\ pc'[h] = "ending")
         => socket[h] # "open"]_vars
=============================================================================
