----------------------------- MODULE RelayProofs -----------------------------
(***************************************************************************)
(* The relay for every set of nodes and of handlers: an open connection in *)
(* its forwarding loop is the one its node's packets are routed to, and    *)
(* the relay is a datagram network.                                        *)
(***************************************************************************)
EXTENDS Relay, TLAPS

USE RelayAssumption

-----------------------------------------------------------------------------
LEMMA InitInv == Init => RelayInv
<1> SUFFICES ASSUME Init PROVE RelayInv
  OBVIOUS
<1>1. RelayTypeOK
  BY DEF Init, RelayTypeOK, Labels, Weak
<1>2. OwnerInv /\ LockInv /\ WeakInv /\ NoOtherOpen /\ OpenIsRouted
  BY DEF Init, OwnerInv, LockInv, Registering, WeakInv, InHand, NoOtherOpen,
     OpenIsRouted, Forwarding
<1>3. QED
  BY <1>1, <1>2 DEF RelayInv

-----------------------------------------------------------------------------
(***************************************************************************)
(* Every step preserves the invariant: one lemma for each action.          *)
(***************************************************************************)
\* A client connects, whatever connections its node has.
LEMMA ConnectStep ==
  ASSUME RelayInv, NEW h \in Handlers, NEW n \in Nodes, Connect(h, n)
  PROVE  RelayInv'
<1> USE DEF RelayInv
<1>1. RelayTypeOK'
  BY DEF RelayTypeOK, Connect, Goto, regVars, fwdVars, Labels, Weak
<1>2. OwnerInv' /\ LockInv'
  BY DEF RelayTypeOK, OwnerInv, LockInv, Registering, Connect, Goto, regVars
<1>3. WeakInv'
  BY DEF RelayTypeOK, WeakInv, InHand, Connect, Goto, regVars, fwdVars
<1>4. NoOtherOpen'
  BY DEF RelayTypeOK, NoOtherOpen, OpenIsRouted, LockInv, Registering,
     Forwarding, Connect, Goto, ConnOf, regVars
<1>5. OpenIsRouted'
  BY DEF RelayTypeOK, OpenIsRouted, NoOtherOpen, Forwarding, Connect, Goto,
     ConnOf, regVars
<1>6. QED
  BY <1>1, <1>2, <1>3, <1>4, <1>5

\* A packet is queued on a connection.
LEMMA ClientSendsStep ==
  ASSUME RelayInv, NEW h \in Handlers, NEW n \in Nodes, ClientSends(h, n)
  PROVE  RelayInv'
<1> USE DEF RelayInv
<1>1. RelayTypeOK'
  <2>1. [dst |-> n, num |-> sent + 1] \in Message
    BY DEF RelayTypeOK, ClientSends, Message
  <2>2. inq[h] \in Seq(Message)
    BY DEF RelayTypeOK
  <2>3. Append(inq[h], [dst |-> n, num |-> sent + 1]) \in Seq(Message)
    BY <2>1, <2>2
  <2>4. inq' \in [Handlers -> Seq(Message)]
    BY <2>3 DEF RelayTypeOK, ClientSends
  <2>5. sent' \in 0..MaxPackets
    BY DEF RelayTypeOK, ClientSends
  <2>6. QED
    BY <2>4, <2>5 DEF RelayTypeOK, ClientSends, regVars, fwdVars
<1>2. OwnerInv' /\ LockInv'
  BY DEF RelayTypeOK, OwnerInv, LockInv, Registering, ClientSends, regVars
<1>3. WeakInv'
  BY DEF RelayTypeOK, WeakInv, InHand, ClientSends, regVars, fwdVars
<1>4. NoOtherOpen'
  BY DEF RelayTypeOK, NoOtherOpen, OpenIsRouted, LockInv, Registering,
     Forwarding, ClientSends, ConnOf, regVars
<1>5. OpenIsRouted'
  BY DEF RelayTypeOK, OpenIsRouted, NoOtherOpen, Forwarding, ClientSends,
     ConnOf, regVars
<1>6. QED
  BY <1>1, <1>2, <1>3, <1>4, <1>5

\* A packet leaves a connection.
LEMMA ClientReadsStep ==
  ASSUME RelayInv, NEW h \in Handlers, ClientReads(h)
  PROVE  RelayInv'
<1> USE DEF RelayInv
<1>1. RelayTypeOK'
  BY DEF RelayTypeOK, ClientReads, regVars, fwdVars, Labels, Weak
<1>2. OwnerInv' /\ LockInv'
  BY DEF RelayTypeOK, OwnerInv, LockInv, Registering, ClientReads, regVars
<1>3. WeakInv'
  BY DEF RelayTypeOK, WeakInv, InHand, ClientReads, regVars, fwdVars
<1>4. NoOtherOpen'
  BY DEF RelayTypeOK, NoOtherOpen, OpenIsRouted, LockInv, Registering,
     Forwarding, ClientReads, ConnOf, regVars
<1>5. OpenIsRouted'
  BY DEF RelayTypeOK, OpenIsRouted, NoOtherOpen, Forwarding, ClientReads,
     ConnOf, regVars
<1>6. QED
  BY <1>1, <1>2, <1>3, <1>4, <1>5

\* A connection closes.
LEMMA BreakStep ==
  ASSUME RelayInv, NEW h \in Handlers, Break(h)
  PROVE  RelayInv'
<1> USE DEF RelayInv
<1>1. RelayTypeOK'
  BY DEF RelayTypeOK, Break, Closed, regVars, fwdVars, Labels, Weak
<1>2. OwnerInv' /\ LockInv'
  BY DEF RelayTypeOK, OwnerInv, LockInv, Registering, Break, regVars
<1>3. WeakInv'
  BY DEF RelayTypeOK, WeakInv, InHand, Break, regVars, fwdVars
<1>4. NoOtherOpen'
  BY DEF RelayTypeOK, NoOtherOpen, OpenIsRouted, LockInv, Registering,
     Forwarding, Break, Closed, ConnOf, regVars
<1>5. OpenIsRouted'
  BY DEF RelayTypeOK, OpenIsRouted, NoOtherOpen, Forwarding, Break, Closed,
     ConnOf, regVars
<1>6. QED
  BY <1>1, <1>2, <1>3, <1>4, <1>5

\* A handler starts its registration.
LEMMA LockStep ==
  ASSUME RelayInv, NEW h \in Handlers, Lock(h)
  PROVE  RelayInv'
<1> USE DEF RelayInv
<1>1. RelayTypeOK'
  BY DEF RelayTypeOK, Lock, Goto, connVars, fwdVars, Labels, Weak
<1>2. OwnerInv' /\ LockInv'
  BY DEF RelayTypeOK, OwnerInv, LockInv, Registering, Lock, Goto, CanLock
<1>3. WeakInv'
  BY DEF RelayTypeOK, WeakInv, InHand, Lock, Goto, fwdVars
<1>4. NoOtherOpen'
  BY DEF RelayTypeOK, NoOtherOpen, OpenIsRouted, LockInv, Registering,
     Forwarding, Lock, Goto, ConnOf, connVars
<1>5. OpenIsRouted'
  BY DEF RelayTypeOK, OpenIsRouted, NoOtherOpen, Forwarding, Lock, Goto,
     ConnOf, connVars
<1>6. QED
  BY <1>1, <1>2, <1>3, <1>4, <1>5

\* Without an entry, no other connection of the node is open in its loop.
LEMMA CheckDuplicateStep ==
  ASSUME RelayInv, NEW h \in Handlers, CheckDuplicate(h)
  PROVE  RelayInv'
<1> USE DEF RelayInv
<1>1. RelayTypeOK'
  BY DEF RelayTypeOK, CheckDuplicate, Goto, regVars, connVars, fwdVars,
     Labels, Weak
<1>2. OwnerInv' /\ LockInv'
  BY DEF RelayTypeOK, OwnerInv, LockInv, Registering, CheckDuplicate, Goto,
     regVars
<1>3. WeakInv'
  BY DEF RelayTypeOK, WeakInv, InHand, CheckDuplicate, Goto, ConnOf, regVars,
     fwdVars
<1>4. NoOtherOpen'
  BY DEF RelayTypeOK, NoOtherOpen, OpenIsRouted, LockInv, Registering,
     Forwarding, CheckDuplicate, Goto, ConnOf, regVars, connVars
<1>5. OpenIsRouted'
  BY DEF RelayTypeOK, OpenIsRouted, NoOtherOpen, Forwarding, CheckDuplicate,
     Goto, ConnOf, regVars, connVars
<1>6. QED
  BY <1>1, <1>2, <1>3, <1>4, <1>5

\* The entry was the only one that could be open.
LEMMA CloseDuplicateStep ==
  ASSUME RelayInv, NEW h \in Handlers, CloseDuplicate(h)
  PROVE  RelayInv'
<1> USE DEF RelayInv
<1>1. RelayTypeOK'
  <2>1. ConnOf(owner[h]) \in Handlers
    BY DEF RelayTypeOK, CloseDuplicate, ConnOf, Weak
  <2>2. Closed(ConnOf(owner[h])) /\ pc' = [pc EXCEPT ![h] = "put"]
    BY DEF CloseDuplicate, Goto
  <2>3. /\ socket' \in [Handlers -> {"none", "open", "closed"}]
        /\ inq' \in [Handlers -> Seq(Message)]
        /\ backlog' \in [Handlers -> 0..OutCap]
    BY <2>1, <2>2 DEF RelayTypeOK, Closed
  <2>4. pc' \in [Handlers -> Labels]
    BY <2>2 DEF RelayTypeOK, Labels
  <2>5. QED
    BY <2>3, <2>4 DEF RelayTypeOK, CloseDuplicate, regVars, fwdVars
<1>2. OwnerInv' /\ LockInv'
  BY DEF RelayTypeOK, OwnerInv, LockInv, Registering, CloseDuplicate, Goto,
     regVars
<1>3. WeakInv'
  BY DEF RelayTypeOK, WeakInv, InHand, CloseDuplicate, Goto, ConnOf, regVars,
     fwdVars
<1>4. NoOtherOpen'
  BY DEF RelayTypeOK, NoOtherOpen, OpenIsRouted, LockInv, Registering,
     Forwarding, CloseDuplicate, Closed, Goto, ConnOf, regVars
<1>5. OpenIsRouted'
  BY DEF RelayTypeOK, OpenIsRouted, NoOtherOpen, Forwarding, CloseDuplicate,
     Closed, Goto, ConnOf, regVars
<1>6. QED
  BY <1>1, <1>2, <1>3, <1>4, <1>5

\* The handler ends, and leaves the mutex locked.
LEMMA CloseDuplicatePanicsStep ==
  ASSUME RelayInv, NEW h \in Handlers, CloseDuplicatePanics(h)
  PROVE  RelayInv'
<1> USE DEF RelayInv
<1>1. RelayTypeOK'
  BY DEF RelayTypeOK, CloseDuplicatePanics, Goto, connVars, fwdVars, Labels,
     Weak
<1>2. OwnerInv' /\ LockInv'
  BY DEF RelayTypeOK, OwnerInv, LockInv, Registering, CloseDuplicatePanics,
     Goto
<1>3. WeakInv'
  BY DEF RelayTypeOK, WeakInv, InHand, CloseDuplicatePanics, Goto, ConnOf,
     fwdVars
<1>4. NoOtherOpen'
  BY DEF RelayTypeOK, NoOtherOpen, OpenIsRouted, LockInv, Registering,
     Forwarding, CloseDuplicatePanics, Goto, ConnOf, connVars
<1>5. OpenIsRouted'
  BY DEF RelayTypeOK, OpenIsRouted, NoOtherOpen, Forwarding,
     CloseDuplicatePanics, Goto, ConnOf, connVars
<1>6. QED
  BY <1>1, <1>2, <1>3, <1>4, <1>5

\* The new connection has the entry, and no other is open.
LEMMA PutStep ==
  ASSUME RelayInv, NEW h \in Handlers, Put(h)
  PROVE  RelayInv'
<1> USE DEF RelayInv
<1>1. RelayTypeOK'
  <2>1. owner[h] \in Nodes
    BY DEF OwnerInv, Put
  <2>2. DOMAIN relayConns' \subseteq Nodes
    BY <2>1 DEF RelayTypeOK, Put
  <2>3. relayConns' \in [DOMAIN relayConns' -> Weak]
    BY DEF RelayTypeOK, Put, Weak
  <2>4. pc' \in [Handlers -> Labels]
    BY DEF RelayTypeOK, Put, Goto, Labels
  <2>5. QED
    BY <2>2, <2>3, <2>4 DEF RelayTypeOK, Put, connVars, fwdVars
<1>2. OwnerInv' /\ LockInv'
  BY DEF RelayTypeOK, OwnerInv, LockInv, Registering, Put, Goto
<1>3. WeakInv'
  BY DEF RelayTypeOK, WeakInv, InHand, Put, Goto, fwdVars
<1>4. NoOtherOpen'
  BY DEF RelayTypeOK, NoOtherOpen, OpenIsRouted, LockInv, Registering,
     Forwarding, Put, Goto, ConnOf, connVars
<1>5. OpenIsRouted'
  BY DEF RelayTypeOK, OpenIsRouted, NoOtherOpen, Forwarding, Put, Goto,
     ConnOf, connVars
<1>6. QED
  BY <1>1, <1>2, <1>3, <1>4, <1>5

\* A handler takes a packet from its connection.
LEMMA ReadStep ==
  ASSUME RelayInv, NEW h \in Handlers, Read(h)
  PROVE  RelayInv'
<1> USE DEF RelayInv
<1>1. RelayTypeOK'
  <2>1. inq[h] \in Seq(Message) /\ inq[h] # <<>>
    BY DEF RelayTypeOK, Read
  <2>2. Head(inq[h]) \in Message /\ Tail(inq[h]) \in Seq(Message)
    BY <2>1
  <2>3. inq' \in [Handlers -> Seq(Message)]
    BY <2>2 DEF RelayTypeOK, Read
  <2>4. packet' \in [Handlers -> Message \cup {NoPacket}]
    BY <2>2 DEF RelayTypeOK, Read
  <2>5. pc' \in [Handlers -> Labels]
    BY DEF RelayTypeOK, Read, Goto, Labels
  <2>6. QED
    BY <2>3, <2>4, <2>5 DEF RelayTypeOK, Read, regVars
<1>2. OwnerInv' /\ LockInv'
  BY DEF RelayTypeOK, OwnerInv, LockInv, Registering, Read, Goto, regVars
<1>3. WeakInv'
  <2>1. inq[h] \in Seq(Message) /\ inq[h] # <<>>
    BY DEF RelayTypeOK, Read
  <2>2. Head(inq[h]) \in Message
    BY <2>1
  <2>3. packet' = packet \/ packet' = [packet EXCEPT ![h] = Head(inq[h])]
    BY DEF Read
  <2>4. \A g \in Handlers :
          (InHand(g)' /\ pc'[g] # "lookup") =>
            /\ InHand(g) /\ pc'[g] = pc[g]
            /\ g # h /\ packet'[g] = packet[g]
    BY DEF RelayTypeOK, InHand, Read, Goto
  <2>5. \A g \in Handlers : InHand(g)' => packet'[g] \in Message
    BY <2>2, <2>3 DEF RelayTypeOK, WeakInv, InHand, Read, Goto
  <2>6. UNCHANGED <<relayConns, owner, conn>>
    BY DEF Read, regVars
  <2>7. \A g \in Handlers : pc[g] \notin {"idle", "lock"}
                             => pc'[g] \notin {"idle", "lock"}
    BY DEF RelayTypeOK, Read, Goto
  <2>8. QED
    BY <2>4, <2>5, <2>6, <2>7 DEF RelayTypeOK, WeakInv, Weak
<1>4. NoOtherOpen'
  BY DEF RelayTypeOK, NoOtherOpen, OpenIsRouted, LockInv, Registering,
     Forwarding, Read, Goto, ConnOf, regVars
<1>5. OpenIsRouted'
  BY DEF RelayTypeOK, OpenIsRouted, NoOtherOpen, Forwarding, Read, Goto,
     ConnOf, regVars
<1>6. QED
  BY <1>1, <1>2, <1>3, <1>4, <1>5

\* A handler whose connection is closed returns.
LEMMA ReadFailsStep ==
  ASSUME RelayInv, NEW h \in Handlers, ReadFails(h)
  PROVE  RelayInv'
<1> USE DEF RelayInv
<1>1. RelayTypeOK'
  BY DEF RelayTypeOK, ReadFails, Goto, regVars, connVars, fwdVars, Labels,
     Weak
<1>2. OwnerInv' /\ LockInv'
  BY DEF RelayTypeOK, OwnerInv, LockInv, Registering, ReadFails, Goto, regVars
<1>3. WeakInv'
  BY DEF RelayTypeOK, WeakInv, InHand, ReadFails, Goto, regVars, fwdVars
<1>4. NoOtherOpen'
  BY DEF RelayTypeOK, NoOtherOpen, OpenIsRouted, LockInv, Registering,
     Forwarding, ReadFails, Goto, ConnOf, regVars, connVars
<1>5. OpenIsRouted'
  BY DEF RelayTypeOK, OpenIsRouted, NoOtherOpen, Forwarding, ReadFails, Goto,
     ConnOf, regVars, connVars
<1>6. QED
  BY <1>1, <1>2, <1>3, <1>4, <1>5

\* A handler copies the entry of the destination.
LEMMA LookupStep ==
  ASSUME RelayInv, NEW h \in Handlers, Lookup(h)
  PROVE  RelayInv'
<1> USE DEF RelayInv
<1>1. RelayTypeOK'
  <2>1. ConnOf(packet[h].dst) \in Weak
    BY DEF RelayTypeOK, ConnOf, Weak
  <2>2. conn' \in [Handlers -> Weak]
    BY <2>1 DEF RelayTypeOK, Lookup
  <2>3. pc' \in [Handlers -> Labels]
    BY DEF RelayTypeOK, Lookup, Goto, Labels
  <2>4. QED
    BY <2>2, <2>3 DEF RelayTypeOK, Lookup, regVars, connVars
<1>2. OwnerInv' /\ LockInv'
  BY DEF RelayTypeOK, OwnerInv, LockInv, Registering, Lookup, Goto, regVars
<1>3. WeakInv'
  BY DEF RelayTypeOK, WeakInv, InHand, Lookup, Goto, ConnOf, regVars
<1>4. NoOtherOpen'
  BY DEF RelayTypeOK, NoOtherOpen, OpenIsRouted, LockInv, Registering,
     Forwarding, Lookup, Goto, ConnOf, regVars, connVars
<1>5. OpenIsRouted'
  BY DEF RelayTypeOK, OpenIsRouted, NoOtherOpen, Forwarding, Lookup, Goto,
     ConnOf, regVars, connVars
<1>6. QED
  BY <1>1, <1>2, <1>3, <1>4, <1>5

\* A handler drops its packet, or goes on to write it.
LEMMA CheckConnStep ==
  ASSUME RelayInv, NEW h \in Handlers, CheckConn(h)
  PROVE  RelayInv'
<1> USE DEF RelayInv
<1>1. RelayTypeOK'
  BY DEF RelayTypeOK, CheckConn, Goto, regVars, connVars, Labels, Weak
<1>2. OwnerInv' /\ LockInv'
  BY DEF RelayTypeOK, OwnerInv, LockInv, Registering, CheckConn, Goto, regVars
<1>3. WeakInv'
  <2>1. /\ UNCHANGED <<relayConns, owner, conn>>
        /\ \A g \in Handlers : pc[g] \notin {"idle", "lock"}
                              => pc'[g] \notin {"idle", "lock"}
    BY DEF RelayTypeOK, CheckConn, Goto, regVars
  <2>2. \A g \in Handlers :
          InHand(g)' => /\ InHand(g) /\ packet'[g] = packet[g]
                        /\ pc'[g] # "lookup" => pc[g] # "lookup"
    BY DEF RelayTypeOK, InHand, CheckConn, Goto
  <2>3. QED
    BY <2>1, <2>2 DEF RelayTypeOK, WeakInv, Weak
<1>4. NoOtherOpen'
  <2>1. \A g \in Handlers :
          /\ pc'[g] = pc[g] \/ pc[g] = "check"
          /\ pc'[g] # "put" \/ pc[g] = "put"
    BY DEF RelayTypeOK, CheckConn, Goto
  <2>2. UNCHANGED <<owner, socket>>
    BY DEF CheckConn, connVars
  <2>3. QED
    BY <2>1, <2>2 DEF NoOtherOpen, Forwarding
<1>5. OpenIsRouted'
  BY DEF RelayTypeOK, OpenIsRouted, NoOtherOpen, Forwarding, CheckConn, Goto,
     ConnOf, regVars, connVars
<1>6. QED
  BY <1>1, <1>2, <1>3, <1>4, <1>5

\* A packet is written to a connection of the node it is for.
LEMMA WriteStep ==
  ASSUME RelayInv, NEW h \in Handlers, Write(h)
  PROVE  RelayInv'
<1> USE DEF RelayInv
<1>1. RelayTypeOK'
  <2> DEFINE d == conn[h]
             p == [src |-> Header(h), dst |-> owner[d], num |-> packet[h].num]
  <2>1. d \in Handlers /\ owner[h] \in Nodes /\ packet[h] \in Message
    BY DEF RelayTypeOK, OwnerInv, WeakInv, InHand, Write, Weak
  <2>2. owner[d] \in Nodes
    BY <2>1 DEF OwnerInv, WeakInv, InHand, Write
  <2>3. p \in Network!Packet
    BY <2>1, <2>2 DEF Network!Packet, Header, Message
  <2>4. arrived[owner[d]] \in Seq(Network!Packet)
    BY <2>2 DEF RelayTypeOK
  <2> HIDE DEF p
  <2>5. Append(arrived[owner[d]], p) \in Seq(Network!Packet)
    BY <2>3, <2>4
  <2>6. arrived' = [arrived EXCEPT ![owner[d]] = Append(@, p)]
    BY DEF Write, p
  <2>7. arrived' \in [Nodes -> Seq(Network!Packet)]
    BY <2>5, <2>6 DEF RelayTypeOK
  <2>8. backlog' \in [Handlers -> 0..OutCap]
    BY <2>1 DEF RelayTypeOK, Write
  <2>9. /\ pc' \in [Handlers -> Labels]
        /\ packet' \in [Handlers -> Message \cup {NoPacket}]
        /\ conn' \in [Handlers -> Weak]
    BY DEF RelayTypeOK, Write, Goto, Labels, Weak
  <2>10. QED
    BY <2>7, <2>8, <2>9 DEF RelayTypeOK, Write, regVars
<1>2. OwnerInv' /\ LockInv'
  BY DEF RelayTypeOK, OwnerInv, LockInv, Registering, Write, Goto, regVars
<1>3. WeakInv'
  BY DEF RelayTypeOK, WeakInv, InHand, Write, Goto, regVars
<1>4. NoOtherOpen'
  BY DEF RelayTypeOK, NoOtherOpen, OpenIsRouted, LockInv, Registering,
     Forwarding, Write, Goto, ConnOf, regVars
<1>5. OpenIsRouted'
  BY DEF RelayTypeOK, OpenIsRouted, NoOtherOpen, Forwarding, Write, Goto,
     ConnOf, regVars
<1>6. QED
  BY <1>1, <1>2, <1>3, <1>4, <1>5

\* A handler returns because of the destination.
LEMMA WriteFailsStep ==
  ASSUME RelayInv, NEW h \in Handlers, WriteFails(h)
  PROVE  RelayInv'
<1> USE DEF RelayInv
<1>1. RelayTypeOK'
  BY DEF RelayTypeOK, WriteFails, Goto, regVars, connVars, fwdVars, Labels,
     Weak
<1>2. OwnerInv' /\ LockInv'
  BY DEF RelayTypeOK, OwnerInv, LockInv, Registering, WriteFails, Goto,
     regVars
<1>3. WeakInv'
  BY DEF RelayTypeOK, WeakInv, InHand, WriteFails, Goto, regVars, fwdVars
<1>4. NoOtherOpen'
  BY DEF RelayTypeOK, NoOtherOpen, OpenIsRouted, LockInv, Registering,
     Forwarding, WriteFails, Goto, ConnOf, regVars, connVars
<1>5. OpenIsRouted'
  BY DEF RelayTypeOK, OpenIsRouted, NoOtherOpen, Forwarding, WriteFails, Goto,
     ConnOf, regVars, connVars
<1>6. QED
  BY <1>1, <1>2, <1>3, <1>4, <1>5

\* A handler closes its own connection.
LEMMA EndStep ==
  ASSUME RelayInv, NEW h \in Handlers, End(h)
  PROVE  RelayInv'
<1> USE DEF RelayInv
<1>1. RelayTypeOK'
  BY DEF RelayTypeOK, End, Closed, Goto, regVars, Labels, Weak
<1>2. OwnerInv' /\ LockInv'
  BY DEF RelayTypeOK, OwnerInv, LockInv, Registering, End, Goto, regVars
<1>3. WeakInv'
  BY DEF RelayTypeOK, WeakInv, InHand, End, Goto, regVars
<1>4. NoOtherOpen'
  BY DEF RelayTypeOK, NoOtherOpen, OpenIsRouted, LockInv, Registering,
     Forwarding, End, Closed, Goto, ConnOf, regVars
<1>5. OpenIsRouted'
  BY DEF RelayTypeOK, OpenIsRouted, NoOtherOpen, Forwarding, End, Closed,
     Goto, ConnOf, regVars
<1>6. QED
  BY <1>1, <1>2, <1>3, <1>4, <1>5

\* No weak pointer leads to a collected connection.
LEMMA CollectStep ==
  ASSUME RelayInv, NEW h \in Handlers, Collect(h)
  PROVE  RelayInv'
<1> USE DEF RelayInv
<1>1. RelayTypeOK'
  BY DEF RelayTypeOK, Collect, Goto, Labels, Weak
<1>2. OwnerInv' /\ LockInv'
  BY DEF RelayTypeOK, OwnerInv, LockInv, Registering, Collect, Goto
<1>3. WeakInv'
  BY DEF RelayTypeOK, WeakInv, InHand, Collect, Goto
<1>4. NoOtherOpen'
  BY DEF RelayTypeOK, NoOtherOpen, OpenIsRouted, LockInv, Registering,
     Forwarding, Collect, Goto, ConnOf
<1>5. OpenIsRouted'
  BY DEF RelayTypeOK, OpenIsRouted, NoOtherOpen, Forwarding, Collect, Goto,
     ConnOf
<1>6. QED
  BY <1>1, <1>2, <1>3, <1>4, <1>5

-----------------------------------------------------------------------------
LEMMA NextInv == RelayInv /\ [Next]_vars => RelayInv'
<1> SUFFICES ASSUME RelayInv, [Next]_vars PROVE RelayInv'
  OBVIOUS
<1>1. ASSUME NEW h \in Handlers, HandlerStep(h) PROVE RelayInv'
  BY <1>1, LockStep, CheckDuplicateStep, CloseDuplicateStep,
     CloseDuplicatePanicsStep, PutStep, ReadStep, ReadFailsStep, LookupStep,
     CheckConnStep, WriteStep, WriteFailsStep, EndStep DEF HandlerStep
<1>2. ASSUME NEW h \in Handlers, ClientStep(h) PROVE RelayInv'
  BY <1>2, ConnectStep, ClientSendsStep, ClientReadsStep, BreakStep
     DEF ClientStep
<1>3. ASSUME NEW h \in Handlers, Collect(h) PROVE RelayInv'
  BY <1>3, CollectStep
<1>4. CASE UNCHANGED vars
  BY <1>4 DEF RelayInv, RelayTypeOK, OwnerInv, LockInv, Registering, WeakInv,
     InHand, NoOtherOpen, OpenIsRouted, Forwarding, ConnOf, vars
<1>5. QED
  BY <1>1, <1>2, <1>3, <1>4 DEF Next

THEOREM RelayInvariance == Spec => []RelayInv
<1>1. Init => RelayInv
  BY InitInv
<1>2. RelayInv /\ [Next]_vars => RelayInv'
  BY NextInv
<1>3. QED
  BY <1>1, <1>2, PTL DEF Spec

(***************************************************************************)
(* relayHandler registers a connection so that an open one in its loop is  *)
(* the one relayConns has for its node, however reconnects, broken         *)
(* connections and the collector interleave with it.                       *)
(***************************************************************************)
THEOREM OpenRouted == Spec => []OpenIsRouted
<1>1. RelayInv => OpenIsRouted
  BY DEF RelayInv
<1>2. QED
  BY <1>1, RelayInvariance, PTL

-----------------------------------------------------------------------------
(***************************************************************************)
(* The relay implements the datagram network.  The packets a handler has   *)
(* are those of its connection, at 1..Len(inq[h]), and the one in its      *)
(* hands, at 0.                                                            *)
(***************************************************************************)
Carries(h) == 1..Len(inq[h]) \cup {i \in {0} : InHand(h)}

At(h, i) == IF i = 0 THEN packet[h] ELSE inq[h][i]

\* What the refinement needs beyond RelayInv: only an open connection holds
\* packets, and no number is carried in two places.
CarriedOnce ==
  /\ \A h \in Handlers : \A i \in Carries(h) : At(h, i).num <= sent
  /\ \A g, h \in Handlers : \A i \in Carries(g), j \in Carries(h) :
       At(g, i).num = At(h, j).num => g = h /\ i = j

OpenHolds ==
  \A h \in Handlers :
    /\ socket[h] # "open" => inq[h] = <<>>
    /\ pc[h] \in {"idle", "ended"} => socket[h] # "open"

PacketInv == OpenHolds /\ CarriedOnce

LEMMA PendingIsCarried ==
  \A p : p \in Pending <=>
           \E h \in Handlers : \E i \in Carries(h) : p = Addressed(h, At(h, i))
<1> SUFFICES ASSUME NEW p
             PROVE  p \in Pending <=>
                      \E h \in Handlers : \E i \in Carries(h) :
                        p = Addressed(h, At(h, i))
  OBVIOUS
<1>1. p \in Pending <=>
        \/ \E h \in Handlers : \E i \in 1..Len(inq[h]) :
             p = Addressed(h, inq[h][i])
        \/ \E h \in Handlers : InHand(h) /\ p = Addressed(h, packet[h])
  BY DEF Pending
<1>2. ASSUME NEW h \in Handlers
      PROVE  (\E i \in Carries(h) : p = Addressed(h, At(h, i))) <=>
               \/ \E i \in 1..Len(inq[h]) : p = Addressed(h, inq[h][i])
               \/ InHand(h) /\ p = Addressed(h, packet[h])
  <2>1. \A i \in 1..Len(inq[h]) : At(h, i) = inq[h][i]
    BY DEF At
  <2>2. At(h, 0) = packet[h]
    BY DEF At
  <2>3. \A i : i \in Carries(h) <=>
                 i \in 1..Len(inq[h]) \/ (i = 0 /\ InHand(h))
    BY DEF Carries
  <2>4. QED
    BY <2>1, <2>2, <2>3, Zenon
<1>3. QED
  BY <1>1, <1>2, Zenon

LEMMA CarriedTypes ==
  ASSUME RelayInv, PacketInv, NEW h \in Handlers, NEW i \in Carries(h)
  PROVE  /\ At(h, i) \in Message /\ owner[h] \in Nodes
         /\ Addressed(h, At(h, i)) \in Network!Packet
<1>1. At(h, i) \in Message
  <2>1. CASE i = 0
    BY <2>1 DEF Carries, At, RelayInv, WeakInv
  <2>2. CASE i # 0
    <3>1. inq[h] \in Seq(Message) /\ i \in 1..Len(inq[h])
      BY <2>2 DEF Carries, RelayInv, RelayTypeOK
    <3>2. QED
      BY <2>2, <3>1 DEF At
  <2>3. QED
    BY <2>1, <2>2
<1>2. pc[h] # "idle"
  <2>1. CASE i = 0
    BY <2>1 DEF Carries, InHand
  <2>2. CASE i # 0
    BY <2>2 DEF Carries, PacketInv, OpenHolds, RelayInv, RelayTypeOK
  <2>3. QED
    BY <2>1, <2>2
<1>3. owner[h] \in Nodes
  BY <1>2 DEF RelayInv, OwnerInv
<1>4. QED
  BY <1>1, <1>3 DEF Addressed, Message, Network!Packet

(***************************************************************************)
(* A step after which each packet is where it was, or one place nearer to  *)
(* the handler, and some are gone, is a loss of packets to the network.    *)
(***************************************************************************)
KeepsPlaces(h) ==
  \E d \in {0, 1} :
    \A i \in Carries(h)' :
      /\ i + d \in Carries(h)
      /\ At(h, i)' = At(h, i + d)
      /\ owner'[h] = owner[h]

LEMMA FewerPending ==
  ASSUME \A h \in Handlers : KeepsPlaces(h)
  PROVE  Pending' \subseteq Pending
<1> SUFFICES ASSUME NEW p, p \in Pending' PROVE p \in Pending
  OBVIOUS
<1>1. PendingIsCarried'
  BY PendingIsCarried, PTL
<1>2. PICK h \in Handlers : \E i \in Carries(h)' : p = Addressed(h, At(h, i))'
  BY <1>1
<1> PICK i \in Carries(h)' : p = Addressed(h, At(h, i))'
  BY <1>2
<1>3. PICK d \in {0, 1} : /\ i + d \in Carries(h)
                          /\ At(h, i)' = At(h, i + d)
                          /\ owner'[h] = owner[h]
  BY <1>2 DEF KeepsPlaces
<1>4. p = Addressed(h, At(h, i + d))
  BY <1>2, <1>3 DEF Addressed
<1>5. QED
  BY <1>3, <1>4, PendingIsCarried

LEMMA FewerIsLoss ==
  ASSUME \A h \in Handlers : KeepsPlaces(h), UNCHANGED <<sent, arrived>>
  PROVE  Network!Next
<1> DEFINE ps == Pending \ Pending'
<1>1. Network!Lose(ps)
  BY FewerPending DEF Network!Lose
<1>2. ps \in SUBSET Pending
  OBVIOUS
<1> HIDE DEF ps
<1>3. QED
  BY <1>1, <1>2 DEF Network!Next

LEMMA FewerCarried ==
  ASSUME RelayInv, PacketInv, \A h \in Handlers : KeepsPlaces(h), sent' = sent
  PROVE  CarriedOnce'
<1>1. ASSUME NEW h \in Handlers, NEW i \in Carries(h)'
      PROVE  At(h, i)'.num <= sent'
  BY <1>1 DEF KeepsPlaces, PacketInv, CarriedOnce
<1>2. ASSUME NEW g \in Handlers, NEW h \in Handlers, NEW i \in Carries(g)',
             NEW j \in Carries(h)', At(g, i)'.num = At(h, j)'.num
      PROVE  g = h /\ i = j
  <2>1. g = h
    BY <1>2 DEF KeepsPlaces, PacketInv, CarriedOnce
  <2>2. PICK d \in {0, 1} : \A k \in Carries(g)' :
               /\ k + d \in Carries(g)
               /\ At(g, k)' = At(g, k + d)
    BY DEF KeepsPlaces
  <2>3. i + d = j + d
    BY <1>2, <2>1, <2>2 DEF PacketInv, CarriedOnce
  <2>4. i \in Nat /\ j \in Nat
    BY DEF Carries
  <2>5. QED
    BY <2>1, <2>3, <2>4
<1>3. QED
  BY <1>1, <1>2 DEF CarriedOnce

LEMMA InPlace ==
  ASSUME NEW g \in Handlers,
         inq'[g] = inq[g] \/ inq'[g] = <<>>,
         InHand(g)' => InHand(g) /\ packet'[g] = packet[g],
         owner'[g] = owner[g] \/ (inq'[g] = <<>> /\ ~InHand(g)')
  PROVE  KeepsPlaces(g)
<1>1. ASSUME NEW i \in Carries(g)'
      PROVE  /\ i + 0 = i /\ i \in Carries(g) /\ At(g, i)' = At(g, i)
             /\ owner'[g] = owner[g]
  BY DEF Carries, At
<1>2. QED
  BY <1>1 DEF KeepsPlaces

(***************************************************************************)
(* Every action but ClientSends and Write keeps the places of the packets. *)
(***************************************************************************)
LEMMA ClientKeeps ==
  ASSUME RelayInv, PacketInv, NEW h \in Handlers,
         (\E n \in Nodes : Connect(h, n)) \/ ClientReads(h) \/ Break(h)
           \/ Collect(h)
  PROVE  /\ \A g \in Handlers : KeepsPlaces(g)
         /\ OpenHolds' /\ UNCHANGED <<sent, arrived>>
<1> USE DEF RelayInv, RelayTypeOK, PacketInv, OpenHolds, InHand, fwdVars,
            Goto
<1>1. CASE \E n \in Nodes : Connect(h, n)
  <2>1. \A g \in Handlers : KeepsPlaces(g)
    BY <1>1, InPlace DEF Connect
  <2>2. OpenHolds' /\ UNCHANGED <<sent, arrived>>
    BY <1>1 DEF Connect
  <2>3. QED
    BY <2>1, <2>2
<1>2. CASE ClientReads(h)
  <2>1. \A g \in Handlers : KeepsPlaces(g)
    BY <1>2, InPlace DEF ClientReads
  <2>2. OpenHolds' /\ UNCHANGED <<sent, arrived>>
    BY <1>2 DEF ClientReads
  <2>3. QED
    BY <2>1, <2>2
<1>3. CASE Break(h)
  <2>1. \A g \in Handlers : KeepsPlaces(g)
    BY <1>3, InPlace DEF Break, Closed
  <2>2. OpenHolds' /\ UNCHANGED <<sent, arrived>>
    BY <1>3 DEF Break, Closed
  <2>3. QED
    BY <2>1, <2>2
<1>4. CASE Collect(h)
  <2>1. \A g \in Handlers : KeepsPlaces(g)
    BY <1>4, InPlace DEF Collect
  <2>2. OpenHolds' /\ UNCHANGED <<sent, arrived>>
    BY <1>4 DEF Collect
  <2>3. QED
    BY <2>1, <2>2
<1>5. QED
  BY <1>1, <1>2, <1>3, <1>4

LEMMA RegistrationKeeps ==
  ASSUME RelayInv, PacketInv, NEW h \in Handlers,
         Lock(h) \/ CheckDuplicate(h) \/ CloseDuplicate(h)
           \/ CloseDuplicatePanics(h) \/ Put(h)
  PROVE  /\ \A g \in Handlers : KeepsPlaces(g)
         /\ OpenHolds' /\ UNCHANGED <<sent, arrived>>
<1> USE DEF RelayInv, RelayTypeOK, PacketInv, OpenHolds, InHand, fwdVars,
            connVars, Goto
<1>1. CASE CloseDuplicate(h)
  <2>1. \A g \in Handlers : KeepsPlaces(g)
    BY <1>1, InPlace DEF CloseDuplicate, Closed
  <2>2. OpenHolds' /\ UNCHANGED <<sent, arrived>>
    BY <1>1 DEF CloseDuplicate, Closed
  <2>3. QED
    BY <2>1, <2>2
<1>2. CASE ~CloseDuplicate(h)
  <2>1. /\ UNCHANGED <<inq, socket, packet, owner, sent, arrived>>
        /\ \A g \in Handlers :
             /\ InHand(g)' => InHand(g)
             /\ pc'[g] \in {"idle", "ended"} => pc[g] \in {"idle", "ended"}
    BY <1>2 DEF Lock, CheckDuplicate, CloseDuplicatePanics, Put
  <2>2. \A g \in Handlers : KeepsPlaces(g)
    BY <2>1, InPlace
  <2>3. OpenHolds'
    BY <2>1
  <2>4. QED
    BY <2>1, <2>2, <2>3
<1>3. QED
  BY <1>1, <1>2

LEMMA ForwardingKeeps ==
  ASSUME RelayInv, PacketInv, NEW h \in Handlers,
         ReadFails(h) \/ Lookup(h) \/ CheckConn(h) \/ WriteFails(h) \/ End(h)
  PROVE  /\ \A g \in Handlers : KeepsPlaces(g)
         /\ OpenHolds' /\ UNCHANGED <<sent, arrived>>
<1> USE DEF RelayInv, RelayTypeOK, PacketInv, OpenHolds, InHand, fwdVars,
            connVars, Goto
<1>1. CASE End(h)
  <2>1. \A g \in Handlers : KeepsPlaces(g)
    BY <1>1, InPlace DEF End, Closed
  <2>2. OpenHolds' /\ UNCHANGED <<sent, arrived>>
    BY <1>1 DEF End, Closed
  <2>3. QED
    BY <2>1, <2>2
<1>2. CASE ~End(h)
  <2>1. /\ UNCHANGED <<inq, socket, owner, sent, arrived>>
        /\ \A g \in Handlers :
             /\ InHand(g)' => InHand(g) /\ packet'[g] = packet[g]
             /\ pc'[g] \in {"idle", "ended"} => pc[g] \in {"idle", "ended"}
    BY <1>2 DEF ReadFails, Lookup, CheckConn, WriteFails
  <2>2. \A g \in Handlers : KeepsPlaces(g)
    BY <2>1, InPlace
  <2>3. OpenHolds'
    BY <2>1
  <2>4. QED
    BY <2>1, <2>2, <2>3
<1>3. QED
  BY <1>1, <1>2

\* The first packet of the connection moves to the handler, or is dropped.
LEMMA ReadKeeps ==
  ASSUME RelayInv, PacketInv, NEW h \in Handlers, Read(h)
  PROVE  /\ \A g \in Handlers : KeepsPlaces(g)
         /\ OpenHolds' /\ UNCHANGED <<sent, arrived>>
<1> USE DEF RelayInv, RelayTypeOK, PacketInv, OpenHolds, InHand, Goto
<1>1. ASSUME NEW g \in Handlers, g # h PROVE KeepsPlaces(g)
  BY <1>1, InPlace DEF Read
<1>2. KeepsPlaces(h)
  <2>1. /\ inq[h] \in Seq(Message) /\ inq[h] # <<>>
        /\ inq'[h] = Tail(inq[h]) /\ owner' = owner
    BY DEF Read
  <2>2. /\ Len(inq'[h]) = Len(inq[h]) - 1 /\ Len(inq[h]) \in Nat \ {0}
        /\ \A i \in 1..Len(inq'[h]) : inq'[h][i] = inq[h][i + 1]
        /\ Head(inq[h]) = inq[h][1]
    BY <2>1
  <2>3. InHand(h)' => packet'[h] = inq[h][1]
    BY <2>2 DEF Read
  <2>4. ASSUME NEW i \in Carries(h)'
        PROVE  i + 1 \in Carries(h) /\ At(h, i)' = At(h, i + 1)
    <3>1. CASE i = 0
      BY <2>2, <2>3, <3>1 DEF Carries, At
    <3>2. CASE i # 0
      BY <2>2, <3>2 DEF Carries, At
    <3>3. QED
      BY <3>1, <3>2
  <2>5. QED
    BY <2>1, <2>4 DEF KeepsPlaces
<1>3. OpenHolds' /\ UNCHANGED <<sent, arrived>>
  BY DEF Read
<1>4. QED
  BY <1>1, <1>2, <1>3

-----------------------------------------------------------------------------
\* A client sends: a new packet, with a number of its own.
LEMMA SendsNew ==
  ASSUME RelayInv, PacketInv, NEW h \in Handlers, NEW n \in Nodes,
         ClientSends(h, n)
  PROVE  PacketInv' /\ Network!Next
<1> DEFINE m == [dst |-> n, num |-> sent + 1]
           p == Addressed(h, m)
           l == Len(inq[h]) + 1
<1>1. /\ sent \in Nat /\ sent' = sent + 1 /\ sent' \in 1..MaxPackets
      /\ UNCHANGED <<owner, socket, pc, packet, arrived>>
  BY DEF RelayInv, RelayTypeOK, ClientSends, fwdVars
<1>2. /\ inq[h] \in Seq(Message) /\ inq'[h] = Append(inq[h], m)
      /\ \A g \in Handlers : g # h => inq'[g] = inq[g]
      /\ socket[h] = "open"
  BY DEF RelayInv, RelayTypeOK, ClientSends
<1>3. /\ Len(inq[h]) \in Nat /\ Len(inq'[h]) = l
      /\ \A i \in 1..Len(inq[h]) : inq'[h][i] = inq[h][i]
      /\ inq'[h][l] = m
  BY <1>2
<1>4. ASSUME NEW g \in Handlers, NEW i
      PROVE  /\ i \in Carries(g)' <=> i \in Carries(g) \/ (g = h /\ i = l)
             /\ i \in Carries(g) => At(g, i)' = At(g, i) /\ i \in Nat
             /\ g = h /\ i = l => At(g, i)' = m /\ i \notin Carries(g)
  <2>1. InHand(g)' <=> InHand(g)
    BY <1>1 DEF InHand
  <2>2. i \in Carries(g) => i \in Nat
    BY DEF Carries
  <2>3. CASE g # h
    BY <1>1, <1>2, <2>1, <2>2, <2>3 DEF Carries, At
  <2>4. CASE g = h
    BY <1>1, <1>3, <2>1, <2>2, <2>4 DEF Carries, At
  <2>5. QED
    BY <2>3, <2>4
<1>5. \A g \in Handlers : \A i \in Carries(g) :
        At(g, i).num \in Nat /\ At(g, i).num <= sent
  BY CarriedTypes DEF PacketInv, CarriedOnce, Message
<1>6. CarriedOnce'
  <2>1. \A g \in Handlers : \A i \in Carries(g)' : At(g, i)'.num <= sent'
    BY <1>1, <1>4, <1>5
  <2>2. \A f, g \in Handlers : \A i \in Carries(f)', j \in Carries(g)' :
          At(f, i)'.num = At(g, j)'.num => f = g /\ i = j
    BY <1>1, <1>4, <1>5 DEF PacketInv, CarriedOnce
  <2>3. QED
    BY <2>1, <2>2 DEF CarriedOnce
<1>7. OpenHolds'
  BY <1>1, <1>2 DEF PacketInv, OpenHolds
<1>8. Network!Send(p)
  <2>1. p.num = sent + 1
    BY DEF Addressed
  <2>2. PendingIsCarried'
    BY PendingIsCarried, PTL
  <2>3. \A q : q \in Pending' <=> q \in Pending \/ q = p
    BY <1>1, <1>4, <2>2, PendingIsCarried DEF Addressed
  <2>4. Pending' = Pending \cup {p}
    BY <2>3
  <2>5. QED
    BY <1>1, <2>1, <2>4 DEF Network!Send
<1>9. p \in Network!Packet
  <2>1. owner[h] \in Nodes
    BY <1>2 DEF RelayInv, OwnerInv, PacketInv, OpenHolds
  <2>2. QED
    BY <1>1, <2>1 DEF Addressed, Network!Packet
<1>10. QED
  BY <1>6, <1>7, <1>8, <1>9 DEF PacketInv, Network!Next

\* A packet arrives: it is carried nowhere else, so it is gone.
LEMMA WriteArrives ==
  ASSUME RelayInv, PacketInv, NEW h \in Handlers, Write(h)
  PROVE  PacketInv' /\ Network!Next
<1> DEFINE p == Addressed(h, packet[h])
<1>1. /\ InHand(h) /\ ~InHand(h)' /\ conn[h] \in Handlers
      /\ packet[h] \in Message /\ owner[conn[h]] = packet[h].dst
      /\ owner[h] \in Nodes
      /\ UNCHANGED <<owner, socket, inq, sent>>
  BY DEF RelayInv, RelayTypeOK, WeakInv, OwnerInv, InHand, Write, Goto, Weak
<1>2. \A g \in Handlers : g # h =>
        (InHand(g)' <=> InHand(g)) /\ packet'[g] = packet[g]
  BY DEF RelayInv, RelayTypeOK, InHand, Write, Goto
<1>3. ASSUME NEW g \in Handlers, NEW i
      PROVE  /\ i \in Carries(g)' <=> i \in Carries(g) /\ (g # h \/ i # 0)
             /\ i \in Carries(g)' => At(g, i)' = At(g, i)
  BY <1>1, <1>2 DEF Carries, At
<1>4. 0 \in Carries(h) /\ At(h, 0) = packet[h]
  BY <1>1 DEF Carries, At
<1>5. \A g \in Handlers : KeepsPlaces(g)
  BY <1>1, <1>2, InPlace
<1>6. CarriedOnce'
  BY <1>1, <1>5, FewerCarried
<1>7. OpenHolds'
  BY <1>1 DEF PacketInv, OpenHolds, RelayInv, RelayTypeOK, Write, Goto
<1>8. Network!Arrive(p)
  <2>1. PendingIsCarried'
    BY PendingIsCarried, PTL
  <2>2. p \in Pending
    BY <1>4, PendingIsCarried
  <2>3. p \notin Pending'
    <3> SUFFICES ASSUME p \in Pending' PROVE FALSE
      OBVIOUS
    <3>1. PICK g \in Handlers :
            \E i \in Carries(g)' : p = Addressed(g, At(g, i))'
      BY <2>1
    <3>2. PICK i \in Carries(g)' : p = Addressed(g, At(g, i))'
      BY <3>1
    <3>3. i \in Carries(g) /\ At(g, i).num = At(h, 0).num
      BY <1>3, <1>4, <3>2 DEF Addressed
    <3>4. g = h /\ i = 0
      BY <1>4, <3>3 DEF PacketInv, CarriedOnce
    <3>5. QED
      BY <1>3, <3>4
  <2>4. ASSUME NEW q, q \in Pending, q # p PROVE q \in Pending'
    <3>1. PICK g \in Handlers :
            \E i \in Carries(g) : q = Addressed(g, At(g, i))
      BY <2>4, PendingIsCarried
    <3>2. PICK i \in Carries(g) : q = Addressed(g, At(g, i))
      BY <3>1
    <3>3. i \in Carries(g)' /\ At(g, i)' = At(g, i)
      BY <1>3, <1>4, <2>4, <3>2
    <3>4. q = Addressed(g, At(g, i))'
      BY <1>1, <3>2, <3>3 DEF Addressed
    <3>5. QED
      BY <2>1, <3>3, <3>4
  <2>5. Pending' = Pending \ {p}
    BY <1>5, <2>3, <2>4, FewerPending
  <2>6. arrived' = [arrived EXCEPT ![p.dst] = Append(@, p)]
    BY <1>1 DEF Write, Addressed, Header
  <2>7. QED
    BY <1>1, <2>2, <2>5, <2>6 DEF Network!Arrive
<1>9. p \in Network!Packet
  BY <1>4, CarriedTypes
<1>10. QED
  BY <1>6, <1>7, <1>8, <1>9 DEF PacketInv, Network!Next

-----------------------------------------------------------------------------
LEMMA NetworkStep ==
  ASSUME RelayInv, PacketInv, Next
  PROVE  PacketInv' /\ Network!Next
<1>1. PICK h \in Handlers : HandlerStep(h) \/ ClientStep(h) \/ Collect(h)
  BY DEF Next
<1>2. CASE \E n \in Nodes : ClientSends(h, n)
  BY <1>2, SendsNew
<1>3. CASE Write(h)
  BY <1>3, WriteArrives
<1>4. CASE ~Write(h) /\ ~\E n \in Nodes : ClientSends(h, n)
  <2>1. /\ \A g \in Handlers : KeepsPlaces(g)
        /\ OpenHolds' /\ UNCHANGED <<sent, arrived>>
    BY <1>1, <1>4, ClientKeeps, RegistrationKeeps, ForwardingKeeps, ReadKeeps
       DEF HandlerStep, ClientStep
  <2>2. QED
    BY <2>1, FewerIsLoss, FewerCarried DEF PacketInv
<1>5. QED
  BY <1>2, <1>3, <1>4

(***************************************************************************)
(* The relay is a datagram network: it misroutes no packet, forwards none  *)
(* under another sender's ID and none twice, for any number of nodes and   *)
(* connections, however clients reconnect, connections break and the       *)
(* collector clears weak pointers.                                         *)
(***************************************************************************)
THEOREM RelayImplementsNetwork == Spec => ImplementsNetwork
<1>1. Init => PacketInv /\ Network!Init
  <2> SUFFICES ASSUME Init PROVE PacketInv /\ Network!Init
    OBVIOUS
  <2>1. \A h \in Handlers : Carries(h) = {}
    BY DEF Init, Carries, InHand
  <2>2. PacketInv
    BY <2>1 DEF Init, PacketInv, OpenHolds, CarriedOnce
  <2>3. Pending = {}
    BY <2>1, PendingIsCarried
  <2>4. QED
    BY <2>2, <2>3 DEF Init, Network!Init
<1>2. RelayInv /\ PacketInv /\ [Next]_vars
        => PacketInv' /\ [Network!Next]_(Network!netVars)
  <2> SUFFICES ASSUME RelayInv, PacketInv, [Next]_vars
               PROVE  PacketInv' /\ [Network!Next]_(Network!netVars)
    OBVIOUS
  <2>1. CASE Next
    BY <2>1, NetworkStep
  <2>2. CASE UNCHANGED vars
    <3>1. PacketInv'
      BY <2>2 DEF vars, PacketInv, OpenHolds, CarriedOnce, Carries, At, InHand
    <3>2. UNCHANGED Network!netVars
      BY <2>2 DEF vars, Network!netVars, Pending, Addressed, InHand
    <3>3. QED
      BY <3>1, <3>2
  <2>3. QED
    BY <2>1, <2>2
<1>3. QED
  BY <1>1, <1>2, RelayInvariance, PTL
     DEF Spec, ImplementsNetwork, Network!Spec

(***************************************************************************)
(* So no packet comes in twice, and none at a node it was not sent to.     *)
(***************************************************************************)
THEOREM RelayForwardsOnce == Spec => []Network!AtMostOnce
<1>1. MaxPackets \in Nat
  BY RelayAssumption
<1>2. ImplementsNetwork => []Network!AtMostOnce
  BY <1>1, Network!PacketsArriveOnce DEF ImplementsNetwork
<1>3. QED
  BY <1>2, RelayImplementsNetwork, PTL
=============================================================================
