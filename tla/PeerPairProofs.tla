---------------------------- MODULE PeerPairProofs ----------------------------
(***************************************************************************)
(* Two peers bring each other's data to the tunnel like the abstract       *)
(* network: what is in a tunnel was sent by the other node, for it, and    *)
(* comes out of it once, whatever is lost, overtaken, or sent the other    *)
(* way.  What a Peer knows or measures plays no part in the argument: only *)
(* that a write puts its packet either on the direct path or in the relay, *)
(* and that no other handler sends data.                                   *)
(***************************************************************************)
EXTENDS PeerPair, SequenceTheorems, TLAPS

USE PeerAssumption, PairAssumption

RelayMsg ==
  {RelayData} \cup {Request({n}) : n \in Nodes}
              \cup {Response({n}) : n \in Nodes}

InRelay  == [msg : RelayMsg, num : 0..MaxData]
UdpKinds == {"ping", "pong", "data"}
OnUdp    == [src : Nodes, dst : Nodes, kind : UdpKinds, num : 0..MaxData]

WireTypeOK ==
  /\ sent \in 0..MaxData
  /\ udp \subseteq OnUdp
  /\ relay \in [Nodes -> Seq(InRelay)]

(***************************************************************************)
(* Data that is followed has the number of a packet sent, goes from one of *)
(* the nodes to the other, and is on one of its two ways, not on both.     *)
(***************************************************************************)
UdpData == {m \in udp : m.kind = "data"}
RelayDataAt(n) == {i \in 1..Len(relay[n]) : relay[n][i].msg.kind = "data"}

DataIsNumbered ==
  /\ \A m \in UdpData : m.num \in 1..sent
  /\ \A n \in Nodes : \A i \in RelayDataAt(n) : relay[n][i].num \in 1..sent

OneWay ==
  \A m \in UdpData, n \in Nodes : \A i \in RelayDataAt(n) :
    relay[n][i].num # m.num

PairInv == WireTypeOK /\ DataIsNumbered /\ OneWay

-----------------------------------------------------------------------------
(***************************************************************************)
(* The two nodes, and the packets of a handler.                            *)
(***************************************************************************)
LEMMA OtherNode ==
  ASSUME NEW n \in Nodes
  PROVE  Other(n) \in Nodes /\ Other(n) # n /\ Other(Other(n)) = n
<1>1. PICK a \in Nodes, b \in Nodes : a # b /\ Nodes = {a, b}
  OBVIOUS
<1>2. \A k \in Nodes : Other(k) \in Nodes /\ Other(k) # k
  <2>1. \A k \in Nodes : \E m \in Nodes : m # k
    BY <1>1
  <2>2. QED
    BY <2>1 DEF Other
<1>3. QED
  BY <1>1, <1>2

LEMMA RelayMsgKinds ==
  /\ \A m \in RelayMsg : m.kind \in {"data", "request", "response"}
  /\ RelayData \in RelayMsg /\ RelayData.kind = "data"
  /\ \A n \in Nodes :
       /\ Request({n}) \in RelayMsg /\ Request({n}).kind = "request"
       /\ Response({n}) \in RelayMsg /\ Response({n}).kind = "response"
BY DEF RelayMsg, RelayData, Request, Response

\* What a handler of node n sends through the relay without data, and with.
Answering(n) == {<<>>, <<Response({n})>>}
Carrying(n)  == {<<RelayData>>, <<Request({n}), RelayData>>}

\* No data among the UDP packets of a handler.
NoUdpData(ms) == \A m \in ms : m.kind \in {"ping", "pong"}

\* One packet of data among them.
OneUdpData(us) ==
  \E e, ms : us = ms \cup {DataTo(e)} /\ NoUdpData(ms)

LEMMA PacketKinds ==
  \A e : /\ PingTo(e).kind = "ping" /\ PongTo(e).kind = "pong"
         /\ DataTo(e).kind = "data"
BY DEF PingTo, PongTo, DataTo

LEMMA PingsAreNoData == \A p : NoUdpData(PingAllPackets(p))
BY PacketKinds DEF PingAllPackets, NoUdpData

LEMMA RelayPackets ==
  ASSUME NEW n
  PROVE  /\ <<RelayData>> \in Carrying(n)
         /\ <<Request({n}), RelayData>> \in Carrying(n)
         /\ Answering(n) \cap Carrying(n) = {}
<1>1. RelayData.kind = "data" /\ Response({n}).kind = "response"
  BY DEF RelayData, Response
<1>2. /\ <<RelayData>> # <<>> /\ <<Request({n}), RelayData>> # <<>>
      /\ <<RelayData>> # <<Response({n})>>
      /\ <<Request({n}), RelayData>> # <<Response({n})>>
  BY <1>1
<1>3. QED
  BY <1>2 DEF Answering, Carrying

LEMMA SentByRelay ==
  ASSUME NEW n, NEW p, NEW u, NEW ms, NoUdpData(u), ms \in Carrying(n)
  PROVE  Sent(p, u, ms).relay \in Carrying(n) /\ NoUdpData(Sent(p, u, ms).udp)
<1>1. Sent(p, u, ms).udp = u /\ Sent(p, u, ms).relay = ms
  BY DEF Sent
<1>2. QED
  BY <1>1

(***************************************************************************)
(* write sends the packet it is given once: on the direct path, with       *)
(* nothing through the relay, or as the last it sends through the relay.   *)
(***************************************************************************)
LEMMA WriteSendsOnce ==
  ASSUME NEW p, NEW n
  PROVE  \/ Write(p, {n}).relay = <<>> /\ OneUdpData(Write(p, {n}).udp)
         \/ /\ Write(p, {n}).relay \in Carrying(n)
            /\ NoUdpData(Write(p, {n}).udp)
<1>1. CASE p.activeAddr = None
  <2>1. Write(p, {n}) = WriteByRelay(p, {n})
    BY <1>1 DEF Write
  <2> DEFINE x == [p EXCEPT !.lastEndpointSync = 0]
             a == PingAll(p)
             u == PingAllPackets(p)
             y == <<Request({n}), RelayData>>
             z == <<RelayData>>
             N == {}
  <2>2. \/ Write(p, {n}) = Sent(x, N, y)
        \/ Write(p, {n}) = Sent(a, u, z)
        \/ Write(p, {n}) = Sent(p, N, z)
    BY <2>1 DEF WriteByRelay
  <2>3. y \in Carrying(n) /\ z \in Carrying(n)
    BY RelayPackets
  <2>4. NoUdpData(u) /\ NoUdpData(N)
    BY PingsAreNoData DEF NoUdpData
  <2> HIDE DEF x, a, u, y, z, N
  <2>5. \A s \in {Sent(x, N, y), Sent(a, u, z), Sent(p, N, z)} :
          s.relay \in Carrying(n) /\ NoUdpData(s.udp)
    BY <2>3, <2>4, SentByRelay
  <2>6. QED
    BY <2>2, <2>5
<1>2. CASE p.activeAddr # None
  <2> DEFINE d == DataTo(p.activeAddr)
             g == PingTo(p.activeAddr)
             a == PingAll(p)
             u == PingAllPackets(p) \cup {d}
             q == [p EXCEPT !.lastActiveCheck = 0]
             s == {g, d}
  <2>1. \/ Write(p, {n}) = Sent(a, u, <<>>)
        \/ Write(p, {n}) = Sent(q, s, <<>>)
        \/ Write(p, {n}) = Sent(GiveUp(p), {}, <<RelayData>>)
        \/ Write(p, {n}) = Sent(p, {d}, <<>>)
    BY <1>2 DEF Write, WriteDirect
  <2>2. NoUdpData(PingAllPackets(p)) /\ NoUdpData({g}) /\ NoUdpData({})
    BY PingsAreNoData, PacketKinds DEF NoUdpData
  <2> HIDE DEF a, q
  <2>3. CASE Write(p, {n}) = Sent(a, u, <<>>)
    <3>1. Write(p, {n}).udp = PingAllPackets(p) \cup {d}
          /\ Write(p, {n}).relay = <<>>
      BY <2>3 DEF Sent
    <3>2. QED
      BY <2>2, <3>1 DEF OneUdpData
  <2>4. CASE Write(p, {n}) = Sent(q, s, <<>>)
    <3>1. Write(p, {n}).udp = {g} \cup {d} /\ Write(p, {n}).relay = <<>>
      BY <2>4 DEF Sent
    <3>2. QED
      BY <2>2, <3>1 DEF OneUdpData
  <2>5. CASE Write(p, {n}) = Sent(GiveUp(p), {}, <<RelayData>>)
    <3> DEFINE x == GiveUp(p)
               z == <<RelayData>>
               N == {}
    <3>1. /\ z \in Carrying(n) /\ NoUdpData(N)
          /\ Write(p, {n}) = Sent(x, N, z)
      BY <2>2, <2>5, RelayPackets
    <3> HIDE DEF x, z, N
    <3>2. QED
      BY <3>1, SentByRelay
  <2>6. CASE Write(p, {n}) = Sent(p, {d}, <<>>)
    <3>1. Write(p, {n}).udp = {} \cup {d} /\ Write(p, {n}).relay = <<>>
      BY <2>6 DEF Sent
    <3>2. QED
      BY <2>2, <3>1 DEF OneUdpData
  <2>7. QED
    BY <2>1, <2>3, <2>4, <2>5, <2>6
<1>3. QED
  BY <1>1, <1>2

(***************************************************************************)
(* The handlers of what comes in send no data.                             *)
(***************************************************************************)
LEMMA HandlersSendNoData ==
  ASSUME NEW p, NEW e, NEW n \in Nodes
  PROVE  /\ NoUdpData(HandlePing(p, e).udp) /\ HandlePing(p, e).relay = <<>>
         /\ NoUdpData(HandlePong(p, e).udp) /\ HandlePong(p, e).relay = <<>>
         /\ \A r \in {HandleEndpointRequest(p, e, {n}),
                      HandleEndpointResponse(p, e), Done(p)} :
              NoUdpData(r.udp) /\ r.relay \in Answering(n)
<1>1. NoUdpData(HandlePing(p, e).udp) /\ HandlePing(p, e).relay = <<>>
  BY PacketKinds DEF HandlePing, Sent, Done, NoUdpData
<1>2. NoUdpData(HandlePong(p, e).udp) /\ HandlePong(p, e).relay = <<>>
  <2>1. CASE e \notin DOMAIN p.candidates
    BY <2>1 DEF HandlePong, Done, NoUdpData
  <2>2. CASE e \in DOMAIN p.candidates /\ ~p.candidates[e].ponged
    BY <2>2, PacketKinds DEF HandlePong, Sent, NoUdpData
  <2>3. CASE e \in DOMAIN p.candidates /\ p.candidates[e].ponged
    BY <2>3 DEF HandlePong, Done, NoUdpData
  <2>4. QED
    BY <2>1, <2>2, <2>3
<1>3. \A r \in {HandleEndpointRequest(p, e, {n}),
                HandleEndpointResponse(p, e), Done(p)} :
        NoUdpData(r.udp) /\ r.relay \in Answering(n)
  BY DEF HandleEndpointRequest, HandleEndpointResponse, Answering, NoUdpData,
         Sent, Done
<1>4. QED
  BY <1>1, <1>2, <1>3

-----------------------------------------------------------------------------
(***************************************************************************)
(* What a handler of node n puts on the wire.                              *)
(***************************************************************************)
Out(n, ms, num) == Tracked({Addressed(n, m, num) : m \in ms})

LEMMA UdpOut ==
  ASSUME NEW n \in Nodes, NEW ms, NoUdpData(ms), NEW num \in 0..MaxData
  PROVE  \A x \in Out(n, ms, num) :
           x \in OnUdp /\ x.kind # "data"
<1>1. \A m \in ms : Addressed(n, m, num) \in OnUdp
                    /\ Addressed(n, m, num).kind = m.kind
  BY OtherNode DEF NoUdpData, Addressed, OnUdp, UdpKinds
<1>2. QED
  BY <1>1 DEF Out, Tracked, NoUdpData

FollowedData(n, num) ==
  [src |-> n, dst |-> Other(n), kind |-> "data", num |-> num]

LEMMA UdpOutData ==
  ASSUME NEW n \in Nodes, NEW us, OneUdpData(us),
         NEW num \in 0..MaxData
  PROVE  /\ FollowedData(n, num) \in OnUdp
         /\ \A x \in Out(n, us, num) :
              \/ x \in OnUdp /\ x.kind # "data"
              \/ num # 0 /\ x = FollowedData(n, num)
         /\ num # 0 =>
              FollowedData(n, num) \in Out(n, us, num)
<1>0. PICK e, ms : us = ms \cup {DataTo(e)} /\ NoUdpData(ms)
  BY DEF OneUdpData
<1>1. FollowedData(n, num) \in OnUdp
  BY OtherNode DEF FollowedData, OnUdp, UdpKinds
<1>2. Addressed(n, DataTo(e), num) = FollowedData(n, num)
  BY PacketKinds DEF Addressed, FollowedData
<1>3. \A m \in ms : Addressed(n, m, num) \in OnUdp
                    /\ Addressed(n, m, num).kind \in {"ping", "pong"}
  BY <1>0, OtherNode DEF NoUdpData, Addressed, OnUdp, UdpKinds
<1>4. FollowedData(n, num).kind = "data" /\ FollowedData(n, num).num = num
  BY DEF FollowedData
<1>5. QED
  BY <1>0, <1>1, <1>2, <1>3, <1>4 DEF Out, Tracked

LEMMA FunctionIsSeq ==
  ASSUME NEW S, NEW N \in Nat, NEW c \in [1..N -> S]
  PROVE  c \in Seq(S) /\ Len(c) = N
<1>1. c \in Seq(S)
  BY SeqDef
<1>2. DOMAIN c = 1..N /\ DOMAIN c = 1..Len(c) /\ Len(c) \in Nat
  BY <1>1, LenProperties
<1>3. QED
  BY <1>2

LEMMA CopiesOut ==
  ASSUME NEW n \in Nodes, NEW num \in 0..MaxData,
         NEW ms \in Answering(n) \cup Carrying(n)
  PROVE  /\ Copies(ms, num) \in Seq(InRelay)
         /\ \A i \in 1..Len(Copies(ms, num)) :
              Copies(ms, num)[i].msg.kind = "data" =>
                /\ ms \in Carrying(n)
                /\ num # 0 /\ Copies(ms, num)[i].num = num
         /\ num # 0 /\ ms \in Carrying(n) =>
              \E i \in 1..Len(Copies(ms, num)) :
                Copies(ms, num)[i].msg.kind = "data"
<1> DEFINE c == Copies(ms, num)
           k(m) == [msg |-> m, num |-> IF m.kind = "data" THEN num ELSE 0]
<1>1. \A m \in RelayMsg : /\ k(m) \in InRelay /\ k(m).msg = m
                          /\ m.kind = "data" => k(m).num = num
  BY DEF InRelay
<1>2. /\ RelayData \in RelayMsg /\ RelayData.kind = "data"
      /\ Request({n}) \in RelayMsg /\ Request({n}).kind = "request"
      /\ Response({n}) \in RelayMsg /\ Response({n}).kind = "response"
  BY RelayMsgKinds
<1>3. CASE ms = <<>>
  <2>1. Len(c) = 0 /\ c = [i \in 1..0 |-> k(ms[i])]
    BY <1>3 DEF Copies
  <2>2. c \in Seq(InRelay)
    BY <2>1
  <2>3. QED
    BY <1>3, <2>1, <2>2 DEF Carrying
<1>4. CASE ms = <<Response({n})>>
  <2>1. c = [i \in 1..1 |-> k(ms[i])] /\ ms[1] = Response({n})
    BY <1>2, <1>4 DEF Copies
  <2> HIDE DEF k, c
  <2>2. c = [i \in 1..1 |-> k(Response({n}))]
    BY <2>1
  <2>3. c \in Seq(InRelay) /\ Len(c) = 1 /\ c[1] = k(Response({n}))
    <3>1. c \in [1..1 -> InRelay] /\ c[1] = k(Response({n}))
      BY <1>1, <1>2, <2>2
    <3>2. QED
      BY <3>1, FunctionIsSeq
  <2>4. QED
    BY <1>1, <1>2, <1>4, <2>3 DEF c, Carrying
<1>5. CASE ms = <<RelayData>>
  <2>1. ms[1] = RelayData /\ Len(ms) = 1 /\ ms # <<>>
    BY <1>5
  <2>2. CASE num = 0
    <3>1. Len(c) = 0 /\ c = [i \in 1..0 |-> k(ms[i])]
      BY <1>2, <2>1, <2>2 DEF Copies
    <3>2. c \in Seq(InRelay)
      BY <3>1
    <3>3. QED
      BY <2>2, <3>1, <3>2
  <2>3. CASE num # 0
    <3>1. c = [i \in 1..1 |-> k(ms[i])]
      BY <2>1, <2>3 DEF Copies
    <3> HIDE DEF k, c
    <3>2. c = [i \in 1..1 |-> k(RelayData)]
      BY <2>1, <3>1
    <3>3. c \in Seq(InRelay) /\ Len(c) = 1 /\ c[1] = k(RelayData)
      <4>1. c \in [1..1 -> InRelay] /\ c[1] = k(RelayData)
        BY <1>1, <1>2, <3>2
      <4>2. QED
        BY <4>1, FunctionIsSeq
    <3>4. ms \in Carrying(n)
      BY <1>5 DEF Carrying
    <3>5. QED
      BY <1>1, <1>2, <2>3, <3>3, <3>4 DEF c
  <2>4. QED
    BY <2>2, <2>3
<1>6. CASE ms = <<Request({n}), RelayData>>
  <2>1. /\ ms[1] = Request({n}) /\ ms[2] = RelayData /\ Len(ms) = 2
        /\ ms # <<>> /\ ms \in Carrying(n)
    BY <1>6 DEF Carrying
  <2>2. CASE num = 0
    <3>1. c = [i \in 1..1 |-> k(ms[i])]
      BY <1>2, <2>1, <2>2 DEF Copies
    <3> HIDE DEF k, c
    <3>2. c = [i \in 1..1 |-> k(Request({n}))]
      BY <2>1, <3>1
    <3>3. c \in Seq(InRelay) /\ Len(c) = 1 /\ c[1] = k(Request({n}))
      <4>1. c \in [1..1 -> InRelay] /\ c[1] = k(Request({n}))
        BY <1>1, <1>2, <3>2
      <4>2. QED
        BY <4>1, FunctionIsSeq
    <3>4. QED
      BY <1>1, <1>2, <2>2, <3>3 DEF c
  <2>3. CASE num # 0
    <3>1. c = [i \in 1..2 |-> k(ms[i])]
      BY <2>1, <2>3 DEF Copies
    <3> HIDE DEF k, c
    <3>2. k(ms[1]) = k(Request({n})) /\ k(ms[2]) = k(RelayData)
      BY <2>1
    <3>3. /\ c \in Seq(InRelay) /\ Len(c) = 2
          /\ c[1] = k(Request({n})) /\ c[2] = k(RelayData)
      <4>1. /\ c \in [1..2 -> InRelay]
            /\ c[1] = k(Request({n})) /\ c[2] = k(RelayData)
        BY <1>1, <1>2, <2>1, <3>1
      <4>2. QED
        BY <4>1, FunctionIsSeq
    <3>4. QED
      BY <1>1, <1>2, <2>1, <2>3, <3>3 DEF c
  <2>4. QED
    BY <2>2, <2>3
<1>7. QED
  BY <1>3, <1>4, <1>5, <1>6 DEF Answering, Carrying

-----------------------------------------------------------------------------
(***************************************************************************)
(* A step that sends no new data: data that is on its way was on the same  *)
(* way before.  For the abstract network it loses what is not there any    *)
(* more, or nothing.                                                       *)
(***************************************************************************)
NoNewData ==
  /\ udp' \subseteq OnUdp
  /\ relay' \in [Nodes -> Seq(InRelay)]
  /\ UdpData' \subseteq UdpData
  /\ \A n \in Nodes : \A i \in RelayDataAt(n)' :
       \E j \in RelayDataAt(n) : relay[n][j] = relay'[n][i]
  /\ UNCHANGED <<sent, arrived>>

LEMMA PendingIs ==
  WireTypeOK =>
    \A p : p \in Pending <=>
             \/ \E m \in UdpData : p = DataPacket(m.src, m.dst, m.num)
             \/ \E n \in Nodes : \E i \in RelayDataAt(n) :
                  p = DataPacket(Other(n), n, relay[n][i].num)
<1> SUFFICES ASSUME WireTypeOK, NEW p
             PROVE  p \in Pending <=>
               \/ \E m \in UdpData : p = DataPacket(m.src, m.dst, m.num)
               \/ \E n \in Nodes : \E i \in RelayDataAt(n) :
                    p = DataPacket(Other(n), n, relay[n][i].num)
  OBVIOUS
<1> DEFINE R(n) == {DataPacket(Other(n), n, relay[n][i].num) :
                      i \in {j \in DOMAIN relay[n] :
                               relay[n][j].msg.kind = "data"}}
<1>1. \A n \in Nodes : DOMAIN relay[n] = 1..Len(relay[n])
  BY LenProperties DEF WireTypeOK
<1>2. \A n \in Nodes :
        p \in R(n) <=> \E i \in RelayDataAt(n) :
                         p = DataPacket(Other(n), n, relay[n][i].num)
  BY <1>1 DEF RelayDataAt
<1>3. p \in {DataPacket(m.src, m.dst, m.num) :
               m \in {x \in udp : x.kind = "data"}}
      <=> \E m \in UdpData : p = DataPacket(m.src, m.dst, m.num)
  BY DEF UdpData
<1> HIDE DEF R
<1>4. p \in UNION {R(n) : n \in Nodes} <=> \E n \in Nodes : p \in R(n)
  OBVIOUS
<1>5. QED
  BY <1>2, <1>3, <1>4 DEF Pending, R

LEMMA NoNewDataStep ==
  ASSUME PairInv, NoNewData
  PROVE  PairInv' /\ [Tunnel!Next]_Tunnel!netVars
<1>1. WireTypeOK /\ DataIsNumbered /\ OneWay
  BY DEF PairInv
<1>2. WireTypeOK'
  BY <1>1 DEF WireTypeOK, NoNewData
<1>3. \A n \in Nodes : \A i \in RelayDataAt(n)' :
        \E j \in RelayDataAt(n) : relay[n][j] = relay'[n][i]
  BY DEF NoNewData
<1>4. UdpData' \subseteq UdpData /\ UNCHANGED <<sent, arrived>>
  BY DEF NoNewData
<1>5. DataIsNumbered'
  <2>1. \A m \in UdpData' : m.num \in 1..sent'
    BY <1>1, <1>4 DEF DataIsNumbered
  <2>2. ASSUME NEW n \in Nodes, NEW i \in RelayDataAt(n)'
        PROVE  relay'[n][i].num \in 1..sent'
    BY <1>1, <1>3, <1>4, <2>2 DEF DataIsNumbered
  <2>3. QED
    BY <2>1, <2>2 DEF DataIsNumbered
<1>6. OneWay'
  <2>1. ASSUME NEW m \in UdpData', NEW n \in Nodes, NEW i \in RelayDataAt(n)'
        PROVE  relay'[n][i].num # m.num
    BY <1>1, <1>3, <1>4, <2>1 DEF OneWay
  <2>2. QED
    BY <2>1 DEF OneWay
<1>7. Pending' \subseteq Pending
  <2>1. ASSUME NEW p \in Pending' PROVE p \in Pending
    <3>1. \/ \E m \in UdpData' : p = DataPacket(m.src, m.dst, m.num)
          \/ \E n \in Nodes : \E i \in RelayDataAt(n)' :
               p = DataPacket(Other(n), n, relay'[n][i].num)
      <4>1. PendingIs'
        BY PendingIs, PTL
      <4>2. QED
        BY <1>2, <2>1, <4>1
    <3>2. QED
      BY <1>1, <1>3, <1>4, <3>1, PendingIs
  <2>2. QED
    BY <2>1
<1>8. [Tunnel!Next]_Tunnel!netVars
  <2> DEFINE ps == Pending \ Pending'
  <2>1. ps \subseteq Pending /\ Pending' = Pending \ ps
    BY <1>7
  <2> HIDE DEF ps
  <2>2. Tunnel!Lose(ps)
    BY <1>4, <2>1 DEF Tunnel!Lose
  <2>3. QED
    BY <2>1, <2>2 DEF Tunnel!Next
<1>9. QED
  BY <1>2, <1>5, <1>6, <1>8 DEF PairInv

-----------------------------------------------------------------------------
(***************************************************************************)
(* A handler that sends no data, on what is left of the wire.              *)
(***************************************************************************)
LEMMA RelayOut ==
  ASSUME NEW k \in Nodes, NEW relay0 \in [Nodes -> Seq(InRelay)],
         NEW c \in Seq(InRelay),
         relay' = [relay0 EXCEPT ![k] = @ \o c]
  PROVE  /\ relay' \in [Nodes -> Seq(InRelay)]
         /\ Len(relay0[k]) \in Nat /\ Len(c) \in Nat
         /\ Len(relay'[k]) = Len(relay0[k]) + Len(c)
         /\ \A i \in 1..(Len(relay0[k]) + Len(c)) :
              relay'[k][i] = IF i <= Len(relay0[k])
                             THEN relay0[k][i] ELSE c[i - Len(relay0[k])]
         /\ \A n \in Nodes : n # k => relay'[n] = relay0[n]
<1>1. relay0[k] \in Seq(InRelay)
  OBVIOUS
<1>2. relay'[k] = relay0[k] \o c
      /\ \A n \in Nodes : n # k => relay'[n] = relay0[n]
  OBVIOUS
<1>3. /\ relay0[k] \o c \in Seq(InRelay)
      /\ Len(relay0[k] \o c) = Len(relay0[k]) + Len(c)
      /\ \A i \in 1..(Len(relay0[k]) + Len(c)) :
           (relay0[k] \o c)[i] = IF i <= Len(relay0[k])
                                 THEN relay0[k][i] ELSE c[i - Len(relay0[k])]
  BY <1>1, ConcatProperties
<1>4. relay' \in [Nodes -> Seq(InRelay)]
  BY <1>3
<1>5. Len(relay0[k]) \in Nat /\ Len(c) \in Nat
  BY <1>1, LenProperties
<1>6. QED
  BY <1>2, <1>3, <1>4, <1>5

\* What is left of the packets in the relay, and packets that are no data.
StillThere(rs) ==
  /\ rs \in [Nodes -> Seq(InRelay)]
  /\ \A k \in Nodes : \A i \in 1..Len(rs[k]) :
       \E j \in 1..Len(relay[k]) : relay[k][j] = rs[k][i]

NoDataOut(out, c) ==
  /\ \A x \in out : x \in OnUdp /\ x.kind # "data"
  /\ \A i \in 1..Len(c) : c[i].msg.kind # "data"

LEMMA WireNoNewData ==
  ASSUME WireTypeOK, NEW o \in Nodes, NEW out, NEW c \in Seq(InRelay),
         NoDataOut(out, c),
         NEW udp0 \in SUBSET udp, NEW relay0, StillThere(relay0),
         udp' = udp0 \cup out, relay' = [relay0 EXCEPT ![o] = @ \o c],
         UNCHANGED <<sent, arrived>>
  PROVE  NoNewData
<1>1. relay0 \in [Nodes -> Seq(InRelay)]
      /\ \A k \in Nodes : \A i \in 1..Len(relay0[k]) :
           \E j \in 1..Len(relay[k]) : relay[k][j] = relay0[k][i]
  BY DEF StillThere
<1>2. \A i \in 1..Len(c) : c[i].msg.kind # "data"
  BY DEF NoDataOut
<1>3. \A x \in out : x \in OnUdp /\ x.kind # "data"
  BY DEF NoDataOut
<1>4. udp' = udp0 \cup out /\ relay' = [relay0 EXCEPT ![o] = @ \o c]
  OBVIOUS
<1>5. udp' \subseteq OnUdp /\ UdpData' \subseteq UdpData
  BY <1>3, <1>4 DEF WireTypeOK, UdpData
<1>6. /\ relay' \in [Nodes -> Seq(InRelay)]
      /\ Len(relay0[o]) \in Nat /\ Len(c) \in Nat
      /\ Len(relay'[o]) = Len(relay0[o]) + Len(c)
      /\ \A i \in 1..(Len(relay0[o]) + Len(c)) :
           relay'[o][i] = IF i <= Len(relay0[o])
                          THEN relay0[o][i] ELSE c[i - Len(relay0[o])]
      /\ \A k \in Nodes : k # o => relay'[k] = relay0[k]
  BY <1>1, <1>4, RelayOut
<1>7. ASSUME NEW k \in Nodes, NEW i \in 1..Len(relay'[k]),
             relay'[k][i].msg.kind = "data"
      PROVE  \E j \in 1..Len(relay[k]) : relay[k][j] = relay'[k][i]
  <2>1. CASE k # o
    <3>1. relay'[k] = relay0[k]
      BY <1>6, <2>1
    <3>2. i \in 1..Len(relay0[k])
      BY <3>1
    <3>3. \E j \in 1..Len(relay[k]) : relay[k][j] = relay0[k][i]
      BY <1>1, <3>2
    <3>4. QED
      BY <3>1, <3>3
  <2>2. CASE k = o
    <3>1. i \in 1..(Len(relay0[o]) + Len(c))
      BY <1>6, <2>2
    <3>2. CASE i <= Len(relay0[o])
      <4>1. relay'[k][i] = relay0[k][i] /\ i \in 1..Len(relay0[k])
        BY <1>6, <2>2, <3>1, <3>2
      <4>2. \E j \in 1..Len(relay[k]) : relay[k][j] = relay0[k][i]
        BY <1>1, <4>1
      <4>3. QED
        BY <4>1, <4>2
    <3>3. CASE ~(i <= Len(relay0[o]))
      <4>1. i - Len(relay0[o]) \in 1..Len(c)
        BY <1>6, <3>1, <3>3
      <4>2. relay'[o][i] = c[i - Len(relay0[o])]
        BY <1>6, <3>1, <3>3
      <4>3. QED
        BY <1>2, <1>7, <2>2, <4>1, <4>2
    <3>4. QED
      BY <3>2, <3>3
  <2>3. QED
    BY <2>1, <2>2
<1>8. \A k \in Nodes : \A i \in RelayDataAt(k)' :
        \E j \in RelayDataAt(k) : relay[k][j] = relay'[k][i]
  <2>1. ASSUME NEW k \in Nodes, NEW i \in RelayDataAt(k)'
        PROVE  \E j \in RelayDataAt(k) : relay[k][j] = relay'[k][i]
    <3>1. i \in 1..Len(relay'[k]) /\ relay'[k][i].msg.kind = "data"
      BY <2>1 DEF RelayDataAt
    <3>2. PICK j \in 1..Len(relay[k]) : relay[k][j] = relay'[k][i]
      BY <1>7, <3>1
    <3>3. j \in RelayDataAt(k)
      BY <3>1, <3>2 DEF RelayDataAt
    <3>4. QED
      BY <3>2, <3>3
  <2>2. QED
    BY <2>1
<1>9. QED
  BY <1>5, <1>6, <1>8 DEF NoNewData

LEMMA EmitsNoNewData ==
  ASSUME WireTypeOK, NEW n \in Nodes, NEW r, NoUdpData(r.udp),
         r.relay \in Answering(n),
         NEW udp0 \in SUBSET udp, NEW relay0, StillThere(relay0),
         Emits(n, r, 0, udp0, relay0), UNCHANGED <<sent, arrived>>
  PROVE  NoNewData
<1> DEFINE c   == Copies(r.relay, 0)
           out == Out(n, r.udp, 0)
           o   == Other(n)
<1>1. o \in Nodes
  BY OtherNode
<1>2. /\ c \in Seq(InRelay)
      /\ \A i \in 1..Len(c) : c[i].msg.kind # "data"
  <2>1. 0 \in 0..MaxData
    OBVIOUS
  <2>2. r.relay \in Answering(n) /\ r.relay \notin Carrying(n)
    BY RelayPackets
  <2>3. QED
    BY <2>1, <2>2, CopiesOut
<1>3. \A x \in out : x \in OnUdp /\ x.kind # "data"
  BY UdpOut
<1>4. udp' = udp0 \cup out /\ relay' = [relay0 EXCEPT ![o] = @ \o c]
  BY DEF Emits, Out
<1> HIDE DEF c, out, o
<1>5. NoDataOut(out, c)
  BY <1>2, <1>3 DEF NoDataOut
<1>6. QED
  BY <1>1, <1>2, <1>4, <1>5, WireNoNewData

\* What is left when the first packet is taken out.
LEMMA TailLeft ==
  ASSUME WireTypeOK, NEW n \in Nodes, relay[n] # <<>>
  PROVE  LET rest == [relay EXCEPT ![n] = Tail(@)]
         IN /\ StillThere(rest)
            /\ Head(relay[n]).msg \in RelayMsg
<1> DEFINE s    == relay[n]
           rest == [relay EXCEPT ![n] = Tail(@)]
<1>1. s \in Seq(InRelay) /\ s # <<>>
  BY DEF WireTypeOK
<1>2. /\ Head(s) \in InRelay /\ Tail(s) \in Seq(InRelay)
      /\ Len(Tail(s)) = Len(s) - 1
      /\ \A i \in 1..Len(Tail(s)) : Tail(s)[i] = s[i + 1]
      /\ Len(s) \in Nat
  BY <1>1, HeadTailProperties, LenProperties
<1>3. rest[n] = Tail(s) /\ \A k \in Nodes : k # n => rest[k] = relay[k]
  BY DEF WireTypeOK
<1>4. rest \in [Nodes -> Seq(InRelay)]
  BY <1>2 DEF WireTypeOK
<1>5. \A i \in 1..Len(Tail(s)) : i + 1 \in 1..Len(s)
  BY <1>2
<1> HIDE DEF rest, s
<1>6. ASSUME NEW k \in Nodes, NEW i \in 1..Len(rest[k])
      PROVE  \E j \in 1..Len(relay[k]) : relay[k][j] = rest[k][i]
  <2>1. CASE k = n
    <3>1. rest[k] = Tail(s) /\ relay[k] = s
      BY <1>3, <2>1 DEF s
    <3>2. i \in 1..Len(Tail(s))
      BY <3>1
    <3>3. rest[k][i] = s[i + 1] /\ i + 1 \in 1..Len(s)
      BY <1>2, <1>5, <3>1, <3>2
    <3>4. QED
      BY <3>1, <3>3
  <2>2. CASE k # n
    BY <1>3, <1>6, <2>2
  <2>3. QED
    BY <2>1, <2>2
<1>7. Head(relay[n]).msg \in RelayMsg
  BY <1>2 DEF InRelay, s
<1>8. QED
  BY <1>4, <1>6, <1>7 DEF rest, StillThere

-----------------------------------------------------------------------------
(***************************************************************************)
(* Every step keeps the invariant, and is a step of the abstract network   *)
(* or none.                                                                *)
(***************************************************************************)
LEMMA RelayStays ==
  ASSUME WireTypeOK
  PROVE  StillThere(relay)
BY DEF WireTypeOK, StillThere

LEMMA DiscoveryStep ==
  ASSUME PairInv, NEW n \in Nodes, NEW m, InboundDiscovery(n, m)
  PROVE  NoNewData
<1> DEFINE r   == IF m.kind = "ping" THEN HandlePing(peer[n], m.src)
                                     ELSE HandlePong(peer[n], m.src)
           ps  == udp \ {m}
<1>1. NoUdpData(r.udp) /\ r.relay = <<>>
  BY HandlersSendNoData
<1>2. r.relay \in Answering(n)
  BY <1>1 DEF Answering
<1>3. Emits(n, r, 0, ps, relay) /\ UNCHANGED <<sent, arrived>>
  BY DEF InboundDiscovery
<1>4. ps \in SUBSET udp
  OBVIOUS
<1> HIDE DEF r, ps
<1>5. WireTypeOK
  BY DEF PairInv
<1>6. QED
  BY <1>1, <1>2, <1>3, <1>4, <1>5, RelayStays, EmitsNoNewData

LEMMA RelayedStep ==
  ASSUME PairInv, NEW n \in Nodes, InboundRelay(n)
  PROVE  NoNewData
<1> DEFINE m    == Head(relay[n]).msg
           rest == [relay EXCEPT ![n] = Tail(@)]
           rq   == HandleEndpointRequest(peer[n], m.eps, {n})
           rs   == HandleEndpointResponse(peer[n], m.eps)
           rd   == Done(peer[n])
<1>1. WireTypeOK /\ relay[n] # <<>> /\ UNCHANGED <<sent, arrived>>
  BY DEF PairInv, InboundRelay
<1>2. StillThere(rest) /\ m \in RelayMsg
  BY <1>1, TailLeft
<1>3. m.kind \in {"data", "request", "response"}
  BY <1>2, RelayMsgKinds
<1>4. \/ Emits(n, rq, 0, udp, rest)
      \/ Emits(n, rs, 0, udp, rest)
      \/ Emits(n, rd, 0, udp, rest)
  BY <1>3 DEF InboundRelay
<1> DEFINE old == peer[n]
           es  == m.eps
<1>5. \A r \in {HandleEndpointRequest(old, es, {n}),
                HandleEndpointResponse(old, es), Done(old)} :
        NoUdpData(r.udp) /\ r.relay \in Answering(n)
  <2> HIDE DEF old, es
  <2>1. QED
    BY HandlersSendNoData
<1>6. PICK r \in {rq, rs, rd} : Emits(n, r, 0, udp, rest)
  BY <1>4
<1>7. NoUdpData(r.udp) /\ r.relay \in Answering(n)
  BY <1>5
<1> HIDE DEF m, rest, rq, rs, rd
<1>8. StillThere(rest)
  BY <1>2
<1>9. WireTypeOK /\ UNCHANGED <<sent, arrived>>
  BY <1>1
<1> DEFINE us == udp
<1>10. us \in SUBSET udp /\ Emits(n, r, 0, us, rest)
  BY <1>6
<1> HIDE DEF us
<1>11. QED
  BY <1>7, <1>8, <1>9, <1>10, EmitsNoNewData

LEMMA LoseStep ==
  ASSUME PairInv, Lose
  PROVE  NoNewData
<1>1. WireTypeOK /\ UNCHANGED <<sent, arrived>>
  BY DEF PairInv, Lose
<1>2. ASSUME NEW m \in udp, udp' = udp \ {m}, UNCHANGED relay
      PROVE  NoNewData
  BY <1>1, <1>2 DEF NoNewData, WireTypeOK, UdpData, RelayDataAt
<1>3. ASSUME NEW n \in Nodes, relay[n] # <<>>, UNCHANGED udp,
             relay' = [relay EXCEPT ![n] = Tail(@)]
      PROVE  NoNewData
  <2>1. /\ relay' \in [Nodes -> Seq(InRelay)]
        /\ \A k \in Nodes : \A i \in 1..Len(relay'[k]) :
             \E j \in 1..Len(relay[k]) : relay[k][j] = relay'[k][i]
    <3> DEFINE rest == [relay EXCEPT ![n] = Tail(@)]
    <3>1. StillThere(rest)
      BY <1>1, <1>3, TailLeft
    <3>2. relay' = rest
      BY <1>3
    <3> HIDE DEF rest
    <3>3. relay' \in [Nodes -> Seq(InRelay)]
      BY <3>1, <3>2 DEF StillThere
    <3>4. ASSUME NEW k \in Nodes, NEW i \in 1..Len(relay'[k])
          PROVE  \E j \in 1..Len(relay[k]) : relay[k][j] = relay'[k][i]
      <4>1. i \in 1..Len(rest[k])
        BY <3>2, <3>4
      <4>2. PICK j \in 1..Len(relay[k]) : relay[k][j] = rest[k][i]
        BY <3>1, <4>1 DEF StillThere
      <4>3. QED
        BY <3>2, <4>2
    <3>5. QED
      BY <3>3, <3>4
  <2>2. ASSUME NEW k \in Nodes, NEW i \in RelayDataAt(k)'
        PROVE  \E j \in RelayDataAt(k) : relay[k][j] = relay'[k][i]
    <3>1. i \in 1..Len(relay'[k]) /\ relay'[k][i].msg.kind = "data"
      BY <2>2 DEF RelayDataAt
    <3>2. PICK j \in 1..Len(relay[k]) : relay[k][j] = relay'[k][i]
      BY <2>1, <3>1
    <3>3. j \in RelayDataAt(k)
      BY <3>1, <3>2 DEF RelayDataAt
    <3>4. QED
      BY <3>2, <3>3
  <2>3. udp' \subseteq OnUdp /\ UdpData' \subseteq UdpData
    BY <1>1, <1>3 DEF WireTypeOK, UdpData
  <2>4. QED
    BY <1>1, <2>1, <2>2, <2>3 DEF NoNewData
<1>4. QED
  BY <1>2, <1>3 DEF Lose

LEMMA WireStaysStep ==
  ASSUME PairInv, UNCHANGED <<udp, relay, sent, arrived>>
  PROVE  NoNewData
BY DEF PairInv, NoNewData, WireTypeOK, UdpData, RelayDataAt

(***************************************************************************)
(* Data comes in by UDP: it is on its way nowhere else.                    *)
(***************************************************************************)
LEMMA DataStep ==
  ASSUME PairInv, NEW m \in udp, InboundData(m.dst, m)
  PROVE  PairInv' /\ [Tunnel!Next]_Tunnel!netVars
<1> DEFINE p == DataPacket(m.src, m.dst, m.num)
<1>1. WireTypeOK /\ DataIsNumbered /\ OneWay
  BY DEF PairInv
<1>2. /\ m \in UdpData /\ udp' = udp \ {m}
      /\ UNCHANGED <<sent, relay>>
      /\ arrived' = [arrived EXCEPT ![m.dst] = Append(@, p)]
  BY DEF InboundData, UdpData, WrittenToTun, DataPacket
<1>3. WireTypeOK'
  BY <1>1, <1>2 DEF WireTypeOK
<1>4. /\ UdpData' = UdpData \ {m}
      /\ \A n \in Nodes : RelayDataAt(n)' = RelayDataAt(n)
  BY <1>2 DEF UdpData, RelayDataAt
<1>5. PairInv'
  BY <1>1, <1>2, <1>3, <1>4 DEF PairInv, DataIsNumbered, OneWay
<1>6. m.src \in Nodes /\ m.dst \in Nodes /\ m.num \in 1..MaxData
  BY <1>1, <1>2 DEF WireTypeOK, OnUdp, DataIsNumbered
<1>7. p \in Tunnel!Packet /\ p.dst = m.dst
  BY <1>6 DEF Tunnel!Packet, DataPacket
<1>8. Pending' = Pending \ {p}
  <2>1. PendingIs'
    BY PendingIs, PTL
  <2>2. \A q : q \in Pending' <=>
                 \/ \E x \in UdpData \ {m} :
                      q = DataPacket(x.src, x.dst, x.num)
                 \/ \E n \in Nodes : \E i \in RelayDataAt(n) :
                      q = DataPacket(Other(n), n, relay[n][i].num)
    BY <1>2, <1>3, <1>4, <2>1
  <2>3. \A q : q \in Pending <=>
                 \/ \E x \in UdpData : q = DataPacket(x.src, x.dst, x.num)
                 \/ \E n \in Nodes : \E i \in RelayDataAt(n) :
                      q = DataPacket(Other(n), n, relay[n][i].num)
    BY <1>1, PendingIs
  <2>4. ASSUME NEW x \in UdpData, p = DataPacket(x.src, x.dst, x.num)
        PROVE  x = m
    <3>1. x \in OnUdp /\ m \in OnUdp /\ x.kind = "data" /\ m.kind = "data"
      BY <1>1, <1>2 DEF WireTypeOK, UdpData
    <3>2. x.src = m.src /\ x.dst = m.dst /\ x.num = m.num
      BY <2>4 DEF DataPacket
    <3>3. QED
      BY <3>1, <3>2 DEF OnUdp
  <2>5. ASSUME NEW n \in Nodes, NEW i \in RelayDataAt(n)
        PROVE  p # DataPacket(Other(n), n, relay[n][i].num)
    <3>1. relay[n][i].num # m.num
      BY <1>1, <1>2 DEF OneWay
    <3>2. QED
      BY <3>1 DEF DataPacket
  <2> HIDE DEF p
  <2>6. \A q : q \in Pending' <=> q \in Pending /\ q # p
    BY <1>2, <2>2, <2>3, <2>4, <2>5 DEF p
  <2>7. QED
    BY <2>6
<1>9. p \in Pending
  BY <1>1, <1>2, PendingIs
<1> HIDE DEF p
<1>10. Tunnel!Arrive(p)
  BY <1>2, <1>7, <1>8, <1>9 DEF Tunnel!Arrive
<1>11. QED
  BY <1>5, <1>7, <1>10 DEF Tunnel!Next

\* The packets out and copies c of one with number num, in one way only.
OneWayOut(n, num, out, c) ==
  LET F == FollowedData(n, num)
  IN /\ c \in Seq(InRelay)
     /\ \A x \in out : x \in OnUdp /\ (x.kind = "data" => x = F)
     /\ \A i \in 1..Len(c) : c[i].msg.kind = "data" => c[i].num = num
     /\ \/ /\ \A i \in 1..Len(c) : c[i].msg.kind # "data"
           /\ num # 0 => F \in out
           /\ num = 0 => \A x \in out : x.kind # "data"
        \/ /\ \A x \in out : x.kind # "data"
           /\ num # 0 => \E i \in 1..Len(c) : c[i].msg.kind = "data"
           /\ num = 0 => \A i \in 1..Len(c) : c[i].msg.kind # "data"

(***************************************************************************)
(* A tunnel hands over a packet.  What is new on the wire is that packet,  *)
(* on the one way or on the other, if it is followed.                      *)
(***************************************************************************)
LEMMA WritePackets ==
  ASSUME NEW n \in Nodes, NEW num \in 0..MaxData, NEW p
  PROVE  OneWayOut(n, num, Out(n, Write(p, {n}).udp, num),
                   Copies(Write(p, {n}).relay, num))
<1> DEFINE r   == Write(p, {n})
           c   == Copies(r.relay, num)
           out == Out(n, r.udp, num)
           F   == FollowedData(n, num)
<1>1. CASE r.relay = <<>> /\ OneUdpData(r.udp)
  <2>1. r.relay \in Answering(n) /\ r.relay \notin Carrying(n)
    BY <1>1, RelayPackets DEF Answering
  <2>2. /\ c \in Seq(InRelay)
        /\ \A i \in 1..Len(c) : c[i].msg.kind # "data"
    <3> DEFINE rr == r.relay
    <3>1. rr \in Answering(n) \cup Carrying(n) /\ rr \notin Carrying(n)
      BY <2>1
    <3> HIDE DEF rr
    <3>2. /\ Copies(rr, num) \in Seq(InRelay)
          /\ \A i \in 1..Len(Copies(rr, num)) :
               Copies(rr, num)[i].msg.kind # "data"
      BY <3>1, CopiesOut
    <3>3. QED
      BY <3>2 DEF rr
  <2>3. /\ \A x \in out : \/ x \in OnUdp /\ x.kind # "data"
                          \/ num # 0 /\ x = F
        /\ F \in OnUdp /\ (num # 0 => F \in out)
    BY <1>1, UdpOutData
  <2> HIDE DEF c, out, F, r
  <2>4. QED
    BY <2>2, <2>3 DEF OneWayOut, c, out, F, r
<1>2. CASE r.relay \in Carrying(n) /\ NoUdpData(r.udp)
  <2>1. \A x \in out : x \in OnUdp /\ x.kind # "data"
    BY <1>2, UdpOut
  <2>2. /\ c \in Seq(InRelay)
        /\ \A i \in 1..Len(c) :
             c[i].msg.kind = "data" => num # 0 /\ c[i].num = num
        /\ num # 0 => \E i \in 1..Len(c) : c[i].msg.kind = "data"
    <3> DEFINE rr == r.relay
    <3>1. rr \in Answering(n) \cup Carrying(n) /\ rr \in Carrying(n)
      BY <1>2
    <3> HIDE DEF rr
    <3>2. LET k == Copies(rr, num)
          IN /\ k \in Seq(InRelay)
             /\ \A i \in 1..Len(k) :
                  k[i].msg.kind = "data" => num # 0 /\ k[i].num = num
             /\ num # 0 => \E i \in 1..Len(k) : k[i].msg.kind = "data"
      BY <3>1, CopiesOut
    <3>3. QED
      BY <3>2 DEF rr
  <2> HIDE DEF c, out, F, r
  <2>3. QED
    BY <2>1, <2>2 DEF OneWayOut, c, out, F, r
<1>3. QED
  BY <1>1, <1>2, WriteSendsOnce

LEMMA UntrackedStep ==
  ASSUME PairInv, NEW n \in Nodes, TunPacket(n, 0)
  PROVE  NoNewData
<1> DEFINE r   == Write(peer[n], {n})
           c   == Copies(r.relay, 0)
           out == Out(n, r.udp, 0)
           o   == Other(n)
<1>1. WireTypeOK /\ o \in Nodes /\ 0 \in 0..MaxData
  BY OtherNode DEF PairInv
<1>2. UNCHANGED <<sent, arrived>>
  BY <1>1 DEF TunPacket, WireTypeOK
<1>3. udp' = udp \cup out /\ relay' = [relay EXCEPT ![o] = @ \o c]
  BY DEF TunPacket, Emits, Out
<1> DEFINE old == peer[n]
<1>4. OneWayOut(n, 0, out, c)
  <2>1. OneWayOut(n, 0, Out(n, Write(old, {n}).udp, 0),
                  Copies(Write(old, {n}).relay, 0))
    <3> HIDE DEF old
    <3>1. QED
      BY <1>1, WritePackets
  <2>2. QED
    BY <2>1
<1> HIDE DEF c, out, o, r
<1>5. NoDataOut(out, c) /\ c \in Seq(InRelay)
  BY <1>4 DEF NoDataOut, OneWayOut
<1>6. StillThere(relay)
  BY <1>1, RelayStays
<1> DEFINE us == udp
<1>7. us \in SUBSET udp /\ udp' = us \cup out
  BY <1>3
<1> HIDE DEF us
<1>8. QED
  BY <1>1, <1>2, <1>3, <1>4, <1>5, <1>6, <1>7, WireNoNewData

LEMMA FollowedStep ==
  ASSUME PairInv, NEW n \in Nodes, NEW num \in 0..MaxData, num # 0,
         TunPacket(n, num)
  PROVE  PairInv' /\ [Tunnel!Next]_Tunnel!netVars
<1> DEFINE r   == Write(peer[n], {n})
           c   == Copies(r.relay, num)
           out == Out(n, r.udp, num)
           o   == Other(n)
           F   == FollowedData(n, num)
           L   == Len(relay[o])
<1>1. /\ WireTypeOK /\ DataIsNumbered /\ OneWay
      /\ o \in Nodes /\ Other(o) = n /\ sent \in Nat
  BY OtherNode DEF PairInv, WireTypeOK
<1>2. num = sent + 1 /\ sent' = sent + 1 /\ UNCHANGED arrived
  BY DEF TunPacket
<1>3. udp' = udp \cup out /\ relay' = [relay EXCEPT ![o] = @ \o c]
  BY DEF TunPacket, Emits, Out
<1> DEFINE old == peer[n]
<1>0. OneWayOut(n, num, out, c)
  <2>1. OneWayOut(n, num, Out(n, Write(old, {n}).udp, num),
                  Copies(Write(old, {n}).relay, num))
    <3> HIDE DEF old
    <3>1. QED
      BY WritePackets
  <2>2. QED
    BY <2>1
<1> HIDE DEF c, out
<1>4. /\ c \in Seq(InRelay)
      /\ \A x \in out : x \in OnUdp /\ (x.kind = "data" => x = F)
      /\ \A i \in 1..Len(c) : c[i].msg.kind = "data" => c[i].num = num
      /\ \/ /\ \A i \in 1..Len(c) : c[i].msg.kind # "data"
            /\ F \in out
         \/ /\ \A x \in out : x.kind # "data"
            /\ \E i \in 1..Len(c) : c[i].msg.kind = "data"
  BY <1>0 DEF OneWayOut
<1>5. F.kind = "data" /\ F.num = num /\ F.src = n /\ F.dst = o
  BY DEF FollowedData
<1> HIDE DEF o, r, F, L
\* What is in the relay is what was, and at its end for o the copies.
<1>6. /\ relay' \in [Nodes -> Seq(InRelay)]
      /\ L \in Nat /\ Len(c) \in Nat
      /\ Len(relay'[o]) = L + Len(c)
      /\ \A i \in 1..(L + Len(c)) :
           relay'[o][i] = IF i <= L THEN relay[o][i] ELSE c[i - L]
      /\ \A k \in Nodes : k # o => relay'[k] = relay[k]
  BY <1>1, <1>3, <1>4, RelayOut DEF WireTypeOK, L
<1>7. ASSUME NEW k \in Nodes, NEW i \in RelayDataAt(k)'
      PROVE  \/ i \in RelayDataAt(k) /\ relay'[k][i] = relay[k][i]
             \/ /\ k = o /\ relay'[k][i].num = num
                /\ i - L \in 1..Len(c) /\ c[i - L].msg.kind = "data"
  <2>1. i \in 1..Len(relay'[k]) /\ relay'[k][i].msg.kind = "data"
    BY <1>7 DEF RelayDataAt
  <2>2. CASE k # o
    <3>1. relay'[k] = relay[k]
      BY <1>6, <2>2
    <3>2. QED
      BY <2>1, <3>1 DEF RelayDataAt
  <2>3. CASE k = o /\ i <= L
    <3>1. relay'[k][i] = relay[k][i] /\ i \in 1..Len(relay[k])
      BY <1>6, <2>1, <2>3 DEF L
    <3>2. QED
      BY <2>1, <3>1 DEF RelayDataAt
  <2>4. CASE k = o /\ ~(i <= L)
    <3>1. i - L \in 1..Len(c) /\ relay'[k][i] = c[i - L]
      BY <1>6, <2>1, <2>4
    <3>2. QED
      BY <1>4, <2>1, <2>4, <3>1
  <2>5. QED
    BY <2>2, <2>3, <2>4
<1>8. ASSUME NEW k \in Nodes, NEW i \in RelayDataAt(k)
      PROVE  i \in RelayDataAt(k)' /\ relay'[k][i] = relay[k][i]
  <2>1. i \in 1..Len(relay[k]) /\ relay[k][i].msg.kind = "data"
    BY DEF RelayDataAt
  <2>2. CASE k # o
    <3>1. relay'[k] = relay[k]
      BY <1>6, <2>2
    <3>2. QED
      BY <2>1, <3>1 DEF RelayDataAt
  <2>3. CASE k = o
    <3>1. i \in 1..(L + Len(c)) /\ i <= L
      BY <1>6, <2>1, <2>3 DEF L
    <3>2. relay'[k][i] = relay[k][i] /\ i \in 1..Len(relay'[k])
      BY <1>6, <2>3, <3>1
    <3>3. QED
      BY <2>1, <3>2 DEF RelayDataAt
  <2>4. QED
    BY <2>2, <2>3
<1>9. ASSUME NEW i \in 1..Len(c), c[i].msg.kind = "data"
      PROVE  L + i \in RelayDataAt(o)' /\ relay'[o][L + i].num = num
  <2>1. L + i \in 1..(L + Len(c)) /\ ~(L + i <= L) /\ (L + i) - L = i
    BY <1>6
  <2>2. relay'[o][L + i] = c[i] /\ L + i \in 1..Len(relay'[o])
    BY <1>6, <2>1
  <2>3. QED
    BY <1>4, <1>9, <2>2 DEF RelayDataAt
<1>10. /\ udp' \subseteq OnUdp
       /\ UdpData \subseteq UdpData' /\ UdpData' \subseteq UdpData \cup {F}
       /\ F \in out => F \in UdpData'
       /\ (\A x \in out : x.kind # "data") => UdpData' = UdpData
  BY <1>1, <1>3, <1>4, <1>5 DEF WireTypeOK, UdpData
<1>11. WireTypeOK'
  <2>1. sent' \in 0..MaxData
    BY <1>2
  <2>2. QED
    BY <1>6, <1>10, <2>1 DEF WireTypeOK
<1>12. DataIsNumbered'
  <2>1. ASSUME NEW m \in UdpData' PROVE m.num \in 1..sent'
    <3>1. CASE m \in UdpData
      BY <1>1, <1>2, <3>1 DEF DataIsNumbered
    <3>2. CASE m = F
      BY <1>1, <1>2, <1>5, <3>2
    <3>3. QED
      BY <1>10, <3>1, <3>2
  <2>2. ASSUME NEW k \in Nodes, NEW i \in RelayDataAt(k)'
        PROVE  relay'[k][i].num \in 1..sent'
    <3>1. CASE i \in RelayDataAt(k) /\ relay'[k][i] = relay[k][i]
      BY <1>1, <1>2, <3>1 DEF DataIsNumbered
    <3>2. CASE relay'[k][i].num = num
      BY <1>1, <1>2, <3>2
    <3>3. QED
      BY <1>7, <3>1, <3>2
  <2>3. QED
    BY <2>1, <2>2 DEF DataIsNumbered
<1>13. OneWay'
  <2>1. ASSUME NEW m \in UdpData', NEW k \in Nodes, NEW i \in RelayDataAt(k)'
        PROVE  relay'[k][i].num # m.num
    <3>1. CASE m \in UdpData /\ i \in RelayDataAt(k)
               /\ relay'[k][i] = relay[k][i]
      BY <1>1, <3>1 DEF OneWay
    <3>2. CASE m \in UdpData /\ relay'[k][i].num = num
      BY <1>1, <1>2, <3>2 DEF DataIsNumbered
    <3>3. CASE m = F /\ i \in RelayDataAt(k) /\ relay'[k][i] = relay[k][i]
      BY <1>1, <1>2, <1>5, <3>3 DEF DataIsNumbered
    <3>4. CASE /\ m \notin UdpData
               /\ i - L \in 1..Len(c) /\ c[i - L].msg.kind = "data"
      <4>1. \A x \in out : x.kind # "data"
        BY <1>4, <3>4
      <4>2. UdpData' = UdpData
        BY <1>10, <4>1
      <4>3. QED
        BY <3>4, <4>2
    <3>5. QED
      BY <1>7, <1>10, <3>1, <3>2, <3>3, <3>4
  <2>2. QED
    BY <2>1 DEF OneWay
<1> DEFINE p == DataPacket(n, o, num)
<1>14. p \in Tunnel!Packet /\ p.num = num
  <2>1. num \in 1..MaxData
    OBVIOUS
  <2>2. QED
    BY <1>1, <2>1 DEF Tunnel!Packet, DataPacket
<1>15. p = DataPacket(F.src, F.dst, F.num) /\ p = DataPacket(Other(o), o, num)
  BY <1>1, <1>5
<1> HIDE DEF p
<1>16. \A q : q \in Pending <=>
                \/ \E x \in UdpData : q = DataPacket(x.src, x.dst, x.num)
                \/ \E k \in Nodes : \E i \in RelayDataAt(k) :
                     q = DataPacket(Other(k), k, relay[k][i].num)
  BY <1>1, PendingIs
<1>17. \A q : q \in Pending' <=>
                \/ \E x \in UdpData' : q = DataPacket(x.src, x.dst, x.num)
                \/ \E k \in Nodes : \E i \in RelayDataAt(k)' :
                     q = DataPacket(Other(k), k, relay'[k][i].num)
  <2>1. PendingIs'
    BY PendingIs, PTL
  <2>2. QED
    BY <1>11, <2>1
<1>18. Pending' = Pending \cup {p}
  <2>1. ASSUME NEW q \in Pending' PROVE q \in Pending \/ q = p
    <3>1. ASSUME NEW x \in UdpData', q = DataPacket(x.src, x.dst, x.num)
          PROVE  q \in Pending \/ q = p
      BY <1>10, <1>15, <1>16, <3>1
    <3>2. ASSUME NEW k \in Nodes, NEW i \in RelayDataAt(k)',
                 q = DataPacket(Other(k), k, relay'[k][i].num)
          PROVE  q \in Pending \/ q = p
      <4>1. CASE i \in RelayDataAt(k) /\ relay'[k][i] = relay[k][i]
        BY <1>16, <3>2, <4>1
      <4>2. CASE k = o /\ relay'[k][i].num = num
        BY <1>15, <3>2, <4>2
      <4>3. QED
        BY <1>7, <4>1, <4>2
    <3>3. QED
      BY <1>17, <3>1, <3>2
  <2>2. ASSUME NEW q \in Pending PROVE q \in Pending'
    <3>1. ASSUME NEW x \in UdpData, q = DataPacket(x.src, x.dst, x.num)
          PROVE  q \in Pending'
      BY <1>10, <1>17, <3>1
    <3>2. ASSUME NEW k \in Nodes, NEW i \in RelayDataAt(k),
                 q = DataPacket(Other(k), k, relay[k][i].num)
          PROVE  q \in Pending'
      BY <1>8, <1>17, <3>2
    <3>3. QED
      BY <1>16, <3>1, <3>2
  <2>3. p \in Pending'
    <3>1. CASE F \in out
      BY <1>10, <1>15, <1>17, <3>1
    <3>2. CASE \E i \in 1..Len(c) : c[i].msg.kind = "data"
      <4>1. PICK i \in 1..Len(c) : c[i].msg.kind = "data"
        BY <3>2
      <4>2. QED
        BY <1>1, <1>9, <1>15, <1>17, <4>1
    <3>3. QED
      BY <1>4, <3>1, <3>2
  <2>4. QED
    BY <2>1, <2>2, <2>3
<1>19. Tunnel!Send(p)
  BY <1>2, <1>14, <1>18 DEF Tunnel!Send
<1>20. QED
  BY <1>11, <1>12, <1>13, <1>14, <1>19 DEF PairInv, Tunnel!Next

-----------------------------------------------------------------------------
LEMMA InitPairInv == PairInit => PairInv /\ Tunnel!Init
<1> SUFFICES ASSUME PairInit PROVE PairInv /\ Tunnel!Init
  OBVIOUS
<1>1. WireTypeOK
  BY DEF PairInit, WireTypeOK
<1>2. UdpData = {} /\ \A n \in Nodes : RelayDataAt(n) = {}
  BY DEF PairInit, UdpData, RelayDataAt
<1>3. DataIsNumbered /\ OneWay
  BY <1>2 DEF DataIsNumbered, OneWay
<1>4. \A p : p \notin Pending
  BY <1>1, <1>2, PendingIs
<1>5. Pending = {}
  BY <1>4
<1>6. Tunnel!Init
  BY <1>5 DEF PairInit, Tunnel!Init
<1>7. QED
  BY <1>1, <1>3, <1>6 DEF PairInv

LEMMA NextPairInv ==
  PairInv /\ [PairNext]_pairVars => PairInv' /\ [Tunnel!Next]_Tunnel!netVars
<1> SUFFICES ASSUME PairInv, [PairNext]_pairVars
             PROVE  PairInv' /\ [Tunnel!Next]_Tunnel!netVars
  OBVIOUS
<1>1. ASSUME NEW n \in Nodes, NEW num \in 0..MaxData, TunPacket(n, num)
      PROVE  PairInv' /\ [Tunnel!Next]_Tunnel!netVars
  <2>1. CASE num = 0
    BY <1>1, <2>1, UntrackedStep, NoNewDataStep
  <2>2. CASE num # 0
    BY <1>1, <2>2, FollowedStep
  <2>3. QED
    BY <2>1, <2>2
<1>2. ASSUME NEW m \in udp, InboundData(m.dst, m)
      PROVE  PairInv' /\ [Tunnel!Next]_Tunnel!netVars
  BY <1>2, DataStep
<1>3. ASSUME NEW m \in udp, InboundDiscovery(m.dst, m)
      PROVE  PairInv' /\ [Tunnel!Next]_Tunnel!netVars
  <2>1. m.dst \in Nodes
    BY DEF PairInv, WireTypeOK, OnUdp
  <2>2. QED
    BY <1>3, <2>1, DiscoveryStep, NoNewDataStep
<1>4. ASSUME NEW n \in Nodes, InboundRelay(n)
      PROVE  PairInv' /\ [Tunnel!Next]_Tunnel!netVars
  BY <1>4, RelayedStep, NoNewDataStep
<1>5. CASE Lose
  BY <1>5, LoseStep, NoNewDataStep
<1>6. CASE Tick
  <2>1. UNCHANGED <<udp, relay, sent, arrived>>
    BY <1>6 DEF Tick
  <2>2. QED
    BY <2>1, WireStaysStep, NoNewDataStep
<1>7. CASE UNCHANGED pairVars
  <2>1. UNCHANGED <<udp, relay, sent, arrived>>
    BY <1>7 DEF pairVars
  <2>2. QED
    BY <2>1, WireStaysStep, NoNewDataStep
<1>8. QED
  BY <1>1, <1>2, <1>3, <1>4, <1>5, <1>6, <1>7 DEF PairNext, Deliver

(***************************************************************************)
(* Data is numbered, and on one of its ways, at any time: write puts a     *)
(* packet on the direct path or hands it to the relay.                     *)
(***************************************************************************)
THEOREM PairInvariance == PairSpec => []PairInv
<1>1. PairInit => PairInv
  BY InitPairInv
<1>2. PairInv /\ [PairNext]_pairVars => PairInv'
  BY NextPairInv
<1>3. QED
  BY <1>1, <1>2, PTL DEF PairSpec

(***************************************************************************)
(* Two peers are a network that brings a packet to the tunnel of the other *)
(* node at most once, from the node that sent it, for every number of      *)
(* packets, of losses and of packets on their way.                         *)
(***************************************************************************)
THEOREM PairImplementsTunnel == PairSpec => ImplementsTunnel
<1>1. PairInit => Tunnel!Init
  BY InitPairInv
<1>2. PairInv /\ [PairNext]_pairVars => [Tunnel!Next]_Tunnel!netVars
  BY NextPairInv
<1>3. QED
  BY <1>1, <1>2, PairInvariance, PTL
     DEF PairSpec, ImplementsTunnel, Tunnel!Spec

(***************************************************************************)
(* So do they when the network is timely and the talkers talk.             *)
(***************************************************************************)
THEOREM TimelyImplementsTunnel == TimelySpec => ImplementsTunnel
<1>1. [PairNext /\ Timely]_pairVars => [PairNext]_pairVars
  OBVIOUS
<1>2. TimelySpec => PairSpec
  BY <1>1, PTL DEF TimelySpec, PairSpec
<1>3. QED
  BY <1>2, PairImplementsTunnel, PTL

(***************************************************************************)
(* A packet of data comes out of the tunnels once, and out of that of the  *)
(* node it was for.                                                        *)
(***************************************************************************)
THEOREM TunnelsGetDataOnce == PairSpec => []Tunnel!AtMostOnce
<1>1. MaxData \in Nat
  OBVIOUS
<1>2. ImplementsTunnel => []Tunnel!AtMostOnce
  BY <1>1, Tunnel!PacketsArriveOnce DEF ImplementsTunnel
<1>3. QED
  BY <1>2, PairImplementsTunnel, PTL
=============================================================================
