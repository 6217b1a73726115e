------------------------------- MODULE PeerPair -------------------------------
(***************************************************************************)
(* Two nodes, each with a Peer for the other, connected by UDP, which      *)
(* loses and reorders packets, and by the relay, which keeps their order   *)
(* and loses them while one of the nodes is not connected.  Each node has  *)
(* one endpoint, named after it.                                           *)
(***************************************************************************)
EXTENDS Peer

CONSTANTS
  Nodes,       \* the two nodes
  Talkers,     \* those whose tunnel has packets for the other all the time
  MaxData,     \* bound: packets followed from tunnel to tunnel
  MaxLosses,   \* bound: packets lost
  MaxFlight    \* bound: ... on their way when a node writes

ASSUME PairAssumption ==
  /\ Nodes = Endpoints /\ \E a, b \in Nodes : a # b /\ Nodes = {a, b}
  /\ Talkers \subseteq Nodes
  /\ MaxData \in Nat /\ MaxLosses \in Nat /\ MaxFlight \in Nat

VARIABLES
  peer,      \* node -> its Peer for the other node
  udp,       \* UDP packets on their way
  relay,     \* node -> packets on their way to it through the relay
  sent,      \* data packets followed so far
  lost,      \* packets lost so far
  wrote,     \* talkers whose tunnel had a packet since the last tick
  arrived,   \* history: node -> packets followed, written to its tunnel
  noise      \* history: something else was written to a tunnel

pairVars == <<peer, udp, relay, sent, lost, wrote, arrived, noise>>

Other(n) == CHOOSE m \in Nodes : m # n

\* A data packet has a number; 0 is for one that is not followed.
Addressed(n, m, num) ==
  [src |-> n, dst |-> Other(n), kind |-> m.kind,
   num |-> IF m.kind = "data" THEN num ELSE 0]

\* Packets whose content is only their kind are not worth a copy in flight.
Tracked(ms) == {m \in ms : m.kind = "data" => m.num # 0}

PairInit ==
  /\ peer = [n \in Nodes |-> NewPeer]
  /\ udp = {}
  /\ relay = [n \in Nodes |-> <<>>]
  /\ sent = 0
  /\ lost = 0
  /\ wrote = {}
  /\ arrived = [n \in Nodes |-> <<>>]
  /\ noise = FALSE

-----------------------------------------------------------------------------
\* The packets ms as they go to the relay; what is data comes last.
Copies(ms, num) ==
  LET untracked == num = 0 /\ ms # <<>> /\ ms[Len(ms)].kind = "data"
  IN [i \in 1..(IF untracked THEN Len(ms) - 1 ELSE Len(ms)) |->
        [msg |-> ms[i], num |-> IF ms[i].kind = "data" THEN num ELSE 0]]

\* Node n has run a handler: its packets go out, the data with number num.
Emits(n, r, num, udp0, relay0) ==
  /\ peer' = [peer EXCEPT ![n] = r.peer]
  /\ udp' = udp0 \cup Tracked({Addressed(n, m, num) : m \in r.udp})
  /\ relay' = [relay0 EXCEPT ![Other(n)] = @ \o Copies(r.relay, num)]

\* inboundTunPacket.
TunPacket(n, num) ==
  /\ Len(relay[n]) + Len(relay[Other(n)]) + Cardinality(udp) <= MaxFlight
  /\ Emits(n, Write(peer[n], {n}), num, udp, relay)
  /\ num \in {0, sent + 1} /\ num <= MaxData
  /\ sent' = sent + (IF num = 0 THEN 0 ELSE 1)
  /\ wrote' = wrote \cup ({n} \cap Talkers)
  /\ UNCHANGED <<lost, arrived, noise>>

(***************************************************************************)
(* inboundPacket: after the switch on a ping or a pong the packet goes on  *)
(* to the tunnel like one of data.                                         *)
(***************************************************************************)
\* (variant: data is written in the default case and after the switch)
WrittenToTun_Twice(seq, m) == seq \o <<m, m>>
WrittenToTun(seq, m)       == Append(seq, m)

InboundData(n, m) ==
  /\ m.kind = "data"
  /\ udp' = udp \ {m}
  /\ arrived' = [arrived EXCEPT
       ![n] = WrittenToTun(@, [src |-> m.src, dst |-> n, num |-> m.num])]
  /\ UNCHANGED <<peer, relay, sent, lost, wrote, noise>>

InboundDiscovery(n, m) ==
  /\ m.kind \in {"ping", "pong"}
  /\ Emits(n, IF m.kind = "ping" THEN HandlePing(peer[n], m.src)
                                 ELSE HandlePong(peer[n], m.src),
           0, udp \ {m}, relay)
  /\ noise' = TRUE
  /\ UNCHANGED <<sent, lost, wrote, arrived>>

(***************************************************************************)
(* inboundRelayPacket: endpoint requests and responses are handled; a data *)
(* packet matches no case and is dropped.                                  *)
(***************************************************************************)
InboundRelay(n) ==
  LET m == Head(relay[n]).msg
      rest == [relay EXCEPT ![n] = Tail(@)]
  IN /\ relay[n] # <<>>
     /\ CASE m.kind = "request" ->
               Emits(n, HandleEndpointRequest(peer[n], m.eps, {n}), 0,
                     udp, rest)
          [] m.kind = "response" ->
               Emits(n, HandleEndpointResponse(peer[n], m.eps), 0, udp, rest)
          [] m.kind = "data" ->
               Emits(n, Done(peer[n]), 0, udp, rest)
     /\ UNCHANGED <<sent, lost, wrote, arrived, noise>>

-----------------------------------------------------------------------------
Lose ==
  /\ lost < MaxLosses
  /\ lost' = lost + 1
  /\ \/ /\ \E m \in udp : udp' = udp \ {m}
        /\ UNCHANGED relay
     \/ /\ \E n \in Nodes : /\ relay[n] # <<>>
                            /\ relay' = [relay EXCEPT ![n] = Tail(@)]
        /\ UNCHANGED udp
  /\ UNCHANGED <<peer, sent, wrote, arrived, noise>>

Tick ==
  /\ peer' = [n \in Nodes |-> Aged(peer[n])]
  /\ wrote' = {}
  /\ UNCHANGED <<udp, relay, sent, lost, arrived, noise>>

Deliver ==
  \/ \E m \in udp : InboundData(m.dst, m) \/ InboundDiscovery(m.dst, m)
  \/ \E n \in Nodes : InboundRelay(n)

PairNext ==
  \/ \E n \in Nodes, num \in 0..MaxData : TunPacket(n, num)
  \/ Deliver
  \/ Lose
  \/ Tick

PairSpec == PairInit /\ [][PairNext]_pairVars

(***************************************************************************)
(* A network that delivers or loses a packet within a unit of time, and    *)
(* talkers with a packet in each.                                          *)
(***************************************************************************)
Timely ==
  Tick => /\ udp = {} /\ \A n \in Nodes : relay[n] = <<>>
          /\ Talkers \subseteq wrote

PairFairness ==
  /\ WF_pairVars(Deliver)
  /\ WF_pairVars(Tick /\ Timely)
  /\ \A n \in Talkers : WF_pairVars(TunPacket(n, 0) /\ n \notin wrote)

TimelySpec ==
  PairInit /\ [][PairNext /\ Timely]_pairVars /\ PairFairness

-----------------------------------------------------------------------------
(***************************************************************************)
(* The data on its way, and what the two nodes are for their tunnels: a    *)
(* network that brings a packet to the other tunnel at most once, from the *)
(* node that sent it.                                                      *)
(***************************************************************************)
DataPacket(src, dst, num) == [src |-> src, dst |-> dst, num |-> num]

Pending ==
  {DataPacket(m.src, m.dst, m.num) : m \in {x \in udp : x.kind = "data"}}
    \cup UNION {{DataPacket(Other(n), n, relay[n][i].num) :
                   i \in {j \in DOMAIN relay[n] :
                            relay[n][j].msg.kind = "data"}} : n \in Nodes}

Tunnel == INSTANCE DatagramNetwork
            WITH pending <- Pending, MaxPackets <- MaxData

ImplementsTunnel == Tunnel!Spec

(***************************************************************************)
(* A node that has packets to send finds a direct path again and again,    *)
(* whatever was lost before: endpoints asked for once more when there are  *)
(* none, or after SyncEvery when the answer to the other's was lost.       *)
(***************************************************************************)
TalkerFindsPath == \A n \in Talkers : []<>(peer[n].activeAddr # None)

(***************************************************************************)
(* write: "We can use the relay while we are waiting for a path".  Data    *)
(* that comes in through the relay goes to the tunnel.                     *)
(***************************************************************************)
RelayCarriesData ==
  [][\A n \in Nodes :
       (InboundRelay(n) /\ Head(relay[n]).msg.kind = "data")
         => Len(arrived'[n]) > Len(arrived[n])]_pairVars

(***************************************************************************)
(* inboundPacket: "Assuming it's a data packet for now", before the write  *)
(* to the tunnel.  The code does not keep to that: InboundDiscovery, once  *)
(* it has handled a ping or a pong, writes it to the tunnel.               *)
(***************************************************************************)
OnlyDataReachesTun == ~noise
=============================================================================
