-------------------------- MODULE DatagramNetwork --------------------------
(***************************************************************************)
(* What the relay promises to its clients: a packet arrives at the node it *)
(* is for, with the ID of the node that sent it, at most once.  Packets    *)
(* may be lost and may overtake each other.  They are numbered as they are *)
(* sent, so that two with the same content can be told apart.              *)
(***************************************************************************)
EXTENDS Naturals, Sequences, TLAPS

CONSTANTS
  Nodes,        \* who sends and receives
  MaxPackets    \* bound: packets sent

VARIABLES
  sent,      \* number of packets sent so far
  pending,   \* packets on their way
  arrived    \* node -> the packets that came in, in their order

netVars == <<sent, pending, arrived>>
Packet  == [src : Nodes, dst : Nodes, num : 1..MaxPackets]

Init == sent = 0 /\ pending = {} /\ arrived = [n \in Nodes |-> <<>>]

Send(p) ==
  /\ p.num = sent + 1
  /\ sent' = sent + 1
  /\ pending' = pending \cup {p}
  /\ UNCHANGED arrived

Arrive(p) ==
  /\ p \in pending
  /\ pending' = pending \ {p}
  /\ arrived' = [arrived EXCEPT ![p.dst] = Append(@, p)]
  /\ UNCHANGED sent

Lose(ps) ==
  /\ ps \subseteq pending
  /\ pending' = pending \ ps
  /\ UNCHANGED <<sent, arrived>>

Next ==
  \/ \E p \in Packet : Send(p) \/ Arrive(p)
  \/ \E ps \in SUBSET pending : Lose(ps)

Spec == Init /\ [][Next]_netVars

-----------------------------------------------------------------------------
(***************************************************************************)
(* A packet comes in at most once, and only at the node it was sent to.    *)
(***************************************************************************)
AtMostOnce ==
  \A m, n \in Nodes :
    \A i \in 1..Len(arrived[m]), j \in 1..Len(arrived[n]) :
      /\ arrived[m][i].dst = m
      /\ arrived[m][i].num = arrived[n][j].num => m = n /\ i = j

-----------------------------------------------------------------------------
(***************************************************************************)
(* The proof of it.  The numbers of the packets on their way are all       *)
(* different, and are not those of packets that came in.                   *)
(***************************************************************************)
NetTypeOK ==
  /\ sent \in Nat
  /\ pending \subseteq Packet
  /\ arrived \in [Nodes -> Seq(Packet)]

NumberedOnce ==
  /\ \A p \in pending :
       /\ p.num <= sent
       /\ \A q \in pending : p.num = q.num => p = q
       /\ \A n \in Nodes : \A i \in 1..Len(arrived[n]) :
            arrived[n][i].num # p.num
  /\ \A n \in Nodes : \A i \in 1..Len(arrived[n]) : arrived[n][i].num <= sent

NetInv == NetTypeOK /\ NumberedOnce /\ AtMostOnce

LEMMA NetInvStep ==
  ASSUME MaxPackets \in Nat, NetInv, [Next]_netVars
  PROVE  NetInv'
<1> USE DEF NetInv
<1>0. \A p \in Packet : p.num \in Nat /\ p.dst \in Nodes
  BY DEF Packet
<1>1. ASSUME NEW p \in Packet, Send(p) PROVE NetInv'
  <2>1. NetTypeOK'
    BY <1>1 DEF NetTypeOK, Send
  <2>2. \A n \in Nodes : \A i \in 1..Len(arrived[n]) :
           arrived[n][i] \in Packet /\ arrived[n][i].num \in Nat
    BY <1>0 DEF NetTypeOK
  <2>3. NumberedOnce'
    <3>1. /\ p.num = sent + 1 /\ sent' = sent + 1 /\ sent \in Nat
          /\ pending' = pending \cup {p} /\ arrived' = arrived
      BY <1>1 DEF NetTypeOK, Send
    <3>2. \A q \in pending : q.num \in Nat /\ q.num <= sent
      BY <1>0 DEF NetTypeOK, NumberedOnce
    <3>3. \A n \in Nodes : \A i \in 1..Len(arrived[n]) :
            arrived[n][i].num \in Nat /\ arrived[n][i].num <= sent
      BY <2>2 DEF NumberedOnce
    <3>4. \A q \in pending' :
             /\ q.num <= sent'
             /\ \A r \in pending' : q.num = r.num => q = r
      BY <3>1, <3>2 DEF NumberedOnce
    <3>5. \A q \in pending', n \in Nodes : \A i \in 1..Len(arrived'[n]) :
            arrived'[n][i].num # q.num
      BY <3>1, <3>3 DEF NumberedOnce
    <3>6. \A n \in Nodes : \A i \in 1..Len(arrived'[n]) :
            arrived'[n][i].num <= sent'
      BY <3>1, <3>3
    <3>7. QED
      BY <3>4, <3>5, <3>6 DEF NumberedOnce
  <2>4. AtMostOnce'
    BY <1>1 DEF AtMostOnce, Send
  <2>5. QED
    BY <2>1, <2>3, <2>4
<1>2. ASSUME NEW p \in Packet, Arrive(p) PROVE NetInv'
  <2> DEFINE d == p.dst
             new == Append(arrived[d], p)
  <2>1. d \in Nodes /\ arrived[d] \in Seq(Packet)
    BY <1>0 DEF NetTypeOK
  <2>2. /\ new \in Seq(Packet) /\ Len(new) = Len(arrived[d]) + 1
        /\ Len(arrived[d]) \in Nat
        /\ \A i \in 1..Len(arrived[d]) : new[i] = arrived[d][i]
        /\ new[Len(arrived[d]) + 1] = p
    BY <2>1
  <2>3. /\ arrived' \in [Nodes -> Seq(Packet)]
        /\ arrived'[d] = new
        /\ \A n \in Nodes : n # d => arrived'[n] = arrived[n]
    BY <1>2, <2>1, <2>2 DEF Arrive, NetTypeOK
  <2> HIDE DEF d, new
  <2>4. NetTypeOK'
    BY <1>2, <2>3 DEF Arrive, NetTypeOK
  \* What a node has is what it had, and the packet at the end for p.dst.
  <2>5. \A n \in Nodes : \A i \in 1..Len(arrived'[n]) :
          \/ /\ i \in 1..Len(arrived[n]) /\ arrived'[n][i] = arrived[n][i]
             /\ arrived'[n][i] # p /\ arrived'[n][i].num # p.num
          \/ n = d /\ i = Len(arrived[d]) + 1 /\ arrived'[n][i] = p
    BY <1>2, <2>2, <2>3 DEF Arrive, NumberedOnce
  <2>6. NumberedOnce'
    BY <1>2, <2>5 DEF Arrive, NumberedOnce
  <2>7. AtMostOnce'
    <3> SUFFICES ASSUME NEW m \in Nodes, NEW n \in Nodes,
                        NEW i \in 1..Len(arrived'[m]),
                        NEW j \in 1..Len(arrived'[n])
                 PROVE  /\ arrived'[m][i].dst = m
                        /\ arrived'[m][i].num = arrived'[n][j].num =>
                             m = n /\ i = j
      BY DEF AtMostOnce
    <3>1. arrived'[m][i].dst = m
      <4>1. \A k \in 1..Len(arrived[m]) : arrived[m][k].dst = m
        BY DEF AtMostOnce
      <4>2. QED
        BY <2>5, <4>1 DEF d
    <3>2. ASSUME arrived'[m][i].num = arrived'[n][j].num
          PROVE  m = n /\ i = j
      <4>1. CASE arrived'[m][i] = p
        <5>1. m = d /\ i = Len(arrived[d]) + 1
          BY <2>5, <4>1
        <5>2. n = d /\ j = Len(arrived[d]) + 1
          BY <2>5, <3>2, <4>1
        <5>3. QED
          BY <5>1, <5>2
      <4>2. CASE arrived'[n][j] = p
        <5>1. n = d /\ j = Len(arrived[d]) + 1
          BY <2>5, <4>2
        <5>2. m = d /\ i = Len(arrived[d]) + 1
          BY <2>5, <3>2, <4>2
        <5>3. QED
          BY <5>1, <5>2
      <4>3. CASE arrived'[m][i] # p /\ arrived'[n][j] # p
        <5>1. /\ i \in 1..Len(arrived[m]) /\ arrived'[m][i] = arrived[m][i]
              /\ j \in 1..Len(arrived[n]) /\ arrived'[n][j] = arrived[n][j]
          BY <2>5, <4>3
        <5>2. QED
          BY <3>2, <5>1 DEF AtMostOnce
      <4>4. QED
        BY <4>1, <4>2, <4>3
    <3>3. QED
      BY <3>1, <3>2
  <2>8. QED
    BY <2>4, <2>6, <2>7
<1>3. ASSUME NEW ps \in SUBSET pending, Lose(ps) PROVE NetInv'
  BY <1>3 DEF NetTypeOK, NumberedOnce, AtMostOnce, Lose
<1>4. CASE UNCHANGED netVars
  BY <1>4 DEF NetTypeOK, NumberedOnce, AtMostOnce, netVars
<1>5. QED
  BY <1>1, <1>2, <1>3, <1>4 DEF Next

(***************************************************************************)
(* Whoever implements this network, relayHandler and the path between two  *)
(* tunnels, brings no packet twice, in one place or in two, and none to a  *)
(* node it was not sent to.                                                *)
(***************************************************************************)
THEOREM PacketsArriveOnce ==
  ASSUME MaxPackets \in Nat PROVE Spec => []AtMostOnce
<1>1. Init => NetInv
  BY DEF Init, NetInv, NetTypeOK, NumberedOnce, AtMostOnce
<1>2. NetInv /\ [Next]_netVars => NetInv'
  BY NetInvStep
<1>3. NetInv => AtMostOnce
  BY DEF NetInv
<1>4. QED
  BY <1>1, <1>2, <1>3, PTL DEF Spec
=============================================================================
