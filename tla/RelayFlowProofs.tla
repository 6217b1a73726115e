--------------------------- MODULE RelayFlowProofs ---------------------------
(***************************************************************************)
(* The lock of a Peer for every capacity of the connections, and what      *)
(* follows from it: two nodes that wait for each other wait for ever.      *)
(***************************************************************************)
EXTENDS RelayFlow, TLAPS

USE FlowAssumption DEF Threads

-----------------------------------------------------------------------------
LEMMA OtherNode ==
  ASSUME NEW n \in Nodes
  PROVE  Other(n) \in Nodes /\ Other(n) # n
<1>1. \E m \in Nodes : m # n
  OBVIOUS
<1>2. QED
  BY <1>1 DEF Other

LEMMA InitLockInv == FlowInit => FlowInv
<1> SUFFICES ASSUME FlowInit PROVE FlowInv
  OBVIOUS
<1>1. FlowTypeOK
  BY DEF FlowInit, FlowTypeOK
<1>2. LockInv
  BY DEF FlowInit, LockInv
<1>3. QED
  BY <1>1, <1>2 DEF FlowInv

-----------------------------------------------------------------------------
(***************************************************************************)
(* Every step preserves the invariant.                                     *)
(***************************************************************************)
LEMMA EnterStep ==
  ASSUME FlowInv, NEW n \in Nodes, TunPacket(n)
  PROVE  FlowInv'
<1>1. PICK t \in Threads \ {"relay"} : Enters(n, t)
  BY DEF TunPacket
<1>2. UNCHANGED <<task, peerVars, wireVars>>
  BY DEF TunPacket
<1>3. FlowTypeOK'
  BY <1>1, <1>2 DEF FlowInv, FlowTypeOK, Enters, peerVars, wireVars
<1>4. LockInv'
  BY <1>1, <1>2 DEF FlowInv, FlowTypeOK, LockInv, Enters, peerVars
<1>5. QED
  BY <1>3, <1>4 DEF FlowInv

LEMMA RelayPacketStep ==
  ASSUME FlowInv, NEW n \in Nodes, RelayPacket(n)
  PROVE  FlowInv'
<1>1. /\ toNode[n] \in Seq(Kinds) /\ toNode[n] # <<>>
      /\ Head(toNode[n]) \in Kinds /\ Tail(toNode[n]) \in Seq(Kinds)
      /\ Len(Tail(toNode[n])) <= Len(toNode[n])
  BY DEF FlowInv, FlowTypeOK, RelayPacket
<1>2. toNode' \in [Nodes -> Seq(Kinds)]
      /\ \A m \in Nodes : Len(toNode'[m]) <= DownCap
  BY <1>1 DEF FlowInv, FlowTypeOK, RelayPacket
<1>3. UNCHANGED <<todo, mu, known, toRelay, hand>>
  BY DEF RelayPacket, peerVars
<1>4. CASE Head(toNode[n]) = "data"
  <2>1. UNCHANGED <<place, task>>
    BY <1>4 DEF RelayPacket
  <2>2. QED
    BY <1>2, <1>3, <2>1 DEF FlowInv, FlowTypeOK, LockInv
<1>5. CASE Head(toNode[n]) # "data"
  <2>1. /\ Enters(n, "relay")
        /\ task' = [task EXCEPT ![n] = Head(toNode[n])]
    BY <1>5 DEF RelayPacket
  <2>2. Head(toNode[n]) \in {"request", "response"}
    BY <1>1, <1>5 DEF Kinds
  <2>3. FlowTypeOK'
    BY <1>2, <1>3, <2>1, <2>2 DEF FlowInv, FlowTypeOK, Enters
  <2>4. LockInv'
    BY <1>3, <2>1, <2>2 DEF FlowInv, FlowTypeOK, LockInv, Enters
  <2>5. QED
    BY <2>3, <2>4 DEF FlowInv
<1>6. QED
  BY <1>4, <1>5

LEMMA AcquireStep ==
  ASSUME FlowInv, NEW n \in Nodes, NEW t \in Threads, Acquire(n, t)
  PROVE  FlowInv'
<1>1. PICK ps \in Writes(n, t) : todo' = [todo EXCEPT ![n][t] = ps]
  BY DEF Acquire
<1>2. ps \in Seq(Kinds)
  <2>1. t = "relay" => task[n] \in {"request", "response"}
    BY DEF FlowInv, FlowTypeOK, LockInv, Acquire
  <2>2. /\ <<>> \in Seq(Kinds) /\ <<"data">> \in Seq(Kinds)
        /\ <<"request", "data">> \in Seq(Kinds)
        /\ <<"response">> \in Seq(Kinds)
    BY DEF Kinds
  <2>3. Writes(n, t) \subseteq
          {<<>>, <<"data">>, <<"request", "data">>, <<"response">>}
    <3>1. CASE t = "tun"
      BY <3>1 DEF Writes, TunWrites
    <3>2. CASE t = "relay"
      BY <2>1, <3>2 DEF Writes
    <3>3. QED
      BY <3>1, <3>2
  <2>4. QED
    BY <2>2, <2>3
<1>3. FlowTypeOK'
  BY <1>1, <1>2 DEF FlowInv, FlowTypeOK, Acquire, wireVars
<1>4. LockInv'
  BY <1>1 DEF FlowInv, FlowTypeOK, LockInv, Acquire
<1>5. QED
  BY <1>3, <1>4 DEF FlowInv

LEMMA WriteRelayPacketStep ==
  ASSUME FlowInv, NEW n \in Nodes, NEW t \in Threads, WriteRelayPacket(n, t)
  PROVE  FlowInv'
<1>1. /\ todo[n][t] \in Seq(Kinds) /\ todo[n][t] # <<>>
      /\ Head(todo[n][t]) \in Kinds /\ Tail(todo[n][t]) \in Seq(Kinds)
      /\ toRelay[n] \in Seq(Kinds)
  BY DEF FlowInv, FlowTypeOK, WriteRelayPacket
<1>2. /\ Append(toRelay[n], Head(todo[n][t])) \in Seq(Kinds)
      /\ Len(Append(toRelay[n], Head(todo[n][t]))) <= UpCap
  BY <1>1 DEF WriteRelayPacket
<1>3. FlowTypeOK'
  BY <1>1, <1>2 DEF FlowInv, FlowTypeOK, WriteRelayPacket
<1>4. LockInv'
  <2>1. mu[n] = t
    BY <1>1 DEF FlowInv, LockInv
  <2>2. \A m \in Nodes, s \in Threads :
          (m = n /\ s = t) \/ todo'[m][s] = todo[m][s]
    BY DEF FlowInv, FlowTypeOK, WriteRelayPacket
  <2>3. QED
    BY <2>1, <2>2 DEF FlowInv, LockInv, WriteRelayPacket
<1>5. QED
  BY <1>3, <1>4 DEF FlowInv

LEMMA ReleaseStep ==
  ASSUME FlowInv, NEW n \in Nodes, NEW t \in Threads, Release(n, t)
  PROVE  FlowInv'
<1>1. FlowTypeOK'
  BY DEF FlowInv, FlowTypeOK, Release, wireVars
<1>2. LockInv'
  BY DEF FlowInv, FlowTypeOK, LockInv, Release
<1>3. QED
  BY <1>1, <1>2 DEF FlowInv

LEMMA RelayStepStep ==
  ASSUME FlowInv, NEW n \in Nodes, RelayStep(n)
  PROVE  FlowInv'
<1>1. UNCHANGED <<place, task, todo, mu, known>>
  BY DEF RelayStep, RelayReads, RelayForwards, peerVars
<1>2. LockInv'
  BY <1>1 DEF FlowInv, LockInv
<1>3. CASE RelayReads(n)
  <2>1. /\ toRelay[n] \in Seq(Kinds) /\ toRelay[n] # <<>>
        /\ Head(toRelay[n]) \in Kinds /\ Tail(toRelay[n]) \in Seq(Kinds)
        /\ Len(Tail(toRelay[n])) <= Len(toRelay[n])
    BY <1>3 DEF FlowInv, FlowTypeOK, RelayReads
  <2>2. QED
    BY <1>1, <1>2, <1>3, <2>1 DEF FlowInv, FlowTypeOK, RelayReads
<1>4. CASE RelayForwards(n)
  <2>1. /\ Other(n) \in Nodes /\ hand[n] \in Kinds
        /\ toNode[Other(n)] \in Seq(Kinds)
    BY <1>4, OtherNode DEF FlowInv, FlowTypeOK, RelayForwards
  <2>2. /\ Append(toNode[Other(n)], hand[n]) \in Seq(Kinds)
        /\ Len(Append(toNode[Other(n)], hand[n])) <= DownCap
    BY <1>4, <2>1 DEF RelayForwards
  <2>3. QED
    BY <1>1, <1>2, <1>4, <2>1, <2>2 DEF FlowInv, FlowTypeOK, RelayForwards
<1>5. QED
  BY <1>3, <1>4 DEF RelayStep

(***************************************************************************)
(* At most one goroutine is inside a Peer, and only it has packets to      *)
(* write to the relay.                                                     *)
(***************************************************************************)
THEOREM OneInsidePeer == FlowSpec => []FlowInv
<1>1. FlowInv /\ [FlowNext]_flowVars => FlowInv'
  <2> SUFFICES ASSUME FlowInv, [FlowNext]_flowVars PROVE FlowInv'
    OBVIOUS
  <2>1. CASE UNCHANGED flowVars
    BY <2>1 DEF flowVars, FlowInv, FlowTypeOK, LockInv
  <2>2. CASE FlowNext
    BY <2>2, EnterStep, RelayPacketStep, AcquireStep, WriteRelayPacketStep,
       ReleaseStep, RelayStepStep DEF FlowNext, ThreadStep
  <2>3. QED
    BY <2>1, <2>2
<1>2. QED
  BY InitLockInv, <1>1, PTL DEF FlowSpec

-----------------------------------------------------------------------------
(***************************************************************************)
(* When both nodes are stopped, only a tunnel packet can still come as far *)
(* as the lock, and there it stays.                                        *)
(***************************************************************************)
LEMMA StoppedStep ==
  ASSUME FlowInv, AllWait, FlowNext
  PROVE  AllWait'
<1>1. \A n \in Nodes, t \in Threads :
        /\ ~Acquire(n, t) /\ ~WriteRelayPacket(n, t) /\ ~Release(n, t)
  <2> SUFFICES ASSUME NEW n \in Nodes, NEW t \in Threads
               PROVE  /\ ~Acquire(n, t) /\ ~WriteRelayPacket(n, t)
                      /\ ~Release(n, t)
    OBVIOUS
  <2>1. PICK s \in Threads : todo[n][s] # <<>>
    BY DEF AllWait, Stopped
  <2>2. mu[n] = s
    BY <2>1 DEF FlowInv, LockInv
  <2>3. ~Acquire(n, t)
    BY <2>2 DEF Acquire
  <2>4. ~Release(n, t)
    BY <2>1, <2>2 DEF FlowInv, LockInv, Release
  <2>5. ~WriteRelayPacket(n, t)
    BY DEF FlowAssumption, AllWait, Stopped, WriteRelayPacket
  <2>6. QED
    BY <2>3, <2>4, <2>5
<1>2. \A n \in Nodes : ~RelayPacket(n) /\ ~RelayReads(n) /\ ~RelayForwards(n)
  BY OtherNode DEF AllWait, Stopped, RelayPacket, RelayReads, RelayForwards
<1>3. PICK n \in Nodes : TunPacket(n)
  BY <1>1, <1>2 DEF FlowNext, ThreadStep, RelayStep
<1>4. PICK t \in Threads : Enters(n, t)
  BY <1>3 DEF TunPacket
<1>5. UNCHANGED <<todo, toRelay, hand, toNode>>
  BY <1>3 DEF TunPacket, peerVars, wireVars
<1>6. \A m \in Nodes : place'[m]["relay"] # "out"
  BY <1>4 DEF AllWait, Stopped, Enters, FlowInv, FlowTypeOK
<1>7. QED
  BY <1>5, <1>6 DEF AllWait, Stopped

(***************************************************************************)
(* Two nodes that wait for each other do so for ever.                      *)
(***************************************************************************)
THEOREM DeadlockIsForEver == FlowSpec => WaitForEver
<1>1. FlowInv /\ [FlowNext]_flowVars => [AllWait => AllWait']_flowVars
  BY StoppedStep
<1>2. QED
  BY OneInsidePeer, <1>1, PTL DEF FlowSpec, WaitForEver

-----------------------------------------------------------------------------
(***************************************************************************)
(* A thread that has come to the Peer of a node n and nobody who can go    *)
(* on: the way from n to the other node is full, from the thread inside    *)
(* the Peer of n to the relay loop of the other node.                      *)
(***************************************************************************)
LEMMA FullToTheOther ==
  ASSUME FlowInv, ~CanStep, NEW n \in Nodes, NEW t \in Threads,
         place[n][t] # "out"
  PROVE  /\ \E s \in Threads : todo[n][s] # <<>>
         /\ Len(toRelay[n]) = UpCap
         /\ hand[n] # Nothing
         /\ Len(toNode[Other(n)]) = DownCap
         /\ place[Other(n)]["relay"] # "out"
<1>1. PICK s \in Threads : place[n][s] = "inside"
  <2>1. CASE place[n][t] = "inside"
    BY <2>1
  <2>2. CASE place[n][t] = "waiting"
    <3>1. mu[n] # "free"
      BY <2>2 DEF CanStep
    <3>2. mu[n] \in Threads
      BY <3>1 DEF FlowInv, FlowTypeOK
    <3>3. QED
      BY <3>2 DEF FlowInv, LockInv
  <2>3. QED
    BY <2>1, <2>2 DEF FlowInv, FlowTypeOK
<1>2. todo[n][s] # <<>>
  BY <1>1 DEF CanStep
<1>3. Len(toRelay[n]) = UpCap
  <2>1. /\ Len(toRelay[n]) <= UpCap /\ Len(toRelay[n]) \in Nat
        /\ ~(Len(toRelay[n]) < UpCap)
    BY <1>2 DEF CanStep, FlowInv, FlowTypeOK
  <2>2. QED
    BY <2>1
<1>4. hand[n] # Nothing
  <2>1. toRelay[n] # <<>>
    BY <1>3
  <2>2. QED
    BY <2>1 DEF CanStep
<1>5. Len(toNode[Other(n)]) = DownCap
  <2>1. /\ Len(toNode[Other(n)]) <= DownCap /\ Len(toNode[Other(n)]) \in Nat
        /\ ~(Len(toNode[Other(n)]) < DownCap)
    BY <1>4, OtherNode DEF CanStep, FlowInv, FlowTypeOK
  <2>2. QED
    BY <2>1
<1>6. place[Other(n)]["relay"] # "out"
  <2>1. toNode[Other(n)] # <<>>
    BY <1>5
  <2>2. QED
    BY <2>1, OtherNode DEF CanStep
<1>7. QED
  BY <1>2, <1>3, <1>4, <1>5, <1>6

(***************************************************************************)
(* When no goroutine that has work can go on, and a thread has come to the *)
(* lock of a Peer, both nodes are stopped: one alone never is.             *)
(***************************************************************************)
THEOREM NobodyIsStoppedAlone == FlowSpec => []BlockedTogether
<1>1. FlowInv => BlockedTogether
  <2> SUFFICES ASSUME FlowInv, ~CanStep, NEW n \in Nodes, NEW t \in Threads,
                      place[n][t] # "out"
               PROVE  AllWait
    BY DEF BlockedTogether
  <2>1. /\ Other(n) \in Nodes
        /\ \A m \in Nodes : Other(Other(m)) = m /\ (m = n \/ m = Other(n))
    BY OtherNode
  <2>2. place[Other(n)]["relay"] # "out"
    BY FullToTheOther
  <2>3. /\ Len(toNode[Other(Other(n))]) = DownCap
        /\ place[Other(Other(n))]["relay"] # "out"
    BY <2>1, <2>2, FullToTheOther
  <2>4. Stopped(n)
    BY <2>1, <2>3, FullToTheOther DEF Stopped
  <2>5. Stopped(Other(n))
    BY <2>1, <2>2, FullToTheOther DEF Stopped
  <2>6. QED
    BY <2>1, <2>4, <2>5 DEF AllWait
<1>2. QED
  BY OneInsidePeer, <1>1, PTL
=============================================================================
