-------------------------- MODULE MembershipProofs --------------------------
(***************************************************************************)
(* The control server and its nodes, for every number of hosts, handlers,  *)
(* keys and faults: the types, one row per key, the tunnel's routes, and   *)
(* that two nodes that wait are linked.                                    *)
(***************************************************************************)
EXTENDS Membership, ControlServiceProofs

USE ControlAssumption, MembershipAssumption

-----------------------------------------------------------------------------
(***************************************************************************)
(* The types of the node processes, as one set of records.                 *)
(***************************************************************************)
NodeState ==
  [key : Keys \cup {ZeroKey}, api : {"idle", "login", "sync", "health"},
   running : BOOLEAN, ctx : {"none", "live", "cancelled"},
   up : BOOLEAN, nodeID : Nat, config : Nat,
   routine : {"off", "check", "poll"},
   byID : SUBSET Nat, byIP : UNION {[S -> Nat] : S \in SUBSET Nat}]

HostsTyped ==
  /\ host \in [Hosts -> NodeState]
  /\ caller \in [Handlers -> Hosts \X {"api", "routine"} \cup {NoCaller}]
  /\ usedKeys \subseteq Keys
  /\ faults \in 0..MaxFaults

(***************************************************************************)
(* A node's table has its peers at their IDs, which are their addresses; a *)
(* controller that is up has the config of a row; a routine runs only      *)
(* while its controller is up and Up is not in its health check.           *)
(***************************************************************************)
TableOK(n) ==
  LET p == host[n]
  IN /\ {p.nodeID, p.config} \subseteq 0..Len(nodes)
     /\ p.byID \subseteq Ids
     /\ p.byIP = [i \in p.byID |-> i]
     /\ p.up => p.config \in Ids
     /\ p.api = "health" \/ p.routine # "off" => p.up
     /\ p.api = "health" => p.routine = "off"

TableInv == \A n \in Hosts : TableOK(n)

\* An answer tells of rows, and that of a full sync has the caller's own.
AnswerInv ==
  \A h \in Handlers :
    /\ resp[h].config \in 0..Len(nodes)
    /\ resp[h].peers \subseteq Ids
    /\ pc[h] = "done" /\ req[h].op = "sync" /\ resp[h].status = "ok" =>
         resp[h].config \in Ids
    /\ pc[h] \in {"register", "insert"} => req[h].op = "login"

(***************************************************************************)
(* A caller waits for one handler, which works on the call it made.        *)
(***************************************************************************)
Waiting(h, n, who) ==
  /\ pc[h] # "idle"
  /\ who = "api" => host[n].api = req[h].op
  /\ who = "routine" => req[h].op = "poll" /\ host[n].routine = "poll"

CallerInv ==
  /\ \A h \in Handlers, n \in Hosts, who \in {"api", "routine"} :
       caller[h] = <<n, who>> => Waiting(h, n, who)
  /\ \A h, g \in Handlers :
       caller[h] = caller[g] /\ caller[h] # NoCaller => h = g

(***************************************************************************)
(* Keys that are in use were drawn, and by one host.  A handler that may   *)
(* still register a key is the only one to do so, and the host that has    *)
(* the key waits for it.                                                   *)
(***************************************************************************)
Registers(h) ==
  \/ pc[h] \in {"register", "insert"}
  \/ pc[h] = "lookup" /\ req[h].op = "login"

DrawnInv ==
  /\ \A i \in Ids : nodes[i].key \in usedKeys
  /\ \A h \in Handlers : req[h].key \in usedKeys \cup {ZeroKey}
  /\ \A n \in Hosts : host[n].key \in usedKeys \cup {ZeroKey}
  /\ \A n, m \in Hosts :
       host[n].key = host[m].key /\ host[n].key # ZeroKey => n = m

RegisterInv ==
  /\ \A h, g \in Handlers :
       Registers(h) /\ Registers(g) /\ req[h].key = req[g].key => h = g
  /\ \A h \in Handlers, n \in Hosts :
       Registers(h) /\ host[n].key = req[h].key => caller[h] = <<n, "api">>
  /\ \A h \in Handlers, i \in Ids :
       pc[h] \in {"register", "insert"} => nodes[i].key # req[h].key

KeyInv == DrawnInv /\ RegisterInv /\ OneRowPerKey

(***************************************************************************)
(* A handler that polls works for the row of its key.  It is the only one  *)
(* of its key while it is waited for; the host that has the key has been   *)
(* through Up, and if its routine runs it is the one that waits.  So has   *)
(* the host of a row with a channel.                                       *)
(***************************************************************************)
Polls(h) == pc[h] # "idle" /\ req[h].op = "poll" /\ req[h].key # ZeroKey

WasUp(n) == host[n].up /\ host[n].api # "health"

PollInv ==
  /\ \A h \in Handlers :
       pc[h] \in {"chan", "wait", "peers"} =>
         nodes[node[h]].key = req[h].key
  /\ \A h \in Handlers, n \in Hosts :
       Polls(h) /\ host[n].key = req[h].key =>
         /\ WasUp(n)
         /\ host[n].routine # "off" => caller[h] = <<n, "routine">>
  /\ \A h, g \in Handlers :
       /\ Polls(h) /\ Polls(g) /\ req[h].key = req[g].key
       /\ caller[g] # NoCaller
       => h = g
  /\ \A i \in DOMAIN notifyChans, n \in Hosts :
       host[n].key = nodes[i].key => WasUp(n)

(***************************************************************************)
(* Of two nodes with channels one is told of the other.  It has yet to be, *)
(* or whoever polls for it knows, or has an answer that says so or that    *)
(* ends the routine.                                                       *)
(***************************************************************************)
Follows(n, k) ==
  \/ host[n].key = k /\ host[n].routine # "off"
  \/ \E h \in Handlers : caller[h] = <<n, "routine">> /\ req[h].key = k

Hears(n, k, j) ==
  \/ j \in host[n].byID
  \/ \E h \in Handlers :
       /\ caller[h] = <<n, "routine">> /\ req[h].key = k
       /\ pc[h] = "done"
       /\ resp[h].status # "ok" \/ j \in resp[h].peers

Told(i, j) ==
  \/ j \in unseen[i]
  \/ \A n \in Hosts : Follows(n, nodes[i].key) => Hears(n, nodes[i].key, j)

LinkInv ==
  \A i, j \in DOMAIN notifyChans : i # j => Told(i, j) \/ Told(j, i)

MInv ==
  /\ IInv /\ HostsTyped /\ TableInv /\ AnswerInv /\ CallerInv
  /\ KeyInv /\ PollInv /\ LinkInv

-----------------------------------------------------------------------------
(***************************************************************************)
(* The steps of the server.  Every one but a restart is a handler's, which *)
(* leaves the other handlers and the rows of the table alone.              *)
(***************************************************************************)
LEMMA RowsKept ==
  ASSUME MInv, NEW h \in Handlers, HandlerStep(h)
  PROVE  /\ Ids \subseteq Ids' /\ Len(nodes) \in Nat
         /\ 0..Len(nodes) \subseteq 0..Len(nodes')
         /\ \A i \in Ids : nodes'[i] = nodes[i]
         /\ ~CreateNode(h) => nodes' = nodes
         /\ CreateNode(h) =>
              /\ Ids' = Ids \cup {Len(nodes) + 1}
              /\ nodes'[Len(nodes) + 1].key = req[h].key
              /\ req[h].key \in Keys
<1>1. TypeOK /\ HandlerInv
  BY DEF MInv, IInv
<1>2. Len(nodes) \in Nat
  BY <1>1 DEF TypeOK
<1>3. CASE CreateNode(h)
  <2>1. req[h].key \in Keys
    BY <1>1, <1>3 DEF HandlerInv, CreateNode
  <2>2. /\ Len(nodes') = Len(nodes) + 1
        /\ \A i \in Ids : nodes'[i] = nodes[i]
        /\ nodes'[Len(nodes) + 1] = [key |-> req[h].key, ip |-> newIP[h]]
    BY <1>1, <1>3, <2>1, RowsAfterInsert
  <2>3. Ids' = Ids \cup {Len(nodes) + 1}
    BY <1>2, <2>2 DEF Ids
  <2>4. 0..Len(nodes) \subseteq 0..Len(nodes')
    BY <1>2, <2>2
  <2>5. nodes'[Len(nodes) + 1].key = req[h].key
    BY <2>2
  <2>6. QED
    BY <1>2, <1>3, <2>1, <2>2, <2>3, <2>4, <2>5
<1>4. CASE ~CreateNode(h)
  <2>1. nodes' = nodes
    BY <1>4 DEF HandlerStep, LoginNode, RegisterNode, CreateNodeFails, Update,
       GetNotifyChan, TakeToken, PollTimeout, GetPeersOfNode, QueryFails,
       dbVars
  <2>2. QED
    BY <1>2, <1>4, <2>1 DEF Ids
<1>5. QED
  BY <1>3, <1>4

LEMMA KeysOfRows ==
  ASSUME TypeOK, NEW i \in Ids
  PROVE  nodes[i].key \in Keys
<1>1. ASSUME NEW S, nodes \in Seq(S) PROVE nodes[i] \in S
  BY <1>1 DEF Ids
<1>2. nodes[i] \in [key : Keys, ip : Nat]
  BY <1>1 DEF TypeOK
<1>3. QED
  BY <1>2

LEMMA HandlerFrame ==
  ASSUME MInv, NEW h \in Handlers, HandlerStep(h)
  PROVE  /\ req' = req
         /\ pc[h] \notin {"idle", "done"} /\ pc'[h] \notin {"idle", "lookup"}
         /\ \A g \in Handlers \ {h} : /\ pc'[g] = pc[g] /\ node'[g] = node[g]
                                      /\ resp'[g] = resp[g]
         /\ pc'[h] \in {"register", "insert"} =>
              req[h].op = "login" /\ Registers(h)
<1>1. TypeOK /\ AnswerInv
  BY DEF MInv, IInv
<1>2. CASE LoginNode(h)
  BY <1>1, <1>2 DEF TypeOK, LoginNode, Answer, Registers
<1>3. CASE RegisterNode(h)
  BY <1>1, <1>3 DEF TypeOK, RegisterNode, Registers, AnswerInv
<1>4. CASE CreateNode(h) \/ CreateNodeFails(h)
  BY <1>1, <1>4 DEF TypeOK, CreateNode, CreateNodeFails, Answer
<1>5. CASE Update(h)
  BY <1>1, <1>5 DEF TypeOK, Update, Answer
<1>6. CASE GetNotifyChan(h) \/ TakeToken(h)
  BY <1>1, <1>6 DEF TypeOK, GetNotifyChan, TakeToken
<1>7. CASE PollTimeout(h) \/ GetPeersOfNode(h) \/ QueryFails(h)
  BY <1>1, <1>7 DEF TypeOK, PollTimeout, GetPeersOfNode, QueryFails, Answer
<1>8. QED
  BY <1>2, <1>3, <1>4, <1>5, <1>6, <1>7 DEF HandlerStep

\* What a handler answers: a full sync tells of the caller's row.
LEMMA ServeAnswers ==
  ASSUME MInv, NEW h \in Handlers, HandlerStep(h)
  PROVE  AnswerInv'
<1>1. TypeOK /\ HandlerInv /\ AnswerInv
  BY DEF MInv, IInv
<1> DEFINE Fine(g) ==
             /\ resp[g].config \in 0..Len(nodes)
             /\ resp[g].peers \subseteq Ids
             /\ pc[g] = "done" /\ req[g].op = "sync" /\ resp[g].status = "ok"
                  => resp[g].config \in Ids
             /\ pc[g] \in {"register", "insert"} => req[g].op = "login"
<1>2. \A g \in Handlers \ {h} : Fine(g)'
  <2>1. \A g \in Handlers \ {h} : Fine(g)
    BY <1>1 DEF AnswerInv
  <2>2. QED
    BY <2>1, RowsKept, HandlerFrame
<1>3. \/ resp'[h] = resp[h] /\ pc'[h] # "done"
      \/ resp'[h].config = 0 /\ resp'[h].peers = {}
           /\ (resp'[h].status # "ok" \/ req[h].op # "sync")
      \/ /\ node[h] \in Ids /\ nodes' = nodes
         /\ resp'[h].config = (IF req[h].op = "sync" THEN node[h] ELSE 0)
         /\ resp'[h].peers = Ids \ {node[h]}
  <2>1. CASE LoginNode(h)
    BY <1>1, <2>1 DEF TypeOK, LoginNode, Answer, Success
  <2>2. CASE CreateNode(h) \/ CreateNodeFails(h)
    <3>1. req[h].op = "login"
      BY <1>1, <2>2 DEF AnswerInv, CreateNode, CreateNodeFails
    <3>2. QED
      BY <1>1, <2>2, <3>1
         DEF TypeOK, CreateNode, CreateNodeFails, Answer, Success, Failure
  <2>3. CASE Update(h)
    BY <1>1, <2>3 DEF TypeOK, Update, Answer, Failure
  <2>4. CASE RegisterNode(h) \/ GetNotifyChan(h) \/ TakeToken(h)
    BY <1>1, <2>4 DEF TypeOK, RegisterNode, GetNotifyChan, TakeToken
  <2>5. CASE PollTimeout(h) \/ QueryFails(h)
    BY <1>1, <2>5 DEF TypeOK, HandlerInv, PollTimeout, QueryFails, Answer,
       Success, Failure
  <2>6. CASE GetPeersOfNode(h)
    BY <1>1, <2>6 DEF TypeOK, HandlerInv, GetPeersOfNode, Answer, Success,
       PeersOfNode, dbVars
  <2>7. QED
    BY <2>1, <2>2, <2>3, <2>4, <2>5, <2>6 DEF HandlerStep
<1>4. Fine(h)'
  <2>1. Fine(h) /\ 0 \in 0..Len(nodes')
    BY <1>1, RowsKept DEF AnswerInv
  <2>2. pc'[h] \in {"register", "insert"} => req'[h].op = "login"
    BY HandlerFrame
  <2>3. /\ resp'[h].config \in 0..Len(nodes')
        /\ resp'[h].peers \subseteq Ids'
        /\ pc'[h] = "done" /\ req'[h].op = "sync" /\ resp'[h].status = "ok"
             => resp'[h].config \in Ids'
    BY <1>3, <2>1, RowsKept, HandlerFrame DEF Ids
  <2>4. QED
    BY <2>2, <2>3
<1>5. QED
  BY <1>2, <1>4 DEF AnswerInv

\* LoginNode finds no row before it registers, so that no key gets two.
LEMMA RowOfKey ==
  ASSUME MInv, NEW k
  PROVE  /\ GetNode(k) \in Ids => nodes[GetNode(k)].key = k
         /\ GetNode(k) = 0 => \A i \in Ids : nodes[i].key # k
<1>1. \A i, j \in RowsOf(k) : i = j
  BY DEF MInv, KeyInv, OneRowPerKey, RowsOf
<1>2. CASE RowsOf(k) = {}
  BY <1>2 DEF GetNode, RowsOf, Ids
<1>3. CASE RowsOf(k) # {}
  <2>1. PICK i \in RowsOf(k) : TRUE
    BY <1>3
  <2>2. i \in Ids /\ i # 0 /\ i \in Nat /\ nodes[i].key = k
    BY <2>1 DEF RowsOf, Ids
  <2>3. \A j \in RowsOf(k) : i <= j
    BY <1>1, <2>1, <2>2
  <2>4. GetNode(k) = i
    BY <1>1, <1>3, <2>1, <2>3 DEF GetNode
  <2>5. QED
    BY <2>2, <2>4
<1>4. QED
  BY <1>2, <1>3

LEMMA ServeKeys ==
  ASSUME MInv, NEW h \in Handlers, HandlerStep(h),
         UNCHANGED <<host, caller, usedKeys>>
  PROVE  KeyInv'
<1>1. TypeOK /\ HandlerInv /\ DrawnInv /\ RegisterInv /\ OneRowPerKey
  BY DEF MInv, IInv, KeyInv
<1>2. \A g \in Handlers : Registers(g)' => Registers(g)
  BY HandlerFrame DEF Registers
<1>3. CASE CreateNode(h)
  <2>1. pc[h] = "insert" /\ pc'[h] = "done"
    BY <1>1, <1>3 DEF TypeOK, CreateNode, Answer
  <2>2. req[h].key \in usedKeys
    <3>1. req[h].key \in Keys
      BY <1>3, RowsKept
    <3>2. QED
      BY <1>1, <3>1 DEF DrawnInv
  <2>3. \A i \in Ids : nodes[i].key # req[h].key
    BY <1>1, <2>1 DEF RegisterInv
  <2>4. \A g \in Handlers \ {h} :
          pc[g] \in {"register", "insert"} => req[g].key # req[h].key
    BY <1>1, <2>1 DEF RegisterInv, Registers
  <2>5. DrawnInv'
    BY <1>1, <1>3, <2>2, RowsKept, HandlerFrame DEF DrawnInv
  <2>6. RegisterInv'
    BY <1>1, <1>2, <1>3, <2>1, <2>4, RowsKept, HandlerFrame DEF RegisterInv
  <2>7. OneRowPerKey'
    BY <1>1, <1>3, <2>3, RowsKept DEF OneRowPerKey
  <2>8. QED
    BY <2>5, <2>6, <2>7 DEF KeyInv
<1>4. CASE ~CreateNode(h)
  <2>1. nodes' = nodes /\ Ids' = Ids
    BY <1>4, RowsKept DEF Ids
  <2>2. pc'[h] \in {"register", "insert"} =>
          \A i \in Ids : nodes[i].key # req[h].key
    <3>1. CASE LoginNode(h)
      BY <1>1, <3>1, RowOfKey DEF TypeOK, LoginNode, Answer
    <3>2. CASE RegisterNode(h)
      BY <1>1, <3>2 DEF RegisterNode, RegisterInv
    <3>3. CASE CreateNodeFails(h) \/ Update(h) \/ GetNotifyChan(h)
      BY <1>1, <3>3
         DEF TypeOK, CreateNodeFails, Update, GetNotifyChan, Answer
    <3>4. CASE \/ TakeToken(h) \/ PollTimeout(h) \/ GetPeersOfNode(h)
               \/ QueryFails(h)
      BY <1>1, <3>4 DEF TypeOK, TakeToken, PollTimeout, GetPeersOfNode,
         QueryFails, Answer
    <3>5. QED
      BY <1>4, <3>1, <3>2, <3>3, <3>4 DEF HandlerStep
  <2>3. DrawnInv' /\ OneRowPerKey'
    BY <1>1, <2>1, HandlerFrame DEF DrawnInv, OneRowPerKey
  <2>4. RegisterInv'
    BY <1>1, <1>2, <2>1, <2>2, HandlerFrame DEF RegisterInv
  <2>5. QED
    BY <2>3, <2>4 DEF KeyInv
<1>5. QED
  BY <1>3, <1>4

(***************************************************************************)
(* Update finds the row of the key it was called with, and getNotifyChan   *)
(* makes a channel only for the row of a poll.                             *)
(***************************************************************************)
LEMMA ServePolls ==
  ASSUME MInv, NEW h \in Handlers, HandlerStep(h),
         UNCHANGED <<host, caller, usedKeys>>
  PROVE  PollInv'
<1>1. TypeOK /\ HandlerInv /\ PollInv /\ Ids \subseteq Ids'
  BY RowsKept DEF MInv, IInv
<1>2. \A g \in Handlers : Polls(g)' <=> Polls(g)
  BY HandlerFrame DEF Polls
<1>3. pc[h] \in {"chan", "wait", "peers"} =>
        node[h] \in Ids /\ nodes[node[h]].key = req[h].key
  BY <1>1 DEF HandlerInv, PollInv
<1>4. pc'[h] \in {"chan", "wait", "peers"} =>
        node'[h] \in Ids /\ nodes[node'[h]].key = req[h].key
  <2>1. CASE Update(h)
    BY <1>1, <2>1, RowOfKey DEF TypeOK, Update, Answer
  <2>2. CASE \/ LoginNode(h) \/ RegisterNode(h) \/ CreateNode(h)
             \/ CreateNodeFails(h)
    BY <1>1, <2>2 DEF TypeOK, LoginNode, RegisterNode, CreateNode,
       CreateNodeFails, Answer
  <2>3. CASE GetNotifyChan(h) \/ TakeToken(h)
    BY <1>1, <1>3, <2>3 DEF TypeOK, GetNotifyChan, TakeToken
  <2>4. CASE PollTimeout(h) \/ GetPeersOfNode(h) \/ QueryFails(h)
    BY <1>1, <2>4 DEF TypeOK, PollTimeout, GetPeersOfNode, QueryFails, Answer
  <2>5. QED
    BY <2>1, <2>2, <2>3, <2>4 DEF HandlerStep
<1>5. \A g \in Handlers : pc'[g] \in {"chan", "wait", "peers"} =>
        nodes'[node'[g]].key = req'[g].key
  <2>1. ASSUME NEW g \in Handlers \ {h},
               pc'[g] \in {"chan", "wait", "peers"}
        PROVE  nodes'[node'[g]].key = req'[g].key
    <3>1. node[g] \in Ids /\ nodes[node[g]].key = req[g].key
      BY <1>1, <2>1, HandlerFrame DEF HandlerInv, PollInv
    <3>2. QED
      BY <3>1, RowsKept, HandlerFrame
  <2>2. QED
    BY <1>4, <2>1, RowsKept, HandlerFrame
<1>6. \A i \in DOMAIN notifyChans' :
        \/ i \in DOMAIN notifyChans
        \/ i = node[h] /\ i \in Ids /\ Polls(h) /\ pc[h] = "chan"
  <2>1. CASE GetNotifyChan(h)
    <3>1. /\ pc[h] = "chan" /\ req[h].op = "poll" /\ node[h] \in Ids
          /\ req[h].key # ZeroKey
      <4>1. pc[h] = "chan"
        BY <2>1 DEF GetNotifyChan
      <4>2. nodes[node[h]].key \in Keys
        BY <1>1, <1>3, <4>1, KeysOfRows
      <4>3. QED
        BY <1>1, <1>3, <4>1, <4>2 DEF HandlerInv
    <3>2. Polls(h)
      BY <3>1 DEF Polls
    <3>3. DOMAIN notifyChans' \subseteq DOMAIN notifyChans \cup {node[h]}
      BY <2>1 DEF GetNotifyChan, NotifyAllExcept
    <3>4. QED
      BY <3>1, <3>2, <3>3
  <2>2. CASE TakeToken(h)
    BY <1>1, <2>2 DEF TypeOK, TakeToken
  <2>3. CASE ~GetNotifyChan(h) /\ ~TakeToken(h)
    BY <2>3 DEF HandlerStep, LoginNode, RegisterNode, CreateNode, Update,
       CreateNodeFails, PollTimeout, GetPeersOfNode, QueryFails, svcVars
  <2>4. QED
    BY <2>1, <2>2, <2>3
<1>7. \A i \in DOMAIN notifyChans', n \in Hosts :
        host[n].key = nodes'[i].key => WasUp(n)
  <2>1. ASSUME NEW i \in DOMAIN notifyChans', NEW n \in Hosts,
               host[n].key = nodes'[i].key
        PROVE  WasUp(n)
    <3>1. i \in Ids
      BY <1>1, <1>6 DEF TypeOK
    <3>2. host[n].key = nodes[i].key
      BY <2>1, <3>1, RowsKept
    <3>3. CASE i \in DOMAIN notifyChans
      BY <1>1, <3>2, <3>3 DEF PollInv
    <3>4. CASE i = node[h] /\ Polls(h) /\ pc[h] = "chan"
      BY <1>1, <1>3, <3>2, <3>4 DEF PollInv
    <3>5. QED
      BY <1>6, <3>3, <3>4
  <2>2. QED
    BY <2>1
<1>8. \A g \in Handlers, n \in Hosts :
        Polls(g)' /\ host'[n].key = req'[g].key =>
          /\ WasUp(n)'
          /\ host'[n].routine # "off" => caller'[g] = <<n, "routine">>
  BY <1>1, <1>2, HandlerFrame DEF PollInv, WasUp
<1>9. \A g, f \in Handlers :
        /\ Polls(g)' /\ Polls(f)' /\ req'[g].key = req'[f].key
        /\ caller'[f] # NoCaller
        => g = f
  BY <1>1, <1>2, HandlerFrame DEF PollInv
<1>10. QED
  BY <1>5, <1>7, <1>8, <1>9 DEF PollInv, WasUp

(***************************************************************************)
(* A first poll is told to every node with a channel.  A poll that reads   *)
(* the table, or fails to, answers its caller with all it was told; and    *)
(* if the caller is gone, nobody follows its node any more.                *)
(***************************************************************************)
LEMMA ServeLinks ==
  ASSUME MInv, NEW h \in Handlers, HandlerStep(h),
         UNCHANGED <<host, caller, usedKeys>>
  PROVE  LinkInv'
<1>1. TypeOK /\ HandlerInv /\ UnseenInv /\ PollInv /\ LinkInv /\ CallerInv
  BY DEF MInv, IInv
<1>2. \A n \in Hosts : \A k : Follows(n, k)' <=> Follows(n, k)
  BY HandlerFrame DEF Follows
<1>3. \A n \in Hosts : \A k, j : Hears(n, k, j) => Hears(n, k, j)'
  <2>1. ASSUME NEW n \in Hosts, NEW k, NEW j, NEW g \in Handlers,
               caller[g] = <<n, "routine">>, req[g].key = k, pc[g] = "done",
               resp[g].status # "ok" \/ j \in resp[g].peers
        PROVE  Hears(n, k, j)'
    <3>1. /\ pc'[g] = "done" /\ resp'[g] = resp[g]
          /\ caller'[g] = caller[g] /\ req'[g] = req[g]
      BY <2>1, HandlerFrame
    <3>2. QED
      BY <2>1, <3>1 DEF Hears
  <2>2. \A n \in Hosts : \A k, j : j \in host[n].byID => Hears(n, k, j)'
    BY DEF Hears
  <2>3. QED
    BY <2>1, <2>2 DEF Hears
<1>4. \A i \in DOMAIN notifyChans : i \in Ids /\ nodes'[i] = nodes[i]
  BY <1>1, RowsKept DEF TypeOK
<1>5. CASE /\ DOMAIN notifyChans' = DOMAIN notifyChans
           /\ unseen' = unseen
  BY <1>1, <1>2, <1>3, <1>4, <1>5 DEF LinkInv, Told
<1>6. CASE GetNotifyChan(h) /\ node[h] \notin DOMAIN notifyChans
  <2>1. /\ DOMAIN notifyChans' = DOMAIN notifyChans \cup {node[h]}
        /\ \A i \in DOMAIN notifyChans :
             unseen'[i] = unseen[i] \cup {node[h]}
    BY <1>6 DEF GetNotifyChan, NotifyAllExcept
  <2>2. \A i \in DOMAIN notifyChans : \A j : Told(i, j) => Told(i, j)'
    BY <1>2, <1>3, <1>4, <2>1 DEF Told
  <2>3. \A i \in DOMAIN notifyChans : \A j : j = node[h] => Told(i, j)'
    BY <2>1 DEF Told
  <2>4. ASSUME NEW i \in DOMAIN notifyChans', NEW j \in DOMAIN notifyChans',
               i # j
        PROVE  Told(i, j)' \/ Told(j, i)'
    <3>1. CASE i \in DOMAIN notifyChans /\ j \in DOMAIN notifyChans
      BY <1>1, <2>2, <2>4, <3>1 DEF LinkInv
    <3>2. CASE i = node[h] \/ j = node[h]
      BY <2>1, <2>3, <2>4, <3>2
    <3>3. QED
      BY <2>1, <3>1, <3>2
  <2>5. QED
    BY <2>4 DEF LinkInv
<1>7. CASE /\ GetPeersOfNode(h) \/ QueryFails(h)
           /\ pc[h] = "peers" /\ req[h].op = "poll"
  <2> DEFINE id == node[h]
  <2>1. /\ id \in Ids /\ id \in DOMAIN notifyChans /\ Polls(h)
        /\ nodes[id].key = req[h].key
    <3>1. /\ id \in Ids /\ id \in DOMAIN notifyChans
          /\ nodes[id].key = req[h].key
      BY <1>1, <1>7 DEF HandlerInv, PollInv
    <3>2. nodes[id].key \in Keys
      BY <1>1, <3>1, KeysOfRows
    <3>3. QED
      BY <1>7, <3>1, <3>2 DEF Polls
  <2>2. /\ notifyChans' = notifyChans
        /\ \A i \in DOMAIN notifyChans \ {id} : unseen'[i] = unseen[i]
    BY <1>1, <1>7 DEF TypeOK, GetPeersOfNode, QueryFails, svcVars
  <2>3. /\ pc'[h] = "done"
        /\ \A j \in unseen[id] :
             resp'[h].status # "ok" \/ j \in resp'[h].peers
    <3>1. CASE GetPeersOfNode(h)
      <4>1. unseen[id] \subseteq Ids \ {id}
        BY <1>1, <2>1 DEF UnseenInv
      <4>2. pc'[h] = "done" /\ resp'[h].peers = Ids \ {id}
        BY <1>1, <3>1
           DEF TypeOK, GetPeersOfNode, PeersOfNode, Answer, Success
      <4>3. QED
        BY <4>1, <4>2
    <3>2. CASE QueryFails(h)
      BY <1>1, <3>2 DEF TypeOK, QueryFails, Answer, Failure
    <3>3. QED
      BY <1>7, <3>1, <3>2
  <2>4. \A n \in Hosts :
          Follows(n, nodes[id].key) => caller[h] = <<n, "routine">>
    <3>1. ASSUME NEW n \in Hosts, NEW g \in Handlers,
                 caller[g] = <<n, "routine">>, req[g].key = req[h].key
          PROVE  g = h
      <4>1. Polls(g)
        BY <1>1, <2>1, <3>1 DEF CallerInv, Waiting, Polls
      <4>2. caller[g] # NoCaller
        BY <3>1
      <4>3. QED
        BY <1>1, <2>1, <3>1, <4>1, <4>2 DEF PollInv
    <3>2. QED
      BY <1>1, <2>1, <3>1 DEF Follows, PollInv
  <2>5. ASSUME NEW j \in unseen[id], NEW n \in Hosts, NEW k,
               k = nodes[id].key, Follows(n, k)
        PROVE  Hears(n, k, j)'
    <3>1. caller'[h] = <<n, "routine">> /\ req'[h].key = k
      BY <2>1, <2>4, <2>5, HandlerFrame
    <3>2. QED
      BY <2>3, <3>1 DEF Hears
  <2>6. \A i \in DOMAIN notifyChans : \A j : Told(i, j) => Told(i, j)'
    <3>1. ASSUME NEW i \in DOMAIN notifyChans, NEW j, Told(i, j)
          PROVE  Told(i, j)'
      <4>1. CASE j \in unseen[i] /\ i = id
        <5>1. \A n \in Hosts : \A k :
                k = nodes'[i].key /\ Follows(n, k)' => Hears(n, k, j)'
          BY <1>2, <1>4, <2>1, <2>5, <4>1
        <5>2. QED
          BY <5>1 DEF Told
      <4>2. CASE j \in unseen[i] /\ i # id
        BY <2>2, <4>2 DEF Told
      <4>3. CASE \A n \in Hosts :
                   Follows(n, nodes[i].key) => Hears(n, nodes[i].key, j)
        <5>1. \A n \in Hosts : \A k :
                k = nodes'[i].key /\ Follows(n, k)' => Hears(n, k, j)'
          BY <1>2, <1>3, <1>4, <4>3
        <5>2. QED
          BY <5>1 DEF Told
      <4>4. QED
        BY <3>1, <4>1, <4>2, <4>3 DEF Told
    <3>2. QED
      BY <3>1
  <2>7. QED
    BY <1>1, <2>2, <2>6 DEF LinkInv
<1>8. \/ DOMAIN notifyChans' = DOMAIN notifyChans /\ unseen' = unseen
      \/ GetNotifyChan(h) /\ node[h] \notin DOMAIN notifyChans
      \/ /\ GetPeersOfNode(h) \/ QueryFails(h)
         /\ pc[h] = "peers" /\ req[h].op = "poll"
  <2>1. CASE LoginNode(h) \/ RegisterNode(h) \/ CreateNode(h) \/ Update(h)
             \/ CreateNodeFails(h) \/ PollTimeout(h)
    BY <2>1 DEF LoginNode, RegisterNode, CreateNode, Update, CreateNodeFails,
       PollTimeout, svcVars
  <2>2. CASE GetNotifyChan(h)
    BY <2>2 DEF GetNotifyChan
  <2>3. CASE TakeToken(h)
    BY <1>1, <2>3 DEF TypeOK, TakeToken
  <2>4. CASE GetPeersOfNode(h) \/ QueryFails(h)
    BY <2>4 DEF GetPeersOfNode, QueryFails, svcVars
  <2>5. QED
    BY <2>1, <2>2, <2>3, <2>4 DEF HandlerStep
<1>9. QED
  BY <1>5, <1>6, <1>7, <1>8

LEMMA ServeStep ==
  ASSUME MInv, NEW h \in Handlers, HandlerStep(h),
         UNCHANGED <<host, caller, usedKeys>>, faults' \in 0..MaxFaults
  PROVE  MInv'
<1>1. IInv'
  BY NextIInv DEF MInv, Next
<1>2. HostsTyped'
  BY DEF MInv, HostsTyped
<1>3. TableInv'
  <2>1. TableInv
    BY DEF MInv
  <2>2. QED
    BY <2>1, RowsKept DEF TableInv, TableOK
<1>4. CallerInv'
  <2>1. CallerInv
    BY DEF MInv
  <2>2. QED
    BY <2>1, HandlerFrame DEF CallerInv, Waiting
<1>5. AnswerInv' /\ KeyInv' /\ PollInv' /\ LinkInv'
  BY ServeAnswers, ServeKeys, ServePolls, ServeLinks
<1>6. QED
  BY <1>1, <1>2, <1>3, <1>4, <1>5 DEF MInv

-----------------------------------------------------------------------------
(***************************************************************************)
(* The steps of the hosts in which no call begins: one returns, or breaks, *)
(* or the host goes on alone.  A handler is left as it is or has ended; a  *)
(* host keeps its key or loses it, and what it knew, unless its routine is *)
(* over.                                                                   *)
(***************************************************************************)
HandlerSettled(g) ==
  /\ caller'[g] \in {caller[g], NoCaller}
  /\ \/ /\ pc'[g] = pc[g] /\ req'[g] = req[g]
        /\ node'[g] = node[g] /\ resp'[g] = resp[g]
     \/ /\ pc'[g] = "idle" /\ req'[g] = NoRequest
        /\ resp'[g] = NoResponse /\ caller'[g] = NoCaller

Dropped(g, n, who) == caller[g] = <<n, who>> /\ caller'[g] = NoCaller

HostSettled(n) ==
  LET p == host[n]
      q == host'[n]
  IN /\ q.key \in {p.key, ZeroKey}
     /\ TableOK(n)'
     /\ q.key # ZeroKey =>
          /\ WasUp(n) => WasUp(n)'
          /\ q.routine = "off" \/ p.routine # "off" \/ ~WasUp(n)
     /\ \A g \in Handlers :
          /\ caller'[g] = <<n, "api">> => q.api = p.api
          /\ caller'[g] = <<n, "routine">> => q.routine = p.routine
          /\ Dropped(g, n, "api") /\ Registers(g)' => q.key = ZeroKey
     /\ \/ /\ q.routine = "off"
           /\ \A g \in Handlers : caller'[g] # <<n, "routine">>
        \/ /\ p.byID \subseteq q.byID
           /\ \A g \in Handlers : Dropped(g, n, "routine") =>
                /\ pc'[g] = "idle"
                /\ resp[g].status = "ok"
                /\ resp[g].peers \subseteq q.byID

LEMMA SettledKeys ==
  ASSUME MInv, UNCHANGED <<nodes, usedKeys>>,
         \A g \in Handlers : HandlerSettled(g),
         \A n \in Hosts : HostSettled(n)
  PROVE  KeyInv'
<1>1. HandlerInv /\ DrawnInv /\ RegisterInv /\ OneRowPerKey
  BY DEF MInv, IInv, KeyInv
<1>2. \A g \in Handlers :
        Registers(g)' => Registers(g) /\ req'[g] = req[g] /\ pc'[g] = pc[g]
  BY DEF HandlerSettled, Registers
<1>3. \A n \in Hosts : host'[n].key \in {host[n].key, ZeroKey}
  BY DEF HostSettled
<1>4. DrawnInv'
  <2>1. \A g \in Handlers : req'[g].key \in usedKeys \cup {ZeroKey}
    BY <1>1 DEF HandlerSettled, DrawnInv, NoRequest
  <2>2. Ids' = Ids
    BY DEF Ids
  <2>3. QED
    BY <1>1, <1>3, <2>1, <2>2 DEF DrawnInv
<1>5. RegisterInv'
  <2>1. ASSUME NEW g \in Handlers, NEW n \in Hosts,
               Registers(g)', host'[n].key = req'[g].key
        PROVE  caller'[g] = <<n, "api">>
    <3>1. req[g].key \in Keys /\ host'[n].key = req[g].key
      BY <1>1, <1>2, <2>1 DEF HandlerInv, Registers
    <3>2. host[n].key = req[g].key /\ host'[n].key # ZeroKey
      BY <1>3, <3>1
    <3>3. caller[g] = <<n, "api">>
      BY <1>1, <1>2, <2>1, <3>2 DEF RegisterInv
    <3>4. ~Dropped(g, n, "api")
      BY <2>1, <3>2 DEF HostSettled
    <3>5. QED
      BY <3>3, <3>4 DEF Dropped, HandlerSettled
  <2>2. \A g, f \in Handlers :
          Registers(g)' /\ Registers(f)' /\ req'[g].key = req'[f].key => g = f
    BY <1>1, <1>2 DEF RegisterInv
  <2>3. \A g \in Handlers, i \in Ids' :
          pc'[g] \in {"register", "insert"} => nodes'[i].key # req'[g].key
    BY <1>1, <1>2 DEF RegisterInv, Registers, HandlerSettled, Ids
  <2>4. QED
    BY <2>1, <2>2, <2>3 DEF RegisterInv
<1>6. OneRowPerKey'
  BY <1>1 DEF OneRowPerKey, Ids
<1>7. QED
  BY <1>4, <1>5, <1>6 DEF KeyInv

LEMMA SettledPolls ==
  ASSUME MInv, UNCHANGED <<nodes, notifyChans>>,
         \A g \in Handlers : HandlerSettled(g),
         \A n \in Hosts : HostSettled(n)
  PROVE  PollInv'
<1>1. TypeOK /\ PollInv /\ CallerInv
  BY DEF MInv, IInv
<1>2. \A g \in Handlers : Polls(g)' =>
        /\ Polls(g) /\ req'[g] = req[g] /\ pc'[g] = pc[g]
        /\ caller'[g] \in {caller[g], NoCaller} /\ pc'[g] # "idle"
  BY DEF HandlerSettled, Polls
<1>3. \A n \in Hosts : host'[n].key # ZeroKey => host'[n].key = host[n].key
  BY DEF HostSettled
<1>4. ASSUME NEW g \in Handlers, NEW n \in Hosts,
             Polls(g)', host'[n].key = req'[g].key
      PROVE  /\ WasUp(n)'
             /\ host'[n].routine # "off" => caller'[g] = <<n, "routine">>
  <2>1. Polls(g) /\ host'[n].key # ZeroKey /\ host[n].key = req[g].key
    BY <1>2, <1>3, <1>4 DEF Polls
  <2>2. WasUp(n)
    BY <1>1, <2>1 DEF PollInv
  <2>3. WasUp(n)'
    BY <2>1, <2>2 DEF HostSettled
  <2>4. ASSUME host'[n].routine # "off" PROVE caller'[g] = <<n, "routine">>
    <3>1. host[n].routine # "off"
      BY <2>1, <2>2, <2>4 DEF HostSettled
    <3>2. caller[g] = <<n, "routine">>
      BY <1>1, <2>1, <3>1 DEF PollInv
    <3>3. ~Dropped(g, n, "routine")
      BY <1>2, <1>4, <2>4 DEF HostSettled
    <3>4. QED
      BY <1>2, <1>4, <3>2, <3>3 DEF Dropped
  <2>5. QED
    BY <2>3, <2>4
<1>5. \A g, f \in Handlers :
        /\ Polls(g)' /\ Polls(f)' /\ req'[g].key = req'[f].key
        /\ caller'[f] # NoCaller
        => g = f
  BY <1>1, <1>2 DEF PollInv
<1>6. \A i \in DOMAIN notifyChans', n \in Hosts :
        host'[n].key = nodes'[i].key => WasUp(n)'
  <2>1. ASSUME NEW i \in DOMAIN notifyChans, NEW n \in Hosts,
               host'[n].key = nodes[i].key
        PROVE  WasUp(n)'
    <3>1. nodes[i].key \in Keys
      BY <1>1, KeysOfRows DEF TypeOK
    <3>2. host'[n].key # ZeroKey /\ host[n].key = nodes[i].key
      BY <1>3, <2>1, <3>1
    <3>3. WasUp(n)
      BY <1>1, <3>2 DEF PollInv
    <3>4. QED
      BY <3>2, <3>3 DEF HostSettled
  <2>2. QED
    BY <2>1
<1>7. \A g \in Handlers :
        pc'[g] \in {"chan", "wait", "peers"} =>
          nodes'[node'[g]].key = req'[g].key
  BY <1>1 DEF HandlerSettled, PollInv
<1>8. QED
  BY <1>4, <1>5, <1>6, <1>7 DEF PollInv

\* A node that is told of another stays so while its host follows it.
LEMMA LinksKept ==
  ASSUME MInv, UNCHANGED <<nodes, notifyChans, unseen>>,
         \A i \in DOMAIN notifyChans, n \in Hosts : \A j, k :
           k = nodes[i].key /\ Follows(n, k)' =>
             Follows(n, k) /\ (Hears(n, k, j) => Hears(n, k, j)')
  PROVE  LinkInv'
<1>1. LinkInv
  BY DEF MInv
<1>2. ASSUME NEW i \in DOMAIN notifyChans, NEW j, Told(i, j)
      PROVE  Told(i, j)'
  <2>1. CASE j \in unseen[i]
    BY <2>1 DEF Told
  <2>2. CASE \A n \in Hosts :
               Follows(n, nodes[i].key) => Hears(n, nodes[i].key, j)
    <3>1. \A n \in Hosts : \A k :
            k = nodes'[i].key /\ Follows(n, k)' => Hears(n, k, j)'
      BY <2>2
    <3>2. QED
      BY <3>1 DEF Told
  <2>3. QED
    BY <1>2, <2>1, <2>2 DEF Told
<1>3. QED
  BY <1>1, <1>2 DEF LinkInv

LEMMA SettledLinks ==
  ASSUME MInv, UNCHANGED <<nodes, notifyChans, unseen>>,
         \A g \in Handlers : HandlerSettled(g),
         \A n \in Hosts : HostSettled(n)
  PROVE  LinkInv'
<1>1. TypeOK /\ PollInv /\ CallerInv
  BY DEF MInv, IInv
<1>2. ASSUME NEW i \in DOMAIN notifyChans, NEW n \in Hosts, NEW j, NEW k,
             k = nodes[i].key, Follows(n, k)'
      PROVE  Follows(n, k) /\ (Hears(n, k, j) => Hears(n, k, j)')
  <2>1. k \in Keys
    BY <1>1, <1>2, KeysOfRows DEF TypeOK
  <2>2. /\ host[n].byID \subseteq host'[n].byID
        /\ \A g \in Handlers : Dropped(g, n, "routine") =>
             /\ pc'[g] = "idle"
             /\ resp[g].status = "ok"
             /\ resp[g].peers \subseteq host'[n].byID
    BY <1>2 DEF HostSettled, Follows
  <2>3. Follows(n, k)
    <3>1. CASE host'[n].key = k /\ host'[n].routine # "off"
      <4>1. host[n].key = k /\ host'[n].key # ZeroKey
        BY <2>1, <3>1 DEF HostSettled
      <4>2. WasUp(n)
        BY <1>1, <1>2, <4>1 DEF PollInv
      <4>3. host[n].routine # "off"
        BY <3>1, <4>1, <4>2 DEF HostSettled
      <4>4. QED
        BY <4>1, <4>3 DEF Follows
    <3>2. ASSUME NEW g \in Handlers,
                 caller'[g] = <<n, "routine">>, req'[g].key = k
          PROVE  Follows(n, k)
      <4>1. caller'[g] # NoCaller
        BY <3>2
      <4>2. caller[g] = <<n, "routine">> /\ req[g].key = k
        BY <3>2, <4>1 DEF HandlerSettled
      <4>3. QED
        BY <4>2 DEF Follows
    <3>3. QED
      BY <1>2, <3>1, <3>2 DEF Follows
  <2>4. ASSUME NEW g \in Handlers,
               caller[g] = <<n, "routine">>, req[g].key = k, pc[g] = "done",
               resp[g].status # "ok" \/ j \in resp[g].peers
        PROVE  Hears(n, k, j)'
    <3>1. CASE Dropped(g, n, "routine")
      BY <2>2, <2>4, <3>1 DEF Hears
    <3>2. CASE ~Dropped(g, n, "routine")
      <4>1. caller'[g] = caller[g] /\ caller'[g] # NoCaller
        BY <2>4, <3>2 DEF Dropped, HandlerSettled
      <4>2. pc'[g] = pc[g] /\ req'[g] = req[g] /\ resp'[g] = resp[g]
        BY <4>1 DEF HandlerSettled
      <4>3. QED
        BY <2>4, <4>1, <4>2 DEF Hears
    <3>3. QED
      BY <3>1, <3>2
  <2>5. j \in host[n].byID => Hears(n, k, j)'
    BY <2>2 DEF Hears
  <2>6. QED
    BY <2>3, <2>4, <2>5 DEF Hears
<1>3. QED
  BY <1>2, LinksKept

LEMMA SettledStep ==
  ASSUME MInv, IInv', HostsTyped',
         UNCHANGED <<nodes, notifyChans, unseen, usedKeys>>,
         \A g \in Handlers : HandlerSettled(g),
         \A n \in Hosts : HostSettled(n)
  PROVE  MInv'
<1>1. TypeOK /\ HostsTyped /\ AnswerInv /\ CallerInv
  BY DEF MInv, IInv
<1>2. TableInv'
  BY DEF TableInv, HostSettled
<1>3. AnswerInv'
  <2>1. 0 \in 0..Len(nodes)
    BY <1>1 DEF TypeOK
  <2>2. ASSUME NEW g \in Handlers, pc'[g] = "idle", resp'[g] = NoResponse
        PROVE  /\ resp'[g].config \in 0..Len(nodes')
               /\ resp'[g].peers \subseteq Ids'
    BY <2>1, <2>2 DEF NoResponse
  <2>3. Ids' = Ids
    BY DEF Ids
  <2>4. QED
    BY <1>1, <2>2, <2>3 DEF AnswerInv, HandlerSettled
<1>4. CallerInv'
  <2>1. \A g \in Handlers : caller'[g] # NoCaller =>
          /\ caller'[g] = caller[g] /\ pc'[g] = pc[g] /\ req'[g] = req[g]
    BY DEF HandlerSettled
  <2>2. ASSUME NEW g \in Handlers, NEW n \in Hosts,
               NEW who \in {"api", "routine"}, caller'[g] = <<n, who>>
        PROVE  Waiting(g, n, who)'
    <3>1. /\ caller[g] = <<n, who>>
          /\ pc'[g] = pc[g] /\ req'[g] = req[g]
      BY <2>1, <2>2
    <3>2. Waiting(g, n, who)
      BY <1>1, <3>1 DEF CallerInv
    <3>3. /\ who = "api" => host'[n].api = host[n].api
          /\ who = "routine" => host'[n].routine = host[n].routine
      BY <2>2 DEF HostSettled
    <3>4. QED
      BY <3>1, <3>2, <3>3 DEF Waiting
  <2>3. QED
    BY <1>1, <2>1, <2>2 DEF CallerInv
<1>5. KeyInv' /\ PollInv' /\ LinkInv'
  BY SettledKeys, SettledPolls, SettledLinks
<1>6. QED
  BY <1>2, <1>3, <1>4, <1>5 DEF MInv

-----------------------------------------------------------------------------
(***************************************************************************)
(* A call begins: a handler that was idle, and that nobody waited for, has *)
(* a request, and refuses it at once when the key is zero.                 *)
(***************************************************************************)
LEMMA CallFrame ==
  ASSUME MInv, NEW h \in Handlers, NEW n, NEW who, NEW r, Call(n, who, h, r)
  PROVE  /\ pc[h] = "idle" /\ caller[h] = NoCaller
         /\ pc'[h] \in {"lookup", "done"} /\ req'[h] = r
         /\ caller'[h] = <<n, who>>
         /\ pc'[h] = "lookup" => resp'[h] = resp[h]
         /\ pc'[h] = "done" => resp'[h] = Failure("invalid")
         /\ \A g \in Handlers \ {h} :
              /\ pc'[g] = pc[g] /\ req'[g] = req[g]
              /\ resp'[g] = resp[g] /\ caller'[g] = caller[g]
         /\ UNCHANGED <<nodes, notifyChans, unseen, node>>
<1>1. TypeOK /\ HostsTyped
  BY DEF MInv, IInv
<1>2. QED
  BY <1>1 DEF TypeOK, HostsTyped, Call, Begin, Answer, dbVars, svcVars

LEMMA CallIInv ==
  ASSUME MInv, NEW h \in Handlers, NEW n, NEW who, NEW r \in Request,
         Call(n, who, h, r)
  PROVE  IInv'
<1>1. Next
  BY DEF Call, Next
<1>2. QED
  BY <1>1, NextIInv DEF MInv

LEMMA CallAnswers ==
  ASSUME MInv, NEW h \in Handlers, NEW n, NEW who, NEW r, Call(n, who, h, r)
  PROVE  AnswerInv'
<1>1. AnswerInv /\ TypeOK
  BY DEF MInv, IInv
<1>2. 0 \in 0..Len(nodes)
  BY <1>1 DEF TypeOK
<1>3. QED
  BY <1>1, <1>2, CallFrame DEF AnswerInv, Failure, Ids

\* Node.Login: with a key of its own or a fresh one, and for no other call.
LEMMA LoginStep ==
  ASSUME MInv, NEW n \in Hosts, NEW h \in Handlers, Login(n, h)
  PROVE  MInv'
<1> USE DEF MInv
<1>1. /\ IInv /\ TypeOK /\ HandlerInv /\ HostsTyped /\ TableInv /\ CallerInv
      /\ DrawnInv /\ RegisterInv /\ OneRowPerKey /\ PollInv
  BY DEF IInv, KeyInv
<1>2. PICK k \in IF host[n].key = ZeroKey THEN Keys \ usedKeys
                 ELSE {host[n].key} :
        /\ Call(n, "api", h, [op |-> "login", key |-> k])
        /\ host' = [host EXCEPT ![n].api = "login", ![n].key = k]
        /\ usedKeys' = usedKeys \cup {k}
  BY DEF Login
<1> DEFINE r == [op |-> "login", key |-> k]
<1>3. /\ k \in Keys /\ r \in Request
      /\ host[n].api = "idle" /\ faults' = faults
      /\ k \notin usedKeys \/ host[n].key = k
  BY <1>1, <1>2 DEF HostsTyped, NodeState, Login, Request
<1>4. /\ host' \in [Hosts -> NodeState]
      /\ host'[n].key = k /\ host'[n].api = "login"
      /\ \A m \in Hosts \ {n} : host'[m] = host[m]
      /\ \A m \in Hosts :
           /\ host'[m].up = host[m].up /\ host'[m].routine = host[m].routine
           /\ host'[m].byID = host[m].byID /\ host'[m].byIP = host[m].byIP
           /\ host'[m].config = host[m].config
           /\ host'[m].nodeID = host[m].nodeID
  <2> DEFINE q == [host[n] EXCEPT !.api = "login", !.key = k]
  <2>1. host[n] \in NodeState
    BY <1>1 DEF HostsTyped
  <2>2. /\ q \in NodeState /\ q.key = k /\ q.api = "login"
        /\ q.up = host[n].up /\ q.routine = host[n].routine
        /\ q.byID = host[n].byID /\ q.byIP = host[n].byIP
        /\ q.config = host[n].config /\ q.nodeID = host[n].nodeID
    BY <1>3, <2>1 DEF NodeState
  <2>3. host' = [host EXCEPT ![n] = q]
    BY <1>2
  <2> HIDE DEF q
  <2>4. QED
    BY <1>1, <2>2, <2>3 DEF HostsTyped
<1>5. /\ pc[h] = "idle" /\ caller[h] = NoCaller
      /\ pc'[h] \in {"lookup", "done"} /\ req'[h] = r
      /\ caller'[h] = <<n, "api">>
      /\ \A g \in Handlers \ {h} :
           /\ pc'[g] = pc[g] /\ req'[g] = req[g]
           /\ resp'[g] = resp[g] /\ caller'[g] = caller[g]
      /\ UNCHANGED <<nodes, notifyChans, unseen, node>>
  BY <1>2, CallFrame
<1>6. IInv' /\ AnswerInv'
  BY <1>2, <1>3, CallIInv, CallAnswers
<1>7. HostsTyped'
  <2>1. caller' \in [Handlers -> Hosts \X {"api", "routine"} \cup {NoCaller}]
    BY <1>1, <1>2 DEF HostsTyped, Call
  <2>2. QED
    BY <1>1, <1>2, <1>3, <1>4, <2>1 DEF HostsTyped
<1>8. TableInv'
  BY <1>1, <1>4, <1>5 DEF TableInv, TableOK, Ids
<1>9. \A g \in Handlers : caller[g] # <<n, "api">>
  <2>1. \A g \in Handlers : req[g].op # "idle"
    BY <1>1 DEF TypeOK, Request
  <2>2. QED
    BY <1>1, <1>3, <2>1 DEF CallerInv, Waiting
<1>10. CallerInv'
  <2>1. ASSUME NEW g \in Handlers, NEW m \in Hosts,
               NEW who \in {"api", "routine"}, caller'[g] = <<m, who>>
        PROVE  Waiting(g, m, who)'
    <3>1. CASE g = h
      BY <1>4, <1>5, <2>1, <3>1 DEF Waiting
    <3>2. CASE g # h
      BY <1>1, <1>4, <1>5, <1>9, <2>1, <3>2 DEF CallerInv, Waiting
    <3>3. QED
      BY <3>1, <3>2
  <2>2. \A g, f \in Handlers :
          caller'[g] = caller'[f] /\ caller'[g] # NoCaller => g = f
    BY <1>1, <1>5, <1>9 DEF CallerInv
  <2>3. QED
    BY <2>1, <2>2 DEF CallerInv
<1>11. \A g \in Handlers : req[g].key = k => host[n].key = k
  BY <1>1, <1>3 DEF DrawnInv
<1>12. \A g \in Handlers : Registers(g) => req[g].key # k
  BY <1>1, <1>9, <1>11 DEF RegisterInv
<1>13. \A m \in Hosts : host'[m].key = k => m = n
  BY <1>1, <1>3, <1>4 DEF DrawnInv
<1>14. KeyInv'
  <2>1. Ids' = Ids
    BY <1>5 DEF Ids
  <2>2. DrawnInv'
    <3>1. \A i \in Ids' : nodes'[i].key \in usedKeys'
      BY <1>1, <1>2, <1>5, <2>1 DEF DrawnInv
    <3>2. \A g \in Handlers : req'[g].key \in usedKeys' \cup {ZeroKey}
      BY <1>1, <1>2, <1>5 DEF DrawnInv
    <3>3. \A m \in Hosts : host'[m].key \in usedKeys' \cup {ZeroKey}
      BY <1>1, <1>2, <1>4 DEF DrawnInv
    <3>4. \A m, l \in Hosts :
            host'[m].key = host'[l].key /\ host'[m].key # ZeroKey => m = l
      BY <1>1, <1>4, <1>13 DEF DrawnInv
    <3>5. QED
      BY <3>1, <3>2, <3>3, <3>4 DEF DrawnInv
  <2>3. RegisterInv'
    <3>1. \A g \in Handlers \ {h} : Registers(g)' => Registers(g)
      BY <1>5 DEF Registers
    <3>2. \A g, f \in Handlers :
            Registers(g)' /\ Registers(f)' /\ req'[g].key = req'[f].key
              => g = f
      BY <1>1, <1>5, <1>12, <3>1 DEF RegisterInv
    <3>3. \A g \in Handlers, m \in Hosts :
            Registers(g)' /\ host'[m].key = req'[g].key =>
              caller'[g] = <<m, "api">>
      BY <1>1, <1>4, <1>5, <1>12, <1>13, <3>1 DEF RegisterInv
    <3>4. \A g \in Handlers, i \in Ids' :
            pc'[g] \in {"register", "insert"} =>
              nodes'[i].key # req'[g].key
      BY <1>1, <1>5, <2>1 DEF RegisterInv
    <3>5. QED
      BY <3>2, <3>3, <3>4 DEF RegisterInv
  <2>4. OneRowPerKey'
    BY <1>1, <1>5, <2>1 DEF OneRowPerKey
  <2>5. QED
    BY <2>2, <2>3, <2>4 DEF KeyInv
<1>15. \A i \in DOMAIN notifyChans, m \in Hosts :
         host'[m].key = nodes[i].key => host[m].key = nodes[i].key
  BY <1>1, <1>3, <1>4 DEF DrawnInv, TypeOK
<1>16. \A m \in Hosts : WasUp(m) => WasUp(m)'
  BY <1>4 DEF WasUp
<1>17. PollInv'
  <2>1. \A g \in Handlers : Polls(g)' => Polls(g) /\ g # h
    BY <1>5 DEF Polls
  <2>2. \A g \in Handlers, m \in Hosts :
          Polls(g)' /\ host'[m].key = req'[g].key =>
            /\ WasUp(m)'
            /\ host'[m].routine # "off" => caller'[g] = <<m, "routine">>
    <3>1. ASSUME NEW g \in Handlers, NEW m \in Hosts,
                 Polls(g)', host'[m].key = req'[g].key
          PROVE  host[m].key = req[g].key
      BY <1>4, <1>5, <1>11, <2>1, <3>1
    <3>2. QED
      BY <1>1, <1>4, <1>5, <1>16, <2>1, <3>1 DEF PollInv
  <2>3. \A g \in Handlers :
          pc'[g] \in {"chan", "wait", "peers"} =>
            nodes'[node'[g]].key = req'[g].key
    BY <1>1, <1>5 DEF PollInv
  <2>4. \A g, f \in Handlers :
          /\ Polls(g)' /\ Polls(f)' /\ req'[g].key = req'[f].key
          /\ caller'[f] # NoCaller
          => g = f
    BY <1>1, <1>5, <2>1 DEF PollInv
  <2>5. \A i \in DOMAIN notifyChans', m \in Hosts :
          host'[m].key = nodes'[i].key => WasUp(m)'
    BY <1>1, <1>5, <1>15, <1>16 DEF PollInv
  <2>6. QED
    BY <2>2, <2>3, <2>4, <2>5 DEF PollInv
<1>18. LinkInv'
  <2>1. ASSUME NEW i \in DOMAIN notifyChans, NEW m \in Hosts, NEW j, NEW kk,
               kk = nodes[i].key, Follows(m, kk)'
        PROVE  Follows(m, kk) /\ (Hears(m, kk, j) => Hears(m, kk, j)')
    <3>1. \A g \in Handlers : caller'[g] = <<m, "routine">> =>
            caller[g] = <<m, "routine">> /\ req'[g] = req[g]
      BY <1>5
    <3>2. Follows(m, kk)
      BY <1>4, <1>15, <2>1, <3>1 DEF Follows
    <3>3. ASSUME NEW g \in Handlers, caller[g] = <<m, "routine">>
          PROVE  /\ caller'[g] = caller[g] /\ req'[g] = req[g]
                 /\ pc'[g] = pc[g] /\ resp'[g] = resp[g]
      <4>1. caller[g] # NoCaller
        BY <3>3
      <4>2. QED
        BY <1>5, <4>1
    <3>4. Hears(m, kk, j) => Hears(m, kk, j)'
      BY <1>4, <3>3 DEF Hears
    <3>5. QED
      BY <3>2, <3>4
  <2>2. QED
    BY <1>5, <2>1, LinksKept
<1>19. QED
  BY <1>6, <1>7, <1>8, <1>10, <1>14, <1>17, <1>18

(***************************************************************************)
(* Up's call and the update routine's, with the key the host has.  A host  *)
(* whose routine is at its check waits for no poll, so no other handler    *)
(* polls for its key.                                                      *)
(***************************************************************************)
LEMMA AskStep ==
  ASSUME MInv, NEW n \in Hosts, NEW h \in Handlers,
         NEW who \in {"api", "routine"}, NEW r \in Request,
         Call(n, who, h, r), r.key = host[n].key,
         UNCHANGED <<usedKeys, faults>>,
         host' \in [Hosts -> NodeState],
         \A m \in Hosts \ {n} : host'[m] = host[m],
         /\ host'[n].key = host[n].key
         /\ host'[n].up = host[n].up
         /\ host'[n].byID = host[n].byID /\ host'[n].byIP = host[n].byIP
         /\ host'[n].config = host[n].config
         /\ host'[n].nodeID = host[n].nodeID,
         \/ /\ who = "api" /\ r.op = "sync"
            /\ host[n].api = "idle" /\ host'[n].api = "sync"
            /\ host'[n].routine = host[n].routine
         \/ /\ who = "routine" /\ r.op = "poll"
            /\ host[n].routine = "check" /\ host'[n].routine = "poll"
            /\ host'[n].api = host[n].api
  PROVE  MInv'
<1> USE DEF MInv
<1>1. /\ IInv /\ TypeOK /\ HandlerInv /\ HostsTyped /\ TableInv /\ CallerInv
      /\ DrawnInv /\ RegisterInv /\ OneRowPerKey /\ PollInv
  BY DEF IInv, KeyInv
<1>2. /\ pc[h] = "idle" /\ caller[h] = NoCaller
      /\ pc'[h] \in {"lookup", "done"} /\ req'[h] = r
      /\ caller'[h] = <<n, who>>
      /\ \A g \in Handlers \ {h} :
           /\ pc'[g] = pc[g] /\ req'[g] = req[g]
           /\ resp'[g] = resp[g] /\ caller'[g] = caller[g]
      /\ UNCHANGED <<nodes, notifyChans, unseen, node>>
  BY CallFrame
<1>3. IInv' /\ AnswerInv' /\ Ids' = Ids
  BY <1>2, CallIInv, CallAnswers DEF Ids
<1>4. HostsTyped'
  <2>1. caller' \in [Handlers -> Hosts \X {"api", "routine"} \cup {NoCaller}]
    BY <1>1 DEF HostsTyped, Call
  <2>2. QED
    BY <1>1, <2>1 DEF HostsTyped
<1>5. TableInv'
  <2>1. TableOK(n)'
    BY <1>1, <1>2, <1>3 DEF TableInv, TableOK
  <2>2. \A m \in Hosts \ {n} : TableOK(m)'
    BY <1>1, <1>2, <1>3 DEF TableInv, TableOK
  <2>3. QED
    BY <2>1, <2>2 DEF TableInv
<1>6. \A g \in Handlers : caller[g] # <<n, who>>
  <2>1. \A g \in Handlers : req[g].op # "idle"
    BY <1>1 DEF TypeOK, Request
  <2>2. ASSUME NEW g \in Handlers, caller[g] = <<n, who>> PROVE FALSE
    <3>1. Waiting(g, n, who)
      BY <1>1, <2>2 DEF CallerInv
    <3>2. QED
      BY <2>1, <3>1 DEF Waiting
  <2>3. QED
    BY <2>2
<1>7. CallerInv'
  <2>1. ASSUME NEW g \in Handlers, NEW m \in Hosts,
               NEW w \in {"api", "routine"}, caller'[g] = <<m, w>>
        PROVE  Waiting(g, m, w)'
    <3>1. CASE g = h
      BY <1>2, <2>1, <3>1 DEF Waiting
    <3>2. CASE g # h
      BY <1>1, <1>2, <1>6, <2>1, <3>2 DEF CallerInv, Waiting
    <3>3. QED
      BY <3>1, <3>2
  <2>2. \A g, f \in Handlers :
          caller'[g] = caller'[f] /\ caller'[g] # NoCaller => g = f
    BY <1>1, <1>2, <1>6 DEF CallerInv
  <2>3. QED
    BY <2>1, <2>2 DEF CallerInv
<1>8. \A m \in Hosts : host'[m].key = host[m].key
  OBVIOUS
<1>9. KeyInv'
  <2>1. DrawnInv'
    BY <1>1, <1>2, <1>3, <1>8 DEF DrawnInv
  <2>2. \A g \in Handlers : Registers(g)' => Registers(g) /\ g # h
    BY <1>2 DEF Registers
  <2>3. RegisterInv'
    BY <1>1, <1>2, <1>3, <1>8, <2>2 DEF RegisterInv
  <2>4. OneRowPerKey'
    BY <1>1, <1>2, <1>3 DEF OneRowPerKey
  <2>5. QED
    BY <2>1, <2>3, <2>4 DEF KeyInv
<1>10. \A m \in Hosts : /\ WasUp(m) => WasUp(m)'
                        /\ host'[m].routine = "off" <=> host[m].routine = "off"
  BY DEF WasUp
<1>11. who = "routine" => WasUp(n)
  BY <1>1 DEF TableInv, TableOK, WasUp
<1>12. ASSUME NEW g \in Handlers \ {h}, Polls(g), who = "routine",
              req[g].key = r.key
       PROVE  FALSE
  <2>1. caller[g] = <<n, "routine">>
    BY <1>1, <1>12 DEF PollInv
  <2>2. QED
    BY <1>6, <1>12, <2>1
<1>13. PollInv'
  <2>1. \A g \in Handlers : Polls(g)' => Polls(g) \/ (g = h /\ who = "routine")
    BY <1>2 DEF Polls
  <2>2. ASSUME NEW g \in Handlers, NEW m \in Hosts,
               Polls(g)', host'[m].key = req'[g].key
        PROVE  /\ WasUp(m)'
               /\ host'[m].routine # "off" => caller'[g] = <<m, "routine">>
    <3>1. CASE g = h
      <4>1. who = "routine" /\ host[m].key = host[n].key
              /\ host[n].key # ZeroKey
        BY <1>2, <1>8, <2>2, <3>1 DEF Polls
      <4>2. m = n
        BY <1>1, <4>1 DEF DrawnInv
      <4>3. QED
        BY <1>2, <1>10, <1>11, <3>1, <4>1, <4>2
    <3>2. CASE g # h
      BY <1>1, <1>2, <1>8, <1>10, <2>1, <2>2, <3>2 DEF PollInv
    <3>3. QED
      BY <3>1, <3>2
  <2>3. \A g \in Handlers :
          pc'[g] \in {"chan", "wait", "peers"} =>
            nodes'[node'[g]].key = req'[g].key
    BY <1>1, <1>2 DEF PollInv
  <2>4. ASSUME NEW g \in Handlers, NEW f \in Handlers,
               Polls(g)', Polls(f)', req'[g].key = req'[f].key,
               caller'[f] # NoCaller
        PROVE  g = f
    <3>1. CASE g # h /\ f # h
      BY <1>1, <1>2, <2>1, <2>4, <3>1 DEF PollInv
    <3>2. CASE g = h \/ f = h
      BY <1>2, <1>12, <2>1, <2>4, <3>2 DEF Polls
    <3>3. QED
      BY <3>1, <3>2
  <2>5. \A i \in DOMAIN notifyChans', m \in Hosts :
          host'[m].key = nodes'[i].key => WasUp(m)'
    BY <1>1, <1>2, <1>8, <1>10 DEF PollInv
  <2>6. QED
    BY <2>2, <2>3, <2>4, <2>5 DEF PollInv
<1>14. LinkInv'
  <2>1. ASSUME NEW i \in DOMAIN notifyChans, NEW m \in Hosts, NEW j, NEW k,
               k = nodes[i].key, Follows(m, k)'
        PROVE  Follows(m, k) /\ (Hears(m, k, j) => Hears(m, k, j)')
    <3>1. Follows(m, k)
      <4>1. CASE host'[m].key = k /\ host'[m].routine # "off"
        BY <1>8, <1>10, <4>1 DEF Follows
      <4>2. ASSUME NEW g \in Handlers,
                   caller'[g] = <<m, "routine">>, req'[g].key = k
            PROVE  Follows(m, k)
        BY <1>2, <4>2 DEF Follows
      <4>3. QED
        BY <2>1, <4>1, <4>2 DEF Follows
    <3>2. ASSUME NEW g \in Handlers, caller[g] = <<m, "routine">>
          PROVE  /\ caller'[g] = caller[g] /\ req'[g] = req[g]
                 /\ pc'[g] = pc[g] /\ resp'[g] = resp[g]
      <4>1. caller[g] # NoCaller
        BY <3>2
      <4>2. QED
        BY <1>2, <4>1
    <3>3. host'[m].byID = host[m].byID
      OBVIOUS
    <3>4. Hears(m, k, j) => Hears(m, k, j)'
      BY <3>2, <3>3 DEF Hears
    <3>5. QED
      BY <3>1, <3>4
  <2>2. QED
    BY <1>2, <2>1, LinksKept
<1>15. QED
  BY <1>3, <1>4, <1>5, <1>7, <1>9, <1>13, <1>14

LEMMA UpStep ==
  ASSUME MInv, NEW n \in Hosts, NEW h \in Handlers, Up(n, h)
  PROVE  MInv'
<1> DEFINE q == [host[n] EXCEPT !.api = "sync"]
           r == [op |-> "sync", key |-> host[n].key]
<1>1. host \in [Hosts -> NodeState] /\ host[n] \in NodeState
  BY DEF MInv, HostsTyped
<1>2. r \in Request /\ r.op = "sync" /\ r.key = host[n].key
  BY <1>1 DEF NodeState, Request
<1>3. /\ q \in NodeState /\ q.key = host[n].key /\ q.up = host[n].up
      /\ q.byID = host[n].byID /\ q.byIP = host[n].byIP
      /\ q.config = host[n].config /\ q.nodeID = host[n].nodeID
      /\ q.api = "sync" /\ q.routine = host[n].routine
  BY <1>1 DEF NodeState
<1>4. /\ host' = [host EXCEPT ![n] = q] /\ host[n].api = "idle"
      /\ Call(n, "api", h, r) /\ UNCHANGED <<usedKeys, faults>>
  BY DEF Up
<1> HIDE DEF q, r
<1>5. /\ host' \in [Hosts -> NodeState] /\ host'[n] = q
      /\ \A m \in Hosts \ {n} : host'[m] = host[m]
  BY <1>1, <1>3, <1>4
<1>6. QED
  BY <1>2, <1>3, <1>4, <1>5, AskStep

LEMMA PollStep ==
  ASSUME MInv, NEW n \in Hosts, NEW h \in Handlers, Poll(n, h)
  PROVE  MInv'
<1> DEFINE q == [host[n] EXCEPT !.routine = "poll"]
           r == [op |-> "poll", key |-> host[n].key]
<1>1. host \in [Hosts -> NodeState] /\ host[n] \in NodeState
  BY DEF MInv, HostsTyped
<1>2. r \in Request /\ r.op = "poll" /\ r.key = host[n].key
  BY <1>1 DEF NodeState, Request
<1>3. /\ q \in NodeState /\ q.key = host[n].key /\ q.up = host[n].up
      /\ q.byID = host[n].byID /\ q.byIP = host[n].byIP
      /\ q.config = host[n].config /\ q.nodeID = host[n].nodeID
      /\ q.routine = "poll" /\ q.api = host[n].api
  BY <1>1 DEF NodeState
<1>4. /\ host' = [host EXCEPT ![n] = q] /\ host[n].routine = "check"
      /\ Call(n, "routine", h, r) /\ UNCHANGED <<usedKeys, faults>>
  BY DEF Poll
<1> HIDE DEF q, r
<1>5. /\ host' \in [Hosts -> NodeState] /\ host'[n] = q
      /\ \A m \in Hosts \ {n} : host'[m] = host[m]
  BY <1>1, <1>3, <1>4
<1>6. QED
  BY <1>2, <1>3, <1>4, <1>5, AskStep

-----------------------------------------------------------------------------
(***************************************************************************)
(* The other steps of the hosts settle, one host at a time.                *)
(***************************************************************************)
LEMMA OneHostSettles ==
  ASSUME MInv, IInv', NEW n \in Hosts, NEW q \in NodeState,
         host' = [host EXCEPT ![n] = q],
         UNCHANGED <<nodes, notifyChans, unseen, usedKeys>>,
         faults' \in 0..MaxFaults,
         caller' \in [Handlers -> Hosts \X {"api", "routine"} \cup {NoCaller}],
         \A g \in Handlers : HandlerSettled(g),
         \A g \in Handlers, m \in Hosts \ {n}, who \in {"api", "routine"} :
           ~Dropped(g, m, who),
         host'[n] = q => HostSettled(n)
  PROVE  MInv'
<1>1. HostsTyped /\ TableInv
  BY DEF MInv
<1>2. host'[n] = q /\ \A m \in Hosts \ {n} : host'[m] = host[m]
  BY <1>1 DEF HostsTyped
<1>3. HostsTyped'
  BY <1>1 DEF HostsTyped
<1>4. ASSUME NEW m \in Hosts \ {n} PROVE HostSettled(m)
  <2>1. host'[m] = host[m] /\ TableOK(m)
    BY <1>1, <1>2 DEF TableInv
  <2>2. TableOK(m)'
    BY <2>1 DEF TableOK, Ids
  <2>3. WasUp(m)' <=> WasUp(m)
    BY <2>1 DEF WasUp
  <2>4. \A g \in Handlers :
          ~Dropped(g, m, "api") /\ ~Dropped(g, m, "routine")
    OBVIOUS
  <2>5. QED
    BY <2>1, <2>2, <2>3, <2>4 DEF HostSettled
<1>5. \A m \in Hosts : HostSettled(m)
  BY <1>2, <1>4
<1>6. QED
  BY <1>3, <1>5, SettledStep

\* The server and the calls stay as they are.
LEMMA ServerIdle ==
  ASSUME MInv, UNCHANGED vars
  PROVE  IInv' /\ UNCHANGED <<nodes, notifyChans, unseen, pc, req, node, resp>>
BY NextIInv DEF MInv, vars

LEMMA StaySettled ==
  ASSUME UNCHANGED <<vars, caller>>
  PROVE  /\ \A g \in Handlers : HandlerSettled(g)
         /\ \A g \in Handlers, m \in Hosts, who \in {"api", "routine"} :
              ~Dropped(g, m, who)
BY DEF HandlerSettled, Dropped, vars

LEMMA AloneStep ==
  ASSUME MInv, NEW n \in Hosts,
         \/ StartUpdateRoutine(n) \/ Down(n) \/ RoutineStops(n)
         \/ HealthFails(n)
  PROVE  MInv'
<1>1. HostsTyped /\ TableOK(n) /\ CallerInv /\ TypeOK
  BY DEF MInv, IInv, TableInv
<1>2. IInv' /\ UNCHANGED <<nodes, notifyChans, unseen, pc, req, caller,
                           usedKeys, vars>>
  BY ServerIdle DEF StartUpdateRoutine, Down, RoutineStops, HealthFails
<1>3. /\ \A g \in Handlers : HandlerSettled(g)
      /\ \A g \in Handlers, m \in Hosts, who \in {"api", "routine"} :
           ~Dropped(g, m, who)
  BY <1>2, StaySettled
<1>4. /\ faults' \in 0..MaxFaults
      /\ caller' \in [Handlers -> Hosts \X {"api", "routine"}
                                    \cup {NoCaller}]
  BY <1>1, <1>2 DEF HostsTyped, StartUpdateRoutine, Down, RoutineStops,
     HealthFails, Fault
<1>5. host[n] \in NodeState
  BY <1>1 DEF HostsTyped
<1> DEFINE Alone(q) ==
             /\ q \in NodeState /\ q.key = host[n].key /\ q.up = host[n].up
             /\ q.byID = host[n].byID /\ q.byIP = host[n].byIP
             /\ q.config = host[n].config /\ q.nodeID = host[n].nodeID
             /\ \/ q.api = host[n].api /\ q.routine = host[n].routine
                \/ /\ host[n].api = "health" /\ q.api = "idle"
                   /\ q.routine \in {host[n].routine, "check"}
                \/ /\ q.api = host[n].api
                   /\ host[n].routine = "check" /\ q.routine = "off"
<1>6. \E q : host' = [host EXCEPT ![n] = q] /\ Alone(q)
  <2>1. CASE StartUpdateRoutine(n)
    <3> DEFINE q == [host[n] EXCEPT !.routine = "check", !.running = TRUE,
                                    !.api = "idle"]
    <3>1. host' = [host EXCEPT ![n] = q] /\ host[n].api = "health"
      BY <2>1 DEF StartUpdateRoutine
    <3>2. Alone(q)
      BY <1>5, <3>1 DEF NodeState
    <3>3. QED
      BY <3>1, <3>2
  <2>2. CASE Down(n)
    <3> DEFINE q == [host[n] EXCEPT !.running = FALSE, !.ctx = "cancelled"]
    <3>1. host' = [host EXCEPT ![n] = q]
      BY <2>2 DEF Down
    <3>2. Alone(q)
      BY <1>5 DEF NodeState
    <3>3. QED
      BY <3>1, <3>2
  <2>3. CASE RoutineStops(n)
    <3> DEFINE q == [host[n] EXCEPT !.routine = "off"]
    <3>1. host' = [host EXCEPT ![n] = q] /\ host[n].routine = "check"
      BY <2>3 DEF RoutineStops, RoutineEnded
    <3>2. Alone(q)
      BY <1>5, <3>1 DEF NodeState
    <3>3. QED
      BY <3>1, <3>2
  <2>4. CASE HealthFails(n)
    <3> DEFINE q == [host[n] EXCEPT !.api = "idle"]
    <3>1. host' = [host EXCEPT ![n] = q] /\ host[n].api = "health"
      BY <2>4 DEF HealthFails, UpFailed
    <3>2. Alone(q)
      BY <1>5, <3>1 DEF NodeState
    <3>3. QED
      BY <3>1, <3>2
  <2>5. QED
    BY <2>1, <2>2, <2>3, <2>4
<1>7. PICK q : host' = [host EXCEPT ![n] = q] /\ Alone(q)
  BY <1>6
<1>8. \A g \in Handlers :
        /\ caller'[g] = <<n, "api">> => host[n].api # "health"
        /\ caller'[g] = <<n, "routine">> => host[n].routine = "poll"
  <2>1. \A g \in Handlers : req[g].op # "health"
    BY <1>1 DEF TypeOK, Request
  <2>2. QED
    BY <1>1, <1>2, <2>1 DEF CallerInv, Waiting
<1>9. ASSUME host'[n] = q PROVE HostSettled(n)
  <2>1. TableOK(n)'
    BY <1>1, <1>2, <1>7, <1>9 DEF TableOK, Ids
  <2>2. WasUp(n) => WasUp(n)'
    BY <1>7, <1>9 DEF WasUp
  <2>3. q.routine = "off" \/ host[n].routine # "off" \/ ~WasUp(n)
    BY <1>7 DEF WasUp
  <2>4. \A g \in Handlers :
          /\ caller'[g] = <<n, "api">> => q.api = host[n].api
          /\ caller'[g] = <<n, "routine">> => q.routine = host[n].routine
    <3>1. \A g \in Handlers : caller'[g] = <<n, "routine">> =>
            host[n].routine = "poll" /\ host[n].api # "health"
      BY <1>1, <1>8 DEF TableOK
    <3>2. QED
      BY <1>7, <1>8, <3>1
  <2>5. QED
    BY <1>3, <1>7, <1>9, <2>1, <2>2, <2>3, <2>4 DEF HostSettled
<1>10. QED
  BY <1>2, <1>3, <1>4, <1>7, <1>9, OneHostSettles

\* Nothing of the hosts changes: a key expires, or no step is taken.
LEMMA QuietStep ==
  ASSUME MInv, IInv', faults' \in 0..MaxFaults,
         UNCHANGED <<nodes, notifyChans, unseen, pc, req, node, resp,
                     host, caller, usedKeys>>
  PROVE  MInv'
<1>1. HostsTyped /\ TableInv
  BY DEF MInv
<1>2. HostsTyped'
  BY <1>1 DEF HostsTyped
<1>3. \A g \in Handlers : HandlerSettled(g)
  BY DEF HandlerSettled
<1>4. ASSUME NEW n \in Hosts PROVE HostSettled(n)
  <2>1. TableOK(n)'
    BY <1>1 DEF TableInv, TableOK, Ids
  <2>2. WasUp(n)' <=> WasUp(n)
    BY DEF WasUp
  <2>3. \A g \in Handlers :
          ~Dropped(g, n, "api") /\ ~Dropped(g, n, "routine")
    BY DEF Dropped
  <2>4. QED
    BY <2>1, <2>2, <2>3 DEF HostSettled
<1>5. QED
  BY <1>2, <1>3, <1>4, SettledStep

-----------------------------------------------------------------------------
(***************************************************************************)
(* A call returns.  The handler ends, its caller waits for no other, and   *)
(* the host has what the answer tells it.                                  *)
(***************************************************************************)
LEMMA FinishFrame ==
  ASSUME MInv, NEW h \in Handlers, Finish(h)
  PROVE  /\ IInv' /\ UNCHANGED <<nodes, notifyChans, unseen>>
         /\ pc[h] = "done" /\ pc'[h] = "idle" /\ req'[h] = NoRequest
         /\ resp'[h] = NoResponse
         /\ \A g \in Handlers \ {h} :
              /\ pc'[g] = pc[g] /\ req'[g] = req[g]
              /\ node'[g] = node[g] /\ resp'[g] = resp[g]
<1>1. TypeOK
  BY DEF MInv, IInv
<1>2. IInv'
  BY NextIInv DEF MInv, Next
<1>3. QED
  BY <1>1, <1>2 DEF TypeOK, Finish, dbVars, svcVars

Learns(n, h, who, q) ==
  LET p == host[n]
  IN /\ q \in NodeState
     /\ q.key \in {p.key, ZeroKey}
     /\ {q.nodeID, q.config} \subseteq 0..Len(nodes)
     /\ p.byID \subseteq q.byID /\ q.byID \subseteq Ids
     /\ q.byIP = [i \in q.byID |-> i]
     /\ p.up => q.up
     /\ q.up => q.config \in Ids
     /\ who = "api" =>
          /\ q.routine = p.routine
          /\ q.api = "idle" \/ (q.api = "health" /\ q.up /\ ~p.up)
     /\ who = "routine" =>
          /\ q.api = p.api
          /\ \/ q.routine = "off"
             \/ /\ q.routine = "check" /\ resp[h].status = "ok"
                /\ resp[h].peers \subseteq q.byID

LEMMA ReturnSettles ==
  ASSUME MInv, NEW n \in Hosts, NEW h \in Handlers,
         NEW who \in {"api", "routine"}, NEW q,
         caller[h] = <<n, who>>, Finish(h),
         caller' = [caller EXCEPT ![h] = NoCaller],
         host' = [host EXCEPT ![n] = q], Learns(n, h, who, q),
         usedKeys' = usedKeys, faults' \in 0..MaxFaults
  PROVE  MInv'
<1>1. HostsTyped /\ CallerInv /\ TableOK(n)
  BY DEF MInv, TableInv
<1>2. IInv' /\ UNCHANGED <<nodes, notifyChans, unseen>>
  BY FinishFrame
<1>3. /\ caller' \in [Handlers -> Hosts \X {"api", "routine"}
                                    \cup {NoCaller}]
      /\ caller'[h] = NoCaller
      /\ \A g \in Handlers \ {h} : caller'[g] = caller[g]
  BY <1>1 DEF HostsTyped
<1>4. \A g \in Handlers : HandlerSettled(g)
  BY <1>3, FinishFrame DEF HandlerSettled
<1>5. \A g \in Handlers, m \in Hosts, w \in {"api", "routine"} :
        Dropped(g, m, w) => g = h /\ m = n /\ w = who
  <2>1. ASSUME NEW g \in Handlers, NEW m \in Hosts, NEW w, Dropped(g, m, w),
               w \in {"api", "routine"}
        PROVE  g = h /\ m = n /\ w = who
    <3>1. caller[g] = <<m, w>> /\ caller'[g] = NoCaller
      BY <2>1 DEF Dropped
    <3>2. caller[g] # NoCaller
      BY <2>1, <3>1
    <3>3. g = h
      BY <1>3, <3>1, <3>2
    <3>4. QED
      BY <3>1, <3>3
  <2>2. QED
    BY <2>1
<1>6. Waiting(h, n, who)
  BY <1>1 DEF CallerInv
<1>7. ASSUME host'[n] = q PROVE HostSettled(n)
  <2>1. TableOK(n)'
    BY <1>1, <1>2, <1>6, <1>7 DEF TableOK, Learns, Waiting, Ids
  <2>2. WasUp(n) => WasUp(n)'
    BY <1>7 DEF WasUp, Learns
  <2>3. q.routine = "off" \/ host[n].routine # "off"
    BY <1>6 DEF Learns, Waiting
  <2>4. \A g \in Handlers : caller'[g] # <<n, who>>
    <3>1. <<n, who>> # NoCaller
      OBVIOUS
    <3>2. QED
      BY <1>1, <1>3, <3>1 DEF CallerInv
  <2>5. \A g \in Handlers :
          /\ caller'[g] = <<n, "api">> => q.api = host[n].api
          /\ caller'[g] = <<n, "routine">> => q.routine = host[n].routine
    BY <2>4 DEF Learns
  <2>6. \A g \in Handlers : Dropped(g, n, "api") => ~Registers(g)'
    BY <1>5, FinishFrame DEF Registers
  <2>7. \/ /\ q.routine = "off"
           /\ \A g \in Handlers : caller'[g] # <<n, "routine">>
        \/ /\ host[n].byID \subseteq q.byID
           /\ \A g \in Handlers : Dropped(g, n, "routine") =>
                /\ pc'[g] = "idle"
                /\ resp[g].status = "ok"
                /\ resp[g].peers \subseteq q.byID
    BY <1>5, <2>4, FinishFrame DEF Learns
  <2>8. q.key \in {host[n].key, ZeroKey}
    BY DEF Learns
  <2>9. QED
    BY <1>7, <2>1, <2>2, <2>3, <2>5, <2>6, <2>7, <2>8 DEF HostSettled
<1>8. q \in NodeState
  BY DEF Learns
<1>9. \A g \in Handlers, m \in Hosts \ {n}, w \in {"api", "routine"} :
        ~Dropped(g, m, w)
  BY <1>5
<1>10. QED
  BY <1>2, <1>3, <1>4, <1>7, <1>8, <1>9, OneHostSettles

(***************************************************************************)
(* ProcessPeerUpdate adds the peers it is given to both tables, an address *)
(* for each since an address is that of one row.                           *)
(***************************************************************************)
LEMMA PeersAdded ==
  ASSUME MInv, NEW p \in NodeState, NEW ps \in SUBSET Ids,
         p.byID \subseteq Ids, p.byIP = [i \in p.byID |-> i]
  PROVE  LET q == ProcessPeerUpdate(p, ps)
         IN /\ q \in NodeState
            /\ q.byID = p.byID \cup ps
            /\ q.byIP = [i \in q.byID |-> i]
            /\ q.key = p.key /\ q.api = p.api /\ q.up = p.up
            /\ q.nodeID = p.nodeID /\ q.config = p.config
            /\ q.routine = p.routine
<1>1. AddressInv /\ Ids \subseteq Nat
  BY DEF MInv, IInv, Ids
<1> DEFINE new == ps \ p.byID
           ips == {nodes[i].ip : i \in new}
           table == [a \in DOMAIN p.byIP \cup ips |->
                       IF a \in ips
                       THEN CHOOSE i \in new : nodes[i].ip = a
                       ELSE p.byIP[a]]
<1>2. ips = new
  <2>1. \A i \in new : nodes[i].ip = i
    BY <1>1 DEF AddressInv
  <2>2. QED
    BY <2>1
<1>3. \A a \in new : (CHOOSE i \in new : nodes[i].ip = a) = a
  BY <1>1 DEF AddressInv
<1>4. DOMAIN p.byIP = p.byID /\ \A a \in p.byID : p.byIP[a] = a
  OBVIOUS
<1>5. table = [i \in p.byID \cup new |-> i]
  BY <1>2, <1>3, <1>4
<1>6. ProcessPeerUpdate(p, ps) =
        [p EXCEPT !.byID = p.byID \cup new, !.byIP = table]
  BY DEF ProcessPeerUpdate
<1>7. p.byID \cup new = p.byID \cup ps
  OBVIOUS
<1>8. /\ p.byID \cup ps \in SUBSET Nat
      /\ table \in UNION {[S -> Nat] : S \in SUBSET Nat}
  <2>1. p.byID \cup ps \in SUBSET Nat
    BY <1>1
  <2>2. table \in [p.byID \cup ps -> Nat]
    BY <1>1, <1>5, <1>7
  <2>3. QED
    BY <2>1, <2>2
<1> HIDE DEF table
<1>9. QED
  BY <1>5, <1>6, <1>7, <1>8 DEF NodeState

\* What a host knows before the call returns, for the lemmas that follow.
LEMMA KnownBefore ==
  ASSUME MInv, NEW n \in Hosts, NEW h \in Handlers,
         NEW who \in {"api", "routine"}, Answered(n, who, h)
  PROVE  /\ host[n] \in NodeState
         /\ {host[n].nodeID, host[n].config} \subseteq 0..Len(nodes)
         /\ host[n].byID \subseteq Ids
         /\ host[n].byIP = [i \in host[n].byID |-> i]
         /\ host[n].up => host[n].config \in Ids
         /\ resp[h] \in Response
         /\ resp[h].config \in 0..Len(nodes) /\ resp[h].config \in Nat
         /\ resp[h].peers \in SUBSET Ids
         /\ req[h].op = "sync" /\ resp[h].status = "ok" =>
              resp[h].config \in Ids
         /\ Waiting(h, n, who) /\ caller[h] = <<n, who>>
<1>1. /\ TypeOK /\ HostsTyped /\ TableOK(n) /\ AnswerInv /\ CallerInv
  BY DEF MInv, IInv, TableInv
<1>2. resp[h] \in Response /\ host[n] \in NodeState
  BY <1>1 DEF TypeOK, HostsTyped
<1>3. resp[h].config \in Nat
  BY <1>2 DEF Response
<1>4. Waiting(h, n, who)
  BY <1>1 DEF CallerInv, Answered
<1>5. QED
  BY <1>1, <1>2, <1>3, <1>4 DEF TableOK, AnswerInv, Answered

LEMMA LoginReturnsStep ==
  ASSUME MInv, NEW n \in Hosts, NEW h \in Handlers, LoginReturns(n, h)
  PROVE  MInv'
<1> DEFINE q == IF resp[h].status = "ok"
                THEN [host[n] EXCEPT !.api = "idle"]
                ELSE LoginFailed(host[n])
<1>1. /\ Answered(n, "api", h) /\ Finish(h) /\ caller[h] = <<n, "api">>
      /\ caller' = [caller EXCEPT ![h] = NoCaller]
      /\ host' = [host EXCEPT ![n] = q]
      /\ usedKeys' = usedKeys /\ faults' = faults
  BY DEF LoginReturns, Return, Answered
<1>2. /\ host[n] \in NodeState
      /\ {host[n].nodeID, host[n].config} \subseteq 0..Len(nodes)
      /\ host[n].byID \subseteq Ids
      /\ host[n].byIP = [i \in host[n].byID |-> i]
      /\ host[n].up => host[n].config \in Ids
  BY <1>1, KnownBefore
<1>3. Learns(n, h, "api", q)
  <2>1. /\ q \in NodeState /\ q.key \in {host[n].key, ZeroKey}
        /\ q.nodeID = host[n].nodeID /\ q.config = host[n].config
        /\ q.byID = host[n].byID /\ q.byIP = host[n].byIP
        /\ q.up = host[n].up /\ q.routine = host[n].routine
        /\ q.api = "idle"
    BY <1>2 DEF LoginFailed, NodeState
  <2> HIDE DEF q
  <2>2. QED
    BY <1>2, <2>1 DEF Learns
<1>4. faults' \in 0..MaxFaults
  BY <1>1 DEF MInv, HostsTyped
<1> HIDE DEF q
<1>5. QED
  BY <1>1, <1>3, <1>4, ReturnSettles

LEMMA SyncReturnsStep ==
  ASSUME MInv, NEW n \in Hosts, NEW h \in Handlers,
         SyncReturns(n, h) \/ ControllerUpFails(n, h)
  PROVE  MInv'
<1> DEFINE p == host[n]
           r == resp[h]
           c == SetConfig(p, r)
           u == ControllerUp(c, r)
<1>1. /\ Answered(n, "api", h) /\ Finish(h) /\ p.api = "sync"
      /\ caller[h] = <<n, "api">>
      /\ caller' = [caller EXCEPT ![h] = NoCaller]
      /\ usedKeys' = usedKeys
  BY DEF SyncReturns, ControllerUpFails, Return, Answered
<1>2. /\ p \in NodeState
      /\ {p.nodeID, p.config} \subseteq 0..Len(nodes)
      /\ p.byID \subseteq Ids /\ p.byIP = [i \in p.byID |-> i]
      /\ p.up => p.config \in Ids
      /\ r.config \in 0..Len(nodes) /\ r.config \in Nat
      /\ r.peers \in SUBSET Ids
      /\ r.status = "ok" => r.config \in Ids
  BY <1>1, KnownBefore DEF Waiting
<1>3. faults' \in 0..MaxFaults
  BY DEF MInv, HostsTyped, SyncReturns, ControllerUpFails, Return
<1>4. Learns(n, h, "api", UpFailed(p))
  <2>1. /\ UpFailed(p) \in NodeState /\ UpFailed(p).key = p.key
        /\ UpFailed(p).nodeID = p.nodeID /\ UpFailed(p).config = p.config
        /\ UpFailed(p).byID = p.byID /\ UpFailed(p).byIP = p.byIP
        /\ UpFailed(p).up = p.up /\ UpFailed(p).routine = p.routine
        /\ UpFailed(p).api = "idle"
    BY <1>2 DEF UpFailed, NodeState
  <2>2. QED
    BY <1>2, <2>1 DEF Learns
<1>5. /\ c \in NodeState /\ c.key = p.key
      /\ c.nodeID = p.nodeID /\ c.config = r.config
      /\ c.byID = p.byID /\ c.byIP = p.byIP
      /\ c.up = p.up /\ c.routine = p.routine
  BY <1>2 DEF SetConfig, NodeState
<1>6. ASSUME r.status = "ok" PROVE Learns(n, h, "api", UpFailed(c))
  <2> DEFINE q == UpFailed(c)
  <2> HIDE DEF c
  <2>1. /\ q \in NodeState /\ q.key = p.key
        /\ q.nodeID = p.nodeID /\ q.config = r.config
        /\ q.byID = p.byID /\ q.byIP = p.byIP
        /\ q.up = p.up /\ q.routine = p.routine /\ q.api = "idle"
    BY <1>5 DEF UpFailed, NodeState
  <2> HIDE DEF q
  <2>2. Learns(n, h, "api", q)
    BY <1>2, <1>6, <2>1 DEF Learns
  <2>3. QED
    BY <2>2 DEF q
<1>7. ASSUME r.status = "ok", ~p.up
      PROVE  Learns(n, h, "api", ProcessPeerUpdate(u, r.peers))
  <2> DEFINE q == ProcessPeerUpdate(u, r.peers)
  <2>1. /\ u \in NodeState /\ u.key = p.key
        /\ u.nodeID = r.config /\ u.config = r.config
        /\ u.byID = p.byID /\ u.byIP = p.byIP
        /\ u.up = TRUE /\ u.routine = p.routine /\ u.api = "health"
    <3> HIDE DEF c
    <3>1. QED
      BY <1>2, <1>5 DEF ControllerUp, NodeState
  <2> HIDE DEF u
  <2>2. u.byID \subseteq Ids /\ u.byIP = [i \in u.byID |-> i]
    BY <1>2, <2>1
  <2>3. /\ q \in NodeState /\ q.byID = u.byID \cup r.peers
        /\ q.byIP = [i \in q.byID |-> i]
        /\ q.key = u.key /\ q.api = u.api /\ q.up = u.up
        /\ q.nodeID = u.nodeID /\ q.config = u.config
        /\ q.routine = u.routine
    BY <1>2, <2>1, <2>2, PeersAdded
  <2> HIDE DEF q
  <2>4. Learns(n, h, "api", q)
    BY <1>2, <1>7, <2>1, <2>3 DEF Learns
  <2>5. QED
    BY <2>4 DEF q
<1>8. \E q : host' = [host EXCEPT ![n] = q] /\ Learns(n, h, "api", q)
  <2>1. CASE ControllerUpFails(n, h)
    BY <1>6, <2>1 DEF ControllerUpFails
  <2>2. CASE SyncReturns(n, h)
    <3>1. CASE r.status # "ok"
      BY <1>4, <2>2, <3>1 DEF SyncReturns, Return
    <3>2. CASE r.status = "ok" /\ p.up
      BY <1>6, <2>2, <3>2 DEF SyncReturns, Return
    <3>3. CASE r.status = "ok" /\ ~p.up
      BY <1>7, <2>2, <3>3 DEF SyncReturns, Return
    <3>4. QED
      BY <3>1, <3>2, <3>3
  <2>3. QED
    BY <2>1, <2>2
<1>9. QED
  BY <1>1, <1>3, <1>8, ReturnSettles

LEMMA PollReturnsStep ==
  ASSUME MInv, NEW n \in Hosts, NEW h \in Handlers, PollReturns(n, h)
  PROVE  MInv'
<1> DEFINE p == host[n]
           r == resp[h]
           c == [p EXCEPT !.routine = "check"]
<1>1. /\ Answered(n, "routine", h) /\ Finish(h)
      /\ caller[h] = <<n, "routine">>
      /\ caller' = [caller EXCEPT ![h] = NoCaller]
      /\ usedKeys' = usedKeys /\ faults' \in 0..MaxFaults
  BY DEF PollReturns, Return, Answered, MInv, HostsTyped
<1>2. /\ p \in NodeState
      /\ {p.nodeID, p.config} \subseteq 0..Len(nodes)
      /\ p.byID \subseteq Ids /\ p.byIP = [i \in p.byID |-> i]
      /\ p.up => p.config \in Ids
      /\ r.peers \in SUBSET Ids
  BY <1>1, KnownBefore
<1>3. Learns(n, h, "routine", RoutineEnded(p))
  <2> DEFINE q == RoutineEnded(p)
  <2>1. /\ q \in NodeState /\ q.key = p.key
        /\ q.nodeID = p.nodeID /\ q.config = p.config
        /\ q.byID = p.byID /\ q.byIP = p.byIP
        /\ q.up = p.up /\ q.api = p.api /\ q.routine = "off"
    BY <1>2 DEF RoutineEnded, NodeState
  <2> HIDE DEF q
  <2>2. Learns(n, h, "routine", q)
    BY <1>2, <2>1 DEF Learns
  <2>3. QED
    BY <2>2 DEF q
<1>4. ASSUME r.status = "ok"
      PROVE  Learns(n, h, "routine", ProcessPeerUpdate(c, r.peers))
  <2> DEFINE q == ProcessPeerUpdate(c, r.peers)
  <2>1. /\ c \in NodeState /\ c.key = p.key
        /\ c.nodeID = p.nodeID /\ c.config = p.config
        /\ c.byID = p.byID /\ c.byIP = p.byIP
        /\ c.up = p.up /\ c.api = p.api /\ c.routine = "check"
    BY <1>2 DEF NodeState
  <2> HIDE DEF c
  <2>2. c.byID \subseteq Ids /\ c.byIP = [i \in c.byID |-> i]
    BY <1>2, <2>1
  <2>3. /\ q \in NodeState /\ q.byID = c.byID \cup r.peers
        /\ q.byIP = [i \in q.byID |-> i]
        /\ q.key = c.key /\ q.api = c.api /\ q.up = c.up
        /\ q.nodeID = c.nodeID /\ q.config = c.config
        /\ q.routine = c.routine
    BY <1>2, <2>1, <2>2, PeersAdded
  <2> HIDE DEF q
  <2>4. Learns(n, h, "routine", q)
    BY <1>2, <1>4, <2>1, <2>3 DEF Learns
  <2>5. QED
    BY <2>4 DEF q
<1>5. \E q : host' = [host EXCEPT ![n] = q] /\ Learns(n, h, "routine", q)
  BY <1>3, <1>4 DEF PollReturns, Return
<1>6. QED
  BY <1>1, <1>5, ReturnSettles

LEMMA FinishOrphanStep ==
  ASSUME MInv, NEW h \in Handlers, FinishOrphan(h)
  PROVE  MInv'
<1>1. HostsTyped /\ TableInv
  BY DEF MInv
<1>2. /\ caller[h] = NoCaller /\ Finish(h)
      /\ UNCHANGED <<host, caller, usedKeys, faults>>
  BY DEF FinishOrphan, hostVars
<1>3. IInv' /\ HostsTyped' /\ UNCHANGED <<nodes, notifyChans, unseen>>
  BY <1>1, <1>2, FinishFrame DEF HostsTyped
<1>4. \A g \in Handlers : HandlerSettled(g)
  BY <1>2, FinishFrame DEF HandlerSettled
<1>5. ASSUME NEW n \in Hosts PROVE HostSettled(n)
  <2>1. TableOK(n)'
    BY <1>1, <1>2, <1>3 DEF TableInv, TableOK, Ids
  <2>2. WasUp(n)' <=> WasUp(n)
    BY <1>2 DEF WasUp
  <2>3. \A g \in Handlers :
          ~Dropped(g, n, "api") /\ ~Dropped(g, n, "routine")
    BY <1>2 DEF Dropped
  <2>4. QED
    BY <1>2, <2>1, <2>2, <2>3 DEF HostSettled
<1>6. QED
  BY <1>2, <1>3, <1>4, <1>5, SettledStep

-----------------------------------------------------------------------------
(***************************************************************************)
(* The faults.  A call that breaks leaves an orphan: a login's host throws *)
(* its key away, and a poll's host stops polling for good.                 *)
(***************************************************************************)
LEMMA DisconnectStep ==
  ASSUME MInv, NEW h \in Handlers, Disconnect(h)
  PROVE  MInv'
<1>1. HostsTyped /\ CallerInv /\ TypeOK /\ HandlerInv
  BY DEF MInv, IInv
<1>2. PICK n \in Hosts, who \in {"api", "routine"} : caller[h] = <<n, who>>
  BY <1>1 DEF HostsTyped, Disconnect
<1> DEFINE p == host[n]
           q == CallFailed(p, who)
<1>3. /\ host' = [host EXCEPT ![n] = q]
      /\ caller' = [caller EXCEPT ![h] = NoCaller]
      /\ UNCHANGED <<vars, usedKeys>> /\ faults' \in 0..MaxFaults
  BY <1>1, <1>2 DEF HostsTyped, Disconnect, Fault
<1>4. IInv' /\ UNCHANGED <<nodes, notifyChans, unseen, pc, req, node, resp>>
  BY <1>3, ServerIdle
<1>5. TableOK(n) /\ p \in NodeState
  BY <1>1 DEF MInv, TableInv, HostsTyped
<1>6. /\ caller' \in [Handlers -> Hosts \X {"api", "routine"}
                                    \cup {NoCaller}]
      /\ caller'[h] = NoCaller
      /\ \A g \in Handlers \ {h} : caller'[g] = caller[g]
  BY <1>1, <1>3 DEF HostsTyped
<1>7. \A g \in Handlers : HandlerSettled(g)
  BY <1>4, <1>6 DEF HandlerSettled
<1>8. Waiting(h, n, who) /\ <<n, who>> # NoCaller
  BY <1>1, <1>2 DEF CallerInv
<1>9. ASSUME NEW g \in Handlers, NEW m \in Hosts,
             NEW w \in {"api", "routine"}, Dropped(g, m, w)
      PROVE  g = h /\ m = n /\ w = who
  <2>1. caller[g] = <<m, w>> /\ caller'[g] = NoCaller
    BY <1>9 DEF Dropped
  <2>2. caller[g] # NoCaller
    BY <2>1
  <2>3. g = h
    BY <1>6, <2>1, <2>2
  <2>4. QED
    BY <1>2, <2>1, <2>3
<1>10. \A g \in Handlers : caller'[g] # <<n, who>>
  BY <1>1, <1>2, <1>6, <1>8 DEF CallerInv
<1>11. /\ q \in NodeState
       /\ q.nodeID = p.nodeID /\ q.config = p.config /\ q.up = p.up
       /\ q.byID = p.byID /\ q.byIP = p.byIP
       /\ who = "routine" =>
            q.key = p.key /\ q.api = p.api /\ q.routine = "off"
       /\ who = "api" =>
            /\ q.routine = p.routine /\ q.api = "idle"
            /\ q.key = IF p.api = "login" THEN ZeroKey ELSE p.key
  <2>1. CASE who = "routine"
    BY <1>5, <2>1 DEF CallFailed, RoutineEnded, NodeState
  <2>2. CASE who = "api" /\ p.api = "login"
    BY <1>5, <2>2 DEF CallFailed, LoginFailed, NodeState
  <2>3. CASE who = "api" /\ p.api # "login"
    BY <1>5, <2>3 DEF CallFailed, UpFailed, NodeState
  <2>4. QED
    BY <2>1, <2>2, <2>3
<1> HIDE DEF q
<1>12. ASSUME host'[n] = q PROVE HostSettled(n)
  <2>1. TableOK(n)'
    BY <1>4, <1>5, <1>8, <1>11, <1>12 DEF TableOK, Waiting, Ids
  <2>2. WasUp(n) => WasUp(n)'
    BY <1>11, <1>12 DEF WasUp
  <2>3. q.routine = "off" \/ p.routine # "off"
    BY <1>11
  <2>4. \A g \in Handlers :
          /\ caller'[g] = <<n, "api">> => q.api = p.api
          /\ caller'[g] = <<n, "routine">> => q.routine = p.routine
    BY <1>10, <1>11
  <2>5. \A g \in Handlers :
          Dropped(g, n, "api") /\ Registers(g)' => q.key = ZeroKey
    <3>1. ASSUME NEW g \in Handlers, Dropped(g, n, "api"), Registers(g)'
          PROVE  q.key = ZeroKey
      <4>1. g = h /\ who = "api"
        BY <1>9, <3>1
      <4>2. Registers(h)
        BY <1>4, <3>1, <4>1 DEF Registers
      <4>3. req[h].op = "login"
        BY <4>2 DEF Registers, MInv, AnswerInv
      <4>4. QED
        BY <1>8, <1>11, <4>1, <4>3 DEF Waiting
    <3>2. QED
      BY <3>1
  <2>6. \/ /\ q.routine = "off"
           /\ \A g \in Handlers : caller'[g] # <<n, "routine">>
        \/ /\ p.byID \subseteq q.byID
           /\ \A g \in Handlers : ~Dropped(g, n, "routine")
    BY <1>9, <1>10, <1>11
  <2>7. q.key \in {p.key, ZeroKey}
    BY <1>11
  <2>8. QED
    BY <1>12, <2>1, <2>2, <2>3, <2>4, <2>5, <2>6, <2>7 DEF HostSettled
<1>13. \A g \in Handlers, m \in Hosts \ {n}, w \in {"api", "routine"} :
         ~Dropped(g, m, w)
  BY <1>9
<1>14. QED
  BY <1>3, <1>4, <1>6, <1>7, <1>11, <1>12, <1>13, OneHostSettles

\* A process that starts again has the record of a new node.
LEMMA NewNodeTyped ==
  /\ NewNode \in NodeState
  /\ NewNode.key = ZeroKey /\ NewNode.api = "idle" /\ ~NewNode.up
  /\ NewNode.nodeID = 0 /\ NewNode.config = 0 /\ NewNode.routine = "off"
  /\ NewNode.byID = {} /\ NewNode.byIP = [i \in {} |-> i]
<1>1. [a \in {} |-> 0] \in [{} -> Nat]
  OBVIOUS
<1>2. [a \in {} |-> 0] \in UNION {[S -> Nat] : S \in SUBSET Nat}
  BY <1>1
<1>3. [a \in {} |-> 0] = [i \in {} |-> i]
  OBVIOUS
<1>4. QED
  BY <1>2, <1>3 DEF NewNode, NodeState

LEMMA HostRestartsStep ==
  ASSUME MInv, NEW n \in Hosts, HostRestarts(n)
  PROVE  MInv'
<1>1. HostsTyped /\ TypeOK
  BY DEF MInv, IInv
<1>2. /\ host' = [host EXCEPT ![n] = NewNode]
      /\ UNCHANGED <<vars, usedKeys>> /\ faults' \in 0..MaxFaults
      /\ caller' = [h \in Handlers |->
           IF caller[h] \in {n} \X {"api", "routine"} THEN NoCaller
           ELSE caller[h]]
  BY <1>1 DEF HostsTyped, HostRestarts, Fault
<1>3. IInv' /\ UNCHANGED <<nodes, notifyChans, unseen, pc, req, node, resp>>
  BY <1>2, ServerIdle
<1>4. /\ caller' \in [Handlers -> Hosts \X {"api", "routine"}
                                    \cup {NoCaller}]
      /\ \A g \in Handlers : caller'[g] \in {caller[g], NoCaller}
      /\ \A g \in Handlers, who \in {"api", "routine"} :
           caller'[g] # <<n, who>>
  BY <1>1, <1>2 DEF HostsTyped
<1>5. \A g \in Handlers : HandlerSettled(g)
  BY <1>3, <1>4 DEF HandlerSettled
<1>6. \A g \in Handlers, m \in Hosts \ {n}, w \in {"api", "routine"} :
        ~Dropped(g, m, w)
  BY <1>2 DEF Dropped
<1>7. ASSUME host'[n] = NewNode PROVE HostSettled(n)
  <2>1. Len(nodes') \in Nat
    BY <1>1, <1>3 DEF TypeOK
  <2>2. TableOK(n)'
    BY <1>7, <2>1, NewNodeTyped DEF TableOK
  <2>3. QED
    BY <1>4, <1>7, <2>2, NewNodeTyped DEF HostSettled
<1>8. QED
  BY <1>2, <1>3, <1>4, <1>5, <1>6, <1>7, NewNodeTyped, OneHostSettles

\* No host is the caller of a handler that nobody waits for.
LEMMA NobodyCalls ==
  \A n \in Hosts, who \in {"api", "routine"} : <<n, who>> # NoCaller
OBVIOUS

(***************************************************************************)
(* The server restarts: no handler, no channel, and every host that waited *)
(* has an error.                                                           *)
(***************************************************************************)
LEMMA ServerRestartsStep ==
  ASSUME MInv, ServerRestarts
  PROVE  MInv'
<1>1. /\ TypeOK /\ HostsTyped /\ TableInv /\ DrawnInv /\ OneRowPerKey
  BY DEF MInv, IInv, KeyInv
<1>2. IInv'
  BY NextIInv DEF MInv, ServerRestarts, Next
<1>3. /\ DOMAIN notifyChans' = {} /\ nodes' = nodes /\ usedKeys' = usedKeys
      /\ caller' = [h \in Handlers |-> NoCaller]
      /\ \A h \in Handlers : /\ pc'[h] = "idle" /\ req'[h] = NoRequest
                             /\ resp'[h] = NoResponse
                             /\ caller'[h] = NoCaller
      /\ faults' \in 0..MaxFaults
  BY <1>1 DEF HostsTyped, ServerRestarts, Restart, dbVars, Fault
<1>4. ASSUME NEW n \in Hosts
      PROVE  /\ host'[n] \in NodeState
             /\ host'[n].key \in {host[n].key, ZeroKey}
             /\ host'[n].nodeID = host[n].nodeID
             /\ host'[n].config = host[n].config
             /\ host'[n].byID = host[n].byID
             /\ host'[n].byIP = host[n].byIP
             /\ host'[n].up = host[n].up
             /\ host'[n].api \in {host[n].api, "idle"}
             /\ host'[n].routine \in {host[n].routine, "off"}
  <2> DEFINE p == IF Waits(n, "routine") THEN RoutineEnded(host[n])
                  ELSE host[n]
             q == IF Waits(n, "api") THEN CallFailed(p, "api") ELSE p
  <2>1. host'[n] = q
    BY DEF ServerRestarts
  <2>2. host[n] \in NodeState
    BY <1>1 DEF HostsTyped
  <2>3. /\ p \in NodeState /\ p.key = host[n].key
        /\ p.nodeID = host[n].nodeID /\ p.config = host[n].config
        /\ p.byID = host[n].byID /\ p.byIP = host[n].byIP
        /\ p.up = host[n].up /\ p.api = host[n].api
        /\ p.routine \in {host[n].routine, "off"}
    BY <2>2 DEF RoutineEnded, NodeState
  <2> HIDE DEF p
  <2>4. /\ q \in NodeState /\ q.key \in {p.key, ZeroKey}
        /\ q.nodeID = p.nodeID /\ q.config = p.config
        /\ q.byID = p.byID /\ q.byIP = p.byIP /\ q.up = p.up
        /\ q.api \in {p.api, "idle"} /\ q.routine = p.routine
    <3>1. CASE q = LoginFailed(p)
      BY <2>3, <3>1 DEF LoginFailed, NodeState
    <3>2. CASE q = UpFailed(p)
      BY <2>3, <3>2 DEF UpFailed, NodeState
    <3>3. CASE q = p
      BY <2>3, <3>3
    <3>4. q = LoginFailed(p) \/ q = UpFailed(p) \/ q = p
      BY DEF CallFailed
    <3>5. QED
      BY <3>1, <3>2, <3>3, <3>4
  <2>5. QED
    BY <2>1, <2>3, <2>4
<1>5. HostsTyped'
  <2>1. host' \in [Hosts -> NodeState]
    <3>1. host' = [n \in Hosts |-> host'[n]]
      BY DEF ServerRestarts
    <3>2. QED
      BY <1>4, <3>1
  <2>2. QED
    BY <1>1, <1>3, <2>1 DEF HostsTyped
<1>6. TableInv'
  <2>1. ASSUME NEW n \in Hosts PROVE TableOK(n)'
    <3>1. TableOK(n)
      BY <1>1 DEF TableInv
    <3>2. QED
      BY <1>3, <1>4, <3>1 DEF TableOK, Ids
  <2>2. QED
    BY <2>1 DEF TableInv
<1>7. AnswerInv'
  <2>1. 0 \in 0..Len(nodes')
    BY <1>1, <1>3 DEF TypeOK
  <2>2. QED
    BY <1>3, <2>1 DEF AnswerInv, NoResponse
<1>8. CallerInv'
  BY <1>3, NobodyCalls DEF CallerInv
<1>9. KeyInv'
  <2>1. DrawnInv'
    BY <1>1, <1>3, <1>4 DEF DrawnInv, NoRequest, Ids
  <2>2. RegisterInv' /\ OneRowPerKey'
    BY <1>1, <1>3 DEF RegisterInv, Registers, OneRowPerKey, Ids
  <2>3. QED
    BY <2>1, <2>2 DEF KeyInv
<1>10. PollInv' /\ LinkInv'
  BY <1>3 DEF PollInv, Polls, LinkInv
<1>11. QED
  BY <1>2, <1>5, <1>6, <1>7, <1>8, <1>9, <1>10 DEF MInv

-----------------------------------------------------------------------------
LEMMA InitMInv == MembershipInit => MInv
<1> SUFFICES ASSUME MembershipInit PROVE MInv
  OBVIOUS
<1>1. IInv
  BY InitIInv DEF MembershipInit
<1>2. /\ nodes = <<>> /\ Ids = {} /\ Len(nodes) = 0
      /\ DOMAIN notifyChans = {} /\ usedKeys = {} /\ faults = 0
      /\ host = [n \in Hosts |-> NewNode]
      /\ caller = [h \in Handlers |-> NoCaller]
      /\ \A h \in Handlers : /\ pc[h] = "idle" /\ req[h] = NoRequest
                             /\ resp[h] = NoResponse
  BY DEF MembershipInit, Init, Ids
<1>3. HostsTyped /\ TableInv
  <2>1. host \in [Hosts -> NodeState]
    BY <1>2, NewNodeTyped
  <2>2. 0 \in 0..MaxFaults
    OBVIOUS
  <2>3. HostsTyped
    BY <1>2, <2>1, <2>2 DEF HostsTyped
  <2>4. ASSUME NEW n \in Hosts PROVE TableOK(n)
    <3>1. host[n] = NewNode /\ Len(nodes) \in Nat
      BY <1>2
    <3>2. QED
      BY <3>1, NewNodeTyped DEF TableOK
  <2>5. QED
    BY <2>3, <2>4 DEF TableInv
<1>4. AnswerInv /\ CallerInv
  <2>1. CallerInv
    BY <1>2, NobodyCalls DEF CallerInv
  <2>2. NoResponse.config = 0 /\ NoResponse.peers = {}
    BY DEF NoResponse
  <2>3. QED
    BY <1>2, <2>1, <2>2 DEF AnswerInv
<1>5. KeyInv
  BY <1>2, NewNodeTyped
     DEF KeyInv, DrawnInv, RegisterInv, Registers, OneRowPerKey, NoRequest
<1>6. PollInv /\ LinkInv
  BY <1>2 DEF PollInv, Polls, LinkInv
<1>7. QED
  BY <1>1, <1>3, <1>4, <1>5, <1>6 DEF MInv

LEMMA NextMInv == MInv /\ [MembershipNext]_allVars => MInv'
<1> SUFFICES ASSUME MInv, [MembershipNext]_allVars PROVE MInv'
  OBVIOUS
<1>1. ASSUME NEW n \in Hosts, ApiStep(n) PROVE MInv'
  BY <1>1, LoginReturnsStep, SyncReturnsStep, AloneStep DEF ApiStep
<1>2. ASSUME NEW n \in Hosts, RoutineStep(n) PROVE MInv'
  BY <1>2, PollStep, PollReturnsStep, AloneStep DEF RoutineStep
<1>3. ASSUME NEW n \in Hosts, UserStep(n) PROVE MInv'
  BY <1>3, LoginStep, UpStep, AloneStep DEF UserStep
<1>4. faults \in 0..MaxFaults
  BY DEF MInv, HostsTyped
<1>5. ASSUME NEW h \in Handlers,
             Serve(h) \/ OrphanFails(h) \/ DatabaseFails(h)
      PROVE  MInv'
  <2>1. HandlerStep(h)
    BY <1>5 DEF Serve, OrphanFails, DatabaseFails, HandlerStep
  <2>2. UNCHANGED <<host, caller, usedKeys>> /\ faults' \in 0..MaxFaults
    BY <1>4, <1>5 DEF Serve, OrphanFails, DatabaseFails, Fault, hostVars
  <2>3. QED
    BY <2>1, <2>2, ServeStep
<1>6. ASSUME NEW h \in Handlers, FinishOrphan(h) \/ Disconnect(h)
      PROVE  MInv'
  BY <1>6, FinishOrphanStep, DisconnectStep
<1>7. ASSUME NEW n \in Hosts, NEW h \in Handlers, ControllerUpFails(n, h)
      PROVE  MInv'
  BY <1>7, SyncReturnsStep
<1>8. ASSUME NEW n \in Hosts, HealthFails(n) \/ HostRestarts(n) PROVE MInv'
  BY <1>8, AloneStep, HostRestartsStep
<1>9. ASSUME NEW i \in Ids, KeyExpires(i) PROVE MInv'
  <2>1. IInv'
    BY <1>9, NextIInv DEF MInv, KeyExpires, Next
  <2>2. /\ UNCHANGED <<nodes, notifyChans, unseen, pc, req, node, resp,
                       host, caller, usedKeys>>
        /\ faults' \in 0..MaxFaults
    BY <1>4, <1>9 DEF KeyExpires, Expire, Fault, svcVars, reqVars
  <2>3. QED
    BY <2>1, <2>2, QuietStep
<1>10. CASE ServerRestarts
  BY <1>10, ServerRestartsStep
<1>11. CASE UNCHANGED allVars
  <2>1. UNCHANGED vars /\ UNCHANGED <<host, caller, usedKeys, faults>>
    BY <1>11 DEF allVars, hostVars
  <2>2. QED
    BY <1>4, <2>1, ServerIdle, QuietStep
<1>12. QED
  BY <1>1, <1>2, <1>3, <1>5, <1>6, <1>7, <1>8, <1>9, <1>10, <1>11
     DEF MembershipNext, FaultStep

\* A step of the server and its nodes is a step of the server, or none.
LEMMA ServerSteps ==
  ASSUME MInv, [MembershipNext]_allVars
  PROVE  [Next]_vars
<1>1. ASSUME NEW n \in Hosts, NEW h \in Handlers,
             Login(n, h) \/ Up(n, h) \/ Poll(n, h)
      PROVE  Next
  <2>1. host[n].key \in Keys \cup {ZeroKey}
    BY DEF MInv, HostsTyped, NodeState
  <2>2. PICK r \in Request : Begin(h, r)
    <3>1. CASE Login(n, h)
      BY <2>1, <3>1 DEF Login, Call, Request
    <3>2. CASE Up(n, h)
      BY <2>1, <3>2 DEF Up, Call, Request
    <3>3. CASE Poll(n, h)
      BY <2>1, <3>3 DEF Poll, Call, Request
    <3>4. QED
      BY <1>1, <3>1, <3>2, <3>3
  <2>3. QED
    BY <2>2 DEF Next
<1>2. ASSUME NEW n \in Hosts, NEW h \in Handlers,
             \/ LoginReturns(n, h) \/ SyncReturns(n, h) \/ PollReturns(n, h)
             \/ ControllerUpFails(n, h)
      PROVE  Next
  BY <1>2 DEF LoginReturns, SyncReturns, PollReturns, ControllerUpFails,
     Return, Next
<1>3. ASSUME NEW h \in Handlers,
             \/ Serve(h) \/ FinishOrphan(h) \/ OrphanFails(h)
             \/ DatabaseFails(h)
      PROVE  Next
  BY <1>3 DEF Serve, FinishOrphan, OrphanFails, DatabaseFails, HandlerStep,
     Next
<1>4. ASSUME NEW n \in Hosts,
             \/ StartUpdateRoutine(n) \/ RoutineStops(n) \/ Down(n)
             \/ HealthFails(n) \/ HostRestarts(n)
      PROVE  UNCHANGED vars
  BY <1>4 DEF StartUpdateRoutine, RoutineStops, Down, HealthFails,
     HostRestarts
<1>5. ASSUME NEW h \in Handlers, Disconnect(h) PROVE UNCHANGED vars
  BY <1>5 DEF Disconnect
<1>6. ASSUME NEW i \in Ids, KeyExpires(i) PROVE Next
  BY <1>6 DEF KeyExpires, Next
<1>7. ServerRestarts => Next
  BY DEF ServerRestarts, Next
<1>8. UNCHANGED allVars => UNCHANGED vars
  BY DEF allVars
<1>9. QED
  BY <1>1, <1>2, <1>3, <1>4, <1>5, <1>6, <1>7, <1>8
     DEF MembershipNext, ApiStep, RoutineStep, UserStep, FaultStep

THEOREM MembershipInvariance == MembershipSpec => []MInv
<1>1. MembershipInit => MInv
  BY InitMInv
<1>2. MInv /\ [MembershipNext]_allVars => MInv'
  BY NextMInv
<1>3. QED
  BY <1>1, <1>2, PTL DEF MembershipSpec

-----------------------------------------------------------------------------
(***************************************************************************)
(* What the invariant gives.  First the types of server and nodes.         *)
(***************************************************************************)
THEOREM MembershipTypeCorrect == MembershipSpec => []MembershipTypeOK
<1>1. MInv => MembershipTypeOK
  <2> SUFFICES ASSUME MInv PROVE MembershipTypeOK
    OBVIOUS
  <2>1. TypeOK /\ HostsTyped /\ TableInv
    BY DEF MInv, IInv
  <2>2. ASSUME NEW n \in Hosts
        PROVE  /\ host[n].key \in Keys \cup {ZeroKey}
               /\ host[n].api \in {"idle", "login", "sync", "health"}
               /\ host[n].running \in BOOLEAN /\ host[n].up \in BOOLEAN
               /\ host[n].ctx \in {"none", "live", "cancelled"}
               /\ host[n].routine \in {"off", "check", "poll"}
               /\ {host[n].nodeID, host[n].config} \subseteq 0..Len(nodes)
               /\ host[n].byID \subseteq Ids
               /\ host[n].byIP \in [DOMAIN host[n].byIP -> Ids]
    <3>1. host[n] \in NodeState /\ TableOK(n)
      BY <2>1 DEF HostsTyped, TableInv
    <3>2. /\ host[n].key \in Keys \cup {ZeroKey}
          /\ host[n].api \in {"idle", "login", "sync", "health"}
          /\ host[n].running \in BOOLEAN /\ host[n].up \in BOOLEAN
          /\ host[n].ctx \in {"none", "live", "cancelled"}
          /\ host[n].routine \in {"off", "check", "poll"}
      BY <3>1 DEF NodeState
    <3>3. host[n].byIP \in [DOMAIN host[n].byIP -> Ids]
      BY <3>1 DEF TableOK
    <3>4. QED
      BY <3>1, <3>2, <3>3 DEF TableOK
  <2>3. QED
    BY <2>1, <2>2 DEF MembershipTypeOK, HostsTyped
<1>2. QED
  BY <1>1, MembershipInvariance, PTL

(***************************************************************************)
(* A key has one row (LoginNode, registerNode and Node.Login): whatever    *)
(* logins overlap, break off or are repeated, two of one key never do.     *)
(***************************************************************************)
THEOREM KeysRegisterOnce == MembershipSpec => []OneRowPerKey
<1>1. MInv => OneRowPerKey
  BY DEF MInv, KeyInv
<1>2. QED
  BY <1>1, MembershipInvariance, PTL

(***************************************************************************)
(* The tunnel's routes (startTunLoop, AddPeer): a packet for the address   *)
(* of a known peer goes to that peer, and to no other.  The peers are at   *)
(* their addresses in peersByIP, and an address is that of one row.        *)
(***************************************************************************)
THEOREM RoutesAreThePeers == MembershipSpec => []RoutesAgree
<1>1. MInv => RoutesAgree
  <2> SUFFICES ASSUME MInv, NEW n \in Hosts, host[n].up,
                      NEW a \in 1..MaxNodes
               PROVE  Route(n, a) = {i \in host[n].byID :
                                       nodes[i].ip = a /\ Routable(n, i)}
    BY DEF RoutesAgree
  <2>1. AddressInv /\ TableOK(n)
    BY DEF MInv, IInv, TableInv
  <2>2. nodes[host[n].config].ip = host[n].config
    BY <2>1 DEF AddressInv, TableOK
  <2>3. \A i \in host[n].byID : nodes[i].ip = i
    BY <2>1 DEF AddressInv, TableOK
  <2>4. /\ DOMAIN host[n].byIP = host[n].byID
        /\ \A i \in host[n].byID : host[n].byIP[i] = i
    BY <2>1 DEF TableOK
  <2>5. Route(n, a) = IF a = host[n].config \/ a > PrefixSize
                           \/ a \notin host[n].byID
                      THEN {} ELSE {a}
    BY <2>2, <2>4 DEF Route
  <2>6. {i \in host[n].byID : nodes[i].ip = a /\ Routable(n, i)} =
          {i \in host[n].byID : i = a /\ i <= PrefixSize
                                      /\ i # host[n].config}
    BY <2>3 DEF Routable
  <2>7. QED
    BY <2>5, <2>6
<1>2. QED
  BY <1>1, MembershipInvariance, PTL

(***************************************************************************)
(* Up starts no second update routine (Node.Up, Controller.Up): a routine  *)
(* that Down has cancelled and that still waits for its poll never meets   *)
(* another, because the controller is up as long as one is left.           *)
(***************************************************************************)
THEOREM OneRoutineIsStarted == MembershipSpec => []OneUpdateRoutine
<1>1. MInv => OneUpdateRoutine
  BY DEF MInv, TableInv, TableOK, OneUpdateRoutine
<1>2. QED
  BY <1>1, MembershipInvariance, PTL

(***************************************************************************)
(* Two nodes whose polls wait with nothing pending (getNotifyChan, Update, *)
(* pollForUpdates): one of them has the other in its peer table.           *)
(***************************************************************************)
THEOREM WaitingNodesAreLinked == MembershipSpec => []LinkedWhenQuiet
<1>1. MInv => LinkedWhenQuiet
  <2> SUFFICES ASSUME MInv PROVE LinkedWhenQuiet
    OBVIOUS
  <2>1. /\ TypeOK /\ HandlerInv /\ NoticeCovered /\ CallerInv
        /\ PollInv /\ LinkInv
    BY DEF MInv, IInv
  <2>2. ASSUME NEW n \in Hosts, NEW h \in Handlers, QuietPoll(n, h)
        PROVE  /\ node[h] \in DOMAIN notifyChans
               /\ nodes[node[h]].key = req[h].key
               /\ Polls(h) /\ caller[h] = <<n, "routine">>
               /\ caller[h] # NoCaller
    <3>1. /\ node[h] \in DOMAIN notifyChans /\ node[h] \in Ids
          /\ nodes[node[h]].key = req[h].key
          /\ req[h].op = "poll" /\ pc[h] # "idle"
      BY <2>1, <2>2 DEF QuietPoll, HandlerInv, PollInv
    <3>2. req[h].key \in Keys
      BY <2>1, <3>1, KeysOfRows
    <3>3. QED
      BY <2>2, <3>1, <3>2 DEF QuietPoll, Polls
  <2>3. ASSUME NEW n \in Hosts, NEW h \in Handlers, QuietPoll(n, h), NEW j,
               Told(node[h], j)
        PROVE  j \in host[n].byID
    <3>1. ASSUME NEW g \in Handlers, Polls(g), req[g].key = req[h].key
          PROVE  g = h
      BY <2>1, <2>2, <2>3, <3>1 DEF PollInv
    <3>2. ASSUME j \in unseen[node[h]] PROVE FALSE
      <4>1. Covered(node[h])
        BY <2>1, <2>2, <2>3, <3>2 DEF NoticeCovered, TypeOK
      <4>2. PICK g \in Handlers :
              node[g] = node[h] /\ pc[g] = "peers" /\ req[g].op = "poll"
        BY <2>3, <4>1 DEF Covered, QuietPoll
      <4>3. req[g].key = req[h].key
        BY <2>1, <2>2, <2>3, <4>2 DEF PollInv
      <4>4. Polls(g)
        BY <2>2, <2>3, <4>2, <4>3 DEF Polls
      <4>5. g = h
        BY <3>1, <4>3, <4>4
      <4>6. QED
        BY <2>3, <4>2, <4>5 DEF QuietPoll
    <3>3. Follows(n, nodes[node[h]].key)
      BY <2>2, <2>3 DEF Follows
    <3>4. Hears(n, nodes[node[h]].key, j)
      BY <2>3, <3>2, <3>3 DEF Told
    <3>5. ASSUME NEW g \in Handlers,
                 caller[g] = <<n, "routine">>, pc[g] = "done"
          PROVE  FALSE
      <4>1. g = h
        BY <2>1, <2>2, <2>3, <3>5 DEF CallerInv
      <4>2. QED
        BY <2>3, <3>5, <4>1 DEF QuietPoll
    <3>6. QED
      BY <3>4, <3>5 DEF Hears
  <2>4. ASSUME NEW n \in Hosts, NEW m \in Hosts,
               NEW h \in Handlers, NEW g \in Handlers,
               n # m, QuietPoll(n, h), QuietPoll(m, g)
        PROVE  node[g] \in host[n].byID \/ node[h] \in host[m].byID
    <3>1. /\ caller[h] = <<n, "routine">> /\ caller[g] = <<m, "routine">>
          /\ Polls(h) /\ Polls(g) /\ caller[g] # NoCaller
          /\ node[h] \in DOMAIN notifyChans /\ node[g] \in DOMAIN notifyChans
          /\ nodes[node[h]].key = req[h].key
          /\ nodes[node[g]].key = req[g].key
      BY <2>2, <2>4
    <3>2. h # g
      BY <2>4, <3>1
    <3>3. req[h].key # req[g].key
      BY <2>1, <3>1, <3>2 DEF PollInv
    <3>4. node[h] # node[g]
      BY <3>1, <3>3
    <3>5. Told(node[h], node[g]) \/ Told(node[g], node[h])
      BY <2>1, <3>1, <3>4 DEF LinkInv
    <3>6. QED
      BY <2>3, <2>4, <3>5
  <2>5. QED
    BY <2>4 DEF LinkedWhenQuiet
<1>2. QED
  BY <1>1, MembershipInvariance, PTL

(***************************************************************************)
(* The server keeps the pool of addresses whatever its nodes do: a step of *)
(* the whole is a step of the server or leaves the table alone.            *)
(***************************************************************************)
THEOREM NodesShareThePool == MembershipSpec => ImplementsAddressPool
<1>1. MembershipInit => Pool!Init
  BY PoolInit DEF MembershipInit
<1>2. MInv /\ [MembershipNext]_allVars => [Pool!Next]_Leases
  <2> SUFFICES ASSUME MInv, [MembershipNext]_allVars
               PROVE  [Pool!Next]_Leases
    OBVIOUS
  <2>1. [Next]_vars
    BY ServerSteps
  <2>2. QED
    BY <2>1, PoolStep DEF MInv
<1>3. QED
  BY <1>1, <1>2, MembershipInvariance, PTL
     DEF MembershipSpec, ImplementsAddressPool, Pool!Spec
=============================================================================
