------------------------ MODULE ControlServiceProofs ------------------------
(***************************************************************************)
(* What holds of the control server for every set of keys and handlers,    *)
(* every capacity of a notify channel and every size of the table.         *)
(***************************************************************************)
EXTENDS ControlService, TLAPS

USE ControlAssumption

-----------------------------------------------------------------------------
(***************************************************************************)
(* The scan of New.  While row i has address i, the first address that no  *)
(* row has is the one after the last row's.                                *)
(***************************************************************************)
LEMMA FirstFreeIsNext ==
  ASSUME TypeOK, AddressInv
  PROVE  FirstFreeIP = Len(nodes) + 1
<1>1. Len(nodes) \in Nat
  BY DEF TypeOK
<1>2. Allocated = 1..Len(nodes)
  BY DEF Allocated, AddressInv, Ids
<1> DEFINE Free(a) ==
             a \notin Allocated /\ \A b \in 1..(a - 1) : b \in Allocated
<1>3. Len(nodes) + 1 \in 1..(Len(nodes) + 1) /\ Free(Len(nodes) + 1)
  BY <1>1, <1>2
<1>4. ASSUME NEW a \in 1..(Len(nodes) + 1), Free(a)
      PROVE  a = Len(nodes) + 1
  BY <1>1, <1>2, <1>4
<1>5. QED
  BY <1>3, <1>4 DEF FirstFreeIP

\* The row an INSERT adds is the last one, and the others are as they were.
LEMMA RowsAfterInsert ==
  ASSUME TypeOK, NEW h \in Handlers, req[h].key \in Keys, CreateNode(h)
  PROVE  /\ nodes' \in Seq([key : Keys, ip : Nat])
         /\ Len(nodes) \in Nat
         /\ Len(nodes') = Len(nodes) + 1
         /\ \A i \in Ids : nodes'[i] = nodes[i]
         /\ nodes'[Len(nodes) + 1] = [key |-> req[h].key, ip |-> newIP[h]]
<1> DEFINE row == [key |-> req[h].key, ip |-> newIP[h]]
<1>1. nodes \in Seq([key : Keys, ip : Nat]) /\ row \in [key : Keys, ip : Nat]
  BY DEF TypeOK
<1>2. nodes' = Append(nodes, row)
  BY DEF CreateNode
<1> HIDE DEF row
<1>3. /\ nodes' \in Seq([key : Keys, ip : Nat])
      /\ Len(nodes) \in Nat
      /\ Len(nodes') = Len(nodes) + 1
      /\ \A i \in 1..Len(nodes) : nodes'[i] = nodes[i]
      /\ nodes'[Len(nodes) + 1] = row
  BY <1>1, <1>2
<1>4. QED
  BY <1>3 DEF row, Ids

\* A channel that is notified holds a token, whatever its capacity.
LEMMA NotifiedHasToken ==
  ASSUME NEW t \in 0..ChanCap
  PROVE  Notified(t) \in 0..ChanCap /\ Notified(t) > 0
BY DEF Notified

\* The answers of the handlers are responses, and answering keeps the types.
LEMMA ResponsesTyped ==
  /\ \A s \in Status : Failure(s) \in Response
  /\ \A c \in Nat, ps \in SUBSET Nat : Success(c, ps) \in Response
  /\ NoResponse \in Response
  /\ Failure("invalid") \in Response
  /\ Failure("expired") \in Response
  /\ Failure("error") \in Response
  /\ Success(0, {}) \in Response
<1>1. /\ \A s \in Status : Failure(s) \in Response
      /\ \A c \in Nat, ps \in SUBSET Nat : Success(c, ps) \in Response
      /\ NoResponse \in Response
  BY DEF Failure, Success, NoResponse, Response, Status
<1>2. {"invalid", "expired", "error"} \subseteq Status
  BY DEF Status
<1>3. QED
  BY <1>1, <1>2

LEMMA AnswerTyped ==
  ASSUME TypeOK, NEW h \in Handlers, NEW r \in Response, Answer(h, r)
  PROVE  pc' \in [Handlers -> Labels] /\ resp' \in [Handlers -> Response]
BY DEF TypeOK, Answer, Labels

-----------------------------------------------------------------------------
\* An empty table and idle handlers satisfy the inductive invariant.
LEMMA InitIInv == Init => IInv
<1> SUFFICES ASSUME Init PROVE IInv
  OBVIOUS
<1>1. /\ Len(nodes) = 0 /\ Ids = {}
      /\ DOMAIN notifyChans = {} /\ DOMAIN unseen = {}
  BY DEF Init, Ids
<1>2. TypeOK
  <2>1. NoRequest \in Request /\ "idle" \in Labels
    BY DEF NoRequest, Request, Labels
  <2>2. QED
    BY <1>1, <2>1, ResponsesTyped DEF Init, TypeOK
<1>3. HandlerInv /\ AddressInv /\ UnseenInv /\ NoticeCovered
  BY <1>1 DEF Init, HandlerInv, AddressInv, UnseenInv, NoticeCovered
<1>4. QED
  BY <1>2, <1>3 DEF IInv

(***************************************************************************)
(* Every step preserves it, one lemma for the steps of a request that are  *)
(* not about notify channels, one for those that are, one for the rest.    *)
(***************************************************************************)
LEMMA RequestStep ==
  ASSUME IInv, NEW h \in Handlers,
         \/ \E r \in Request : Begin(h, r)
         \/ LoginNode(h) \/ RegisterNode(h) \/ CreateNodeFails(h)
         \/ Update(h) \/ PollTimeout(h) \/ Finish(h)
  PROVE  IInv'
<1> USE DEF IInv
<1>1. /\ UNCHANGED <<nodes, expired, nextIP, notifyChans, unseen>>
      /\ \A g \in Handlers \ {h} : /\ pc'[g] = pc[g] /\ req'[g] = req[g]
                                   /\ node'[g] = node[g]
                                   /\ newIP'[g] = newIP[g]
      /\ pc[h] # "peers" /\ (pc'[h] = "peers" => req[h].op = "sync")
  BY DEF TypeOK, Begin, LoginNode, RegisterNode, CreateNodeFails, Update,
         PollTimeout, Finish, Answer, dbVars, svcVars
<1>2. TypeOK'
  <2>1. CASE \E r \in Request : Begin(h, r)
    <3>1. req' \in [Handlers -> Request]
      BY <2>1 DEF TypeOK, Begin
    <3>2. pc' \in [Handlers -> Labels] /\ resp' \in [Handlers -> Response]
      BY <2>1, AnswerTyped, ResponsesTyped DEF TypeOK, Begin, Labels
    <3>3. QED
      BY <2>1, <3>1, <3>2 DEF TypeOK, Begin, dbVars, svcVars, Ids
  <2>2. CASE LoginNode(h)
    <3>1. pc' \in [Handlers -> Labels] /\ resp' \in [Handlers -> Response]
      BY <2>2, AnswerTyped, ResponsesTyped DEF TypeOK, LoginNode, Labels
    <3>2. QED
      BY <2>2, <3>1 DEF TypeOK, LoginNode, dbVars, svcVars, Ids
  <2>3. CASE RegisterNode(h)
    BY <2>3 DEF TypeOK, RegisterNode, dbVars, Ids, Labels
  <2>4. CASE CreateNodeFails(h)
    <3>1. pc' \in [Handlers -> Labels] /\ resp' \in [Handlers -> Response]
      BY <2>4, AnswerTyped, ResponsesTyped DEF CreateNodeFails
    <3>2. QED
      BY <2>4, <3>1 DEF TypeOK, CreateNodeFails, dbVars, Ids
  <2>5. CASE Update(h)
    <3>1. node' \in [Handlers -> Nat]
      BY <2>5 DEF TypeOK, Update, Ids
    <3>2. pc' \in [Handlers -> Labels] /\ resp' \in [Handlers -> Response]
      BY <2>5, AnswerTyped, ResponsesTyped DEF TypeOK, Update, Labels
    <3>3. QED
      BY <2>5, <3>1, <3>2 DEF TypeOK, Update, dbVars, svcVars, Ids
  <2>6. CASE PollTimeout(h)
    <3>1. pc' \in [Handlers -> Labels] /\ resp' \in [Handlers -> Response]
      BY <2>6, AnswerTyped, ResponsesTyped DEF PollTimeout
    <3>2. QED
      BY <2>6, <3>1 DEF TypeOK, PollTimeout, dbVars, svcVars, Ids
  <2>7. CASE Finish(h)
    <3>1. /\ pc' \in [Handlers -> Labels] /\ resp' \in [Handlers -> Response]
          /\ req' \in [Handlers -> Request]
      BY <2>7, ResponsesTyped DEF TypeOK, Finish, NoRequest, Request, Labels
    <3>2. QED
      BY <2>7, <3>1 DEF TypeOK, Finish, dbVars, svcVars, Ids
  <2>8. QED
    BY <2>1, <2>2, <2>3, <2>4, <2>5, <2>6, <2>7
<1>3. HandlerInv'
  <2>1. CASE \E r \in Request : Begin(h, r)
    BY <2>1 DEF TypeOK, HandlerInv, Begin, Answer, dbVars, svcVars, Ids,
                Request
  <2>2. CASE LoginNode(h)
    BY <2>2 DEF TypeOK, HandlerInv, LoginNode, Answer, dbVars, svcVars, Ids
  <2>3. CASE RegisterNode(h)
    BY <2>3 DEF TypeOK, HandlerInv, RegisterNode, CanLock, dbVars, Ids
  <2>4. CASE CreateNodeFails(h)
    BY <2>4 DEF TypeOK, HandlerInv, CreateNodeFails, Answer, dbVars, Ids
  <2>5. CASE Update(h)
    BY <2>5 DEF TypeOK, HandlerInv, Update, Answer, dbVars, svcVars, Ids
  <2>6. CASE PollTimeout(h)
    BY <2>6 DEF TypeOK, HandlerInv, PollTimeout, Answer, dbVars, svcVars, Ids
  <2>7. CASE Finish(h)
    BY <2>7 DEF TypeOK, HandlerInv, Finish, dbVars, svcVars, Ids
  <2>8. QED
    BY <2>1, <2>2, <2>3, <2>4, <2>5, <2>6, <2>7
<1>4. AddressInv' /\ UnseenInv'
  BY <1>1 DEF AddressInv, UnseenInv, Ids
<1>5. NoticeCovered'
  BY <1>1 DEF NoticeCovered, Covered
<1>6. QED
  BY <1>2, <1>3, <1>4, <1>5

\* What is covered stays so while channels and the polls that read are left.
LEMMA CoverageKept ==
  ASSUME NoticeCovered, UNCHANGED <<notifyChans, unseen, node, req>>,
         \A g \in Handlers : pc[g] = "peers" => pc'[g] = "peers"
  PROVE  NoticeCovered'
<1>1. \A i \in DOMAIN unseen : Covered(i) => Covered(i)'
  BY DEF Covered
<1>2. QED
  BY <1>1 DEF NoticeCovered

\* The INSERT: the new row has the address nextIP had, the next free one.
LEMMA CreateNodeStep ==
  ASSUME IInv, NEW h \in Handlers, CreateNode(h)
  PROVE  IInv'
<1> USE DEF IInv
<1>1. /\ req[h].key \in Keys /\ mu = h
      /\ newIP[h] = nextIP /\ nextIP = Len(nodes) + 1
  BY DEF HandlerInv, CreateNode, AddressInv
<1>2. /\ nodes' \in Seq([key : Keys, ip : Nat])
      /\ Len(nodes) \in Nat /\ Len(nodes') = Len(nodes) + 1
      /\ \A i \in Ids : nodes'[i] = nodes[i]
      /\ nodes'[Len(nodes) + 1] = [key |-> req[h].key, ip |-> newIP[h]]
  <2>1. TypeOK /\ req[h].key \in Keys
    BY <1>1
  <2>2. QED
    BY <2>1, RowsAfterInsert
<1>3. Ids' = Ids \cup {Len(nodes) + 1}
  BY <1>2 DEF Ids
<1>4. TypeOK'
  <2>1. pc' \in [Handlers -> Labels] /\ resp' \in [Handlers -> Response]
    BY AnswerTyped, ResponsesTyped DEF CreateNode
  <2>2. QED
    BY <1>2, <1>3, <2>1 DEF TypeOK, CreateNode
<1>5. HandlerInv'
  BY <1>1, <1>3 DEF TypeOK, HandlerInv, CreateNode, Answer
<1>6. AddressInv'
  <2>1. \A i \in Ids : nodes'[i].ip = i
    BY <1>2 DEF AddressInv
  <2>2. nodes'[Len(nodes) + 1].ip = Len(nodes) + 1
    BY <1>1, <1>2
  <2>3. nextIP' = Len(nodes') + 1
    BY <1>1, <1>2 DEF CreateNode
  <2>4. QED
    BY <1>3, <2>1, <2>2, <2>3 DEF AddressInv
<1>7. UnseenInv'
  BY <1>3 DEF UnseenInv, CreateNode
<1>8. NoticeCovered'
  <2>1. \A g \in Handlers : pc[g] = "peers" => pc'[g] = "peers"
    BY DEF TypeOK, CreateNode, Answer
  <2>2. UNCHANGED <<notifyChans, unseen, node, req>>
    BY DEF CreateNode
  <2>3. QED
    BY <2>1, <2>2, CoverageKept
<1>9. QED
  BY <1>4, <1>5, <1>6, <1>7, <1>8

\* A full sync and a poll's reading of the table are done with the handler.
LEMMA PeersReadStep ==
  ASSUME IInv, NEW h \in Handlers, GetPeersOfNode(h) \/ QueryFails(h)
  PROVE  IInv'
<1> USE DEF IInv
<1>1. /\ UNCHANGED <<nodes, expired, nextIP, mu, notifyChans,
                     req, node, newIP>>
      /\ pc' = [pc EXCEPT ![h] = "done"]
  BY DEF GetPeersOfNode, QueryFails, Answer, dbVars, svcVars
<1>2. pc[h] = "peers" => node[h] \in Ids
  BY DEF HandlerInv
<1>3. /\ resp' \in [Handlers -> Response]
      /\ unseen' \in [DOMAIN notifyChans -> SUBSET Nat]
  <2>1. CASE GetPeersOfNode(h)
    <3>1. PeersOfNode(node[h]) \subseteq Nat /\ node[h] \in Nat
      BY DEF TypeOK, PeersOfNode, Ids
    <3>2. resp' \in [Handlers -> Response]
      BY <2>1, <3>1, ResponsesTyped, AnswerTyped DEF GetPeersOfNode
    <3>3. QED
      BY <2>1, <3>2 DEF TypeOK, GetPeersOfNode
  <2>2. CASE QueryFails(h)
    BY <2>2, ResponsesTyped, AnswerTyped DEF TypeOK, QueryFails
  <2>3. QED
    BY <2>1, <2>2
<1>4. TypeOK'
  BY <1>1, <1>3 DEF TypeOK, Ids, Labels
<1>5. HandlerInv' /\ AddressInv'
  BY <1>1 DEF TypeOK, HandlerInv, AddressInv, Ids
<1>6. \A i \in DOMAIN notifyChans : unseen'[i] \subseteq unseen[i]
  <2>1. unseen \in [DOMAIN notifyChans -> SUBSET Nat]
    BY DEF TypeOK
  <2>2. CASE GetPeersOfNode(h)
    BY <2>1, <2>2 DEF GetPeersOfNode
  <2>3. CASE QueryFails(h)
    BY <2>1, <2>3 DEF QueryFails
  <2>4. QED
    BY <2>2, <2>3
<1>7. UnseenInv'
  BY <1>1, <1>6 DEF UnseenInv, Ids
<1>8. pc[h] = "peers" /\ req[h].op = "poll" => unseen'[node[h]] = {}
  <2>1. ASSUME pc[h] = "peers", req[h].op = "poll"
        PROVE  node[h] \in DOMAIN unseen
    BY <2>1 DEF TypeOK, HandlerInv
  <2>2. CASE GetPeersOfNode(h)
    BY <2>1, <2>2 DEF TypeOK, UnseenInv, GetPeersOfNode, PeersOfNode
  <2>3. CASE QueryFails(h)
    BY <2>1, <2>3 DEF TypeOK, QueryFails
  <2>4. QED
    BY <2>2, <2>3
<1>9. NoticeCovered'
  <2>1. ASSUME NEW i \in DOMAIN unseen, unseen'[i] # {}
        PROVE  Covered(i)'
    <3>1. i \in DOMAIN notifyChans /\ unseen[i] # {}
      BY <1>6, <2>1 DEF TypeOK
    <3>2. Covered(i)
      BY <3>1 DEF NoticeCovered
    <3>3. CASE notifyChans[i] > 0
      BY <1>1, <3>3 DEF Covered
    <3>4. ASSUME NEW g \in Handlers,
                 node[g] = i, pc[g] = "peers", req[g].op = "poll"
          PROVE  Covered(i)'
      <4>1. g # h
        BY <1>8, <2>1, <3>4
      <4>2. QED
        BY <1>1, <3>4, <4>1 DEF TypeOK, Covered
    <3>5. QED
      BY <3>2, <3>3, <3>4 DEF Covered
  <2>2. DOMAIN unseen' = DOMAIN unseen
    BY <1>3 DEF TypeOK
  <2>3. QED
    BY <2>1, <2>2 DEF NoticeCovered
<1>10. QED
  BY <1>4, <1>5, <1>7, <1>9

\* A token moves from the channel into a poll that will read the table.
LEMMA TakeTokenStep ==
  ASSUME IInv, NEW h \in Handlers, TakeToken(h)
  PROVE  IInv'
<1> USE DEF IInv
<1>1. node[h] \in DOMAIN notifyChans /\ node[h] \in Ids /\ req[h].op = "poll"
  BY DEF HandlerInv, TakeToken
<1>2. /\ DOMAIN notifyChans' = DOMAIN notifyChans
      /\ notifyChans' \in [DOMAIN notifyChans -> 0..ChanCap]
      /\ \A i \in DOMAIN notifyChans \ {node[h]} :
           notifyChans'[i] = notifyChans[i]
  BY <1>1 DEF TypeOK, TakeToken
<1>3. TypeOK'
  BY <1>2 DEF TypeOK, TakeToken, dbVars, Ids, Labels
<1>4. HandlerInv' /\ AddressInv' /\ UnseenInv'
  <2>1. HandlerInv'
    <3>1. /\ pc'[h] = "peers" /\ \A g \in Handlers \ {h} : pc'[g] = pc[g]
          /\ UNCHANGED <<nodes, mu, nextIP, newIP, req, node>>
      BY DEF TypeOK, TakeToken, dbVars
    <3>2. QED
      BY <1>1, <1>2, <3>1 DEF HandlerInv, Ids
  <2>2. AddressInv' /\ UnseenInv'
    BY <1>2 DEF AddressInv, UnseenInv, TakeToken, dbVars, Ids
  <2>3. QED
    BY <2>1, <2>2
<1>5. NoticeCovered'
  <2>1. ASSUME NEW i, i = node[h]
        PROVE  Covered(i)'
    BY <1>1, <2>1 DEF TypeOK, Covered, TakeToken
  <2>2. ASSUME NEW i \in DOMAIN notifyChans \ {node[h]}, Covered(i)
        PROVE  Covered(i)'
    <3>1. CASE notifyChans[i] > 0
      BY <1>2, <3>1 DEF Covered
    <3>2. ASSUME NEW g \in Handlers,
                 node[g] = i, pc[g] = "peers", req[g].op = "poll"
          PROVE  Covered(i)'
      BY <3>2 DEF TypeOK, Covered, TakeToken
    <3>3. QED
      BY <2>2, <3>1, <3>2 DEF Covered
  <2>3. unseen' = unseen /\ DOMAIN unseen = DOMAIN notifyChans
    BY DEF TypeOK, TakeToken
  <2>4. QED
    BY <2>1, <2>2, <2>3 DEF NoticeCovered
<1>6. QED
  BY <1>3, <1>4, <1>5

(***************************************************************************)
(* A first poll: the node's own channel is empty and has nothing to tell,  *)
(* every other one holds a token.                                          *)
(***************************************************************************)
LEMMA GetNotifyChanStep ==
  ASSUME IInv, NEW h \in Handlers, GetNotifyChan(h)
  PROVE  IInv'
<1> USE DEF IInv
<1> DEFINE id    == node[h]
           known == DOMAIN notifyChans
           chans == [i \in known \cup {id} |->
                       IF i = id THEN 0 ELSE notifyChans[i]]
<1>1. /\ id \in Ids /\ req[h].op = "poll"
      /\ UNCHANGED <<nodes, expired, nextIP, mu, req, node, newIP, resp>>
      /\ pc' = [pc EXCEPT ![h] = "wait"]
      /\ pc[h] = "chan"
  BY DEF HandlerInv, GetNotifyChan, dbVars
<1>2. CASE id \in known
  <2>1. UNCHANGED <<notifyChans, unseen>>
    BY <1>2 DEF GetNotifyChan
  <2>2. TypeOK' /\ AddressInv' /\ UnseenInv'
    <3>1. pc' \in [Handlers -> Labels]
      BY <1>1 DEF TypeOK, Labels
    <3>2. TypeOK'
      BY <1>1, <2>1, <3>1 DEF TypeOK, Ids
    <3>3. AddressInv' /\ UnseenInv'
      BY <1>1, <2>1 DEF AddressInv, UnseenInv, Ids
    <3>4. QED
      BY <3>2, <3>3
  <2>3. HandlerInv'
    BY <1>1, <1>2, <2>1 DEF TypeOK, HandlerInv, Ids
  <2>4. NoticeCovered'
    <3>1. \A g \in Handlers : pc[g] = "peers" => pc'[g] = "peers"
      BY <1>1 DEF TypeOK
    <3>2. QED
      BY <1>1, <2>1, <3>1, CoverageKept
  <2>5. QED
    BY <2>2, <2>3, <2>4
<1>3. CASE id \notin known
  <2>1. /\ DOMAIN notifyChans' = known \cup {id}
        /\ notifyChans' = [i \in known \cup {id} |->
                             IF i = id THEN 0 ELSE Notified(notifyChans[i])]
        /\ unseen' = [i \in known \cup {id} |->
                        IF i = id THEN {} ELSE unseen[i] \cup {id}]
    BY <1>3 DEF GetNotifyChan, NotifyAllExcept
  <2>2. \A i \in known : /\ i # id
                         /\ notifyChans'[i] \in 0..ChanCap
                         /\ notifyChans'[i] > 0
    BY <1>3, <2>1, NotifiedHasToken DEF TypeOK
  <2>3. TypeOK'
    <3>1. notifyChans' \in [known \cup {id} -> 0..ChanCap]
      BY <2>1, <2>2
    <3>2. unseen' \in [known \cup {id} -> SUBSET Nat]
      BY <1>1, <2>1 DEF TypeOK, Ids
    <3>3. pc' \in [Handlers -> Labels]
      BY <1>1 DEF TypeOK, Labels
    <3>4. QED
      BY <1>1, <2>1, <3>1, <3>2, <3>3 DEF TypeOK, Ids
  <2>4. HandlerInv'
    BY <1>1, <2>1 DEF TypeOK, HandlerInv, Ids
  <2>5. AddressInv'
    BY <1>1 DEF AddressInv, Ids
  <2>6. UnseenInv'
    BY <1>1, <1>3, <2>1 DEF UnseenInv, Ids
  <2>7. NoticeCovered'
    BY <2>1, <2>2 DEF NoticeCovered, Covered
  <2>8. QED
    BY <2>3, <2>4, <2>5, <2>6, <2>7
<1>4. QED
  BY <1>2, <1>3

\* A restart keeps the table, and recomputes nextIP to what it was.
LEMMA RestartStep ==
  ASSUME IInv, Restart
  PROVE  IInv'
<1> USE DEF IInv
<1>1. Len(nodes) \in Nat /\ nextIP' = Len(nodes) + 1 /\ UNCHANGED dbVars
  BY FirstFreeIsNext DEF Restart, TypeOK
<1>2. TypeOK'
  <2>1. NoRequest \in Request /\ "idle" \in Labels
    BY DEF NoRequest, Request, Labels
  <2>2. QED
    BY <1>1, <2>1, ResponsesTyped DEF Restart, TypeOK, Ids, dbVars
<1>3. AddressInv'
  BY <1>1 DEF AddressInv, Ids, dbVars
<1>4. HandlerInv' /\ UnseenInv' /\ NoticeCovered'
  BY DEF Restart, HandlerInv, UnseenInv, NoticeCovered
<1>5. QED
  BY <1>2, <1>3, <1>4

\* Only expired changes, or nothing.
LEMMA ExpireStep ==
  ASSUME IInv, expired' \subseteq Ids,
         UNCHANGED <<nodes, nextIP, mu, notifyChans, pc, req, node, newIP,
                     resp, unseen>>
  PROVE  IInv'
<1> USE DEF IInv
<1>1. Ids' = Ids
  BY DEF Ids
<1>2. TypeOK'
  BY <1>1 DEF TypeOK
<1>3. HandlerInv'
  BY <1>1 DEF HandlerInv
<1>4. AddressInv' /\ UnseenInv'
  BY <1>1 DEF AddressInv, UnseenInv
<1>5. NoticeCovered'
  BY DEF NoticeCovered, Covered
<1>6. QED
  BY <1>2, <1>3, <1>4, <1>5

LEMMA NextIInv == IInv /\ [Next]_vars => IInv'
<1> SUFFICES ASSUME IInv, [Next]_vars PROVE IInv'
  OBVIOUS
<1>1. ASSUME NEW h \in Handlers, NEW r \in Request, Begin(h, r) PROVE IInv'
  BY <1>1, RequestStep
<1>2. ASSUME NEW h \in Handlers, HandlerStep(h) PROVE IInv'
  BY <1>2, RequestStep, CreateNodeStep, PeersReadStep, TakeTokenStep,
     GetNotifyChanStep DEF HandlerStep
<1>3. ASSUME NEW h \in Handlers, Finish(h) PROVE IInv'
  BY <1>3, RequestStep
<1>4. ASSUME NEW i \in Ids, Expire(i) PROVE IInv'
  BY <1>4, ExpireStep DEF Expire, svcVars, reqVars, IInv, TypeOK
<1>5. CASE Restart
  BY <1>5, RestartStep
<1>6. CASE UNCHANGED vars
  BY <1>6, ExpireStep DEF vars, IInv, TypeOK
<1>7. QED
  BY <1>1, <1>2, <1>3, <1>4, <1>5, <1>6 DEF Next

THEOREM Invariance == Spec => []IInv
<1>1. Init => IInv
  BY InitIInv
<1>2. IInv /\ [Next]_vars => IInv'
  BY NextIInv
<1>3. QED
  BY <1>1, <1>2, PTL DEF Spec

(***************************************************************************)
(* What the invariant gives: the types, and the two safety properties of   *)
(* the server, that no two rows share an address (registerNode and New)    *)
(* and that an announced node is not lost (getNotifyChan and Update).      *)
(***************************************************************************)
THEOREM TypeCorrect == Spec => []TypeOK
<1>1. IInv => TypeOK
  BY DEF IInv
<1>2. QED
  BY <1>1, Invariance, PTL

THEOREM AddressesUnique == Spec => []UniqueAddresses
<1>1. IInv => UniqueAddresses
  BY DEF IInv, AddressInv, UniqueAddresses
<1>2. QED
  BY <1>1, Invariance, PTL

THEOREM NoticesKept == Spec => []NoticeCovered
<1>1. IInv => NoticeCovered
  BY DEF IInv
<1>2. QED
  BY <1>1, Invariance, PTL

-----------------------------------------------------------------------------
(***************************************************************************)
(* The server implements the pool of addresses.  The only step that moves  *)
(* the table is the INSERT, and it leases the lowest free address.         *)
(***************************************************************************)
LEMMA InsertLeases ==
  ASSUME IInv, NEW h \in Handlers, CreateNode(h)
  PROVE  Pool!Lease(req[h].key, nextIP) /\ req[h].key \in Keys
                                       /\ nextIP \in 1..MaxNodes
<1>1. /\ req[h].key \in Keys /\ newIP[h] = nextIP /\ TypeOK /\ AddressInv
      /\ Len(nodes) < MaxNodes
  BY DEF IInv, HandlerInv, CreateNode
<1>2. /\ Len(nodes) \in Nat /\ Len(nodes') = Len(nodes) + 1
      /\ \A i \in Ids : nodes'[i] = nodes[i]
      /\ nodes'[Len(nodes) + 1] = [key |-> req[h].key, ip |-> newIP[h]]
  BY <1>1, RowsAfterInsert
<1>3. nextIP \in 1..MaxNodes
  BY <1>1, <1>2 DEF AddressInv
<1>4. Leases' = Leases \cup {[key |-> req[h].key, ip |-> nextIP]}
  BY <1>1, <1>2 DEF Leases, Ids
<1>5. Pool!Taken = 1..Len(nodes)
  BY <1>1, <1>2 DEF Pool!Taken, Leases, AddressInv, Ids
<1>6. nextIP = Len(nodes) + 1
  BY <1>1 DEF AddressInv
<1>7. QED
  BY <1>1, <1>2, <1>3, <1>4, <1>5, <1>6 DEF Pool!Lease

LEMMA PoolInit == Init => Pool!Init
BY DEF Init, Pool!Init, Leases, Ids

LEMMA PoolStep == IInv /\ [Next]_vars => [Pool!Next]_Leases
<1> SUFFICES ASSUME IInv, [Next]_vars PROVE [Pool!Next]_Leases
  OBVIOUS
<1>1. ASSUME NEW h \in Handlers, CreateNode(h) PROVE Pool!Next
  BY <1>1, InsertLeases DEF Pool!Next
<1>2. CASE UNCHANGED nodes
  BY <1>2 DEF Leases, Ids
<1>3. (\A h \in Handlers : ~CreateNode(h)) => UNCHANGED nodes
  BY DEF Next, HandlerStep, Begin, LoginNode, RegisterNode, CreateNodeFails,
     Update, GetNotifyChan, TakeToken, PollTimeout, GetPeersOfNode,
     QueryFails, Finish, Expire, Restart, dbVars, vars
<1>4. QED
  BY <1>1, <1>2, <1>3

THEOREM PoolRefinement == Spec => ImplementsAddressPool
<1>1. Init => Pool!Init
  BY PoolInit
<1>2. IInv /\ [Next]_vars => [Pool!Next]_Leases
  BY PoolStep
<1>3. QED
  BY <1>1, <1>2, Invariance, PTL
     DEF Spec, ImplementsAddressPool, Pool!Spec
=============================================================================
