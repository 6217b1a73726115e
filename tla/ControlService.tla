--------------------------- MODULE ControlService ---------------------------
(***************************************************************************)
(* The control server: its HTTP handlers for /login and /update, the       *)
(* business logic behind them (control_service), the nodes table           *)
(* (database) and a restart of the process.                                *)
(*                                                                         *)
(* Every request runs in a goroutine of its own, a handler; the handlers   *)
(* interleave at their database calls, at the service mutex mu and at the  *)
(* select on a notify channel.  A row of the table has for ID its position *)
(* in the sequence nodes (the column is AUTOINCREMENT and nothing deletes  *)
(* a row), and an address is its distance from the address of the prefix.  *)
(***************************************************************************)
EXTENDS Naturals, Sequences, FiniteSets

CONSTANTS
  Keys,       \* node public keys
  ZeroKey,    \* the all-zero key, which the handlers refuse
  Handlers,   \* goroutines serving requests
  Unlocked,   \* value of mu when no handler holds it
  ChanCap,    \* capacity of a notify channel (5 in the code)
  MaxNodes    \* bound: rows of the nodes table

ASSUME ControlAssumption ==
  /\ ZeroKey \notin Keys
  /\ Unlocked \notin Handlers
  /\ ChanCap \in Nat \ {0}
  /\ MaxNodes \in Nat

VARIABLES
  nodes,        \* the table: a sequence of [key, ip]
  expired,      \* IDs of the rows whose key_expiry has passed
  nextIP,       \* service.nextIP
  mu,           \* service.mu: the handler that holds it, or Unlocked
  notifyChans,  \* service.notifyChans: node ID -> tokens buffered
  pc,           \* where each handler is
  req,          \* the request of each handler
  node,         \* the ID of the node a handler works for, 0 if none yet
  newIP,        \* registerNode's local copy of nextIP
  resp,         \* the response of each handler
  unseen        \* history: ID -> nodes announced to it and not yet answered

dbVars  == <<nodes, expired>>
svcVars == <<nextIP, mu, notifyChans>>
reqVars == <<pc, req, node, newIP, resp>>
vars    == <<nodes, expired, nextIP, mu, notifyChans,
             pc, req, node, newIP, resp, unseen>>

-----------------------------------------------------------------------------
Ids      == 1..Len(nodes)
Request  == [op : {"login", "sync", "poll"}, key : Keys \cup {ZeroKey}]
Status   == {"none", "ok", "invalid", "expired", "error"}
Response == [status : Status, config : Nat, peers : SUBSET Nat]

Labels   == {"idle", "lookup", "register", "insert",
             "chan", "wait", "peers", "done"}

NoRequest  == [op |-> "login", key |-> ZeroKey]
NoResponse == [status |-> "none", config |-> 0, peers |-> {}]

Failure(s)  == [status |-> s, config |-> 0, peers |-> {}]
Success(c, ps) == [status |-> "ok", config |-> c, peers |-> ps]

(***************************************************************************)
(* GetNode: the first row with the key, 0 for ErrNodeNotFound.  GetNodes   *)
(* with the filter of getPeersOfNode: every row but the caller's.          *)
(***************************************************************************)
RowsOf(k)  == {i \in Ids : nodes[i].key = k}
GetNode(k) == IF RowsOf(k) = {} THEN 0
              ELSE CHOOSE i \in RowsOf(k) : \A j \in RowsOf(k) : i <= j

PeersOfNode(id) == Ids \ {id}

(***************************************************************************)
(* New: scan from the address after the prefix's for one that no row has.  *)
(***************************************************************************)
Allocated == {nodes[i].ip : i \in Ids}
\* (variant: the scan forgotten)
FirstFreeIP_NoScan == 1

FirstFreeIP ==
  CHOOSE a \in 1..(Len(nodes) + 1) :
    a \notin Allocated /\ \A b \in 1..(a - 1) : b \in Allocated

(***************************************************************************)
(* notifyAllExceptLocked: a token to every other channel, unless it is     *)
(* full (the default branch of the select).  Variants of a channel: one    *)
(* made without a buffer, and one whose capacity is not looked at.         *)
(***************************************************************************)
Notified_Unbuffered(tokens) == tokens
Notified_Unlimited(tokens)  == tokens + 1

Notified(tokens) == IF tokens < ChanCap THEN tokens + 1 ELSE tokens

NotifyAllExcept(id, chans) ==
  [i \in DOMAIN chans |-> IF i = id THEN chans[i] ELSE Notified(chans[i])]

-----------------------------------------------------------------------------
Init ==
  /\ nodes = <<>>
  /\ expired = {}
  /\ nextIP = 1
  /\ mu = Unlocked
  /\ notifyChans = [i \in {} |-> 0]
  /\ pc = [h \in Handlers |-> "idle"]
  /\ req = [h \in Handlers |-> NoRequest]
  /\ node = [h \in Handlers |-> 0]
  /\ newIP = [h \in Handlers |-> 0]
  /\ resp = [h \in Handlers |-> NoResponse]
  /\ unseen = [i \in {} |-> {}]

(***************************************************************************)
(* A handler can lock mu when no other holds it.  Variant: no mutex.       *)
(***************************************************************************)
CanLock_Always == TRUE
CanLock        == mu = Unlocked

(***************************************************************************)
(* The handler answers: its goroutine is done with everything but the      *)
(* response.                                                               *)
(***************************************************************************)
Answer(h, r) ==
  /\ pc' = [pc EXCEPT ![h] = "done"]
  /\ resp' = [resp EXCEPT ![h] = r]

\* A request with a zero key is refused before any database call.
Begin(h, r) ==
  /\ pc[h] = "idle"
  /\ req' = [req EXCEPT ![h] = r]
  /\ \/ /\ r.key = ZeroKey
        /\ Answer(h, Failure("invalid"))
     \/ /\ r.key # ZeroKey
        /\ pc' = [pc EXCEPT ![h] = "lookup"]
        /\ UNCHANGED resp
  /\ UNCHANGED <<dbVars, svcVars, node, newIP, unseen>>

(***************************************************************************)
(* LoginNode up to registerNode: the row is returned whether or not its    *)
(* key has expired; without one the handler goes on to register, and holds *)
(* no lock in between.                                                     *)
(***************************************************************************)
LoginNode(h) ==
  /\ pc[h] = "lookup"
  /\ req[h].op = "login"
  /\ \/ /\ GetNode(req[h].key) # 0
        /\ Answer(h, Success(0, {}))
     \/ /\ GetNode(req[h].key) = 0
        /\ pc' = [pc EXCEPT ![h] = "register"]
        /\ UNCHANGED resp
  /\ UNCHANGED <<dbVars, svcVars, req, node, newIP, unseen>>

\* registerNode: take the mutex and the next address ...
RegisterNode(h) ==
  /\ pc[h] = "register"
  /\ CanLock
  /\ mu' = h
  /\ newIP' = [newIP EXCEPT ![h] = nextIP]
  /\ pc' = [pc EXCEPT ![h] = "insert"]
  /\ UNCHANGED <<dbVars, nextIP, notifyChans, req, node, resp, unseen>>

\* ... insert the row and move nextIP, then release the mutex.
CreateNode(h) ==
  /\ pc[h] = "insert"
  /\ Len(nodes) < MaxNodes
  /\ nodes' = Append(nodes, [key |-> req[h].key, ip |-> newIP[h]])
  /\ nextIP' = nextIP + 1
  /\ mu' = Unlocked
  /\ Answer(h, Success(0, {}))
  /\ UNCHANGED <<expired, notifyChans, req, node, newIP, unseen>>

\* The INSERT fails: nextIP stays, the deferred unlock still runs.  CreateNode
\* has another error, of LastInsertId once the row is there; the driver of
\* go.mod never returns one.
\* (variant: an unlock at the end of the function only)
CreateNodeFails_KeepsLock(h) ==
  /\ pc[h] = "insert"
  /\ Answer(h, Failure("error"))
  /\ UNCHANGED <<dbVars, svcVars, req, node, newIP, unseen>>

CreateNodeFails(h) ==
  /\ pc[h] = "insert"
  /\ mu' = Unlocked
  /\ Answer(h, Failure("error"))
  /\ UNCHANGED <<dbVars, nextIP, notifyChans, req, node, newIP, unseen>>

(***************************************************************************)
(* Update up to its branch on FullUpdate.                                  *)
(***************************************************************************)
Update(h) ==
  LET id == GetNode(req[h].key)
  IN /\ pc[h] = "lookup"
     /\ req[h].op \in {"sync", "poll"}
     /\ \/ /\ id = 0
           /\ Answer(h, Failure("error"))
           /\ UNCHANGED node
        \/ /\ id \in expired
           /\ Answer(h, Failure("expired"))
           /\ UNCHANGED node
        \/ /\ id \in Ids \ expired
           /\ node' = [node EXCEPT ![h] = id]
           /\ pc' = [pc EXCEPT ![h] =
                       IF req[h].op = "sync" THEN "peers" ELSE "chan"]
           /\ UNCHANGED resp
     /\ UNCHANGED <<dbVars, svcVars, req, newIP, unseen>>

(***************************************************************************)
(* getNotifyChan: a node that polls for the first time gets a channel, and *)
(* that is what announces it to every node that already has one.           *)
(***************************************************************************)
GetNotifyChan(h) ==
  LET id == node[h]
  IN /\ pc[h] = "chan"
     /\ CanLock
     /\ pc' = [pc EXCEPT ![h] = "wait"]
     /\ \/ /\ id \in DOMAIN notifyChans
           /\ UNCHANGED <<notifyChans, unseen>>
        \/ /\ id \notin DOMAIN notifyChans
           /\ LET chans == [i \in DOMAIN notifyChans \cup {id} |->
                              IF i = id THEN 0 ELSE notifyChans[i]]
              IN notifyChans' = NotifyAllExcept(id, chans)
           /\ unseen' = [i \in DOMAIN notifyChans \cup {id} |->
                           IF i = id THEN {} ELSE unseen[i] \cup {id}]
     /\ UNCHANGED <<dbVars, nextIP, mu, req, node, newIP, resp>>

\* The select of a poll: the token ...
TakeToken(h) ==
  /\ pc[h] = "wait"
  /\ notifyChans[node[h]] > 0
  /\ notifyChans' = [notifyChans EXCEPT ![node[h]] = @ - 1]
  /\ pc' = [pc EXCEPT ![h] = "peers"]
  /\ UNCHANGED <<dbVars, nextIP, mu, req, node, newIP, resp, unseen>>

\* ... or the timer, which may fire although a token is there.
PollTimeout(h) ==
  /\ pc[h] = "wait"
  /\ Answer(h, Success(0, {}))
  /\ UNCHANGED <<dbVars, svcVars, req, node, newIP, unseen>>

\* getPeersOfNode: the answer of a full sync also has the node's config.
GetPeersOfNode(h) ==
  LET id == node[h]
      ps == PeersOfNode(id)
  IN /\ pc[h] = "peers"
     /\ Answer(h, Success(IF req[h].op = "sync" THEN id ELSE 0, ps))
     /\ unseen' = IF req[h].op = "poll"
                  THEN [unseen EXCEPT ![id] = @ \ ps]
                  ELSE unseen
     /\ UNCHANGED <<dbVars, svcVars, req, node, newIP>>

\* A query fails; what a token announced is lost, the caller has an error.
QueryFails(h) ==
  /\ pc[h] \in {"lookup", "peers"}
  /\ Answer(h, Failure("error"))
  /\ unseen' = IF pc[h] = "peers" /\ req[h].op = "poll"
               THEN [unseen EXCEPT ![node[h]] = {}]
               ELSE unseen
  /\ UNCHANGED <<dbVars, svcVars, req, node, newIP>>

\* The response is written and the goroutine ends.
Finish(h) ==
  /\ pc[h] = "done"
  /\ pc' = [pc EXCEPT ![h] = "idle"]
  /\ req' = [req EXCEPT ![h] = NoRequest]
  /\ node' = [node EXCEPT ![h] = 0]
  /\ newIP' = [newIP EXCEPT ![h] = 0]
  /\ resp' = [resp EXCEPT ![h] = NoResponse]
  /\ UNCHANGED <<dbVars, svcVars, unseen>>

-----------------------------------------------------------------------------
\* Thirty days after its registration the key of a row is no longer valid.
Expire(i) ==
  /\ i \in Ids \ expired
  /\ expired' = expired \cup {i}
  /\ UNCHANGED <<nodes, svcVars, reqVars, unseen>>

(***************************************************************************)
(* The process dies at any point and starts again: the table is all that   *)
(* survives, and New computes nextIP from it.                              *)
(***************************************************************************)
Restart ==
  /\ nextIP' = FirstFreeIP
  /\ mu' = Unlocked
  /\ notifyChans' = [i \in {} |-> 0]
  /\ pc' = [h \in Handlers |-> "idle"]
  /\ req' = [h \in Handlers |-> NoRequest]
  /\ node' = [h \in Handlers |-> 0]
  /\ newIP' = [h \in Handlers |-> 0]
  /\ resp' = [h \in Handlers |-> NoResponse]
  /\ unseen' = [i \in {} |-> {}]
  /\ UNCHANGED dbVars

-----------------------------------------------------------------------------
\* What a handler does on its own once it has a request.
HandlerStep(h) ==
  \/ LoginNode(h)
  \/ RegisterNode(h)
  \/ CreateNode(h)
  \/ CreateNodeFails(h)
  \/ Update(h)
  \/ GetNotifyChan(h)
  \/ TakeToken(h)
  \/ PollTimeout(h)
  \/ GetPeersOfNode(h)
  \/ QueryFails(h)

Next ==
  \/ \E h \in Handlers, r \in Request : Begin(h, r)
  \/ \E h \in Handlers : HandlerStep(h)
  \/ \E h \in Handlers : Finish(h)
  \/ \E i \in Ids : Expire(i)
  \/ Restart

(***************************************************************************)
(* A handler goroutine is scheduled until it ends.  Its two waits for mu   *)
(* need strong fairness: sync.Mutex hands the lock to a starving waiter,   *)
(* however many other goroutines pass in between.                          *)
(***************************************************************************)
Fairness ==
  \A h \in Handlers :
    /\ WF_vars(HandlerStep(h))
    /\ SF_vars(RegisterNode(h))
    /\ SF_vars(GetNotifyChan(h))

Spec == Init /\ [][Next]_vars /\ Fairness

-----------------------------------------------------------------------------
(***************************************************************************)
(* What the table stands for: the pool of leased addresses.                *)
(***************************************************************************)
Leases == {nodes[i] : i \in Ids}
Pool   == INSTANCE AddressPool WITH leases <- Leases, PoolSize <- MaxNodes

\* The server implements the pool, whatever its handlers and restarts do.
ImplementsAddressPool == Pool!Spec

-----------------------------------------------------------------------------
TypeOK ==
  /\ nodes \in Seq([key : Keys, ip : Nat])
  /\ expired \subseteq Ids
  /\ nextIP \in Nat
  /\ mu \in Handlers \cup {Unlocked}
  /\ DOMAIN notifyChans \subseteq Ids
  /\ notifyChans \in [DOMAIN notifyChans -> 0..ChanCap]
  /\ pc \in [Handlers -> Labels]
  /\ req \in [Handlers -> Request]
  /\ node \in [Handlers -> Nat]
  /\ newIP \in [Handlers -> Nat]
  /\ resp \in [Handlers -> Response]
  /\ unseen \in [DOMAIN notifyChans -> SUBSET Nat]

(***************************************************************************)
(* No two rows of the table share an address, however registrations        *)
(* interleave, fail, and are cut off by a restart that recomputes nextIP.  *)
(***************************************************************************)
UniqueAddresses ==
  \A i, j \in Ids : nodes[i].ip = nodes[j].ip => i = j

(***************************************************************************)
(* A node that was announced to a waiting node is never lost: there is a   *)
(* token left in that node's channel, or a poll of that node has taken a   *)
(* token and has yet to read the table (it may still fail, which the       *)
(* caller is told).                                                        *)
(***************************************************************************)
Covered(i) ==
  \/ notifyChans[i] > 0
  \/ \E h \in Handlers :
       node[h] = i /\ pc[h] = "peers" /\ req[h].op = "poll"

NoticeCovered ==
  \A i \in DOMAIN unseen : unseen[i] # {} => Covered(i)

(***************************************************************************)
(* The inductive invariant.  A handler that inserts holds the mutex and    *)
(* has the current nextIP; row i has address i, so that nextIP is the      *)
(* first free address also after a restart; a handler that waits or reads  *)
(* peers works for a node with a row, and with a channel if it polls; an   *)
(* announced node has its row already, so reading the table reports it.    *)
(***************************************************************************)
HandlerInv ==
  \A h \in Handlers :
    /\ pc[h] \in {"lookup", "register", "insert"} => req[h].key \in Keys
    /\ pc[h] = "insert" => mu = h /\ newIP[h] = nextIP
    /\ pc[h] \in {"chan", "wait", "peers"} => node[h] \in Ids
    /\ pc[h] \in {"chan", "wait"} => req[h].op = "poll"
    /\ (pc[h] = "wait" \/ (pc[h] = "peers" /\ req[h].op = "poll"))
         => node[h] \in DOMAIN notifyChans

AddressInv ==
  /\ \A i \in Ids : nodes[i].ip = i
  /\ nextIP = Len(nodes) + 1

UnseenInv ==
  \A i \in DOMAIN notifyChans : unseen[i] \subseteq Ids \ {i}

IInv == TypeOK /\ HandlerInv /\ AddressInv /\ UnseenInv /\ NoticeCovered

(***************************************************************************)
(* Every request is answered or dies with the process: no handler waits    *)
(* for ever on the mutex or on its channel.                                *)
(***************************************************************************)
EveryRequestAnswered ==
  \A h \in Handlers : pc[h] # "idle" ~> pc[h] \in {"done", "idle"}

(***************************************************************************)
(* LoginNode's comment: "If the node is found, validate the key is not     *)
(* expired".  A login may succeed on a row only if its key is valid.  The  *)
(* code does not keep to that: the check is commented out.                 *)
(***************************************************************************)
LoginChecksExpiry ==
  [][\A h \in Handlers :
       (pc[h] = "lookup" /\ req[h].op = "login" /\ resp'[h].status = "ok")
         => GetNode(req[h].key) \notin expired]_vars
=============================================================================
