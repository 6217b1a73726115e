----------------------------- MODULE Membership -----------------------------
(***************************************************************************)
(* The control server together with the nodes it serves: how a node logs   *)
(* in, comes up, polls for updates in the background and fills the peer    *)
(* table of its controller, and what happens to it when a call fails.      *)
(*                                                                         *)
(* A host runs one node process (package node).  A call of a host is a     *)
(* handler of ControlService with that host as caller; when the connection *)
(* breaks the caller has an error while the handler goes on, an orphan.    *)
(* Node.mu is held during Login, Up and Down, the calls they make          *)
(* included: api tells which of them is in progress.                       *)
(***************************************************************************)
EXTENDS ControlService

CONSTANTS
  Hosts,      \* machines, each with one node process
  NoCaller,   \* the caller of a handler nobody waits for
  PrefixSize, \* addresses in the prefix, from the first that is given out
  MaxFaults   \* bound: failures of calls, queries, processes, keys

ASSUME MembershipAssumption ==
  /\ PrefixSize \in Nat
  /\ NoCaller \notin Hosts \X {"api", "routine"}
  /\ MaxFaults \in Nat

VARIABLES
  host,       \* the state of each node process
  caller,     \* handler -> who waits for its response
  usedKeys,   \* keys drawn by NewPrivateKey so far
  faults      \* failures so far

hostVars == <<host, caller, usedKeys, faults>>
allVars  == <<vars, hostVars>>

(***************************************************************************)
(* key      Node.privateKey, publicKey and client.nodeKey, set together    *)
(* api      the call that holds Node.mu                                    *)
(* running  Node.running                                                   *)
(* ctx      Node.runCtx                                                    *)
(* up       Controller.up, and nodeID the ID its UdpMux was made with      *)
(* config   the node ID of Controller.config, which has its NodeIP         *)
(* routine  the goroutine of startUpdateRoutine                            *)
(* byID, byIP   Controller.peersByID (its keys) and peersByIP              *)
(***************************************************************************)
NewNode ==
  [key |-> ZeroKey, api |-> "idle", running |-> FALSE, ctx |-> "none",
   up |-> FALSE, nodeID |-> 0, config |-> 0, routine |-> "off",
   byID |-> {}, byIP |-> [a \in {} |-> 0]]

MembershipInit ==
  /\ Init
  /\ host = [n \in Hosts |-> NewNode]
  /\ caller = [h \in Handlers |-> NoCaller]
  /\ usedKeys = {}
  /\ faults = 0

-----------------------------------------------------------------------------
\* What a call that returns an error does to the process that made it.
\* (variant: the key is kept when the login fails)
LoginFailed_KeepsKey(p) == [p EXCEPT !.api = "idle"]

LoginFailed(p)  == [p EXCEPT !.api = "idle", !.key = ZeroKey]
UpFailed(p)     == [p EXCEPT !.api = "idle"]
RoutineEnded(p) == [p EXCEPT !.routine = "off"]

CallFailed(p, who) ==
  CASE who = "routine"                  -> RoutineEnded(p)
    [] who = "api" /\ p.api = "login"   -> LoginFailed(p)
    [] OTHER                            -> UpFailed(p)

\* ProcessPeerUpdate: the peers not known yet are added, nothing is removed.
ProcessPeerUpdate(p, ps) ==
  LET new == ps \ p.byID
      ips == {nodes[i].ip : i \in new}
  IN [p EXCEPT !.byID = @ \cup new,
               !.byIP = [a \in DOMAIN @ \cup ips |->
                           IF a \in ips
                           THEN CHOOSE i \in new : nodes[i].ip = a
                           ELSE @[a]]]

\* startTunLoop: the peers a packet for address a is given to, at most one.
Route(n, a) ==
  IF \/ a = nodes[host[n].config].ip
     \/ a \notin 1..PrefixSize
     \/ a \notin DOMAIN host[n].byIP
  THEN {}
  ELSE {host[n].byIP[a]}

\* Host n waits for handler h on behalf of who, and h has answered.
Answered(n, who, h) == caller[h] = <<n, who>> /\ pc[h] = "done"

Call(n, who, h, r) ==
  /\ caller[h] = NoCaller
  /\ Begin(h, r)
  /\ caller' = [caller EXCEPT ![h] = <<n, who>>]

Return(n, h, p) ==
  /\ Finish(h)
  /\ caller' = [caller EXCEPT ![h] = NoCaller]
  /\ host' = [host EXCEPT ![n] = p]
  /\ UNCHANGED <<usedKeys, faults>>

-----------------------------------------------------------------------------
\* Node.Login: draw a key unless there is one, and send it.
Login(n, h) ==
  LET p == host[n]
  IN /\ p.api = "idle"
     /\ \E k \in IF p.key = ZeroKey THEN Keys \ usedKeys ELSE {p.key} :
          /\ Call(n, "api", h, [op |-> "login", key |-> k])
          /\ host' = [host EXCEPT ![n].api = "login", ![n].key = k]
          /\ usedKeys' = usedKeys \cup {k}
     /\ UNCHANGED faults

LoginReturns(n, h) ==
  /\ host[n].api = "login"
  /\ Answered(n, "api", h)
  /\ Return(n, h, IF resp[h].status = "ok"
                  THEN [host[n] EXCEPT !.api = "idle"]
                  ELSE LoginFailed(host[n]))

\* Node.Up: ask for the full state.
Up(n, h) ==
  LET p == host[n]
  IN /\ p.api = "idle"
     /\ ~p.running
     /\ p.key # ZeroKey
     /\ Call(n, "api", h, [op |-> "sync", key |-> p.key])
     /\ host' = [host EXCEPT ![n].api = "sync"]
     /\ UNCHANGED <<usedKeys, faults>>

(***************************************************************************)
(* The rest of Up: a new run context, then Controller.Up.  It refuses when *)
(* the controller is up already, and Node.Down never takes it down.        *)
(***************************************************************************)
SetConfig(p, r) == [p EXCEPT !.ctx = "live", !.config = r.config]

ControllerUp(p, r) ==
  [p EXCEPT !.up = TRUE, !.nodeID = r.config, !.api = "health"]

\* (variant: Controller.Up does not look at its own up)
SyncReturns_UpAgain(n, h) ==
  LET p == host[n]
  IN /\ p.api = "sync"
     /\ Answered(n, "api", h)
     /\ Return(n, h,
          IF resp[h].status # "ok" THEN UpFailed(p)
          ELSE ProcessPeerUpdate(ControllerUp(SetConfig(p, resp[h]), resp[h]),
                                 resp[h].peers))

SyncReturns(n, h) ==
  LET p == host[n]
  IN /\ p.api = "sync"
     /\ Answered(n, "api", h)
     /\ Return(n, h,
          IF resp[h].status # "ok" THEN UpFailed(p)
          ELSE IF p.up THEN UpFailed(SetConfig(p, resp[h]))
          ELSE ProcessPeerUpdate(ControllerUp(SetConfig(p, resp[h]), resp[h]),
                                 resp[h].peers))

\* Controller.Up fails at the socket or the tunnel: it stays down.
ControllerUpFails(n, h) ==
  LET p == host[n]
  IN /\ p.api = "sync" /\ ~p.up
     /\ Answered(n, "api", h) /\ resp[h].status = "ok"
     /\ faults < MaxFaults
     /\ faults' = faults + 1
     /\ Finish(h)
     /\ caller' = [caller EXCEPT ![h] = NoCaller]
     /\ host' = [host EXCEPT ![n] = UpFailed(SetConfig(p, resp[h]))]
     /\ UNCHANGED usedKeys

\* startUpdateRoutine, once the health check has passed.
StartUpdateRoutine(n) ==
  /\ host[n].api = "health"
  /\ host' = [host EXCEPT ![n].routine = "check", ![n].running = TRUE,
                          ![n].api = "idle"]
  /\ UNCHANGED <<vars, caller, usedKeys, faults>>

\* Node.Down: the context is cancelled, the controller is left as it is.
Down(n) ==
  /\ host[n].api = "idle"
  /\ host[n].running
  /\ host' = [host EXCEPT ![n].running = FALSE, ![n].ctx = "cancelled"]
  /\ UNCHANGED <<vars, caller, usedKeys, faults>>

\* The update routine: leave if the context is done, else poll ...
RoutineStops(n) ==
  /\ host[n].routine = "check"
  /\ host[n].ctx = "cancelled"
  /\ host' = [host EXCEPT ![n] = RoutineEnded(@)]
  /\ UNCHANGED <<vars, caller, usedKeys, faults>>

Poll(n, h) ==
  /\ host[n].routine = "check"
  /\ host[n].ctx = "live"
  /\ Call(n, "routine", h, [op |-> "poll", key |-> host[n].key])
  /\ host' = [host EXCEPT ![n].routine = "poll"]
  /\ UNCHANGED <<usedKeys, faults>>

\* ... and pass the peers of the answer on; any error ends it for good.
PollReturns(n, h) ==
  LET p == host[n]
  IN /\ p.routine = "poll"
     /\ Answered(n, "routine", h)
     /\ Return(n, h,
          IF resp[h].status # "ok" THEN RoutineEnded(p)
          ELSE ProcessPeerUpdate([p EXCEPT !.routine = "check"],
                                 resp[h].peers))

-----------------------------------------------------------------------------
\* The server's own steps, those that fail counted as faults.
Serve(h) ==
  /\ \/ LoginNode(h) \/ RegisterNode(h) \/ CreateNode(h) \/ Update(h)
     \/ GetNotifyChan(h) \/ TakeToken(h) \/ PollTimeout(h)
     \/ GetPeersOfNode(h)
  /\ UNCHANGED hostVars

\* The response of an orphan goes nowhere.
FinishOrphan(h) ==
  /\ caller[h] = NoCaller
  /\ Finish(h)
  /\ UNCHANGED hostVars

\* Its request context is cancelled, which may fail its queries.
OrphanFails(h) ==
  /\ caller[h] = NoCaller
  /\ QueryFails(h) \/ CreateNodeFails(h)
  /\ UNCHANGED hostVars

-----------------------------------------------------------------------------
Fault == faults < MaxFaults /\ faults' = faults + 1

\* The connection of a call breaks or the client times out.
Disconnect(h) ==
  /\ Fault
  /\ caller[h] # NoCaller
  /\ host' = [host EXCEPT ![caller[h][1]] = CallFailed(@, caller[h][2])]
  /\ caller' = [caller EXCEPT ![h] = NoCaller]
  /\ UNCHANGED <<vars, usedKeys>>

HealthFails(n) ==
  /\ Fault
  /\ host[n].api = "health"
  /\ host' = [host EXCEPT ![n] = UpFailed(@)]
  /\ UNCHANGED <<vars, caller, usedKeys>>

DatabaseFails(h) ==
  /\ Fault
  /\ QueryFails(h) \/ CreateNodeFails(h)
  /\ UNCHANGED <<host, caller, usedKeys>>

KeyExpires(i) ==
  /\ Fault
  /\ Expire(i)
  /\ UNCHANGED <<host, caller, usedKeys>>

\* The server restarts, and every call in progress fails.
Waits(n, who) == \E h \in Handlers : caller[h] = <<n, who>>
ServerRestarts ==
  /\ Fault
  /\ Restart
  /\ caller' = [h \in Handlers |-> NoCaller]
  /\ host' = [n \in Hosts |->
       LET p == IF Waits(n, "routine") THEN RoutineEnded(host[n]) ELSE host[n]
       IN IF Waits(n, "api") THEN CallFailed(p, "api") ELSE p]
  /\ UNCHANGED usedKeys

\* A node process dies and is started again: it has no key and no peers.
HostRestarts(n) ==
  /\ Fault
  /\ host[n] # NewNode
  /\ host' = [host EXCEPT ![n] = NewNode]
  /\ caller' = [h \in Handlers |->
       IF caller[h] \in {n} \X {"api", "routine"} THEN NoCaller
       ELSE caller[h]]
  /\ UNCHANGED <<vars, usedKeys>>

-----------------------------------------------------------------------------
\* The goroutine that called Login or Up, and the update routine.
ApiStep(n) ==
  \/ \E h \in Handlers : LoginReturns(n, h) \/ SyncReturns(n, h)
  \/ StartUpdateRoutine(n)

RoutineStep(n) ==
  \/ \E h \in Handlers : Poll(n, h) \/ PollReturns(n, h)
  \/ RoutineStops(n)

UserStep(n) ==
  \/ \E h \in Handlers : Login(n, h) \/ Up(n, h)
  \/ Down(n)

FaultStep ==
  \/ \E h \in Handlers : Disconnect(h) \/ DatabaseFails(h)
  \/ \E n \in Hosts : \/ HealthFails(n)
                      \/ HostRestarts(n)
                      \/ \E h \in Handlers : ControllerUpFails(n, h)
  \/ \E i \in Ids : KeyExpires(i)
  \/ ServerRestarts

MembershipNext ==
  \/ \E n \in Hosts : ApiStep(n) \/ RoutineStep(n) \/ UserStep(n)
  \/ \E h \in Handlers : Serve(h) \/ FinishOrphan(h) \/ OrphanFails(h)
  \/ FaultStep

(***************************************************************************)
(* Goroutines are scheduled and answers arrive; users need not act.  The   *)
(* update routine is strongly fair because its call may find all Handlers  *)
(* busy, which the server, with a goroutine for each request, never is.    *)
(* The mutex needs no more than weak fairness here: it is contended only   *)
(* by registrations, and each key registers once.  A                       *)
(* token in the buffered channel is ready when a poll enters its select,   *)
(* ten seconds before the timer, so the timer does not win for ever.       *)
(***************************************************************************)
MembershipFairness ==
  /\ \A n \in Hosts : WF_allVars(ApiStep(n)) /\ SF_allVars(RoutineStep(n))
  /\ \A h \in Handlers :
       /\ WF_allVars(Serve(h))
       /\ WF_allVars(FinishOrphan(h))
       /\ SF_allVars(TakeToken(h) /\ UNCHANGED hostVars)

MembershipSpec ==
  MembershipInit /\ [][MembershipNext]_allVars /\ MembershipFairness

-----------------------------------------------------------------------------
MembershipTypeOK ==
  /\ TypeOK
  /\ \A n \in Hosts :
       LET p == host[n]
       IN /\ p.key \in Keys \cup {ZeroKey}
          /\ p.api \in {"idle", "login", "sync", "health"}
          /\ p.running \in BOOLEAN /\ p.up \in BOOLEAN
          /\ p.ctx \in {"none", "live", "cancelled"}
          /\ p.routine \in {"off", "check", "poll"}
          /\ {p.nodeID, p.config} \subseteq 0..Len(nodes)
          /\ p.byID \subseteq Ids
          /\ p.byIP \in [DOMAIN p.byIP -> Ids]
  /\ caller \in [Handlers -> Hosts \X {"api", "routine"} \cup {NoCaller}]
  /\ usedKeys \subseteq Keys
  /\ faults \in 0..MaxFaults

(***************************************************************************)
(* A key has at most one row.  LoginNode itself does not see to it: it     *)
(* looks the key up and registers it in two critical sections.  It holds   *)
(* because a node that has an error from Login throws its key away, so two *)
(* logins of one key never overlap.                                        *)
(***************************************************************************)
OneRowPerKey ==
  \A i, j \in Ids : nodes[i].key = nodes[j].key => i = j

(***************************************************************************)
(* A packet of the tunnel for the address of a known peer goes to that     *)
(* peer, if the address is in the prefix and not the node's own by its     *)
(* latest config; nothing goes to an address of nobody, and nothing to one *)
(* that the server gave out beyond the end of the prefix.  It rests on the *)
(* server's addresses being unique, since AddPeer overwrites peersByIP.    *)
(***************************************************************************)
Routable(n, i) == nodes[i].ip <= PrefixSize /\ i # host[n].config

RoutesAgree ==
  \A n \in Hosts :
    host[n].up =>
      \A a \in 1..MaxNodes :
        Route(n, a) = {i \in host[n].byID : nodes[i].ip = a /\ Routable(n, i)}

(***************************************************************************)
(* The poll of n waits at the server with nothing in its channel.          *)
(***************************************************************************)
QuietPoll(n, h) ==
  caller[h] = <<n, "routine">> /\ pc[h] = "wait" /\ notifyChans[node[h]] = 0

(***************************************************************************)
(* When two nodes wait for updates and none is pending, at least one of    *)
(* them knows the other: whichever polled first was told of the second.    *)
(***************************************************************************)
LinkedWhenQuiet ==
  \A n, m \in Hosts : \A h, g \in Handlers :
    (n # m /\ QuietPoll(n, h) /\ QuietPoll(m, g)) =>
      node[g] \in host[n].byID \/ node[h] \in host[m].byID

(***************************************************************************)
(* Update: "Node is not requesting fast full sync, check notify chan for   *)
(* updates".  A node whose channel is empty has nothing to be told of      *)
(* another node that waits like itself.                                    *)
(***************************************************************************)
NotifyChanHasUpdates ==
  \A n, m \in Hosts : \A h, g \in Handlers :
    (n # m /\ QuietPoll(n, h) /\ QuietPoll(m, g)) =>
      node[g] \in host[n].byID

(***************************************************************************)
(* Up reaches startUpdateRoutine only when no update routine of an earlier *)
(* Up is left, even if Down and Up are called while it waits for the       *)
(* answer to its poll: it would find the new context live and go on beside *)
(* the new one.  It rests on the controller that Down leaves up, at which  *)
(* the second Up stops; a Down that took the controller down as well would *)
(* have to wait for the routine.                                           *)
(***************************************************************************)
OneUpdateRoutine ==
  \A n \in Hosts : host[n].api = "health" => host[n].routine = "off"

(***************************************************************************)
(* A node announced to one that is running is in the peer table of that    *)
(* one eventually, unless its user stops it: where no call fails, the      *)
(* update routine of a running node does not end.                          *)
(***************************************************************************)
Announced(n, i) ==
  /\ host[n].running
  /\ host[n].nodeID \in DOMAIN unseen
  /\ i \in unseen[host[n].nodeID]

AnnouncedIsLearned ==
  \A n \in Hosts : \A i \in 1..MaxNodes :
    Announced(n, i) ~> (i \in host[n].byID \/ ~host[n].running)
=============================================================================
