------------------------------- MODULE PeerPath -------------------------------
(***************************************************************************)
(* One Peer in an environment that does what the other node and the        *)
(* network may do to it: packets from the tunnel at any rate, pongs to its *)
(* pings early, late or never, lists of endpoints at any time, and the     *)
(* passing of time.                                                        *)
(***************************************************************************)
EXTENDS Peer

CONSTANTS
  MaxFlight   \* bound: the age at which a ping on its way is lost

\* The code's: 9 s between checks, 10 s of silence, 20 s between full pings.
ASSUME FlightAssumption ==
  /\ MaxFlight \in Nat
  /\ CheckEvery <= SilentAfter /\ 2 * CheckEvery <= FullActive

VARIABLES
  peer,      \* the Peer object
  flight,    \* endpoint -> ages of the pings that may still be answered
  asked,     \* an endpoint request of ours is not answered yet
  quiet,     \* history: the time since the last write, up to CheckEvery
  burst      \* history: packets in a row written to a silent address

vars == <<peer, flight, asked, quiet, burst>>

Init ==
  /\ peer = NewPeer
  /\ flight = [e \in Endpoints |-> {}]
  /\ asked = FALSE
  /\ quiet = CheckEvery
  /\ burst = 0

\* The object after a handler, and the pings the handler sent.
After(r) ==
  /\ peer' = r.peer
  /\ asked' = (asked \/ Request({}) \in {r.relay[i] : i \in DOMAIN r.relay})

Flying(f, r) ==
  [e \in Endpoints |-> IF PingTo(e) \in r.udp THEN f[e] \cup {0} ELSE f[e]]

-----------------------------------------------------------------------------
\* The active address has not answered for too long.
Silent(p) == p.activeAddr # None /\ p.lastActiveAddrPong > SilentAfter

\* inboundTunPacket.
TunPacket ==
  LET r == Write(peer, {})
  IN /\ After(r)
     /\ flight' = Flying(flight, r)
     /\ quiet' = 0
     /\ burst' = IF Silent(peer) /\ r.peer.activeAddr # None
                 THEN (IF quiet < CheckEvery THEN burst ELSE 0) + 1
                 ELSE 0

\* The pong to a ping of age a comes in.
PongArrives(e, a) ==
  LET r == HandlePong(peer, e)
  IN /\ a \in flight[e]
     /\ After(r)
     /\ flight' = Flying([flight EXCEPT ![e] = @ \ {a}], r)
     /\ UNCHANGED <<quiet, burst>>

\* The other node's endpoints come in, on its request or as its response.
EndpointRequestArrives(eps) ==
  /\ After(HandleEndpointRequest(peer, eps, {}))
  /\ UNCHANGED <<flight, quiet, burst>>

EndpointResponseArrives(eps) ==
  /\ asked
  /\ peer' = HandleEndpointResponse(peer, eps).peer
  /\ asked' = FALSE
  /\ UNCHANGED <<flight, quiet, burst>>

\* A unit of time passes; pings that are too old are lost.
Tick ==
  /\ peer' = Aged(peer)
  /\ flight' = [e \in Endpoints |->
                  {a + 1 : a \in {b \in flight[e] : b < MaxFlight}}]
  /\ quiet' = IF quiet < CheckEvery THEN quiet + 1 ELSE CheckEvery
  /\ UNCHANGED <<asked, burst>>

Next ==
  \/ TunPacket
  \/ \E e \in Endpoints : \E a \in flight[e] : PongArrives(e, a)
  \/ \E eps \in SUBSET Endpoints :
       EndpointRequestArrives(eps) \/ EndpointResponseArrives(eps)
  \/ Tick

Spec == Init /\ [][Next]_vars

-----------------------------------------------------------------------------
PathTypeOK ==
  /\ peer \in PeerState
  /\ flight \in [Endpoints -> SUBSET (0..MaxFlight)]
  /\ asked \in BOOLEAN
  /\ quiet \in 0..CheckEvery
  /\ burst \in Nat

(***************************************************************************)
(* The inductive invariant.  The active address has a round trip time and  *)
(* no other time is kept for one; a candidate was last pinged by a full    *)
(* ping, before the last one perhaps, or has had a pong since.             *)
(***************************************************************************)
RttKnown(p) == p.activeAddrRtt = 0 <=> p.activeAddr = None

PingedByFull(p, c) ==
  \/ c.lastPing >= p.lastFullCheck
  \/ c.ponged /\ c.receivedPong <= c.lastPing

PeerInv(p) ==
  /\ p \in PeerState
  /\ RttKnown(p)
  /\ \A e \in DOMAIN p.candidates : PingedByFull(p, p.candidates[e])

PathInv == PathTypeOK /\ PeerInv(peer)

(***************************************************************************)
(* A full ping never finds a dead candidate: maybePruneCandidate needs a   *)
(* ping within PruneWindow, but whatever else pings a candidate has had a  *)
(* pong from it as well, and full pings are further apart.  So unreachable *)
(* candidates are pinged for ever, at every full ping.                     *)
(***************************************************************************)
FullPingDue == peer.lastFullCheck > FullIdle

NeverPruned ==
  FullPingDue => \A e \in DOMAIN peer.candidates :
                   ~MaybePrune(peer.candidates[e])

(***************************************************************************)
(* A path that has gone silent is given up: of packets written less than   *)
(* CheckEvery apart at most three in a row go to an address that has been  *)
(* silent for SilentAfter, also when a new list of endpoints has taken the *)
(* address from the candidates and its pongs are ignored.                  *)
(***************************************************************************)
SilentPathGivenUp == burst <= 3

(***************************************************************************)
(* write: an address with more than SilentAfter since its last pong is     *)
(* "no long valid".  An address that is given up has been silent so long.  *)
(* The code does not keep to that: Activated leaves lastActiveAddrPong as  *)
(* it was, which is Never at first, and the next write gives the path up.  *)
(***************************************************************************)
DiscardedOnlyWhenSilent ==
  [][LET a == peer.activeAddr
     IN (a # None /\ peer'.activeAddr = None /\ a \in DOMAIN peer.candidates)
          => peer.candidates[a].receivedPong > SilentAfter]_vars
=============================================================================
