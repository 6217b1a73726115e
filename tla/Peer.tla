--------------------------------- MODULE Peer ---------------------------------
(***************************************************************************)
(* One Peer object of a node: the search for a direct path to another node *)
(* and the choice between that path and the relay.  Each handler holds     *)
(* Peer.mu from its first to its last line, so it is a function from the   *)
(* state of the object to its new state and to what it sends:              *)
(*   udp     a set of [kind, ep], packets for endpoints of the other node  *)
(*   relay   a sequence of packets for the other node through the relay    *)
(*                                                                         *)
(* A time.Time field is its age, capped at Never, which is also the age of *)
(* the zero time.  The thresholds are constants; the code's are 5 s        *)
(* (PingEvery, PruneWindow), 9 s (CheckEvery), 10 s (SilentAfter,          *)
(* FullIdle), 20 s (FullActive, PongOld) and 5 minutes (SyncEvery).        *)
(***************************************************************************)
EXTENDS Naturals, Sequences, FiniteSets

CONSTANTS
  Endpoints,      \* addresses the other node may have
  None,           \* the invalid netip.AddrPort
  PingEvery,      \* a candidate is not pinged again before this
  PruneWindow,    \* ... and is dead only if pinged this recently
  PongOld,        \* a pong older than this counts for nothing
  PruneAttempts,  \* pings without an answer that make a candidate dead
  CheckEvery,     \* the active address is pinged again after this
  SilentAfter,    \* an active address this long without a pong is invalid
  FullIdle,       \* between full pings without an active address
  FullActive,     \* ... with one
  SyncEvery,      \* between endpoint requests
  Never           \* bound: the age of what never happened

Thresholds == {PingEvery, PruneWindow, PongOld, CheckEvery, SilentAfter,
               FullIdle, FullActive, SyncEvery}

ASSUME PeerAssumption ==
  /\ None \notin Endpoints
  /\ Never \in Nat /\ PruneAttempts \in Nat
  /\ Thresholds \subseteq 0..(Never - 1)
  /\ PruneWindow <= FullIdle /\ FullIdle <= FullActive
  /\ PruneWindow <= PongOld

-----------------------------------------------------------------------------
Age == 0..Never
Rtt == 0..(Never + 1)

\* A duration is never zero; zero is activeAddrRtt without an active address.
Elapsed(age) == age + 1
Older(age)   == IF age < Never THEN age + 1 ELSE Never

\* ponged: receivedPong is not the zero time.  The candidate's rtt is read
\* only by the call that sets it, so it is no part of the state.
Candidate == [lastPing : Age, receivedPong : Age, ponged : BOOLEAN,
              attempts : 0..PruneAttempts]

NewCandidate == [lastPing |-> Never, receivedPong |-> Never, ponged |-> FALSE,
                 attempts |-> 0]

NewPeer ==
  [activeAddr |-> None, activeAddrRtt |-> 0, lastActiveAddrPong |-> Never,
   lastFullCheck |-> Never, lastActiveCheck |-> Never,
   lastEndpointSync |-> Never, candidates |-> [e \in {} |-> NewCandidate]]

CandidateMap == UNION {[S -> Candidate] : S \in SUBSET Endpoints}

PeerState ==
  [activeAddr : Endpoints \cup {None}, activeAddrRtt : Rtt,
   lastActiveAddrPong : Age, lastFullCheck : Age, lastActiveCheck : Age,
   lastEndpointSync : Age, candidates : CandidateMap]

\* Time passes for every field of a Peer.
AgedCandidate(c) ==
  [c EXCEPT !.lastPing = Older(@), !.receivedPong = Older(@)]

Aged(p) ==
  [p EXCEPT !.lastActiveAddrPong = Older(@), !.lastFullCheck = Older(@),
            !.lastActiveCheck = Older(@), !.lastEndpointSync = Older(@),
            !.candidates = [e \in DOMAIN p.candidates |->
                              AgedCandidate(p.candidates[e])]]

-----------------------------------------------------------------------------
Done(p)             == [peer |-> p, udp |-> {}, relay |-> <<>>]
Sent(p, udp, relay) == [peer |-> p, udp |-> udp, relay |-> relay]

PingTo(e)      == [kind |-> "ping", ep |-> e]
PongTo(e)      == [kind |-> "pong", ep |-> e]
DataTo(e)      == [kind |-> "data", ep |-> e]
RelayData      == [kind |-> "data"]
Request(ours)  == [kind |-> "request", eps |-> ours]
Response(ours) == [kind |-> "response", eps |-> ours]

-----------------------------------------------------------------------------
(***************************************************************************)
(* pingAllLocked: a ping to each candidate that was not pinged lately.     *)
(* What maybePruneCandidate finds dead is left out, not removed.           *)
(***************************************************************************)
MaybePrune(c) ==
  /\ c.lastPing <= PruneWindow
  /\ ~c.ponged \/ c.receivedPong > PongOld
  /\ c.attempts >= PruneAttempts

Pinged(p) == {e \in DOMAIN p.candidates :
                /\ ~MaybePrune(p.candidates[e])
                /\ p.candidates[e].lastPing >= PingEvery}

Attempt(n) == IF n < PruneAttempts THEN n + 1 ELSE n

Pinging(c) == [c EXCEPT !.lastPing = 0, !.attempts = Attempt(@)]

AfterPings(p) ==
  [e \in DOMAIN p.candidates |->
     IF e \in Pinged(p) THEN Pinging(p.candidates[e]) ELSE p.candidates[e]]

PingAll(p) ==
  [p EXCEPT !.lastFullCheck = 0, !.candidates = AfterPings(p)]

PingAllPackets(p) == {PingTo(e) : e \in Pinged(p)}

(***************************************************************************)
(* write, without an active address: ask for endpoints, or ping those      *)
(* there are, and send the packet through the relay meanwhile.             *)
(***************************************************************************)
\* (variant: endpoints are asked for only when there are none)
MustSync_Once(p) == p.candidates = NewPeer.candidates

MustSync(p) ==
  \/ p.candidates = NewPeer.candidates
  \/ p.lastEndpointSync > SyncEvery

WriteByRelay(p, ours) ==
  CASE MustSync(p) ->
         Sent([p EXCEPT !.lastEndpointSync = 0], {},
              <<Request(ours), RelayData>>)
    [] ~MustSync(p) /\ p.lastFullCheck > FullIdle ->
         Sent(PingAll(p), PingAllPackets(p), <<RelayData>>)
    [] OTHER ->
         Sent(p, {}, <<RelayData>>)

(***************************************************************************)
(* write, with an active address.  That it has been silent for too long is *)
(* seen only by a write that neither pings all nor checks the address.     *)
(***************************************************************************)
\* (variant: the round trip time is kept)
GiveUp_KeepsRtt(p) == [p EXCEPT !.activeAddr = None]

GiveUp(p) == [p EXCEPT !.activeAddr = None, !.activeAddrRtt = 0]

\* (variant: the time of the check is not taken down)
WriteDirect_NoStamp(p) ==
  CASE p.lastFullCheck > FullActive ->
         Sent(PingAll(p), PingAllPackets(p) \cup {DataTo(p.activeAddr)}, <<>>)
    [] p.lastFullCheck <= FullActive /\ p.lastActiveCheck >= CheckEvery ->
         Sent(p, {PingTo(p.activeAddr), DataTo(p.activeAddr)}, <<>>)
    [] p.lastFullCheck <= FullActive /\ p.lastActiveCheck < CheckEvery
       /\ p.lastActiveAddrPong > SilentAfter ->
         Sent(GiveUp(p), {}, <<RelayData>>)
    [] OTHER ->
         Sent(p, {DataTo(p.activeAddr)}, <<>>)

WriteDirect(p) ==
  CASE p.lastFullCheck > FullActive ->
         Sent(PingAll(p), PingAllPackets(p) \cup {DataTo(p.activeAddr)}, <<>>)
    [] p.lastFullCheck <= FullActive /\ p.lastActiveCheck >= CheckEvery ->
         Sent([p EXCEPT !.lastActiveCheck = 0],
              {PingTo(p.activeAddr), DataTo(p.activeAddr)}, <<>>)
    [] p.lastFullCheck <= FullActive /\ p.lastActiveCheck < CheckEvery
       /\ p.lastActiveAddrPong > SilentAfter ->
         Sent(GiveUp(p), {}, <<RelayData>>)
    [] OTHER ->
         Sent(p, {DataTo(p.activeAddr)}, <<>>)

Write(p, ours) ==
  IF p.activeAddr = None THEN WriteByRelay(p, ours) ELSE WriteDirect(p)

-----------------------------------------------------------------------------
\* A ping is answered if it comes from a candidate.
HandlePing(p, e) ==
  IF e \in DOMAIN p.candidates THEN Sent(p, {PongTo(e)}, <<>>) ELSE Done(p)

(***************************************************************************)
(* handlePong.  The first pong of a candidate is answered by a ping; the   *)
(* next may make it the active address, or a better one than the active.   *)
(***************************************************************************)
RttOf(p, e) == Elapsed(p.candidates[e].lastPing)

Ponged(c) == [c EXCEPT !.ponged = TRUE, !.receivedPong = 0]

Noted(p, e) == [p EXCEPT !.candidates[e] = Ponged(@)]

\* (variant: the ping alone is noted)
FirstReply_NotNoted(p, e) ==
  [p EXCEPT !.candidates[e] = [@ EXCEPT !.ponged = TRUE, !.lastPing = 0]]

FirstReply(p, e) ==
  [p EXCEPT !.candidates[e] = [Ponged(@) EXCEPT !.lastPing = 0]]

\* The first active address: lastActiveAddrPong is not set.
Activated(p, e) ==
  [Noted(p, e) EXCEPT !.activeAddr = e, !.activeAddrRtt = RttOf(p, e)]

Better(p, e) == RttOf(p, e) < p.activeAddrRtt /\ p.activeAddrRtt # 0

Switched(p, e) ==
  [Activated(p, e) EXCEPT !.lastActiveCheck = 0, !.lastActiveAddrPong = 0]

Confirmed(p, e) ==
  [Noted(p, e) EXCEPT !.activeAddrRtt = Elapsed(p.lastActiveCheck),
                      !.lastActiveAddrPong = 0]

HandlePong(p, e) ==
  CASE e \notin DOMAIN p.candidates -> Done(p)
    [] e \in DOMAIN p.candidates /\ ~p.candidates[e].ponged ->
         Sent(FirstReply(p, e), {PingTo(e)}, <<>>)
    [] e \in DOMAIN p.candidates /\ p.candidates[e].ponged ->
         Done(CASE p.activeAddr = None -> Activated(p, e)
                [] p.activeAddr = e    -> Confirmed(p, e)
                [] OTHER -> IF Better(p, e) THEN Switched(p, e)
                                            ELSE Noted(p, e))

-----------------------------------------------------------------------------
\* addCandidatesLocked: the new list replaces all candidates, old ones too.
AddCandidates(p, eps) ==
  [p EXCEPT !.candidates = [e \in eps |-> NewCandidate],
            !.lastEndpointSync = 0]

HandleEndpointRequest(p, eps, ours) ==
  Sent(AddCandidates(p, eps), {}, <<Response(ours)>>)

HandleEndpointResponse(p, eps) == Done(AddCandidates(p, eps))
=============================================================================
