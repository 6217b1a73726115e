---------------------------- MODULE PeerPathProofs ----------------------------
(***************************************************************************)
(* One Peer for every set of endpoints and all thresholds in the order of  *)
(* the code's: every handler preserves the invariant of the object, and a  *)
(* full ping never finds a candidate that is dead.                         *)
(***************************************************************************)
EXTENDS PeerPath, TLAPS

USE PeerAssumption, FlightAssumption

-----------------------------------------------------------------------------
\* A map of candidates is a function on some of the endpoints, and back.
LEMMA MapElim ==
  ASSUME NEW f \in CandidateMap
  PROVE  /\ DOMAIN f \subseteq Endpoints
         /\ f \in [DOMAIN f -> Candidate]
<1>1. PICK S \in SUBSET Endpoints : f \in [S -> Candidate]
  BY DEF CandidateMap
<1>2. QED
  BY <1>1

LEMMA MapIntro ==
  ASSUME NEW S \in SUBSET Endpoints, NEW f \in [S -> Candidate]
  PROVE  f \in CandidateMap
BY DEF CandidateMap

LEMMA NewPeerInv == PeerInv(NewPeer)
<1>1. [e \in {} |-> NewCandidate] \in [{} -> Candidate]
  OBVIOUS
<1>2. NewPeer.candidates \in CandidateMap
  BY <1>1, MapIntro DEF NewPeer
<1>3. NewPeer \in PeerState
  BY <1>2, SMT DEF NewPeer, PeerState, Age, Rtt, Thresholds
<1>4. RttKnown(NewPeer) /\ DOMAIN NewPeer.candidates = {}
  BY DEF RttKnown, NewPeer
<1>5. QED
  BY <1>3, <1>4 DEF PeerInv

-----------------------------------------------------------------------------
(***************************************************************************)
(* The pieces the handlers are made of.                                    *)
(***************************************************************************)
\* A full ping: no candidate has been pinged since.
LEMMA PingAllInv ==
  ASSUME NEW p, PeerInv(p)
  PROVE  PeerInv(PingAll(p))
<1> DEFINE S == DOMAIN p.candidates
           q == PingAll(p)
<1>1. p \in PeerState /\ S \subseteq Endpoints
      /\ p.candidates \in [S -> Candidate]
  BY MapElim DEF PeerInv, PeerState
<1>2. ASSUME NEW c \in Candidate PROVE Pinging(c) \in Candidate
  <2>1. c.attempts \in 0..PruneAttempts /\ 0 \in Age
    BY DEF Candidate, Age
  <2>2. Attempt(c.attempts) \in 0..PruneAttempts
    BY <2>1 DEF Attempt
  <2>3. QED
    BY <2>1, <2>2 DEF Candidate, Pinging
<1>3. AfterPings(p) \in [S -> Candidate]
  BY <1>1, <1>2 DEF AfterPings
<1>4. AfterPings(p) \in CandidateMap
  BY <1>1, <1>3, MapIntro
<1>5. 0 \in Age
  BY DEF Age
<1>6. q \in PeerState
  BY <1>1, <1>4, <1>5 DEF PingAll, PeerState
<1>7. /\ q.activeAddr = p.activeAddr /\ q.activeAddrRtt = p.activeAddrRtt
      /\ q.lastFullCheck = 0 /\ q.candidates = AfterPings(p)
  BY <1>1 DEF PingAll, PeerState
<1>8. \A e \in S : AfterPings(p)[e].lastPing >= 0
  BY <1>3 DEF Candidate, Age
<1>9. \A e \in DOMAIN q.candidates : PingedByFull(q, q.candidates[e])
  BY <1>3, <1>7, <1>8 DEF PingedByFull
<1>10. RttKnown(q)
  BY <1>7 DEF PeerInv, RttKnown
<1>11. QED
  BY <1>6, <1>9, <1>10 DEF PeerInv

\* A field that the invariant leaves free.
LEMMA FieldInv ==
  ASSUME NEW p, PeerInv(p)
  PROVE  /\ PeerInv([p EXCEPT !.lastEndpointSync = 0])
         /\ PeerInv([p EXCEPT !.lastActiveCheck = 0])
         /\ PeerInv(GiveUp(p))
<1>1. p \in PeerState /\ 0 \in Age /\ 0 \in Rtt
  BY DEF PeerInv, Age, Rtt
<1>2. PeerInv([p EXCEPT !.lastEndpointSync = 0])
  <2> DEFINE q == [p EXCEPT !.lastEndpointSync = 0]
  <2>1. q \in PeerState
    BY <1>1 DEF PeerState
  <2>2. /\ q.activeAddr = p.activeAddr /\ q.activeAddrRtt = p.activeAddrRtt
        /\ q.lastFullCheck = p.lastFullCheck /\ q.candidates = p.candidates
    BY <1>1 DEF PeerState
  <2>3. QED
    BY <2>1, <2>2 DEF PeerInv, RttKnown, PingedByFull
<1>3. PeerInv([p EXCEPT !.lastActiveCheck = 0])
  <2> DEFINE q == [p EXCEPT !.lastActiveCheck = 0]
  <2>1. q \in PeerState
    BY <1>1 DEF PeerState
  <2>2. /\ q.activeAddr = p.activeAddr /\ q.activeAddrRtt = p.activeAddrRtt
        /\ q.lastFullCheck = p.lastFullCheck /\ q.candidates = p.candidates
    BY <1>1 DEF PeerState
  <2>3. QED
    BY <2>1, <2>2 DEF PeerInv, RttKnown, PingedByFull
<1>4. PeerInv(GiveUp(p))
  <2>1. GiveUp(p) \in PeerState
    BY <1>1 DEF PeerState, GiveUp
  <2>2. /\ GiveUp(p).activeAddr = None /\ GiveUp(p).activeAddrRtt = 0
        /\ GiveUp(p).lastFullCheck = p.lastFullCheck
        /\ GiveUp(p).candidates = p.candidates
    BY <1>1 DEF PeerState, GiveUp
  <2>3. QED
    BY <2>1, <2>2 DEF PeerInv, RttKnown, PingedByFull
<1>5. QED
  BY <1>2, <1>3, <1>4

\* A pong is taken down, and the ping after the first.
LEMMA NotedInv ==
  ASSUME NEW p, PeerInv(p), NEW e \in DOMAIN p.candidates
  PROVE  PeerInv(Noted(p, e)) /\ PeerInv(FirstReply(p, e))
<1> DEFINE S == DOMAIN p.candidates
           first == [Ponged(p.candidates[e]) EXCEPT !.lastPing = 0]
           noted == Ponged(p.candidates[e])
<1>1. p \in PeerState /\ S \subseteq Endpoints
      /\ p.candidates \in [S -> Candidate] /\ 0 \in Age
  BY MapElim DEF PeerInv, PeerState, Age
<1>2. noted \in Candidate /\ first \in Candidate
  BY <1>1 DEF Candidate, Ponged
<1>3. /\ noted.ponged /\ noted.receivedPong = 0 /\ noted.lastPing \in Age
      /\ first.ponged /\ first.receivedPong = 0 /\ first.lastPing = 0
  BY <1>1 DEF Candidate, Ponged
<1>4. /\ Noted(p, e) = [p EXCEPT !.candidates[e] = noted]
      /\ FirstReply(p, e) = [p EXCEPT !.candidates[e] = first]
  BY DEF Noted, FirstReply
<1> HIDE DEF noted, first
<1>5. ASSUME NEW c \in Candidate, c \in {noted, first}
      PROVE  PeerInv([p EXCEPT !.candidates[e] = c])
  <2> DEFINE q == [p EXCEPT !.candidates[e] = c]
             f == [p.candidates EXCEPT ![e] = c]
  <2>1. f \in [S -> Candidate]
    BY <1>1
  <2>2. f \in CandidateMap
    BY <1>1, <2>1, MapIntro
  <2>3. q \in PeerState
    BY <1>1, <2>2 DEF PeerState
  <2>4. /\ q.activeAddr = p.activeAddr /\ q.activeAddrRtt = p.activeAddrRtt
        /\ q.lastFullCheck = p.lastFullCheck /\ q.candidates = f
    BY <1>1 DEF PeerState
  <2>5. c.ponged /\ c.receivedPong <= c.lastPing
    BY <1>3, <1>5 DEF Age
  <2>6. ASSUME NEW x \in S PROVE PingedByFull(q, f[x])
    <3>1. CASE x = e
      BY <1>1, <2>5, <3>1 DEF PingedByFull
    <3>2. CASE x # e
      <4>1. f[x] = p.candidates[x] /\ PingedByFull(p, p.candidates[x])
        BY <1>1, <3>2 DEF PeerInv
      <4>2. QED
        BY <2>4, <4>1 DEF PingedByFull
    <3>3. QED
      BY <3>1, <3>2
  <2>7. QED
    BY <1>1, <2>1, <2>3, <2>4, <2>6 DEF PeerInv, RttKnown
<1>6. QED
  BY <1>2, <1>4, <1>5

\* The address of a pong becomes, or is, the active one.
LEMMA ActiveInv ==
  ASSUME NEW p, PeerInv(p), NEW e \in DOMAIN p.candidates
  PROVE  /\ PeerInv(Activated(p, e))
         /\ PeerInv(Switched(p, e))
         /\ p.activeAddr = e => PeerInv(Confirmed(p, e))
<1> DEFINE n == Noted(p, e)
<1>1. /\ p \in PeerState /\ n \in PeerState /\ e \in Endpoints
      /\ PeerInv(n) /\ 0 \in Age
      /\ n.activeAddr = p.activeAddr
  BY NotedInv, MapElim DEF PeerInv, PeerState, Age, Noted
<1>2. p.candidates[e].lastPing \in Age /\ p.lastActiveCheck \in Age
  BY <1>1, MapElim DEF PeerState, Candidate
<1>3. /\ RttOf(p, e) \in Rtt \ {0}
      /\ Elapsed(p.lastActiveCheck) \in Rtt \ {0}
  BY <1>2 DEF RttOf, Elapsed, Rtt, Age
<1> HIDE DEF n
<1>4. ASSUME NEW q \in PeerState, q.activeAddr \in Endpoints,
             q.activeAddrRtt \in Rtt \ {0},
             q.lastFullCheck = n.lastFullCheck, q.candidates = n.candidates
      PROVE  PeerInv(q)
  <2>1. \A x \in DOMAIN q.candidates : PingedByFull(q, q.candidates[x])
    BY <1>1, <1>4 DEF PeerInv, PingedByFull
  <2>2. RttKnown(q)
    BY <1>4 DEF RttKnown
  <2>3. QED
    BY <2>1, <2>2 DEF PeerInv
<1>5. PeerInv(Activated(p, e))
  <2> DEFINE q == Activated(p, e)
  <2>1. q = [n EXCEPT !.activeAddr = e, !.activeAddrRtt = RttOf(p, e)]
    BY DEF Activated, n
  <2> HIDE DEF q
  <2>2. /\ q \in PeerState /\ q.activeAddr = e
        /\ q.activeAddrRtt = RttOf(p, e)
        /\ q.lastFullCheck = n.lastFullCheck /\ q.candidates = n.candidates
    BY <1>1, <1>3, <2>1 DEF PeerState
  <2>3. PeerInv(q)
    BY <1>1, <1>3, <1>4, <2>2
  <2>4. QED
    BY <2>3 DEF q
<1>6. PeerInv(Switched(p, e))
  <2> DEFINE q == Switched(p, e)
  <2>1. q = [[n EXCEPT !.activeAddr = e, !.activeAddrRtt = RttOf(p, e)]
               EXCEPT !.lastActiveCheck = 0, !.lastActiveAddrPong = 0]
    BY DEF Switched, Activated, n
  <2> HIDE DEF q
  <2>2. /\ q \in PeerState /\ q.activeAddr = e
        /\ q.activeAddrRtt = RttOf(p, e)
        /\ q.lastFullCheck = n.lastFullCheck /\ q.candidates = n.candidates
    BY <1>1, <1>3, <2>1 DEF PeerState
  <2>3. PeerInv(q)
    BY <1>1, <1>3, <1>4, <2>2
  <2>4. QED
    BY <2>3 DEF q
<1>7. ASSUME p.activeAddr = e PROVE PeerInv(Confirmed(p, e))
  <2> DEFINE q == Confirmed(p, e)
  <2>1. q = [n EXCEPT !.activeAddrRtt = Elapsed(p.lastActiveCheck),
                      !.lastActiveAddrPong = 0]
    BY DEF Confirmed, n
  <2> HIDE DEF q
  <2>2. /\ q \in PeerState /\ q.activeAddr = e
        /\ q.activeAddrRtt = Elapsed(p.lastActiveCheck)
        /\ q.lastFullCheck = n.lastFullCheck /\ q.candidates = n.candidates
    BY <1>1, <1>3, <1>7, <2>1 DEF PeerState
  <2>3. PeerInv(q)
    BY <1>1, <1>3, <1>4, <2>2
  <2>4. QED
    BY <2>3 DEF q
<1>8. QED
  BY <1>5, <1>6, <1>7

\* New candidates have never been pinged.
LEMMA AddCandidatesInv ==
  ASSUME NEW p, PeerInv(p), NEW eps \in SUBSET Endpoints
  PROVE  PeerInv(AddCandidates(p, eps))
<1> DEFINE f == [e \in eps |-> NewCandidate]
           q == AddCandidates(p, eps)
<1>1. p \in PeerState /\ 0 \in Age /\ NewCandidate \in Candidate
  BY DEF PeerInv, NewCandidate, Candidate, Age
<1>2. f \in CandidateMap
  BY <1>1, MapIntro
<1>3. q = [p EXCEPT !.candidates = f, !.lastEndpointSync = 0]
  BY DEF AddCandidates
<1>4. \A e \in eps : f[e] = NewCandidate
  OBVIOUS
<1>5. DOMAIN f = eps
  OBVIOUS
<1> HIDE DEF f, q
<1>6. /\ q \in PeerState
      /\ q.activeAddr = p.activeAddr /\ q.activeAddrRtt = p.activeAddrRtt
      /\ q.lastFullCheck = p.lastFullCheck /\ q.candidates = f
  BY <1>1, <1>2, <1>3 DEF PeerState
<1>7. q.lastFullCheck <= Never
  BY <1>6 DEF PeerState, Age
<1>8. \A e \in DOMAIN q.candidates : PingedByFull(q, q.candidates[e])
  BY <1>4, <1>5, <1>6, <1>7 DEF PingedByFull, NewCandidate, PeerState, Age
<1>9. PeerInv(q)
  BY <1>6, <1>8 DEF PeerInv, RttKnown
<1>10. QED
  BY <1>9 DEF q

\* Growing older keeps the order of two ages.
LEMMA AgedInv ==
  ASSUME NEW p, PeerInv(p)
  PROVE  PeerInv(Aged(p))
<1> DEFINE S == DOMAIN p.candidates
           f == [e \in S |-> AgedCandidate(p.candidates[e])]
           q == Aged(p)
<1>1. p \in PeerState /\ S \subseteq Endpoints
      /\ p.candidates \in [S -> Candidate]
  BY MapElim DEF PeerInv, PeerState
<1>2. ASSUME NEW a \in Age PROVE Older(a) \in Age
  BY DEF Age, Older
<1>3. ASSUME NEW a \in Age, NEW b \in Age, a <= b
      PROVE  Older(a) <= Older(b)
  BY <1>3 DEF Age, Older
<1>4. ASSUME NEW c \in Candidate
      PROVE  /\ AgedCandidate(c) \in Candidate
             /\ AgedCandidate(c).lastPing = Older(c.lastPing)
             /\ AgedCandidate(c).receivedPong = Older(c.receivedPong)
             /\ AgedCandidate(c).ponged = c.ponged
  BY <1>2 DEF AgedCandidate, Candidate
<1>5. f \in [S -> Candidate]
  BY <1>1, <1>4
<1>6. f \in CandidateMap
  BY <1>1, <1>5, MapIntro
<1>7. \A e \in S : f[e] = AgedCandidate(p.candidates[e])
  OBVIOUS
<1>8. q = [p EXCEPT !.lastActiveAddrPong = Older(p.lastActiveAddrPong),
                    !.lastFullCheck = Older(p.lastFullCheck),
                    !.lastActiveCheck = Older(p.lastActiveCheck),
                    !.lastEndpointSync = Older(p.lastEndpointSync),
                    !.candidates = f]
  BY DEF Aged
<1> HIDE DEF f, q
<1>9. /\ q \in PeerState
      /\ q.activeAddr = p.activeAddr /\ q.activeAddrRtt = p.activeAddrRtt
      /\ q.lastFullCheck = Older(p.lastFullCheck) /\ q.candidates = f
  BY <1>1, <1>2, <1>6, <1>8 DEF PeerState
<1>10. ASSUME NEW e \in S PROVE PingedByFull(q, f[e])
  <2>1. /\ p.candidates[e] \in Candidate
        /\ PingedByFull(p, p.candidates[e])
        /\ p.lastFullCheck \in Age
    BY <1>1 DEF PeerInv, PeerState
  <2>2. /\ p.candidates[e].lastPing \in Age
        /\ p.candidates[e].receivedPong \in Age
    BY <2>1 DEF Candidate
  <2>3. QED
    BY <1>3, <1>4, <1>7, <1>9, <2>1, <2>2 DEF PingedByFull
<1>11. DOMAIN q.candidates = S
  BY <1>5, <1>9
<1>12. PeerInv(q)
  BY <1>9, <1>10, <1>11 DEF PeerInv, RttKnown
<1>13. QED
  BY <1>12 DEF q

-----------------------------------------------------------------------------
(***************************************************************************)
(* The handlers.                                                           *)
(***************************************************************************)
LEMMA WriteInv ==
  ASSUME NEW p, PeerInv(p), NEW ours
  PROVE  PeerInv(Write(p, ours).peer)
<1>1. /\ PeerInv([p EXCEPT !.lastEndpointSync = 0])
      /\ PeerInv([p EXCEPT !.lastActiveCheck = 0])
      /\ PeerInv(GiveUp(p)) /\ PeerInv(PingAll(p))
  BY FieldInv, PingAllInv
<1>2. PeerInv(WriteByRelay(p, ours).peer)
  BY <1>1 DEF WriteByRelay, Sent
<1>3. PeerInv(WriteDirect(p).peer)
  BY <1>1 DEF WriteDirect, Sent
<1>4. QED
  BY <1>2, <1>3 DEF Write

LEMMA HandlePongInv ==
  ASSUME NEW p, PeerInv(p), NEW e \in Endpoints
  PROVE  PeerInv(HandlePong(p, e).peer)
<1>1. CASE e \notin DOMAIN p.candidates
  BY <1>1 DEF HandlePong, Done
<1>2. CASE e \in DOMAIN p.candidates
  <2>1. /\ PeerInv(FirstReply(p, e)) /\ PeerInv(Noted(p, e))
        /\ PeerInv(Activated(p, e)) /\ PeerInv(Switched(p, e))
        /\ p.activeAddr = e => PeerInv(Confirmed(p, e))
    BY <1>2, NotedInv, ActiveInv
  <2>2. CASE ~p.candidates[e].ponged
    BY <1>2, <2>1, <2>2 DEF HandlePong, Sent
  <2>3. CASE p.candidates[e].ponged
    <3>1. CASE p.activeAddr = None
      BY <1>2, <2>1, <2>3, <3>1 DEF HandlePong, Done
    <3>2. CASE p.activeAddr # None /\ p.activeAddr = e
      BY <1>2, <2>1, <2>3, <3>2 DEF HandlePong, Done
    <3>3. CASE p.activeAddr # None /\ p.activeAddr # e
      BY <1>2, <2>1, <2>3, <3>3 DEF HandlePong, Done
    <3>4. QED
      BY <3>1, <3>2, <3>3
  <2>4. QED
    BY <2>2, <2>3 DEF PeerInv, PeerState, Candidate
<1>3. QED
  BY <1>1, <1>2

LEMMA EndpointsInv ==
  ASSUME NEW p, PeerInv(p), NEW eps \in SUBSET Endpoints, NEW ours
  PROVE  /\ PeerInv(HandleEndpointRequest(p, eps, ours).peer)
         /\ PeerInv(HandleEndpointResponse(p, eps).peer)
BY AddCandidatesInv DEF HandleEndpointRequest, HandleEndpointResponse, Sent,
   Done

-----------------------------------------------------------------------------
(***************************************************************************)
(* Every step preserves the invariant.                                     *)
(***************************************************************************)
LEMMA InitInv == Init => PathInv
<1> SUFFICES ASSUME Init PROVE PathInv
  OBVIOUS
<1>1. PeerInv(peer)
  BY NewPeerInv DEF Init
<1>2. CheckEvery \in Nat
  BY DEF Thresholds
<1>3. PathTypeOK
  <2>1. flight \in [Endpoints -> SUBSET (0..MaxFlight)]
    BY DEF Init
  <2>2. asked \in BOOLEAN
    BY DEF Init
  <2>3. quiet \in 0..CheckEvery /\ burst \in Nat
    BY <1>2 DEF Init
  <2>4. QED
    BY <1>1, <2>1, <2>2, <2>3 DEF PathTypeOK, PeerInv
<1>4. QED
  BY <1>1, <1>3 DEF PathInv

\* The pings a handler sends take off with age 0.
LEMMA FlyingType ==
  ASSUME NEW f \in [Endpoints -> SUBSET (0..MaxFlight)], NEW r
  PROVE  Flying(f, r) \in [Endpoints -> SUBSET (0..MaxFlight)]
BY DEF Flying

LEMMA TunPacketStep ==
  ASSUME PathInv, TunPacket
  PROVE  PathInv'
<1> DEFINE r == Write(peer, {})
<1>1. PeerInv(peer')
  BY WriteInv DEF PathInv, TunPacket, After
<1>2. flight' \in [Endpoints -> SUBSET (0..MaxFlight)]
  BY FlyingType DEF PathInv, PathTypeOK, TunPacket
<1>3. asked' \in BOOLEAN
  BY DEF PathInv, PathTypeOK, TunPacket, After
<1>4. quiet' \in 0..CheckEvery /\ burst' \in Nat
  BY DEF PathInv, PathTypeOK, TunPacket, Thresholds
<1>5. QED
  BY <1>1, <1>2, <1>3, <1>4 DEF PathInv, PathTypeOK, PeerInv

LEMMA PongArrivesStep ==
  ASSUME PathInv, NEW e \in Endpoints, NEW a \in flight[e], PongArrives(e, a)
  PROVE  PathInv'
<1>1. PeerInv(peer')
  BY HandlePongInv DEF PathInv, PongArrives, After
<1>2. [flight EXCEPT ![e] = @ \ {a}] \in [Endpoints -> SUBSET (0..MaxFlight)]
  BY DEF PathInv, PathTypeOK
<1>3. flight' \in [Endpoints -> SUBSET (0..MaxFlight)]
  BY <1>2, FlyingType DEF PongArrives
<1>4. /\ asked' \in BOOLEAN /\ quiet' \in 0..CheckEvery /\ burst' \in Nat
  BY DEF PathInv, PathTypeOK, PongArrives, After
<1>5. QED
  BY <1>1, <1>3, <1>4 DEF PathInv, PathTypeOK, PeerInv

LEMMA EndpointsStep ==
  ASSUME PathInv, NEW eps \in SUBSET Endpoints,
         EndpointRequestArrives(eps) \/ EndpointResponseArrives(eps)
  PROVE  PathInv'
<1>1. PeerInv(peer')
  BY EndpointsInv DEF PathInv, EndpointRequestArrives,
     EndpointResponseArrives, After
<1>2. asked' \in BOOLEAN /\ UNCHANGED <<flight, quiet, burst>>
  BY DEF PathInv, PathTypeOK, EndpointRequestArrives,
     EndpointResponseArrives, After
<1>3. QED
  BY <1>1, <1>2 DEF PathInv, PathTypeOK, PeerInv

LEMMA TickStep ==
  ASSUME PathInv, Tick
  PROVE  PathInv'
<1>1. PeerInv(peer')
  BY AgedInv DEF PathInv, Tick
<1>2. flight' \in [Endpoints -> SUBSET (0..MaxFlight)]
  <2>1. ASSUME NEW e \in Endpoints
        PROVE  {a + 1 : a \in {b \in flight[e] : b < MaxFlight}}
                 \in SUBSET (0..MaxFlight)
    BY DEF PathInv, PathTypeOK
  <2>2. QED
    BY <2>1 DEF Tick
<1>3. quiet' \in 0..CheckEvery
  BY DEF PathInv, PathTypeOK, Tick, Thresholds
<1>4. UNCHANGED <<asked, burst>>
  BY DEF Tick
<1>5. QED
  BY <1>1, <1>2, <1>3, <1>4 DEF PathInv, PathTypeOK, PeerInv

(***************************************************************************)
(* The Peer object is always in the state its handlers count on.           *)
(***************************************************************************)
THEOREM PeerInvariant == Spec => []PathInv
<1>1. PathInv /\ [Next]_vars => PathInv'
  <2> SUFFICES ASSUME PathInv, [Next]_vars PROVE PathInv'
    OBVIOUS
  <2>1. CASE UNCHANGED vars
    BY <2>1 DEF vars, PathInv, PathTypeOK, PeerInv, PingedByFull, RttKnown
  <2>2. CASE Next
    BY <2>2, TunPacketStep, PongArrivesStep, EndpointsStep, TickStep DEF Next
  <2>3. QED
    BY <2>1, <2>2
<1>2. QED
  BY InitInv, <1>1, PTL DEF Spec

(***************************************************************************)
(* pingAllLocked never leaves out a candidate as dead when a full ping is  *)
(* due: maybePruneCandidate is never true there.                           *)
(***************************************************************************)
THEOREM NoCandidateIsPruned == Spec => []NeverPruned
<1>1. PathInv => NeverPruned
  <2> SUFFICES ASSUME PathInv, FullPingDue,
                      NEW e \in DOMAIN peer.candidates
               PROVE  ~MaybePrune(peer.candidates[e])
    BY DEF NeverPruned
  <2> DEFINE c == peer.candidates[e]
  <2>1. c \in Candidate /\ PingedByFull(peer, c) /\ peer.lastFullCheck \in Age
    BY MapElim DEF PathInv, PeerInv, PeerState
  <2>2. c.lastPing \in Nat /\ c.receivedPong \in Nat
        /\ peer.lastFullCheck \in Nat
    BY <2>1 DEF Candidate, Age
  <2>3. {PruneWindow, PongOld, FullIdle} \subseteq Nat
    BY DEF Thresholds
  <2>4. peer.lastFullCheck > PruneWindow
    BY <2>2, <2>3 DEF FullPingDue
  <2>5. CASE c.lastPing >= peer.lastFullCheck
    BY <2>2, <2>3, <2>4, <2>5 DEF MaybePrune
  <2>6. CASE c.ponged /\ c.receivedPong <= c.lastPing
    BY <2>2, <2>3, <2>6 DEF MaybePrune
  <2>7. QED
    BY <2>1, <2>5, <2>6 DEF PingedByFull
<1>2. QED
  BY PeerInvariant, <1>1, PTL

-----------------------------------------------------------------------------
(***************************************************************************)
(* Packets in a row to a silent address.  The last of them was written     *)
(* with a full ping or with a check of the address; the next cannot come   *)
(* with the same, and after a check that is close to a full ping it gives  *)
(* the address up.  Or else there was a pong since the last of them, and   *)
(* the address is not silent before packets no longer count as in a row.   *)
(***************************************************************************)
FullJust  == peer.lastFullCheck <= quiet
CheckJust == peer.lastActiveCheck <= quiet
BothJust  == CheckJust /\ peer.lastFullCheck < quiet + CheckEvery

PongSince == peer.lastActiveAddrPong <= quiet

BurstInv ==
  /\ burst <= 3
  /\ peer.activeAddr = None => burst = 0
  /\ burst > 0 /\ quiet < CheckEvery =>
       \/ PongSince
       \/ burst = 1 /\ (FullJust \/ CheckJust)
       \/ burst = 2 /\ (FullJust \/ BothJust)
       \/ burst = 3 /\ BothJust

\* The fields of a Peer that decide, as numbers.
LEMMA Ages ==
  ASSUME PathInv
  PROVE  /\ peer.lastFullCheck \in Nat /\ peer.lastActiveCheck \in Nat
         /\ peer.lastActiveAddrPong \in Nat
         /\ quiet \in Nat /\ burst \in Nat
         /\ CheckEvery \in Nat /\ SilentAfter \in Nat /\ FullActive \in Nat
<1>1. /\ peer.lastFullCheck \in Age /\ peer.lastActiveCheck \in Age
      /\ peer.lastActiveAddrPong \in Age
      /\ quiet \in 0..CheckEvery /\ burst \in Nat
  BY DEF PathInv, PathTypeOK, PeerState
<1>2. {CheckEvery, SilentAfter, FullActive} \subseteq Nat
  BY DEF Thresholds
<1>3. QED
  BY <1>1, <1>2 DEF Age

(***************************************************************************)
(* A packet is written to a silent address with a full ping, or with a     *)
(* check of it, or else the address is given up.                           *)
(***************************************************************************)
LEMMA SilentWrite ==
  ASSUME PathInv, Silent(peer), NEW q, q = Write(peer, {}).peer
  PROVE  \/ /\ peer.lastFullCheck > FullActive
            /\ q = PingAll(peer)
         \/ /\ peer.lastFullCheck <= FullActive
            /\ peer.lastActiveCheck >= CheckEvery
            /\ q = [peer EXCEPT !.lastActiveCheck = 0]
         \/ /\ peer.lastFullCheck <= FullActive
            /\ peer.lastActiveCheck < CheckEvery
            /\ q = GiveUp(peer)
<1> DEFINE C1 == peer.lastFullCheck > FullActive
           C2 == peer.lastFullCheck <= FullActive
                 /\ peer.lastActiveCheck >= CheckEvery
           C3 == peer.lastFullCheck <= FullActive
                 /\ peer.lastActiveCheck < CheckEvery
                 /\ peer.lastActiveAddrPong > SilentAfter
<1>1. \/ C1 /\ ~C2 /\ ~C3
      \/ ~C1 /\ C2 /\ ~C3
      \/ ~C1 /\ ~C2 /\ C3
  BY Ages DEF Silent
<1>2. q = WriteDirect(peer).peer
  BY DEF Silent, Write
<1>3. CASE C1 /\ ~C2 /\ ~C3
  BY <1>2, <1>3 DEF WriteDirect, Sent
<1>4. CASE ~C1 /\ C2 /\ ~C3
  BY <1>2, <1>4 DEF WriteDirect, Sent
<1>5. CASE ~C1 /\ ~C2 /\ C3
  BY <1>2, <1>5 DEF WriteDirect, Sent
<1>6. QED
  BY <1>1, <1>3, <1>4, <1>5

LEMMA FieldsAfterWrite ==
  ASSUME PathInv
  PROVE  /\ PingAll(peer).lastFullCheck = 0
         /\ PingAll(peer).lastActiveCheck = peer.lastActiveCheck
         /\ PingAll(peer).lastActiveAddrPong = peer.lastActiveAddrPong
         /\ PingAll(peer).activeAddr = peer.activeAddr
         /\ LET q == [peer EXCEPT !.lastActiveCheck = 0]
            IN /\ q.lastFullCheck = peer.lastFullCheck
               /\ q.lastActiveCheck = 0
               /\ q.lastActiveAddrPong = peer.lastActiveAddrPong
               /\ q.activeAddr = peer.activeAddr
         /\ GiveUp(peer).activeAddr = None
BY DEF PathInv, PathTypeOK, PeerState, PingAll, GiveUp

LEMMA BurstWrite ==
  ASSUME PathInv, BurstInv, TunPacket
  PROVE  BurstInv'
<1> DEFINE q == Write(peer, {}).peer
<1>1. /\ peer' = q /\ quiet' = 0
      /\ burst' = IF Silent(peer) /\ q.activeAddr # None
                  THEN (IF quiet < CheckEvery THEN burst ELSE 0) + 1
                  ELSE 0
  BY DEF TunPacket, After
<1>2. /\ peer.lastFullCheck \in Nat /\ peer.lastActiveCheck \in Nat
      /\ peer.lastActiveAddrPong \in Nat
      /\ quiet \in Nat /\ burst \in Nat
      /\ CheckEvery \in Nat /\ SilentAfter \in Nat /\ FullActive \in Nat
  BY Ages
<1>3. CASE ~(Silent(peer) /\ q.activeAddr # None)
  BY <1>1, <1>3 DEF BurstInv
<1>4. CASE Silent(peer) /\ q.activeAddr # None
  <2> DEFINE b == IF quiet < CheckEvery THEN burst ELSE 0
  <2>1. burst' = b + 1 /\ b \in Nat
    BY <1>1, <1>2, <1>4
  <2>2. peer'.activeAddr # None /\ peer.lastActiveAddrPong > SilentAfter
    BY <1>1, <1>4 DEF Silent
  \* What the last write in the row, if there is one, has left.
  <2>3. \/ b = 0
        \/ /\ quiet < CheckEvery
           /\ \/ b = 1 /\ (FullJust \/ CheckJust)
              \/ b = 2 /\ (FullJust \/ BothJust)
              \/ b = 3 /\ BothJust
    BY <1>2, <2>2 DEF BurstInv, PongSince
  <2>4. \/ peer.lastFullCheck > FullActive /\ q = PingAll(peer)
        \/ /\ peer.lastFullCheck <= FullActive
           /\ peer.lastActiveCheck >= CheckEvery
           /\ q = [peer EXCEPT !.lastActiveCheck = 0]
        \/ q = GiveUp(peer)
    BY <1>4, SilentWrite
  <2> HIDE DEF q, b
  <2>5. CASE peer.lastFullCheck > FullActive /\ q = PingAll(peer)
    <3>1. /\ peer'.lastFullCheck = 0
          /\ peer'.lastActiveCheck = peer.lastActiveCheck
      BY <1>1, <2>5, FieldsAfterWrite
    <3>2. b = 0 \/ b = 1
      BY <1>2, <2>3, <2>5 DEF FullJust, BothJust
    <3>3. FullJust'
      BY <1>1, <3>1 DEF FullJust
    <3>4. QED
      BY <2>1, <2>2, <3>2, <3>3 DEF BurstInv
  <2>6. CASE /\ peer.lastFullCheck <= FullActive
             /\ peer.lastActiveCheck >= CheckEvery
             /\ q = [peer EXCEPT !.lastActiveCheck = 0]
    <3>1. /\ peer'.lastActiveCheck = 0
          /\ peer'.lastFullCheck = peer.lastFullCheck
      BY <1>1, <2>6, FieldsAfterWrite
    <3>2. CheckJust'
      BY <1>1, <3>1 DEF CheckJust
    <3>3. b = 0 \/ (b \in {1, 2} /\ BothJust')
      BY <1>1, <1>2, <2>3, <2>6, <3>1, <3>2
         DEF FullJust, CheckJust, BothJust
    <3>4. QED
      BY <2>1, <2>2, <3>2, <3>3 DEF BurstInv
  <2>7. CASE q = GiveUp(peer)
    BY <1>4, <2>7, FieldsAfterWrite DEF q
  <2>8. QED
    BY <2>4, <2>5, <2>6, <2>7
<1>5. QED
  BY <1>3, <1>4

(***************************************************************************)
(* A pong that counts sets lastActiveAddrPong, except for that of the      *)
(* first active address, which ends a time in which nothing was written to *)
(* one.                                                                    *)
(***************************************************************************)
LEMMA PongFields ==
  ASSUME PathInv, NEW e \in Endpoints, NEW q, q = HandlePong(peer, e).peer
  PROVE  /\ peer.activeAddr # None => q.activeAddr # None
         /\ \/ peer.activeAddr = None
            \/ q.lastActiveAddrPong = 0
            \/ /\ q.lastActiveAddrPong = peer.lastActiveAddrPong
               /\ q.lastFullCheck = peer.lastFullCheck
               /\ q.lastActiveCheck = peer.lastActiveCheck
<1>1. peer \in PeerState /\ None \notin Endpoints
  BY DEF PathInv, PathTypeOK
<1>2. \/ q = peer
      \/ q = FirstReply(peer, e)
      \/ q = Activated(peer, e) /\ peer.activeAddr = None
      \/ q = Confirmed(peer, e)
      \/ q = Switched(peer, e)
      \/ q = Noted(peer, e)
  <2>1. CASE e \notin DOMAIN peer.candidates
    BY <2>1 DEF HandlePong, Done
  <2>2. CASE e \in DOMAIN peer.candidates /\ ~peer.candidates[e].ponged
    BY <2>2 DEF HandlePong, Sent
  <2>3. CASE e \in DOMAIN peer.candidates /\ peer.candidates[e].ponged
    <3>1. CASE peer.activeAddr = None
      BY <2>3, <3>1 DEF HandlePong, Done
    <3>2. CASE peer.activeAddr # None /\ peer.activeAddr = e
      BY <2>3, <3>2 DEF HandlePong, Done
    <3>3. CASE peer.activeAddr # None /\ peer.activeAddr # e
      BY <2>3, <3>3 DEF HandlePong, Done
    <3>4. QED
      BY <3>1, <3>2, <3>3
  <2>4. QED
    BY <2>1, <2>2, <2>3
<1>3. CASE q = peer
  BY <1>3
<1>4. CASE q = FirstReply(peer, e)
  BY <1>1, <1>4 DEF FirstReply, PeerState
<1>5. CASE q = Activated(peer, e) /\ peer.activeAddr = None
  BY <1>5
<1>6. CASE q = Confirmed(peer, e)
  BY <1>1, <1>6 DEF Confirmed, Noted, PeerState
<1>7. CASE q = Switched(peer, e)
  BY <1>1, <1>7 DEF Switched, Activated, Noted, PeerState
<1>8. CASE q = Noted(peer, e)
  BY <1>1, <1>8 DEF Noted, PeerState
<1>9. QED
  BY <1>2, <1>3, <1>4, <1>5, <1>6, <1>7, <1>8

LEMMA BurstPong ==
  ASSUME PathInv, BurstInv, NEW e \in Endpoints, NEW a \in flight[e],
         PongArrives(e, a)
  PROVE  BurstInv'
<1>1. /\ peer' = HandlePong(peer, e).peer
      /\ UNCHANGED <<quiet, burst>>
  BY DEF PongArrives, After
<1>2. /\ peer.activeAddr # None => peer'.activeAddr # None
      /\ \/ peer.activeAddr = None
         \/ peer'.lastActiveAddrPong = 0
         \/ /\ peer'.lastActiveAddrPong = peer.lastActiveAddrPong
            /\ peer'.lastFullCheck = peer.lastFullCheck
            /\ peer'.lastActiveCheck = peer.lastActiveCheck
  BY <1>1, PongFields
<1>3. quiet \in Nat
  BY Ages
<1>4. QED
  BY <1>1, <1>2, <1>3
     DEF BurstInv, PongSince, FullJust, CheckJust, BothJust

LEMMA BurstEndpoints ==
  ASSUME PathInv, BurstInv, NEW eps \in SUBSET Endpoints,
         EndpointRequestArrives(eps) \/ EndpointResponseArrives(eps)
  PROVE  BurstInv'
<1>1. peer' = AddCandidates(peer, eps) /\ UNCHANGED <<quiet, burst>>
  BY DEF EndpointRequestArrives, EndpointResponseArrives, After,
     HandleEndpointRequest, HandleEndpointResponse, Sent, Done
<1>2. /\ peer'.lastActiveAddrPong = peer.lastActiveAddrPong
      /\ peer'.lastFullCheck = peer.lastFullCheck
      /\ peer'.lastActiveCheck = peer.lastActiveCheck
      /\ peer'.activeAddr = peer.activeAddr
  BY <1>1 DEF AddCandidates, PathInv, PathTypeOK, PeerState
<1>3. QED
  BY <1>1, <1>2 DEF BurstInv, PongSince, FullJust, CheckJust, BothJust

LEMMA BurstTick ==
  ASSUME PathInv, BurstInv, Tick
  PROVE  BurstInv'
<1>1. /\ peer.lastFullCheck \in Nat /\ peer.lastActiveCheck \in Nat
      /\ peer.lastActiveAddrPong \in Nat
      /\ quiet \in Nat /\ burst \in Nat /\ CheckEvery \in Nat
  BY Ages
<1>2. /\ peer'.lastFullCheck = Older(peer.lastFullCheck)
      /\ peer'.lastActiveCheck = Older(peer.lastActiveCheck)
      /\ peer'.lastActiveAddrPong = Older(peer.lastActiveAddrPong)
      /\ peer'.activeAddr = peer.activeAddr
  BY DEF Tick, Aged, PathInv, PathTypeOK, PeerState
<1>3. \A x \in Nat : x <= Never =>
        Older(x) \in Nat /\ Older(x) <= x + 1
  BY DEF Older
<1>4. /\ peer.lastFullCheck <= Never /\ peer.lastActiveCheck <= Never
      /\ peer.lastActiveAddrPong <= Never
  BY DEF PathInv, PathTypeOK, PeerState, Age
<1>5. /\ peer'.lastFullCheck \in Nat
      /\ peer'.lastFullCheck <= peer.lastFullCheck + 1
      /\ peer'.lastActiveCheck \in Nat
      /\ peer'.lastActiveCheck <= peer.lastActiveCheck + 1
      /\ peer'.lastActiveAddrPong \in Nat
      /\ peer'.lastActiveAddrPong <= peer.lastActiveAddrPong + 1
  BY <1>1, <1>2, <1>3, <1>4
<1>6. burst' = burst /\ (quiet' < CheckEvery =>
                           quiet < CheckEvery /\ quiet' = quiet + 1)
  BY <1>1 DEF Tick
<1>7. CASE quiet' < CheckEvery
  <2>1. /\ PongSince => PongSince'
        /\ FullJust => FullJust'
        /\ CheckJust => CheckJust'
        /\ BothJust => BothJust'
    BY <1>1, <1>5, <1>6, <1>7 DEF PongSince, FullJust, CheckJust, BothJust
  <2>2. QED
    BY <1>2, <1>6, <1>7, <2>1 DEF BurstInv
<1>8. CASE ~(quiet' < CheckEvery)
  BY <1>2, <1>6, <1>8 DEF BurstInv
<1>9. QED
  BY <1>7, <1>8

(***************************************************************************)
(* A path that has gone silent is given up: at most three packets in a row *)
(* go to it, less than CheckEvery apart.  That it is three hangs on the    *)
(* times: two checks are never that close, and two full pings are further  *)
(* apart than two such packets.                                            *)
(***************************************************************************)
THEOREM SilentPathIsGivenUp == Spec => []SilentPathGivenUp
<1>1. Init => BurstInv
  BY DEF Init, BurstInv
<1>2. PathInv /\ BurstInv /\ [Next]_vars => BurstInv'
  <2> SUFFICES ASSUME PathInv, BurstInv, [Next]_vars PROVE BurstInv'
    OBVIOUS
  <2>1. CASE UNCHANGED vars
    BY <2>1 DEF vars, BurstInv, PongSince, FullJust, CheckJust, BothJust
  <2>2. ASSUME NEW e \in Endpoints, NEW a \in flight[e], PongArrives(e, a)
        PROVE  BurstInv'
    BY <2>2, BurstPong
  <2>3. CASE Next
    BY <2>2, <2>3, BurstWrite, BurstEndpoints, BurstTick DEF Next
  <2>4. QED
    BY <2>1, <2>3
<1>3. BurstInv => SilentPathGivenUp
  BY DEF BurstInv, SilentPathGivenUp
<1>4. QED
  BY <1>1, <1>2, <1>3, PeerInvariant, PTL DEF Spec
=============================================================================
