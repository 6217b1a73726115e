---------------------------- MODULE UdpMuxProofs ----------------------------
(***************************************************************************)
(* The sockets of a node for any number of calls of Up and of faults: what *)
(* each mux holds while Up is at each of its places, and what follows for  *)
(* the port, the loops and the process.                                    *)
(***************************************************************************)
EXTENDS UdpMux, FiniteSetTheorems, TLAPS

USE MuxAssumption

-----------------------------------------------------------------------------
(***************************************************************************)
(* The inductive invariant.  A mux that Up has not bound is as it was      *)
(* made; one that Up has undone holds nothing; one that is bound has its   *)
(* socket and its relay connection, or neither; and while Unbind has it,   *)
(* it gives them up in the order of the code.                              *)
(***************************************************************************)
Fresh(m) ==
  /\ mux[m] = NewUdpMux
  /\ socket[m] = "none" /\ ws[m] = "none" /\ tun[m] = "none"
  /\ reader[m] = "none" /\ relayer[m] = "none"

Gone(m) ==
  /\ ~mux[m].conn /\ ~mux[m].bindActive
  /\ socket[m] # "open" /\ tun[m] # "open"

Reading(m) ==
  /\ reader[m] \in {"check", "assert", "read"}
  /\ relayer[m] \in {"check", "begin", "read"}
  /\ ws[m] = "open"

Held(m) ==
  /\ mux[m].bindActive
  /\ mux[m].conn <=> mux[m].dialled
  /\ mux[m].rcConn <=> mux[m].dialled
  /\ mux[m].cancelled <=> ~mux[m].dialled
  /\ socket[m] = "open" <=> mux[m].dialled
  /\ mux[m].dialled /\ faults = 0 => Reading(m)

Leaving(m) ==
  /\ ~mux[m].bindActive
  /\ mux[m].conn <=> mux[m].dialled /\ call = "cancel"
  /\ socket[m] = "open" <=> mux[m].dialled /\ call \in {"cancel", "close"}

Stage(m) ==
  /\ m > count \/ (m = count /\ call = "bind") => Fresh(m)
  /\ m < count \/ (m = count /\ call = "idle" /\ ~up) => Gone(m)
  /\ m = count /\ (up \/ call \in {"newTun", "configure", "unbind"}) =>
       Held(m)
  /\ m = count /\ call \in {"cancel", "close", "closeNil", "closeRelay"} =>
       Leaving(m)
  /\ mux[m].peers => up /\ m = count

CallInv ==
  /\ up => call = "idle"
  /\ up \/ call # "idle" => count > 0

IInv == MuxTypeOK /\ CallInv /\ \A m \in Muxes : Stage(m)

LEMMA MuxesAreNat == \A m \in Muxes : m \in Nat /\ m > 0
BY DEF Muxes

\* A step of Up leaves the muxes of other calls as they are.
LEMMA OtherStage ==
  ASSUME IInv, NEW k \in Muxes, k # count, count' = count, ~up,
         mux'[k] = mux[k], socket'[k] = socket[k], ws'[k] = ws[k],
         tun'[k] = tun[k], reader'[k] = reader[k], relayer'[k] = relayer[k]
  PROVE  Stage(k)'
<1>1. Stage(k) /\ count \in Nat /\ k \in Nat
  BY MuxesAreNat DEF IInv, MuxTypeOK
<1>2. (Fresh(k) => Fresh(k)') /\ (Gone(k) => Gone(k)')
  BY DEF Fresh, Gone
<1>3. QED
  BY <1>1, <1>2 DEF Stage

LEMMA InitInv == Init => IInv
<1> SUFFICES ASSUME Init PROVE IInv
  OBVIOUS
<1>1. MuxTypeOK
  <2>1. mux \in [Muxes -> Fields]
    BY DEF Init, NewUdpMux, Fields
  <2>2. {socket, ws, tun} \subseteq [Muxes -> {"none", "open", "closed"}]
    BY DEF Init
  <2>3. {up, panicked, exited} \subseteq BOOLEAN /\ stun \in [Muxes -> BOOLEAN]
    BY DEF Init
  <2>4. QED
    BY <2>1, <2>2, <2>3 DEF Init, MuxTypeOK
<1>2. CallInv
  BY DEF Init, CallInv
<1>3. ASSUME NEW m \in Muxes PROVE Stage(m)
  BY MuxesAreNat DEF Init, Stage, Fresh, Gone, NewUdpMux
<1>4. QED
  BY <1>1, <1>2, <1>3 DEF IInv

-----------------------------------------------------------------------------
(***************************************************************************)
(* Every step preserves the invariant: first the steps of Up and Unbind.   *)
(***************************************************************************)
LEMMA StartUpStep ==
  ASSUME IInv, StartUp
  PROVE  IInv'
<1>1. MuxTypeOK'
  BY DEF IInv, MuxTypeOK, StartUp, Goto, loopVars, endVars
<1>2. CallInv'
  BY DEF IInv, MuxTypeOK, CallInv, StartUp, Goto
<1>3. ASSUME NEW m \in Muxes PROVE Stage(m)'
  <2>1. /\ call = "idle" /\ call' = "bind" /\ ~up /\ ~up'
        /\ count' = count + 1 /\ count \in Nat /\ m \in Nat
        /\ UNCHANGED <<mux, socket, ws, tun, reader, relayer>>
    BY MuxesAreNat DEF StartUp, Goto, loopVars, IInv, MuxTypeOK
  <2>2. m > count => Fresh(m)'
    BY <2>1 DEF IInv, Stage, Fresh
  <2>3. m <= count => Gone(m)'
    BY <2>1 DEF IInv, Stage, Gone
  <2>4. ~mux[m].peers
    BY <2>1 DEF IInv, Stage
  <2>5. QED
    BY <2>1, <2>2, <2>3, <2>4 DEF Stage
<1>4. QED
  BY <1>1, <1>2, <1>3 DEF IInv

LEMMA BindStep ==
  ASSUME IInv, NEW m \in Muxes, BindDials(m) \/ BindFailsToDial(m)
  PROVE  IInv'
<1>1. call = "bind" /\ m = count /\ ~up /\ Bound(m) /\ Fresh(m)
  BY DEF BindDials, BindFailsToDial, IInv, CallInv, Stage
<1>2. mux[m] = NewUdpMux /\ mux \in [Muxes -> Fields]
  BY <1>1 DEF Fresh, IInv, MuxTypeOK
<1>3. /\ mux' \in [Muxes -> Fields]
      /\ \A k \in Muxes : k # m => mux'[k] = mux[k]
      /\ mux'[m].bindActive /\ ~mux'[m].peers
      /\ \/ /\ mux'[m].conn /\ mux'[m].rcConn /\ mux'[m].dialled
            /\ ~mux'[m].cancelled
            /\ socket' = [socket EXCEPT ![m] = "open"]
            /\ ws' = [ws EXCEPT ![m] = "open"]
         \/ /\ ~mux'[m].conn /\ ~mux'[m].rcConn /\ ~mux'[m].dialled
            /\ mux'[m].cancelled
            /\ socket' = [socket EXCEPT ![m] = "closed"]
            /\ ws' = ws
  <2>1. CASE BindDials(m)
    BY <1>2, <2>1 DEF BindDials, Fields, NewUdpMux
  <2>2. CASE BindFailsToDial(m)
    BY <1>2, <2>2 DEF BindFailsToDial, Fields, NewUdpMux
  <2>3. QED
    BY <2>1, <2>2
<1>4. MuxTypeOK'
  <2>1. {socket', ws', tun'} \subseteq [Muxes -> {"none", "open", "closed"}]
    BY <1>1, <1>3 DEF IInv, MuxTypeOK, Bound
  <2>2. QED
    BY <1>1, <1>3, <2>1 DEF IInv, MuxTypeOK, Bound, Goto, endVars
<1>5. CallInv'
  BY <1>1 DEF IInv, MuxTypeOK, CallInv, Bound, Goto
<1>6. ASSUME NEW k \in Muxes PROVE Stage(k)'
  <2>1. /\ call' = "newTun" /\ ~up' /\ count' = count /\ count \in Nat
        /\ tun' = tun
        /\ \A j \in Muxes : j # m => /\ socket'[j] = socket[j]
                                    /\ ws'[j] = ws[j]
                                    /\ reader'[j] = reader[j]
                                    /\ relayer'[j] = relayer[j]
        /\ reader'[m] = "check" /\ relayer'[m] = "check"
    BY <1>1, <1>3 DEF Bound, Goto, IInv, MuxTypeOK
  <2>2. CASE k = m
    <3>1. /\ socket'[m] \in {"open", "closed"}
          /\ socket'[m] = "open" <=> mux'[m].dialled
          /\ mux'[m].dialled => ws'[m] = "open"
      BY <1>3 DEF IInv, MuxTypeOK
    <3>2. Held(m)'
      BY <1>1, <1>3, <2>1, <3>1 DEF Held, Reading
    <3>3. QED
      BY <1>1, <1>3, <2>1, <2>2, <3>2 DEF Stage
  <2>3. CASE k # m
    BY <1>1, <1>3, <2>1, <2>3, OtherStage
  <2>4. QED
    BY <2>2, <2>3
<1>7. QED
  BY <1>4, <1>5, <1>6 DEF IInv

LEMMA NewTunStep ==
  ASSUME IInv, NEW m \in Muxes, NewTun(m)
  PROVE  IInv'
<1>1. /\ call = "newTun" /\ m = count /\ ~up /\ ~up' /\ Held(m)
      /\ call' \in {"configure", "unbind"} /\ count \in Nat
      /\ UNCHANGED <<count, mux, socket, ws, reader, relayer, faults>>
      /\ \A k \in Muxes : k # m => tun'[k] = tun[k]
  BY DEF NewTun, Goto, loopVars, IInv, MuxTypeOK, CallInv, Stage
<1>2. MuxTypeOK'
  <2>1. tun' \in [Muxes -> {"none", "open", "closed"}]
    BY DEF IInv, MuxTypeOK, NewTun
  <2>2. QED
    BY <1>1, <2>1 DEF IInv, MuxTypeOK, NewTun, endVars
<1>3. CallInv'
  BY <1>1 DEF CallInv, IInv
<1>4. ASSUME NEW k \in Muxes PROVE Stage(k)'
  <2>1. CASE k = m
    BY <1>1, <2>1 DEF Stage, Held, Reading, IInv
  <2>2. CASE k # m
    BY <1>1, <2>2, OtherStage
  <2>3. QED
    BY <2>1, <2>2
<1>5. QED
  BY <1>2, <1>3, <1>4 DEF IInv

LEMMA ConfigureStep ==
  ASSUME IInv, NEW m \in Muxes, ConfigureIPAddress(m)
  PROVE  IInv'
<1>1. /\ call = "configure" /\ m = count /\ ~up /\ Held(m) /\ count \in Nat
      /\ \/ call' = "idle" /\ up' = TRUE
         \/ call' \in {"unbind", "configure"} /\ up' = up
      /\ UNCHANGED <<count, mux, socket, ws, reader, relayer, tun, faults>>
  BY DEF ConfigureIPAddress, Goto, loopVars, IInv, MuxTypeOK, CallInv, Stage
<1>2. MuxTypeOK'
  BY <1>1 DEF IInv, MuxTypeOK, ConfigureIPAddress
<1>3. CallInv' /\ m > 0
  BY <1>1, MuxesAreNat DEF CallInv, IInv
<1>4. ASSUME NEW k \in Muxes PROVE Stage(k)'
  <2>1. CASE k = m
    BY <1>1, <1>3, <2>1 DEF Stage, Held, Reading, IInv
  <2>2. CASE k # m
    BY <1>1, <2>2, OtherStage
  <2>3. QED
    BY <2>1, <2>2
<1>5. QED
  BY <1>2, <1>3, <1>4 DEF IInv

LEMMA DeactivateStep ==
  ASSUME IInv, NEW m \in Muxes, Deactivate(m)
  PROVE  IInv'
<1>1. /\ call = "unbind" /\ m = count /\ ~up /\ Held(m) /\ count \in Nat
      /\ mux[m] \in Fields /\ mux \in [Muxes -> Fields]
      /\ call' = "cancel"
      /\ UNCHANGED <<count, up, socket, ws, reader, relayer, tun, faults>>
  BY DEF Deactivate, Goto, loopVars, IInv, MuxTypeOK, CallInv, Stage
<1>2. /\ mux' \in [Muxes -> Fields] /\ ~mux'[m].bindActive
      /\ mux'[m].conn = mux[m].conn /\ mux'[m].dialled = mux[m].dialled
      /\ mux'[m].peers = mux[m].peers
      /\ \A k \in Muxes : k # m => mux'[k] = mux[k]
  BY <1>1 DEF Deactivate, Fields
<1>3. MuxTypeOK'
  BY <1>1, <1>2 DEF IInv, MuxTypeOK, Deactivate, endVars
<1>4. CallInv'
  BY <1>1 DEF CallInv, IInv
<1>5. ASSUME NEW k \in Muxes PROVE Stage(k)'
  <2>1. CASE k = m
    <3>1. Leaving(m)'
      BY <1>1, <1>2 DEF Leaving, Held
    <3>2. QED
      BY <1>1, <1>2, <2>1, <3>1 DEF Stage, IInv
  <2>2. CASE k # m
    BY <1>1, <1>2, <2>2, OtherStage
  <2>3. QED
    BY <2>1, <2>2
<1>6. QED
  BY <1>3, <1>4, <1>5 DEF IInv

LEMMA CancelStep ==
  ASSUME IInv, NEW m \in Muxes, Cancel(m)
  PROVE  IInv'
<1>1. /\ call = "cancel" /\ m = count /\ ~up /\ Leaving(m) /\ count \in Nat
      /\ mux[m] \in Fields /\ mux \in [Muxes -> Fields]
      /\ call' = IF mux[m].conn THEN "close" ELSE "closeNil"
      /\ UNCHANGED <<count, up, socket, ws, reader, relayer, tun, faults>>
  BY DEF Cancel, Goto, loopVars, IInv, MuxTypeOK, CallInv, Stage
<1>2. /\ mux' \in [Muxes -> Fields]
      /\ ~mux'[m].conn /\ mux'[m].bindActive = mux[m].bindActive
      /\ mux'[m].dialled = mux[m].dialled
      /\ mux'[m].peers = mux[m].peers
      /\ \A k \in Muxes : k # m => mux'[k] = mux[k]
  BY <1>1 DEF Cancel, Fields
<1>3. MuxTypeOK'
  BY <1>1, <1>2 DEF IInv, MuxTypeOK, Cancel, endVars
<1>4. CallInv'
  BY <1>1 DEF CallInv, IInv
<1>5. ASSUME NEW k \in Muxes PROVE Stage(k)'
  <2>1. CASE k = m
    <3>1. Leaving(m)'
      BY <1>1, <1>2 DEF Leaving
    <3>2. QED
      BY <1>1, <1>2, <2>1, <3>1 DEF Stage, IInv
  <2>2. CASE k # m
    BY <1>1, <1>2, <2>2, OtherStage
  <2>3. QED
    BY <2>1, <2>2
<1>6. QED
  BY <1>3, <1>4, <1>5 DEF IInv

LEMMA CloseConnStep ==
  ASSUME IInv, NEW m \in Muxes, CloseConn(m)
  PROVE  IInv'
<1>1. /\ call = "close" /\ m = count /\ ~up /\ Leaving(m) /\ count \in Nat
      /\ call' = "closeRelay"
      /\ UNCHANGED <<count, up, mux, ws, reader, relayer, tun, faults>>
  BY DEF CloseConn, Goto, loopVars, IInv, MuxTypeOK, CallInv, Stage
<1>2. /\ socket' \in [Muxes -> {"none", "open", "closed"}]
      /\ socket'[m] = "closed"
      /\ \A k \in Muxes : k # m => socket'[k] = socket[k]
  BY DEF CloseConn, IInv, MuxTypeOK
<1>3. MuxTypeOK'
  BY <1>1, <1>2 DEF IInv, MuxTypeOK, CloseConn, endVars
<1>4. CallInv'
  BY <1>1 DEF CallInv, IInv
<1>5. ASSUME NEW k \in Muxes PROVE Stage(k)'
  <2>1. CASE k = m
    <3>1. Leaving(m)'
      BY <1>1, <1>2 DEF Leaving
    <3>2. QED
      BY <1>1, <1>2, <2>1, <3>1 DEF Stage, IInv
  <2>2. CASE k # m
    BY <1>1, <1>2, <2>2, OtherStage
  <2>3. QED
    BY <2>1, <2>2
<1>6. QED
  BY <1>3, <1>4, <1>5 DEF IInv

LEMMA CloseRelayStep ==
  ASSUME IInv, NEW m \in Muxes, CloseRelay(m)
  PROVE  IInv'
<1>1. /\ call = "closeRelay" /\ m = count /\ ~up /\ Leaving(m)
      /\ count \in Nat /\ call' = "idle"
      /\ mux[m] \in Fields /\ mux \in [Muxes -> Fields]
      /\ UNCHANGED <<count, up, socket, reader, relayer, faults>>
  BY DEF CloseRelay, Goto, loopVars, IInv, MuxTypeOK, CallInv, Stage
<1>2. /\ mux' \in [Muxes -> Fields]
      /\ mux'[m].conn = mux[m].conn
      /\ mux'[m].bindActive = mux[m].bindActive
      /\ mux'[m].peers = mux[m].peers
      /\ \A k \in Muxes : k # m => mux'[k] = mux[k]
  BY <1>1 DEF CloseRelay, Fields
<1>3. /\ {ws', tun'} \subseteq [Muxes -> {"none", "open", "closed"}]
      /\ tun'[m] # "open"
      /\ \A k \in Muxes : k # m => ws'[k] = ws[k] /\ tun'[k] = tun[k]
  BY DEF CloseRelay, CloseTun, IInv, MuxTypeOK
<1>4. MuxTypeOK'
  BY <1>1, <1>2, <1>3 DEF IInv, MuxTypeOK, CloseRelay, endVars
<1>5. CallInv'
  BY <1>1 DEF CallInv, IInv
<1>6. ASSUME NEW k \in Muxes PROVE Stage(k)'
  <2>1. CASE k = m
    <3>1. Gone(m)'
      BY <1>1, <1>2, <1>3 DEF Leaving, Gone
    <3>2. QED
      BY <1>1, <1>2, <2>1, <3>1 DEF Stage, IInv
  <2>2. CASE k # m
    BY <1>1, <1>2, <1>3, <2>2, OtherStage
  <2>3. QED
    BY <2>1, <2>2
<1>7. QED
  BY <1>4, <1>5, <1>6 DEF IInv

LEMMA CloseConnFailsStep ==
  ASSUME IInv, NEW m \in Muxes, CloseConnFails(m)
  PROVE  IInv'
<1>1. /\ call = "close" /\ m = count /\ ~up /\ Leaving(m)
      /\ count \in Nat /\ call' = "idle"
      /\ mux[m] \in Fields /\ mux \in [Muxes -> Fields]
      /\ UNCHANGED <<count, up, ws, reader, relayer, faults>>
  BY DEF CloseConnFails, Goto, loopVars, IInv, MuxTypeOK, CallInv, Stage
<1>2. /\ mux' \in [Muxes -> Fields]
      /\ mux'[m].conn = mux[m].conn
      /\ mux'[m].bindActive = mux[m].bindActive
      /\ mux'[m].peers = mux[m].peers
      /\ \A k \in Muxes : k # m => mux'[k] = mux[k]
  BY <1>1 DEF CloseConnFails, Fields
<1>3. /\ {socket', tun'} \subseteq [Muxes -> {"none", "open", "closed"}]
      /\ socket'[m] = "closed" /\ tun'[m] # "open"
      /\ \A k \in Muxes : k # m => socket'[k] = socket[k] /\ tun'[k] = tun[k]
  BY DEF CloseConnFails, CloseTun, IInv, MuxTypeOK
<1>4. MuxTypeOK'
  BY <1>1, <1>2, <1>3 DEF IInv, MuxTypeOK, CloseConnFails, endVars
<1>5. CallInv'
  BY <1>1 DEF CallInv, IInv
<1>6. ASSUME NEW k \in Muxes PROVE Stage(k)'
  <2>1. CASE k = m
    <3>1. Gone(m)'
      BY <1>1, <1>2, <1>3 DEF Leaving, Gone
    <3>2. QED
      BY <1>1, <1>2, <2>1, <3>1 DEF Stage, IInv
  <2>2. CASE k # m
    BY <1>1, <1>2, <1>3, <2>2, OtherStage
  <2>3. QED
    BY <2>1, <2>2
<1>7. QED
  BY <1>4, <1>5, <1>6 DEF IInv

LEMMA UpStep ==
  ASSUME IInv, StepUp
  PROVE  IInv'
<1>1. CASE ListenFails
  <2>1. /\ call = "bind" /\ call' = "idle" /\ ~up /\ count \in Nat
        /\ UNCHANGED <<count, up, mux, socket, ws, reader, relayer, tun,
                       faults>>
    BY <1>1 DEF ListenFails, Goto, loopVars, IInv, CallInv, MuxTypeOK
  <2>2. MuxTypeOK'
    BY <1>1, <2>1 DEF IInv, MuxTypeOK, ListenFails, endVars
  <2>3. CallInv'
    BY <2>1 DEF IInv, CallInv
  <2>4. ASSUME NEW k \in Muxes PROVE Stage(k)'
    <3>1. CASE k = count
      BY <2>1, <3>1 DEF IInv, Stage, Fresh, Gone, NewUdpMux
    <3>2. CASE k # count
      BY <2>1, <3>2, OtherStage
    <3>3. QED
      BY <3>1, <3>2
  <2>5. QED
    BY <2>2, <2>3, <2>4 DEF IInv
<1>2. CASE CloseNilConn
  <2>1. UNCHANGED <<call, count, up, mux, socket, ws, reader, relayer, tun,
                    faults>>
    BY <1>2 DEF CloseNilConn, callVars, loopVars
  <2>2. MuxTypeOK'
    BY <1>2, <2>1 DEF IInv, MuxTypeOK, CloseNilConn
  <2>3. CallInv' /\ \A m \in Muxes : Stage(m)'
    BY <2>1 DEF IInv, CallInv, Stage, Fresh, Gone, Held, Leaving, Reading
  <2>4. QED
    BY <2>2, <2>3 DEF IInv
<1>3. QED
  BY <1>1, <1>2, StartUpStep, BindStep, NewTunStep, ConfigureStep,
     DeactivateStep, CancelStep, CloseConnStep, CloseConnFailsStep,
     CloseRelayStep DEF StepUp

-----------------------------------------------------------------------------
(***************************************************************************)
(* The loops.  Their steps change nothing of the mux but publicAddr, and   *)
(* end a loop of a bound mux only when a socket has broken.                *)
(***************************************************************************)
LEMMA LoopStage ==
  ASSUME IInv, NEW k \in Muxes, UNCHANGED <<call, count, up, socket, tun>>,
         faults' = faults \/ (faults \in Nat /\ faults' = faults + 1),
         mux'[k].conn = mux[k].conn, mux'[k].rcConn = mux[k].rcConn,
         mux'[k].bindActive = mux[k].bindActive,
         mux'[k].cancelled = mux[k].cancelled,
         mux'[k].peers = mux[k].peers, mux'[k].dialled = mux[k].dialled,
         Fresh(k) => Fresh(k)',
         mux[k].dialled /\ Held(k) /\ faults' = 0 => Reading(k)'
  PROVE  Stage(k)'
<1>1. Gone(k) => Gone(k)'
  BY DEF Gone
<1>2. Held(k) => Held(k)'
  BY DEF Held
<1>3. Leaving(k) => Leaving(k)'
  BY DEF Leaving
<1>4. QED
  BY <1>1, <1>2, <1>3 DEF IInv, Stage

LEMMA ReaderStep ==
  ASSUME IInv, NEW m \in Muxes,
         StepReader(m) \/ ReadBreaks(m) \/ ReadPacket(m)
  PROVE  IInv'
<1> DEFINE Places == {"none", "check", "assert", "read", "inactive",
                      "closed", "error"}
<1>1. /\ UNCHANGED <<call, count, up, mux, socket, ws, relayer, tun, stun,
                     exited>>
      /\ reader \in [Muxes -> Places] /\ reader[m] # "none"
      /\ panicked' \in BOOLEAN
      /\ \/ faults' = faults
         \/ faults \in Nat /\ faults' = faults + 1 /\ faults < MaxFaults
  <2> USE DEF StepReader, ReadChecks, ReadAsserts, ReadAssertsNil, ReadFails,
              ReadBreaks, ReadPacket, ReaderOnly, callVars, endVars
  <2>1. /\ reader \in [Muxes -> Places] /\ panicked \in BOOLEAN
        /\ faults \in Nat
    BY DEF IInv, MuxTypeOK
  <2>2. UNCHANGED <<call, count, up, mux, socket, ws, relayer, tun, stun,
                    exited>>
    OBVIOUS
  <2>3. reader[m] # "none"
    OBVIOUS
  <2>4. panicked' \in BOOLEAN
    BY <2>1
  <2>5. \/ faults' = faults
        \/ faults' = faults + 1 /\ faults < MaxFaults
    OBVIOUS
  <2>6. QED
    BY <2>1, <2>2, <2>3, <2>4, <2>5
<1>2. \E place \in Places :
        \/ reader' = [reader EXCEPT ![m] = place]
        \/ reader' = reader /\ place = reader[m]
  BY <1>1 DEF StepReader, ReadChecks, ReadAsserts, ReadAssertsNil, ReadFails,
     ReadBreaks, ReadPacket, ReaderGoes, ReadError
<1>3. /\ reader' \in [Muxes -> Places]
      /\ \A k \in Muxes : k # m => reader'[k] = reader[k]
  BY <1>1, <1>2
<1>4. MuxTypeOK'
  BY <1>1, <1>3 DEF IInv, MuxTypeOK
<1>5. CallInv'
  BY <1>1 DEF IInv, CallInv
<1>6. mux[m].dialled /\ Held(m) /\ faults' = 0 => Reading(m)'
  <2> SUFFICES ASSUME mux[m].dialled, Held(m), faults' = 0
               PROVE  Reading(m)'
    OBVIOUS
  <2>1. /\ mux[m].bindActive /\ mux[m].conn /\ socket[m] = "open"
        /\ faults' = faults /\ Reading(m)
    BY <1>1 DEF Held
  <2>2. ReadChecks(m) \/ ReadAsserts(m) \/ ReadPacket(m)
    BY <1>1, <2>1 DEF StepReader, ReadAssertsNil, ReadFails, ReadBreaks,
       IInv, MuxTypeOK
  <2>3. reader'[m] \in {"check", "assert", "read"}
    BY <1>1, <2>1, <2>2 DEF ReadChecks, ReadAsserts, ReadPacket, ReaderGoes
  <2>4. QED
    BY <1>1, <2>1, <2>3 DEF Reading
<1>7. ASSUME NEW k \in Muxes PROVE Stage(k)'
  <2>1. Fresh(k) => Fresh(k)'
    BY <1>1, <1>3 DEF Fresh
  <2>2. mux[k].dialled /\ Held(k) /\ faults' = 0 => Reading(k)'
    <3>1. CASE k = m
      BY <1>6, <3>1
    <3>2. CASE k # m
      BY <1>1, <1>3, <3>2 DEF Held, Reading
    <3>3. QED
      BY <3>1, <3>2
  <2>3. QED
    BY <1>1, <2>1, <2>2, LoopStage
<1>8. QED
  BY <1>4, <1>5, <1>7 DEF IInv

LEMMA HandleStunStep ==
  ASSUME IInv, NEW m \in Muxes, HandleStun(m)
  PROVE  IInv'
<1>1. /\ UNCHANGED <<call, count, up, socket, ws, relayer, tun, panicked,
                     exited, faults>>
      /\ mux \in [Muxes -> Fields] /\ mux[m] \in Fields
      /\ reader[m] # "none"
  BY DEF HandleStun, callVars, endVars, IInv, MuxTypeOK
<1>2. /\ mux' \in [Muxes -> Fields]
      /\ \A k \in Muxes :
           /\ k # m => mux'[k] = mux[k]
           /\ mux'[k].conn = mux[k].conn /\ mux'[k].rcConn = mux[k].rcConn
           /\ mux'[k].bindActive = mux[k].bindActive
           /\ mux'[k].cancelled = mux[k].cancelled
           /\ mux'[k].peers = mux[k].peers
           /\ mux'[k].dialled = mux[k].dialled
  BY <1>1 DEF HandleStun, Fields
<1>3. /\ stun' \in [Muxes -> BOOLEAN] /\ reader'[m] = "check"
      /\ reader' \in [Muxes -> {"none", "check", "assert", "read",
                                "inactive", "closed", "error"}]
      /\ \A k \in Muxes : k # m => reader'[k] = reader[k]
  BY DEF HandleStun, ReaderGoes, IInv, MuxTypeOK
<1>4. MuxTypeOK'
  BY <1>1, <1>2, <1>3 DEF IInv, MuxTypeOK
<1>5. CallInv'
  BY <1>1 DEF IInv, CallInv
<1>6. ASSUME NEW k \in Muxes PROVE Stage(k)'
  <2>1. Fresh(k) => Fresh(k)'
    BY <1>1, <1>2, <1>3 DEF Fresh
  <2>2. mux[k].dialled /\ Held(k) /\ faults' = 0 => Reading(k)'
    BY <1>1, <1>3 DEF Held, Reading
  <2>3. QED
    BY <1>1, <1>2, <2>1, <2>2, LoopStage
<1>7. QED
  BY <1>4, <1>5, <1>6 DEF IInv

LEMMA RelayerStep ==
  ASSUME IInv, NEW m \in Muxes,
         StepRelayer(m) \/ RelayBreaks(m) \/ RelayReads(m)
  PROVE  IInv'
<1>1. /\ UNCHANGED <<call, count, up, mux, socket, reader, tun, stun,
                     panicked, exited>>
      /\ relayer[m] # "none" \/ ws[m] # "none"
      /\ \/ faults' = faults
         \/ faults \in Nat /\ faults' = faults + 1 /\ faults < MaxFaults
  BY DEF StepRelayer, RelayChecks, RelayBegins, RelayReadFails, RelayBreaks,
         RelayReads, RelayerOnly, callVars, loopVars, endVars, IInv, MuxTypeOK
<1>2. /\ relayer' \in [Muxes -> {"none", "check", "begin", "read", "ended"}]
      /\ \A k \in Muxes : k # m => relayer'[k] = relayer[k]
  BY DEF StepRelayer, RelayChecks, RelayBegins, RelayReadFails, RelayBreaks,
         RelayReads, loopVars, RelayerGoes, IInv, MuxTypeOK
<1>3. /\ ws' \in [Muxes -> {"none", "open", "closed"}]
      /\ \A k \in Muxes : k # m => ws'[k] = ws[k]
  BY DEF StepRelayer, RelayChecks, RelayBegins, RelayReadFails, RelayBreaks,
         RelayReads, RelayerOnly, IInv, MuxTypeOK
<1>4. MuxTypeOK'
  BY <1>1, <1>2, <1>3 DEF IInv, MuxTypeOK
<1>5. CallInv'
  BY <1>1 DEF IInv, CallInv
<1>6. mux[m].dialled /\ Held(m) /\ faults' = 0 => Reading(m)'
  <2> SUFFICES ASSUME mux[m].dialled, Held(m), faults' = 0
               PROVE  Reading(m)'
    OBVIOUS
  <2>1. /\ mux[m].bindActive /\ mux[m].rcConn /\ ~mux[m].cancelled
        /\ faults' = faults /\ Reading(m)
    BY <1>1 DEF Held
  <2>2. RelayChecks(m) \/ RelayBegins(m) \/ RelayReads(m)
    <3>1. ~RelayReadFails(m)
      BY <2>1 DEF RelayReadFails, Reading
    <3>2. ~RelayBreaks(m)
      BY <2>1 DEF RelayBreaks, IInv, MuxTypeOK
    <3>3. QED
      BY <3>1, <3>2 DEF StepRelayer
  <2>3. relayer'[m] \in {"check", "begin", "read"} /\ ws' = ws
    BY <2>1, <2>2 DEF RelayChecks, RelayBegins, RelayReads, RelayerGoes,
       RelayerOnly, IInv, MuxTypeOK
  <2>4. QED
    BY <1>1, <2>1, <2>3 DEF Reading
<1>7. ASSUME NEW k \in Muxes PROVE Stage(k)'
  <2>1. Fresh(k) => Fresh(k)'
    BY <1>1, <1>2, <1>3 DEF Fresh
  <2>2. mux[k].dialled /\ Held(k) /\ faults' = 0 => Reading(k)'
    <3>1. CASE k = m
      BY <1>6, <3>1
    <3>2. CASE k # m
      BY <1>1, <1>2, <1>3, <3>2 DEF Held, Reading
    <3>3. QED
      BY <3>1, <3>2
  <2>3. QED
    BY <1>1, <2>1, <2>2, LoopStage
<1>8. QED
  BY <1>4, <1>5, <1>7 DEF IInv

-----------------------------------------------------------------------------
\* The peers, which only the mux of a call that has succeeded has.
LEMMA RegisterPeerStep ==
  ASSUME IInv, NEW m \in Muxes, RegisterPeer(m)
  PROVE  IInv'
<1>1. /\ up /\ call = "idle" /\ m = count /\ count \in Nat
      /\ UNCHANGED <<call, count, up, socket, ws, reader, relayer, tun, stun,
                     panicked, exited, faults>>
      /\ mux \in [Muxes -> Fields] /\ mux[m] \in Fields
  BY DEF RegisterPeer, callVars, loopVars, endVars, IInv, MuxTypeOK
<1>2. /\ mux' \in [Muxes -> Fields]
      /\ mux'[m].conn = mux[m].conn /\ mux'[m].rcConn = mux[m].rcConn
      /\ mux'[m].bindActive = mux[m].bindActive
      /\ mux'[m].cancelled = mux[m].cancelled
      /\ mux'[m].dialled = mux[m].dialled
      /\ \A k \in Muxes : k # m => mux'[k] = mux[k]
  BY <1>1 DEF RegisterPeer, Fields
<1>3. MuxTypeOK'
  BY <1>1, <1>2 DEF IInv, MuxTypeOK
<1>4. CallInv'
  BY <1>1 DEF IInv, CallInv
<1>5. ASSUME NEW k \in Muxes PROVE Stage(k)'
  <2>1. CASE k = m
    <3>1. Held(m)
      BY <1>1 DEF IInv, Stage
    <3>2. Held(m)'
      BY <1>1, <1>2, <3>1 DEF Held, Reading
    <3>3. QED
      BY <1>1, <2>1, <3>2 DEF Stage
  <2>2. CASE k # m
    <3>1. mux'[k] = mux[k]
      BY <1>2, <2>2
    <3>2. (Fresh(k) => Fresh(k)') /\ (Gone(k) => Gone(k)')
      BY <1>1, <3>1 DEF Fresh, Gone
    <3>3. QED
      BY <1>1, <2>2, <3>1, <3>2 DEF IInv, Stage
  <2>3. QED
    BY <2>1, <2>2
<1>6. QED
  BY <1>3, <1>4, <1>5 DEF IInv

LEMMA DoStunStep ==
  ASSUME IInv, NEW m \in Muxes, DoStun(m)
  PROVE  IInv'
<1>1. UNCHANGED <<call, count, up, mux, socket, ws, reader, relayer, tun,
                  exited, faults>>
  BY DEF DoStun, callVars, loopVars
<1>2. mux[m].conn \in BOOLEAN
  BY DEF IInv, MuxTypeOK, Fields
<1>3. stun' \in [Muxes -> BOOLEAN] /\ panicked' \in BOOLEAN
  BY <1>2 DEF DoStun, IInv, MuxTypeOK
<1>4. MuxTypeOK'
  BY <1>1, <1>3 DEF IInv, MuxTypeOK
<1>5. CallInv' /\ \A k \in Muxes : Stage(k)'
  BY <1>1 DEF IInv, CallInv, Stage, Fresh, Gone, Held, Leaving, Reading
<1>6. QED
  BY <1>4, <1>5 DEF IInv

-----------------------------------------------------------------------------
LEMMA Invariance == IInv /\ [Next]_muxVars => IInv'
<1> SUFFICES ASSUME IInv, [Next]_muxVars PROVE IInv'
  OBVIOUS
<1>1. CASE UNCHANGED muxVars
  <2>1. MuxTypeOK'
    BY <1>1 DEF muxVars, IInv, MuxTypeOK
  <2>2. CallInv' /\ \A m \in Muxes : Stage(m)'
    BY <1>1 DEF muxVars, IInv, CallInv, Stage, Fresh, Gone, Held, Leaving,
                Reading
  <2>3. QED
    BY <2>1, <2>2 DEF IInv
<1>2. CASE Next
  BY <1>2, UpStep, ReaderStep, HandleStunStep, RelayerStep, RegisterPeerStep,
     DoStunStep DEF Next, Step
<1>3. QED
  BY <1>1, <1>2

LEMMA StagesOfUp == Spec => []IInv
BY InitInv, Invariance, PTL DEF Spec

(***************************************************************************)
(* A conn that is set is open, and an open one belongs to a bind that is   *)
(* active or that Unbind has under its lock.                               *)
(***************************************************************************)
THEOREM ConnOfABindIsOpen == Spec => []MuxInv
<1>1. IInv => MuxInv
  <2> SUFFICES ASSUME IInv, NEW m \in Muxes
               PROVE  /\ mux[m].conn => socket[m] = "open"
                      /\ socket[m] = "open" =>
                           mux[m].bindActive \/ ~Unlocked(m)
    BY DEF MuxInv, ConnIsOpen, IInv
  <2>1. Stage(m) /\ m \in Nat /\ count \in Nat /\ CallInv
    BY MuxesAreNat DEF IInv, MuxTypeOK
  <2>2. Fresh(m) \/ Gone(m) \/ Held(m) \/ (m = count /\ Leaving(m))
    BY <2>1 DEF Stage, IInv, MuxTypeOK
  <2>3. QED
    BY <2>1, <2>2
       DEF Fresh, Gone, Held, Leaving, Unlocked, NewUdpMux
<1>2. QED
  BY StagesOfUp, <1>1, PTL

\* When a call of Up has failed, or none has been made, nothing is open; and
\* of all muxes only the last may be.
LEMMA OpenIsTheLast ==
  ASSUME IInv, NEW m \in Muxes
  PROVE  /\ socket[m] = "open" => m = count
         /\ call \in {"idle", "bind"} /\ ~up =>
              socket[m] # "open" /\ tun[m] # "open"
<1>1. Stage(m) /\ m \in Nat /\ count \in Nat
  BY MuxesAreNat DEF IInv, MuxTypeOK
<1>2. Fresh(m) \/ Gone(m) => socket[m] # "open" /\ tun[m] # "open"
  BY DEF Fresh, Gone
<1>3. QED
  BY <1>1, <1>2 DEF Stage

(***************************************************************************)
(* Up may be called again after it has failed, at whichever step: what the *)
(* failed call has opened is closed, so Bind finds its port free and there *)
(* is no second tunnel.                                                    *)
(***************************************************************************)
THEOREM BindFindsItsPortFree == Spec => []PortIsFree
<1>1. IInv => PortIsFree
  <2> SUFFICES ASSUME IInv PROVE PortIsFree
    OBVIOUS
  <2> DEFINE Open == {m \in Muxes : socket[m] = "open"}
  <2>1. Open \subseteq {count}
    BY OpenIsTheLast
  <2>2. Cardinality({count}) = 1 /\ IsFiniteSet({count})
    BY FS_Singleton
  <2>3. Cardinality(Open) <= 1
    BY <2>1, <2>2, FS_Subset
  <2>4. QED
    BY <2>3, OpenIsTheLast DEF PortIsFree
<1>2. QED
  BY StagesOfUp, <1>1, PTL

\* The mux of a call of Up that has succeeded.
LEMMA LastWhenUp ==
  ASSUME IInv, up
  PROVE  count \in Muxes /\ Held(count)
<1>1. count \in Muxes
  BY DEF IInv, MuxTypeOK, CallInv, Muxes
<1>2. QED
  BY <1>1 DEF IInv, Stage

(***************************************************************************)
(* Both loops of a node that is up with its relay dialled read on as long  *)
(* as no socket breaks.                                                    *)
(***************************************************************************)
THEOREM LoopsReadWhileUp == Spec => []ReadsWhileUp
<1>1. IInv => ReadsWhileUp
  BY LastWhenUp DEF ReadsWhileUp, Held, Reading
<1>2. QED
  BY StagesOfUp, <1>1, PTL

(***************************************************************************)
(* A node that is up with its relay dialled panics on a nil conn only in a *)
(* read loop that an earlier, failed call of Up has left between its look  *)
(* at the fields and their use.                                            *)
(***************************************************************************)
THEOREM OnlyAnOldReadPanics == Spec => PanicsOnlyOfOldRead
<1>1. ASSUME IInv, Next, up, mux[count].dialled, panicked'
      PROVE  \E m \in 1..(count - 1) : reader[m] = "assert"
  <2>1. call = "idle" /\ count \in Muxes /\ mux[count].conn
    BY <1>1, LastWhenUp DEF IInv, CallInv, Held
  <2>2. PICK m \in Muxes : ReadAssertsNil(m) \/ DoStun(m)
    <3>1. ~panicked /\ Step
      BY <1>1 DEF Next, Running
    <3>2. ~StepUp
      BY <1>1, <2>1 DEF StepUp, StartUp, ListenFails, CloseNilConn, BindDials,
         BindFailsToDial, NewTun, ConfigureIPAddress, Deactivate, Cancel,
         CloseConn, CloseConnFails, CloseRelay
    <3>3. QED
      BY <1>1, <3>1, <3>2 DEF Step, StepReader, ReadChecks, ReadAsserts,
         ReadFails, ReadBreaks, ReadPacket, HandleStun, StepRelayer,
         RelayChecks, RelayBegins, RelayReadFails, RelayBreaks, RelayReads,
         RegisterPeer, ReaderOnly, RelayerOnly, endVars
  <2>3. ~mux[m].conn
    BY <1>1, <2>2 DEF ReadAssertsNil, DoStun
  <2>4. Stage(m) /\ m # count
    BY <1>1, <2>1, <2>3 DEF IInv
  <2>5. ~DoStun(m)
    BY <2>4 DEF Stage, DoStun
  <2>6. reader[m] = "assert"
    BY <2>2, <2>5 DEF ReadAssertsNil
  <2>7. ~(m > count)
    BY <2>4, <2>6 DEF Stage, Fresh
  <2>8. m \in 1..(count - 1)
    BY <1>1, <2>4, <2>7, MuxesAreNat DEF IInv, MuxTypeOK
  <2>9. QED
    BY <2>6, <2>8
<1>2. QED
  BY StagesOfUp, <1>1, PTL DEF Spec, PanicsOnlyOfOldRead
=============================================================================
