-------------------------------- MODULE UdpMux --------------------------------
(***************************************************************************)
(* The sockets of a node: Controller.Up makes a UdpMux, binds it, creates  *)
(* the tunnel, and undoes what it did when one of the steps fails.  A bind *)
(* starts two loops, one that reads UDP packets and one that reads relay   *)
(* packets; the first looks at the fields of the mux without its lock.     *)
(* Up may be called again after it has failed, and makes a new mux then.   *)
(***************************************************************************)
EXTENDS Naturals, FiniteSets

CONSTANTS
  MaxUps,      \* bound: calls of Up
  MaxFaults    \* bound: sockets that break while they are read

ASSUME MuxAssumption == MaxUps \in Nat /\ MaxFaults \in Nat

Muxes == 1..MaxUps

VARIABLES
  call,      \* where the call of Up is
  count,     \* calls of Up so far; the mux of the last one
  up,        \* Controller.up
  mux,       \* mux -> its fields
  socket,    \* mux -> its UDP socket
  ws,        \* mux -> its connection to the relay
  reader,    \* mux -> where startReadLoop is
  relayer,   \* mux -> where relayReadLoop is
  stun,      \* mux -> a STUN request of its is on its way
  tun,       \* mux -> the tunnel device created with it
  panicked,  \* the process has died of a nil conn
  exited,    \* ... or was ended by log.Fatalf
  faults     \* sockets broken so far

callVars == <<call, count, up, tun>>
loopVars == <<reader, relayer>>
endVars  == <<panicked, exited>>
muxVars  == <<call, count, up, mux, socket, ws, reader, relayer, stun, tun,
              panicked, exited, faults>>

Running == ~panicked /\ ~exited

(***************************************************************************)
(* conn and rcConn say whether the fields are set; peers whether a peer is *)
(* registered; public whether publicAddr is known; dialled and closeFailed *)
(* are history: the relay was dialled, closing conn has had an error.      *)
(***************************************************************************)
NewUdpMux ==
  [conn |-> FALSE, rcConn |-> FALSE, bindActive |-> FALSE,
   cancelled |-> FALSE, peers |-> FALSE, public |-> FALSE, dialled |-> FALSE,
   closeFailed |-> FALSE]

Init ==
  /\ call = "idle" /\ count = 0 /\ up = FALSE
  /\ mux = [m \in Muxes |-> NewUdpMux]
  /\ socket = [m \in Muxes |-> "none"]
  /\ ws = [m \in Muxes |-> "none"]
  /\ reader = [m \in Muxes |-> "none"]
  /\ relayer = [m \in Muxes |-> "none"]
  /\ stun = [m \in Muxes |-> FALSE]
  /\ tun = [m \in Muxes |-> "none"]
  /\ panicked = FALSE /\ exited = FALSE
  /\ faults = 0

-----------------------------------------------------------------------------
(***************************************************************************)
(* Bind, under the locks of the controller and of a mux nobody knows yet.  *)
(* When the relay cannot be dialled it clears what it has set and goes on  *)
(* as if it could: bindActive is set and the loops are started.            *)
(***************************************************************************)
Goto(place) == call' = place

StartUp ==
  /\ call = "idle" /\ ~up
  /\ count < MaxUps
  /\ count' = count + 1
  /\ Goto("bind")
  /\ UNCHANGED <<up, mux, socket, ws, loopVars, stun, tun, endVars, faults>>

ListenFails ==
  /\ call = "bind"
  /\ Goto("idle")
  /\ UNCHANGED <<count, up, mux, socket, ws, loopVars, stun, tun, endVars,
                 faults>>

Bound(m) ==
  /\ reader' = [reader EXCEPT ![m] = "check"]
  /\ relayer' = [relayer EXCEPT ![m] = "check"]
  /\ Goto("newTun")
  /\ UNCHANGED <<count, up, stun, tun, endVars, faults>>

BindDials(m) ==
  /\ call = "bind" /\ m = count
  /\ mux' = [mux EXCEPT ![m].conn = TRUE, ![m].rcConn = TRUE,
                        ![m].bindActive = TRUE, ![m].dialled = TRUE]
  /\ socket' = [socket EXCEPT ![m] = "open"]
  /\ ws' = [ws EXCEPT ![m] = "open"]
  /\ Bound(m)

\* (variant: conn is closed but still set)
BindFailsToDial_KeepsConn(m) ==
  /\ call = "bind" /\ m = count
  /\ mux' = [mux EXCEPT ![m].cancelled = TRUE, ![m].bindActive = TRUE,
                        ![m].conn = TRUE]
  /\ socket' = [socket EXCEPT ![m] = "closed"]
  /\ UNCHANGED ws
  /\ Bound(m)

BindFailsToDial(m) ==
  /\ call = "bind" /\ m = count
  /\ mux' = [mux EXCEPT ![m].cancelled = TRUE, ![m].bindActive = TRUE]
  /\ socket' = [socket EXCEPT ![m] = "closed"]
  /\ UNCHANGED ws
  /\ Bound(m)

-----------------------------------------------------------------------------
(***************************************************************************)
(* The rest of Up.  A route that cannot be added ends the process.         *)
(***************************************************************************)
NewTun(m) ==
  /\ call = "newTun" /\ m = count
  /\ \/ Goto("configure") /\ tun' = [tun EXCEPT ![m] = "open"]
     \/ Goto("unbind") /\ UNCHANGED tun
  /\ UNCHANGED <<count, up, mux, socket, ws, loopVars, stun, endVars, faults>>

ConfigureIPAddress(m) ==
  /\ call = "configure" /\ m = count
  /\ \/ Goto("idle") /\ up' = TRUE /\ UNCHANGED exited
     \/ Goto("unbind") /\ UNCHANGED <<up, exited>>
     \/ exited' = TRUE /\ UNCHANGED <<call, up>>
  /\ UNCHANGED <<count, mux, socket, ws, loopVars, stun, tun, panicked,
                 faults>>

(***************************************************************************)
(* Unbind, from Up's fail.  Each write of a field may be seen by the loop  *)
(* that reads it without the lock.                                         *)
(***************************************************************************)
Deactivate(m) ==
  /\ call = "unbind" /\ m = count
  /\ mux' = [mux EXCEPT ![m].bindActive = FALSE]
  /\ Goto("cancel")
  /\ UNCHANGED <<count, up, socket, ws, loopVars, stun, tun, endVars, faults>>

Cancel(m) ==
  /\ call = "cancel" /\ m = count
  /\ mux' = [mux EXCEPT ![m].cancelled = TRUE, ![m].conn = FALSE]
  /\ Goto(IF mux[m].conn THEN "close" ELSE "closeNil")
  /\ UNCHANGED <<count, up, socket, ws, loopVars, stun, tun, endVars, faults>>

\* (variant: the socket is not closed)
CloseConn_Forgotten(m) ==
  /\ call = "close" /\ m = count
  /\ Goto("closeRelay")
  /\ UNCHANGED <<count, up, mux, socket, ws, loopVars, stun, tun, endVars,
                 faults>>

CloseConn(m) ==
  /\ call = "close" /\ m = count
  /\ socket' = [socket EXCEPT ![m] = "closed"]
  /\ Goto("closeRelay")
  /\ UNCHANGED <<count, up, mux, ws, loopVars, stun, tun, endVars, faults>>

(***************************************************************************)
(* Close frees the port also when it returns an error, but Unbind returns  *)
(* at it, before RelayClient.Close: the relay connection stays as it is.   *)
(* Up ignores the error, drops the mux and closes the tunnel.              *)
(***************************************************************************)
CloseTun(m) == tun' = [tun EXCEPT ![m] = IF @ = "open" THEN "closed" ELSE @]

CloseConnFails(m) ==
  /\ call = "close" /\ m = count
  /\ socket' = [socket EXCEPT ![m] = "closed"]
  /\ mux' = [mux EXCEPT ![m].closeFailed = TRUE]
  /\ CloseTun(m)
  /\ Goto("idle")
  /\ UNCHANGED <<count, up, ws, loopVars, stun, endVars, faults>>

CloseNilConn ==
  /\ call = "closeNil"
  /\ panicked' = TRUE
  /\ UNCHANGED <<callVars, mux, socket, ws, loopVars, stun, exited, faults>>

\* RelayClient.Close, and then the tunnel if there is one.
\* (variant: the relay client is dropped without Close)
CloseRelay_Dropped(m) ==
  /\ call = "closeRelay" /\ m = count
  /\ CloseTun(m)
  /\ Goto("idle")
  /\ UNCHANGED <<count, up, mux, ws, socket, loopVars, stun, endVars, faults>>

CloseRelay(m) ==
  /\ call = "closeRelay" /\ m = count
  /\ ws' = [ws EXCEPT ![m] = "closed"]
  /\ mux' = [mux EXCEPT ![m].rcConn = FALSE]
  /\ CloseTun(m)
  /\ Goto("idle")
  /\ UNCHANGED <<count, up, socket, loopVars, stun, endVars, faults>>

-----------------------------------------------------------------------------
(***************************************************************************)
(* startReadLoop.  Between the look at the fields in read and the type     *)
(* assertion on conn the mux may be unbound: the assertion panics, or sees *)
(* half of the old value and the read fails.                               *)
(***************************************************************************)
ReaderGoes(m, place) == reader' = [reader EXCEPT ![m] = place]

ReaderOnly == UNCHANGED <<callVars, mux, socket, ws, relayer, stun, endVars,
                          faults>>

\* What becomes of an error of the socket once bindActive is looked at again.
ReadError(m, err) == IF mux[m].bindActive THEN err ELSE "inactive"

ReadChecks(m) ==
  /\ reader[m] = "check"
  /\ ReaderGoes(m, IF mux[m].bindActive /\ mux[m].conn THEN "assert"
                                                       ELSE "inactive")
  /\ ReaderOnly

ReadAsserts(m) ==
  /\ reader[m] = "assert" /\ mux[m].conn
  /\ ReaderGoes(m, "read")
  /\ ReaderOnly

ReadAssertsNil(m) ==
  /\ reader[m] = "assert" /\ ~mux[m].conn
  /\ \/ panicked' = TRUE /\ UNCHANGED reader
     \/ ReaderGoes(m, ReadError(m, "error")) /\ UNCHANGED panicked
  /\ UNCHANGED <<callVars, mux, socket, ws, relayer, stun, exited, faults>>

ReadFails(m) ==
  /\ reader[m] = "read" /\ socket[m] # "open"
  /\ ReaderGoes(m, ReadError(m, "closed"))
  /\ ReaderOnly

\* The socket of a bound mux fails on its own.
ReadBreaks(m) ==
  /\ reader[m] = "read" /\ socket[m] = "open"
  /\ faults < MaxFaults
  /\ faults' = faults + 1
  /\ ReaderGoes(m, ReadError(m, "error"))
  /\ UNCHANGED <<callVars, mux, socket, ws, relayer, stun, endVars>>

\* The lock of the mux is free: Unbind holds it to its end.
Unlocked(m) ==
  m # count \/ call \notin {"cancel", "close", "closeNil", "closeRelay"}

\* A packet that is too short, of a node that is no peer, or for a peer.
ReadPacket(m) ==
  /\ reader[m] = "read" /\ socket[m] = "open"
  /\ ReaderGoes(m, "check")
  /\ ReaderOnly

\* The answer to a STUN request.
HandleStun(m) ==
  /\ reader[m] = "read" /\ socket[m] = "open"
  /\ stun[m] /\ Unlocked(m)
  /\ stun' = [stun EXCEPT ![m] = FALSE]
  /\ mux' = [mux EXCEPT ![m].public = TRUE]
  /\ ReaderGoes(m, "check")
  /\ UNCHANGED <<callVars, socket, ws, relayer, endVars, faults>>

-----------------------------------------------------------------------------
(***************************************************************************)
(* relayReadLoop.  An error ends the loop, whatever it is.  A read that    *)
(* begins with a cancelled context fails at once or waits like any other;  *)
(* a context that is cancelled while a read waits closes the connection.   *)
(* ReadPacket also refuses a message that is not binary or has no header,  *)
(* and the loop ends then; relayHandler writes none, and none is modelled. *)
(***************************************************************************)
RelayerGoes(m, place) == relayer' = [relayer EXCEPT ![m] = place]

RelayerOnly == UNCHANGED <<callVars, mux, socket, ws, reader, stun, endVars,
                           faults>>

RelayChecks(m) ==
  /\ relayer[m] = "check" /\ Unlocked(m)
  /\ RelayerGoes(m, IF mux[m].bindActive THEN "begin" ELSE "ended")
  /\ RelayerOnly

RelayBegins(m) ==
  /\ relayer[m] = "begin"
  /\ \/ mux[m].rcConn /\ RelayerGoes(m, "read")
     \/ (~mux[m].rcConn \/ mux[m].cancelled) /\ RelayerGoes(m, "ended")
  /\ RelayerOnly

\* (variant: the loop that loses the relay clears conn)
RelayReadFails_ClearsConn(m) ==
  /\ relayer[m] = "read"
  /\ mux[m].cancelled \/ ws[m] # "open"
  /\ RelayerGoes(m, "ended")
  /\ ws' = [ws EXCEPT ![m] = "closed"]
  /\ mux' = [mux EXCEPT ![m].conn = FALSE]
  /\ UNCHANGED <<callVars, socket, reader, stun, endVars, faults>>

RelayReadFails(m) ==
  /\ relayer[m] = "read"
  /\ mux[m].cancelled \/ ws[m] # "open"
  /\ RelayerGoes(m, "ended")
  /\ ws' = [ws EXCEPT ![m] = "closed"]
  /\ UNCHANGED <<callVars, mux, socket, reader, stun, endVars, faults>>

\* The relay has gone away.
RelayBreaks(m) ==
  /\ ws[m] = "open"
  /\ faults < MaxFaults
  /\ faults' = faults + 1
  /\ ws' = [ws EXCEPT ![m] = "closed"]
  /\ UNCHANGED <<callVars, mux, socket, loopVars, stun, endVars>>

\* (variant: a packet of a node that is no peer ends the loop)
RelayReads_ReturnsOnUnknown(m) ==
  /\ relayer[m] = "read" /\ ws[m] = "open"
  /\ RelayerGoes(m, IF mux[m].peers THEN "check" ELSE "ended")
  /\ RelayerOnly

RelayReads(m) ==
  /\ relayer[m] = "read" /\ ws[m] = "open"
  /\ RelayerGoes(m, "check")
  /\ RelayerOnly

-----------------------------------------------------------------------------
\* RegisterPeer, from the controller's AddPeer once it is up.
RegisterPeer(m) ==
  /\ up /\ call = "idle" /\ m = count
  /\ mux' = [mux EXCEPT ![m].peers = TRUE]
  /\ UNCHANGED <<callVars, socket, ws, loopVars, stun, endVars, faults>>

(***************************************************************************)
(* doStun, from a peer's sendEndpoints, when the server's name has been    *)
(* resolved.                                                               *)
(***************************************************************************)
DoStun(m) ==
  /\ mux[m].peers
  /\ stun' = [stun EXCEPT ![m] = mux[m].conn]
  /\ panicked' = ~mux[m].conn
  /\ UNCHANGED <<callVars, mux, socket, ws, loopVars, exited, faults>>

StepUp ==
  \/ StartUp \/ ListenFails \/ CloseNilConn
  \/ \E m \in Muxes :
       \/ BindDials(m) \/ BindFailsToDial(m)
       \/ NewTun(m) \/ ConfigureIPAddress(m)
       \/ Deactivate(m) \/ Cancel(m)
       \/ CloseConn(m) \/ CloseConnFails(m) \/ CloseRelay(m)

StepReader(m) ==
  ReadChecks(m) \/ ReadAsserts(m) \/ ReadAssertsNil(m) \/ ReadFails(m)

StepRelayer(m) == RelayChecks(m) \/ RelayBegins(m) \/ RelayReadFails(m)

Step ==
  \/ StepUp
  \/ \E m \in Muxes :
       \/ StepReader(m) \/ ReadBreaks(m)
       \/ ReadPacket(m) \/ HandleStun(m)
       \/ StepRelayer(m) \/ RelayBreaks(m) \/ RelayReads(m)
       \/ RegisterPeer(m) \/ DoStun(m)

Next == Running /\ Step

Spec == Init /\ [][Next]_muxVars

\* The process is scheduled; dialling ends by its timeout at the latest.
Fairness ==
  /\ WF_muxVars(Running /\ StepUp /\ ~(call = "idle"))
  /\ \A m \in Muxes : /\ WF_muxVars(Running /\ StepReader(m))
                      /\ WF_muxVars(Running /\ StepRelayer(m))

FairSpec == Spec /\ Fairness

-----------------------------------------------------------------------------
Fields ==
  [conn : BOOLEAN, rcConn : BOOLEAN, bindActive : BOOLEAN,
   cancelled : BOOLEAN, peers : BOOLEAN, public : BOOLEAN,
   dialled : BOOLEAN, closeFailed : BOOLEAN]

MuxTypeOK ==
  /\ call \in {"idle", "bind", "newTun", "configure", "unbind", "cancel",
               "close", "closeNil", "closeRelay"}
  /\ count \in 0..MaxUps /\ faults \in 0..MaxFaults
  /\ {up, panicked, exited} \subseteq BOOLEAN
  /\ mux \in [Muxes -> Fields]
  /\ {socket, ws, tun} \subseteq [Muxes -> {"none", "open", "closed"}]
  /\ reader \in [Muxes -> {"none", "check", "assert", "read", "inactive",
                           "closed", "error"}]
  /\ relayer \in [Muxes -> {"none", "check", "begin", "read", "ended"}]
  /\ stun \in [Muxes -> BOOLEAN]

(***************************************************************************)
(* What the unlocked readers of the fields count on: a conn that is set is *)
(* open, and one that is open belongs to a bind that is active or that     *)
(* Unbind has under its lock.                                              *)
(***************************************************************************)
ConnIsOpen ==
  \A m \in Muxes :
    /\ mux[m].conn => socket[m] = "open"
    /\ socket[m] = "open" => mux[m].bindActive \/ ~Unlocked(m)

MuxInv == MuxTypeOK /\ ConnIsOpen

(***************************************************************************)
(* Bind never finds its port taken by the socket of an earlier bind: a     *)
(* call of Up that fails has closed what it opened, also when the relay    *)
(* was not to be dialled.                                                  *)
(***************************************************************************)
PortIsFree ==
  /\ Cardinality({m \in Muxes : socket[m] = "open"}) <= 1
  /\ call \in {"idle", "bind"} /\ ~up =>
       \A m \in Muxes : socket[m] # "open" /\ tun[m] # "open"

(***************************************************************************)
(* Once Up has succeeded with the relay dialled, no peer and no loop of    *)
(* this bind meets a nil conn, whatever breaks later: if the process       *)
(* panics, it is in a read that an earlier call of Up, which failed, has   *)
(* left between its look at the fields and their use.                      *)
(***************************************************************************)
PanicsOnlyOfOldRead ==
  [][up /\ mux[count].dialled /\ panicked' =>
       \E m \in 1..(count - 1) : reader[m] = "assert"]_muxVars

(***************************************************************************)
(* Both loops of such a node read as long as no socket breaks.             *)
(***************************************************************************)
ReadsWhileUp ==
  up /\ mux[count].dialled /\ faults = 0 =>
    /\ reader[count] \in {"check", "assert", "read"}
    /\ relayer[count] \in {"check", "begin", "read"}

(***************************************************************************)
(* A call of Up that fails leaves nothing behind: the loops it started     *)
(* come to an end and what it opened is closed, unless the process dies.   *)
(* There is one exception: when conn.Close has returned an error nobody    *)
(* closes the relay connection that its loop may have left open.           *)
(***************************************************************************)
Released(m) ==
  /\ socket[m] # "open" /\ tun[m] # "open"
  /\ ws[m] = "open" => mux[m].closeFailed
  /\ reader[m] \notin {"check", "assert", "read"}
  /\ relayer[m] \notin {"check", "begin", "read"}

FailedUpReleases ==
  \A m \in Muxes :
    (call = "idle" /\ ~up /\ count = m) ~> (Released(m) \/ ~Running)

(***************************************************************************)
(* Bind: "error connecting to relay - cancelling bind".  A bind that was   *)
(* cancelled is not active.  The code does not keep to that: see           *)
(* BindFailsToDial.                                                        *)
(***************************************************************************)
CancelledIsInactive ==
  \A m \in Muxes : mux[m].cancelled => ~mux[m].bindActive

(***************************************************************************)
(* Unbind: bindActive is cleared first "to signal read loop to stop        *)
(* without error".  No bind to a relay that was dialled ends otherwise.    *)
(* The code does not keep to that: conn is cleared between ReadChecks and  *)
(* ReadAssertsNil.                                                         *)
(***************************************************************************)
LoopStopsWithoutError ==
  \A m \in Muxes :
    count = m /\ mux[m].dialled /\ faults = 0 =>
      ~panicked /\ reader[m] # "error"
=============================================================================
