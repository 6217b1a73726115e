---------------------------- MODULE AddressPool ----------------------------
(***************************************************************************)
(* What the control server promises of addresses: each registration gives  *)
(* its key the lowest address nobody has, and an address once given stays  *)
(* with its key for ever, across restarts too.  Addresses are counted from *)
(* the one after the prefix's.                                             *)
(***************************************************************************)
EXTENDS Naturals

CONSTANTS
  Keys,       \* who may have an address
  PoolSize    \* bound: addresses in the pool

VARIABLE leases   \* set of [key, ip]: who has which address

Taken == {l.ip : l \in leases}

Init == leases = {}

Lease(k, a) ==
  /\ a \notin Taken
  /\ \A b \in 1..(a - 1) : b \in Taken
  /\ leases' = leases \cup {[key |-> k, ip |-> a]}

Next == \E k \in Keys, a \in 1..PoolSize : Lease(k, a)

Spec == Init /\ [][Next]_leases
=============================================================================
