------------------------- MODULE MCOutputPublisher -------------------------
(* Instances of OutputPublisher for TLC: a local policy, and one policy for *)
(* each of two renderer leases.                                             *)
EXTENDS OutputPublisher

CONSTANTS LeaseA, LeaseB

MCLeases == {LeaseA, LeaseB}
MCPolicies ==
  {[epoch |-> 0, lease |-> NoLease],
   [epoch |-> 1, lease |-> LeaseA],
   [epoch |-> 2, lease |-> LeaseB]}

\* Local mode, and remote mode with one lease.
MCOneRenderer == {p \in MCPolicies : p.lease # LeaseB}
=============================================================================
