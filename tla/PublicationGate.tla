-------------------------- MODULE PublicationGate --------------------------
(***************************************************************************)
(* What the output publisher promises, without its threads, locks, slots   *)
(* or sink protocol.  One frame at a time is on the wire.  A fence changes *)
(* the policy only while the wire is empty.  What goes on the wire is the  *)
(* slate, or a base that the publisher holds and the policy admits.  A     *)
(* base that was accepted is let go once, and never while it is on the     *)
(* wire.                                                                   *)
(***************************************************************************)
EXTENDS Naturals

CONSTANTS
  Policies,          \* publication policies
  Bases,             \* base frames, each with its id
  Admitted,          \* the pairs <<policy, base>> that are compatible
  SlateFrame         \* the built-in slate

VARIABLES
  policy,  \* the policy in force
  held,    \* ids of the bases the publisher holds
  letGo,   \* how often the base of each id was let go
  wire     \* the frame being sent, if any, as a set

vars == <<policy, held, letGo, wire>>

Ids == {b.id : b \in Bases}

Init ==
  /\ policy \in Policies
  /\ held = {}
  /\ letGo = [i \in Ids |-> 0]
  /\ wire = {}

Accept(i) ==
  /\ i \notin held /\ letGo[i] = 0
  /\ held' = held \cup {i}
  /\ UNCHANGED <<policy, letGo, wire>>

LetGo(i) ==
  /\ i \in held
  /\ \A b \in wire \cap Bases : b.id # i
  /\ held' = held \ {i}
  /\ letGo' = [letGo EXCEPT ![i] = @ + 1]
  /\ UNCHANGED <<policy, wire>>

Fence(p) ==
  /\ wire = {}
  /\ policy' = p
  /\ UNCHANGED <<held, letGo, wire>>

ShowSlate ==
  /\ wire = {}
  /\ wire' = {SlateFrame}
  /\ UNCHANGED <<policy, held, letGo>>

ShowBase(b) ==
  /\ wire = {}
  /\ b.id \in held /\ <<policy, b>> \in Admitted
  /\ wire' = {b}
  /\ UNCHANGED <<policy, held, letGo>>

Clear ==
  /\ wire # {}
  /\ wire' = {}
  /\ UNCHANGED <<policy, held, letGo>>

Next ==
  \/ \E i \in Ids : Accept(i) \/ LetGo(i)
  \/ \E p \in Policies : Fence(p)
  \/ ShowSlate
  \/ \E b \in Bases : ShowBase(b)
  \/ Clear

Spec == Init /\ [][Next]_vars
=============================================================================
