-------------------------- MODULE MCCaptureBridge --------------------------
(* A small bridge for TLC: two clients, a unicast setting with one fixed   *)
(* address and a multicast setting that can be bound to two.               *)
EXTENDS CaptureBridge

CONSTANTS fixed, group, a1, a2

MCKeys == {fixed, group}
MCAddresses == {a1, a2}
MCBindsTo == [k \in MCKeys |-> IF k = fixed THEN {a1} ELSE {a1, a2}]
MCMulticastKeys == {group}
=============================================================================
