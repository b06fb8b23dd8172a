---- MODULE MCEventReservoir ----
(* Small instances of EventReservoir for TLC. *)
EXTENDS EventReservoir, TLC

CONSTANTS e1, e2, e3, e4

(* Two events of the same priority, one below and one above. *)
MCPriority == e1 :> 1 @@ e2 :> 2 @@ e3 :> 2 @@ e4 :> 3

Symmetry == Permutations(Payloads) \cup Permutations({e2, e3})
====
