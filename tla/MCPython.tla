------------------------------ MODULE MCPython ------------------------------
(* Instance for TLC of the two halves of the Python backend. Objects and     *)
(* calls keep no state in common: a behaviour is one of the objects or one   *)
(* of the calls, and the states are those of both.                           *)
EXTENDS PythonObjects, PythonCalls, TLC

VARIABLES half

MCInit == half \in {"objects", "calls"} /\ Init /\ CallsInit

MCNext ==
  \/ half = "objects" /\ Next /\ UNCHANGED <<half, callsVars>>
  \/ half = "calls" /\ CallsNext /\ UNCHANGED <<half, vars>>

MCSpec == MCInit /\ [][MCNext]_<<half, vars, callsVars>>

Symmetric == Permutations(Natives) \cup Permutations(Objects) \cup Permutations(Types)
=============================================================================
