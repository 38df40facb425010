----------------------------- MODULE MCKioskFSM -------------------------------
(* Values for the constants of KioskFSM. *)
EXTENDS KioskFSMProps, TLC, FiniteSets

CONSTANTS c1, c2, p1, p2, p3

MCCameras == {c1, c2}
MCPorts   == {p1, p2, p3}
Symmetry  == Permutations(MCCameras) \cup Permutations(MCPorts)

\* The memory of a fresh heap block is zero (NONE) or anything.
AnyState    == States \cup {"JUNK"}
\* No state that drives the belt before the hardware is there.
OffBelt     == AnyState \ {"MOVE", "DETECT", "EXTRACT"}
InitOnly    == {"INIT"}
===============================================================================
