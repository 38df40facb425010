------------------------------ MODULE KioskCycle ------------------------------
(***************************************************************************)
(* What the kiosk promises about the objects on its belt, without saying   *)
(* how its state machine is built.  Once booted it repeats one cycle:      *)
(*                                                                         *)
(*   move     the belt runs until an object has been seen FilterLen times  *)
(*            in a row, and then stops;                                    *)
(*   detect   the belt stands still while the depth camera is sensing;     *)
(*   extract  the belt runs until the sensor has been clear FilterLen      *)
(*            times in a row, so the next object cannot be this one.       *)
(*                                                                         *)
(* The program may end in any phase.  KioskFSM implements this module.     *)
(***************************************************************************)
EXTENDS Naturals

CONSTANT FilterLen   \* equal readings in a row that count as a sighting; at least one

VARIABLES
  phase,     \* where the cycle is
  belt,      \* level of the conveyor relay
  steady,    \* readings in a row that agreed with what the phase waits for
  sensing    \* the depth camera is collecting frames

vars == <<phase, belt, steady, sensing>>

Phases == {"boot", "move", "detect", "extract", "ended"}

Init ==
  /\ phase = "boot"
  /\ belt \in {"LOW", "HIGH"}
  /\ steady = 0
  /\ sensing = FALSE

\* The outputs are configured, which stops a belt left running before.
Boot ==
  /\ phase = "boot"
  /\ belt' = "LOW"
  /\ UNCHANGED <<phase, steady, sensing>>

Begin ==
  /\ phase = "boot"
  /\ phase' = "move"
  /\ belt' = "HIGH"
  /\ steady' = 0
  /\ UNCHANGED sensing

\* One reading of the sensor: it agrees with what the phase waits for or not.
Count(agrees) == steady' = IF agrees THEN steady + 1 ELSE 0

LookForObject ==
  /\ phase = "move"
  /\ belt = "HIGH"
  /\ steady < FilterLen
  /\ \E agrees \in BOOLEAN : Count(agrees)
  /\ belt' = IF steady' >= FilterLen THEN "LOW" ELSE "HIGH"
  /\ UNCHANGED <<phase, sensing>>

Measure ==
  /\ phase = "move"
  /\ belt = "LOW"
  /\ steady >= FilterLen
  /\ phase' = "detect"
  /\ steady' = 0
  /\ sensing' = TRUE
  /\ UNCHANGED belt

Sensed ==
  /\ phase = "detect"
  /\ sensing
  /\ sensing' = FALSE
  /\ UNCHANGED <<phase, belt, steady>>

Eject ==
  /\ phase = "detect"
  /\ ~sensing
  /\ phase' = "extract"
  /\ belt' = "HIGH"
  /\ UNCHANGED <<steady, sensing>>

LookForGap ==
  /\ phase = "extract"
  /\ steady < FilterLen
  /\ \E agrees \in BOOLEAN : Count(agrees)
  /\ UNCHANGED <<phase, belt, sensing>>

Resume ==
  /\ phase = "extract"
  /\ steady >= FilterLen
  /\ phase' = "move"
  /\ belt' = "HIGH"
  /\ steady' = 0
  /\ UNCHANGED sensing

\* The program ends: in order (the belt is stopped) or by dying.
End ==
  /\ phase # "ended"
  /\ phase' = "ended"
  /\ belt' \in {"LOW", belt}
  /\ steady' = 0
  /\ UNCHANGED sensing

Next ==
  \/ Boot \/ Begin \/ LookForObject \/ Measure \/ Sensed
  \/ Eject \/ LookForGap \/ Resume \/ End

Spec == Init /\ [][Next]_vars
===============================================================================
