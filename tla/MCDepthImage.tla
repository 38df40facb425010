----------------------------- MODULE MCDepthImage -----------------------------
(***************************************************************************)
(* An instance of DepthImage for TLC: a region of three by three pixels off*)
(* the axes, two frames that are one depth or dark all over or get deeper  *)
(* across, and a last one with every pattern of dark and lit pixels.       *)
(***************************************************************************)
EXTENDS DepthImage

MCColumns == 2..4
MCRows    == 1..3

Uniform(depths)  == {[p \in MCColumns \X MCRows |-> d] : d \in depths}
Patterns(depths) == [MCColumns \X MCRows -> depths]

Across           == [p \in MCColumns \X MCRows |-> 20 * p[1] + 7 * p[2]]

MCImages == <<Uniform({0, 65535}) \cup {Across}, Uniform({0, 65535, 23}), Patterns({0, 24})>>
===============================================================================
