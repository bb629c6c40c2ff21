------------------------- MODULE MCWindowCycle -------------------------
(* WindowCycle with two heights.                                           *)
EXTENDS WindowCycle

CONSTANTS low, high

MCSizes == {low, high}

=============================================================================
