------------------------- MODULE MCWindowToggle -------------------------
(* WindowToggle with two heights.                                          *)
EXTENDS WindowToggle

CONSTANTS low, high

MCSizes == {low, high}

=============================================================================
