-------------------------- MODULE MCPageCycle --------------------------
(* PageCycle with one height, which nothing here depends on.               *)
EXTENDS PageCycle

CONSTANT high

MCSizes == {high}

\* calls holds what said adds to it: said decides nothing afterwards.
PageView == <<mac, cycle, cancelled, window, inbox, blind, startup, pageVars>>

=============================================================================
