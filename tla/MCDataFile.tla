--------------------------- MODULE MCDataFile ---------------------------
(* DataFile on three snapshots and two kinds of undecodable content.       *)
EXTENDS DataFile, TLC

CONSTANTS s0, s1, s2, harm1, harm2

MCSnapshots == {s0, s1, s2}
MCHarmed == {harm1, harm2}

\* The snapshots saved and the harmed contents are interchangeable.
Interchangeable == Permutations({s1, s2}) \cup Permutations(MCHarmed)

=============================================================================
