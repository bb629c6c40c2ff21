-------------------------- MODULE MCEntryPage --------------------------
\* EntryPage with two texts: they are interchangeable, and one may be searched
\* for that only some of the entries have.
EXTENDS EntryPage, TLC

CONSTANTS a, b

MCLabels == {a, b}

MCSymmetry == Permutations(MCLabels)

=============================================================================
