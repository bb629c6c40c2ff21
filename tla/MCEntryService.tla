------------------------ MODULE MCEntryService ------------------------
(* EntryService on two labels and up to three entries.                     *)
EXTENDS EntryService, TLC

CONSTANTS a, b

MCLabels == {a, b}

=============================================================================
