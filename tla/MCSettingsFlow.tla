------------------------ MODULE MCSettingsFlow ------------------------
(***************************************************************************)
(* SettingsFlow for TLC: two combinations, and two files to import (or two *)
(* states to start from) that differ in every field.                       *)
(***************************************************************************)
EXTENDS SettingsFlow

CONSTANTS n, o

MCCombos == {n, o}

Backup(b, name) == [f \in Fields |-> IF f = "hotkey" THEN name ELSE b]
MCBackups == {Backup(FALSE, Empty), Backup(TRUE, o)}
=============================================================================
