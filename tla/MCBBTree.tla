------------------------------ MODULE MCBBTree ------------------------------
(***************************************************************************)
(* Symbols: eight keys, which a fixup needs to climb a level and rotate a  *)
(* subtree that has children.  Macros: four keys that come and go.         *)
(***************************************************************************)
EXTENDS BBTree

Symbols == [keys |-> 1 .. 8, removable |-> {}]
Macros == [keys |-> 1 .. 4, removable |-> 1 .. 4]
SymbolsAndMacros == {Symbols, Macros}
=============================================================================
