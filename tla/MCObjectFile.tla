---------------------------- MODULE MCObjectFile ----------------------------
(* Seven symbols on pages of three, three, and one; object files and       *)
(* executables with sections of every kind.                                *)
EXTENDS ObjectFile

MCPageStart == <<0, 3, 6, 7>>

Code == [progbits |-> TRUE, size |-> 9, rels |-> 12]
Data == [progbits |-> TRUE, size |-> 6, rels |-> 0]
Empty == [progbits |-> TRUE, size |-> 0, rels |-> 0]
Bss == [progbits |-> FALSE, size |-> 10, rels |-> 0]
Object(s) == [exec |-> FALSE, sections |-> s, strings |-> 21, symbols |-> 112]
MCLayouts ==
  {Object(s) : s \in {<<Code, Data>>, <<Data, Bss, Code>>, <<Empty, Code>>}}
  \cup {[exec |-> TRUE, sections |-> s, strings |-> 13, symbols |-> 0] :
          s \in {<<Data, Data>>, <<Bss, Data>>, <<Empty>>}}
=============================================================================
