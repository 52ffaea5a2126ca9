----------------------------- MODULE MCAssembly -----------------------------
(***************************************************************************)
(* Pages of two words, so that a variable of three words goes on to the    *)
(* next page, and the bytes of a word of each memory space (outfile_init). *)
(***************************************************************************)
EXTENDS Assembly

MCEntSize == [PROGRAM |-> 3, DATA |-> 2]
MCPageWords == [s \in Space |-> 2]

\* One data section with alignments and circular buffers among its words.
Alignments ==
  [names |-> {"a"}, scopes |-> {}, sections |-> {<<"s", "PROGBITS", "DATA">>},
   sizes |-> {0, 3}, alignments |-> {2, 4}, qualifiers |-> {"CIRC"}, steps |-> 9]

\* Two variables, with data and without, of any size.
Variables ==
  [names |-> {"a", "b"}, scopes |-> {}, sections |-> {"s"} \X SecType \X {"DATA"},
   sizes |-> {0, 3}, alignments |-> {}, qualifiers |-> {"CIRC"}, steps |-> 8]

\* Two sections of any type and space, with labels and declarations.
Sections ==
  [names |-> {"a"}, scopes |-> {"EXTERN", "GLOBAL"},
   sections |-> {"s", "t"} \X SecType \X Space,
   sizes |-> {2}, alignments |-> {3}, qualifiers |-> {"INIT24"}, steps |-> 6]

\* A buffer and an alignment that are too large, at the limit of 8 words.
TooLarge ==
  [names |-> {"a", "b"}, scopes |-> {}, sections |-> {<<"s", "NOBITS", "DATA">>},
   sizes |-> {7, 8}, alignments |-> {8}, qualifiers |-> {"CIRC"}, steps |-> 7]

MCSource == {Alignments, Variables, Sections, TooLarge}
=============================================================================
