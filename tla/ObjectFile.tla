----------------------------- MODULE ObjectFile -----------------------------
(***************************************************************************)
(* How libas21 ends an ELF file (libas21/outfile.c).                       *)
(*                                                                         *)
(* ELF wants the local symbols of a table before the others, and ld21      *)
(* trusts sh_info to say where the others begin, but as21 adds symbols in  *)
(* the order it meets them.  outfile_sort_globals therefore moves two      *)
(* cursors over the pages of the table, `global' up from its start and     *)
(* `local' down from its end, exchanges what they find, and notes every    *)
(* exchange in swap_list, by which the relocations are renumbered.  Each   *)
(* cursor is kept twice: as a pointer into a page and as an index into the *)
(* table.  outfile_layout then gives every part of the file its offset.    *)
(*                                                                         *)
(* A symbol is named by the index it had when the file was ended.          *)
(***************************************************************************)
EXTENDS Integers, Sequences

CONSTANTS
  NPages,       \* pages of the symbol table
  PageStart,    \* index of the first symbol of every page, and the end
  NRel,         \* relocations, of all sections together
  Layouts       \* the sections of a file: [exec, sections, strings, symbols]

ASSUME PagesAssumption ==
  /\ NPages \in Nat \ {0}
  /\ PageStart \in [1 .. NPages + 1 -> Nat]
  /\ PageStart[1] = 0
  /\ \A p \in 1 .. NPages : PageStart[p] < PageStart[p + 1]
ASSUME RelAssumption == NRel \in Nat

symbol_count == PageStart[NPages + 1]
Index == 0 .. symbol_count - 1

\* A section of code or data: what it holds in the file when it is PROGBITS
\* (size bytes of words) and the bytes of its relocations, 0 without any.
SectionType == [progbits : BOOLEAN, size : Nat, rels : Nat]
ASSUME LayoutsAssumption ==
  Layouts \subseteq [exec : BOOLEAN, sections : Seq(SectionType),
                     strings : Nat, symbols : Nat]

VARIABLES
  pc,            \* "global", "local", "renumber", "sections", "strings", ...
  locals,        \* the symbols that are STB_LOCAL
  table,         \* the symbol at every index
  swap_list,     \* where an exchanged symbol went; symbol_count: nowhere
  global_page, global, global_end, global_index,
  local_page, local, local_end, local_index,
  sh_info,       \* of the symbol table: the first index that is not local
  rel,           \* the symbol index of every relocation
  meant,         \* the symbol it was made for
  rel_next,      \* the relocation to renumber next
  layout,        \* the file that is laid out
  section,       \* its section to lay out next
  offset,        \* the end of what is laid out
  parts          \* the ranges of the file given away: [from, size]

sortVars == <<locals, table, swap_list, global_page, global, global_end,
              global_index, local_page, local, local_end, local_index,
              sh_info, rel, meant, rel_next>>
layoutVars == <<layout, section, offset, parts>>
vars == <<pc, sortVars, layoutVars>>

PageSize(p) == PageStart[p + 1] - PageStart[p]
page_next(p) == IF p = NPages THEN 0 ELSE p + 1     \* 0: the head of the list
page_prev(p) == IF p = 0 THEN NPages ELSE p - 1
\* Mutant: rounds down.
ELF_ALIGNMutant(n) == (n \div 4) * 4

ELF_ALIGN(n) == ((n + 3) \div 4) * 4
EhdrSize == 52
PhdrSize == 32

\* The ELF header, and in an executable a program header for each section.
Headers == EhdrSize
             + IF layout.exec THEN PhdrSize * Len(layout.sections) ELSE 0

\* The first page has the null symbol, which is local, at its start.  An
\* executable has no symbols: its table is not used.
Init ==
  /\ layout \in Layouts
  /\ locals \in {s \in SUBSET Index : 0 \in s}
  /\ table = [i \in Index |-> i]
  /\ swap_list = [i \in Index |-> symbol_count]
  /\ global_page = 0 /\ global = 0 /\ global_end = 0 /\ global_index = 0
  /\ local_page = 0 /\ local = 0 /\ local_end = 1
  /\ local_index = symbol_count
  /\ sh_info = 0
  /\ rel \in [1 .. NRel -> Index]
  /\ meant = rel
  /\ rel_next = 1
  /\ layout.exec => locals = {0} /\ rel = [r \in 1 .. NRel |-> 0]
  /\ section = 1
  /\ offset = Headers
  /\ parts = <<>>
  /\ pc = IF layout.exec THEN "sections" ELSE "global"
-----------------------------------------------------------------------------
(* outfile_sort_globals: the symbols.                                      *)

\* The global cursor when it is read: the next page once this one is used up.
GlobalPage == IF global >= global_end THEN page_next(global_page)
                                      ELSE global_page
Global == IF global >= global_end THEN 0 ELSE global
globalSymbol == table[PageStart[GlobalPage] + Global]

MoveGlobal(by) ==
  /\ global_page' = GlobalPage
  /\ global' = Global + by
  /\ global_end' = PageSize(GlobalPage)
  /\ global_index' = global_index + by

\* A local symbol is where it belongs.
KeepLocal ==
  /\ pc = "global" /\ global_index < local_index
  /\ globalSymbol \in locals
  /\ MoveGlobal(1)
  /\ UNCHANGED <<pc, locals, table, swap_list, local_page, local, local_end,
                 local_index, sh_info, rel, meant, rel_next, layoutVars>>

\* Any other has to be exchanged.
FindGlobal ==
  /\ pc = "global" /\ global_index < local_index
  /\ globalSymbol \notin locals
  /\ MoveGlobal(0)
  /\ pc' = "local"
  /\ UNCHANGED <<locals, table, swap_list, local_page, local, local_end,
                 local_index, sh_info, rel, meant, rel_next, layoutVars>>

\* The local cursor when it is read.
LocalPage == IF local < local_end THEN page_prev(local_page) ELSE local_page
Local == IF local < local_end THEN PageSize(LocalPage) - 1 ELSE local
localSymbol == table[PageStart[LocalPage] + Local]

MoveLocal ==
  /\ local_page' = LocalPage
  /\ local' = Local - 1
  /\ local_end' = 0
  /\ local_index' = local_index - 1

\* Mutant: looks at the same symbol again.
SkipGlobalMutant ==
  /\ pc = "local" /\ global_index < local_index
  /\ localSymbol \notin locals
  /\ UNCHANGED vars

SkipGlobal ==
  /\ pc = "local" /\ global_index < local_index
  /\ localSymbol \notin locals
  /\ MoveLocal
  /\ UNCHANGED <<pc, locals, table, swap_list, global_page, global, global_end,
                 global_index, sh_info, rel, meant, rel_next, layoutVars>>

\* Mutant: notes only where the local symbol went.
SwapMutant ==
  /\ pc = "local" /\ global_index < local_index
  /\ localSymbol \in locals
  /\ MoveLocal
  /\ table' = [table EXCEPT
                 ![PageStart[global_page] + global] = localSymbol,
                 ![PageStart[LocalPage] + Local] =
                     table[PageStart[global_page] + global]]
  /\ swap_list' = [swap_list EXCEPT ![local_index - 1] = global_index]
  /\ global' = global + 1
  /\ global_index' = global_index + 1
  /\ pc' = "global"
  /\ UNCHANGED <<locals, global_page, global_end, sh_info, rel, meant,
                 rel_next, layoutVars>>

Swap ==
  /\ pc = "local" /\ global_index < local_index
  /\ localSymbol \in locals
  /\ MoveLocal
  /\ table' = [table EXCEPT
                 ![PageStart[global_page] + global] = localSymbol,
                 ![PageStart[LocalPage] + Local] =
                     table[PageStart[global_page] + global]]
  /\ swap_list' = [swap_list EXCEPT ![global_index] = local_index - 1,
                                    ![local_index - 1] = global_index]
  /\ global' = global + 1
  /\ global_index' = global_index + 1
  /\ pc' = "global"
  /\ UNCHANGED <<locals, global_page, global_end, sh_info, rel, meant,
                 rel_next, layoutVars>>

\* Mutant: stops one symbol early.
EndSortMutant ==
  /\ pc \in {"global", "local"} /\ global_index + 1 >= local_index
  /\ sh_info' = global_index
  /\ pc' = "renumber"
  /\ UNCHANGED <<locals, table, swap_list, global_page, global, global_end,
                 global_index, local_page, local, local_end, local_index,
                 rel, meant, rel_next, layoutVars>>

\* The cursors have met.
EndSort ==
  /\ pc \in {"global", "local"} /\ global_index >= local_index
  /\ sh_info' = global_index
  /\ pc' = "renumber"
  /\ UNCHANGED <<locals, table, swap_list, global_page, global, global_end,
                 global_index, local_page, local, local_end, local_index,
                 rel, meant, rel_next, layoutVars>>
-----------------------------------------------------------------------------
(* outfile_sort_globals: the relocations.                                  *)

Renumber ==
  /\ pc = "renumber" /\ rel_next <= NRel
  /\ LET rel_symbol == rel[rel_next] IN
     rel' = IF swap_list[rel_symbol] < symbol_count
              THEN [rel EXCEPT ![rel_next] = swap_list[rel_symbol]] ELSE rel
  /\ rel_next' = rel_next + 1
  /\ UNCHANGED <<pc, locals, table, swap_list, global_page, global, global_end,
                 global_index, local_page, local, local_end, local_index,
                 sh_info, meant, layoutVars>>

EndRenumber ==
  /\ pc = "renumber" /\ rel_next > NRel
  /\ pc' = "sections"
  /\ UNCHANGED <<sortVars, layoutVars>>
-----------------------------------------------------------------------------
(* outfile_layout and the program headers of outfile_term.  An empty       *)
(* section of an object file has become NOBITS (create_elf_data).          *)

Part(at, size) == [from |-> ELF_ALIGN(at), size |-> size]
After(part) == part.from + part.size
InFile(s) == s.progbits /\ (layout.exec \/ s.size > 0)

\* A section with room in the file, without and with relocations.
LaySection ==
  /\ pc = "sections" /\ section <= Len(layout.sections)
  /\ LET s == layout.sections[section]
         code == Part(offset, s.size)
         rels == Part(After(code), s.rels)
     IN /\ InFile(s)
        /\ IF s.rels = 0
             THEN parts' = Append(parts, code) /\ offset' = After(code)
             ELSE /\ parts' = Append(Append(parts, code), rels)
                  /\ offset' = After(rels)
  /\ section' = section + 1
  /\ UNCHANGED <<pc, sortVars, layout>>

\* A NOBITS section aligns the offset and takes no room.
LayNobits ==
  /\ pc = "sections" /\ section <= Len(layout.sections)
  /\ ~InFile(layout.sections[section])
  /\ offset' = ELF_ALIGN(offset)
  /\ section' = section + 1
  /\ UNCHANGED <<pc, sortVars, layout, parts>>

EndSections ==
  /\ pc = "sections" /\ section > Len(layout.sections)
  /\ pc' = "strings"
  /\ UNCHANGED <<sortVars, layoutVars>>

\* The string table, and then the symbol table: 0 when there is none.
LayTable(at, size, next) ==
  /\ pc = at
  /\ IF size = 0 THEN UNCHANGED <<parts, offset>>
     ELSE LET part == Part(offset, size) IN
          parts' = Append(parts, part) /\ offset' = After(part)
  /\ pc' = next
  /\ UNCHANGED <<sortVars, layout, section>>
LayStrings == LayTable("strings", layout.strings, "symbols")
LaySymbols == LayTable("symbols", IF layout.exec THEN 0 ELSE layout.symbols,
                       "headers")

\* e_shoff: the section headers come last.
LayHeaders ==
  /\ pc = "headers"
  /\ offset' = ELF_ALIGN(offset)
  /\ pc' = "done"
  /\ UNCHANGED <<sortVars, layout, section, parts>>

Done == pc = "done" /\ UNCHANGED vars

Next ==
  \/ KeepLocal \/ FindGlobal \/ SkipGlobal \/ Swap \/ EndSort
  \/ Renumber \/ EndRenumber
  \/ LaySection \/ LayNobits \/ EndSections \/ LayStrings \/ LaySymbols
  \/ LayHeaders \/ Done

Spec == Init /\ [][Next]_vars
\* outfile_term runs to its end: no call it makes waits for anything.
FairSpec == Spec /\ WF_vars(Next)
-----------------------------------------------------------------------------
(* Properties.                                                             *)

TypeOK ==
  /\ pc \in {"global", "local", "renumber", "sections", "strings", "symbols",
             "headers", "done"}
  /\ locals \subseteq Index
  /\ table \in [Index -> Index]
  /\ swap_list \in [Index -> Index \cup {symbol_count}]
  /\ global_page \in 0 .. NPages /\ local_page \in 0 .. NPages
  /\ global \in Nat /\ global_end \in Nat
  /\ local \in Int /\ local_end \in {0, 1}
  /\ global_index \in 0 .. symbol_count /\ local_index \in 0 .. symbol_count
  /\ sh_info \in 0 .. symbol_count
  /\ rel \in [1 .. NRel -> Index] /\ meant \in [1 .. NRel -> Index]
  /\ rel_next \in 1 .. NRel + 1
  /\ layout \in Layouts /\ section \in Nat \ {0} /\ offset \in Nat
  /\ parts \in Seq([from : Nat, size : Nat])

Sorted == ~layout.exec
            /\ pc \notin {"global", "local"}

\* outfile.c:466: when the cursors have met, sh_info splits the table into
\* the local symbols and the others, with symbol 0 still in its place.
LocalsFirst ==
  Sorted =>
    /\ \A i \in Index : table[i] \in locals <=> i < sh_info
    /\ table[0] = 0

\* outfile.c:470: no symbol is lost or doubled by the exchanges, and every
\* relocation points to the symbol it was made for when it is renumbered, and
\* only then, also to one that took the place of another.
RelocationKeepsSymbol ==
  Sorted =>
    /\ \A i, j \in Index : table[i] = table[j] => i = j
    /\ \A r \in 1 .. rel_next - 1 : table[rel[r]] = meant[r]

\* outfile.c:482: the parts of the file are aligned and share no byte with
\* each other, with the ELF and program headers before them, or with the
\* section headers after them.
PartsApart ==
  /\ \A k \in DOMAIN parts :
       /\ parts[k].from % 4 = 0
       /\ parts[k].from >= Headers
       /\ After(parts[k]) <= offset
  /\ \A k \in DOMAIN parts, j \in DOMAIN parts :
       k < j => After(parts[k]) <= parts[j].from
  /\ pc = "done" => offset % 4 = 0

\* outfile.c:369: the loops of both cursors end, whatever symbols there are.
IsEnded == <>(pc = "done")
=============================================================================
