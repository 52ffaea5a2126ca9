-------------------------- MODULE ObjectFile_proof --------------------------
(***************************************************************************)
(* The symbols that outfile_sort_globals moves, and the relocations it     *)
(* renumbers, for symbol tables of every length on pages of every size,    *)
(* and the layout of every file.                                           *)
(***************************************************************************)
EXTENDS ObjectFile, TLAPS

\* A pointer into a page and the index beside it name the same symbol.
CursorsAgree ==
  /\ global_index <= local_index
  /\ IF global_page = 0
       THEN global = 0 /\ global_end = 0 /\ global_index = 0
       ELSE /\ global_end = PageSize(global_page) /\ global <= global_end
            /\ PageStart[global_page] + global = global_index
  /\ pc = "local" => global_page # 0 /\ global < global_end
  /\ IF local_page = 0
       THEN local = 0 /\ local_end = 1 /\ local_index = symbol_count
       ELSE /\ local_end = 0 /\ -1 <= local /\ local < PageSize(local_page)
            /\ PageStart[local_page] + local = local_index - 1

\* swap_list is its own inverse, and tells which symbol is at an index; what
\* lies between the cursors was not exchanged.
SwapsTellSymbols ==
  \A i \in Index :
    /\ swap_list[i] = symbol_count => table[i] = i
    /\ swap_list[i] # symbol_count =>
         table[i] = swap_list[i] /\ swap_list[swap_list[i]] = i
    /\ global_index <= i /\ i < local_index => swap_list[i] = symbol_count

\* What each cursor has passed is of its kind.
PassedIsSplit ==
  /\ \A i \in Index : i < global_index => table[i] \in locals
  /\ \A i \in Index : i >= local_index => table[i] \notin locals
  /\ pc = "local" => table[global_index] \notin locals
  /\ 0 \in locals /\ swap_list[0] = symbol_count
  /\ ~layout.exec /\ pc \notin {"global", "local"} =>
       sh_info = global_index /\ sh_info = local_index

RelocationsRenumbered ==
  /\ pc \in {"global", "local"} => rel_next = 1
  /\ \A r \in 1 .. NRel :
       IF r < rel_next THEN table[rel[r]] = meant[r] ELSE rel[r] = meant[r]

IInv == /\ TypeOK /\ CursorsAgree /\ SwapsTellSymbols /\ PassedIsSplit
        /\ RelocationsRenumbered
-----------------------------------------------------------------------------
LEMMA Pages ==
  /\ symbol_count \in Nat /\ symbol_count > 0
  /\ 0 \in Index
  /\ \A p \in 1 .. NPages : PageSize(p) \in Nat /\ PageSize(p) > 0
                            /\ PageStart[p] \in Nat /\ PageStart[p + 1] \in Nat
<1>1. ASSUME NEW p \in 1 .. NPages
      PROVE  /\ PageStart[p] \in Nat /\ PageStart[p + 1] \in Nat
             /\ PageStart[p] < PageStart[p + 1]
  <2>1. p \in 1 .. NPages + 1 /\ p + 1 \in 1 .. NPages + 1
    BY PagesAssumption
  <2>2. QED
    BY <2>1, PagesAssumption
<1>2. NPages \in 1 .. NPages
  BY PagesAssumption
<1>3. symbol_count \in Nat /\ symbol_count > 0
  BY <1>1, <1>2 DEF symbol_count
<1>4. QED
  BY <1>1, <1>3 DEF Index, PageSize

LEMMA LayoutTypes ==
  ASSUME NEW l \in Layouts
  PROVE  /\ l.exec \in BOOLEAN /\ l.sections \in Seq(SectionType)
         /\ l.strings \in Nat /\ l.symbols \in Nat /\ Len(l.sections) \in Nat
         /\ \A k \in 1 .. Len(l.sections) :
              /\ l.sections[k].progbits \in BOOLEAN
              /\ l.sections[k].size \in Nat /\ l.sections[k].rels \in Nat
<1>1. l \in [exec : BOOLEAN, sections : Seq(SectionType),
             strings : Nat, symbols : Nat]
  BY LayoutsAssumption
<1>2. /\ l.exec \in BOOLEAN /\ l.sections \in Seq(SectionType)
      /\ l.strings \in Nat /\ l.symbols \in Nat
  BY <1>1
<1>3. ASSUME NEW k \in 1 .. Len(l.sections) PROVE l.sections[k] \in SectionType
  BY <1>2
<1>4. QED
  BY <1>2, <1>3 DEF SectionType

LEMMA Start == Init => IInv
<1> SUFFICES ASSUME Init PROVE IInv
  OBVIOUS
<1>1. TypeOK
  BY SMTT(30), Pages, LayoutTypes, RelAssumption, PagesAssumption
  DEF Init, TypeOK, Index, Headers, EhdrSize, PhdrSize
<1>2. CursorsAgree
  BY Pages DEF Init, CursorsAgree
<1>3. SwapsTellSymbols
  BY Pages DEF Init, SwapsTellSymbols
<1>4. PassedIsSplit
  BY Pages DEF Init, PassedIsSplit, Index
<1>5. RelocationsRenumbered
  BY RelAssumption DEF Init, RelocationsRenumbered
<1>6. QED
  BY <1>1, <1>2, <1>3, <1>4, <1>5 DEF IInv

\* The global cursor, when it is read, is inside a page and at its index.
LEMMA GlobalCursor ==
  ASSUME IInv, global_index < local_index, pc \in {"global", "local"}
  PROVE  /\ GlobalPage \in 1 .. NPages /\ Global \in Nat
         /\ Global < PageSize(GlobalPage)
         /\ PageStart[GlobalPage] + Global = global_index
         /\ global_index \in Index /\ globalSymbol = table[global_index]
         /\ pc = "local" => GlobalPage = global_page /\ Global = global
<1> USE DEF IInv
<1>1. global_index \in Index
  BY Pages DEF TypeOK, Index
<1>2. CASE global_page = 0
  <2>1. GlobalPage = 1 /\ Global = 0 /\ pc # "local"
    BY <1>2, PagesAssumption DEF CursorsAgree, GlobalPage, Global, page_next
  <2>2. QED
    BY <1>1, <1>2, <2>1, Pages, PagesAssumption DEF CursorsAgree, globalSymbol
<1>3. CASE global_page # 0 /\ global >= global_end
  <2>1. global_page \in 1 .. NPages /\ global = PageSize(global_page)
    BY <1>3, Pages DEF CursorsAgree, TypeOK
  <2>2. PageStart[global_page + 1] = global_index
    BY <1>3, <2>1, Pages DEF CursorsAgree, PageSize, TypeOK
  <2>3. global_page # NPages
    BY <2>2, Pages DEF symbol_count, TypeOK
  <2>4. GlobalPage = global_page + 1 /\ Global = 0 /\ pc # "local"
    BY <1>3, <2>1, <2>3 DEF TypeOK, CursorsAgree, GlobalPage, Global, page_next
  <2>5. QED
    BY <1>1, <2>1, <2>2, <2>3, <2>4, Pages, PagesAssumption DEF globalSymbol
<1>4. CASE global_page # 0 /\ ~(global >= global_end)
  <2>1. GlobalPage = global_page /\ Global = global
    BY <1>4 DEF GlobalPage, Global
  <2>2. QED
    BY <1>1, <1>4, <2>1, PagesAssumption DEF CursorsAgree, TypeOK, globalSymbol
<1>5. QED
  BY <1>2, <1>3, <1>4

\* The local cursor likewise.
LEMMA LocalCursor ==
  ASSUME IInv, global_index < local_index
  PROVE  /\ LocalPage \in 1 .. NPages /\ Local \in Nat
         /\ Local < PageSize(LocalPage)
         /\ PageStart[LocalPage] + Local = local_index - 1
         /\ local_index - 1 \in Index /\ localSymbol = table[local_index - 1]
<1> USE DEF IInv
<1>1. local_index - 1 \in Index
  BY Pages DEF TypeOK, Index
<1>2. CASE local_page = 0
  <2>1. LocalPage = NPages /\ Local = PageSize(NPages) - 1
    BY <1>2, PagesAssumption DEF CursorsAgree, LocalPage, Local, page_prev
  <2>2. QED
    BY <1>1, <1>2, <2>1, Pages, PagesAssumption
    DEF CursorsAgree, localSymbol, PageSize, symbol_count
<1>3. CASE local_page # 0 /\ local < local_end
  <2>1. local_page \in 1 .. NPages /\ local = -1
    BY <1>3, Pages DEF CursorsAgree, TypeOK
  <2>2. PageStart[local_page] = local_index
    BY <1>3, <2>1, Pages DEF CursorsAgree, TypeOK
  <2>3. local_page # 1
    BY <2>2, PagesAssumption DEF TypeOK
  <2>4. LocalPage = local_page - 1 /\ Local = PageSize(local_page - 1) - 1
    BY <1>3, <2>1, <2>3 DEF LocalPage, Local, page_prev
  <2>5. local_page - 1 \in 1 .. NPages /\ (local_page - 1) + 1 = local_page
    BY <2>1, <2>3, PagesAssumption
  <2>6. PageSize(local_page - 1) = PageStart[local_page] - PageStart[local_page - 1]
    BY <2>5 DEF PageSize
  <2>7. Local \in Nat /\ Local < PageSize(local_page - 1)
    BY <2>4, <2>5, Pages
  <2>8. PageStart[local_page - 1] \in Nat /\ PageStart[local_page] \in Nat
    BY <2>1, <2>5, Pages
  <2>9. PageStart[LocalPage] + Local = local_index - 1
    BY <2>2, <2>4, <2>6, <2>8
  <2>10. QED
    BY <1>1, <2>4, <2>5, <2>7, <2>9 DEF localSymbol
<1>4. CASE local_page # 0 /\ ~(local < local_end)
  <2>1. LocalPage = local_page /\ Local = local
    BY <1>4 DEF LocalPage, Local
  <2>2. QED
    BY <1>1, <1>4, <2>1, PagesAssumption DEF CursorsAgree, TypeOK, localSymbol
<1>5. QED
  BY <1>2, <1>3, <1>4
-----------------------------------------------------------------------------
\* Each step of the sort keeps the invariant.
LEMMA KeepLocalStep ==
  ASSUME IInv, KeepLocal
  PROVE  IInv'
<1>1. /\ GlobalPage \in 1 .. NPages /\ Global \in Nat
      /\ Global < PageSize(GlobalPage) /\ global_index \in Index
      /\ PageStart[GlobalPage] + Global = global_index
      /\ table[global_index] \in locals
  BY GlobalCursor DEF KeepLocal
<1>2. PageSize(GlobalPage) \in Nat /\ PageStart[GlobalPage] \in Nat
  BY <1>1, Pages
<1>3. TypeOK /\ CursorsAgree /\ SwapsTellSymbols /\ PassedIsSplit
      /\ RelocationsRenumbered
  BY DEF IInv
<1>4. /\ global_page' = GlobalPage /\ global' = Global + 1
      /\ global_end' = PageSize(GlobalPage)
      /\ global_index' = global_index + 1
  BY DEF KeepLocal, MoveGlobal
<1>5. /\ pc = "global" /\ pc' = pc /\ global_index < local_index
      /\ UNCHANGED <<locals, table, swap_list, local_page, local, local_end,
                     local_index, sh_info, rel, meant, rel_next>>
      /\ UNCHANGED <<layout, section, offset, parts>>
  BY DEF KeepLocal, layoutVars
<1>6. TypeOK'
  <2>1. global_page' \in 0 .. NPages /\ global' \in Nat /\ global_end' \in Nat
    BY <1>1, <1>2, <1>4, PagesAssumption
  <2>2. global_index' \in 0 .. symbol_count
    BY <1>1, <1>4, Pages DEF Index
  <2>3. QED
    BY <1>3, <1>5, <2>1, <2>2 DEF TypeOK
<1>7. CursorsAgree'
  <2>1. global_index' <= local_index'
    BY <1>3, <1>4, <1>5 DEF TypeOK
  <2>2. /\ global_page' # 0 /\ global_end' = PageSize(global_page')
        /\ global' <= global_end'
        /\ PageStart[global_page'] + global' = global_index'
    BY <1>1, <1>2, <1>4
  <2>3. QED
    BY <1>3, <1>5, <2>1, <2>2 DEF CursorsAgree
<1>8. SwapsTellSymbols'
  BY <1>1, <1>3, <1>4, <1>5 DEF SwapsTellSymbols, Index
<1>9. PassedIsSplit'
  <2>1. \A i \in Index : i < global_index' => table[i] \in locals
    BY <1>1, <1>3, <1>4 DEF PassedIsSplit, Index
  <2>2. QED
    BY <1>3, <1>5, <2>1 DEF PassedIsSplit
<1>10. RelocationsRenumbered'
  BY <1>3, <1>5 DEF RelocationsRenumbered
<1>11. QED
  BY <1>6, <1>7, <1>8, <1>9, <1>10 DEF IInv

LEMMA FindGlobalStep ==
  ASSUME IInv, FindGlobal
  PROVE  IInv'
<1>1. /\ GlobalPage \in 1 .. NPages /\ Global \in Nat
      /\ Global < PageSize(GlobalPage) /\ global_index \in Index
      /\ PageStart[GlobalPage] + Global = global_index
      /\ table[global_index] \notin locals
  BY GlobalCursor DEF FindGlobal
<1>2. PageSize(GlobalPage) \in Nat /\ PageStart[GlobalPage] \in Nat
  BY <1>1, Pages
<1>3. TypeOK /\ CursorsAgree /\ SwapsTellSymbols /\ PassedIsSplit
      /\ RelocationsRenumbered
  BY DEF IInv
<1>4. /\ global_page' = GlobalPage /\ global' = Global
      /\ global_end' = PageSize(GlobalPage) /\ global_index' = global_index
  BY <1>1, <1>3 DEF FindGlobal, MoveGlobal, TypeOK
<1>5. /\ pc = "global" /\ pc' = "local" /\ global_index < local_index
      /\ UNCHANGED <<locals, table, swap_list, local_page, local, local_end,
                     local_index, sh_info, rel, meant, rel_next>>
      /\ UNCHANGED <<layout, section, offset, parts>>
  BY DEF FindGlobal, layoutVars
<1>6. TypeOK'
  <2>1. global_page' \in 0 .. NPages /\ global' \in Nat /\ global_end' \in Nat
    BY <1>1, <1>2, <1>4, PagesAssumption
  <2>2. QED
    BY <1>3, <1>4, <1>5, <2>1 DEF TypeOK
<1>7. CursorsAgree'
  <2>1. global_index' <= local_index'
    BY <1>3, <1>4, <1>5 DEF TypeOK
  <2>2. /\ global_page' # 0 /\ global_end' = PageSize(global_page')
        /\ global' < global_end' /\ global' <= global_end'
        /\ PageStart[global_page'] + global' = global_index'
    BY <1>1, <1>2, <1>4
  <2>3. QED
    BY <1>3, <1>5, <2>1, <2>2 DEF CursorsAgree
<1>8. SwapsTellSymbols'
  BY <1>3, <1>4, <1>5 DEF SwapsTellSymbols
<1>9. PassedIsSplit'
  BY <1>1, <1>3, <1>4, <1>5 DEF PassedIsSplit
<1>10. RelocationsRenumbered'
  BY <1>3, <1>5 DEF RelocationsRenumbered
<1>11. QED
  BY <1>6, <1>7, <1>8, <1>9, <1>10 DEF IInv

LEMMA SkipGlobalStep ==
  ASSUME IInv, SkipGlobal
  PROVE  IInv'
<1>1. /\ LocalPage \in 1 .. NPages /\ Local \in Nat
      /\ Local < PageSize(LocalPage) /\ local_index - 1 \in Index
      /\ PageStart[LocalPage] + Local = local_index - 1
      /\ table[local_index - 1] \notin locals
  BY LocalCursor DEF SkipGlobal
<1>2. PageSize(LocalPage) \in Nat /\ PageStart[LocalPage] \in Nat
  BY <1>1, Pages
<1>3. TypeOK /\ CursorsAgree /\ SwapsTellSymbols /\ PassedIsSplit
      /\ RelocationsRenumbered
  BY DEF IInv
<1>4. /\ local_page' = LocalPage /\ local' = Local - 1 /\ local_end' = 0
      /\ local_index' = local_index - 1
  BY DEF SkipGlobal, MoveLocal
<1>5. /\ pc = "local" /\ pc' = pc /\ global_index < local_index
      /\ UNCHANGED <<locals, table, swap_list, global_page, global, global_end,
                     global_index, sh_info, rel, meant, rel_next>>
      /\ UNCHANGED <<layout, section, offset, parts>>
  BY DEF SkipGlobal, layoutVars
<1>6. TypeOK'
  <2>1. /\ local_page' \in 0 .. NPages /\ local' \in Int /\ local_end' \in {0, 1}
        /\ local_index' \in 0 .. symbol_count
    BY <1>1, <1>4, Pages, PagesAssumption DEF Index
  <2>2. QED
    BY <1>3, <1>5, <2>1 DEF TypeOK
<1>7. CursorsAgree'
  <2>1. global_index' <= local_index'
    BY <1>3, <1>4, <1>5 DEF TypeOK
  <2>2. /\ local_page' # 0 /\ local_end' = 0 /\ -1 <= local'
        /\ local' < PageSize(local_page')
        /\ PageStart[local_page'] + local' = local_index' - 1
    BY <1>1, <1>2, <1>4
  <2>3. QED
    BY <1>3, <1>5, <2>1, <2>2 DEF CursorsAgree
<1>8. SwapsTellSymbols'
  BY <1>3, <1>4, <1>5 DEF SwapsTellSymbols, TypeOK, Index
<1>9. PassedIsSplit'
  <2>1. \A i \in Index : i >= local_index' => table[i] \notin locals
    <3> SUFFICES ASSUME NEW i \in Index, i >= local_index'
                 PROVE  table[i] \notin locals
      OBVIOUS
    <3>1. i = local_index - 1 \/ i >= local_index
      BY <1>1, <1>3, <1>4, Pages DEF Index, TypeOK
    <3>2. QED
      BY <1>1, <1>3, <3>1 DEF PassedIsSplit
  <2>2. QED
    BY <1>3, <1>5, <2>1 DEF PassedIsSplit
<1>10. RelocationsRenumbered'
  BY <1>3, <1>5 DEF RelocationsRenumbered
<1>11. QED
  BY <1>6, <1>7, <1>8, <1>9, <1>10 DEF IInv

\* The symbols that change places were in their own before, and are two:
\* one is local and the other is not.
LEMMA SwapStep ==
  ASSUME IInv, Swap
  PROVE  IInv'
<1> USE DEF IInv, Swap, MoveLocal
<1> DEFINE g == global_index
           l == local_index - 1
<1>1. /\ LocalPage \in 1 .. NPages /\ Local \in Nat
      /\ Local < PageSize(LocalPage) /\ l \in Index
      /\ PageStart[LocalPage] + Local = l
      /\ localSymbol = table[l]
  BY LocalCursor
<1>2. /\ PageStart[global_page] + global = g /\ g \in Index
      /\ global_page \in 1 .. NPages /\ global < PageSize(global_page)
  BY GlobalCursor
<1>3. /\ PageSize(LocalPage) \in Nat /\ PageStart[LocalPage] \in Nat
      /\ PageSize(global_page) \in Nat /\ PageStart[global_page] \in Nat
  BY <1>1, <1>2, Pages
<1>4. /\ table[g] \notin locals /\ table[l] \in locals /\ g # l
  BY <1>1 DEF PassedIsSplit
<1>5. /\ table[g] = g /\ table[l] = l
      /\ swap_list[g] = symbol_count /\ swap_list[l] = symbol_count
  BY <1>1, <1>2 DEF SwapsTellSymbols, TypeOK, Index
<1>6. /\ table' = [table EXCEPT ![g] = l, ![l] = g]
      /\ swap_list' = [swap_list EXCEPT ![g] = l, ![l] = g]
  BY <1>1, <1>2, <1>5
<1>7. TypeOK'
  <2>1. table' \in [Index -> Index]
    BY <1>1, <1>2, <1>6, ZenonT(40) DEF TypeOK
  <2>2. swap_list' \in [Index -> Index \cup {symbol_count}]
    BY <1>1, <1>2, <1>6 DEF TypeOK
  <2>3. global' \in Nat /\ local' \in Int /\ global_index' \in 0 .. symbol_count
        /\ local_index' \in 0 .. symbol_count /\ local_page' \in 0 .. NPages
    BY <1>1, <1>2, Pages DEF TypeOK, Index
  <2>4. QED
    BY <2>1, <2>2, <2>3 DEF TypeOK, layoutVars
<1>8. CursorsAgree'
  <2>1. global_index' <= local_index'
    BY <1>1, <1>2, <1>4 DEF TypeOK, Index
  <2>2. global_end = PageSize(global_page)
    BY <1>2 DEF CursorsAgree
  <2>3. /\ global_page' # 0 /\ global_end' = PageSize(global_page')
        /\ global' <= global_end'
        /\ PageStart[global_page'] + global' = global_index'
    <3> HIDE DEF IInv, Swap
    <3>1. /\ global_page' = global_page /\ global_end' = global_end
          /\ global' = global + 1 /\ global_index' = g + 1 /\ global \in Nat
      BY DEF Swap, IInv, TypeOK
    <3>2. QED
      BY <1>2, <1>3, <2>2, <3>1
  <2>4. /\ local_page' # 0 /\ local_end' = 0 /\ -1 <= local'
        /\ local' < PageSize(local_page')
        /\ PageStart[local_page'] + local' = local_index' - 1
    <3> HIDE DEF IInv, Swap
    <3>1. /\ local_page' = LocalPage /\ local_end' = 0 /\ local' = Local - 1
          /\ local_index' = l
      BY DEF Swap
    <3>2. QED
      BY <1>1, <1>3, <3>1
  <2>5. pc' = "global"
    OBVIOUS
  <2>6. QED
    <3> HIDE DEF IInv, Swap
    <3>1. QED
      BY <2>1, <2>3, <2>4, <2>5 DEF CursorsAgree
<1>9. SwapsTellSymbols'
  <2> SUFFICES ASSUME NEW i \in Index
               PROVE  /\ swap_list'[i] = symbol_count => table'[i] = i
                      /\ swap_list'[i] # symbol_count =>
                           table'[i] = swap_list'[i] /\ swap_list'[swap_list'[i]] = i
                      /\ g + 1 <= i /\ i < l => swap_list'[i] = symbol_count
    BY DEF SwapsTellSymbols
  <2>1. g # symbol_count /\ l # symbol_count
    BY <1>1, <1>2 DEF Index
  <2>2. CASE i = g \/ i = l
    BY SMTT(30), <1>1, <1>2, <1>4, <1>6, <2>1, <2>2 DEF TypeOK, Index
  <2>3. CASE i # g /\ i # l
    <3>1. swap_list'[i] = swap_list[i] /\ table'[i] = table[i]
      BY <1>6, <2>3 DEF TypeOK
    <3>2. CASE swap_list[i] = symbol_count
      BY <3>1, <3>2 DEF SwapsTellSymbols
    <3>3. CASE swap_list[i] # symbol_count
      <4>1. swap_list[i] \in Index /\ swap_list[swap_list[i]] = i
        BY <3>3 DEF TypeOK, SwapsTellSymbols
      <4>2. swap_list[i] # g /\ swap_list[i] # l
        BY <1>5, <4>1 DEF Index
      <4>3. swap_list'[swap_list[i]] = i
        BY <1>6, <4>1, <4>2 DEF TypeOK
      <4>4. ~(g <= i /\ i < local_index)
        BY <3>3 DEF SwapsTellSymbols
      <4>5. QED
        BY <1>1, <1>2, <3>1, <3>3, <4>3, <4>4 DEF SwapsTellSymbols, Index, TypeOK
    <3>4. QED
      BY <3>2, <3>3
  <2>4. QED
    BY <2>2, <2>3
<1>10. PassedIsSplit'
  <2>1. \A i \in Index : i < g + 1 => table'[i] \in locals
    <3> SUFFICES ASSUME NEW i \in Index, i < g + 1 PROVE table'[i] \in locals
      OBVIOUS
    <3>1. CASE i = g
      BY <1>2, <1>4, <1>5, <1>6, <3>1 DEF TypeOK
    <3>2. CASE i # g
      <4>1. i < g /\ i # l
        BY <1>1, <1>2, <3>2 DEF Index, TypeOK
      <4>2. QED
        BY <1>6, <4>1 DEF TypeOK, PassedIsSplit
    <3>3. QED
      BY <3>1, <3>2
  <2>2. \A i \in Index : i >= l => table'[i] \notin locals
    <3> SUFFICES ASSUME NEW i \in Index, i >= l PROVE table'[i] \notin locals
      OBVIOUS
    <3>1. CASE i = l
      BY <1>1, <1>4, <1>5, <1>6, <3>1 DEF TypeOK
    <3>2. CASE i # l
      <4>1. i >= local_index /\ i # g
        BY <1>1, <1>2, <3>2 DEF Index, TypeOK
      <4>2. table'[i] = table[i]
        BY <1>6, <3>2, <4>1 DEF TypeOK
      <4>3. table[i] \notin locals
        BY <4>1 DEF PassedIsSplit
      <4>4. QED
        BY <4>2, <4>3
    <3>3. QED
      BY <3>1, <3>2
  <2>3. swap_list'[0] = symbol_count
    <3>1. g # 0 /\ l # 0
      BY <1>1, <1>2, <1>4, <1>5 DEF PassedIsSplit, Index, TypeOK
    <3>2. QED
      BY <1>6, <3>1, Pages DEF PassedIsSplit, TypeOK
  <2>4. QED
    BY <2>1, <2>2, <2>3 DEF PassedIsSplit
<1>11. RelocationsRenumbered'
  <2>1. rel_next = 1
    BY DEF RelocationsRenumbered
  <2>2. \A r \in 1 .. NRel : rel[r] = meant[r]
    BY <2>1, RelAssumption DEF RelocationsRenumbered
  <2>3. QED
    BY <2>1, <2>2, RelAssumption DEF RelocationsRenumbered
<1>12. QED
  BY <1>7, <1>8, <1>9, <1>10, <1>11

LEMMA EndSortStep ==
  ASSUME IInv, EndSort
  PROVE  IInv'
<1> USE DEF IInv, EndSort
<1>1. TypeOK'
  BY DEF TypeOK, layoutVars
<1>2. CursorsAgree'
  BY DEF CursorsAgree
<1>3. SwapsTellSymbols'
  BY DEF SwapsTellSymbols
<1>4. PassedIsSplit'
  BY DEF PassedIsSplit, CursorsAgree, TypeOK, layoutVars
<1>5. RelocationsRenumbered'
  BY DEF RelocationsRenumbered
<1>6. QED
  BY <1>1, <1>2, <1>3, <1>4, <1>5

LEMMA RenumberStep ==
  ASSUME IInv, Renumber
  PROVE  IInv'
<1> USE DEF IInv, Renumber
<1> DEFINE old == rel[rel_next]
           new == IF swap_list[old] < symbol_count THEN swap_list[old] ELSE old
<1>1. rel_next \in 1 .. NRel /\ old \in Index /\ old = meant[rel_next]
  BY RelAssumption DEF TypeOK, RelocationsRenumbered
<1>2. swap_list[old] = symbol_count \/ swap_list[old] \in Index
  BY <1>1 DEF TypeOK
<1>3. new \in Index /\ table[new] = old
  <2>1. CASE swap_list[old] = symbol_count
    BY <1>1, <2>1, Pages DEF SwapsTellSymbols
  <2>2. CASE swap_list[old] \in Index
    <3>1. swap_list[old] # symbol_count /\ swap_list[old] < symbol_count
      BY <2>2, Pages DEF Index
    <3>2. swap_list[swap_list[old]] = old
      BY <1>1, <3>1 DEF SwapsTellSymbols
    <3>3. old # symbol_count
      BY <1>1 DEF Index
    <3>4. table[swap_list[old]] = old
      BY <2>2, <3>2, <3>3 DEF SwapsTellSymbols
    <3>5. QED
      BY <2>2, <3>1, <3>4
  <2>3. QED
    BY <1>2, <2>1, <2>2
<1>4. rel' = [rel EXCEPT ![rel_next] = new]
  BY <1>1 DEF TypeOK
<1>5. TypeOK'
  <2>1. rel' \in [1 .. NRel -> Index]
    BY <1>1, <1>3, <1>4 DEF TypeOK
  <2>2. QED
    BY <1>1, <2>1, RelAssumption DEF TypeOK, layoutVars
<1>6. CursorsAgree' /\ SwapsTellSymbols' /\ PassedIsSplit'
  BY DEF CursorsAgree, SwapsTellSymbols, PassedIsSplit, layoutVars
<1>7. RelocationsRenumbered'
  <2> SUFFICES ASSUME NEW r \in 1 .. NRel
               PROVE  IF r < rel_next + 1 THEN table[rel'[r]] = meant[r]
                                          ELSE rel'[r] = meant[r]
    BY <1>1 DEF RelocationsRenumbered
  <2>1. CASE r = rel_next
    BY <1>1, <1>3, <1>4, <2>1 DEF TypeOK
  <2>2. CASE r # rel_next
    <3>1. rel'[r] = rel[r] /\ (r < rel_next + 1 <=> r < rel_next)
      BY <1>1, <1>4, <2>2 DEF TypeOK
    <3>2. QED
      BY <3>1 DEF RelocationsRenumbered
  <2>3. QED
    BY <2>1, <2>2
<1>8. QED
  BY <1>5, <1>6, <1>7

LEMMA Aligned ==
  ASSUME NEW n \in Nat
  PROVE  ELF_ALIGN(n) \in Nat /\ ELF_ALIGN(n) >= n /\ ELF_ALIGN(n) % 4 = 0
BY DEF ELF_ALIGN

LEMMA PartType ==
  ASSUME NEW at \in Nat, NEW size \in Nat
  PROVE  /\ Part(at, size) \in [from : Nat, size : Nat]
         /\ After(Part(at, size)) \in Nat
         /\ Part(at, size).from >= at /\ Part(at, size).from % 4 = 0
         /\ After(Part(at, size)) >= Part(at, size).from
BY Aligned DEF Part, After

LEMMA AppendType ==
  ASSUME NEW S, NEW q \in Seq(S), NEW e \in S
  PROVE  Append(q, e) \in Seq(S)
OBVIOUS

LEMMA ElementType ==
  ASSUME NEW S, NEW q \in Seq(S), NEW k \in DOMAIN q
  PROVE  q[k] \in S
OBVIOUS

\* What comes after leaves the symbols and the relocations alone.
LEMMA LayoutStep ==
  ASSUME IInv,
         \/ EndRenumber \/ LaySection \/ LayNobits \/ EndSections \/ LayStrings
         \/ LaySymbols \/ LayHeaders
  PROVE  IInv'
<1>1. TypeOK /\ CursorsAgree /\ SwapsTellSymbols /\ PassedIsSplit
      /\ RelocationsRenumbered
  BY DEF IInv
<1>2. UNCHANGED <<locals, table, swap_list, global_page, global, global_end,
                  global_index, local_page, local, local_end, local_index,
                  sh_info, rel, meant, rel_next>>
  BY DEF EndRenumber, LaySection, LayNobits, EndSections, LayStrings,
         LaySymbols, LayTable, LayHeaders, sortVars
<1>3. /\ pc \notin {"global", "local"} /\ pc' \notin {"global", "local"}
      /\ pc' \in {"sections", "strings", "symbols", "headers", "done"}
      /\ layout' = layout
  BY DEF EndRenumber, LaySection, LayNobits, EndSections, LayStrings,
         LaySymbols, LayTable, LayHeaders, layoutVars
<1>4. section' \in Nat \ {0} /\ offset' \in Nat
      /\ parts' \in Seq([from : Nat, size : Nat])
  <2>1. section \in Nat \ {0} /\ offset \in Nat /\ layout \in Layouts
        /\ parts \in Seq([from : Nat, size : Nat])
    BY <1>1 DEF TypeOK
  <2>2. CASE LaySection
    <3> DEFINE s == layout.sections[section]
               code == Part(offset, s.size)
               rels == Part(After(code), s.rels)
    <3>1. s.size \in Nat /\ s.rels \in Nat /\ section' = section + 1
      BY <2>1, <2>2, LayoutTypes DEF LaySection
    <3>2. code \in [from : Nat, size : Nat] /\ After(code) \in Nat
      BY <2>1, <3>1, PartType
    <3>3. rels \in [from : Nat, size : Nat] /\ After(rels) \in Nat
      BY <3>1, <3>2, PartType
    <3>4. \/ parts' = Append(parts, code) /\ offset' = After(code)
          \/ parts' = Append(Append(parts, code), rels) /\ offset' = After(rels)
      BY <2>2, Zenon DEF LaySection
    <3> HIDE DEF code, rels
    <3>5. /\ Append(parts, code) \in Seq([from : Nat, size : Nat])
          /\ Append(Append(parts, code), rels) \in Seq([from : Nat, size : Nat])
      BY <2>1, <3>2, <3>3, AppendType
    <3>6. CASE parts' = Append(parts, code) /\ offset' = After(code)
      BY <2>1, <3>1, <3>2, <3>5, <3>6
    <3>7. CASE /\ parts' = Append(Append(parts, code), rels)
               /\ offset' = After(rels)
      BY <2>1, <3>1, <3>3, <3>5, <3>7
    <3>8. QED
      BY <3>4, <3>6, <3>7
  <2>3. CASE LayNobits \/ LayHeaders
    <3>1. /\ parts' = parts /\ offset' = ELF_ALIGN(offset)
          /\ section' = section + 1 \/ section' = section
      BY <2>3 DEF LayNobits, LayHeaders
    <3>2. ELF_ALIGN(offset) \in Nat
      BY <2>1, Aligned
    <3>3. section' \in Nat \ {0}
      BY <2>1, <3>1
    <3>4. QED
      BY <2>1, <3>1, <3>2, <3>3
  <2>4. CASE EndRenumber \/ EndSections
    BY <2>1, <2>4 DEF EndRenumber, EndSections, layoutVars
  <2>5. CASE LayStrings \/ LaySymbols
    <3>1. PICK size \in Nat :
            /\ section' = section
            /\ \/ parts' = parts /\ offset' = offset
               \/ /\ parts' = Append(parts, Part(offset, size))
                  /\ offset' = After(Part(offset, size))
      <4>1. CASE LayStrings
        BY <2>1, <4>1, LayoutTypes DEF LayStrings, LayTable
      <4>2. CASE LaySymbols
        <5> DEFINE given == IF layout.exec THEN 0 ELSE layout.symbols
        <5>1. given \in Nat
          BY <2>1, LayoutTypes
        <5>2. /\ section' = section
              /\ \/ parts' = parts /\ offset' = offset
                 \/ /\ parts' = Append(parts, Part(offset, given))
                    /\ offset' = After(Part(offset, given))
          BY <4>2 DEF LaySymbols, LayTable
        <5> HIDE DEF given
        <5>3. QED
          BY <5>1, <5>2
      <4>3. QED
        BY <2>5, <4>1, <4>2
    <3>2. /\ Part(offset, size) \in [from : Nat, size : Nat]
          /\ After(Part(offset, size)) \in Nat
      BY <2>1, <3>1, PartType
    <3>3. Append(parts, Part(offset, size)) \in Seq([from : Nat, size : Nat])
      BY <2>1, <3>2, AppendType
    <3>4. QED
      BY <2>1, <3>1, <3>2, <3>3
  <2>6. QED
    BY <2>2, <2>3, <2>4, <2>5
<1>5. TypeOK'
  BY <1>1, <1>2, <1>3, <1>4 DEF TypeOK
<1>6. CursorsAgree' /\ SwapsTellSymbols'
  BY <1>1, <1>2, <1>3 DEF CursorsAgree, SwapsTellSymbols
<1>7. PassedIsSplit' /\ RelocationsRenumbered'
  BY <1>1, <1>2, <1>3 DEF PassedIsSplit, RelocationsRenumbered
<1>8. QED
  BY <1>5, <1>6, <1>7 DEF IInv

LEMMA Invariance == Spec => []IInv
<1>1. IInv /\ [Next]_vars => IInv'
  <2> SUFFICES ASSUME IInv, [Next]_vars PROVE IInv'
    OBVIOUS
  <2>1. CASE KeepLocal
    BY <2>1, KeepLocalStep
  <2>2. CASE FindGlobal
    BY <2>2, FindGlobalStep
  <2>3. CASE SkipGlobal
    BY <2>3, SkipGlobalStep
  <2>4. CASE Swap
    BY <2>4, SwapStep
  <2>5. CASE EndSort
    BY <2>5, EndSortStep
  <2>6. CASE Renumber
    BY <2>6, RenumberStep
  <2>7. CASE \/ EndRenumber \/ LaySection \/ LayNobits \/ EndSections
             \/ LayStrings \/ LaySymbols \/ LayHeaders
    BY <2>7, LayoutStep
  <2>8. CASE vars' = vars
    <3>1. UNCHANGED <<pc, sortVars>> /\ UNCHANGED layoutVars
      BY <2>8 DEF vars
    <3>2. QED
      BY <3>1 DEF sortVars, layoutVars, IInv, TypeOK, CursorsAgree,
                  SwapsTellSymbols, PassedIsSplit, RelocationsRenumbered
  <2>9. QED
    BY <2>1, <2>2, <2>3, <2>4, <2>5, <2>6, <2>7, <2>8 DEF Next, Done
<1>2. QED
  BY <1>1, Start, PTL DEF Spec
-----------------------------------------------------------------------------
\* The variables keep their types, whatever the pages and the file: no cursor
\* of outfile_sort_globals leaves the table.
THEOREM TypeCorrect == Spec => []TypeOK
<1>1. IInv => TypeOK
  BY DEF IInv
<1>2. QED
  BY <1>1, Invariance, PTL

\* sh_info is the first index that is not local.
THEOREM SplitsSymbols == Spec => []LocalsFirst
<1>1. IInv => LocalsFirst
  <2> SUFFICES ASSUME IInv, Sorted PROVE LocalsFirst
    BY DEF LocalsFirst
  <2>1. sh_info = global_index /\ sh_info = local_index
    BY DEF IInv, PassedIsSplit, Sorted
  <2>2. ASSUME NEW i \in Index PROVE table[i] \in locals <=> i < sh_info
    <3>1. i \in Int /\ sh_info \in Int
      BY Pages DEF IInv, TypeOK, Index
    <3>2. i < sh_info => table[i] \in locals
      BY <2>1, <2>2 DEF IInv, PassedIsSplit
    <3>3. i >= sh_info => table[i] \notin locals
      BY <2>1, <2>2 DEF IInv, PassedIsSplit
    <3>4. QED
      BY <3>1, <3>2, <3>3
  <2>3. table[0] = 0
    BY Pages DEF IInv, PassedIsSplit, SwapsTellSymbols
  <2>4. QED
    BY <2>2, <2>3 DEF LocalsFirst
<1>2. QED
  BY <1>1, Invariance, PTL

\* Every symbol is in the table once, and the relocations that were renumbered
\* point to their symbols.
THEOREM KeepsSymbols == Spec => []RelocationKeepsSymbol
<1>1. IInv => RelocationKeepsSymbol
  <2> SUFFICES ASSUME IInv, Sorted PROVE RelocationKeepsSymbol
    BY DEF RelocationKeepsSymbol
  <2>1. ASSUME NEW i \in Index, NEW j \in Index, table[i] = table[j]
        PROVE  i = j
    <3> DEFINE went(k) == IF swap_list[k] = symbol_count THEN k ELSE swap_list[k]
    <3>1. ASSUME NEW k \in Index
          PROVE  table[k] = went(k) /\ went(k) \in Index /\ went(went(k)) = k
      <4>1. swap_list[k] \in Index \cup {symbol_count}
        BY DEF IInv, TypeOK
      <4>2. k # symbol_count
        BY Pages DEF Index
      <4>3. QED
        BY <4>1, <4>2 DEF IInv, SwapsTellSymbols
    <3>2. QED
      BY <2>1, <3>1
  <2>2. ASSUME NEW r \in 1 .. rel_next - 1 PROVE table[rel[r]] = meant[r]
    BY RelAssumption DEF IInv, RelocationsRenumbered, TypeOK
  <2>3. QED
    BY <2>1, <2>2 DEF RelocationKeepsSymbol
<1>2. QED
  BY <1>1, Invariance, PTL
-----------------------------------------------------------------------------
(* The layout: what is given away ends before the offset.                  *)

\* The sequence of parts ps, laid out up to end.
Laid(ps, end) ==
  /\ end \in Nat /\ end >= Headers /\ ps \in Seq([from : Nat, size : Nat])
  /\ \A k \in DOMAIN ps :
       ps[k].from % 4 = 0 /\ ps[k].from >= Headers /\ After(ps[k]) <= end
  /\ \A k \in DOMAIN ps, j \in DOMAIN ps :
       k < j => After(ps[k]) <= ps[j].from

LEMMA OneMore ==
  ASSUME NEW ps, NEW end, NEW size \in Nat, Headers \in Nat, Laid(ps, end)
  PROVE  Laid(Append(ps, Part(end, size)), After(Part(end, size)))
<1> DEFINE part == Part(end, size)
           more == Append(ps, part)
<1>1. /\ part \in [from : Nat, size : Nat] /\ After(part) \in Nat
      /\ part.from >= end /\ part.from % 4 = 0 /\ After(part) >= part.from
  BY PartType DEF Laid
<1>2. /\ more \in Seq([from : Nat, size : Nat])
      /\ Len(ps) \in Nat /\ DOMAIN ps = 1 .. Len(ps)
      /\ DOMAIN more = 1 .. Len(ps) + 1
      /\ \A k \in 1 .. Len(ps) : more[k] = ps[k]
      /\ more[Len(ps) + 1] = part
  BY <1>1 DEF Laid
<1>3. ASSUME NEW k \in 1 .. Len(ps)
      PROVE  /\ After(ps[k]) \in Nat /\ ps[k] \in [from : Nat, size : Nat]
             /\ ps[k].from % 4 = 0 /\ ps[k].from >= Headers
             /\ After(ps[k]) <= end
  <2>1. ps[k] \in [from : Nat, size : Nat]
    <3>1. ps \in Seq([from : Nat, size : Nat])
      BY DEF Laid
    <3>2. k \in DOMAIN ps
      BY <1>2
    <3>3. QED
      BY <3>1, <3>2, ElementType
  <2>2. After(ps[k]) \in Nat
    BY <2>1 DEF After
  <2>3. QED
    BY <1>2, <2>1, <2>2 DEF Laid
<1> HIDE DEF part, more
<1>4. ASSUME NEW k \in DOMAIN more
      PROVE  more[k].from % 4 = 0 /\ more[k].from >= Headers
             /\ After(more[k]) <= After(part)
  <2>1. CASE k \in 1 .. Len(ps)
    <3>1. end \in Nat /\ more[k] = ps[k]
      BY <1>2, <2>1 DEF Laid
    <3>2. After(ps[k]) <= After(part)
      BY <1>1, <1>3, <2>1, <3>1
    <3>3. QED
      BY <1>3, <2>1, <3>1, <3>2
  <2>2. CASE k = Len(ps) + 1
    BY <1>1, <1>2, <2>2 DEF Laid
  <2>3. QED
    BY <1>2, <2>1, <2>2
<1>5. ASSUME NEW k \in DOMAIN more, NEW j \in DOMAIN more, k < j
      PROVE  After(more[k]) <= more[j].from
  <2>1. k \in 1 .. Len(ps)
    BY <1>2, <1>5
  <2>2. CASE j \in 1 .. Len(ps)
    BY <1>2, <1>5, <2>1, <2>2 DEF Laid
  <2>3. CASE j = Len(ps) + 1
    <3>1. After(ps[k]) <= end /\ end \in Nat
      BY <1>2, <2>1 DEF Laid
    <3>2. QED
      BY SMTT(30), <1>1, <1>2, <1>3, <2>1, <2>3, <3>1
  <2>4. QED
    BY <1>2, <2>2, <2>3
<1>6. After(part) >= Headers
  BY <1>1 DEF Laid
<1>7. QED
  BY <1>1, <1>2, <1>4, <1>5, <1>6 DEF Laid, part, more

\* The parts of the file share nothing.
THEOREM SeparatesParts == Spec => []PartsApart
<1> DEFINE Inv == /\ Headers \in Nat /\ Laid(parts, offset)
                  /\ pc = "done" => offset % 4 = 0
<1>1. Init => Inv
  <2> SUFFICES ASSUME Init PROVE Inv
    OBVIOUS
  <2>1. Headers \in Nat
    BY LayoutTypes DEF Init, Headers, EhdrSize, PhdrSize
  <2>2. QED
    BY <2>1 DEF Init, Laid
<1>2. TypeOK /\ Inv /\ [Next]_vars => Inv'
  <2> SUFFICES ASSUME TypeOK, Inv, [Next]_vars PROVE Inv'
    OBVIOUS
  <2>1. layout' = layout /\ Headers' = Headers
    BY DEF Next, KeepLocal, FindGlobal, SkipGlobal, Swap, EndSort, Renumber,
           EndRenumber, LaySection, LayNobits, EndSections, LayStrings,
           LaySymbols, LayTable, LayHeaders, Done, vars, layoutVars, Headers
  <2>2. CASE \/ KeepLocal \/ FindGlobal \/ SkipGlobal \/ Swap \/ EndSort
             \/ Renumber \/ EndRenumber \/ EndSections \/ vars' = vars
    <3>1. parts' = parts /\ offset' = offset
          /\ (pc' = "done" => pc = "done")
      BY <2>2 DEF KeepLocal, FindGlobal, SkipGlobal, Swap, EndSort, Renumber,
                  EndRenumber, EndSections, layoutVars, vars
    <3>2. QED
      BY <2>1, <3>1 DEF Laid
  <2>3. CASE LaySection
    <3> DEFINE s == layout.sections[section]
               code == Part(offset, s.size)
               rels == Part(After(code), s.rels)
    <3>1. s.size \in Nat /\ s.rels \in Nat
      BY <2>3, LayoutTypes DEF LaySection, TypeOK
    <3>2. /\ Laid(Append(parts, code), After(code))
          /\ Laid(Append(Append(parts, code), rels), After(rels))
      BY <3>1, OneMore
    <3>3. /\ pc' = "sections"
          /\ \/ parts' = Append(parts, code) /\ offset' = After(code)
             \/ /\ parts' = Append(Append(parts, code), rels)
                /\ offset' = After(rels)
      BY <2>3 DEF LaySection
    <3> HIDE DEF code, rels
    <3>4. QED
      BY <2>1, <3>2, <3>3 DEF Laid
  <2>4. CASE LayNobits \/ LayHeaders
    <3>1. /\ parts' = parts /\ offset' = ELF_ALIGN(offset)
      BY <2>4 DEF LayNobits, LayHeaders
    <3>2. offset' \in Nat /\ offset' >= offset /\ offset' % 4 = 0
      BY <3>1, Aligned DEF Laid
    <3>3. ASSUME NEW k \in DOMAIN parts PROVE After(parts[k]) \in Nat
      <4>1. parts[k] \in [from : Nat, size : Nat]
        <5>1. parts \in Seq([from : Nat, size : Nat])
          BY DEF Laid
        <5>2. QED
          BY <3>3, <5>1, ElementType
      <4>2. QED
        BY <4>1 DEF After
    <3>4. QED
      BY <2>1, <3>1, <3>2, <3>3 DEF Laid
  <2>5. CASE LayStrings \/ LaySymbols
    <3>1. PICK size \in Nat :
            /\ pc' \in {"symbols", "headers"}
            /\ \/ parts' = parts /\ offset' = offset
               \/ /\ parts' = Append(parts, Part(offset, size))
                  /\ offset' = After(Part(offset, size))
      BY <2>5, LayoutTypes DEF LayStrings, LaySymbols, LayTable, TypeOK
    <3>2. Laid(Append(parts, Part(offset, size)), After(Part(offset, size)))
      BY <3>1, OneMore
    <3>3. QED
      BY <2>1, <3>1, <3>2 DEF Laid
  <2>6. QED
    BY <2>2, <2>3, <2>4, <2>5 DEF Next, Done
<1>3. Inv => PartsApart
  BY DEF Laid, PartsApart
<1>4. QED
  BY <1>1, <1>2, <1>3, TypeCorrect, PTL DEF Spec
=============================================================================
