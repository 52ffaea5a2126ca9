------------------------------ MODULE Assembly ------------------------------
(***************************************************************************)
(* What as21 puts in an object file: the sections and their locations, the *)
(* symbols and the relocations, as the parser runs the actions of the      *)
(* statements (as21/as21-grammar.y; as219x-grammar.y has no /circ) on the  *)
(* symbol table (as21/symbol.c) and the output file (libas21/outfile.c).   *)
(* A section keeps its words on pages and its location counter apart from  *)
(* them: create_elf_data lays the pages out from their sizes and the       *)
(* deltas that alignment gave them, and labels and relocations are right   *)
(* when that agrees with the counter.  Words are counted, not stored.      *)
(***************************************************************************)
EXTENDS Integers, Sequences, FiniteSets

CONSTANTS
  Name,         \* names of symbols
  SectionName,  \* names of sections
  Source,       \* what the sources draw their statements from, and the bound on
                \* the statements, declarations and values of one
  EntSize,      \* bytes in a word of each memory space
  PageWords,    \* words that fit on a page of each memory space
  MaxBy         \* max_by, an alignment that is too large: 2^14

Space == {"PROGRAM", "DATA"}
SecType == {"PROGBITS", "NOBITS"}
NoSpace == "NONE"
NoSection == "SHN_UNDEF"
NoSymbol == "NULL"

ASSUME SourceAssumption ==
  Source \subseteq
    [names : SUBSET Name,
     scopes : SUBSET {"EXTERN", "GLOBAL"},        \* what declares names
     sections : SUBSET (SectionName \X SecType \X Space),
     sizes : SUBSET Nat,                          \* of variables, 0 for []
     alignments : SUBSET Nat,                     \* operands of .ALIGN
     qualifiers : SUBSET {"CIRC", "INIT24"},      \* of .VAR
     steps : Nat]
ASSUME SpaceAssumption ==
  /\ EntSize \in [Space -> Nat \ {0}] /\ PageWords \in [Space -> Nat \ {0}]
  /\ NoSymbol \notin Name /\ NoSection \notin SectionName
ASSUME AlignmentAssumption == MaxBy \in 1 .. 2^14

VARIABLES
  source,     \* the element of Source that is assembled
  pc,         \* "statement"; inside .VAR "qualified", "variables" after the
              \* first, "declared", "values"; at the end "done", "failed", or
              \* "aborted" by an assertion
  sections,   \* outfile.code_sections, the current one first
  symbols,    \* the symbols of the object file, a function of their names
  current,    \* current_space
  previous,   \* previous_space
  qualifiers, \* circular and init_24
  alignment,  \* outfile.align
  variable,   \* var_symbol
  length,     \* var_length
  steps,      \* statements, declarations and values so far
  aligned,    \* history: words that have to be aligned, and to what
  skewed      \* history: alignments outfile_align does not get right

varVars == <<qualifiers, alignment, variable, length>>
spaceVars == <<current, previous>>
vars == <<source, pc, sections, symbols, spaceVars, varVars, steps, aligned, skewed>>

----------------------------------------------------------------------------
(* Sections. *)

\* The current section.
here == sections[1]
NoCode == sections = <<>>

WordsUpTo(s, i) ==
  LET sum[k \in 0 .. i] == IF k = 0 THEN 0 ELSE sum[k - 1] + s.pages[k].words
  IN sum[i]

Emitted(s) == WordsUpTo(s, Len(s.pages))

DeltasUpTo(s, i) ==
  LET sum[k \in 0 .. i] == IF k = 0 THEN 0 ELSE sum[k - 1] + s.pages[k].delta
  IN sum[i]

\* create_elf_data: where the n-th word of a section is in it.
Position(s, n) ==
  LET on == CHOOSE i \in DOMAIN s.pages : WordsUpTo(s, i - 1) < n /\ n <= WordsUpTo(s, i)
  IN n - 1 + DeltasUpTo(s, on)

LastPage(s) == s.pages[Len(s.pages)]
EmptyPage == [words |-> 0, delta |-> 0]

\* The pages with one that has no words at the end.
FreshPage(s) ==
  IF s.pages = <<>> \/ LastPage(s).words > 0 THEN Append(s.pages, EmptyPage) ELSE s.pages

PageIsFull(s) == s.pages = <<>> \/ LastPage(s).words = PageWords[s.space]

\* outfile_emit.
EmitWord(s) ==
  IF s.type = "NOBITS" THEN [s EXCEPT !.offset = @ + 1]
  ELSE LET pages == IF PageIsFull(s) THEN Append(s.pages, EmptyPage) ELSE s.pages
       IN [s EXCEPT !.pages = [pages EXCEPT ![Len(pages)].words = @ + 1],
                    !.offset = @ + 1]

\* outfile_emit_bss.
EmitBss(s, n) ==
  LET emit[k \in 0 .. n] == IF k = 0 THEN s ELSE EmitWord(emit[k - 1])
  IN IF s.type = "NOBITS" THEN [s EXCEPT !.offset = @ + n] ELSE emit[n]

\* The power of two an alignment is made to, and the words it skips.
PowersOf2 == {2^k : k \in 0 .. 14}
PowerOf2(by) == CHOOSE a \in PowersOf2 : a >= by /\ (a = 1 \/ a \div 2 < by)

\* Mutant of Skip: the words behind the last multiple.
SkipMutant(offset, align) == offset % align

Skip(offset, align) == ((offset + align - 1) \div align) * align - offset

\* Mutant of AddRelocation: the location counter is not made bytes.
AddRelocationMutant(s, n) ==
  IF s.type = "NOBITS" THEN s
  ELSE [s EXCEPT !.relocs = Append(@,
         [symbol |-> n, offset |-> s.offset, word |-> Emitted(s) + 1])]

\* outfile_add_relocation: none in a section without data.
AddRelocation(s, n) ==
  IF s.type = "NOBITS" THEN s
  ELSE [s EXCEPT !.relocs = Append(@,
         [symbol |-> n, offset |-> s.offset * EntSize[s.space], word |-> Emitted(s) + 1])]

----------------------------------------------------------------------------
(* Symbols.  A symbol also has the word its definition stands before, 0 when *)
(* .ALIGN came between.                                                      *)

NewSymbol == [flags |-> {}, global |-> FALSE, section |-> NoSection, value |-> 0,
              size |-> 0, word |-> 0]
Known(n) == n \in DOMAIN symbols
Symbol(n) == IF Known(n) THEN symbols[n] ELSE NewSymbol
WithSymbol(n, s) == [m \in DOMAIN symbols \cup {n} |-> IF m = n THEN s ELSE symbols[m]]

IsDefined(n) == "DEFINED" \in Symbol(n).flags

\* symbol_define, outfile_define_symbol.
Defined(n, size) ==
  LET s == [Symbol(n) EXCEPT !.flags = @ \cup {"DEFINED"}] IN
  WithSymbol(n, IF NoCode THEN s
                ELSE [s EXCEPT !.section = here.name, !.value = here.offset,
                               !.size = size, !.word = Emitted(here) + 1])

\* symbol_reference, with SYMBOL_UNKNOWN, SYMBOL_GLOBAL or SYMBOL_EXTERN.
Referenced(n, scope) ==
  WithSymbol(n, [Symbol(n) EXCEPT !.flags = @ \cup {"REFERENCED"} \cup scope,
                                  !.global = @ \/ scope # {}])

\* check_symbol.
SymbolFails(s) ==
  \/ s.flags \cap {"EXTERN", "DEFINED"} = {}
  \/ {"EXTERN", "DEFINED"} \subseteq s.flags /\ "GLOBAL" \notin s.flags

----------------------------------------------------------------------------
(* Statements.  The first error ends the model: as21 goes on to report more *)
(* of them and then removes the object file.                                *)

Step(at, to) ==
  /\ pc = at /\ pc' = to /\ steps < source.steps
  /\ steps' = steps + 1 /\ UNCHANGED source

Fails(at) == Step(at, "failed") /\ UNCHANGED
  <<sections, symbols, spaceVars, varVars, aligned, skewed>>

Label(n) ==
  \/ /\ Step("statement", "statement") /\ ~ IsDefined(n)
     /\ symbols' = Defined(n, 0)
     /\ UNCHANGED <<sections, spaceVars, varVars, aligned, skewed>>
  \/ IsDefined(n) /\ Fails("statement")

\* .EXTERN, .GLOBAL.
Declare(n, scope) ==
  /\ Step("statement", "statement")
  /\ symbols' = Referenced(n, {scope})
  /\ UNCHANGED <<sections, spaceVars, varVars, aligned, skewed>>

CanEmit == ~ NoCode /\ here.type = "PROGBITS"

\* One word in the current section, with a relocation for symbol n if there is
\* one: an instruction or an initial value.
Emit(n) ==
  /\ CanEmit
  /\ symbols' = IF n = NoSymbol THEN symbols ELSE Referenced(n, {})
  /\ LET s == IF n = NoSymbol THEN here ELSE AddRelocation(here, n)
     IN sections' = [sections EXCEPT ![1] = EmitWord(s)]

Operation(n) ==
  \/ /\ Step("statement", "statement") /\ Emit(n)
     /\ UNCHANGED <<spaceVars, varVars, aligned, skewed>>
  \/ ~ CanEmit /\ Fails("statement")

\* The section at index i of the list goes to its front.
ToFront(i) ==
  <<sections[i]>> \o SubSeq(sections, 1, i - 1) \o SubSeq(sections, i + 1, Len(sections))

NewSection(name, type, space) ==
  [name |-> name, type |-> type, space |-> space, pages |-> <<>>, offset |-> 0,
   addralign |-> 1, relocs |-> <<>>]

\* .SECTION: outfile_select_section.
SelectSection(name, type, space) ==
  /\ current' = space /\ previous' = current
  /\ \/ /\ Step("statement", "statement")
        /\ \/ \E i \in DOMAIN sections :
                /\ sections[i].name = name /\ sections[i].type = type
                /\ sections' = ToFront(i)
           \/ /\ \A i \in DOMAIN sections : sections[i].name # name
              /\ sections' = <<NewSection(name, type, space)>> \o sections
     \/ /\ Step("statement", "failed")
        /\ \E i \in DOMAIN sections : sections[i].name = name /\ sections[i].type # type
        /\ UNCHANGED sections
  /\ UNCHANGED <<symbols, varVars, aligned, skewed>>

\* .PREVIOUS: outfile_previous_section takes the second section from the list;
\* remlist_section asserts that there is one.
PreviousSection ==
  /\ current' = previous /\ previous' = current
  /\ \/ /\ Step("statement", "statement") /\ Len(sections) >= 2
        /\ sections' = ToFront(2)
     \/ Step("statement", "aborted") /\ Len(sections) = 1 /\ UNCHANGED sections
     \/ Step("statement", "failed") /\ NoCode /\ UNCHANGED sections
  /\ UNCHANGED <<symbols, varVars, aligned, skewed>>

Larger(a, b) == IF a > b THEN a ELSE b

\* .ALIGN: outfile_align without an alignment block.  The delta of a page that
\* was aligned before, and has no words, is lost.
Align(by) ==
  LET align == PowerOf2(by)
      pages == FreshPage(here)
      last == Len(pages)
      delta == Skip(here.offset, align)
  IN \/ /\ Step("statement", "statement") /\ ~ NoCode /\ by < MaxBy /\ align = by
        /\ sections' = [sections EXCEPT ![1] =
             [here EXCEPT !.pages = [pages EXCEPT ![last].delta = delta],
                          !.offset = @ + delta, !.addralign = Larger(@, align)]]
        /\ symbols' = [n \in DOMAIN symbols |->
             IF /\ symbols[n].section = here.name /\ delta > 0
                /\ symbols[n].word = Emitted(here) + 1
             THEN [symbols[n] EXCEPT !.word = 0] ELSE symbols[n]]
        /\ aligned' = aligned \cup {[section |-> here.name,
                                     word |-> Emitted(here) + 1, by |-> align]}
        /\ skewed' = skewed \cup (IF pages[last].delta # 0 THEN {"page"} ELSE {})
        /\ UNCHANGED <<spaceVars, varVars>>
     \/ (NoCode \/ by >= MaxBy \/ align # by) /\ Fails("statement")

----------------------------------------------------------------------------
(* .VAR *)

\* The qualifiers: /CIRC remembers where the variables begin, on a new page.
BeginVar(q) ==
  \/ /\ Step("statement", "qualified")
     /\ "CIRC" \in q => ~ NoCode
     /\ "INIT24" \in q => current = "PROGRAM"
     /\ qualifiers' = q /\ variable' = NoSymbol /\ length' = 0
     /\ IF "CIRC" \in q
        THEN /\ sections' = [sections EXCEPT ![1].pages = FreshPage(here)]
             /\ alignment' = [page |-> Len(FreshPage(here)), offset |-> here.offset,
                              reloc |-> Len(here.relocs)]
        ELSE UNCHANGED <<sections, alignment>>
     /\ UNCHANGED <<symbols, spaceVars, aligned, skewed>>
  \/ /\ \/ "CIRC" \in q /\ NoCode
        \/ "INIT24" \in q /\ current # "PROGRAM"
     /\ Fails("statement")

\* var_name.
DeclareVariable(n, size) ==
  /\ pc \in {"qualified", "variables"}
  /\ \/ /\ Step(pc, "declared") /\ ~ IsDefined(n)
        /\ symbols' = Defined(n, size) /\ variable' = n
        /\ UNCHANGED <<sections, spaceVars, qualifiers, alignment, length, aligned, skewed>>
     \/ IsDefined(n) /\ Fails(pc)

\* The "=" before values, with a name or without.
BeginValues ==
  /\ pc \in {"qualified", "declared", "variables"} /\ Step(pc, "values")
  /\ variable' = IF pc = "declared" THEN variable ELSE NoSymbol
  /\ length' = 0
  /\ UNCHANGED <<sections, symbols, spaceVars, qualifiers, alignment, aligned, skewed>>

InitialValue(n) ==
  \/ /\ Step("values", "values") /\ Emit(n)
     /\ length' = length + 1
     /\ UNCHANGED <<spaceVars, qualifiers, alignment, variable, aligned, skewed>>
  \/ ~ CanEmit /\ Fails("values")

\* Mutant of SetSize: the words without a value are not emitted.
SetSizeMutant(n, emitted) ==
  /\ symbols' = IF Symbol(n).size = 0 THEN [symbols EXCEPT ![n].size = emitted]
                ELSE symbols
  /\ UNCHANGED sections

\* symbol_set_size: an array without a size gets one, and the words of a larger
\* array that have no value become zero.
SetSize(n, emitted) ==
  IF Symbol(n).size = 0
  THEN /\ symbols' = [symbols EXCEPT ![n].size = emitted]
       /\ UNCHANGED sections
  ELSE /\ sections' = [sections EXCEPT ![1] = EmitBss(@, Symbol(n).size - emitted)]
       /\ UNCHANGED symbols

\* The end of the values of a variable, or a variable that has none.
EndVariable ==
  LET emitted == IF pc = "values" THEN length ELSE 0
      fits == variable = NoSymbol \/ Symbol(variable).size = 0
                \/ emitted <= Symbol(variable).size
  IN /\ pc = "values" => length > 0
     /\ \/ /\ Step(pc, "variables") /\ pc \in {"declared", "values"} /\ fits
           /\ IF variable = NoSymbol THEN UNCHANGED <<sections, symbols>>
              ELSE SetSize(variable, emitted)
           /\ UNCHANGED <<spaceVars, varVars, aligned, skewed>>
        \/ pc = "values" /\ ~ fits /\ Fails("values")

\* Mutant of MovedSymbols: not the first variable.
MovedSymbolsMutant(delta) ==
  [n \in DOMAIN symbols |->
     IF symbols[n].section = here.name /\ symbols[n].value > alignment.offset
     THEN [symbols[n] EXCEPT !.value = @ + delta] ELSE symbols[n]]

\* align_symbols, align_relocations: what follows the beginning of the variables
\* moves with them.  The offset of a symbol counts words, that of a relocation
\* bytes.
MovedSymbols(delta) ==
  [n \in DOMAIN symbols |->
     IF symbols[n].section = here.name /\ symbols[n].value >= alignment.offset
     THEN [symbols[n] EXCEPT !.value = @ + delta] ELSE symbols[n]]
MovedRelocations(delta) ==
  [i \in DOMAIN here.relocs |->
     IF i > alignment.reloc THEN [here.relocs[i] EXCEPT !.offset = @ + delta]
     ELSE here.relocs[i]]

\* The end of .VAR: /CIRC aligns to the length of all its variables.  A page
\* that was aligned before takes the larger delta.
EndVar ==
  LET extent == here.offset - alignment.offset
      align == PowerOf2(extent)
      delta == Skip(alignment.offset, align)
      page == here.pages[alignment.page]
  IN \/ /\ Step("variables", "statement")
        /\ "CIRC" \in qualifiers => extent < MaxBy
        /\ qualifiers' = {}
        /\ IF "CIRC" \in qualifiers
           THEN /\ sections' = [sections EXCEPT ![1] =
                     [here EXCEPT !.pages[alignment.page].delta = Larger(@, delta),
                                  !.offset = @ + delta,
                                  !.addralign = Larger(@, align),
                                  !.relocs = MovedRelocations(delta)]]
                /\ symbols' = MovedSymbols(delta)
                /\ aligned' = aligned \cup {[section |-> here.name, by |-> align,
                     word |-> WordsUpTo(here, alignment.page - 1) + 1]}
                /\ skewed' = skewed
                     \cup (IF page.delta # 0 /\ delta # 0 THEN {"page"} ELSE {})
                     \cup (IF Len(here.relocs) > alignment.reloc /\ delta # 0
                           THEN {"relocation"} ELSE {})
           ELSE UNCHANGED <<sections, symbols, aligned, skewed>>
        /\ UNCHANGED <<spaceVars, alignment, variable, length>>
     \/ "CIRC" \in qualifiers /\ extent >= MaxBy /\ Fails("variables")

\* The end of the source: check_symtab.
EndOfFile ==
  /\ pc = "statement"
  /\ pc' = IF \E n \in DOMAIN symbols : SymbolFails(symbols[n]) THEN "failed" ELSE "done"
  /\ UNCHANGED <<source, sections, symbols, spaceVars, varVars, steps, aligned, skewed>>

\* The bound on the statements cuts a .VAR short.
Stopped ==
  /\ pc \in {"done", "failed", "aborted"} \/ steps = source.steps
  /\ UNCHANGED vars

Init ==
  /\ source \in Source
  /\ pc = "statement" /\ sections = <<>>
  /\ symbols = [n \in {} |-> NewSymbol]
  /\ current = NoSpace /\ previous = NoSpace
  /\ qualifiers = {} /\ alignment = [page |-> 0, offset |-> 0, reloc |-> 0]
  /\ variable = NoSymbol /\ length = 0 /\ steps = 0
  /\ aligned = {} /\ skewed = {}

Next ==
  \/ \E n \in source.names : Label(n)
  \/ \E n \in source.names, scope \in source.scopes : Declare(n, scope)
  \/ \E n \in source.names \cup {NoSymbol} : Operation(n) \/ InitialValue(n)
  \/ \E s \in source.sections : SelectSection(s[1], s[2], s[3])
  \/ PreviousSection
  \/ \E by \in source.alignments : Align(by)
  \/ \E q \in SUBSET source.qualifiers : BeginVar(q)
  \/ \E n \in source.names, size \in source.sizes : DeclareVariable(n, size)
  \/ BeginValues \/ EndVariable \/ EndVar
  \/ EndOfFile
  \/ Stopped

Spec == Init /\ [][Next]_vars

----------------------------------------------------------------------------
(* Properties. *)

Page == [words : Nat, delta : Nat]
Relocation == [symbol : Name, offset : Nat, word : Nat \ {0}]
Section == [name : SectionName, type : SecType, space : Space, pages : Seq(Page),
            offset : Nat, addralign : Nat \ {0}, relocs : Seq(Relocation)]
SectionNamed(name) == CHOOSE s \in {sections[i] : i \in DOMAIN sections} : s.name = name
HasData(s) == s.type = "PROGBITS"
Laid(s, word) == HasData(s) /\ word \in 1 .. Emitted(s)

\* A label or variable whose word was emitted has, as its value, the place where
\* create_elf_data puts that word, through alignment (outfile_align,
\* align_symbols), changes of section and full pages.
LabelFindsWord ==
  skewed = {} =>
    \A n \in DOMAIN symbols :
      LET sym == symbols[n]
          s == SectionNamed(sym.section)
      IN sym.section # NoSection /\ Laid(s, sym.word) => sym.value = Position(s, sym.word)

RelocationsOf(s) == {s.relocs[i] : i \in DOMAIN s.relocs}

\* A relocation has the byte offset of the word that was emitted after it
\* (outfile_add_relocation, align_relocations): ld21 changes that word.
RelocationFindsWord ==
  skewed = {} =>
    \A i \in DOMAIN sections : \A r \in RelocationsOf(sections[i]) :
      Laid(sections[i], r.word) =>
        r.offset = Position(sections[i], r.word) * EntSize[sections[i].space]

IsAligned(a) ==
  LET s == SectionNamed(a.section)
  IN Laid(s, a.word) => Position(s, a.word) % a.by = 0 /\ s.addralign % a.by = 0

\* A word that .ALIGN or /CIRC aligned is at a multiple of the alignment, and so
\* is the section (outfile_align), unless one page was aligned twice.
AlignmentIsMet == "page" \notin skewed => \A a \in aligned : IsAligned(a)

Extent(sym) == sym.value .. sym.value + sym.size - 1

\* The variables of a section share no location and end before its location
\* counter: alignment moves all of those that follow, and symbol_set_size makes
\* the counter agree with the declared size.
VariablesDisjoint ==
  pc = "statement" =>
    \A m, n \in DOMAIN symbols :
      LET a == symbols[m]
          b == symbols[n]
      IN a.section = b.section /\ a.section # NoSection =>
           /\ a.value + a.size <= SectionNamed(a.section).offset
           /\ m # n => Extent(a) \cap Extent(b) = {}
=============================================================================
