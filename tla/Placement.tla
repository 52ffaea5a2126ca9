----------------------------- MODULE Placement -----------------------------
(***************************************************************************)
(* How ld21 places the input sections of the object files in the memory of *)
(* the DSP while it parses a link description file (LDF):                  *)
(*   ld21/ld21-grammar.y   the statements, in the order the parser runs    *)
(*                         their actions;                                  *)
(*   ld21/execfile.c       the open objects, the list of files and the     *)
(*                         list of sections of the statement being built;  *)
(*   ld21/dspmem.c         the memory blocks;                              *)
(*   libas21/outfile.c     the output sections of the executable.          *)
(* The linker is one thread: pc names the loop that is running, or the     *)
(* kind of LDF statement the parser accepts next.                          *)
(***************************************************************************)
EXTENDS Integers, Sequences, FiniteSets

CONSTANTS
  Section,        \* input sections of the object files on disk
  Hdr,            \* their headers and the length of their data, in words
  Object,         \* object files that can be opened
  SectionsOf,     \* [Object -> Seq(Section)], the order of elf_nextscn
  FileName,       \* names an LDF may use; those outside Object do not open
  Label,          \* names of input sections
  OutName,        \* names of output sections
  BlockDecl,      \* the memory block declarations an LDF may contain
  EntSize,        \* bytes in a word of each memory space
  Width,          \* bits in a word of each memory space (architecture->width)
  MaxFiles,       \* bound: file names in one INPUT_SECTIONS
  MaxStatements,  \* bound: output section statements in the LDF
  MaxProcessors   \* bound: PROCESSOR descriptions in the LDF

Space == {"PM", "DM"}
SecType == {"PROGBITS", "NOBITS"}

\* The memory space of an output section without data; the section a fill is
\* a copy of.
None == "none"

ASSUME HdrAssumption ==
  Hdr \in [Section -> [type : SecType, space : Space, size : Nat,
                       align : Nat \ {0}, label : Label]]
ASSUME NoneAssumption == None \notin Section
ASSUME ObjectAssumption ==
  /\ SectionsOf \in [Object -> Seq(Section)]
  /\ Object \subseteq FileName
ASSUME BlockAssumption ==
  \A d \in BlockDecl :
    /\ DOMAIN d = {"name", "space", "start", "end", "width"}
    /\ d.space \in Space /\ d.start \in Nat /\ d.end \in Int
ASSUME EntSizeAssumption == EntSize \in [Space -> Nat \ {0}]
ASSUME BoundAssumption ==
  MaxFiles \in Nat /\ MaxStatements \in Nat /\ MaxProcessors \in Nat

BlockName == {d.name : d \in BlockDecl}

\* The memory lists: 0 is global_memory, p > 0 the processor_memory of the
\* p-th PROCESSOR description (memory_list_init gives each a fresh list).
MemList == 0 .. MaxProcessors
Block == MemList \X BlockName
NoBlock == <<-1, None>>

VARIABLES
  pc,          \* what the parser is doing
  processor,   \* number of PROCESSOR descriptions begun
  current,     \* current_memory: the list that MEMORY adds to
  freed,       \* dup_name is the name of a statement that a syntax error ended
  memory,      \* the declarations in each memory list
  startUsed,   \* block->start_used
  objects,     \* the open object files
  linkArray,   \* the files of the INPUT_SECTIONS being parsed
  pending,     \* the sections of the current file that are still to be read
  labels,      \* section_label_list
  referenced,  \* sections whose SHF_REFERENCED flag is set
  scnArray,    \* the input sections of the output section being parsed
  statements,  \* output section statements parsed so far
  segment,     \* the block memorize() is filling
  todo,        \* what memorize() has still to place there
  dropped,     \* history: sections of statements that named no segment
  outs,        \* outfile.code_sections, the newest first
  where,       \* the block an input section was placed in
  addr,        \* its sh_addr
  failed,      \* error_count > 0
  output       \* the executable on disk

declVars == <<memory, startUsed>>
fileVars == <<objects, linkArray, pending, labels, referenced, scnArray>>
placeVars == <<segment, todo, dropped, outs, where, addr>>
vars == <<pc, processor, current, freed, declVars, fileVars, statements,
          placeVars, failed, output>>

\* A piece of an output section: where it is in the file and in the section,
\* in bytes, and the input section it is a copy of, None for alignment fill.
Piece ==
  [off : Nat, size : Nat, section : Section \cup {None}]

OutSection ==
  [name : OutName, type : SecType, space : Space \cup {None}, addr : Nat,
   offset : Nat, data : Seq(Piece)]

----------------------------------------------------------------------------
(* Operators the actions are built from. *)

SeqRange(q) == {q[i] : i \in DOMAIN q}

Parsing == pc \in {"top", "memory", "sections", "inputs", "files"}

\* Mutant of EndInside: the end of the new block is not looked at.
EndInsideMutant(d, old) == d.space = old.space /\ d.start \in old.start .. old.end

\* add_memory_block looks only for an end of the new block inside an old one.
EndInside(d, old) ==
  /\ d.space = old.space
  /\ \/ d.start \in old.start .. old.end
     \/ d.end \in old.start .. old.end

NamesIn(l) == {d.name : d \in memory[l]}

DeclOf(b) == CHOOSE d \in memory[b[1]] : d.name = b[2]

\* output_memory_segment: the block an output section names.
SegmentOf(n) ==
  IF n \in NamesIn(current) THEN <<current, n>>
  ELSE IF n \in NamesIn(0) THEN <<0, n>> ELSE NoBlock

\* Words to skip so that address a becomes a multiple of the alignment.
\* Alignments are powers of two, so the source's bit mask is this division.
Padding(a, align) == ((a + align - 1) \div align) * align - a

Placed(s) == where[s] # NoBlock

----------------------------------------------------------------------------
(* The statements of the LDF. *)

\* memory_section: one block of a MEMORY description.
AddMemoryBlock(d) ==
  /\ pc \in {"top", "memory"} /\ ~ freed
  /\ IF \/ d.width # Width[d.space]
        \/ d.name \in NamesIn(current)
     THEN failed' = TRUE /\ UNCHANGED <<memory, startUsed>>
     ELSE /\ failed' = (failed \/ \E old \in memory[current] : EndInside(d, old))
          /\ memory' = [memory EXCEPT ![current] = @ \cup {d}]
          /\ startUsed' = [startUsed EXCEPT ![<<current, d.name>>] = d.start]
  /\ UNCHANGED <<pc, processor, current, freed, fileVars, statements, placeVars, output>>

\* PROCESSOR and its OUTPUT: exec_open truncates the executable.
BeginProcessor ==
  /\ pc = "top" /\ processor < MaxProcessors
  /\ pc' = "memory"
  /\ processor' = processor + 1 /\ current' = processor'
  /\ outs' = <<>>
  /\ output' = "truncated"
  /\ UNCHANGED <<freed, declVars, fileVars, statements, segment, todo, dropped, where,
                 addr, failed>>

\* section_statement: new_input_sections at the opening brace.
BeginSection ==
  /\ pc \in {"memory", "sections"} /\ ~ freed /\ statements < MaxStatements
  /\ pc' = "inputs"
  /\ scnArray' = <<>>
  /\ statements' = statements + 1
  /\ UNCHANGED <<processor, current, freed, declVars, objects, linkArray, pending, labels,
                 referenced, placeVars, failed, output>>

\* INPUT_SECTIONS: new_file_list.
BeginInputs ==
  /\ pc = "inputs"
  /\ pc' = "files"
  /\ linkArray' = <<>>
  /\ UNCHANGED <<processor, current, freed, declVars, objects, pending, labels, referenced,
                 scnArray, statements, placeVars, failed, output>>

\* fname_list: add_one_object, for a name or for each member of a macro.
AddOneObject(f) ==
  /\ pc = "files" /\ Len(linkArray) < MaxFiles
  /\ IF f \in Object
     THEN /\ objects' = objects \cup {f}
          /\ linkArray' = Append(linkArray, f)
          /\ UNCHANGED failed
     ELSE failed' = TRUE /\ UNCHANGED <<objects, linkArray>>
  /\ UNCHANGED <<pc, processor, current, freed, declVars, pending, labels, referenced, scnArray,
                 statements, placeVars, output>>

\* The end of INPUT_SECTIONS. When no file was added, array_index_next_page
\* gives add_object_sections the page of an earlier statement, if there is one,
\* and the loop over it does not stop at the end of the list.
AddObjectSections(names) ==
  /\ pc = "files"
  /\ labels' = names
  /\ pc' = IF linkArray = <<>> /\ objects # {} THEN "undefined" ELSE "object"
  /\ UNCHANGED <<processor, current, freed, declVars, objects, linkArray, pending, referenced,
                 scnArray, statements, placeVars, failed, output>>

\* add_object_sections: the next file of link_array, or the end of the list.
NextObject ==
  /\ pc = "object"
  /\ IF linkArray = <<>>
     THEN /\ pc' = "inputs"
          /\ labels' = {}
          /\ UNCHANGED <<linkArray, pending>>
     ELSE /\ pc' = "section"
          /\ pending' = SectionsOf[Head(linkArray)]
          /\ linkArray' = Tail(linkArray)
          /\ UNCHANGED labels
  /\ UNCHANGED <<processor, current, freed, declVars, objects, referenced, scnArray, statements,
                 placeVars, failed, output>>

\* add_object_sections: the next section of the file, one that no label names,
\* one that an earlier INPUT_SECTIONS took, or one for this output section.
ReadSection ==
  /\ pc = "section" /\ pending # <<>>
  /\ pending' = Tail(pending)
  /\ UNCHANGED <<pc, processor, current, freed, declVars, objects, linkArray, labels, statements,
                 placeVars, output>>

SkipSection ==
  /\ ReadSection
  /\ Hdr[Head(pending)].label \notin labels
  /\ UNCHANGED <<referenced, scnArray, failed>>

RefuseSection ==
  /\ ReadSection
  /\ Hdr[Head(pending)].label \in labels /\ Head(pending) \in referenced
  /\ failed' = TRUE
  /\ UNCHANGED <<referenced, scnArray>>

\* Mutant of AddSection: SHF_REFERENCED is not looked at.
AddSectionMutant ==
  /\ ReadSection
  /\ Hdr[Head(pending)].label \in labels
  /\ referenced' = referenced \cup {Head(pending)}
  /\ scnArray' = Append(scnArray, Head(pending))
  /\ UNCHANGED failed

AddSection ==
  /\ ReadSection
  /\ Hdr[Head(pending)].label \in labels /\ Head(pending) \notin referenced
  /\ referenced' = referenced \cup {Head(pending)}
  /\ scnArray' = Append(scnArray, Head(pending))
  /\ UNCHANGED failed

EndObject ==
  /\ pc = "section" /\ pending = <<>>
  /\ pc' = "object"
  /\ UNCHANGED <<processor, current, freed, declVars, fileVars, statements, placeVars, failed,
                 output>>

\* The end of an output section that names no segment: memorize(NULL).
DropSection ==
  /\ pc = "inputs"
  /\ pc' = "sections"
  /\ dropped' = dropped \cup SeqRange(scnArray)
  /\ UNCHANGED <<processor, current, freed, declVars, fileVars, statements, segment, todo, outs,
                 where, addr, failed, output>>

\* The end of an output section for segment n: memorize() selects the output
\* section, if it has input sections, and starts its loop over them. It ignores
\* the result of outfile_select_section, so after the redefinition error the
\* loop fills the newest output section.
EndSection(name, type, n) ==
  /\ pc = "inputs"
  /\ IF SegmentOf(n) = NoBlock \/ scnArray = <<>>
     THEN /\ pc' = "sections"
          /\ failed' = (failed \/ SegmentOf(n) = NoBlock)
          /\ UNCHANGED <<segment, todo, outs>>
     ELSE /\ pc' = "place"
          /\ segment' = SegmentOf(n)
          /\ todo' = scnArray
          /\ IF \E i \in DOMAIN outs : outs[i].name = name
             THEN failed' = TRUE /\ UNCHANGED outs
             ELSE /\ outs' = <<[name |-> name, type |-> type, space |-> None,
                                addr |-> 0, offset |-> 0, data |-> <<>>]>> \o outs
                  /\ UNCHANGED failed
  /\ UNCHANGED <<processor, current, freed, declVars, fileVars, statements, dropped, where, addr,
                 output>>

----------------------------------------------------------------------------
(* outfile_memorize_section, once for each section of the statement. *)

\* The output section after an input section without data has named its type,
\* space and address.
Header(out, s, a) ==
  IF out.space = None
  THEN [out EXCEPT !.type = Hdr[s].type, !.space = Hdr[s].space, !.addr = a]
  ELSE out

\* The output section with n more words of section s, or of fill.
Extend(out, s, n, piece) ==
  [out EXCEPT !.offset = @ + n,
              !.data = Append(@, [off |-> out.offset * EntSize[Hdr[s].space],
                                  size |-> n * EntSize[Hdr[s].space],
                                  section |-> piece])]

\* Mutant of Aligned: no fill.
AlignedMutant(out, s, pad) == out

\* Alignment moves an output section without data and fills one with data.
Aligned(out, s, pad) ==
  IF out.space = None \/ pad = 0 THEN out ELSE Extend(out, s, pad, None)

\* Mutants of start and end: the beginning of the block for each section, and an
\* end that is one word too far.
startMutant == DeclOf(segment).start
endMutant == DeclOf(segment).end + 1

\* The section memorize() is at, where its block is free, the words of
\* alignment the section asks for and the last word of the block.
section == Head(todo)
start == startUsed[segment]
pad == Padding(start, Hdr[section].align)
end == DeclOf(segment).end

TypeMatches == outs[1].space = None \/ outs[1].type = Hdr[section].type

PadFits == pad = 0 \/ start + pad - 1 <= end

Memorize ==
  /\ pc = "place" /\ todo # <<>>
  /\ todo' = Tail(todo)
  /\ UNCHANGED <<pc, processor, current, freed, memory, fileVars, statements, segment, dropped,
                 output>>

RejectType ==
  /\ Memorize
  /\ ~ TypeMatches
  /\ failed' = TRUE
  /\ UNCHANGED <<startUsed, outs, where, addr>>

RejectAlignment ==
  /\ Memorize
  /\ TypeMatches /\ ~ PadFits
  /\ failed' = TRUE
  /\ outs' = [outs EXCEPT ![1] = Header(@, section, start)]
  /\ UNCHANGED <<startUsed, where, addr>>

\* The alignment that was already made stays.
RejectSize ==
  /\ Memorize
  /\ TypeMatches /\ PadFits
  /\ start + pad + Hdr[section].size > end + 1
  /\ failed' = TRUE
  /\ startUsed' = [startUsed EXCEPT ![segment] = start + pad]
  /\ outs' = [outs EXCEPT ![1] =
       Header(Aligned(@, section, pad), section, start + pad)]
  /\ UNCHANGED <<where, addr>>

PlaceSection ==
  /\ Memorize
  /\ TypeMatches /\ PadFits
  /\ start + pad + Hdr[section].size <= end + 1
  /\ startUsed' = [startUsed EXCEPT ![segment] = start + pad + Hdr[section].size]
  /\ outs' = [outs EXCEPT ![1] =
       Extend(Header(Aligned(@, section, pad), section, start + pad),
              section, Hdr[section].size, section)]
  /\ where' = [where EXCEPT ![section] = segment]
  /\ addr' = [addr EXCEPT ![section] = start + pad]
  /\ UNCHANGED failed

EndMemorize ==
  /\ pc = "place" /\ todo = <<>>
  /\ pc' = "sections"
  /\ segment' = NoBlock
  /\ UNCHANGED <<processor, current, freed, declVars, fileVars, statements, todo, dropped, outs,
                 where, addr, failed, output>>

----------------------------------------------------------------------------
(* The end of the link. *)

Loadable == UNION {SeqRange(SectionsOf[o]) : o \in objects}

\* Mutant of EndProcessor: fixup_symbols does not look at SHF_REFERENCED.
EndProcessorMutant(relocationErrors) ==
  /\ pc = "sections"
  /\ pc' = "top" /\ current' = 0
  /\ failed' = (failed \/ relocationErrors)
  /\ output' = IF failed' THEN "removed" ELSE "written"
  /\ UNCHANGED <<processor, freed, declVars, fileVars, statements, placeVars>>

\* objects_link and exec_close: fixup_symbols reports the sections no statement
\* referenced, relocate may report errors of its own, and the executable of a
\* link with errors is removed.
EndProcessor(relocationErrors) ==
  /\ pc = "sections"
  /\ pc' = "top" /\ current' = 0
  /\ failed' = (failed \/ ~ Loadable \subseteq referenced \/ relocationErrors)
  /\ output' = IF failed' THEN "removed" ELSE "written"
  /\ UNCHANGED <<processor, freed, declVars, fileVars, statements, placeVars>>

\* yyparse returns at the end of the LDF, or early on YYABORT.
EndParse ==
  /\ Parsing
  /\ pc' = "done"
  /\ failed' = (failed \/ pc # "top")
  /\ UNCHANGED <<processor, current, freed, declVars, fileVars, statements, placeVars, output>>

\* description: error.  The parser drops what it has begun and goes on with the
\* next element of the description, in the memory list it was at.  The name of a
\* memory block or a section that it had read is freed, but not forgotten, and
\* freed again at the next error.
SyntaxError(named) ==
  /\ Parsing
  /\ pc \in {"inputs", "files"} => named
  /\ pc' = IF freed THEN "undefined" ELSE "top"
  /\ freed' = named
  /\ failed' = TRUE
  /\ UNCHANGED <<processor, current, declVars, fileVars, statements, placeVars,
                 output>>

\* The next name, and the end of the next element: assert( dup_name == NULL ).
NameAssertion ==
  /\ pc \in {"top", "memory"} /\ freed
  /\ pc' = "aborted"
  /\ UNCHANGED <<processor, current, freed, declVars, fileVars, statements,
                 placeVars, failed, output>>

Stopped ==
  /\ pc \in {"done", "undefined", "aborted"}
  /\ UNCHANGED vars

----------------------------------------------------------------------------

Init ==
  /\ pc = "top" /\ processor = 0 /\ statements = 0
  /\ current = 0 /\ freed = FALSE
  /\ memory = [l \in MemList |-> {}]
  /\ startUsed = [b \in Block |-> 0]
  /\ objects = {} /\ referenced = {} /\ labels = {} /\ dropped = {}
  /\ linkArray = <<>> /\ pending = <<>> /\ scnArray = <<>> /\ todo = <<>>
  /\ segment = NoBlock /\ outs = <<>>
  /\ where = [s \in Section |-> NoBlock]
  /\ addr = [s \in Section |-> 0]
  /\ failed = FALSE /\ output = "absent"

Statement ==
  \/ \E d \in BlockDecl : AddMemoryBlock(d)
  \/ BeginProcessor
  \/ BeginSection
  \/ BeginInputs
  \/ \E f \in FileName : AddOneObject(f)
  \/ \E names \in SUBSET Label : AddObjectSections(names)
  \/ DropSection
  \/ \E name \in OutName, type \in SecType, n \in BlockName \cup {None} :
       EndSection(name, type, n)
  \/ \E e \in BOOLEAN : EndProcessor(e)
  \/ EndParse
  \/ \E named \in BOOLEAN : SyntaxError(named)
  \/ NameAssertion

Loop ==
  \/ NextObject \/ SkipSection \/ RefuseSection \/ AddSection \/ EndObject
  \/ PlaceSection \/ RejectType \/ RejectAlignment \/ RejectSize
  \/ EndMemorize

Next == Statement \/ Loop \/ Stopped

Spec == Init /\ [][Next]_vars

----------------------------------------------------------------------------
(* Properties. *)

\* Every variable has its type; addresses and lengths are never negative.
TypeOK ==
  /\ pc \in {"top", "memory", "sections", "inputs", "files", "object", "section",
             "place", "done", "undefined", "aborted"}
  /\ processor \in MemList /\ current \in MemList /\ freed \in BOOLEAN
  /\ memory \in [MemList -> SUBSET BlockDecl]
  /\ startUsed \in [Block -> Nat]
  /\ objects \subseteq Object
  /\ linkArray \in Seq(Object)
  /\ pending \in Seq(Section)
  /\ labels \subseteq Label
  /\ referenced \subseteq Section
  /\ scnArray \in Seq(Section)
  /\ statements \in 0 .. MaxStatements
  /\ segment \in Block \cup {NoBlock}
  /\ todo \in Seq(Section)
  /\ dropped \subseteq Section
  /\ outs \in Seq(OutSection)
  /\ where \in [Section -> Block \cup {NoBlock}]
  /\ addr \in [Section -> Nat]
  /\ failed \in BOOLEAN
  /\ output \in {"absent", "truncated", "written", "removed"}

\* An input section takes the words from its address on.
Overlap(s, t) ==
  /\ addr[s] < addr[t] + Hdr[t].size
  /\ addr[t] < addr[s] + Hdr[s].size

\* memorize(): two input sections placed in one memory block share no word of
\* it, whatever the LDF says and whatever errors were reported before.
DisjointInBlock ==
  \A s, t \in Section :
    s # t /\ Placed(s) /\ where[s] = where[t] => ~ Overlap(s, t)

\* memorize(): a placed section lies in a declared block, between its START and
\* its END, and its address has the alignment the assembler asked for.
InsideBlock ==
  \A s \in Section : Placed(s) =>
    \E d \in memory[where[s][1]] :
      /\ d.name = where[s][2]
      /\ d.start <= addr[s] /\ addr[s] + Hdr[s].size <= d.end + 1
      /\ \E k \in 0 .. addr[s] : addr[s] = k * Hdr[s].align

\* outfile_memorize_section: as long as no error was reported, the pieces of an
\* output section whose input sections have one word size follow one another in
\* the file, and each input section is as far into the file as its address is
\* beyond the address of the output section: loading the output section at its
\* address puts every input section where the symbols say it is.
FileMatchesMemory ==
  failed \/
  \A i \in DOMAIN outs :
    LET out == outs[i]
        data == out.data
        bytes == EntSize[out.space]
    IN (\A j \in DOMAIN data :
          data[j].section # None => Hdr[data[j].section].space = out.space)
       => \A j \in DOMAIN data :
            /\ data[j].off + data[j].size =
                 IF j = Len(data) THEN out.offset * bytes ELSE data[j + 1].off
            /\ data[j].section # None =>
                 data[j].off = (addr[data[j].section] - out.addr) * bytes

\* exec_close: an executable is left on disk only when every input section of
\* every open object file was placed, or belongs to an output section whose
\* statement named no memory segment.
WrittenIsComplete ==
  output = "written" => \A s \in Loadable \ dropped : Placed(s)

\* exec_close: in an executable left on disk two sections of one memory space
\* have no word in common, provided the LDF declared no block strictly inside or
\* around another one, which add_memory_block does not report, and the blocks of
\* the processor keep out of the global ones, which it does not compare.
Surrounds(d, e) == d.space = e.space /\ d.start < e.start /\ e.end < d.end
WrittenIsDisjoint ==
  (/\ output = "written"
   /\ \A l \in MemList : \A d, e \in memory[l] : ~ Surrounds(d, e))
  => \A s, t \in Section :
       /\ s # t /\ Placed(s) /\ Placed(t) /\ where[s][1] = where[t][1]
       /\ DeclOf(where[s]).space = DeclOf(where[t]).space
       => ~ Overlap(s, t)

\* sh_addr is assigned once: symbols and relocations are computed from it after
\* all statements were parsed, so a section may never move.
AddressIsFinal ==
  [][\A s \in Section :
       Placed(s) => where'[s] = where[s] /\ addr'[s] = addr[s]]_vars
=============================================================================
