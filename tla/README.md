# A TLA+ development of open21xx

open21xx is a set of tools for the ADSP-218x and ADSP-219x signal processors: an
assembler (`as218x`, `as219x`), a linker (`ld21`), a program that loads an
executable into an evaluation kit over a serial line (`ez21`) and a dump program
(`elfdump`). This directory models the parts of them that keep state and make
decisions, checks the models with TLC on small instances and proves with TLAPS, for
instances of every size, theorems about placement, expressions, the object file that an
assembler source makes and its writing, the preprocessor, the linker's arrays, and the
loading of a kit. Paths below are relative to `src/`.

## 1. Inventory

The programs are single-threaded. What makes them hard is not preemption but order:
the action of each grammar rule changes global state that later rules, later passes
or another program read, so a wrong result needs a sequence of legal statements.
`ez21` is the exception, as it shares its work with the monitor of the kit.

| component | state | operations | interacts with | what makes it correct |
|---|---|---|---|---|
| placing sections (`ld21/ld21-grammar.y`, `dspmem.c`, `execfile.c`, `libas21/outfile.c`) | memory blocks with `start_used`, open objects, `SHF_REFERENCED`, list of files and of sections, output sections | one action per LDF statement; `add_object_sections`, `memorize`, `outfile_memorize_section`, `exec_close` | arrays, output file | no word given away twice; sections inside their block and aligned; the file agrees with memory; nothing lost without an error; addresses final |
| expressions (`as21/expression.c`, the expression rules of both grammars, `ld21/execfile.c`) | bison's operands, relocations, linker stack | fold, push, `unary_op`, `binary_op`, end of an initializer; `relocate`, `relocation_expression` | object file | the linked value is that of the expression as written; the stack is balanced and large enough; each location is fixed once |
| growable arrays (`ld21/array.c`) | chain of pages, index | `array_alloc`, `array_update`, `array_clear`, the index loops | every list of the linker | the array is a list; its assertions hold |
| symbol tree (`libas21/bbtree.c`) | nodes with links and colours | insert, search, remove, walks | symbol tables of as21, macros, globals of ld21 | a search finds what is in the tree; red-black; fix-ups end |
| download, boot and upload (`ez21/ez21.c`) | pending section, buffer, serial line; the kit's memory | alive, download, go, upload; the boot of a 219x; the kit's answers | a line that may lose, damage or delay bytes | a started program is as loaded; the monitor is not overwritten; faults of uploaded data are seen; it always ends |
| object file (`as21/as21-grammar.y`, `symbol.c`, `libas21/outfile.c`) | sections with pages and location counter, symbols, relocations, `.VAR` state | labels, `.SECTION`, `.PREVIOUS`, `.ALIGN`, `.VAR`, `.EXTERN`, `.GLOBAL`, words | output file | labels and relocations name the word they stand before once pages are laid out; alignment is met; variables are disjoint |
| ELF writing (`libas21/outfile.c` 369-708) | two cursors over the pages of the symbol table, the table of exchanges, relocations, offsets | `outfile_sort_globals`, `outfile_layout`, `outfile_term` | as21, ld21 | local symbols come first; renumbering keeps what relocations name; parts of the file do not overlap |
| symbol resolution, fix-up (`ld21/execfile.c` 160-275, 581-968, `fixup.c`) | open objects, tree of globals, symbol values, words, error count | `object_open`, `fixup_symbols`, `relocate`, the field encoders, `exec_close` | placement, expressions, encoding | a reference gets the one definition; a linked word is the one that the assembler would have written; what cannot be is told |
| instruction encoding (`as21/*grammar*`, `keytable*.c`) | - | constants in words, their limits, relocations in their place | fix-up | both programs agree about each field |
| preprocessor (`as21/cpp.c`, `pp-grammar.y`, `as21-lex.l`) | stacks of files, conditions and macro expansions | directives, `push_file`, `pop_file`, expansion | lexer, listing | conditions and files nest; skipped text has no effect; line numbers are right; a macro is replaced by what it means, and expansion ends |
| LDF names and macros (`ld21/macro.c`, `namelist.c`) | lists of names | `add_macro`, `find_macro` | placement | a macro is what was defined |
| map file, listing (`ld21/execfile.c`, `as21/listing.c`) | - | formatting | resolution, output file | - |
| lexers, `elfdump`, `verify21`, `unittest`, `dllist.c`, headers | - | - | - | - |

## 2. Modules

| module | stands for | state | refines / extends |
|---|---|---|---|
| `Placement` | the linker from the first LDF statement to the executable or its removal | 19 variables, listed in the module | |
| `Expression` | assembler folding and relocations composed with the linker's stack machine | source, operands, relocations, stack, values | |
| `ArrayList` | what `array.h` promises: a list | contents, walk | abstract |
| `Array` | `array.c`, page by page, with the loops that use it | pages, index, loop | implements `ArrayList` |
| `BBTree` | `bbtree.c`, pointer by pointer | links, colours, fix-up loop | |
| `Ez21` | `ez21` and a kit, with the monitor of a 218x or the boot loader of a 219x, on a faulty line | host, line, kit | |
| `Assembly` | the statements of an assembler source on sections, symbols and relocations | sections with pages, symbols, `.VAR` state | |
| `ReadBuf` | `cpp_read_buf`: how a file becomes characters for the lexer | place in the file, buffer, comment, quote | |
| `Preprocessor` | directives, included and data files, line numbers, the sources of a command | stacks of files and conditions, lexer mode | |
| `Macros` | `#define`, `#undef` and the expansion of macros, token by token | stack of texts, definitions, the call | |
| `ObjectFile` | the end of `outfile.c`: sorting of symbols, renumbering, layout | cursors over pages, exchanges, parts of the file | |
| `Encoding` | the constant field of each instruction, as the two grammars of as21 write it | none: operators | |
| `Fixup` | `fixup.c`: the same fields, as ld21 fills them | none: operators | extends `Encoding` |
| `Link` | ld21 from the opening of objects to the executable, for each PROCESSOR | objects, symbols, globals, words, errors | extends `Fixup` |
| `Placement_proof`, `Expression_proof`, `Array_proof`, `Ez21_proof`, `Assembly_proof`, `Preprocessor_proof`, `ObjectFile_proof`, `Link_proof` | the invariants and theorems of section 4 | | each extends the module it is about, and TLAPS |
| `MC*` | values for the constants | | extend the module they check |

How the models follow the code:

* **Placement.** `pc` is the kind of LDF statement the parser accepts next, or the
  loop that is running. `AddMemoryBlock` is `add_memory_block`, `AddOneObject`
  `add_one_object`, `AddObjectSections`..`EndObject` the loops of
  `add_object_sections`, `EndSection` with the loop `PlaceSection`, `RejectType`,
  `RejectAlignment`, `RejectSize`, `EndMemorize` the end of an output section
  (`memorize`, `outfile_select_section`, `outfile_memorize_section`, in the order
  they run), `EndProcessor` `exec_close`. Addresses and lengths are words. The
  lists of files and sections are sequences here: `Array` shows that they may be,
  except in one case, which is the state `"undefined"` here too: the files' loop
  over an empty list when the array has pages of earlier use. A syntax error
  (`SyntaxError`) drops the statement it is in, and the parser goes on with the next
  element of the description; `freed` says that the name it had read is freed but not
  forgotten, and `current` is the memory list that it was at.
* **Expression.** An operand keeps the value that the expression has when it is
  computed as it is written, next to what the assembler knows of it; it is history
  that only the properties read. Numbers stay below 2^12, so that no `int`
  overflows; a quotient by zero gives the code's INT_MAX, 0 or INT_MIN.
* **Array.** A page is a function from slots to elements, `Junk` where nothing was
  stored; the null pointer is page 0. `array_alloc` and `array_update` are one
  step when their caller stores one element, and a batch when `add_object_sections`
  stores several.
* **BBTree.** A node is its key: no caller allows duplicates. An iteration of a
  fix-up loop is a step; left and right are a parameter.
* **Ez21.** Commands are records and bytes have few values; check sums are computed
  modulo the word size, as in the code. `Receive` is `received`, which ends with
  fewer bytes when a second passes without one, at any time as the kit may be
  late. The monitor is what the commands of `ez21` expect of it (external), and so is
  the boot loader of a 219x, which starts the program when it has the final blocks of
  both memories. A block is one command on the line: `ez21` reads no answer between its
  header and its data. `send_219x_block` has no `return`, so that after every block the
  boot goes on or stops (`SendBlock`). The last section of each memory is passed over
  (`SkipFinal`) and sent after all others (`FinalBlock`). The line may damage any byte of a
  command or an answer: a command whose name is damaged is not understood (`LoseCommand`), one
  with another address or memory is carried out there, which `misled` remembers. A range of an upload that
  does not fit the buffer of `BufferSize` bytes is refused (`RefuseUpload`).
* **Assembly.** A word is counted, not stored: a symbol and a relocation have,
  as history, the number of the word they stand before, and `Position` is where
  `create_elf_data` puts a word. An alignment that no power of two reaches is an error
  (`MaxBy` is the largest that a source asks for). The first error ends a behaviour.
* **ReadBuf.** An iteration of the loop over characters is a step. Between two calls the
  lexer matches what it was given, but for a token that the next character may go on with: flex holds
  it, and asks for more (`Lex`, `Tokens`). The lines that the reader counts in that call come before the
  held token is matched, and `numbers` keeps the number that each token is told under. Or a whole
  included file is read (`Include`), of which only the loss of the open quote
  matters. `Stripped` is the reference: the file read once, without buffers.
* **Preprocessor.** A line is a step; the state of the lexer is `"on"` or
  `"gobble"`. A condition has the address that `malloc` gives it, which may be one that
  was freed. `cpp_pop_file` is a loop (`BeginPop`, `PopCondition`, `EndPop`). What is behind a
  directive on its line is a step of its own: garbage, which is told when the action was
  done (`Garbage`), or the end of an included file (`EndInDirective`). Then the file is popped while
  the directive is parsed, and the parser goes on in the file below (`Joined*`, `Complete`). Each file has, as
  history, the conditions that it opened itself (`nest`), and `Selected` is what they
  mean together: the reference for the single stack with its three flags.
* **Macros.** A token is a step. `stack` has the texts that the lexer reads one after the
  other: `cpp_push_macro` puts one on top, `cpp_wrap` takes it away when it is empty, so that a name,
  the parenthesis after it and the arguments may come from different texts. `Meant` is the
  reference: tokens that carry the macros they come from, without a stack. In the sources no
  directive stands between a name and the end of its call, and no double quotes, which
  `collect_text` joins. `Meant` leaves open what `#` makes of an argument that names a macro or
  has a string, and which quotes it puts around it: the code and the manual disagree (section 5).
* **ObjectFile.** Each cursor is a page, a place in it and an index, as in the code; an
  iteration of the loops of `outfile_sort_globals` is a step. A symbol is named by its first index, so that
  `table` says which symbol is where and `meant` which one a relocation was made for.
  `outfile_layout` gives parts of the file away one section at a time, in the order of the
  code, and `parts` keeps them.
* **Encoding, Fixup.** A word is the set of its bits that are one, a field the bits of a number
  that go to a place. For each relocation type `Encoding` has what the assembler does with a
  constant, translated from the grammars, and `Fixup` what the linker does, translated
  from `fixup.c`; `Link` compares them.
* **Link.** One step for each object, file, symbol and relocation, in the order of the
  loops. Addresses are any of a small set: `Placement` is about which. A relocation is a
  single term: `Expression` is about several. `Computes` tells an instruction that computes and does
  nothing else from `NONE =` and from those that move data as well, whose words have other fields where
  YY, CC and BO are put (`HasRoom`).

## 3. Runs

Each run's constants are in its `.cfg` and `MC` module. Where one component has
several vocabularies of statements (`Source`, `Table`, `Executables`), the initial
state chooses one, and a run covers them all.

| run | states | shows |
|---|---|---|
| `place` | 1.6 million | `DisjointInBlock`, `InsideBlock`, `FileMatchesMemory`, `WrittenIsComplete`, `WrittenIsDisjoint`, `AddressIsFinal` |
| `expression` | 0.4 million | `LinkedValue`, `EveryLocationIsFixed`, `StackIsSound` |
| `array` | 0.1 million | `ImplementsList`, `AssertionsHold`, `OnlyEmptyIsUndefined` |
| `bbtree` | 0.2 million | `SearchFinds`, `RedBlack`, `InsertEnds` |
| `ez21` | 80 thousand | `RunsTheProgram`, `MonitorIntact`, `UploadDetectsFault`, `Ends` |
| `assembly` | 1.1 million | `LabelFindsWord`, `RelocationFindsWord`, `AlignmentIsMet`, `VariablesDisjoint` |
| `readbuf` | 0.6 million | `CommentsAreRemoved`, `NumberIsTrue` |
| `preprocessor` | 1.2 million | `SelectsWhatIsMeant`, `FirstIsOldest`, `LocationIsRight`, `ReadToEnd`, `PopEnds` |
| `macros` | 40 thousand | `ExpandsAsMeant`, `Ends` |
| `objectfile` | 0.2 million | `LocalsFirst`, `RelocationKeepsSymbol`, `PartsApart`, `IsEnded` |
| `link` | 0.2 million | `WordIsLinked`, `ErrorIsTold`, `ConstantIsMeant` |
| `link_twice` | violation | `FixupAssertionsHold`: an object that two PROCESSOR descriptions name is fixed up twice |

Why the bounds are enough:

* *place*: three sections over two object files give a first section that is moved
  to its alignment, one that is filled up to it, one of another type and word size;
  three blocks give an exact fit, a block that is too small, and an overlap; two
  statements give the reuse of an output section and of a block, and a second block
  after a first one. A third statement could only repeat one of these. A list of two files
  (`MaxFiles`) may name an object twice, two objects, or one that does not open. Each statement may end
  in a syntax error. There is one PROCESSOR (`MaxProcessors`): that objects stay open and sections
  referenced for the next one is covered by the theorems, which are about any number.
* *expression*: three leaves and two operators show every pair of operators nested
  on either side; eight nodes fill a stack of three up to the bound that
  `StackIsSound` states; two locations show where one ends.
* *array*: pages of two with five elements are empty, full, and kept over two
  clearings.
* *bbtree*: eight nodes are the fewest with which an insertion climbs and then
  rotates a subtree with children. All orders of insertion are in the run.
* *ez21*: two vectors, a shadow, words of three and two bytes; a section of each
  kind that `download_go` tells apart, among them sections that begin in the vector table and
  end behind it, one of them in the monitor; two faults, so that one may hide another, in every byte of a command and an answer. The buffer has
  room for twelve bytes: one range of the uploads is longer, and one leaves no room for its check sum. The images
  of a 219x have the last section of a memory before others, after others and without
  data, or no section of a memory.
* *assembly*: pages of two words: a variable of three words goes on to the next
  page. Nine steps hold a section, two alignments or buffers and the words
  between them. One source asks for an alignment and a buffer above the largest power of
  two.
* *readbuf*: every text of up to six characters: an escaped quote in a string with a comment
  after it takes six. With room for three characters in a buffer, each of these
  constructs is cut at every place.
* *preprocessor*: three files deep an included file includes another, or a data file,
  and the depth is exceeded; four lines are a condition, an included file, and in it a condition and its end; or a directive
  that an included file ends in, and what it meets in the file below. Two sources show what one leaves to the next.
* *macros*: two macros are the fewest that call each other; the eleven texts and six uses have
  each operator, a call of the other macro and of itself with arguments inside the text, behind
  it or missing.
* *objectfile*: seven symbols on pages of three, three and one let the cursors meet inside a
  page, at its edge and with a page between them; the layouts have sections of each kind in
  both orders.
* *link*: the numbers are the powers of two at the limits of all fields, one below and one above,
  positive and negative; the other operands of a word are all zeros or all ones, and each function of the ALU
  stands in an instruction that only computes, three of them also in `NONE =` and in instructions that move data. Two files
  with up to two symbols show each pair of definitions, in both orders, and a file in one or
  two PROCESSOR descriptions.

**Fairness.** The properties that something happens are about loops of a single
thread: `InsertEnds`, `PopEnds`, `IsEnded`, `Ends` of `Macros`, the walks of `Array`. The process runs nothing
else, so weak fairness of the loop's step says that the process is scheduled. Of
`Ez21`, only the host is fair: it never waits longer than a second for a byte. Nothing
is assumed of the kit or the line, which may be silent for ever. The statements of a
source are never fair: it may end anywhere.

**Deadlock** is checked in every run; the states in which a program has ended, or a
bound is reached, stutter by an action `Stopped` or `Done`. The exceptions are `macros` and
`link`, where a job that is done has no step; that they do not stop before is `Ends`, and in
`Link` each loop's conditions exclude each other.

## 4. Proofs

TLC checks small instances; the modules `*_proof` prove for every value of the constants.
Each has an inductive invariant, with one lemma for each action that says that it is
kept, and a theorem for each property that follows from it. The assumptions are those named in
the module of the component, and no others.

**`Placement_proof`**, for every set of object files, headers, memory blocks and
LDF statements:

* `TypeCorrect`: `Spec => []TypeOK`;
* `Disjointness`: two sections in one block share no word;
* `Containment`: a placed section is in a declared block, within its START and END,
  at a multiple of its alignment;
* `Completeness`: an executable is left only with every section that its
  statements did not drop;
* `Finality`: the block and address of a section, once assigned, never change;
* `Loading` (`FileMatchesMemory`): the pieces of an output section follow one another in the
  file, each as far into it as its address is beyond that of the output section;
* `Separation` (`WrittenIsDisjoint`): sections of different blocks share no word either, if no
  block is declared around another.

They assume of headers sizes and positive
alignments, of blocks a natural START, of words a positive size, and that the mark for
"no section" is not a section. Nothing is assumed of END: a block may end before it starts.

The argument is one inductive invariant, `IInv`. `DisjointInBlock` is not inductive:
it says nothing of the words that will be given away next. So `UsedOK` says that
`start_used` never lies before START, and `PlacedOK` that every placed section
lies below the `start_used` of its block; `memorize` places at `start_used` or above and moves it
up (`PaddingBounds`), which gives disjointness. That a section is not placed twice
comes from `ListOK`: the sections of the list are referenced, not placed and
different; it needs that `SHF_REFERENCED` is never cleared and that a placed section
has it. `Completeness` needs `Accounted`: without an error, each referenced section is in a
list, placed, or belongs to a statement without a segment. Each is shown kept by
every action (`UsedStep` to `WrittenStep`), on top of `Base`, the types. `Loading` has an
invariant on top of it, `FilesOK`: without an error the words of the output section that is
being filled end where the free words of its block begin, once its first section has given it
an address. `Separation` needs `ApartOK`, what `add_memory_block`
checked of any two blocks, and `DiskOK`, the same of the blocks of an executable, as more blocks
may be declared after it.

**`Expression_proof`**, for every source, symbol table and size of the linker's stack: `Linked`
(`LinkedValue`), `Fixed` (`EveryLocationIsFixed`) and `Stack` (`StackIsSound`). The
symbols have values, and sections and the stack are not empty. The invariant does not follow the linker: it says
while the source is parsed what the linker will do. `Kept` has, for each relocation so far, the
stack `S` and the values `F` that the linker has when it has done that one; `Waiting` says that
the operands on bison's stack which have a relocation are the values on the linker's, in their
order. A reduction appends an operator whose operands wait on top, in the order
that the reversed operators mean. When linking begins, `S` and `F` are what the linker goes
through (`LinkOK`). For the size of the stack, `Kept` bounds it at each relocation by a third of the
nodes of the expression, above one.

**`Array_proof`**, for pages of every size: `Assertions`, `OnlyEmpty`, and `Refinement`: the initial
states and the steps of `Array` are those of `ArrayList`, or change nothing of it. `Filled` is
the invariant: element i is in slot i modulo the page size of page i divided by it, and `current`
is the last page that has one. `BatchFits` and `WalkRead` relate the index arithmetic of a batch and
of a loop to it. The fairness of `ArrayList` is part of `ImplementsList`, which TLC checks.

**`Ez21_proof`**, for every executable, image, size of memory and number of faults:
`Monitor` (`MonitorIntact`), `Runs` (`RunsTheProgram`) and `FaultIsDetected` (`UploadDetectsFault`). The sections of an executable have
whole words, share none, and those of an image end inside the memory, which is what ld21 makes of
them (`Separation` is one reason). `Base0` says that
each command on the line or in the host's hands is that of a section that `download_go`
did not reject, so that what it writes is below the monitor or in the shadow
table (`RangeIs`), unless its address was damaged on the line (`misled`), for which nothing is claimed. For `Runs`, `Progress`: as long as nothing was damaged, each section that was sent is
in the memory or in a command on its way (`SentOK`); the command that starts the
program is the last one (`GoOK`), as is the final block of data memory (`FinalOK`); a later section does
not write on an earlier one, as the shadow table is above what else may be written.
For `FaultIsDetected`, `Uploading`: `LineOK` says that the line has the command that was sent, whose length
may be damaged (`Asked`), or an answer that is the right one but for as many faults as there were (`Answered`); `HostOK`
that the memory is as it was, and `FileOK` that the file has the items before `at`. The address and the
memory of a command are excepted (`misled`): no check sum covers them, and the claim would be false of
the code. An answer to a damaged length is too short, or begins with the data that was asked for (`Begins`). An answer that lost a byte is too short. One with another
byte has another check sum (`Changed`): if d is added to a byte that counts for `Values(k)` in its word
of n bytes, the sum changes by d times `Values(k)`, which is no multiple of `Values(n)` as d is between -`Base` and
`Base` (`NoMultiple`), and a byte of the check sum itself that is another one is not what the data
sum up to (`BytesBack`). `Steps` stands for the functions that a word, a sum and a file are computed
by, from one value to the next (`StepByStep`).

**`Assembly_proof`**, for every source, size of pages and number of sections and symbols: `Labels`
(`LabelFindsWord`), `Relocations` (`RelocationFindsWord`), `Alignment` (`AlignmentIsMet`) and
`Variables` (`VariablesDisjoint`). Words have a size, pages are not empty, and the largest
alignment is at most 2^14. `Counts` says that the location counter of a section is what
`create_elf_data` will compute for the next word: the words of all pages and the gaps between them. It has to
be so for all sections, not only the current one, for `.PREVIOUS` to be right. `Found`, `Marked` and `Met` say it of the
words that symbols, relocations and alignments name. A word appended changes only the
last page (`Extends`), an alignment the gap before a last page without words (`AlignsLast`); a circular
buffer is aligned when it ends, behind its variables, so that a gap before an earlier page grows
and all words behind it move (`AlignsPage`). For the code to move exactly
the symbols and relocations that this moves, `BufferOK` says while the buffer is open that it begins on a page
of its own, and that what is in the section begins in it or ends before it (`Aside`). `Spread` is
`VariablesDisjoint` with the variable whose words are still being emitted. The gaps are sums over pages,
which TLAPS cannot reason about by induction on a property given as a parameter; each such
lemma takes the least of the counterexamples instead (`Least`).

**`Preprocessor_proof`**, for every source, depth of files and number of conditions: `Selects`
(`SelectsWhatIsMeant`), `Oldest` (`FirstIsOldest`), `Location` (`LocationIsRight`) and `Completeness`
(`ReadToEnd`). The code has one stack of conditions with three flags, the meaning is one stack for each
file. `Nested` says that there are bounds which cut the one into the others (`Bounds`), that the mark of a
file is at its bound (`Firsts`), and that the flags of a condition say what the branches of those around it
do (`Selecting`). `Lexed` relates the state of the lexer to the top of the stack.

**`ObjectFile_proof`**, for symbol tables of every length on pages of every size, every
number of relocations and every layout:

* `TypeCorrect`: `Spec => []TypeOK`, which also says that no cursor leaves its page;
* `SplitsSymbols`: when the symbols are sorted, exactly the local ones are below `sh_info`;
* `KeepsSymbols`: a renumbered relocation names the symbol it named before;
* `SeparatesParts`: no two parts of the file share a byte, nor with the headers.

They assume that pages are not empty and begin where the one before ends. Again one
`IInv` carries all. `CursorsAgree` relates the two records of each cursor, the pointer and the index:
without it the loop's test of indexes says nothing of what the pointers exchange.
`PassedIsSplit`: what is below the one cursor is local, what is above the other is global.
`SwapsTellSymbols` is what makes the renumbering right: the table of exchanges
is its own inverse, and what lies between the cursors was never exchanged, so that no symbol is
exchanged twice. `RelocationsRenumbered` splits the relocations at the one that is next.
`SeparatesParts` is by itself: each part begins at the end of the last (`Laid`), and
`OneMore` adds one.

**`Link_proof`**, for every set of object files, every LDF and all addresses:

* `FixupIsRight`: what `fixup_code` does to a word that as21 left open, for each machine,
  type and number, is what as21's own table would have done; and it refuses what as21 refuses, but for
  the types of `Different` and constants of the ALU in an instruction that has no room for them;
* `AluMeans`: the function and the YY, CC and BO that are put into an instruction of the ALU
  make it compute what was asked for;
* `InvariantHolds`, `TypesHold`: the invariant below;
* `WordsAreLinked` (`WordIsLinked`), `ConstantsAreMeant` (`ConstantIsMeant`) and `ErrorsAreTold`
  (`ErrorIsTold`);
* `AssertionsHoldFirst`: `FixupAssertionsHold` while the first PROCESSOR is linked. The run
  `link_twice` shows it violated in the second.

`JobsAssumption` says of the objects what as21 makes of them: a relocation is for words
of its section and one of the types of the machine, no two of them share a word, and the first word has the
function or the operation code that goes with the type, and, if it only computes, no constant
(`LeftOpen`). In `NONE =` and in an instruction that moves data, the bits of a constant may be anything: as21 leaves
other fields there, among them the 0x2800aa of `NONE =`. `ConstantsAreMeant` and the second half of
`ErrorsAreTold` are about words with room (`HasRoom`); `WordsAreLinked` is about all. Where as21
writes several relocations for a word, an expression, `Expression` is about what they compute.
The first half is about one word. The tables of the two programs are matched entry by entry
(`Matches8x`, `Matches9x`). A constant of the ALU is found by a chain of tries on each side; both are
sequences of ways of which the first that can be said is taken (`WaysAgree`), and what a way says
is shown by the bits of a number of 16 bits (`CheckFinds`, `YopIs`, `Operations`). The numbers
with all bits set, which `check_yyccbo` takes for others, are left out of that, and `CheckNear`
is why no way reaches one from another number.
The second half is the invariant, `IInv`. `ValuesOK`: a symbol of a file that no earlier
PROCESSOR named has the address added exactly when it was passed. `GlobalsOK`: the table of
globals has a passed definition of each name, and without an error the only one. `WordsOK`: the words
of a relocation are those of the object until it is dealt with, and then what `fixup_code` made of
them for the symbols' final values; this needs that no other relocation touches them. `ObjectsOK`,
`PlacedOK` and `FixedOK` say what follows from there being no error, `ToldOK` what follows from an
error. `WordIsLinked` alone is not inductive: it says nothing before the executable is closed.

**Only model-checked**:

* liveness, which TLAPS does not reach: `PopEnds`, `InsertEnds`, `IsEnded`, both
  `Ends`, and the fairness in `ImplementsList`;
* `ExpandsAsMeant`: `Meant` is a RECURSIVE operator, with which TLAPS has no arithmetic;
* `SearchFinds` and `RedBlack`: the shape of a tree of pointers is not a property of its nodes
  one by one, and the proof would need induction over paths for each rotation;
* `CommentsAreRemoved`, `NumberIsTrue`: not tried.

## 5. Where code and documentation disagree

One run expects a violation:

* `ld21/execfile.c:910`: `relocate` goes over every open object for each PROCESSOR, so an object that two of
  them name is fixed up twice, with symbol values that had the address added twice. `link_twice` shows
  it where the code itself objects, at the assertion of `ld21/fixup.c:321`. `WordIsLinked`
  speaks of the files that no earlier PROCESSOR named (`New`).

Seen while modelling, in the models, and excepted from or claimed by no property:

* `libas21/bbtree.c:376`: the fix-up of a removal uses nil as a node and does not
  blacken its last node. Hence `SearchFinds` and `RedBlack` speak of trees that
  lost red nodes only (`black`).
* `as21/cpp.c:322`: a `/` in a string is not kept, so that `#include "a/b"` looks for
  `ab`. `CommentsAreRemoved` speaks of files without such strings.
* `as21/cpp.c:1338`: a directive that is skipped is counted as two lines, so that
  errors after it are reported at the wrong line. `LocationIsRight` speaks of files without
  one (`miscounted`).
* `ld21/dspmem.c:72`: a block declared around another one of its space is
  accepted, despite the error for overlapping blocks, so that `WrittenIsDisjoint` has
  a precondition.
* `ez21/ez21.c:719`: what follows the vector table in its section is sent to the
  wrong address (`Straddles`), which may be one of the monitor. The linker does not make such
  sections when the LDF has a section for the vectors, as the samples do. `RunsTheProgram` and
  `MonitorIntact` speak of executables without one.
* `ez21/ez21.c:407`: the check of a download joins by "and" what "or" was meant for,
  so that a damaged byte is not reported. `RunsTheProgram` therefore
  speaks of downloads without a fault of the line; late answers are allowed.
* `libas21/outfile.c:1231`: an alignment replaces the one before it on the same page,
  where a comment says that the larger counts. `skewed` keeps such sources apart
  for the other properties.
* `as21/cpp.c:196`: an `#endif` in an included file may close a condition of the
  including one, whose pointer to it is then never cleared: at its end the loop of
  `cpp_pop_file` does not stop (`crossed`). An `#else` there changes the other file's
  condition without an error.
* `as21/cpp.c:1255`: when the includes are too deep, the line of the `#include` is
  counted for the wrong file (`miscounted`).
* `as21/cpp.c:402`: an included file makes the reader forget the open quote of the
  including one, if a buffer ended in a string (`cut`).
* `as21/as21-lex.l:234`: an unknown directive leaves the lexer where the end of its line
  is the end of the input: the rest of the source is not read (an error was
  reported).
* `as21/as21.c:217`: the object file is kept or removed before `cpp_pop_file` reports an
  `#if` that was not closed; files and conditions left after an error are still there for
  the next source of the command (`left`), where the manual says that "the assembler state
  is reset to the default state after each assembly" (`man1/as218x.1:75`).
* `as21/cpp.c:1293`, `as21/as21-lex.l:486`: an included file whose last line is a directive without a
  newline is closed while the directive is parsed, and the lexer goes on in the including file, in its
  initial state, where a newline does not end the directive. A `#define` takes the rest of that file as its text, an
  `#if` opens its condition there, an `#undef` or `#line` may be refused because of what follows,
  and another directive stops at the assertion of `cpp_preprocess`. An `#endif`, `#else` or
  `#ifdef` that needs no more is carried out in the included file, so that
  it is told what is open there. `Preprocessor` has all of it (`EndInDirective`, `Joined*`); its properties
  except what is carried out in the other file (`crossed`). An `#include` whose name is collected in
  this way is taken to be not found.
* `as21/pp-grammar.y:91`: a directive with garbage behind it is carried out and then told as an
  error (`Garbage`).
* `as21/cpp.c:230`: flex still holds the last token of a buffer when the reader counts a
  continuation or the end of a comment. A name before a continuation, or before a comment over several
  lines, is told under the number of the line where the next character is. `NumberIsTrue`
  allows for it, and claims that no other token is told late and none later than that.
* `as21/cpp.c:952`: the manual says that `#` and its parameter are macro expanded and replaced by "the double
  quoted result", with double quotes escaped (`man1/as218x.1:159`). `build_macro` puts the argument as it
  stands between single quotes, and escapes these and backslashes. `Meant` says of `#` only what both say,
  an argument in quotes if it names no macro and has no string.
* `as21/cpp.c:784`: the error for a `#` without a parameter is never given, as the lexer's
  token is another; `build_macro` then stops at an assertion (`CanBuild`, `"aborted"`).
* `as21/symbol.c:412`: a second definition of a macro is compared by the number of places and the
  text around them, so that another parameter in a place is not seen; and the text that is kept
  has no end mark, so that the same definition may be found different (`Define`).
* `libas21/util.c:97`: `check_yyccbo` takes a number with all bits set for one with one bit
  clear. `ConstantIsMeant` leaves -1 and 65535 out.
* `as21/as219x-grammar.y:3103`: the masks that move the offset of a conditional jump of a 219x do not fit
  the field, so that some known offsets are encoded as others (`REL_IF`).
* `ld21/fixup.c:200`: the linker puts YY, CC and BO into any word with a relocation `YYCCBO`. as21 makes such
  relocations also for `NONE =` (`as21/as21-grammar.y:683`, `as219x-grammar.y:766`) and for instructions that move data as
  well (`as21/as21-grammar.y:2349`, `as219x-grammar.y:3124`), whose words have other fields in these bits, and
  where, but for those that move data on a 218x, it refuses a constant that it knows. The executable
  is kept, and has the fields joined by "or". `ConstantIsMeant` and the second half of `ErrorIsTold`
  except these instructions (`HasRoom`).
* `ld21/fixup.c` and the grammars accept different numbers for seven types (`Different` in
  `Link`): a constant may be an error in as21 that ld21 takes, or the other way round.
* `ez21/ez21.c:550`: `send_219x_block` returns no value, and its caller stops when it is zero.
* `ld21/execfile.c:471`: a statement that names no segment marks its sections
  as referenced and drops them without an error (`dropped`).
* `ld21/ld21-grammar.y:114`: after a syntax error the parser goes on. The name that it had read is freed and kept, so that
  it is freed again at the next error, or an assertion fails at the next name (`"undefined"`, `"aborted"`); the
  memory list of a PROCESSOR stays current for what follows it, and an executable that was being
  made stays truncated (`output`).
* `ld21/execfile.c:432`: the loop over a list of files does not end when the list is empty and an earlier
  one was not (`"undefined"` in `Placement`, `OnlyEmptyIsUndefined` of `Array`).
* `ld21/array.c:46`: the first page of a loop is returned although the array is
  empty (`OnlyEmptyIsUndefined` says when that matters).
* `ez21/ez21.c:325`: the check sum of an upload is of the data only. When a byte of the address or the name of the
  memory in the command is damaged, the kit sends other memory with its right sum, and `ez21` writes
  it as what was asked for; likewise the address of a download. `UploadDetectsFault` and
  `MonitorIntact` except it (`misled`).
* `ez21/ez21.c:306`: a range of an upload that fits the buffer, but not with its check sum, stops at the assertion of
  `received` (`ez21.c:185`) instead of the error for a range that is too long.
* `ez21/ez21.c:165`: an upload that lost a byte ends with a failed assertion
  (`"aborted"`) instead of an error.
* `libas21/outfile.c:1268`: a relocation in a `/CIRC` buffer moves by words where it counts
  bytes (`skewed` has `"relocation"`).
* `libas21/outfile.c:963`: `.PREVIOUS` after a single `.SECTION` stops at an assertion.
* `as21/as21-grammar.y:389`: `current_space` may differ from the space of the
  section that `.SECTION` selects.
* `as21/symbol.c:201`: a label before any `.SECTION` becomes an undefined symbol of
  the object file without an error.
* `ez21/ez21.c:712`: a section that ends inside the vector table is read beyond its
  data (`"undefined"`).

## 6. Plan

The modules were written in the order of the table in section 2, from what decides where
words are (placement, expressions, the object file) to what reads and writes the text and
the file. What is left, in this order:

1. Proofs: `NumberIsTrue` of `ReadBuf`, and the shape of a `BBTree`.
2. `Link` with the addresses of `Placement` and the expressions of `Expression` instead of any
   address and one term.
3. The predefined macros and the definitions of the command line, on `Macros`.

## 7. Not modelled

The codes of registers, conditions and functions of an instruction (tables, which no other part reads),
the lexers' tables (their states are in `Preprocessor`), the
formatting of listings, maps and dumps, `elfdump` and `verify21`, which keep no state that
matters later, and option parsing. LDF macros and search directories say which files a
statement names; the models take the files. (A macro keeps the name that the grammar frees,
`ld21/ld21-grammar.y:182`: what it is found by afterwards is undefined.) The table of strings is a size in
`ObjectFile`. Of `ez21`, the headers of an uploaded file, the beep and the terminal set-up.
`dllist.c` is four pointer operations without a choice; its
lists are sequences here. Running out of host memory or disk is not modelled: the
code exits there.
