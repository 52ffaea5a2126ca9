-------------------------------- MODULE Link --------------------------------
(***************************************************************************)
(* ld21 making an executable file of object files (ld21/execfile.c,        *)
(* ld21-grammar.y): for each PROCESSOR of the description it opens the     *)
(* objects that are named, gives sections an address, adds the addresses   *)
(* to the symbols, finds global symbols by their names, and puts values    *)
(* into the words that have relocations.                                   *)
(*                                                                         *)
(* Placement models how addresses are chosen; here they are any.  Relocation *)
(* expressions of several terms are in Expression.                         *)
(***************************************************************************)
EXTENDS Fixup

CONSTANT
  \* What ld21 is run on.  A job has a machine; files, in the order of their
  \* names; uses, for each PROCESSOR the files it names, in order; addresses,
  \* where a section may be placed.  A file exists or does not, is for a
  \* machine, and has sections (the words of each), symbols and relocations.
  \* A symbol has a name ([is, upper], the case apart), a section (0 when it is
  \* undefined), a value and a size, and is global or not.  A relocation has
  \* its section and word, type, symbol (0 for none), kind and addend.
  Jobs

Machine == {"218X", "219X"}
SymbolEntry ==
  [name : [is : STRING, upper : BOOLEAN], section : Nat, value : Nat, size : Nat,
   global : BOOLEAN]
RelocationEntry ==
  [section : Nat, word : Nat \ {0}, type : STRING, symbol : Nat,
   kind : {"SYMBOL", "LENGTH", "PAGE", "ADDRESS"}, addend : Int]
File ==
  [exists : BOOLEAN, machine : Machine, sections : Seq(Seq(SUBSET (0 .. 23))),
   symbols : Seq(SymbolEntry), relocations : Seq(RelocationEntry)]

\* The words that a relocation covers, and the types of a machine.
Covered(r) == r.word .. r.word - 1 + RelocatedWords(r.type)
Types(machine) == (DOMAIN Constants(machine) \ {"REL_IF"}) \cup {"YYCCBO"}

\* An instruction that computes and does nothing else.  The others with a function
\* of the ALU, NONE = and those that move data as well, have more of their own where
\* YY, CC and BO are put.
Computes(word) == word \cap (19 .. 23) = {21}

\* What as21 leaves in the first word that a relocation covers: a function that takes a
\* constant, with no constant if it only computes, and the operation code of a
\* relative jump.
LeftOpen(type, word) ==
  /\ type = "YYCCBO" =>
       /\ \E amf \in AluFunctions : word \cap AMF_MASK = AMF(amf)
       /\ Computes(word) => word \cap {4, 5, 6, 7, 11, 12} = {}
  /\ type = "REL" => word \cap (18 .. 23) \in {{19, 20}, {18, 19, 20}}

ASSUME JobsAssumption ==
  \A job \in Jobs :
    /\ job \in [machine : Machine, files : Seq(File), uses : Seq(Seq(Nat)),
                 addresses : SUBSET Nat]
    /\ job.uses # << >>
    /\ \A p \in DOMAIN job.uses : \A i \in DOMAIN job.uses[p] :
         job.uses[p][i] \in DOMAIN job.files
    /\ \A f \in DOMAIN job.files :
         LET file == job.files[f]
             relocations == file.relocations
         IN /\ \A i \in DOMAIN file.symbols :
                 file.symbols[i].section \in 0 .. Len(file.sections)
            /\ \A i \in DOMAIN relocations :
                 LET r == relocations[i]
                 IN /\ r.section \in DOMAIN file.sections
                    /\ Covered(r) \subseteq DOMAIN file.sections[r.section]
                    /\ r.symbol \in 0 .. Len(file.symbols)
                    /\ r.type \in Types(file.machine)
                    /\ LeftOpen(r.type, file.sections[r.section][r.word])
            /\ \A i, j \in DOMAIN relocations :
                 i # j /\ relocations[i].section = relocations[j].section =>
                   Covered(relocations[i]) \cap Covered(relocations[j]) = {}

VARIABLES
  job, pc,
  processor,   \* the PROCESSOR description that is being read
  at,          \* how far the loop has come: <<file, index>>
  objects,     \* the files that are open
  sh_addr,     \* the address of each section of each file, or None
  by,          \* the PROCESSOR that placed it, or None
  st_value,    \* the value of each symbol of each file
  code,        \* the words of each section of each file
  globals,     \* the symbol, <<file, index>>, that each global name stands for
  errors,      \* what yyerror has reported; error_count is 0 when it is empty
  kept         \* the PROCESSORs whose executable is not removed

vars == <<job, pc, processor, at, objects, sh_addr, by, st_value, code,
          globals, errors, kept>>
done == <<objects, sh_addr, by, st_value, code, globals, errors, kept>>

None == -1
Sections(f) == job.files[f].sections
Symbols(f) == job.files[f].symbols
Relocations(f) == job.files[f].relocations
\* The files of the list that are at or after f, and the first of them.
Rest(f) == {g \in objects : g >= f}
First(f) == CHOOSE g \in Rest(f) : \A h \in Rest(f) : g <= h

\* The next pass over all files; each pass of a file is at its index.
Start(label) == pc' = label /\ at' = <<1, 1>>
NextFile == at' = <<First(at[1]) + 1, 1>> /\ UNCHANGED pc
NextIndex == at' = <<First(at[1]), at[2] + 1>> /\ UNCHANGED pc

Fault(what, f, i) == [what |-> what, file |-> f, index |-> i]
-----------------------------------------------------------------------------
Init ==
  /\ job \in Jobs
  /\ pc = "open" /\ processor = 1 /\ at = <<1, 1>>
  /\ objects = {} /\ errors = {} /\ kept = {} /\ globals = << >>
  /\ sh_addr = [f \in DOMAIN job.files |-> [s \in DOMAIN Sections(f) |-> None]]
  /\ by = sh_addr
  /\ st_value = [f \in DOMAIN job.files |->
                   [i \in DOMAIN Symbols(f) |-> Symbols(f)[i].value]]
  /\ code = [f \in DOMAIN job.files |-> Sections(f)]

\* object_open: a file is opened when it is first named, if it can be.
object_open ==
  /\ pc = "open" /\ at[2] <= Len(job.uses[processor])
  /\ LET f == job.uses[processor][at[2]]
         fault == IF f \in objects THEN "none"
                  ELSE IF ~job.files[f].exists THEN "not found"
                  ELSE IF job.files[f].machine # job.machine THEN "machine"
                  ELSE "none"
     IN IF fault = "none"
          THEN objects' = objects \cup {f} /\ UNCHANGED errors
          ELSE errors' = errors \cup {Fault(fault, f, 0)} /\ UNCHANGED objects
  /\ at' = <<1, at[2] + 1>>
  /\ UNCHANGED <<job, pc, processor, sh_addr, by, st_value, code, globals,
                 kept>>

\* The section statements give sections of the files they name, which no
\* statement has had before, an address, and may leave some out.
Named(p) == {job.uses[p][i] : i \in DOMAIN job.uses[p]}
Unplaced ==
  UNION {{<<f, s>> : s \in {t \in DOMAIN Sections(f) : by[f][t] = None}} :
           f \in Named(processor) \cap objects}
PlaceSections ==
  /\ pc = "open" /\ at[2] > Len(job.uses[processor])
  /\ \E placed \in SUBSET Unplaced : \E a \in [placed -> job.addresses] :
       LET With(old, new(_, _)) ==
             [f \in DOMAIN old |-> [s \in DOMAIN old[f] |->
                IF <<f, s>> \in placed THEN new(f, s) ELSE old[f][s]]]
       IN /\ sh_addr' = With(sh_addr, LAMBDA f, s : a[<<f, s>>])
          /\ by' = With(by, LAMBDA f, s : processor)
  /\ globals' = << >>
  /\ Start("sections")
  /\ UNCHANGED <<job, processor, objects, st_value, code, errors, kept>>
-----------------------------------------------------------------------------
(* fixup_symbols: for each file, its sections and then its symbols.        *)

CheckSections ==
  /\ pc = "sections" /\ Rest(at[1]) # {}
  /\ LET f == First(at[1])
     IN /\ errors' = errors \cup {Fault("not referenced", f, s) :
                        s \in {t \in DOMAIN Sections(f) : by[f][t] = None}}
        /\ pc' = "symbols" /\ at' = <<f, 1>>
  /\ UNCHANGED <<job, processor, objects, sh_addr, by, st_value, code, globals,
                 kept>>

\* The address of a section that has none is 0.
Address(f, s) == IF sh_addr[f][s] = None THEN 0 ELSE sh_addr[f][s]

DefinedSymbol ==
  /\ pc = "symbols" /\ at[2] <= Len(Symbols(at[1]))
  /\ LET f == at[1]
         i == at[2]
         symbol == Symbols(f)[i]
     IN /\ symbol.section # 0
        /\ st_value' = [st_value EXCEPT ![f][i] =
                          @ + Address(f, symbol.section)]
        /\ CASE ~symbol.global -> UNCHANGED <<globals, errors>>
             [] symbol.global /\ symbol.name.is \notin DOMAIN globals ->
                  /\ globals' = [name \in DOMAIN globals \cup {symbol.name.is} |->
                                   IF name = symbol.name.is THEN at ELSE globals[name]]
                  /\ UNCHANGED errors
             [] OTHER ->
                  /\ errors' = errors \cup {Fault("multiply defined", f, i)}
                  /\ UNCHANGED globals
  /\ NextIndex
  /\ UNCHANGED <<job, processor, objects, sh_addr, by, code, kept>>

UndefinedSymbol ==
  /\ pc = "symbols" /\ at[2] <= Len(Symbols(at[1]))
  /\ Symbols(at[1])[at[2]].section = 0
  /\ errors' = errors \cup
       IF Symbols(at[1])[at[2]].global THEN {}
       ELSE {Fault("undefined but local", at[1], at[2])}
  /\ NextIndex
  /\ UNCHANGED <<job, processor, objects, sh_addr, by, st_value, code, globals,
                 kept>>

EndSymbols ==
  /\ pc = "symbols" /\ at[2] > Len(Symbols(at[1]))
  /\ pc' = "sections" /\ at' = <<at[1] + 1, 1>>
  /\ UNCHANGED <<job, processor, done>>

EndFixup ==
  /\ pc = "sections" /\ Rest(at[1]) = {}
  /\ Start("relocate")
  /\ UNCHANGED <<job, processor, done>>
-----------------------------------------------------------------------------
(* relocate: the relocations of each file, in order.                       *)

\* relocation_push: the symbol, of another file when this one leaves it
\* undefined, or <<>>; and what is taken of it.
Referred(f, r) ==
  IF r.symbol = 0 THEN << >>
  ELSE LET symbol == Symbols(f)[r.symbol]
       IN IF symbol.section # 0 THEN <<f, r.symbol>>
          ELSE IF symbol.name.is \in DOMAIN globals
                 THEN globals[symbol.name.is] ELSE << >>

relocation_push(f, r) ==
  LET to == Referred(f, r)
      value == st_value[to[1]][to[2]]
  IN r.addend + (IF to = << >> THEN 0
                 ELSE CASE r.kind = "SYMBOL"  -> value
                        [] r.kind = "LENGTH"  -> Symbols(to[1])[to[2]].size
                        [] r.kind = "PAGE"    -> value \div 2^16
                        [] r.kind = "ADDRESS" -> value % 2^16)

Words(f, r) ==
  [k \in 1 .. RelocatedWords(r.type) |-> code[f][r.section][r.word + k - 1]]

RelocateOne ==
  /\ pc = "relocate" /\ Rest(at[1]) # {}
  /\ at[2] <= Len(Relocations(First(at[1])))
  /\ LET f == First(at[1])
         r == Relocations(f)[at[2]]
         result == fixup_code(job.machine, r.type, relocation_push(f, r),
                              Address(f, r.section) + r.word - 1, Words(f, r))
         unresolved == IF r.symbol # 0 /\ Referred(f, r) = << >>
                         THEN {Fault("unresolved", f, at[2])} ELSE {}
     IN /\ code' = [code EXCEPT ![f][r.section] =
                      [w \in DOMAIN @ |->
                         IF w - r.word + 1 \in DOMAIN result.code
                           THEN result.code[w - r.word + 1] ELSE @[w]]]
        /\ errors' = errors \cup unresolved \cup
             (IF result.is = "error" THEN {Fault("fixup", f, at[2])} ELSE {})
        /\ IF result.is = "assert" THEN pc' = "aborted" /\ UNCHANGED at
                                   ELSE NextIndex
  /\ UNCHANGED <<job, processor, objects, sh_addr, by, st_value, globals, kept>>

EndRelocations ==
  /\ pc = "relocate" /\ Rest(at[1]) # {}
  /\ at[2] > Len(Relocations(First(at[1])))
  /\ NextFile
  /\ UNCHANGED <<job, processor, done>>

\* exec_close: the executable is removed when there has been any error, also
\* one of an earlier PROCESSOR.
exec_close ==
  /\ pc = "relocate" /\ Rest(at[1]) = {}
  /\ kept' = IF errors = {} THEN kept \cup {processor} ELSE kept
  /\ pc' = "closed" /\ at' = <<1, 1>>
  /\ UNCHANGED <<job, processor, objects, sh_addr, by, st_value, code, globals,
                 errors>>

NextProcessor ==
  /\ pc = "closed" /\ processor < Len(job.uses)
  /\ processor' = processor + 1
  /\ Start("open")
  /\ UNCHANGED <<job, done>>

Next ==
  \/ object_open \/ PlaceSections
  \/ CheckSections \/ DefinedSymbol \/ UndefinedSymbol \/ EndSymbols \/ EndFixup
  \/ RelocateOne \/ EndRelocations \/ exec_close \/ NextProcessor

Spec == Init /\ [][Next]_vars
-----------------------------------------------------------------------------
(* What a linked file has to be.  New files are those that no earlier      *)
(* PROCESSOR has named: what is said of others is below.                   *)

New == Named(processor) \ UNION {Named(p) : p \in 1 .. processor - 1}

\* The symbols a relocation of file f may mean: the one it names, or the
\* definitions of that name in the files that are open.
Definitions(name) ==
  UNION {{<<f, i>> : i \in {j \in DOMAIN Symbols(f) :
                              LET s == Symbols(f)[j]
                              IN s.global /\ s.section # 0 /\ s.name.is = name.is}} :
           f \in objects}
Meant(f, r) ==
  IF Symbols(f)[r.symbol].section # 0 THEN {<<f, r.symbol>>}
  ELSE Definitions(Symbols(f)[r.symbol].name)
IsNew(f, r) ==
  /\ f \in New /\ by[f][r.section] = processor
  /\ r.symbol # 0 => \A d \in Meant(f, r) :
       d[1] \in New /\ by[d[1]][Symbols(d[1])[d[2]].section] = processor

\* The number a relocation stands for: the symbol is where its section is.
MeantNumber(f, r) ==
  LET d == CHOOSE e \in Meant(f, r) : TRUE
      symbol == Symbols(d[1])[d[2]]
      value == sh_addr[d[1]][symbol.section] + symbol.value
  IN (IF r.symbol = 0 THEN 0
      ELSE CASE r.kind = "SYMBOL"  -> value
             [] r.kind = "LENGTH"  -> symbol.size
             [] r.kind = "PAGE"    -> value \div 2^16
             [] r.kind = "ADDRESS" -> value % 2^16)
     + r.addend
     - (IF r.type \in {"DO", "REL"} THEN sh_addr[f][r.section] + r.word - 1
        ELSE 0)

Before(f, r) ==
  [k \in 1 .. RelocatedWords(r.type) |-> Sections(f)[r.section][r.word + k - 1]]
Function(word) == CHOOSE f \in 0 .. 31 : word \cap AMF_MASK = AMF(f)

\* The entry of as21's tables for the instruction of a relocation.
TypeOf(f, r) ==
  IF r.type = "REL" /\ {19, 20} = Before(f, r)[1] \cap (18 .. 23)
    THEN "REL_IF" ELSE r.type
EntryOf(f, r) == Constants(job.machine)[TypeOf(f, r)]

\* Whether the place of a constant of the ALU has nothing else in it.
HasRoom(f, r) ==
  r.type \in {"YYCCBO", "YYCCBO_BITNO"} => Computes(Before(f, r)[1])

\* What as21's tables give for the number, when it knows it itself, and whether it
\* takes it.  Where there is no room it takes what needs no BO, as 0 does; of a 218X
\* also others for a function with a move of data, and spoils the move.
WrittenByAs21(f, r, number) ==
  LET old == Before(f, r)
  IN IF r.type = "YYCCBO"
       THEN <<(old[1] \ AMF_MASK) \cup AluConstant(Function(old[1]), number)>>
       ELSE [w \in DOMAIN old |->
               (IF r.type \in DOMAIN emit THEN {} ELSE old[w])
                 \cup FieldBits(number, EntryOf(f, r).fields[w])]
TakenByAs21(f, r, number) ==
  IF r.type = "YYCCBO"
    THEN LET constant == AluConstant(Function(Before(f, r)[1]), number)
         IN constant # {} /\ (HasRoom(f, r) \/ constant \cap BO_MINUS = {})
    ELSE number \in EntryOf(f, r).range

Linked == pc = "closed" /\ processor \in kept
AllRelocations ==
  UNION {{<<f, i>> : i \in DOMAIN Relocations(f)} : f \in objects}

\* The words of an executable file are those of the object files, and where
\* there is a relocation with what as21's tables give for the number, with the
\* address of the symbol's section that the executable has (execfile.c, fixup.c,
\* and the grammars of as21).
WordIsLinked ==
  Linked => \A f \in New : \A s \in DOMAIN Sections(f) :
    /\ \A i \in DOMAIN Relocations(f) :
         LET r == Relocations(f)[i]
         IN IsNew(f, r) => Words(f, r) = WrittenByAs21(f, r, MeantNumber(f, r))
    /\ \A w \in DOMAIN Sections(f)[s] :
         \/ code[f][s][w] = Sections(f)[s][w]
         \/ \E i \in DOMAIN Relocations(f) :
              LET r == Relocations(f)[i]
              IN r.section = s /\ w \in Covered(r)

\* Types where ld21 and as21 do not take the same numbers.
Different == {"DATADM", "DATAPM", "DATA24", "DO", "LONG", "DM16",
              "REL_IF"}

\* The first PROCESSOR of a description has its executable kept exactly when
\* all files can be read, all their sections are placed, every name has one
\* definition, and each number is one that as21 takes (yyerror, error_count and
\* exec_close).  The last is said of files without a relocation of a type where the
\* two take different numbers, and without a constant of the ALU in an instruction
\* that has no room for it: as21 refuses most of those that it knows
\* (as21-grammar.y:685, as219x-grammar.y:768, 3127), ld21 takes them.
ErrorIsTold ==
  pc \in {"closed", "aborted"} /\ processor = 1 =>
    LET good == objects = Named(1)
          /\ \A f \in objects :
               /\ \A s \in DOMAIN Sections(f) : by[f][s] # None
               /\ \A i \in DOMAIN Symbols(f) :
                    LET symbol == Symbols(f)[i]
                    IN IF symbol.global
                         THEN \A d, e \in Definitions(symbol.name) : d = e
                         ELSE symbol.section # 0
        known == \A x \in AllRelocations :
          LET r == Relocations(x[1])[x[2]]
          IN r.symbol = 0 \/ Meant(x[1], r) # {}
        Fits(x) == LET r == Relocations(x[1])[x[2]]
                   IN TakenByAs21(x[1], r, MeantNumber(x[1], r))
        told == \A x \in AllRelocations :
                  LET r == Relocations(x[1])[x[2]]
                  IN TypeOf(x[1], r) \notin Different /\ HasRoom(x[1], r)
    IN /\ kept = {1} => good /\ known
       /\ told /\ good /\ known =>
            (kept = {1} <=> \A x \in AllRelocations : Fits(x))

\* What the ALU does with a constant: YY, CC and BO say a number, and some
\* functions are others with another number.
Yop(word) ==
  LET bit == CHOOSE b \in 0 .. 15 :
               FieldBits(b, BITNO_TO_YYCC) = word \cap {6, 7, 11, 12}
  IN CASE word \cap BO_MINUS = {} -> 0
       [] word \cap BO_MINUS = BO_PLUS -> 2^bit
       [] OTHER -> 65535 - 2^bit
Operation(amf, number) ==
  LET Is(what, n) == <<what, n % 65536>>
  IN CASE amf = \h10 -> Is(\h10, number)
       [] amf = \h18 -> Is(\h10, number - 1)
       [] amf = \h11 -> Is(\h10, number + 1)
       [] amf = \h13 -> Is(\h13, number)
       [] amf = \h17 -> Is(\h13, -number)
       [] OTHER -> Is(amf, number)

\* An instruction of the ALU computes with the constant that the source gives,
\* whichever function and number are found to reach it.  Two numbers are left
\* out: check_yyccbo takes -1 and 65535 (all bits set) as if one bit were clear.
\* So are instructions without room, of which the constant spoils the rest.
ConstantIsMeant ==
  Linked => \A x \in AllRelocations :
    LET f == x[1]
        r == Relocations(f)[x[2]]
        number == MeantNumber(f, r)
        amf == Function(Before(f, r)[1])
        new == code[f][r.section][r.word]
    IN r.type = "YYCCBO" /\ IsNew(f, r) /\ HasRoom(f, r) /\ number \in Both(16)
         /\ number \notin {-1, 65535}
         => Operation(Function(new), Yop(new)) = Operation(amf, number)

\* The linker's assertions hold: "Unrecognized ALU MAC Function for YYCCBO"
\* (fixup.c:321, 670) and the operation code of a relative jump (fixup.c:494).
FixupAssertionsHold == pc # "aborted"
=============================================================================
