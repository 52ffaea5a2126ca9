------------------------------- MODULE MCLink -------------------------------
(* Files with one relocation of each type, for numbers at the limits of    *)
(* all fields; and two files that define and use names in every way.       *)
EXTENDS Link

FileOf(sections, symbols, relocations, machine) ==
  [exists |-> TRUE, machine |-> machine, sections |-> sections,
   symbols |-> symbols, relocations |-> relocations]
Job(machine, files, uses, addresses) ==
  [machine |-> machine, files |-> files, uses |-> uses,
   addresses |-> addresses]
Name(is, upper) == [is |-> is, upper |-> upper]
Symbol(name, section, value, global) ==
  [name |-> name, section |-> section, value |-> value, size |-> 3,
   global |-> global]
Reloc(word, type, symbol, kind, addend) ==
  [section |-> 1, word |-> word, type |-> type, symbol |-> symbol,
   kind |-> kind, addend |-> addend]

Numbers ==
  {s * 2^k + d : s \in {-1, 1}, k \in {0, 3, 7, 8, 10, 12, 13, 14, 16, 23, 24},
                 d \in {-1, 0, 1}}
  \cup {11052762, -5526382, 43690, 13107}

\* Words as as21 leaves them, the other operands all 0 or all 1.
Open(machine, type) ==
  IF type = "YYCCBO"
    THEN {<<BitSet(\h200000) \cup AMF(f) \cup o>> :
            f \in AluFunctions,
            o \in IF machine = "218X" THEN {{}, BitSet(\h04070F)} ELSE {{}}}
         \cup {<<BitSet(w) \cup AMF(f)>> : f \in {\h10, \h13, \h1C},
                  w \in {\h2800AA, \h600000, \h7000E5}}
    ELSE LET entry == Constants(machine)[type]
         IN {entry.fixed, [w \in DOMAIN entry.fixed |->
                             entry.fixed[w] \cup entry.operands[w]]}

Alone(machine, type, number, word) ==
  LET as == IF type = "REL_IF" THEN "REL" ELSE type
      addend == IF as \in {"DO", "REL"} THEN number ELSE number - 256
  IN Job(machine,
         <<FileOf(<<word \o <<{1, 9}>>>>, <<Symbol(Name("a", FALSE), 1, 0, FALSE)>>,
                <<Reloc(1, as, 1, "SYMBOL", addend)>>, machine)>>,
         <<<<1>>>>, {256})

AloneJobs(machine, types) ==
  UNION {{Alone(machine, type, number, word) :
            number \in Numbers, word \in Open(machine, type)} : type \in types}

\* The first file refers to its one symbol; the second has any two symbols.
FirstSymbols ==
  {Symbol(Name("a", FALSE), section, 1, global) :
     section \in {0, 1}, global \in BOOLEAN}
SecondSymbols ==
  {Symbol(Name("a", TRUE), 1, 2, TRUE), Symbol(Name("a", FALSE), 1, 0, TRUE),
   Symbol(Name("a", FALSE), 1, 0, FALSE), Symbol(Name("b", FALSE), 1, 1, TRUE)}
Two(first, second, kind, uses, file2) ==
  Job("218X",
      <<FileOf(<<<<{}, {3}>>>>, <<first>>, <<Reloc(1, "DATA24", 1, kind, 1)>>, "218X"),
        [file2 EXCEPT !.symbols = second]>>,
      uses, {3, 65541})
File2 == FileOf(<<<<{5}, {}>>>>, << >>, <<Reloc(2, "PM14", 0, "SYMBOL", 7)>>, "218X")

Uses == {<<<<1, 2>>>>, <<<<2, 1, 2>>>>,
         <<<<1>>, <<2>>>>, <<<<2>>, <<1, 2>>>>}
TwoJobs ==
  {Two(first, second, "SYMBOL", uses, File2) :
     first \in FirstSymbols, uses \in Uses,
     second \in UNION {[1 .. n -> SecondSymbols] : n \in 0 .. 2}}
  \cup {Two(Symbol(Name("a", FALSE), 0, 0, TRUE),
            <<Symbol(Name("a", TRUE), 1, 2, TRUE)>>, kind, <<<<1, 2>>>>, File2) :
          kind \in {"LENGTH", "PAGE", "ADDRESS"}}
  \cup {Two(Symbol(Name("a", FALSE), 1, 0, TRUE), << >>, "SYMBOL", <<<<1, 2>>>>,
            file2) : file2 \in {[File2 EXCEPT !.exists = FALSE],
                                [File2 EXCEPT !.machine = "219X", !.relocations = << >>]}}

MCJobs ==
  UNION {TwoJobs, AloneJobs("218X", Types("218X")),
         AloneJobs("219X", Types("219X") \cup {"REL_IF"})}

\* An object that two PROCESSORs name.
TwiceJobs ==
  {[Alone("218X", "YYCCBO", 1, word) EXCEPT !.uses = <<<<1>>, <<1>>>>] :
     word \in Open("218X", "YYCCBO")}
=============================================================================
