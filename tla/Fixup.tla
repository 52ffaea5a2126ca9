------------------------------- MODULE Fixup --------------------------------
(***************************************************************************)
(* How ld21 puts the value of a relocation into the words that as21 left   *)
(* open for it (ld21/fixup.c), for the ADSP-218X and the 219X.             *)
(***************************************************************************)
EXTENDS Encoding

\* A relocation checks the range of its value and puts it into the fields of
\* the words there; a word of data is written over instead.
Or(range, fields) == [range |-> range, fields |-> fields, keeps |-> TRUE]
Put(range, fields) == [range |-> range, fields |-> fields, keeps |-> FALSE]

\* Off by one at the upper limit.
check_bothMutant(bits) == -(2^(bits - 1)) .. 2^bits
check_signed(bits) == Signed(bits)
check_unsigned(bits) == Unsigned(bits)
check_both(bits) == Both(bits)

Immediate8x ==
  [IMM14 |-> Or(check_both(14), <<{Field(0, 13, 4)}>>),
   IMM16 |-> Or(check_both(16), <<{Field(0, 15, 4)}>>)]
Data8x ==
  [DATADM |-> Put(check_both(16), <<{Field(0, 15, 0)}>>),
   DATAPM |-> Put(check_both(16), <<{Field(0, 15, 8)}>>),
   DATA24 |-> Put(check_both(24), <<{Field(0, 23, 0)}>>)]
Address8x ==
  [FLAGIN |-> Or(check_unsigned(14), <<{Field(0, 11, 4), Field(12, 13, 2)}>>),
   PM14   |-> Or(check_unsigned(14), <<{Field(0, 13, 4)}>>),
   DM14   |-> Or(check_unsigned(14), <<{Field(0, 13, 4)}>>),
   IOADDR |-> Or(check_unsigned(11), <<{Field(0, 10, 4)}>>)]
Small8x ==
  [YYCCBO_BITNO    |-> Or(0 .. 15, <<BITNO_TO_YYCC>>),
   SHIFT_IMMEDIATE |-> Or(-128 .. 127, <<{Field(0, 7, 0)}>>)]

Immediate9x ==
  [IMM12 |-> Or(check_both(12), <<{Field(0, 11, 4)}>>),
   IMM16 |-> Or(check_both(16), <<{Field(0, 15, 4)}>>)]
Data9x ==
  [DATADM |-> Put(check_both(16), <<{Field(0, 15, 0)}>>),
   DATAPM |-> Put(check_both(16), <<{Field(0, 15, 8)}>>),
   DATA24 |-> Put(check_both(24), <<{Field(0, 23, 0)}>>)]
\* The bytes of the address in the wrong words.
Memory9xMutant ==
  [DMLOAD |-> Or(check_both(16), <<{Field(0, 7, 4)}, {Field(8, 15, 12)}>>),
   PMLOAD |-> Or(check_both(24), <<{Field(0, 7, 4)},
                                   {Field(16, 23, 12), Field(8, 15, 0)}>>)]
Memory9x ==
  [DMLOAD |-> Or(check_both(16), <<{Field(0, 7, 4)}, {Field(8, 15, 12)}>>),
   PMLOAD |-> Or(check_both(24), <<{Field(8, 15, 4)},
                                   {Field(16, 23, 12), Field(0, 7, 0)}>>)]
\* DO and REL: a jump with a condition has a shorter offset.
Offset9x(conditional) ==
  [DO  |-> Or(check_unsigned(12), <<{Field(0, 11, 4)}>>),
   REL |-> IF conditional
             THEN Or(check_signed(13), <<{Field(0, 12, 4)}>>)
             ELSE Or(check_signed(16), <<{Field(0, 13, 4), Field(14, 15, 0)}>>)]
Address9x ==
  [LONG   |-> Or(check_unsigned(24), <<{Field(16, 23, 4)}, {Field(0, 15, 4)}>>),
   DM16   |-> Or(check_unsigned(16), <<{Field(0, 15, 4)}>>),
   IOADDR |-> Or(check_unsigned(10), <<{Field(8, 9, 13), Field(0, 7, 4)}>>)]
Small9x ==
  [YYCCBO_BITNO     |-> Or(0 .. 15, <<BITNO_TO_YYCC>>),
   SHIFT_IMMEDIATE  |-> Or(-128 .. 127, <<{Field(0, 7, 0)}>>),
   MODIFY_IMMEDIATE |-> Or(-128 .. 127, <<{Field(0, 7, 4)}>>)]
-----------------------------------------------------------------------------
(* What comes of a relocation: "done" with the new words, "error" with the *)
(* old ones, or "assert" where an assertion of the linker fails.           *)

Result(is, code) == [is |-> is, code |-> code]

PutValue(how, value, code) ==
  IF value \notin how.range THEN Result("error", code)
  ELSE Result("done",
              [w \in DOMAIN how.fields |->
                 (IF how.keeps THEN code[w] ELSE {})
                   \cup FieldBits(value, how.fields[w])])

\* R_ADSP218X_YYCCBO: the word has the function in it.  The ways to reach a
\* constant with it: the function that takes its place and the number that
\* YY, CC and BO then have to be, in the order they are tried.
\* PASS with the functions y + 1 and y - 1 exchanged.
PassWaysMutant(constant) ==
  CASE constant = -1 -> <<<<\h18, 0>>>>
    [] constant = 1  -> <<<<\h11, 0>>>>
    [] OTHER -> <<<<\h10, constant>>, <<\h18, constant - 1>>,
                  <<\h11, constant + 1>>>>
PassWays(constant) ==
  CASE constant = -1 -> <<<<\h18, 0>>>>
    [] constant = 1  -> <<<<\h11, 0>>>>
    [] OTHER -> <<<<\h10, constant>>, <<\h18, constant + 1>>,
                  <<\h11, constant - 1>>>>
XopPlusWays(constant)  == <<<<\h13, constant>>, <<\h17, -constant>>>>
XopMinusWays(constant) == <<<<\h17, constant>>, <<\h13, -constant>>>>
OtherWays(amf, constant) == <<<<amf, constant>>>>

Ways(amf, constant) ==
  CASE amf = \h10 -> PassWays(constant)
    [] amf = \h13 -> XopPlusWays(constant)
    [] amf = \h17 -> XopMinusWays(constant)
    [] amf \in AluFunctions \ {\h10, \h13, \h17} -> OtherWays(amf, constant)
    [] OTHER -> <<>>

PutConstant(constant, code) ==
  LET amf  == CHOOSE f \in 0 .. 31 : code[1] \cap AMF_MASK = AMF(f)
      ways == Ways(amf, constant)
      good == {i \in DOMAIN ways : check_yyccbo(ways[i][2]) # {}}
      way  == ways[CHOOSE i \in good : \A j \in good : i <= j]
  IN IF ways = <<>> THEN Result("assert", code)
     ELSE IF good = {} THEN Result("error", code)
     ELSE Result("done", <<(code[1] \ AMF_MASK)
                             \cup AMF(way[1]) \cup check_yyccbo(way[2])>>)

fixup_8x_code(reltype, fixup, code) ==
  IF reltype = "YYCCBO" THEN PutConstant(fixup, code)
  ELSE PutValue(Entries(<<Immediate8x, Data8x, Address8x, Small8x>>)[reltype],
                fixup, code)

\* An offset is counted from the word itself.
fixup_9x_code(reltype, fixup, pc, code) ==
  LET jump == code[1] \cap (18 .. 23)
  IN IF reltype = "YYCCBO" THEN PutConstant(fixup, code)
     ELSE IF reltype = "REL" /\ jump \notin {{19, 20}, {18, 19, 20}}
       THEN Result("assert", code)
     ELSE IF reltype \in {"DO", "REL"}
       THEN PutValue(Offset9x(jump = {19, 20})[reltype], fixup - pc, code)
     ELSE PutValue(Entries(<<Immediate9x, Data9x, Memory9x, Address9x,
                             Small9x>>)[reltype], fixup, code)

\* fixup_code_map: the function for the machine of the output file.
fixup_code(machine, reltype, fixup, pc, code) ==
  IF machine = "218X" THEN fixup_8x_code(reltype, fixup, code)
                      ELSE fixup_9x_code(reltype, fixup, pc, code)

\* The words that a relocation of this type covers.
RelocatedWords(reltype) ==
  IF reltype \in {"DMLOAD", "PMLOAD", "LONG"} THEN 2 ELSE 1
=============================================================================
