------------------------------ MODULE Encoding ------------------------------
(***************************************************************************)
(* The constants in the words that as21 writes (as21/as21-grammar.y for    *)
(* the ADSP-218X, as219x-grammar.y for the 219X).                          *)
(*                                                                         *)
(* Wherever an instruction or an initial value takes an expression, the    *)
(* grammar has two branches: it puts a constant into the word at once, or  *)
(* leaves the place empty and asks ld21, by a relocation of one of the     *)
(* types below, to do the same.  A word is the set of the numbers of its   *)
(* bits that are 1; some instructions have two words.                      *)
(***************************************************************************)
EXTENDS Integers, Sequences, FiniteSets

\* Bits lo .. hi of the integer v, moved so that lo comes to be at.  In two's
\* complement, as \div rounds down.
Bits(v, lo, hi, at) ==
  {b + at - lo : b \in {c \in lo .. hi : (v \div 2^c) % 2 = 1}}
BitSet(v) == Bits(v, 0, 23, 0)
\* A field takes bits lo .. hi of a value to the place at.
Field(lo, hi, at) == [lo |-> lo, hi |-> hi, at |-> at]
FieldBits(v, fields) == UNION {Bits(v, f.lo, f.hi, f.at) : f \in fields}

Signed(n)   == -(2^(n - 1)) .. 2^(n - 1) - 1
Unsigned(n) == 0 .. 2^n - 1
Both(n)     == -(2^(n - 1)) .. 2^n - 1
-----------------------------------------------------------------------------
(* An entry of the tables: the constants the grammar accepts, the fields   *)
(* of each word they go to, the words around them, and the bits in which   *)
(* other operands of the instruction may be.                               *)

Constant(range, fields, fixed, operands) ==
  [range |-> range, fields |-> fields, fixed |-> fixed,
   operands |-> operands]
One(range, fields, fixed, operands) ==
  Constant(range, <<fields>>, <<BitSet(fixed)>>, <<BitSet(operands)>>)

\* emit: a word of data is cut off at the width of the memory, after a check
\* that all bits above, up to bit 31, are the same.  In program memory a value
\* of 16 bits is shifted up first, and bits 24 .. 31 of it are not looked at.
EqualBits(lo, hi) ==
  {v \in Int : \A b \in lo .. hi : (v \div 2^b) % 2 = (v \div 2^lo) % 2}
emit ==
  [DATADM |-> One(Signed(17), {Field(0, 15, 0)}, 0, 0),
   DATAPM |-> One(EqualBits(16, 23), {Field(0, 15, 8)}, 0, 0),
   DATA24 |-> One(Signed(25), {Field(0, 23, 0)}, 0, 0)]

FlagIn8x ==
  [FLAGIN |-> One(Unsigned(14), {Field(0, 11, 4), Field(12, 13, 2)},
                  \h030000, \h000003)]
Register8x ==
  [IMM16 |-> One(Both(16), {Field(0, 15, 4)}, \h400000, \h00000F),
   IMM14 |-> One(Both(14), {Field(0, 13, 4)}, \h300000, \h0C000F)]
Direct8x ==
  [DM14   |-> One(Unsigned(14), {Field(0, 13, 4)}, \h800000, \h1C000F),
   IOADDR |-> One(Unsigned(11), {Field(0, 10, 4)}, \h010000, \h00800F)]
JumpCall8x ==
  [PM14 |-> One(Unsigned(14), {Field(0, 13, 4)}, \h180000, \h04000F)]
BITNO_TO_YYCC == {Field(0, 1, 6), Field(2, 3, 11)}
BitOp8x ==
  [YYCCBO_BITNO |-> One(0 .. 15, BITNO_TO_YYCC, \h238010, \h04072F)]
Shift8x ==
  [SHIFT_IMMEDIATE |-> One(-128 .. 127, {Field(0, 7, 0)}, \h0F0000, \h007F00)]

Load9x ==
  [DMLOAD |-> Constant(Both(16), <<{Field(0, 7, 4)}, {Field(8, 15, 12)}>>,
                       <<BitSet(\h078000), {}>>, <<BitSet(\h00200F), {}>>),
   PMLOAD |-> Constant(Both(24), <<{Field(8, 15, 4)},
                                   {Field(16, 23, 12), Field(0, 7, 0)}>>,
                       <<BitSet(\h07C000), {}>>, <<BitSet(\h00200F), {}>>)]
\* A constant is the distance to go, where a relocation gives the address.
Do9x == [DO |-> One(Signed(12), {Field(0, 11, 4)}, \h160000, \h00000F)]
Register9x ==
  [IMM12 |-> One(Both(12), {Field(0, 11, 4)}, \h100000, \h00000F),
   IMM16 |-> One(Both(16), {Field(0, 15, 4)}, \h400000, \h00000F)]
Long9x ==
  [LONG |-> Constant(Signed(24), <<{Field(16, 23, 4)}, {Field(0, 15, 4)}>>,
                     <<BitSet(\h050000), {}>>, <<BitSet(\h00100F), {}>>)]
JumpCall9x ==
  [REL |-> One(Signed(16), {Field(0, 13, 4), Field(14, 15, 0)},
               \h1C0000, \h00000C)]
\* condition: a jump on a condition has room for 13 bits.  Of the 16 of the
\* offset the upper three have to be the same, but not the one below them.
Condition9x ==
  [REL_IF |-> One(Signed(14), {Field(0, 12, 4)}, \h180000, \h02000F)]
Direct9x ==
  [DM16 |-> One(Both(16), {Field(0, 15, 4)}, \h800000, \h30000F)]
IoRw9x ==
  [IOADDR |-> One(0 .. 1023, {Field(0, 7, 4), Field(8, 9, 13)},
                  \h068000, \h00100F)]
BitOp9x ==
  [YYCCBO_BITNO |-> One(0 .. 15, BITNO_TO_YYCC, \h238010, \h04072F)]
Shift9x ==
  [SHIFT_IMMEDIATE |-> One(-128 .. 127, {Field(0, 7, 0)}, \h0F0000, \h00FF00)]
Modify9x ==
  [MODIFY_IMMEDIATE |-> One(-128 .. 127, {Field(0, 7, 4)}, \h010000, \h00200C)]

\* The entries of several tables, which are for different types.
Entries(tables) ==
  [type \in UNION {DOMAIN tables[i] : i \in DOMAIN tables} |->
     tables[CHOOSE i \in DOMAIN tables : type \in DOMAIN tables[i]][type]]

Constants(machine) ==
  Entries(IF machine = "218X"
            THEN <<emit, FlagIn8x, Register8x, Direct8x, JumpCall8x, BitOp8x,
                   Shift8x>>
            ELSE <<emit, Load9x, Do9x, Register9x, Long9x, JumpCall9x,
                   Condition9x, Direct9x, IoRw9x, BitOp9x, Shift9x, Modify9x>>)
-----------------------------------------------------------------------------
(* The constants of the ALU: YY, CC and BO make 0, a single bit, or all    *)
(* bits but one; AMF, the function, can be changed to reach more values.   *)

AMF(amf) == Bits(amf, 0, 4, 13)
AMF_MASK == 13 .. 17
YOP_ZERO == {11, 12}
BO_PLUS == {4}
BO_MINUS == {4, 5}

\* 0 (no bits) when there is no such constant.  With all bits set the loop
\* that looks for the clear one ends when its mask has been shifted out, with
\* bit 32 (libas21/util.c:108).
check_yyccbo(number) ==
  LET ones  == Bits(number, 0, 15, 0)
      zeros == (0 .. 15) \ ones
      Bit(b) == FieldBits(b, BITNO_TO_YYCC)
  IN IF number = 0 THEN YOP_ZERO
     ELSE IF number > 65535 \/ number < -32768 THEN {}
     ELSE IF Cardinality(ones) = 1
       THEN BO_PLUS \cup Bit(CHOOSE b \in ones : TRUE)
     ELSE IF Cardinality(zeros) = 1
       THEN BO_MINUS \cup Bit(CHOOSE b \in zeros : TRUE)
     ELSE IF zeros = {} THEN BO_MINUS
     ELSE {}

\* The function and the constant that are put into the word for function amf
\* with a constant; {} when there are none.
PassConstant(constant) ==
  IF constant = 1 THEN AMF(\h11) \cup YOP_ZERO
  ELSE IF constant = -1 THEN AMF(\h18) \cup YOP_ZERO
  ELSE IF check_yyccbo(constant) # {}
    THEN AMF(\h10) \cup check_yyccbo(constant)
  ELSE IF check_yyccbo(constant + 1) # {}
    THEN AMF(\h18) \cup check_yyccbo(constant + 1)
  ELSE IF check_yyccbo(constant - 1) # {}
    THEN AMF(\h11) \cup check_yyccbo(constant - 1)
  ELSE {}

XopPlusConstant(constant) ==
  IF check_yyccbo(constant) # {} THEN AMF(\h13) \cup check_yyccbo(constant)
  ELSE IF check_yyccbo(-constant) # {}
    THEN AMF(\h17) \cup check_yyccbo(-constant) ELSE {}

XopMinusConstant(constant) ==
  IF check_yyccbo(constant) # {} THEN AMF(\h17) \cup check_yyccbo(constant)
  ELSE IF check_yyccbo(-constant) # {}
    THEN AMF(\h13) \cup check_yyccbo(-constant) ELSE {}

OtherConstant(amf, constant) ==
  IF check_yyccbo(constant) = {} THEN {}
  ELSE AMF(amf) \cup check_yyccbo(constant)

AluConstant(amf, constant) ==
  CASE amf = \h10 -> PassConstant(constant)
    [] amf = \h13 -> XopPlusConstant(constant)
    [] amf = \h17 -> XopMinusConstant(constant)
    [] OTHER -> OtherConstant(amf, constant)

AluFunctions == {\h10, \h13, \h17, \h12, \h16, \h19, \h1A, \h1C, \h1D, \h1E}
=============================================================================
