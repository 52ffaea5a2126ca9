----------------------------- MODULE Link_proof -----------------------------
(***************************************************************************)
(* Proofs about Link: that the words of a linked file are what as21 would  *)
(* have written, and that every error is told of, for all jobs.            *)
(*                                                                         *)
(* First the tables: for each machine and type, what fixup_code puts into  *)
(* the words is what as21 puts there.  Then the ALU: the constants that    *)
(* YY, CC and BO can say, and the functions that take the place of others. *)
(* Then the invariant: what the loops of ld21 have done so far.            *)
(***************************************************************************)
EXTENDS Link, FiniteSetTheorems, WellFoundedInduction, TLAPS

-----------------------------------------------------------------------------
(* What as21 and ld21 put into a word, table by table.                     *)

\* An entry of ld21 and one of as21 for the same type.
Matches(how, entry, type, as) ==
  /\ how.fields = entry.fields /\ DOMAIN how.fields = 1 .. RelocatedWords(type)
  /\ how.keeps = (type \notin DOMAIN emit)
  /\ as \notin Different => how.range = entry.range

\* The types of words of data.
LEMMA EmitDomain == DOMAIN emit = {"DATADM", "DATAPM", "DATA24"}
BY DEF emit

\* An instruction of one word.
LEMMA OneWord ==
  ASSUME NEW range, NEW other, NEW fields, NEW x, NEW y, NEW type, NEW as,
         type \notin {"DATADM", "DATAPM", "DATA24", "DMLOAD", "PMLOAD", "LONG"},
         as \in Different \/ range = other
  PROVE  Matches(Or(range, <<fields>>), One(other, fields, x, y), type, as)
<1>1. (type \notin DOMAIN emit) = TRUE  BY EmitDomain
<1>2. RelocatedWords(type) = 1  BY DEF RelocatedWords
<1>3. DOMAIN <<fields>> = 1 .. 1  OBVIOUS
<1> DEFINE how == Or(range, <<fields>>)
           entry == One(other, fields, x, y)
<1>4. how.fields = <<fields>> /\ how.keeps = TRUE /\ how.range = range
  BY DEF Or
<1>5. entry.fields = <<fields>> /\ entry.range = other  BY DEF One, Constant
<1> HIDE DEF how, entry
<1>6. Matches(how, entry, type, as)  BY <1>1, <1>2, <1>3, <1>4, <1>5, Zenon DEF Matches
<1> QED BY <1>6 DEF how, entry

\* An instruction of two words.
LEMMA TwoWords ==
  ASSUME NEW range, NEW other, NEW first, NEW second, NEW x, NEW y, NEW as,
         NEW type \in {"DMLOAD", "PMLOAD", "LONG"},
         as \in Different \/ range = other
  PROVE  Matches(Or(range, <<first, second>>), Constant(other, <<first, second>>, x, y),
                 type, as)
<1>1. (type \notin DOMAIN emit) = TRUE  BY EmitDomain
<1>2. RelocatedWords(type) = 2  BY DEF RelocatedWords
<1>3. DOMAIN <<first, second>> = 1 .. 2  OBVIOUS
<1> DEFINE how == Or(range, <<first, second>>)
           entry == Constant(other, <<first, second>>, x, y)
<1>4. how.fields = <<first, second>> /\ how.keeps = TRUE /\ how.range = range
  BY DEF Or
<1>5. entry.fields = <<first, second>> /\ entry.range = other  BY DEF One, Constant
<1> HIDE DEF how, entry
<1>6. Matches(how, entry, type, as)  BY <1>1, <1>2, <1>3, <1>4, <1>5, Zenon DEF Matches
<1> QED BY <1>6 DEF how, entry

\* A word of data.
LEMMA DataWord ==
  ASSUME NEW range, NEW other, NEW fields, NEW x, NEW y,
         NEW type \in {"DATADM", "DATAPM", "DATA24"}
  PROVE  Matches(Put(range, <<fields>>), One(other, fields, x, y), type, type)
<1>1. (type \notin DOMAIN emit) = FALSE  BY EmitDomain
<1>2. RelocatedWords(type) = 1  BY DEF RelocatedWords
<1>3. DOMAIN <<fields>> = 1 .. 1  OBVIOUS
<1>4. type \in Different  BY DEF Different
<1> DEFINE how == Put(range, <<fields>>)
           entry == One(other, fields, x, y)
<1>5. how.fields = <<fields>> /\ how.keeps = FALSE  BY DEF Put
<1>6. entry.fields = <<fields>>  BY DEF One, Constant
<1> HIDE DEF how, entry
<1>7. Matches(how, entry, type, type)
  BY <1>1, <1>2, <1>3, <1>4, <1>5, <1>6, Zenon DEF Matches
<1> QED BY <1>7 DEF how, entry

\* The entries of the two programs for the ADSP-218X.
LEMMA Fields8x ==
  /\ Matches(Data8x["DATADM"], emit["DATADM"], "DATADM", "DATADM")
  /\ Matches(Data8x["DATAPM"], emit["DATAPM"], "DATAPM", "DATAPM")
  /\ Matches(Data8x["DATA24"], emit["DATA24"], "DATA24", "DATA24")
  /\ Matches(Address8x["FLAGIN"], FlagIn8x["FLAGIN"], "FLAGIN", "FLAGIN")
  /\ Matches(Immediate8x["IMM16"], Register8x["IMM16"], "IMM16", "IMM16")
  /\ Matches(Immediate8x["IMM14"], Register8x["IMM14"], "IMM14", "IMM14")
  /\ Matches(Address8x["DM14"], Direct8x["DM14"], "DM14", "DM14")
  /\ Matches(Address8x["IOADDR"], Direct8x["IOADDR"], "IOADDR", "IOADDR")
  /\ Matches(Address8x["PM14"], JumpCall8x["PM14"], "PM14", "PM14")
  /\ Matches(Small8x["YYCCBO_BITNO"], BitOp8x["YYCCBO_BITNO"], "YYCCBO_BITNO", "YYCCBO_BITNO")
  /\ Matches(Small8x["SHIFT_IMMEDIATE"], Shift8x["SHIFT_IMMEDIATE"], "SHIFT_IMMEDIATE", "SHIFT_IMMEDIATE")
<1>1. Matches(Data8x["DATADM"], emit["DATADM"], "DATADM", "DATADM")
  <2>1. \E x, y : emit["DATADM"] = One(Signed(17), {Field(0, 15, 0)}, x, y)
    BY SMT DEF emit
  <2>2. Data8x["DATADM"] = Put(Both(16), <<{Field(0, 15, 0)}>>)
    BY SMT DEF Data8x, check_both
  <2> QED BY <2>1, <2>2, DataWord
<1>2. Matches(Data8x["DATAPM"], emit["DATAPM"], "DATAPM", "DATAPM")
  <2>1. \E x, y : emit["DATAPM"] = One(EqualBits(16, 23), {Field(0, 15, 8)}, x, y)
    BY SMT DEF emit
  <2>2. Data8x["DATAPM"] = Put(Both(16), <<{Field(0, 15, 8)}>>)
    BY SMT DEF Data8x, check_both
  <2> QED BY <2>1, <2>2, DataWord
<1>3. Matches(Data8x["DATA24"], emit["DATA24"], "DATA24", "DATA24")
  <2>1. \E x, y : emit["DATA24"] = One(Signed(25), {Field(0, 23, 0)}, x, y)
    BY SMT DEF emit
  <2>2. Data8x["DATA24"] = Put(Both(24), <<{Field(0, 23, 0)}>>)
    BY SMT DEF Data8x, check_both
  <2> QED BY <2>1, <2>2, DataWord
<1>4. Matches(Address8x["FLAGIN"], FlagIn8x["FLAGIN"], "FLAGIN", "FLAGIN")
  <2>1. \E x, y : FlagIn8x["FLAGIN"] = One(Unsigned(14), {Field(0, 11, 4), Field(12, 13, 2)}, x, y)
    BY SMT DEF FlagIn8x
  <2>2. Address8x["FLAGIN"] = Or(Unsigned(14), <<{Field(0, 11, 4), Field(12, 13, 2)}>>)
    BY SMT DEF Address8x, check_unsigned
  <2> QED BY <2>1, <2>2, OneWord
<1>5. Matches(Immediate8x["IMM16"], Register8x["IMM16"], "IMM16", "IMM16")
  <2>1. \E x, y : Register8x["IMM16"] = One(Both(16), {Field(0, 15, 4)}, x, y)
    BY SMT DEF Register8x
  <2>2. Immediate8x["IMM16"] = Or(Both(16), <<{Field(0, 15, 4)}>>)
    BY SMT DEF Immediate8x, check_both
  <2> QED BY <2>1, <2>2, OneWord
<1>6. Matches(Immediate8x["IMM14"], Register8x["IMM14"], "IMM14", "IMM14")
  <2>1. \E x, y : Register8x["IMM14"] = One(Both(14), {Field(0, 13, 4)}, x, y)
    BY SMT DEF Register8x
  <2>2. Immediate8x["IMM14"] = Or(Both(14), <<{Field(0, 13, 4)}>>)
    BY SMT DEF Immediate8x, check_both
  <2> QED BY <2>1, <2>2, OneWord
<1>7. Matches(Address8x["DM14"], Direct8x["DM14"], "DM14", "DM14")
  <2>1. \E x, y : Direct8x["DM14"] = One(Unsigned(14), {Field(0, 13, 4)}, x, y)
    BY SMT DEF Direct8x
  <2>2. Address8x["DM14"] = Or(Unsigned(14), <<{Field(0, 13, 4)}>>)
    BY SMT DEF Address8x, check_unsigned
  <2> QED BY <2>1, <2>2, OneWord
<1>8. Matches(Address8x["IOADDR"], Direct8x["IOADDR"], "IOADDR", "IOADDR")
  <2>1. \E x, y : Direct8x["IOADDR"] = One(Unsigned(11), {Field(0, 10, 4)}, x, y)
    BY SMT DEF Direct8x
  <2>2. Address8x["IOADDR"] = Or(Unsigned(11), <<{Field(0, 10, 4)}>>)
    BY SMT DEF Address8x, check_unsigned
  <2> QED BY <2>1, <2>2, OneWord
<1>9. Matches(Address8x["PM14"], JumpCall8x["PM14"], "PM14", "PM14")
  <2>1. \E x, y : JumpCall8x["PM14"] = One(Unsigned(14), {Field(0, 13, 4)}, x, y)
    BY SMT DEF JumpCall8x
  <2>2. Address8x["PM14"] = Or(Unsigned(14), <<{Field(0, 13, 4)}>>)
    BY SMT DEF Address8x, check_unsigned
  <2> QED BY <2>1, <2>2, OneWord
<1>10. Matches(Small8x["YYCCBO_BITNO"], BitOp8x["YYCCBO_BITNO"], "YYCCBO_BITNO", "YYCCBO_BITNO")
  <2>1. \E x, y : BitOp8x["YYCCBO_BITNO"] = One(0 .. 15, BITNO_TO_YYCC, x, y)
    BY SMT DEF BitOp8x
  <2>2. Small8x["YYCCBO_BITNO"] = Or(0 .. 15, <<BITNO_TO_YYCC>>)
    BY SMT DEF Small8x
  <2> QED BY <2>1, <2>2, OneWord
<1>11. Matches(Small8x["SHIFT_IMMEDIATE"], Shift8x["SHIFT_IMMEDIATE"], "SHIFT_IMMEDIATE", "SHIFT_IMMEDIATE")
  <2>1. \E x, y : Shift8x["SHIFT_IMMEDIATE"] = One(-128 .. 127, {Field(0, 7, 0)}, x, y)
    BY SMT DEF Shift8x
  <2>2. Small8x["SHIFT_IMMEDIATE"] = Or(-128 .. 127, <<{Field(0, 7, 0)}>>)
    BY SMT DEF Small8x
  <2>3. PICK x, y : Shift8x["SHIFT_IMMEDIATE"] = One(-128 .. 127, {Field(0, 7, 0)}, x, y)
    BY <2>1
  <2>4. Matches(Or(-128 .. 127, <<{Field(0, 7, 0)}>>), One(-128 .. 127, {Field(0, 7, 0)}, x, y), "SHIFT_IMMEDIATE", "SHIFT_IMMEDIATE")
    BY OneWord
  <2> QED BY <2>2, <2>3, <2>4, Zenon
<1> QED BY <1>1, <1>2, <1>3, <1>4, <1>5, <1>6, <1>7, <1>8, <1>9, <1>10, <1>11

\* The entries of the two programs for the ADSP-219X.
LEMMA Fields9x ==
  /\ Matches(Data9x["DATADM"], emit["DATADM"], "DATADM", "DATADM")
  /\ Matches(Data9x["DATAPM"], emit["DATAPM"], "DATAPM", "DATAPM")
  /\ Matches(Data9x["DATA24"], emit["DATA24"], "DATA24", "DATA24")
  /\ Matches(Memory9x["DMLOAD"], Load9x["DMLOAD"], "DMLOAD", "DMLOAD")
  /\ Matches(Memory9x["PMLOAD"], Load9x["PMLOAD"], "PMLOAD", "PMLOAD")
  /\ Matches(Immediate9x["IMM12"], Register9x["IMM12"], "IMM12", "IMM12")
  /\ Matches(Immediate9x["IMM16"], Register9x["IMM16"], "IMM16", "IMM16")
  /\ Matches(Address9x["LONG"], Long9x["LONG"], "LONG", "LONG")
  /\ Matches(Address9x["DM16"], Direct9x["DM16"], "DM16", "DM16")
  /\ Matches(Address9x["IOADDR"], IoRw9x["IOADDR"], "IOADDR", "IOADDR")
  /\ Matches(Small9x["YYCCBO_BITNO"], BitOp9x["YYCCBO_BITNO"], "YYCCBO_BITNO", "YYCCBO_BITNO")
  /\ Matches(Small9x["SHIFT_IMMEDIATE"], Shift9x["SHIFT_IMMEDIATE"], "SHIFT_IMMEDIATE", "SHIFT_IMMEDIATE")
  /\ Matches(Small9x["MODIFY_IMMEDIATE"], Modify9x["MODIFY_IMMEDIATE"], "MODIFY_IMMEDIATE", "MODIFY_IMMEDIATE")
<1>1. Matches(Data9x["DATADM"], emit["DATADM"], "DATADM", "DATADM")
  <2>1. \E x, y : emit["DATADM"] = One(Signed(17), {Field(0, 15, 0)}, x, y)
    BY SMT DEF emit
  <2>2. Data9x["DATADM"] = Put(Both(16), <<{Field(0, 15, 0)}>>)
    BY SMT DEF Data9x, check_both
  <2> QED BY <2>1, <2>2, DataWord
<1>2. Matches(Data9x["DATAPM"], emit["DATAPM"], "DATAPM", "DATAPM")
  <2>1. \E x, y : emit["DATAPM"] = One(EqualBits(16, 23), {Field(0, 15, 8)}, x, y)
    BY SMT DEF emit
  <2>2. Data9x["DATAPM"] = Put(Both(16), <<{Field(0, 15, 8)}>>)
    BY SMT DEF Data9x, check_both
  <2> QED BY <2>1, <2>2, DataWord
<1>3. Matches(Data9x["DATA24"], emit["DATA24"], "DATA24", "DATA24")
  <2>1. \E x, y : emit["DATA24"] = One(Signed(25), {Field(0, 23, 0)}, x, y)
    BY SMT DEF emit
  <2>2. Data9x["DATA24"] = Put(Both(24), <<{Field(0, 23, 0)}>>)
    BY SMT DEF Data9x, check_both
  <2> QED BY <2>1, <2>2, DataWord
<1>4. Matches(Memory9x["DMLOAD"], Load9x["DMLOAD"], "DMLOAD", "DMLOAD")
  <2>1. \E x, y : Load9x["DMLOAD"] = Constant(Both(16), <<{Field(0, 7, 4)}, {Field(8, 15, 12)}>>, x, y)
    BY SMT DEF Load9x
  <2>2. Memory9x["DMLOAD"] = Or(Both(16), <<{Field(0, 7, 4)}, {Field(8, 15, 12)}>>)
    BY SMT DEF Memory9x, check_both
  <2> QED BY <2>1, <2>2, TwoWords
<1>5. Matches(Memory9x["PMLOAD"], Load9x["PMLOAD"], "PMLOAD", "PMLOAD")
  <2>1. \E x, y : Load9x["PMLOAD"] = Constant(Both(24), <<{Field(8, 15, 4)}, {Field(16, 23, 12), Field(0, 7, 0)}>>, x, y)
    BY SMT DEF Load9x
  <2>2. Memory9x["PMLOAD"] = Or(Both(24), <<{Field(8, 15, 4)}, {Field(16, 23, 12), Field(0, 7, 0)}>>)
    BY SMT DEF Memory9x, check_both
  <2> QED BY <2>1, <2>2, TwoWords
<1>6. Matches(Immediate9x["IMM12"], Register9x["IMM12"], "IMM12", "IMM12")
  <2>1. \E x, y : Register9x["IMM12"] = One(Both(12), {Field(0, 11, 4)}, x, y)
    BY SMT DEF Register9x
  <2>2. Immediate9x["IMM12"] = Or(Both(12), <<{Field(0, 11, 4)}>>)
    BY SMT DEF Immediate9x, check_both
  <2> QED BY <2>1, <2>2, OneWord
<1>7. Matches(Immediate9x["IMM16"], Register9x["IMM16"], "IMM16", "IMM16")
  <2>1. \E x, y : Register9x["IMM16"] = One(Both(16), {Field(0, 15, 4)}, x, y)
    BY SMT DEF Register9x
  <2>2. Immediate9x["IMM16"] = Or(Both(16), <<{Field(0, 15, 4)}>>)
    BY SMT DEF Immediate9x, check_both
  <2> QED BY <2>1, <2>2, OneWord
<1>8. Matches(Address9x["LONG"], Long9x["LONG"], "LONG", "LONG")
  <2>1. \E x, y : Long9x["LONG"] = Constant(Signed(24), <<{Field(16, 23, 4)}, {Field(0, 15, 4)}>>, x, y)
    BY SMT DEF Long9x
  <2>2. Address9x["LONG"] = Or(Unsigned(24), <<{Field(16, 23, 4)}, {Field(0, 15, 4)}>>)
    BY SMT DEF Address9x, check_unsigned
  <2> QED BY <2>1, <2>2, TwoWords DEF Different
<1>9. Matches(Address9x["DM16"], Direct9x["DM16"], "DM16", "DM16")
  <2>1. \E x, y : Direct9x["DM16"] = One(Both(16), {Field(0, 15, 4)}, x, y)
    BY SMT DEF Direct9x
  <2>2. Address9x["DM16"] = Or(Unsigned(16), <<{Field(0, 15, 4)}>>)
    BY SMT DEF Address9x, check_unsigned
  <2> QED BY <2>1, <2>2, OneWord DEF Different
<1>10. Matches(Address9x["IOADDR"], IoRw9x["IOADDR"], "IOADDR", "IOADDR")
  <2>1. \E x, y : IoRw9x["IOADDR"] = One(0 .. 1023, {Field(0, 7, 4), Field(8, 9, 13)}, x, y)
    BY SMT DEF IoRw9x
  <2>2. Address9x["IOADDR"] = Or(Unsigned(10), <<{Field(8, 9, 13), Field(0, 7, 4)}>>)
    BY SMT DEF Address9x, check_unsigned
  <2> DEFINE range == 0 .. 1023
             fields == {Field(0, 7, 4), Field(8, 9, 13)}
  <2>3. {Field(8, 9, 13), Field(0, 7, 4)} = fields  OBVIOUS
  <2>4. Unsigned(10) = range
    <3>1. 2^10 = 1024  OBVIOUS
    <3> QED BY <3>1 DEF Unsigned
  <2>5. \E x, y : IoRw9x["IOADDR"] = One(range, fields, x, y)  BY <2>1
  <2> HIDE DEF range, fields
  <2>6. Address9x["IOADDR"] = Or(range, <<fields>>)  BY <2>2, <2>3, <2>4, Zenon
  <2> QED BY <2>5, <2>6, OneWord
<1>11. Matches(Small9x["YYCCBO_BITNO"], BitOp9x["YYCCBO_BITNO"], "YYCCBO_BITNO", "YYCCBO_BITNO")
  <2>1. \E x, y : BitOp9x["YYCCBO_BITNO"] = One(0 .. 15, BITNO_TO_YYCC, x, y)
    BY SMT DEF BitOp9x
  <2>2. Small9x["YYCCBO_BITNO"] = Or(0 .. 15, <<BITNO_TO_YYCC>>)
    BY SMT DEF Small9x
  <2> QED BY <2>1, <2>2, OneWord
<1>12. Matches(Small9x["SHIFT_IMMEDIATE"], Shift9x["SHIFT_IMMEDIATE"], "SHIFT_IMMEDIATE", "SHIFT_IMMEDIATE")
  <2>1. \E x, y : Shift9x["SHIFT_IMMEDIATE"] = One(-128 .. 127, {Field(0, 7, 0)}, x, y)
    BY SMT DEF Shift9x
  <2>2. Small9x["SHIFT_IMMEDIATE"] = Or(-128 .. 127, <<{Field(0, 7, 0)}>>)
    BY SMT DEF Small9x
  <2>3. PICK x, y : Shift9x["SHIFT_IMMEDIATE"] = One(-128 .. 127, {Field(0, 7, 0)}, x, y)
    BY <2>1
  <2>4. Matches(Or(-128 .. 127, <<{Field(0, 7, 0)}>>), One(-128 .. 127, {Field(0, 7, 0)}, x, y), "SHIFT_IMMEDIATE", "SHIFT_IMMEDIATE")
    BY OneWord
  <2> QED BY <2>2, <2>3, <2>4, Zenon
<1>13. Matches(Small9x["MODIFY_IMMEDIATE"], Modify9x["MODIFY_IMMEDIATE"], "MODIFY_IMMEDIATE", "MODIFY_IMMEDIATE")
  <2>1. \E x, y : Modify9x["MODIFY_IMMEDIATE"] = One(-128 .. 127, {Field(0, 7, 4)}, x, y)
    BY SMT DEF Modify9x
  <2>2. Small9x["MODIFY_IMMEDIATE"] = Or(-128 .. 127, <<{Field(0, 7, 4)}>>)
    BY SMT DEF Small9x
  <2>3. PICK x, y : Modify9x["MODIFY_IMMEDIATE"] = One(-128 .. 127, {Field(0, 7, 4)}, x, y)
    BY <2>1
  <2>4. Matches(Or(-128 .. 127, <<{Field(0, 7, 4)}>>), One(-128 .. 127, {Field(0, 7, 4)}, x, y), "MODIFY_IMMEDIATE", "MODIFY_IMMEDIATE")
    BY OneWord
  <2> QED BY <2>2, <2>3, <2>4, Zenon
<1> QED BY <1>1, <1>2, <1>3, <1>4, <1>5, <1>6, <1>7, <1>8, <1>9, <1>10, <1>11, <1>12, <1>13

\* An entry that is in one table only.
LEMMA EntriesLemma ==
  ASSUME NEW tables, NEW i \in DOMAIN tables, NEW type \in DOMAIN tables[i],
         \A j \in DOMAIN tables : type \in DOMAIN tables[j] => j = i
  PROVE  /\ type \in DOMAIN Entries(tables)
         /\ Entries(tables)[type] = tables[i][type]
<1>1. type \in UNION {DOMAIN tables[j] : j \in DOMAIN tables}  OBVIOUS
<1>2. (CHOOSE j \in DOMAIN tables : type \in DOMAIN tables[j]) = i  OBVIOUS
<1> QED BY <1>1, <1>2 DEF Entries

\* The types of several tables.
LEMMA EntriesDomain ==
  ASSUME NEW tables
  PROVE  DOMAIN Entries(tables) = UNION {DOMAIN tables[i] : i \in DOMAIN tables}
BY DEF Entries

\* The tables of as21 and of ld21 for the ADSP-218X.
Tables8x == <<emit, FlagIn8x, Register8x, Direct8x, JumpCall8x, BitOp8x, Shift8x>>
Fixups8x == <<Immediate8x, Data8x, Address8x, Small8x>>

\* The types that each table is for.
LEMMA Domains8x ==
  /\ DOMAIN emit = {"DATADM", "DATAPM", "DATA24"}
  /\ DOMAIN FlagIn8x = {"FLAGIN"}
  /\ DOMAIN Register8x = {"IMM16", "IMM14"}
  /\ DOMAIN Direct8x = {"DM14", "IOADDR"}
  /\ DOMAIN JumpCall8x = {"PM14"}
  /\ DOMAIN BitOp8x = {"YYCCBO_BITNO"}
  /\ DOMAIN Shift8x = {"SHIFT_IMMEDIATE"}
  /\ DOMAIN Immediate8x = {"IMM14", "IMM16"}
  /\ DOMAIN Data8x = {"DATADM", "DATAPM", "DATA24"}
  /\ DOMAIN Address8x = {"FLAGIN", "PM14", "DM14", "IOADDR"}
  /\ DOMAIN Small8x = {"YYCCBO_BITNO", "SHIFT_IMMEDIATE"}
<1>1. DOMAIN emit = {"DATADM", "DATAPM", "DATA24"}  BY DEF emit
<1>2. DOMAIN FlagIn8x = {"FLAGIN"}  BY DEF FlagIn8x
<1>3. DOMAIN Register8x = {"IMM16", "IMM14"}  BY DEF Register8x
<1>4. DOMAIN Direct8x = {"DM14", "IOADDR"}  BY DEF Direct8x
<1>5. DOMAIN JumpCall8x = {"PM14"}  BY DEF JumpCall8x
<1>6. DOMAIN BitOp8x = {"YYCCBO_BITNO"}  BY DEF BitOp8x
<1>7. DOMAIN Shift8x = {"SHIFT_IMMEDIATE"}  BY DEF Shift8x
<1>8. DOMAIN Immediate8x = {"IMM14", "IMM16"}  BY DEF Immediate8x
<1>9. DOMAIN Data8x = {"DATADM", "DATAPM", "DATA24"}  BY DEF Data8x
<1>10. DOMAIN Address8x = {"FLAGIN", "PM14", "DM14", "IOADDR"}  BY DEF Address8x
<1>11. DOMAIN Small8x = {"YYCCBO_BITNO", "SHIFT_IMMEDIATE"}  BY DEF Small8x
<1> QED BY <1>1, <1>2, <1>3, <1>4, <1>5, <1>6, <1>7, <1>8, <1>9, <1>10, <1>11

\* The tables, by their place.
LEMMA TablesAt8x ==
  /\ DOMAIN Tables8x = 1 .. 7 /\ DOMAIN Fixups8x = 1 .. 4
  /\ Tables8x[1] = emit /\ Tables8x[2] = FlagIn8x /\ Tables8x[3] = Register8x
  /\ Tables8x[4] = Direct8x /\ Tables8x[5] = JumpCall8x /\ Tables8x[6] = BitOp8x
  /\ Tables8x[7] = Shift8x
  /\ Fixups8x[1] = Immediate8x /\ Fixups8x[2] = Data8x /\ Fixups8x[3] = Address8x
  /\ Fixups8x[4] = Small8x
BY DEF Tables8x, Fixups8x

\* The tables of as21 for the machine.
LEMMA Constants8x == Constants("218X") = Entries(Tables8x)
BY DEF Constants, Tables8x

\* The types of relocations of the ADSP-218X.
LEMMA Types8x ==
  Types("218X") = {"DATADM", "DATAPM", "DATA24", "FLAGIN", "IMM16", "IMM14", "DM14",
                    "IOADDR", "PM14", "YYCCBO_BITNO", "SHIFT_IMMEDIATE", "YYCCBO"}
<1>1. DOMAIN Entries(Tables8x) = UNION {DOMAIN Tables8x[i] : i \in 1 .. 7}
  BY TablesAt8x, EntriesDomain, Zenon
<1>2. 1 .. 7 = {1, 2, 3, 4, 5, 6, 7}  OBVIOUS
<1> QED BY <1>1, <1>2, TablesAt8x, Constants8x, Domains8x DEF Types

\* Where as21 looks a type up.
LEMMA Entries8x ==
  ASSUME NEW i \in 1 .. 7, NEW type \in DOMAIN Tables8x[i]
  PROVE  Constants("218X")[type] = Tables8x[i][type]
<1>1. \A j \in 1 .. 7 : type \in DOMAIN Tables8x[j] => j = i
  BY TablesAt8x, Domains8x
<1>2. /\ i \in DOMAIN Tables8x
      /\ \A j \in DOMAIN Tables8x : type \in DOMAIN Tables8x[j] => j = i
  BY <1>1, TablesAt8x
<1>3. Entries(Tables8x)[type] = Tables8x[i][type]
  BY <1>2, EntriesLemma, Zenon
<1> QED BY <1>3, Constants8x

\* Where ld21 looks a type up.
LEMMA Fixups8xEntries ==
  ASSUME NEW i \in 1 .. 4, NEW type \in DOMAIN Fixups8x[i]
  PROVE  Entries(Fixups8x)[type] = Fixups8x[i][type]
<1>1. \A j \in 1 .. 4 : type \in DOMAIN Fixups8x[j] => j = i
  BY TablesAt8x, Domains8x
<1>2. /\ i \in DOMAIN Fixups8x
      /\ \A j \in DOMAIN Fixups8x : type \in DOMAIN Fixups8x[j] => j = i
  BY <1>1, TablesAt8x
<1> QED BY <1>2, EntriesLemma, Zenon

\* The two programs put the constant of a type into the same fields, and check the same
\* range where the types are not Different.
LEMMA Matches8x ==
  ASSUME NEW type \in Types("218X") \ {"YYCCBO"}
  PROVE  Matches(Entries(Fixups8x)[type], Constants("218X")[type], type, type)
<1>1. CASE type \in {"DATADM", "DATAPM", "DATA24"}
  <2>1. /\ Constants("218X")[type] = emit[type]
        /\ Entries(Fixups8x)[type] = Data8x[type]
    BY <1>1, TablesAt8x, Domains8x, Entries8x, Fixups8xEntries
  <2> QED BY <1>1, <2>1, Fields8x
<1>2. CASE type \in {"FLAGIN"}
  <2>1. /\ Constants("218X")[type] = FlagIn8x[type]
        /\ Entries(Fixups8x)[type] = Address8x[type]
    BY <1>2, TablesAt8x, Domains8x, Entries8x, Fixups8xEntries
  <2> QED BY <1>2, <2>1, Fields8x
<1>3. CASE type \in {"IMM16", "IMM14"}
  <2>1. /\ Constants("218X")[type] = Register8x[type]
        /\ Entries(Fixups8x)[type] = Immediate8x[type]
    BY <1>3, TablesAt8x, Domains8x, Entries8x, Fixups8xEntries
  <2> QED BY <1>3, <2>1, Fields8x
<1>4. CASE type \in {"DM14", "IOADDR"}
  <2>1. /\ Constants("218X")[type] = Direct8x[type]
        /\ Entries(Fixups8x)[type] = Address8x[type]
    BY <1>4, TablesAt8x, Domains8x, Entries8x, Fixups8xEntries
  <2> QED BY <1>4, <2>1, Fields8x
<1>5. CASE type \in {"PM14"}
  <2>1. /\ Constants("218X")[type] = JumpCall8x[type]
        /\ Entries(Fixups8x)[type] = Address8x[type]
    BY <1>5, TablesAt8x, Domains8x, Entries8x, Fixups8xEntries
  <2> QED BY <1>5, <2>1, Fields8x
<1>6. CASE type \in {"YYCCBO_BITNO"}
  <2>1. /\ Constants("218X")[type] = BitOp8x[type]
        /\ Entries(Fixups8x)[type] = Small8x[type]
    BY <1>6, TablesAt8x, Domains8x, Entries8x, Fixups8xEntries
  <2> QED BY <1>6, <2>1, Fields8x
<1>7. CASE type \in {"SHIFT_IMMEDIATE"}
  <2>1. /\ Constants("218X")[type] = Shift8x[type]
        /\ Entries(Fixups8x)[type] = Small8x[type]
    BY <1>7, TablesAt8x, Domains8x, Entries8x, Fixups8xEntries
  <2> QED BY <1>7, <2>1, Fields8x
<1> QED BY <1>1, <1>2, <1>3, <1>4, <1>5, <1>6, <1>7, Types8x

\* The tables of as21 and of ld21 for the ADSP-219X.
Tables9x == <<emit, Load9x, Do9x, Register9x, Long9x, JumpCall9x, Condition9x, Direct9x,
            IoRw9x, BitOp9x, Shift9x, Modify9x>>
Fixups9x == <<Immediate9x, Data9x, Memory9x, Address9x, Small9x>>

\* The same for the ADSP-219X.
LEMMA Domains9x ==
  /\ DOMAIN emit = {"DATADM", "DATAPM", "DATA24"}
  /\ DOMAIN Load9x = {"DMLOAD", "PMLOAD"}
  /\ DOMAIN Do9x = {"DO"}
  /\ DOMAIN Register9x = {"IMM12", "IMM16"}
  /\ DOMAIN Long9x = {"LONG"}
  /\ DOMAIN JumpCall9x = {"REL"}
  /\ DOMAIN Condition9x = {"REL_IF"}
  /\ DOMAIN Direct9x = {"DM16"}
  /\ DOMAIN IoRw9x = {"IOADDR"}
  /\ DOMAIN BitOp9x = {"YYCCBO_BITNO"}
  /\ DOMAIN Shift9x = {"SHIFT_IMMEDIATE"}
  /\ DOMAIN Modify9x = {"MODIFY_IMMEDIATE"}
  /\ DOMAIN Immediate9x = {"IMM12", "IMM16"}
  /\ DOMAIN Data9x = {"DATADM", "DATAPM", "DATA24"}
  /\ DOMAIN Memory9x = {"DMLOAD", "PMLOAD"}
  /\ DOMAIN Address9x = {"LONG", "DM16", "IOADDR"}
  /\ DOMAIN Small9x = {"YYCCBO_BITNO", "SHIFT_IMMEDIATE", "MODIFY_IMMEDIATE"}
<1>1. DOMAIN emit = {"DATADM", "DATAPM", "DATA24"}  BY DEF emit
<1>2. DOMAIN Load9x = {"DMLOAD", "PMLOAD"}  BY DEF Load9x
<1>3. DOMAIN Do9x = {"DO"}  BY DEF Do9x
<1>4. DOMAIN Register9x = {"IMM12", "IMM16"}  BY DEF Register9x
<1>5. DOMAIN Long9x = {"LONG"}  BY DEF Long9x
<1>6. DOMAIN JumpCall9x = {"REL"}  BY DEF JumpCall9x
<1>7. DOMAIN Condition9x = {"REL_IF"}  BY DEF Condition9x
<1>8. DOMAIN Direct9x = {"DM16"}  BY DEF Direct9x
<1>9. DOMAIN IoRw9x = {"IOADDR"}  BY DEF IoRw9x
<1>10. DOMAIN BitOp9x = {"YYCCBO_BITNO"}  BY DEF BitOp9x
<1>11. DOMAIN Shift9x = {"SHIFT_IMMEDIATE"}  BY DEF Shift9x
<1>12. DOMAIN Modify9x = {"MODIFY_IMMEDIATE"}  BY DEF Modify9x
<1>13. DOMAIN Immediate9x = {"IMM12", "IMM16"}  BY DEF Immediate9x
<1>14. DOMAIN Data9x = {"DATADM", "DATAPM", "DATA24"}  BY DEF Data9x
<1>15. DOMAIN Memory9x = {"DMLOAD", "PMLOAD"}  BY DEF Memory9x
<1>16. DOMAIN Address9x = {"LONG", "DM16", "IOADDR"}  BY DEF Address9x
<1>17. DOMAIN Small9x = {"YYCCBO_BITNO", "SHIFT_IMMEDIATE", "MODIFY_IMMEDIATE"}  BY DEF Small9x
<1> QED BY <1>1, <1>2, <1>3, <1>4, <1>5, <1>6, <1>7, <1>8, <1>9, <1>10, <1>11, <1>12,
       <1>13, <1>14, <1>15, <1>16, <1>17

\* The tables, by their place.
LEMMA TablesAt9x ==
  /\ DOMAIN Tables9x = 1 .. 12 /\ DOMAIN Fixups9x = 1 .. 5
  /\ Tables9x[1] = emit /\ Tables9x[2] = Load9x /\ Tables9x[3] = Do9x
  /\ Tables9x[4] = Register9x /\ Tables9x[5] = Long9x /\ Tables9x[6] = JumpCall9x
  /\ Tables9x[7] = Condition9x /\ Tables9x[8] = Direct9x /\ Tables9x[9] = IoRw9x
  /\ Tables9x[10] = BitOp9x /\ Tables9x[11] = Shift9x /\ Tables9x[12] = Modify9x
  /\ Fixups9x[1] = Immediate9x /\ Fixups9x[2] = Data9x /\ Fixups9x[3] = Memory9x
  /\ Fixups9x[4] = Address9x /\ Fixups9x[5] = Small9x
BY DEF Tables9x, Fixups9x

\* The tables of as21 for the machine.
LEMMA Constants9x == Constants("219X") = Entries(Tables9x)
BY DEF Constants, Tables9x

\* The types of relocations of the ADSP-219X.
LEMMA Types9x ==
  Types("219X") = {"DATADM", "DATAPM", "DATA24", "DMLOAD", "PMLOAD", "DO", "IMM12",
                    "IMM16", "LONG", "REL", "DM16", "IOADDR", "YYCCBO_BITNO",
                    "SHIFT_IMMEDIATE", "MODIFY_IMMEDIATE", "YYCCBO"}
<1>1. DOMAIN Entries(Tables9x) = UNION {DOMAIN Tables9x[i] : i \in 1 .. 12}
  BY TablesAt9x, EntriesDomain, Zenon
<1>2. 1 .. 12 = {1, 2, 3, 4, 5, 6, 7, 8, 9, 10, 11, 12}  OBVIOUS
<1> QED BY <1>1, <1>2, TablesAt9x, Constants9x, Domains9x DEF Types

\* Where as21 looks a type up.
LEMMA Entries9x ==
  ASSUME NEW i \in 1 .. 12, NEW type \in DOMAIN Tables9x[i]
  PROVE  Constants("219X")[type] = Tables9x[i][type]
<1>1. \A j \in 1 .. 12 : type \in DOMAIN Tables9x[j] => j = i
  BY TablesAt9x, Domains9x
<1>2. /\ i \in DOMAIN Tables9x
      /\ \A j \in DOMAIN Tables9x : type \in DOMAIN Tables9x[j] => j = i
  BY <1>1, TablesAt9x
<1>3. Entries(Tables9x)[type] = Tables9x[i][type]
  BY <1>2, EntriesLemma, Zenon
<1> QED BY <1>3, Constants9x

\* Where ld21 looks a type up.
LEMMA Fixups9xEntries ==
  ASSUME NEW i \in 1 .. 5, NEW type \in DOMAIN Fixups9x[i]
  PROVE  Entries(Fixups9x)[type] = Fixups9x[i][type]
<1>1. \A j \in 1 .. 5 : type \in DOMAIN Fixups9x[j] => j = i
  BY TablesAt9x, Domains9x
<1>2. /\ i \in DOMAIN Fixups9x
      /\ \A j \in DOMAIN Fixups9x : type \in DOMAIN Fixups9x[j] => j = i
  BY <1>1, TablesAt9x
<1> QED BY <1>2, EntriesLemma, Zenon

\* The two programs agree on the types that are not counted from the word itself.
LEMMA Matches9x ==
  ASSUME NEW type \in Types("219X") \ {"YYCCBO", "DO", "REL"}
  PROVE  Matches(Entries(Fixups9x)[type], Constants("219X")[type], type, type)
<1>1. CASE type \in {"DATADM", "DATAPM", "DATA24"}
  <2>1. /\ Constants("219X")[type] = emit[type]
        /\ Entries(Fixups9x)[type] = Data9x[type]
    BY <1>1, TablesAt9x, Domains9x, Entries9x, Fixups9xEntries
  <2> QED BY <1>1, <2>1, Fields9x
<1>2. CASE type \in {"DMLOAD", "PMLOAD"}
  <2>1. /\ Constants("219X")[type] = Load9x[type]
        /\ Entries(Fixups9x)[type] = Memory9x[type]
    BY <1>2, TablesAt9x, Domains9x, Entries9x, Fixups9xEntries
  <2> QED BY <1>2, <2>1, Fields9x
<1>3. CASE type \in {"IMM12", "IMM16"}
  <2>1. /\ Constants("219X")[type] = Register9x[type]
        /\ Entries(Fixups9x)[type] = Immediate9x[type]
    BY <1>3, TablesAt9x, Domains9x, Entries9x, Fixups9xEntries
  <2> QED BY <1>3, <2>1, Fields9x
<1>4. CASE type \in {"LONG"}
  <2>1. /\ Constants("219X")[type] = Long9x[type]
        /\ Entries(Fixups9x)[type] = Address9x[type]
    BY <1>4, TablesAt9x, Domains9x, Entries9x, Fixups9xEntries
  <2> QED BY <1>4, <2>1, Fields9x
<1>5. CASE type \in {"DM16"}
  <2>1. /\ Constants("219X")[type] = Direct9x[type]
        /\ Entries(Fixups9x)[type] = Address9x[type]
    BY <1>5, TablesAt9x, Domains9x, Entries9x, Fixups9xEntries
  <2> QED BY <1>5, <2>1, Fields9x
<1>6. CASE type \in {"IOADDR"}
  <2>1. /\ Constants("219X")[type] = IoRw9x[type]
        /\ Entries(Fixups9x)[type] = Address9x[type]
    BY <1>6, TablesAt9x, Domains9x, Entries9x, Fixups9xEntries
  <2> QED BY <1>6, <2>1, Fields9x
<1>7. CASE type \in {"YYCCBO_BITNO"}
  <2>1. /\ Constants("219X")[type] = BitOp9x[type]
        /\ Entries(Fixups9x)[type] = Small9x[type]
    BY <1>7, TablesAt9x, Domains9x, Entries9x, Fixups9xEntries
  <2> QED BY <1>7, <2>1, Fields9x
<1>8. CASE type \in {"SHIFT_IMMEDIATE"}
  <2>1. /\ Constants("219X")[type] = Shift9x[type]
        /\ Entries(Fixups9x)[type] = Small9x[type]
    BY <1>8, TablesAt9x, Domains9x, Entries9x, Fixups9xEntries
  <2> QED BY <1>8, <2>1, Fields9x
<1>9. CASE type \in {"MODIFY_IMMEDIATE"}
  <2>1. /\ Constants("219X")[type] = Modify9x[type]
        /\ Entries(Fixups9x)[type] = Small9x[type]
    BY <1>9, TablesAt9x, Domains9x, Entries9x, Fixups9xEntries
  <2> QED BY <1>9, <2>1, Fields9x
<1> QED BY <1>1, <1>2, <1>3, <1>4, <1>5, <1>6, <1>7, <1>8, <1>9, Types9x

-----------------------------------------------------------------------------
(* Values that are put into the fields of words.                           *)

\* They agree on those that are, a jump with a condition apart.
LEMMA Offsets ==
  ASSUME NEW jump \in BOOLEAN
  PROVE  /\ Matches(Offset9x(jump)["DO"], Constants("219X")["DO"], "DO", "DO")
         /\ ~ jump => Matches(Offset9x(jump)["REL"], Constants("219X")["REL"], "REL", "REL")
         /\ jump => Matches(Offset9x(jump)["REL"], Constants("219X")["REL_IF"], "REL", "REL_IF")
<1>1. /\ Constants("219X")["DO"] = Do9x["DO"]
      /\ Constants("219X")["REL"] = JumpCall9x["REL"]
      /\ Constants("219X")["REL_IF"] = Condition9x["REL_IF"]
  BY TablesAt9x, Domains9x, Entries9x
<1>2. Matches(Offset9x(jump)["DO"], Do9x["DO"], "DO", "DO")
  <2>1. \E x, y : Do9x["DO"] = One(Signed(12), {Field(0, 11, 4)}, x, y)
    BY SMT DEF Do9x
  <2>2. Offset9x(jump)["DO"] = Or(Unsigned(12), <<{Field(0, 11, 4)}>>)
    BY SMT DEF Offset9x, check_unsigned
  <2> QED BY <2>1, <2>2, OneWord DEF Different
<1>3. ~ jump => Matches(Offset9x(jump)["REL"], JumpCall9x["REL"], "REL", "REL")
  <2> SUFFICES ASSUME ~ jump PROVE Matches(Offset9x(jump)["REL"], JumpCall9x["REL"], "REL", "REL")
    OBVIOUS
  <2>1. \E x, y : JumpCall9x["REL"] = One(Signed(16), {Field(0, 13, 4), Field(14, 15, 0)}, x, y)
    BY SMT DEF JumpCall9x
  <2>2. Offset9x(jump)["REL"] = Or(Signed(16), <<{Field(0, 13, 4), Field(14, 15, 0)}>>)
    BY SMT DEF Offset9x, check_signed
  <2> QED BY <2>1, <2>2, OneWord
<1>4. jump => Matches(Offset9x(jump)["REL"], Condition9x["REL_IF"], "REL", "REL_IF")
  <2> SUFFICES ASSUME jump PROVE Matches(Offset9x(jump)["REL"], Condition9x["REL_IF"], "REL", "REL_IF")
    OBVIOUS
  <2>1. \E x, y : Condition9x["REL_IF"] = One(Signed(14), {Field(0, 12, 4)}, x, y)
    BY SMT DEF Condition9x
  <2>2. Offset9x(jump)["REL"] = Or(Signed(13), <<{Field(0, 12, 4)}>>)
    BY SMT DEF Offset9x, check_signed
  <2> QED BY <2>1, <2>2, OneWord DEF Different
<1> QED BY <1>1, <1>2, <1>3, <1>4

\* What as21 writes into the words that a relocation covers, by its tables.
Filled(entry, type, number, old) ==
  [w \in DOMAIN old |->
     (IF type \in DOMAIN emit THEN {} ELSE old[w]) \cup FieldBits(number, entry.fields[w])]

\* A relocation leaves an error and the words as they were, or what as21 writes, and no
\* error when as21 takes the number.
Agrees(result, entry, type, as, number, old) ==
  /\ result.is \in {"done", "error"}
  /\ result.is = "error" => result.code = old
  /\ result.is = "done" => result.code = Filled(entry, type, number, old)
  /\ as \notin Different => (result.is = "done" <=> number \in entry.range)

\* Entries that match put the same bits.
LEMMA PutValueAgrees ==
  ASSUME NEW how, NEW entry, NEW type, NEW as, NEW number, NEW old,
         Matches(how, entry, type, as), DOMAIN old = 1 .. RelocatedWords(type)
  PROVE  Agrees(PutValue(how, number, old), entry, type, as, number, old)
<1> DEFINE result == PutValue(how, number, old)
<1>1. CASE number \notin how.range
  <2>1. result.is = "error" /\ result.code = old
    BY <1>1 DEF PutValue, Result
  <2> HIDE DEF result
  <2>2. Agrees(result, entry, type, as, number, old)
    BY <1>1, <2>1 DEF Agrees, Matches
  <2> QED BY <2>2 DEF result
<1>2. CASE number \in how.range
  <2> DEFINE new == [w \in DOMAIN how.fields |->
                      (IF how.keeps THEN old[w] ELSE {}) \cup FieldBits(number, how.fields[w])]
  <2>1. result.is = "done" /\ result.code = new
    BY <1>2 DEF PutValue, Result
  <2>2. new = Filled(entry, type, number, old)
    BY DEF Filled, Matches
  <2> HIDE DEF new, result
  <2>3. Agrees(result, entry, type, as, number, old)
    BY <1>2, <2>1, <2>2 DEF Agrees, Matches
  <2> QED BY <2>3 DEF result
<1> QED BY <1>1, <1>2
-----------------------------------------------------------------------------

\* Which bits of a number are 1.
LEMMA InBits ==
  ASSUME NEW v, NEW lo, NEW hi, NEW at_, NEW b
  PROVE  b \in Bits(v, lo, hi, at_) <=>
           \E c \in lo .. hi : b = c + at_ - lo /\ (v \div 2^c) % 2 = 1
BY DEF Bits

\* The same for bits that are moved.
LEMMA InBitsAt ==
  ASSUME NEW v, NEW lo \in Int, NEW hi \in Int, NEW at_ \in Int, NEW c \in lo .. hi
  PROVE  c + at_ - lo \in Bits(v, lo, hi, at_) <=> (v \div 2^c) % 2 = 1
<1> DEFINE Is(d) == (v \div 2^d) % 2 = 1
<1>1. c + at_ - lo \in Bits(v, lo, hi, at_) <=> \E d \in lo .. hi : c + at_ - lo = d + at_ - lo /\ Is(d)
  BY InBits
<1>2. \A d \in lo .. hi : c + at_ - lo = d + at_ - lo <=> d = c  OBVIOUS
<1> HIDE DEF Is
<1>3. c + at_ - lo \in Bits(v, lo, hi, at_) <=> Is(c)
  BY <1>1, <1>2, Zenon
<1> QED BY <1>3 DEF Is

\* The powers of 2 that a word is made with.
LEMMA Powers ==
  /\ 2^0 = 1 /\ 2^1 = 2 /\ 2^2 = 4 /\ 2^3 = 8 /\ 2^4 = 16 /\ 2^5 = 32 /\ 2^6 = 64
  /\ 2^7 = 128 /\ 2^8 = 256 /\ 2^9 = 512 /\ 2^10 = 1024 /\ 2^11 = 2048 /\ 2^12 = 4096
  /\ 2^13 = 8192 /\ 2^14 = 16384 /\ 2^15 = 32768 /\ 2^16 = 65536
BY SMT

\* A function has one code.
LEMMA AMFIsOne ==
  ASSUME NEW f \in 0 .. 31, NEW g \in 0 .. 31, AMF(f) = AMF(g)
  PROVE  f = g
<1>1. \A c \in 0 .. 4 : (f \div 2^c) % 2 = 1 <=> c + 13 - 0 \in AMF(f)
  <2>1. 0 \in Int /\ 4 \in Int /\ 13 \in Int  OBVIOUS
  <2> QED BY <2>1, InBitsAt, ZenonT(60) DEF AMF
<1>2. \A c \in 0 .. 4 : (g \div 2^c) % 2 = 1 <=> c + 13 - 0 \in AMF(g)
  <2>1. 0 \in Int /\ 4 \in Int /\ 13 \in Int  OBVIOUS
  <2> QED BY <2>1, InBitsAt, ZenonT(60) DEF AMF
<1>3. \A c \in 0 .. 4 : (f \div 2^c) % 2 = 1 <=> (g \div 2^c) % 2 = 1
  BY <1>1, <1>2
<1>4. /\ (f \div 1) % 2 = 1 <=> (g \div 1) % 2 = 1
      /\ (f \div 2) % 2 = 1 <=> (g \div 2) % 2 = 1
      /\ (f \div 4) % 2 = 1 <=> (g \div 4) % 2 = 1
      /\ (f \div 8) % 2 = 1 <=> (g \div 8) % 2 = 1
      /\ (f \div 16) % 2 = 1 <=> (g \div 16) % 2 = 1
  BY <1>3, Powers
<1> QED BY <1>4

\* The function that is in a word.
LEMMA FunctionIs ==
  ASSUME NEW word, NEW f \in 0 .. 31, word \cap AMF_MASK = AMF(f)
  PROVE  Function(word) = f
BY AMFIsOne DEF Function

-----------------------------------------------------------------------------
(* Constants of the ALU: the ways to reach one.                            *)

\* 0 is a constant of the ALU.
LEMMA ZeroConstant == check_yyccbo(0) = YOP_ZERO /\ YOP_ZERO # {}
BY DEF check_yyccbo, YOP_ZERO

\* The first of the ways that reaches the constant, as the linker takes it.
Reach(ways) == {i \in DOMAIN ways : check_yyccbo(ways[i][2]) # {}}
FirstWay(ways) == ways[CHOOSE i \in Reach(ways) : \A j \in Reach(ways) : i <= j]

\* The ways and the table of as21 agree.
SameWays(ways, amf, constant) ==
  /\ ways # << >>
  /\ Reach(ways) = {} <=> AluConstant(amf, constant) = {}
  /\ Reach(ways) # {} =>
       AluConstant(amf, constant) = AMF(FirstWay(ways)[1]) \cup check_yyccbo(FirstWay(ways)[2])

\* The first way that can be said, of one way to reach a constant.
LEMMA OneWay ==
  ASSUME NEW f, NEW n
  PROVE  LET ways == <<<<f, n>>>>
         IN /\ ways # << >>
            /\ check_yyccbo(n) = {} => Reach(ways) = {}
            /\ check_yyccbo(n) # {} => Reach(ways) # {} /\ FirstWay(ways) = <<f, n>>
<1> DEFINE ways == <<<<f, n>>>>
<1>1. ways # << >> /\ DOMAIN ways = {1} /\ ways[1] = <<f, n>> /\ ways[1][2] = n
  OBVIOUS
<1> HIDE DEF ways
<1>2. check_yyccbo(n) = {} => Reach(ways) = {}
  BY <1>1 DEF Reach
<1>3. check_yyccbo(n) # {} => Reach(ways) = {1}
  BY <1>1 DEF Reach
<1>4. check_yyccbo(n) # {} => FirstWay(ways) = <<f, n>>
  BY <1>1, <1>3 DEF FirstWay
<1> QED BY <1>1, <1>2, <1>3, <1>4 DEF ways

\* The same of two.
LEMMA TwoWays ==
  ASSUME NEW f, NEW n, NEW g, NEW m
  PROVE  LET ways == <<<<f, n>>, <<g, m>>>>
         IN /\ ways # << >>
            /\ check_yyccbo(n) = {} /\ check_yyccbo(m) = {} => Reach(ways) = {}
            /\ check_yyccbo(n) # {} => Reach(ways) # {} /\ FirstWay(ways) = <<f, n>>
            /\ check_yyccbo(n) = {} /\ check_yyccbo(m) # {} =>
                 Reach(ways) # {} /\ FirstWay(ways) = <<g, m>>
<1> DEFINE ways == <<<<f, n>>, <<g, m>>>>
<1>1. /\ ways # << >> /\ DOMAIN ways = {1, 2} /\ ways[1] = <<f, n>> /\ ways[1][2] = n
      /\ ways[2] = <<g, m>> /\ ways[2][2] = m
  OBVIOUS
<1> HIDE DEF ways
<1>2. Reach(ways) = (IF check_yyccbo(n) = {} THEN {} ELSE {1})
                      \cup (IF check_yyccbo(m) = {} THEN {} ELSE {2})
  BY <1>1 DEF Reach
<1>3. check_yyccbo(n) # {} =>
        (CHOOSE i \in Reach(ways) : \A j \in Reach(ways) : i <= j) = 1
  BY <1>2
<1>4. check_yyccbo(n) = {} /\ check_yyccbo(m) # {} =>
        (CHOOSE i \in Reach(ways) : \A j \in Reach(ways) : i <= j) = 2
  BY <1>2
<1>5. check_yyccbo(n) = {} /\ check_yyccbo(m) = {} => Reach(ways) = {}
  BY <1>2
<1>6. check_yyccbo(n) # {} => Reach(ways) # {} /\ FirstWay(ways) = <<f, n>>
  BY <1>1, <1>2, <1>3 DEF FirstWay
<1>7. check_yyccbo(n) = {} /\ check_yyccbo(m) # {} =>
        Reach(ways) # {} /\ FirstWay(ways) = <<g, m>>
  BY <1>1, <1>2, <1>4 DEF FirstWay
<1> QED BY <1>1, <1>5, <1>6, <1>7 DEF ways

\* The same of three.
LEMMA ThreeWays ==
  ASSUME NEW f, NEW n, NEW g, NEW m, NEW h, NEW k
  PROVE  LET ways == <<<<f, n>>, <<g, m>>, <<h, k>>>>
         IN /\ ways # << >>
            /\ check_yyccbo(n) = {} /\ check_yyccbo(m) = {} /\ check_yyccbo(k) = {} =>
                 Reach(ways) = {}
            /\ check_yyccbo(n) # {} => Reach(ways) # {} /\ FirstWay(ways) = <<f, n>>
            /\ check_yyccbo(n) = {} /\ check_yyccbo(m) # {} =>
                 Reach(ways) # {} /\ FirstWay(ways) = <<g, m>>
            /\ check_yyccbo(n) = {} /\ check_yyccbo(m) = {} /\ check_yyccbo(k) # {} =>
                 Reach(ways) # {} /\ FirstWay(ways) = <<h, k>>
<1> DEFINE ways == <<<<f, n>>, <<g, m>>, <<h, k>>>>
<1>1. /\ ways # << >> /\ DOMAIN ways = {1, 2, 3} /\ ways[1] = <<f, n>> /\ ways[1][2] = n
      /\ ways[2] = <<g, m>> /\ ways[2][2] = m /\ ways[3] = <<h, k>> /\ ways[3][2] = k
  OBVIOUS
<1> HIDE DEF ways
<1>2. Reach(ways) = (IF check_yyccbo(n) = {} THEN {} ELSE {1})
                      \cup (IF check_yyccbo(m) = {} THEN {} ELSE {2})
                      \cup (IF check_yyccbo(k) = {} THEN {} ELSE {3})
  BY <1>1 DEF Reach
<1>3. check_yyccbo(n) # {} =>
        (CHOOSE i \in Reach(ways) : \A j \in Reach(ways) : i <= j) = 1
  BY <1>2
<1>4. check_yyccbo(n) = {} /\ check_yyccbo(m) # {} =>
        (CHOOSE i \in Reach(ways) : \A j \in Reach(ways) : i <= j) = 2
  BY <1>2
<1>5. check_yyccbo(n) = {} /\ check_yyccbo(m) = {} /\ check_yyccbo(k) # {} =>
        (CHOOSE i \in Reach(ways) : \A j \in Reach(ways) : i <= j) = 3
  BY <1>2
<1>6. check_yyccbo(n) = {} /\ check_yyccbo(m) = {} /\ check_yyccbo(k) = {} => Reach(ways) = {}
  BY <1>2
<1>7. check_yyccbo(n) # {} => Reach(ways) # {} /\ FirstWay(ways) = <<f, n>>
  BY <1>1, <1>2, <1>3 DEF FirstWay
<1>8. check_yyccbo(n) = {} /\ check_yyccbo(m) # {} =>
        Reach(ways) # {} /\ FirstWay(ways) = <<g, m>>
  BY <1>1, <1>2, <1>4 DEF FirstWay
<1>9. check_yyccbo(n) = {} /\ check_yyccbo(m) = {} /\ check_yyccbo(k) # {} =>
        Reach(ways) # {} /\ FirstWay(ways) = <<h, k>>
  BY <1>1, <1>2, <1>5 DEF FirstWay
<1> QED BY <1>1, <1>6, <1>7, <1>8, <1>9 DEF ways

\* The ways that ld21 tries are those of as21, in the same order.
LEMMA WaysAgree ==
  ASSUME NEW amf \in AluFunctions, NEW constant \in Int
  PROVE  SameWays(Ways(amf, constant), amf, constant)
<1>1. CASE amf = \h10
  <2>1. Ways(amf, constant) = PassWays(constant) /\ AluConstant(amf, constant) = PassConstant(constant)
    BY <1>1 DEF Ways, AluConstant
  <2>2. CASE constant = -1
    <3>1. PassWays(constant) = <<<<\h18, 0>>>>  BY <2>2 DEF PassWays
    <3>2. PassConstant(constant) = AMF(\h18) \cup YOP_ZERO  BY <2>2 DEF PassConstant
    <3> QED BY <2>1, <3>1, <3>2, ZeroConstant, OneWay DEF SameWays
  <2>3. CASE constant = 1
    <3>1. PassWays(constant) = <<<<\h11, 0>>>>  BY <2>3 DEF PassWays
    <3>2. PassConstant(constant) = AMF(\h11) \cup YOP_ZERO  BY <2>3 DEF PassConstant
    <3> QED BY <2>1, <3>1, <3>2, ZeroConstant, OneWay DEF SameWays
  <2>4. CASE constant # -1 /\ constant # 1
    <3>1. PassWays(constant) = <<<<\h10, constant>>, <<\h18, constant + 1>>, <<\h11, constant - 1>>>>
      BY <2>4 DEF PassWays
    <3>2. PassConstant(constant) =
            IF check_yyccbo(constant) # {} THEN AMF(\h10) \cup check_yyccbo(constant)
            ELSE IF check_yyccbo(constant + 1) # {}
              THEN AMF(\h18) \cup check_yyccbo(constant + 1)
            ELSE IF check_yyccbo(constant - 1) # {}
              THEN AMF(\h11) \cup check_yyccbo(constant - 1)
            ELSE {}
      BY <2>4 DEF PassConstant
    <3> QED BY <2>1, <3>1, <3>2, ThreeWays DEF SameWays
  <2> QED BY <2>2, <2>3, <2>4
<1>2. CASE amf = \h13
  <2>1. Ways(amf, constant) = XopPlusWays(constant) /\ AluConstant(amf, constant) = XopPlusConstant(constant)
    BY <1>2 DEF Ways, AluConstant
  <2> QED BY <2>1, TwoWays DEF SameWays, XopPlusWays, XopPlusConstant
<1>3. CASE amf = \h17
  <2>1. Ways(amf, constant) = XopMinusWays(constant) /\ AluConstant(amf, constant) = XopMinusConstant(constant)
    BY <1>3 DEF Ways, AluConstant
  <2> QED BY <2>1, TwoWays DEF SameWays, XopMinusWays, XopMinusConstant
<1>4. CASE amf \notin {\h10, \h13, \h17}
  <2>1. Ways(amf, constant) = OtherWays(amf, constant) /\ AluConstant(amf, constant) = OtherConstant(amf, constant)
    BY <1>4 DEF Ways, AluConstant
  <2> QED BY <2>1, OneWay DEF SameWays, OtherWays, OtherConstant
<1> QED BY <1>1, <1>2, <1>3, <1>4

-----------------------------------------------------------------------------
(* A relocation does what as21 would have done.                            *)

\* The entry for the instruction of a relocation, whether it has room for a constant of
\* the ALU, what as21's tables give for a number, and whether as21 takes it.
As(type, old) ==
  IF type = "REL" /\ {19, 20} = old[1] \cap (18 .. 23) THEN "REL_IF" ELSE type
Room(type, old) == type \in {"YYCCBO", "YYCCBO_BITNO"} => Computes(old[1])
Written(machine, type, number, old) ==
  IF type = "YYCCBO"
    THEN <<(old[1] \ AMF_MASK) \cup AluConstant(Function(old[1]), number)>>
    ELSE Filled(Constants(machine)[As(type, old)], type, number, old)
Taken(machine, type, number, old) ==
  IF type = "YYCCBO"
    THEN /\ AluConstant(Function(old[1]), number) # {}
         /\ Room(type, old) \/ AluConstant(Function(old[1]), number) \cap BO_MINUS = {}
    ELSE number \in Constants(machine)[As(type, old)].range

Right(result, machine, type, number, old) ==
  /\ result.is \in {"done", "error"}
  /\ result.is = "error" => result.code = old
  /\ result.is = "done" => result.code = Written(machine, type, number, old)
  /\ As(type, old) \notin Different =>
       /\ Taken(machine, type, number, old) => result.is = "done"
       /\ result.is = "done" /\ Room(type, old) => Taken(machine, type, number, old)
  /\ result.is = "done" /\ type = "YYCCBO" => AluConstant(Function(old[1]), number) # {}

\* What ld21 does with a constant of the ALU is what as21 does.
LEMMA PutConstantAgrees ==
  ASSUME NEW machine, NEW number \in Int, NEW old, DOMAIN old = 1 .. 1, LeftOpen("YYCCBO", old[1])
  PROVE  Right(PutConstant(number, old), machine, "YYCCBO", number, old)
<1>1. PICK amf \in AluFunctions : old[1] \cap AMF_MASK = AMF(amf)
  BY DEF LeftOpen
<1>2. amf \in 0 .. 31
  BY DEF AluFunctions
<1>3. Function(old[1]) = amf
  BY <1>1, <1>2, FunctionIs
<1>4. (CHOOSE f \in 0 .. 31 : old[1] \cap AMF_MASK = AMF(f)) = amf
  BY <1>3 DEF Function
<1> DEFINE ways == Ways(amf, number)
           result == PutConstant(number, old)
<1>5. SameWays(ways, amf, number)
  BY WaysAgree
<1>6. result = IF ways = << >> THEN Result("assert", old)
               ELSE IF Reach(ways) = {} THEN Result("error", old)
               ELSE Result("done", <<(old[1] \ AMF_MASK) \cup AMF(FirstWay(ways)[1])
                                       \cup check_yyccbo(FirstWay(ways)[2])>>)
  <2> DEFINE Put_(f) ==
               LET all == Ways(f, number)
               IN IF all = << >> THEN Result("assert", old)
                  ELSE IF Reach(all) = {} THEN Result("error", old)
                  ELSE Result("done", <<(old[1] \ AMF_MASK) \cup AMF(FirstWay(all)[1])
                                          \cup check_yyccbo(FirstWay(all)[2])>>)
  <2>1. result = Put_(CHOOSE f \in 0 .. 31 : old[1] \cap AMF_MASK = AMF(f))
    BY DEF PutConstant, Reach, FirstWay
  <2> HIDE DEF Put_, result
  <2>2. result = Put_(amf)
    BY <1>4, <2>1
  <2> QED BY <2>2 DEF Put_
<1> HIDE DEF ways, result
<1>7. CASE Reach(ways) = {}
  <2>1. result.is = "error" /\ result.code = old
    BY <1>5, <1>6, <1>7 DEF SameWays, Result
  <2>2. AluConstant(Function(old[1]), number) = {}
    BY <1>3, <1>5, <1>7 DEF SameWays
  <2>3. Right(result, machine, "YYCCBO", number, old)
    BY <2>1, <2>2 DEF Right, Taken
  <2> QED BY <2>3 DEF result
<1>8. CASE Reach(ways) # {}
  <2> DEFINE new == <<(old[1] \ AMF_MASK) \cup AMF(FirstWay(ways)[1])
                        \cup check_yyccbo(FirstWay(ways)[2])>>
  <2>1. result.is = "done" /\ result.code = new
    BY <1>5, <1>6, <1>8 DEF SameWays, Result
  <2>2. /\ AluConstant(Function(old[1]), number) # {}
        /\ AluConstant(Function(old[1]), number) =
             AMF(FirstWay(ways)[1]) \cup check_yyccbo(FirstWay(ways)[2])
    BY <1>3, <1>5, <1>8 DEF SameWays
  <2>3. new = Written(machine, "YYCCBO", number, old)
    <3>1. (old[1] \ AMF_MASK) \cup AMF(FirstWay(ways)[1]) \cup check_yyccbo(FirstWay(ways)[2])
            = (old[1] \ AMF_MASK) \cup AluConstant(Function(old[1]), number)
      BY <2>2
    <3> QED BY <3>1 DEF Written
  <2> HIDE DEF new
  <2>4. Right(result, machine, "YYCCBO", number, old)
    BY <2>1, <2>2, <2>3 DEF Right, Taken
  <2> QED BY <2>4 DEF result
<1> QED BY <1>7, <1>8

\* What fixup_code does for each machine and type is what as21 does with the number,
\* which for an offset is counted from the word itself.  It takes every number that as21
\* takes, and no other but for the types of Different and the instructions that have no
\* room for a constant of the ALU.
THEOREM FixupIsRight ==
  ASSUME NEW machine \in Machine, NEW type \in Types(machine), NEW value \in Int,
         NEW here \in Int, NEW old, DOMAIN old = 1 .. RelocatedWords(type),
         LeftOpen(type, old[1])
  PROVE  Right(fixup_code(machine, type, value, here, old), machine, type,
               value - (IF type \in {"DO", "REL"} THEN here ELSE 0), old)
<1>1. CASE type = "YYCCBO"
  <2>1. fixup_code(machine, type, value, here, old) = PutConstant(value, old)
    BY <1>1 DEF fixup_code, fixup_8x_code, fixup_9x_code
  <2>2. RelocatedWords(type) = 1
    BY <1>1 DEF RelocatedWords
  <2>3. value - (IF type \in {"DO", "REL"} THEN here ELSE 0) = value
    BY <1>1
  <2> QED BY <1>1, <2>1, <2>2, <2>3, PutConstantAgrees
<1>2. CASE type # "YYCCBO"
  <2> DEFINE as == As(type, old)
  <2>1. ASSUME NEW result, NEW number, Agrees(result, Constants(machine)[as], type, as, number, old)
        PROVE  Right(result, machine, type, number, old)
    BY <1>2, <2>1 DEF Agrees, Right, Written, Taken
  <2>2. CASE machine = "218X"
    <3>1. type \in Types("218X") \ {"YYCCBO"} /\ type \notin {"DO", "REL"}
      BY <1>2, <2>2, Types8x
    <3>2. as = type
      BY <3>1 DEF As
    <3>3. fixup_code(machine, type, value, here, old) = PutValue(Entries(Fixups8x)[type], value, old)
      BY <1>2, <2>2 DEF fixup_code, fixup_8x_code, Fixups8x
    <3>4. Matches(Entries(Fixups8x)[type], Constants(machine)[as], type, as)
      BY <2>2, <3>1, <3>2, Matches8x
    <3>5. Right(PutValue(Entries(Fixups8x)[type], value, old), machine, type, value, old)
      BY <2>1, <3>4, PutValueAgrees, Zenon
    <3>6. value - (IF type \in {"DO", "REL"} THEN here ELSE 0) = value
      BY <3>1
    <3> QED BY <3>3, <3>5, <3>6
  <2>3. CASE machine = "219X" /\ type \notin {"DO", "REL"}
    <3>1. type \in Types("219X") \ {"YYCCBO", "DO", "REL"}
      BY <1>2, <2>3
    <3>2. as = type
      BY <3>1 DEF As
    <3>3. fixup_code(machine, type, value, here, old) = PutValue(Entries(Fixups9x)[type], value, old)
      BY <1>2, <2>3 DEF fixup_code, fixup_9x_code, Fixups9x
    <3>4. Matches(Entries(Fixups9x)[type], Constants(machine)[as], type, as)
      BY <2>3, <3>1, <3>2, Matches9x
    <3>5. Right(PutValue(Entries(Fixups9x)[type], value, old), machine, type, value, old)
      BY <2>1, <3>4, PutValueAgrees, Zenon
    <3>6. value - (IF type \in {"DO", "REL"} THEN here ELSE 0) = value
      BY <3>1
    <3> QED BY <3>3, <3>5, <3>6
  <2>4. CASE machine = "219X" /\ type \in {"DO", "REL"}
    <3> DEFINE jump == old[1] \cap (18 .. 23)
               conditional == jump = {19, 20}
    <3>1. type = "REL" => jump \in {{19, 20}, {18, 19, 20}}
      BY DEF LeftOpen
    <3>2. fixup_code(machine, type, value, here, old) =
            PutValue(Offset9x(conditional)[type], value - here, old)
      BY <1>2, <2>4, <3>1 DEF fixup_code, fixup_9x_code
    <3>3. as = IF type = "REL" /\ conditional THEN "REL_IF" ELSE type
      BY DEF As
    <3> HIDE DEF conditional, as
    <3>4. conditional \in BOOLEAN
      BY DEF conditional
    <3>5. Matches(Offset9x(conditional)[type], Constants(machine)[as], type, as)
      BY <2>4, <3>3, <3>4, Offsets
    <3>6. Right(PutValue(Offset9x(conditional)[type], value - here, old), machine, type, value - here, old)
      BY <2>1, <3>5, PutValueAgrees, Zenon
    <3>7. value - (IF type \in {"DO", "REL"} THEN here ELSE 0) = value - here
      BY <2>4
    <3> QED BY <3>2, <3>6, <3>7
  <2> QED BY <2>2, <2>3, <2>4 DEF Machine
<1> QED BY <1>1, <1>2

\* A relocation leaves as many words as it covers.
LEMMA RightDomain ==
  ASSUME NEW result, NEW machine, NEW type, NEW number, NEW old,
         DOMAIN old = 1 .. RelocatedWords(type), Right(result, machine, type, number, old)
  PROVE  DOMAIN result.code = 1 .. RelocatedWords(type)
<1>1. type = "YYCCBO" => RelocatedWords(type) = 1
  BY DEF RelocatedWords
<1>2. DOMAIN Written(machine, type, number, old) = 1 .. RelocatedWords(type)
  BY <1>1 DEF Written, Filled
<1> QED BY <1>2 DEF Right

-----------------------------------------------------------------------------
(* The lowest 16 bits of an integer, and the number they make.             *)

\* The numbers that 4 and 16 binary digits make.
Sum4(d, k) == d[k] + 2 * d[k + 1] + 4 * d[k + 2] + 8 * d[k + 3]
Sum16(d) == Sum4(d, 0) + 16 * Sum4(d, 4) + 256 * Sum4(d, 8) + 4096 * Sum4(d, 12)

\* The 16 lowest bits of an integer.
Digits(n) == [k \in 0 .. 15 |-> (n \div 2^k) % 2]

\* A number and its next bit.
LEMMA HalfOf ==
  ASSUME NEW n \in Int, NEW m \in Nat \ {0}
  PROVE  n \div m = 2 * (n \div (2 * m)) + ((n \div m) % 2)
<1>1. PICK q \in Int : q = n \div m  OBVIOUS
<1>2. PICK r \in 0 .. m - 1 : n = m * q + r  BY <1>1
<1>3. PICK p \in Int : p = q \div 2  OBVIOUS
<1>4. PICK d \in 0 .. 1 : d = q % 2 /\ q = 2 * p + d  BY <1>3
<1>5. n = (2 * m) * p + (m * d + r)  BY <1>2, <1>4
<1>6. m * d + r \in 0 .. 2 * m - 1  BY <1>4
<1>7. n \div (2 * m) = p  BY <1>5, <1>6
<1> QED BY <1>1, <1>4, <1>7

\* An integer, divided by 16 four times, with the remainders.
Chain(n0, n4, n8, n12, n16, a, b, c, e) ==
  /\ n0 \in Int /\ n4 \in Int /\ n8 \in Int /\ n12 \in Int /\ n16 \in Int
  /\ a \in 0 .. 15 /\ b \in 0 .. 15 /\ c \in 0 .. 15 /\ e \in 0 .. 15
  /\ n0 = 16 * n4 + a /\ n4 = 16 * n8 + b /\ n8 = 16 * n12 + c /\ n12 = 16 * n16 + e

\* The number that four remainders make.
Made(n, a, b, c, e) == n % 65536 = a + 16 * b + 256 * c + 4096 * e

\* A number of 16 bits, from four digits of 4 bits.
LEMMA Nibbles ==
  ASSUME NEW n0, NEW n4, NEW n8, NEW n12, NEW n16, NEW a, NEW b, NEW c, NEW e,
         Chain(n0, n4, n8, n12, n16, a, b, c, e)
  PROVE  Made(n0, a, b, c, e)
<1> /\ n0 \in Int /\ n4 \in Int /\ n8 \in Int /\ n12 \in Int /\ n16 \in Int
    /\ a \in 0 .. 15 /\ b \in 0 .. 15 /\ c \in 0 .. 15 /\ e \in 0 .. 15
    /\ n0 = 16 * n4 + a /\ n4 = 16 * n8 + b /\ n8 = 16 * n12 + c /\ n12 = 16 * n16 + e
  BY DEF Chain
<1>1. PICK s \in Int : s = a + 16 * b + 256 * c + 4096 * e  OBVIOUS
<1>2. 0 <= s /\ s <= 65535  BY <1>1
<1>3. n0 = 65536 * n16 + s  BY <1>1
<1>4. n0 % 65536 = s  BY <1>2, <1>3
<1> QED BY <1>1, <1>4 DEF Made

\* A digit of 4 bits, from its bits.
LEMMA Four ==
  ASSUME NEW q \in [0 .. 16 -> Int], NEW d \in [0 .. 15 -> 0 .. 1],
         \A k \in 0 .. 15 : q[k] = 2 * q[k + 1] + d[k],
         NEW k \in {0, 4, 8, 12}
  PROVE  Sum4(d, k) \in 0 .. 15 /\ q[k] = 16 * q[k + 4] + Sum4(d, k)
<1>1. /\ d[k] \in 0 .. 1 /\ d[k + 1] \in 0 .. 1 /\ d[k + 2] \in 0 .. 1 /\ d[k + 3] \in 0 .. 1
      /\ q[k] \in Int /\ q[k + 1] \in Int /\ q[k + 2] \in Int /\ q[k + 3] \in Int
      /\ q[k + 4] \in Int
  OBVIOUS
<1>2. /\ q[k] = 2 * q[k + 1] + d[k] /\ q[k + 1] = 2 * q[k + 2] + d[k + 1]
      /\ q[k + 2] = 2 * q[k + 3] + d[k + 2] /\ q[k + 3] = 2 * q[k + 4] + d[k + 3]
  <2>1. /\ k \in 0 .. 15 /\ k + 1 \in 0 .. 15 /\ k + 2 \in 0 .. 15 /\ k + 3 \in 0 .. 15
        /\ (k + 1) + 1 = k + 2 /\ (k + 2) + 1 = k + 3 /\ (k + 3) + 1 = k + 4
    OBVIOUS
  <2> QED BY <2>1
<1> QED BY <1>1, <1>2 DEF Sum4

\* A number of 16 bits, from its bits.
LEMMA Binary ==
  ASSUME NEW q \in [0 .. 16 -> Int], NEW d \in [0 .. 15 -> 0 .. 1],
         \A k \in 0 .. 15 : q[k] = 2 * q[k + 1] + d[k]
  PROVE  q[0] % 65536 = Sum16(d)
<1>1. /\ Sum4(d, 0) \in 0 .. 15 /\ q[0] = 16 * q[4] + Sum4(d, 0)
      /\ Sum4(d, 4) \in 0 .. 15 /\ q[4] = 16 * q[8] + Sum4(d, 4)
      /\ Sum4(d, 8) \in 0 .. 15 /\ q[8] = 16 * q[12] + Sum4(d, 8)
      /\ Sum4(d, 12) \in 0 .. 15 /\ q[12] = 16 * q[16] + Sum4(d, 12)
  <2>1. /\ 0 \in {0, 4, 8, 12} /\ 4 \in {0, 4, 8, 12} /\ 8 \in {0, 4, 8, 12}
        /\ 12 \in {0, 4, 8, 12} /\ 0 + 4 = 4 /\ 4 + 4 = 8 /\ 8 + 4 = 12 /\ 12 + 4 = 16
    OBVIOUS
  <2>2. \A k \in {0, 4, 8, 12} : Sum4(d, k) \in 0 .. 15 /\ q[k] = 16 * q[k + 4] + Sum4(d, k)
    BY Four
  <2> QED BY <2>1, <2>2
<1>2. q[0] \in Int /\ q[4] \in Int /\ q[8] \in Int /\ q[12] \in Int /\ q[16] \in Int
  OBVIOUS
<1>3. Chain(q[0], q[4], q[8], q[12], q[16], Sum4(d, 0), Sum4(d, 4), Sum4(d, 8), Sum4(d, 12))
  BY <1>1, <1>2, Zenon DEF Chain
<1>4. Made(q[0], Sum4(d, 0), Sum4(d, 4), Sum4(d, 8), Sum4(d, 12))
  BY <1>3, Nibbles, Zenon
<1> QED BY <1>4 DEF Sum16, Made

\* The bits of an integer make it, but for those above the lowest 16.
LEMMA DigitsMake ==
  ASSUME NEW n \in Int
  PROVE  Digits(n) \in [0 .. 15 -> 0 .. 1] /\ n % 65536 = Sum16(Digits(n))
<1> DEFINE q == [k \in 0 .. 16 |-> n \div 2^k]
           d == Digits(n)
<1>1. ASSUME NEW k \in 0 .. 15 PROVE 2^k \in Nat \ {0} /\ 2^(k + 1) = 2 * 2^k
  <2>1. \/ k = 0 \/ k = 1 \/ k = 2 \/ k = 3 \/ k = 4 \/ k = 5 \/ k = 6 \/ k = 7 \/ k = 8
        \/ k = 9 \/ k = 10 \/ k = 11 \/ k = 12 \/ k = 13 \/ k = 14 \/ k = 15
    OBVIOUS
  <2>2. CASE k = 0  BY <2>2, Powers
  <2>3. CASE k = 1  BY <2>3, Powers
  <2>4. CASE k = 2  BY <2>4, Powers
  <2>5. CASE k = 3  BY <2>5, Powers
  <2>6. CASE k = 4  BY <2>6, Powers
  <2>7. CASE k = 5  BY <2>7, Powers
  <2>8. CASE k = 6  BY <2>8, Powers
  <2>9. CASE k = 7  BY <2>9, Powers
  <2>10. CASE k = 8  BY <2>10, Powers
  <2>11. CASE k = 9  BY <2>11, Powers
  <2>12. CASE k = 10  BY <2>12, Powers
  <2>13. CASE k = 11  BY <2>13, Powers
  <2>14. CASE k = 12  BY <2>14, Powers
  <2>15. CASE k = 13  BY <2>15, Powers
  <2>16. CASE k = 14  BY <2>16, Powers
  <2>17. CASE k = 15  BY <2>17, Powers
  <2> QED BY <2>1, <2>2, <2>3, <2>4, <2>5, <2>6, <2>7, <2>8, <2>9, <2>10, <2>11, <2>12, <2>13,
             <2>14, <2>15, <2>16, <2>17
<1>2. 2^16 \in Nat \ {0} /\ 2^0 = 1
  BY Powers
<1>3. q \in [0 .. 16 -> Int]
  BY <1>1, <1>2
<1>4. d \in [0 .. 15 -> 0 .. 1]
  BY <1>1 DEF Digits
<1>5. ASSUME NEW k \in 0 .. 15 PROVE q[k] = 2 * q[k + 1] + d[k]
  <2>1. n \div 2^k = 2 * (n \div (2 * 2^k)) + ((n \div 2^k) % 2)
    BY <1>1, HalfOf
  <2>2. q[k] = n \div 2^k /\ d[k] = (n \div 2^k) % 2
    BY DEF Digits
  <2>3. q[k + 1] = n \div 2^(k + 1)
    OBVIOUS
  <2>4. q[k + 1] = n \div (2 * 2^k)
    BY <1>1, <2>3, Zenon
  <2> QED BY <2>1, <2>2, <2>4, Zenon
<1>6. q[0] = n
  BY <1>2
<1> HIDE DEF q, d
<1>7. q[0] % 65536 = Sum16(d)
  BY <1>3, <1>4, <1>5, Binary
<1> QED BY <1>4, <1>6, <1>7 DEF d

-----------------------------------------------------------------------------
(* The constants that YY, CC and BO can say.                               *)

\* The numbers of the bits.
LEMMA BitCases ==
  ASSUME NEW b \in 0 .. 15
  PROVE  \/ b = 0 \/ b = 1 \/ b = 2 \/ b = 3 \/ b = 4 \/ b = 5 \/ b = 6 \/ b = 7 \/ b = 8
         \/ b = 9 \/ b = 10 \/ b = 11 \/ b = 12 \/ b = 13 \/ b = 14 \/ b = 15
OBVIOUS

\* A number in 16 bits; the numbers with one bit set, all but one, and all.
Low(n) == n % 65536
OneSet(b) == 2^b
OneClear(b) == 65535 - 2^b
AllSet == 65535
\* Numbers whose bits are not all set.
Plain(n) == n \notin {-1, 65535}

\* One bit is different.
Only(d, digit, b) == \A k \in 0 .. 15 : d[k] = digit <=> k = b

\* The number that has one bit set.
LEMMA OneDigit ==
  ASSUME NEW d \in [0 .. 15 -> 0 .. 1], NEW b \in 0 .. 15, Only(d, 1, b)
  PROVE  Sum16(d) = OneSet(b)
<1>1. /\ d[0] = (IF b = 0 THEN 1 ELSE 0) /\ d[1] = (IF b = 1 THEN 1 ELSE 0)
        /\ d[2] = (IF b = 2 THEN 1 ELSE 0) /\ d[3] = (IF b = 3 THEN 1 ELSE 0)
        /\ d[4] = (IF b = 4 THEN 1 ELSE 0) /\ d[5] = (IF b = 5 THEN 1 ELSE 0)
        /\ d[6] = (IF b = 6 THEN 1 ELSE 0) /\ d[7] = (IF b = 7 THEN 1 ELSE 0)
        /\ d[8] = (IF b = 8 THEN 1 ELSE 0) /\ d[9] = (IF b = 9 THEN 1 ELSE 0)
        /\ d[10] = (IF b = 10 THEN 1 ELSE 0) /\ d[11] = (IF b = 11 THEN 1 ELSE 0)
        /\ d[12] = (IF b = 12 THEN 1 ELSE 0) /\ d[13] = (IF b = 13 THEN 1 ELSE 0)
        /\ d[14] = (IF b = 14 THEN 1 ELSE 0) /\ d[15] = (IF b = 15 THEN 1 ELSE 0)
  BY SMT DEF Only
<1>2. Sum16(d) = d[0] + 2 * d[1] + 4 * d[2] + 8 * d[3]
          + 16 * (d[4] + 2 * d[5] + 4 * d[6] + 8 * d[7])
          + 256 * (d[8] + 2 * d[9] + 4 * d[10] + 8 * d[11])
          + 4096 * (d[12] + 2 * d[13] + 4 * d[14] + 8 * d[15])
  BY SMT DEF Sum16, Sum4
<1>3. CASE b = 0
  <2>1. 2^b = 1  BY <1>3, Powers
  <2> QED BY SMT, <1>1, <1>2, <1>3, <2>1 DEF OneSet
<1>4. CASE b = 1
  <2>1. 2^b = 2  BY <1>4, Powers
  <2> QED BY SMT, <1>1, <1>2, <1>4, <2>1 DEF OneSet
<1>5. CASE b = 2
  <2>1. 2^b = 4  BY <1>5, Powers
  <2> QED BY SMT, <1>1, <1>2, <1>5, <2>1 DEF OneSet
<1>6. CASE b = 3
  <2>1. 2^b = 8  BY <1>6, Powers
  <2> QED BY SMT, <1>1, <1>2, <1>6, <2>1 DEF OneSet
<1>7. CASE b = 4
  <2>1. 2^b = 16  BY <1>7, Powers
  <2> QED BY SMT, <1>1, <1>2, <1>7, <2>1 DEF OneSet
<1>8. CASE b = 5
  <2>1. 2^b = 32  BY <1>8, Powers
  <2> QED BY SMT, <1>1, <1>2, <1>8, <2>1 DEF OneSet
<1>9. CASE b = 6
  <2>1. 2^b = 64  BY <1>9, Powers
  <2> QED BY SMT, <1>1, <1>2, <1>9, <2>1 DEF OneSet
<1>10. CASE b = 7
  <2>1. 2^b = 128  BY <1>10, Powers
  <2> QED BY SMT, <1>1, <1>2, <1>10, <2>1 DEF OneSet
<1>11. CASE b = 8
  <2>1. 2^b = 256  BY <1>11, Powers
  <2> QED BY SMT, <1>1, <1>2, <1>11, <2>1 DEF OneSet
<1>12. CASE b = 9
  <2>1. 2^b = 512  BY <1>12, Powers
  <2> QED BY SMT, <1>1, <1>2, <1>12, <2>1 DEF OneSet
<1>13. CASE b = 10
  <2>1. 2^b = 1024  BY <1>13, Powers
  <2> QED BY SMT, <1>1, <1>2, <1>13, <2>1 DEF OneSet
<1>14. CASE b = 11
  <2>1. 2^b = 2048  BY <1>14, Powers
  <2> QED BY SMT, <1>1, <1>2, <1>14, <2>1 DEF OneSet
<1>15. CASE b = 12
  <2>1. 2^b = 4096  BY <1>15, Powers
  <2> QED BY SMT, <1>1, <1>2, <1>15, <2>1 DEF OneSet
<1>16. CASE b = 13
  <2>1. 2^b = 8192  BY <1>16, Powers
  <2> QED BY SMT, <1>1, <1>2, <1>16, <2>1 DEF OneSet
<1>17. CASE b = 14
  <2>1. 2^b = 16384  BY <1>17, Powers
  <2> QED BY SMT, <1>1, <1>2, <1>17, <2>1 DEF OneSet
<1>18. CASE b = 15
  <2>1. 2^b = 32768  BY <1>18, Powers
  <2> QED BY SMT, <1>1, <1>2, <1>18, <2>1 DEF OneSet
<1> QED BY SMT, BitCases, <1>3, <1>4, <1>5, <1>6, <1>7, <1>8, <1>9, <1>10, <1>11, <1>12,
           <1>13, <1>14, <1>15, <1>16, <1>17, <1>18

\* The number that has one bit clear.
LEMMA ZeroDigit ==
  ASSUME NEW d \in [0 .. 15 -> 0 .. 1], NEW b \in 0 .. 15, Only(d, 0, b)
  PROVE  Sum16(d) = OneClear(b)
<1>1. /\ d[0] = (IF b = 0 THEN 0 ELSE 1) /\ d[1] = (IF b = 1 THEN 0 ELSE 1)
        /\ d[2] = (IF b = 2 THEN 0 ELSE 1) /\ d[3] = (IF b = 3 THEN 0 ELSE 1)
        /\ d[4] = (IF b = 4 THEN 0 ELSE 1) /\ d[5] = (IF b = 5 THEN 0 ELSE 1)
        /\ d[6] = (IF b = 6 THEN 0 ELSE 1) /\ d[7] = (IF b = 7 THEN 0 ELSE 1)
        /\ d[8] = (IF b = 8 THEN 0 ELSE 1) /\ d[9] = (IF b = 9 THEN 0 ELSE 1)
        /\ d[10] = (IF b = 10 THEN 0 ELSE 1) /\ d[11] = (IF b = 11 THEN 0 ELSE 1)
        /\ d[12] = (IF b = 12 THEN 0 ELSE 1) /\ d[13] = (IF b = 13 THEN 0 ELSE 1)
        /\ d[14] = (IF b = 14 THEN 0 ELSE 1) /\ d[15] = (IF b = 15 THEN 0 ELSE 1)
  BY SMT DEF Only
<1>2. Sum16(d) = d[0] + 2 * d[1] + 4 * d[2] + 8 * d[3]
          + 16 * (d[4] + 2 * d[5] + 4 * d[6] + 8 * d[7])
          + 256 * (d[8] + 2 * d[9] + 4 * d[10] + 8 * d[11])
          + 4096 * (d[12] + 2 * d[13] + 4 * d[14] + 8 * d[15])
  BY SMT DEF Sum16, Sum4
<1>3. CASE b = 0
  <2>1. 2^b = 1  BY <1>3, Powers
  <2> QED BY SMT, <1>1, <1>2, <1>3, <2>1 DEF OneClear
<1>4. CASE b = 1
  <2>1. 2^b = 2  BY <1>4, Powers
  <2> QED BY SMT, <1>1, <1>2, <1>4, <2>1 DEF OneClear
<1>5. CASE b = 2
  <2>1. 2^b = 4  BY <1>5, Powers
  <2> QED BY SMT, <1>1, <1>2, <1>5, <2>1 DEF OneClear
<1>6. CASE b = 3
  <2>1. 2^b = 8  BY <1>6, Powers
  <2> QED BY SMT, <1>1, <1>2, <1>6, <2>1 DEF OneClear
<1>7. CASE b = 4
  <2>1. 2^b = 16  BY <1>7, Powers
  <2> QED BY SMT, <1>1, <1>2, <1>7, <2>1 DEF OneClear
<1>8. CASE b = 5
  <2>1. 2^b = 32  BY <1>8, Powers
  <2> QED BY SMT, <1>1, <1>2, <1>8, <2>1 DEF OneClear
<1>9. CASE b = 6
  <2>1. 2^b = 64  BY <1>9, Powers
  <2> QED BY SMT, <1>1, <1>2, <1>9, <2>1 DEF OneClear
<1>10. CASE b = 7
  <2>1. 2^b = 128  BY <1>10, Powers
  <2> QED BY SMT, <1>1, <1>2, <1>10, <2>1 DEF OneClear
<1>11. CASE b = 8
  <2>1. 2^b = 256  BY <1>11, Powers
  <2> QED BY SMT, <1>1, <1>2, <1>11, <2>1 DEF OneClear
<1>12. CASE b = 9
  <2>1. 2^b = 512  BY <1>12, Powers
  <2> QED BY SMT, <1>1, <1>2, <1>12, <2>1 DEF OneClear
<1>13. CASE b = 10
  <2>1. 2^b = 1024  BY <1>13, Powers
  <2> QED BY SMT, <1>1, <1>2, <1>13, <2>1 DEF OneClear
<1>14. CASE b = 11
  <2>1. 2^b = 2048  BY <1>14, Powers
  <2> QED BY SMT, <1>1, <1>2, <1>14, <2>1 DEF OneClear
<1>15. CASE b = 12
  <2>1. 2^b = 4096  BY <1>15, Powers
  <2> QED BY SMT, <1>1, <1>2, <1>15, <2>1 DEF OneClear
<1>16. CASE b = 13
  <2>1. 2^b = 8192  BY <1>16, Powers
  <2> QED BY SMT, <1>1, <1>2, <1>16, <2>1 DEF OneClear
<1>17. CASE b = 14
  <2>1. 2^b = 16384  BY <1>17, Powers
  <2> QED BY SMT, <1>1, <1>2, <1>17, <2>1 DEF OneClear
<1>18. CASE b = 15
  <2>1. 2^b = 32768  BY <1>18, Powers
  <2> QED BY SMT, <1>1, <1>2, <1>18, <2>1 DEF OneClear
<1> QED BY SMT, BitCases, <1>3, <1>4, <1>5, <1>6, <1>7, <1>8, <1>9, <1>10, <1>11, <1>12,
           <1>13, <1>14, <1>15, <1>16, <1>17, <1>18

\* The number that has all bits set.
LEMMA AllDigits ==
  ASSUME NEW d \in [0 .. 15 -> 0 .. 1], \A k \in 0 .. 15 : d[k] = 1
  PROVE  Sum16(d) = AllSet
<1>1. /\ d[0] = 1 /\ d[1] = 1 /\ d[2] = 1 /\ d[3] = 1
      /\ d[4] = 1 /\ d[5] = 1 /\ d[6] = 1 /\ d[7] = 1
      /\ d[8] = 1 /\ d[9] = 1 /\ d[10] = 1 /\ d[11] = 1
      /\ d[12] = 1 /\ d[13] = 1 /\ d[14] = 1 /\ d[15] = 1
  BY SMT
<1> QED BY SMT, <1>1 DEF Sum16, Sum4, AllSet

\* The bits that are set.
Ones(n) == Bits(n, 0, 15, 0)

\* The bits of a number, as a set.
LEMMA OnesAre ==
  ASSUME NEW n \in Int
  PROVE  Ones(n) \subseteq 0 .. 15 /\ \A k \in 0 .. 15 : k \in Ones(n) <=> Digits(n)[k] = 1
<1> DEFINE Is(c) == (n \div 2^c) % 2 = 1
<1>1. \A k : k \in Ones(n) <=> \E c \in 0 .. 15 : k = c + 0 - 0 /\ Is(c)
  BY Zenon DEF Ones, Bits
<1>2. \A c \in 0 .. 15 : c + 0 - 0 = c  BY SMT
<1>3. \A k \in 0 .. 15 : Digits(n)[k] = 1 <=> Is(k)  BY Zenon DEF Digits
<1> HIDE DEF Is
<1>4. \A k \in 0 .. 15 : k \in Ones(n) <=> Is(k)  BY <1>1, <1>2, Zenon
<1>5. Ones(n) \subseteq 0 .. 15
  <2>1. ASSUME NEW k, k \in Ones(n) PROVE k \in 0 .. 15
    <3>1. PICK c \in 0 .. 15 : k = c + 0 - 0  BY <1>1, <2>1, Zenon
    <3> QED BY <3>1
  <2> QED BY <2>1
<1> QED BY <1>3, <1>4, <1>5, Zenon

\* The element of a set of one.
LEMMA SingleElement ==
  ASSUME NEW S \in SUBSET (0 .. 15)
  PROVE  Cardinality(S) = 1 <=> \E b \in 0 .. 15 : S = {b}
<1>1. IsFiniteSet(S)
  <2>1. 0 \in Int /\ 15 \in Int  OBVIOUS
  <2>2. IsFiniteSet(0 .. 15)  BY <2>1, FS_Interval, Zenon
  <2> QED BY <2>2, FS_Subset
<1>2. Cardinality(S) = 1 <=> \E b : S = {b}
  BY <1>1, FS_Singleton
<1> QED BY <1>2

\* What check_yyccbo finds for a number, -1 and 65535 left out.
Found(n, bits) ==
  \/ Low(n) = 0 /\ bits = YOP_ZERO
  \/ \E b \in 0 .. 15 : Low(n) = OneSet(b) /\ bits = BO_PLUS \cup FieldBits(b, BITNO_TO_YYCC)
  \/ \E b \in 0 .. 15 :
       Low(n) = OneClear(b) /\ bits = BO_MINUS \cup FieldBits(b, BITNO_TO_YYCC)

\* check_yyccbo finds bits only for 0, a number with one bit set, and one with one clear.
LEMMA CheckFinds ==
  ASSUME NEW n \in Int, Plain(n), check_yyccbo(n) # {}
  PROVE  Found(n, check_yyccbo(n))
<1> DEFINE ones == Ones(n)
           zeros == (0 .. 15) \ ones
           d == Digits(n)
           Bit(b) == FieldBits(b, BITNO_TO_YYCC)
<1>1. check_yyccbo(n) =
        IF n = 0 THEN YOP_ZERO
        ELSE IF n > 65535 \/ n < -32768 THEN {}
        ELSE IF Cardinality(ones) = 1 THEN BO_PLUS \cup Bit(CHOOSE b \in ones : TRUE)
        ELSE IF Cardinality(zeros) = 1 THEN BO_MINUS \cup Bit(CHOOSE b \in zeros : TRUE)
        ELSE IF zeros = {} THEN BO_MINUS
        ELSE {}
  BY DEF check_yyccbo, Ones
<1>2. d \in [0 .. 15 -> 0 .. 1] /\ Low(n) = Sum16(d)
  BY DigitsMake DEF Low
<1>3. ones \subseteq 0 .. 15 /\ \A k \in 0 .. 15 : k \in ones <=> d[k] = 1
  BY OnesAre
<1>4. zeros \subseteq 0 .. 15 /\ \A k \in 0 .. 15 : k \in zeros <=> d[k] = 0
  BY <1>2, <1>3
<1> HIDE DEF ones, zeros, d, Bit
<1>5. CASE n = 0
  BY SMT, <1>1, <1>5 DEF Found, Low
<1>6. CASE n # 0 /\ Cardinality(ones) = 1
  <2>1. PICK b \in 0 .. 15 : ones = {b}
    BY <1>3, <1>6, SingleElement
  <2>2. (CHOOSE c \in ones : TRUE) = b
    BY <2>1
  <2>3. Only(d, 1, b)
    BY <1>3, <2>1 DEF Only
  <2>4. Low(n) = OneSet(b)
    BY Zenon, <1>2, <2>3, OneDigit
  <2>5. check_yyccbo(n) = BO_PLUS \cup Bit(b)
    BY <1>1, <1>6, <2>2
  <2> QED BY <2>4, <2>5, Zenon DEF Found, Bit
<1>7. CASE n # 0 /\ Cardinality(ones) # 1 /\ Cardinality(zeros) = 1
  <2>1. PICK b \in 0 .. 15 : zeros = {b}
    BY <1>4, <1>7, SingleElement
  <2>2. (CHOOSE c \in zeros : TRUE) = b
    BY <2>1
  <2>3. Only(d, 0, b)
    BY <1>4, <2>1 DEF Only
  <2>4. Low(n) = OneClear(b)
    BY Zenon, <1>2, <2>3, ZeroDigit
  <2>5. check_yyccbo(n) = BO_MINUS \cup Bit(b)
    BY <1>1, <1>7, <2>2
  <2> QED BY <2>4, <2>5, Zenon DEF Found, Bit
<1>8. CASE n # 0 /\ Cardinality(ones) # 1 /\ Cardinality(zeros) # 1
  <2>1. zeros = {} /\ n <= 65535 /\ n >= -32768
    BY SMT, <1>1, <1>8
  <2>2. \A k \in 0 .. 15 : d[k] = 1
    BY <1>2, <1>4, <2>1
  <2>3. Low(n) = AllSet
    BY Zenon, <1>2, <2>2, AllDigits
  <2>4. n = -1 \/ n = 65535
    BY SMT, <2>1, <2>3 DEF Low, AllSet
  <2> QED BY SMT, <2>4 DEF Plain
<1> QED BY <1>5, <1>6, <1>7, <1>8

\* Where YY and CC have the number of a bit.
LEMMA BitIs ==
  ASSUME NEW b \in 0 .. 15
  PROVE  LET bits == FieldBits(b, BITNO_TO_YYCC)
         IN /\ bits \subseteq {6, 7, 11, 12}
            /\ 6 \in bits <=> (b \div 2^0) % 2 = 1
            /\ 7 \in bits <=> (b \div 2^1) % 2 = 1
            /\ 11 \in bits <=> (b \div 2^2) % 2 = 1
            /\ 12 \in bits <=> (b \div 2^3) % 2 = 1
<1> DEFINE low == Bits(b, 0, 1, 6)
           high == Bits(b, 2, 3, 11)
           Is(c) == (b \div 2^c) % 2 = 1
<1>1. FieldBits(b, BITNO_TO_YYCC) = low \cup high
  BY DEF FieldBits, BITNO_TO_YYCC, Field
<1>2. \A k : k \in low <=> \E c \in 0 .. 1 : k = c + 6 - 0 /\ Is(c)
  BY Zenon DEF Bits
<1>3. \A k : k \in high <=> \E c \in 2 .. 3 : k = c + 11 - 2 /\ Is(c)
  BY Zenon DEF Bits
<1> HIDE DEF Is, low, high
<1>4. \A k : k \in low <=> (k = 6 /\ Is(0)) \/ (k = 7 /\ Is(1))
  <2>1. 0 + 6 - 0 = 6 /\ 1 + 6 - 0 = 7 /\ \A c : c \in 0 .. 1 <=> c = 0 \/ c = 1
    BY SMT
  <2> QED BY <1>2, <2>1, Zenon
<1>5. \A k : k \in high <=> (k = 11 /\ Is(2)) \/ (k = 12 /\ Is(3))
  <2>1. 2 + 11 - 2 = 11 /\ 3 + 11 - 2 = 12 /\ \A c : c \in 2 .. 3 <=> c = 2 \/ c = 3
    BY SMT
  <2> QED BY <1>3, <2>1, Zenon
<1>6. (low \cup high) \subseteq {6, 7, 11, 12}
  BY <1>4, <1>5
<1>7. /\ 6 \in low \cup high <=> Is(0)
      /\ 7 \in low \cup high <=> Is(1)
      /\ 11 \in low \cup high <=> Is(2)
      /\ 12 \in low \cup high <=> Is(3)
  <2>1. 6 # 7 /\ 6 # 11 /\ 6 # 12 /\ 7 # 11 /\ 7 # 12 /\ 11 # 12
    OBVIOUS
  <2> QED BY <1>4, <1>5, <2>1, Zenon
<1> QED BY <1>1, <1>6, <1>7, Zenon DEF Is

\* YY and CC say one bit.
LEMMA BitIsOne ==
  ASSUME NEW b \in 0 .. 15, NEW c \in 0 .. 15,
         FieldBits(b, BITNO_TO_YYCC) = FieldBits(c, BITNO_TO_YYCC)
  PROVE  b = c
<1> DEFINE bits == FieldBits(b, BITNO_TO_YYCC)
<1>1. /\ (b \div 2^0) % 2 = 1 <=> (c \div 2^0) % 2 = 1
      /\ (b \div 2^1) % 2 = 1 <=> (c \div 2^1) % 2 = 1
      /\ (b \div 2^2) % 2 = 1 <=> (c \div 2^2) % 2 = 1
      /\ (b \div 2^3) % 2 = 1 <=> (c \div 2^3) % 2 = 1
  BY BitIs, Zenon
<1>2. /\ (b \div 1) % 2 = 1 <=> (c \div 1) % 2 = 1
      /\ (b \div 2) % 2 = 1 <=> (c \div 2) % 2 = 1
      /\ (b \div 4) % 2 = 1 <=> (c \div 4) % 2 = 1
      /\ (b \div 8) % 2 = 1 <=> (c \div 8) % 2 = 1
  BY <1>1, Powers
<1> QED BY <1>2

\* The bits of YY, CC and BO.
YYCCBO == {4, 5, 6, 7, 11, 12}

\* A constant is in YY, CC and BO.
LEMMA CheckBits ==
  ASSUME NEW n \in Int, Plain(n), check_yyccbo(n) # {}
  PROVE  check_yyccbo(n) \subseteq YYCCBO
<1>1. Found(n, check_yyccbo(n))
  BY CheckFinds
<1> QED BY <1>1, BitIs DEF Found, YYCCBO, YOP_ZERO, BO_PLUS, BO_MINUS

\* The constant that the ALU reads is the one that check_yyccbo put there.
LEMMA YopIs ==
  ASSUME NEW word, NEW n \in Int, Plain(n), check_yyccbo(n) # {},
         word \cap YYCCBO = check_yyccbo(n)
  PROVE  Yop(word) = Low(n)
<1> DEFINE bits == word \cap {6, 7, 11, 12}
           bit == CHOOSE b \in 0 .. 15 : FieldBits(b, BITNO_TO_YYCC) = bits
           bo == word \cap BO_MINUS
<1>1. Found(n, word \cap YYCCBO)
  BY CheckFinds
<1>2. Yop(word) = IF bo = {} THEN 0 ELSE IF bo = BO_PLUS THEN OneSet(bit) ELSE OneClear(bit)
  <2>1. BO_PLUS # {}
    BY DEF BO_PLUS
  <2> QED BY <2>1 DEF Yop, OneSet, OneClear
<1>3. bits = (word \cap YYCCBO) \cap {6, 7, 11, 12} /\ bo = (word \cap YYCCBO) \cap {4, 5}
  BY DEF YYCCBO, BO_MINUS
<1>4. ASSUME NEW b \in 0 .. 15, bits = FieldBits(b, BITNO_TO_YYCC)
      PROVE  bit = b
  BY <1>4, BitIsOne
<1> HIDE DEF bits, bit, bo
<1>5. CASE Low(n) = 0 /\ word \cap YYCCBO = YOP_ZERO
  <2>1. bo = {}
    BY <1>3, <1>5 DEF YOP_ZERO
  <2> QED BY <1>2, <1>5, <2>1
<1>6. ASSUME NEW b \in 0 .. 15, Low(n) = OneSet(b),
             word \cap YYCCBO = BO_PLUS \cup FieldBits(b, BITNO_TO_YYCC)
      PROVE  Yop(word) = Low(n)
  <2>1. FieldBits(b, BITNO_TO_YYCC) \subseteq {6, 7, 11, 12}
    BY BitIs
  <2>2. bo = BO_PLUS /\ bo # {}
    BY <1>3, <1>6, <2>1 DEF BO_PLUS
  <2>3. bits = FieldBits(b, BITNO_TO_YYCC)
    BY <1>3, <1>6, <2>1 DEF BO_PLUS
  <2>4. bit = b
    BY <1>4, <2>3
  <2> QED BY <1>2, <1>6, <2>2, <2>4
<1>7. ASSUME NEW b \in 0 .. 15, Low(n) = OneClear(b),
             word \cap YYCCBO = BO_MINUS \cup FieldBits(b, BITNO_TO_YYCC)
      PROVE  Yop(word) = Low(n)
  <2>1. FieldBits(b, BITNO_TO_YYCC) \subseteq {6, 7, 11, 12}
    BY BitIs
  <2>2. bo # {} /\ bo # BO_PLUS
    BY <1>3, <1>7, <2>1 DEF BO_PLUS, BO_MINUS
  <2>3. bits = FieldBits(b, BITNO_TO_YYCC)
    BY <1>3, <1>7, <2>1 DEF BO_MINUS
  <2>4. bit = b
    BY <1>4, <2>3
  <2> QED BY <1>2, <1>7, <2>2, <2>4
<1> QED BY <1>1, <1>5, <1>6, <1>7, Zenon DEF Found

\* The numbers that check_yyccbo looks at.
Number16(n) == n \in Int /\ n # 0 /\ n <= 65535 /\ n >= -32768

\* When check_yyccbo finds a constant.
LEMMA CheckBranches ==
  ASSUME NEW n, Number16(n),
         \/ \E b : Ones(n) = {b}
         \/ \E b : (0 .. 15) \ Ones(n) = {b}
  PROVE  check_yyccbo(n) # {}
<1> DEFINE ones == Ones(n)
           zeros == (0 .. 15) \ ones
           Bit(b) == FieldBits(b, BITNO_TO_YYCC)
<1>0. n \in Int /\ n # 0 /\ n <= 65535 /\ n >= -32768
  BY SMT DEF Number16
<1>1. check_yyccbo(n) =
        IF n = 0 THEN YOP_ZERO
        ELSE IF n > 65535 \/ n < -32768 THEN {}
        ELSE IF Cardinality(ones) = 1 THEN BO_PLUS \cup Bit(CHOOSE b \in ones : TRUE)
        ELSE IF Cardinality(zeros) = 1 THEN BO_MINUS \cup Bit(CHOOSE b \in zeros : TRUE)
        ELSE IF zeros = {} THEN BO_MINUS
        ELSE {}
  BY SMT DEF check_yyccbo, Ones
<1>2. Cardinality(ones) = 1 \/ Cardinality(zeros) = 1
  <2>1. 0 \in Int /\ 15 \in Int
    OBVIOUS
  <2>2. IsFiniteSet(0 .. 15)
    BY <2>1, FS_Interval, Zenon
  <2>3. ones \subseteq 0 .. 15 /\ zeros \subseteq 0 .. 15
    BY OnesAre, <1>0
  <2>4. IsFiniteSet(ones) /\ IsFiniteSet(zeros)
    BY <2>2, <2>3, FS_Subset
  <2> QED BY <2>4, FS_Singleton
<1>3. 4 \in BO_PLUS /\ 4 \in BO_MINUS
  BY DEF BO_PLUS, BO_MINUS
<1> HIDE DEF ones, zeros, Bit
<1>4. CASE Cardinality(ones) = 1
  <2>1. check_yyccbo(n) = BO_PLUS \cup Bit(CHOOSE b \in ones : TRUE)
    BY SMT, <1>0, <1>1, <1>4
  <2> QED BY Zenon, <1>3, <2>1
<1>5. CASE Cardinality(ones) # 1 /\ Cardinality(zeros) = 1
  <2>1. check_yyccbo(n) = BO_MINUS \cup Bit(CHOOSE b \in zeros : TRUE)
    BY SMT, <1>0, <1>1, <1>5
  <2> QED BY Zenon, <1>3, <2>1
<1> QED BY Zenon, <1>2, <1>4, <1>5

\* The number of four bits.
SumOf(a, b, c, e) == a + 2 * b + 4 * c + 8 * e

\* The bits of a digit of 4 bits.
LEMMA FourDigits ==
  ASSUME NEW a \in 0 .. 1, NEW b \in 0 .. 1, NEW c \in 0 .. 1, NEW e \in 0 .. 1
  PROVE  /\ SumOf(a, b, c, e) \in 0 .. 15
         /\ SumOf(a, b, c, e) = 15 => a = 1 /\ b = 1 /\ c = 1 /\ e = 1
         /\ SumOf(a, b, c, e) = 14 => a = 0 /\ b = 1 /\ c = 1 /\ e = 1
         /\ SumOf(a, b, c, e) = 1 => a = 1 /\ b = 0 /\ c = 0 /\ e = 0
         /\ SumOf(a, b, c, e) = 0 => a = 0 /\ b = 0 /\ c = 0 /\ e = 0
BY SMT DEF SumOf

\* The digits of a number of 16 bits.
LEMMA FourNibbles ==
  ASSUME NEW a \in 0 .. 15, NEW b \in 0 .. 15, NEW c \in 0 .. 15, NEW e \in 0 .. 15
  PROVE  /\ a + 16 * b + 256 * c + 4096 * e = 65534 => a = 14 /\ b = 15 /\ c = 15 /\ e = 15
         /\ a + 16 * b + 256 * c + 4096 * e = 1 => a = 1 /\ b = 0 /\ c = 0 /\ e = 0
BY SMT

\* The bits of a number of 16 bits are its own.
LEMMA DigitsOf ==
  ASSUME NEW d \in [0 .. 15 -> 0 .. 1]
  PROVE  /\ Sum16(d) = 1 => \A k \in 0 .. 15 : d[k] = 1 <=> k = 0
         /\ Sum16(d) = 65534 => \A k \in 0 .. 15 : d[k] = 1 <=> k # 0
<1>1. /\ d[0] \in 0 .. 1 /\ d[1] \in 0 .. 1 /\ d[2] \in 0 .. 1 /\ d[3] \in 0 .. 1
      /\ d[4] \in 0 .. 1 /\ d[5] \in 0 .. 1 /\ d[6] \in 0 .. 1 /\ d[7] \in 0 .. 1
      /\ d[8] \in 0 .. 1 /\ d[9] \in 0 .. 1 /\ d[10] \in 0 .. 1 /\ d[11] \in 0 .. 1
      /\ d[12] \in 0 .. 1 /\ d[13] \in 0 .. 1 /\ d[14] \in 0 .. 1 /\ d[15] \in 0 .. 1
  BY SMT
<1> DEFINE a == SumOf(d[0], d[1], d[2], d[3])
           b == SumOf(d[4], d[5], d[6], d[7])
           c == SumOf(d[8], d[9], d[10], d[11])
           e == SumOf(d[12], d[13], d[14], d[15])
<1>2. Sum16(d) = a + 16 * b + 256 * c + 4096 * e
  BY SMT DEF Sum16, Sum4, SumOf
<1>3. a \in 0 .. 15 /\ b \in 0 .. 15 /\ c \in 0 .. 15 /\ e \in 0 .. 15
  BY <1>1, FourDigits, Zenon
<1>4. ASSUME a = 1, b = 0, c = 0, e = 0
      PROVE  \A k \in 0 .. 15 : d[k] = 1 <=> k = 0
  <2>1. /\ d[0] = 1 /\ d[1] = 0 /\ d[2] = 0 /\ d[3] = 0
    BY SMT, <1>1, <1>4, FourDigits
  <2>2. /\ d[4] = 0 /\ d[5] = 0 /\ d[6] = 0 /\ d[7] = 0
    BY SMT, <1>1, <1>4, FourDigits
  <2>3. /\ d[8] = 0 /\ d[9] = 0 /\ d[10] = 0 /\ d[11] = 0
    BY SMT, <1>1, <1>4, FourDigits
  <2>4. /\ d[12] = 0 /\ d[13] = 0 /\ d[14] = 0 /\ d[15] = 0
    BY SMT, <1>1, <1>4, FourDigits
  <2> HIDE DEF a, b, c, e
  <2> QED BY SMT, <2>1, <2>2, <2>3, <2>4, BitCases
<1>5. ASSUME a = 14, b = 15, c = 15, e = 15
      PROVE  \A k \in 0 .. 15 : d[k] = 1 <=> k # 0
  <2>1. /\ d[0] = 0 /\ d[1] = 1 /\ d[2] = 1 /\ d[3] = 1
    BY SMT, <1>1, <1>5, FourDigits
  <2>2. /\ d[4] = 1 /\ d[5] = 1 /\ d[6] = 1 /\ d[7] = 1
    BY SMT, <1>1, <1>5, FourDigits
  <2>3. /\ d[8] = 1 /\ d[9] = 1 /\ d[10] = 1 /\ d[11] = 1
    BY SMT, <1>1, <1>5, FourDigits
  <2>4. /\ d[12] = 1 /\ d[13] = 1 /\ d[14] = 1 /\ d[15] = 1
    BY SMT, <1>1, <1>5, FourDigits
  <2> HIDE DEF a, b, c, e
  <2> QED BY SMT, <2>1, <2>2, <2>3, <2>4, BitCases
<1> HIDE DEF a, b, c, e
<1> QED BY SMT, <1>2, <1>3, <1>4, <1>5, FourNibbles

\* The numbers with 16 bits set, or all but the lowest.
LEMMA LowOf ==
  ASSUME NEW n \in Int
  PROVE  /\ n = 1 => Low(n) = 1
         /\ n = 65534 \/ n + 2 = 0 => Low(n) = 65534
<1>1. n = 1 => Low(n) = 1
  BY SMT DEF Low
<1>2. n = 65534 => Low(n) = 65534
  BY SMT DEF Low
<1>3. n + 65536 = 65534 => Low(n) = 65534
  BY SMT DEF Low
<1>4. n + 2 = 0 => n + 65536 = 65534
  BY SMT
<1> QED BY SMT, <1>1, <1>2, <1>3, <1>4

\* Next to a number that has no constant none has all bits set.
LEMMA CheckNear ==
  ASSUME NEW n \in Int, n = 1 \/ n = 65534 \/ n + 2 = 0
  PROVE  check_yyccbo(n) # {}
<1>1. Number16(n)
  BY SMT DEF Number16
<1> DEFINE d == Digits(n)
<1>2. d \in [0 .. 15 -> 0 .. 1] /\ Low(n) = Sum16(d)
  BY SMT, DigitsMake DEF Low
<1>3. Ones(n) \subseteq 0 .. 15 /\ \A k \in 0 .. 15 : k \in Ones(n) <=> d[k] = 1
  BY SMT, OnesAre
<1> HIDE DEF d
<1>4. CASE n = 1
  <2>1. \A k \in 0 .. 15 : d[k] = 1 <=> k = 0
    BY SMT, <1>2, <1>4, LowOf, DigitsOf
  <2>2. Ones(n) = {0}
    BY SMT, <1>3, <2>1
  <2> QED BY SMT, <1>1, <2>2, CheckBranches
<1>5. CASE n = 65534 \/ n + 2 = 0
  <2>1. Low(n) = 65534
    BY SMT, <1>5, LowOf
  <2>2. \A k \in 0 .. 15 : d[k] = 1 <=> k # 0
    <3>1. Sum16(d) = 65534
      BY SMT, <1>2, <2>1
    <3> QED BY SMT, <1>2, <3>1, DigitsOf
  <2>3. (0 .. 15) \ Ones(n) = {0}
    BY SMT, <1>3, <2>2
  <2> QED BY SMT, <1>1, <2>3, CheckBranches
<1> QED BY SMT, <1>4, <1>5

-----------------------------------------------------------------------------
(* The functions that as21 puts in the place of others.                    *)

\* Function g with the number m computes what function amf does with a number, and YY,
\* CC and BO can say m.
Reaches(g, m, amf, number) ==
  /\ g \in 0 .. 31 /\ m \in Int /\ Plain(m) /\ check_yyccbo(m) # {}
  /\ AluConstant(amf, number) = AMF(g) \cup check_yyccbo(m)
  /\ Operation(g, Low(m)) = Operation(amf, number)

\* m is l but for the bits above the lowest 16.
Above(m, k, l) == k \in Int /\ l \in Int /\ m = 65536 * k + l
Least(l) == l \in Int /\ 0 <= l /\ l < 65536

\* The lowest 16 bits of a number.
LEMMA LowIs ==
  ASSUME NEW m \in Int
  PROVE  /\ Least(Low(m)) /\ \E k : Above(m, k, Low(m))
         /\ \A k, l : Above(m, k, l) /\ Least(l) => Low(m) = l
<1>1. PICK k \in Int : k = m \div 65536
  BY SMT
<1>2. Least(Low(m)) /\ Above(m, k, Low(m))
  BY SMT, <1>1 DEF Low, Least, Above
<1>3. ASSUME NEW q, NEW l, Above(m, q, l), Least(l) PROVE Low(m) = l
  BY SMT, <1>3 DEF Low, Least, Above
<1> QED BY <1>2, <1>3, Zenon

\* They are the same for numbers that differ above them.
LEMMA LowSame ==
  ASSUME NEW m \in Int, NEW k, NEW l, Above(m, k, l)
  PROVE  Low(m) = Low(l)
<1>0. l \in Int
  BY SMT DEF Above
<1>1. k \in Int /\ l \in Int /\ m = 65536 * k + l
  BY SMT DEF Above
<1>2. PICK j : Above(l, j, Low(l))
  BY <1>0, LowIs, Zenon
<1>3. Above(m, k + j, Low(l))
  BY SMT, <1>1, <1>2 DEF Above
<1>4. Least(Low(l))
  BY <1>0, LowIs, Zenon
<1> QED BY <1>3, <1>4, LowIs, Zenon

\* They can be taken before a number is added.
LEMMA LowMoved ==
  ASSUME NEW n \in Int, NEW d \in Int
  PROVE  Low(Low(n + d) - d) = Low(n)
<1>0. n + d \in Int
  BY SMT
<1>1. PICK k : Above(n + d, k, Low(n + d))
  BY <1>0, LowIs, Zenon
<1>2. Above(n, k, Low(n + d) - d)
  BY SMT, <1>1 DEF Above
<1> QED BY <1>2, LowSame, Zenon

\* They can be taken before the sign is changed.
LEMMA LowLess ==
  ASSUME NEW n \in Int
  PROVE  Low(-Low(n)) = Low(-n)
<1>0. -n \in Int
  BY SMT
<1>1. PICK k : Above(n, k, Low(n))
  BY LowIs, Zenon
<1>2. Above(-n, -k, -Low(n))
  BY SMT, <1>1 DEF Above
<1> QED BY <1>0, <1>2, LowSame, Zenon

\* What as21 does to a number, undone.
LEMMA LowLow ==
  ASSUME NEW n \in Int
  PROVE  /\ Low(Low(n)) = Low(n)
         /\ Low(Low(n + 1) - 1) = Low(n)
         /\ Low(Low(n - 1) + 1) = Low(n)
         /\ Low(-Low(n)) = Low(-n)
         /\ Low(-Low(-n)) = Low(n)
<1>1. Low(Low(n)) = Low(n)
  <2>1. PICK k : Above(n, k, Low(n))
    BY LowIs, Zenon
  <2> QED BY <2>1, LowSame, Zenon
<1>2. Low(Low(n + 1) - 1) = Low(n)
  BY LowMoved
<1>3. Low(Low(n - 1) + 1) = Low(n)
  <2>1. Low(Low(n + (-1)) - (-1)) = Low(n)
    BY LowMoved
  <2>2. n - 1 \in Int /\ n + (-1) = n - 1
    BY SMT
  <2>3. Low(n - 1) \in Int
    <3>1. Least(Low(n - 1))
      BY <2>2, LowIs, Zenon
    <3> QED BY SMT, <3>1 DEF Least
  <2>4. Low(n - 1) - (-1) = Low(n - 1) + 1
    BY SMT, <2>3
  <2> QED BY <2>1, <2>2, <2>4, Zenon
<1>4. Low(-Low(n)) = Low(-n)
  BY LowLess, Zenon
<1>5. Low(-Low(-n)) = Low(n)
  <2>1. -n \in Int /\ -(-n) = n
    BY SMT
  <2>2. Low(-Low(-n)) = Low(-(-n))
    BY <2>1, LowLess, Zenon
  <2> QED BY <2>1, <2>2, Zenon
<1> QED BY <1>1, <1>2, <1>3, <1>4, <1>5, Zenon

\* What each function computes.
LEMMA Operations ==
  ASSUME NEW n
  PROVE  /\ Operation(\h10, n) = <<\h10, Low(n)>>
         /\ Operation(\h18, n) = <<\h10, Low(n - 1)>>
         /\ Operation(\h11, n) = <<\h10, Low(n + 1)>>
         /\ Operation(\h13, n) = <<\h13, Low(n)>>
         /\ Operation(\h17, n) = <<\h13, Low(-n)>>
         /\ \A amf \in AluFunctions \ {\h10, \h13, \h17} : Operation(amf, n) = <<amf, Low(n)>>
BY SMT DEF Operation, Low, AluFunctions

\* The function and the number that as21 finds compute what was asked for.
LEMMA AluReaches ==
  ASSUME NEW amf \in AluFunctions, NEW number \in Both(16), Plain(number),
         AluConstant(amf, number) # {}
  PROVE  \E g, m : Reaches(g, m, amf, number)
<1>1. number \in Int /\ number <= 65535 /\ number >= -32768
  BY SMT, Powers DEF Both
<1>0. number \in Int
  BY SMT, <1>1
<1>9. /\ Low(Low(number)) = Low(number)
      /\ Low(Low(number + 1) - 1) = Low(number)
      /\ Low(Low(number - 1) + 1) = Low(number)
      /\ Low(-Low(number)) = Low(-number)
      /\ Low(-Low(-number)) = Low(number)
  BY <1>0, LowLow, Zenon
<1>2. /\ \h10 \in 0 .. 31 /\ \h11 \in 0 .. 31 /\ \h18 \in 0 .. 31 /\ \h13 \in 0 .. 31
      /\ \h17 \in 0 .. 31 /\ amf \in 0 .. 31
  BY SMT DEF AluFunctions
<1>3. CASE amf = \h10
  <2>1. AluConstant(amf, number) = PassConstant(number)
    BY SMT, <1>3 DEF AluConstant
  <2>2. CASE number = 1
    <3>1. PassConstant(number) = AMF(\h11) \cup check_yyccbo(0)
      BY SMT, <2>2, ZeroConstant DEF PassConstant
    <3>2. Operation(\h11, Low(0)) = Operation(\h10, number)
      BY SMT, <2>2, Operations DEF Low
    <3>3. Plain(0) /\ 0 \in Int
      BY SMT DEF Plain
    <3>4. Reaches(\h11, 0, amf, number)
      BY SMT, <1>2, <1>3, <2>1, <3>1, <3>2, <3>3, ZeroConstant DEF Reaches
    <3> QED BY <3>4, Zenon
  <2>3. CASE number # 1 /\ check_yyccbo(number) # {}
    <3>1. PassConstant(number) = AMF(\h10) \cup check_yyccbo(number)
      BY SMT, <2>3 DEF PassConstant, Plain
    <3>2. Operation(\h10, Low(number)) = Operation(\h10, number)
      BY <1>9, Operations
    <3>3. Reaches(\h10, number, amf, number)
      BY SMT, <1>1, <1>2, <1>3, <2>1, <2>3, <3>1, <3>2 DEF Reaches
    <3> QED BY <3>3, Zenon
  <2>4. CASE number # 1 /\ check_yyccbo(number) = {} /\ check_yyccbo(number + 1) # {}
    <3>1. PassConstant(number) = AMF(\h18) \cup check_yyccbo(number + 1)
      BY SMT, <2>4 DEF PassConstant, Plain
    <3>2. number + 1 \in Int /\ Plain(number + 1)
      <4>1. number # 65534 /\ number + 2 # 0
        BY SMT, <1>1, <2>4, CheckNear
      <4> QED BY SMT, <1>1, <4>1 DEF Plain
    <3>3. Operation(\h18, Low(number + 1)) = Operation(\h10, number)
      BY <1>9, Operations
    <3>4. Reaches(\h18, number + 1, amf, number)
      BY SMT, <1>1, <1>2, <1>3, <2>1, <2>4, <3>1, <3>2, <3>3 DEF Reaches
    <3> QED BY <3>4, Zenon
  <2>5. CASE number # 1 /\ check_yyccbo(number) = {} /\ check_yyccbo(number + 1) = {}
    <3>1. /\ PassConstant(number) = AMF(\h11) \cup check_yyccbo(number - 1)
          /\ check_yyccbo(number - 1) # {}
      BY SMT, <2>1, <2>5 DEF PassConstant, Plain
    <3>2. number - 1 \in Int /\ Plain(number - 1)
      <4>1. number # 0
        BY SMT, <2>5, ZeroConstant
      <4> QED BY SMT, <1>1, <4>1 DEF Plain
    <3>3. Operation(\h11, Low(number - 1)) = Operation(\h10, number)
      BY <1>9, Operations
    <3>4. Reaches(\h11, number - 1, amf, number)
      BY SMT, <1>1, <1>2, <1>3, <2>1, <3>1, <3>2, <3>3 DEF Reaches
    <3> QED BY <3>4, Zenon
  <2> QED BY <2>2, <2>3, <2>4, <2>5, Zenon
<1>4. ASSUME check_yyccbo(number) = {}
      PROVE  -number \in Int /\ Plain(-number)
  <2>1. number # 1
    BY SMT, <1>1, <1>4, CheckNear
  <2> QED BY SMT, <1>1, <2>1 DEF Plain
<1>5. CASE amf = \h13
  <2>1. AluConstant(amf, number) = XopPlusConstant(number)
    BY SMT, <1>5 DEF AluConstant
  <2>2. CASE check_yyccbo(number) # {}
    <3>1. XopPlusConstant(number) = AMF(\h13) \cup check_yyccbo(number)
      BY SMT, <2>2 DEF XopPlusConstant
    <3>2. Operation(\h13, Low(number)) = Operation(\h13, number)
      BY <1>9, Operations
    <3>3. Reaches(\h13, number, amf, number)
      BY SMT, <1>1, <1>2, <1>5, <2>1, <2>2, <3>1, <3>2 DEF Reaches
    <3> QED BY <3>3, Zenon
  <2>3. CASE check_yyccbo(number) = {}
    <3>1. /\ XopPlusConstant(number) = AMF(\h17) \cup check_yyccbo(-number)
          /\ check_yyccbo(-number) # {}
      BY SMT, <2>1, <2>3 DEF XopPlusConstant
    <3>2. Operation(\h17, Low(-number)) = Operation(\h13, number)
      BY <1>9, Operations
    <3>3. Reaches(\h17, -number, amf, number)
      BY SMT, <1>1, <1>2, <1>4, <1>5, <2>1, <2>3, <3>1, <3>2 DEF Reaches
    <3> QED BY <3>3, Zenon
  <2> QED BY <2>2, <2>3, Zenon
<1>6. CASE amf = \h17
  <2>1. AluConstant(amf, number) = XopMinusConstant(number)
    BY SMT, <1>6 DEF AluConstant
  <2>2. CASE check_yyccbo(number) # {}
    <3>1. XopMinusConstant(number) = AMF(\h17) \cup check_yyccbo(number)
      BY SMT, <2>2 DEF XopMinusConstant
    <3>2. Operation(\h17, Low(number)) = Operation(\h17, number)
      BY <1>9, Operations
    <3>3. Reaches(\h17, number, amf, number)
      BY SMT, <1>1, <1>2, <1>6, <2>1, <2>2, <3>1, <3>2 DEF Reaches
    <3> QED BY <3>3, Zenon
  <2>3. CASE check_yyccbo(number) = {}
    <3>1. /\ XopMinusConstant(number) = AMF(\h13) \cup check_yyccbo(-number)
          /\ check_yyccbo(-number) # {}
      BY SMT, <2>1, <2>3 DEF XopMinusConstant
    <3>2. Operation(\h13, Low(-number)) = Operation(\h17, number)
      <4>1. -number \in Int
        BY SMT, <1>1
      <4>2. Low(Low(-number)) = Low(-number)
        BY SMT, <4>1, LowLow
      <4> QED BY SMT, <4>2, Operations
    <3>3. Reaches(\h13, -number, amf, number)
      BY SMT, <1>1, <1>2, <1>4, <1>6, <2>1, <2>3, <3>1, <3>2 DEF Reaches
    <3> QED BY <3>3, Zenon
  <2> QED BY <2>2, <2>3, Zenon
<1>8. amf \notin {\h10, \h13, \h17} => amf \in AluFunctions \ {\h10, \h13, \h17}
  OBVIOUS
<1>7. CASE amf \notin {\h10, \h13, \h17}
  <2>1. AluConstant(amf, number) = OtherConstant(amf, number)
    BY SMT, <1>7 DEF AluConstant
  <2>2. /\ OtherConstant(amf, number) = AMF(amf) \cup check_yyccbo(number)
        /\ check_yyccbo(number) # {}
    BY SMT, <2>1 DEF OtherConstant
  <2>3. Operation(amf, Low(number)) = Operation(amf, number)
    BY <1>7, <1>8, <1>9, Operations
  <2>4. Reaches(amf, number, amf, number)
    BY SMT, <1>1, <1>2, <2>1, <2>2, <2>3 DEF Reaches
  <2> QED BY <2>4, Zenon
<1> QED BY <1>3, <1>5, <1>6, <1>7, Zenon

\* A word that has a function and no constant computes with the number that as21's
\* tables put into it.
THEOREM AluMeans ==
  ASSUME NEW word, NEW amf \in AluFunctions, NEW number \in Both(16), Plain(number),
         AluConstant(amf, number) # {}, word \cap YYCCBO = {}
  PROVE  LET new == (word \ AMF_MASK) \cup AluConstant(amf, number)
         IN Operation(Function(new), Yop(new)) = Operation(amf, number)
<1>1. PICK g, m : Reaches(g, m, amf, number)
  BY AluReaches, Zenon
<1>2. /\ g \in 0 .. 31 /\ m \in Int /\ Plain(m) /\ check_yyccbo(m) # {}
      /\ AluConstant(amf, number) = AMF(g) \cup check_yyccbo(m)
      /\ Operation(g, Low(m)) = Operation(amf, number)
  BY <1>1, Zenon DEF Reaches
<1> DEFINE new == (word \ AMF_MASK) \cup AluConstant(amf, number)
<1>3. check_yyccbo(m) \subseteq YYCCBO
  BY <1>2, CheckBits, Zenon
<1>4. AMF(g) \subseteq AMF_MASK
  <2>1. \A k : k \in AMF(g) <=> \E c \in 0 .. 4 : k = c + 13 - 0 /\ (g \div 2^c) % 2 = 1
    BY Zenon DEF AMF, Bits
  <2>2. \A c \in 0 .. 4 : c + 13 - 0 \in 13 .. 17
    BY SMT
  <2> QED BY <2>1, <2>2, Zenon DEF AMF_MASK
<1>5. AMF_MASK \cap YYCCBO = {}
  BY SMT DEF AMF_MASK, YYCCBO
<1>6. new \cap AMF_MASK = AMF(g)
  BY <1>2, <1>3, <1>4, <1>5
<1>7. new \cap YYCCBO = check_yyccbo(m)
  BY <1>2, <1>3, <1>4, <1>5
<1> HIDE DEF new
<1>8. Function(new) = g
  BY <1>2, <1>6, FunctionIs
<1>9. Yop(new) = Low(m)
  BY <1>2, <1>7, YopIs, Zenon
<1>10. Operation(Function(new), Yop(new)) = Operation(amf, number)
  BY <1>2, <1>8, <1>9, Zenon
<1> QED BY <1>10, Zenon DEF new

\* The files of the job.
Files == DOMAIN job.files

\* The files that an earlier PROCESSOR named.
Earlier == UNION {Named(p) : p \in 1 .. processor - 1}

-----------------------------------------------------------------------------
(* How far the loops have come with this PROCESSOR.                        *)

Resolved == pc \in {"relocate", "closed", "aborted"}

\* The sections of a file, a symbol of it.
Checked(f) ==
  /\ f \in objects
  /\ \/ Resolved
     \/ pc \in {"sections", "symbols"} /\ f < at[1]
     \/ pc = "symbols" /\ f = at[1]
Passed(f, i) ==
  /\ f \in objects
  /\ \/ Resolved
     \/ pc \in {"sections", "symbols"} /\ f < at[1]
     \/ pc = "symbols" /\ f = at[1] /\ i < at[2]

\* A relocation.
Fixed(f, i) ==
  /\ f \in objects
  /\ \/ pc = "closed"
     \/ pc \in {"relocate", "aborted"} /\ f < at[1]
     \/ pc \in {"relocate", "aborted"} /\ f = First(at[1]) /\ i < at[2]

-----------------------------------------------------------------------------
(* The invariant.                                                          *)

TypeOK ==
  /\ job \in Jobs /\ processor \in DOMAIN job.uses
  /\ pc \in {"open", "sections", "symbols", "relocate", "closed", "aborted"}
  /\ at \in (Nat \ {0}) \X (Nat \ {0})
  /\ objects \subseteq Files
  /\ pc = "symbols" => at[1] \in objects
  /\ DOMAIN sh_addr = Files /\ DOMAIN by = Files
  /\ DOMAIN st_value = Files /\ DOMAIN code = Files
  /\ \A f \in Files :
       /\ sh_addr[f] \in [DOMAIN Sections(f) -> Nat \cup {None}]
       /\ by[f] \in [DOMAIN Sections(f) -> Nat \cup {None}]
       /\ st_value[f] \in [DOMAIN Symbols(f) -> Nat]
       /\ DOMAIN code[f] = DOMAIN Sections(f)
       /\ \A s \in DOMAIN Sections(f) : DOMAIN code[f][s] = DOMAIN Sections(f)[s]

\* Files that could be opened, all that were named if there is no error.
ObjectsOK ==
  /\ objects \subseteq Earlier \cup Named(processor)
  /\ \A f \in objects : job.files[f].exists /\ job.files[f].machine = job.machine
  /\ errors = {} =>
       IF pc = "open"
       THEN \A i \in DOMAIN job.uses[processor] : i < at[2] => job.uses[processor][i] \in objects
       ELSE Named(processor) \subseteq objects

\* A section has an address when a statement has placed it.
PlacedOK ==
  /\ \A f \in Files : \A s \in DOMAIN Sections(f) : by[f][s] = None <=> sh_addr[f][s] = None
  /\ errors = {} =>
       \A f \in objects : Checked(f) => \A s \in DOMAIN Sections(f) : by[f][s] # None

\* The address of its section was added to a symbol of a file that no earlier
\* PROCESSOR named once it was passed.
ValuesOK ==
  \A f \in Files \ Earlier : \A i \in DOMAIN Symbols(f) :
    st_value[f][i] = Symbols(f)[i].value
                       + IF Passed(f, i) /\ Symbols(f)[i].section # 0
                         THEN Address(f, Symbols(f)[i].section) ELSE 0

\* The symbols that define a name, of those that were passed.
Defines(d, n) ==
  LET s == Symbols(d[1])[d[2]]
  IN /\ d[1] \in objects /\ d[2] \in DOMAIN Symbols(d[1])
     /\ s.global /\ s.section # 0 /\ s.name.is = n
GlobalsOK ==
  pc # "open" =>
    /\ \A n \in DOMAIN globals :
         LET d == globals[n]
         IN d \in (Nat \ {0}) \X (Nat \ {0}) /\ Defines(d, n) /\ Passed(d[1], d[2])
    /\ \A f \in objects : \A i \in DOMAIN Symbols(f) :
         LET s == Symbols(f)[i]
         IN Passed(f, i) =>
              /\ s.global /\ s.section # 0 =>
                   /\ s.name.is \in DOMAIN globals
                   /\ errors = {} => globals[s.name.is] = <<f, i>>
              /\ errors = {} => s.global \/ s.section # 0

\* What comes of a relocation of a new file.
Outcome(f, r) ==
  fixup_code(job.machine, r.type, relocation_push(f, r),
             Address(f, r.section) + r.word - 1, Before(f, r))
Unresolved(f, r) == r.symbol # 0 /\ Referred(f, r) = << >>

\* The words of a file that no earlier PROCESSOR named are those of the object, except
\* where a relocation was dealt with.
WordsOK ==
  \A f \in Files \ Earlier :
    /\ \A i \in DOMAIN Relocations(f) :
         LET r == Relocations(f)[i]
         IN Words(f, r) = IF Fixed(f, i) THEN Outcome(f, r).code ELSE Before(f, r)
    /\ \A s \in DOMAIN Sections(f) : \A w \in DOMAIN Sections(f)[s] :
         \/ code[f][s][w] = Sections(f)[s][w]
         \/ \E i \in DOMAIN Relocations(f) :
              Relocations(f)[i].section = s /\ w \in Covered(Relocations(f)[i])
FixedOK ==
  errors = {} =>
    \A f \in Files \ Earlier : \A i \in DOMAIN Relocations(f) :
      LET r == Relocations(f)[i]
      IN Fixed(f, i) => Outcome(f, r).is = "done" /\ ~ Unresolved(f, r)

KeptOK ==
  /\ kept \subseteq 1 .. processor
  /\ processor \in kept <=> pc = "closed" /\ errors = {}

\* What an error of the first PROCESSOR tells.
Told(e) ==
  LET f == e.file
      s == Symbols(f)[e.index]
      r == Relocations(f)[e.index]
  IN \/ e.what \in {"not found", "machine"} /\ f \in Named(1)
        /\ ~ (job.files[f].exists /\ job.files[f].machine = job.machine)
     \/ /\ e.what = "not referenced" /\ f \in objects /\ pc # "open"
        /\ e.index \in DOMAIN Sections(f) /\ by[f][e.index] = None
     \/ /\ e.what = "multiply defined" /\ Defines(<<f, e.index>>, s.name.is) /\ pc # "open"
        /\ s.name.is \in DOMAIN globals /\ globals[s.name.is] # <<f, e.index>>
     \/ /\ e.what = "undefined but local" /\ f \in objects
        /\ e.index \in DOMAIN Symbols(f) /\ ~ s.global /\ s.section = 0
     \/ /\ e.what = "unresolved" /\ f \in objects /\ Resolved
        /\ e.index \in DOMAIN Relocations(f) /\ Unresolved(f, r)
     \/ /\ e.what = "fixup" /\ f \in objects /\ Resolved
        /\ e.index \in DOMAIN Relocations(f) /\ Outcome(f, r).is = "error"
ToldOK == processor = 1 => pc # "aborted" /\ \A e \in errors : Told(e)

IInv ==
  /\ TypeOK /\ ObjectsOK /\ PlacedOK /\ ValuesOK /\ GlobalsOK /\ WordsOK /\ FixedOK
  /\ KeptOK /\ ToldOK

-----------------------------------------------------------------------------
(* What the jobs are.                                                      *)

\* What a job is.
LEMMA JobIs ==
  ASSUME job \in Jobs
  PROVE  /\ job.machine \in Machine /\ job.files \in Seq(File) /\ Files = 1 .. Len(job.files)
         /\ job.uses \in Seq(Seq(Nat)) /\ 1 \in DOMAIN job.uses /\ job.addresses \subseteq Nat
         /\ \A p \in DOMAIN job.uses : \A i \in DOMAIN job.uses[p] : job.uses[p][i] \in Files
<1>1. /\ job \in [machine : Machine, files : Seq(File), uses : Seq(Seq(Nat)), addresses : SUBSET Nat]
      /\ job.uses # << >>
      /\ \A p \in DOMAIN job.uses : \A i \in DOMAIN job.uses[p] : job.uses[p][i] \in DOMAIN job.files
  BY JobsAssumption, Zenon
<1>2. job.uses \in Seq(Seq(Nat)) /\ job.uses # << >>
  BY <1>1
<1>3. 1 \in DOMAIN job.uses
  BY <1>2
<1> QED BY <1>1, <1>3 DEF Files

\* A file of it.
LEMMA FileIs ==
  ASSUME job \in Jobs, NEW f \in Files
  PROVE  /\ f \in Nat \ {0} /\ job.files[f] \in File
         /\ Sections(f) \in Seq(Seq(SUBSET (0 .. 23)))
         /\ Symbols(f) \in Seq(SymbolEntry)
         /\ Relocations(f) \in Seq(RelocationEntry)
         /\ job.files[f].machine \in Machine
<1>1. job.files \in Seq(File) /\ f \in 1 .. Len(job.files)
  BY JobIs
<1>2. job.files[f] \in File
  BY <1>1
<1> QED BY <1>1, <1>2 DEF File, Sections, Symbols, Relocations

\* A symbol of a file.
LEMMA SymbolIs ==
  ASSUME job \in Jobs, NEW f \in Files, NEW i \in DOMAIN Symbols(f)
  PROVE  LET s == Symbols(f)[i]
         IN /\ i \in Nat \ {0} /\ i <= Len(Symbols(f))
            /\ s.value \in Nat /\ s.size \in Nat /\ s.global \in BOOLEAN
            /\ s.section \in Nat
            /\ s.section # 0 => s.section \in DOMAIN Sections(f)
<1>1. Symbols(f) \in Seq(SymbolEntry) /\ Sections(f) \in Seq(Seq(SUBSET (0 .. 23)))
  BY FileIs
<1>2. Symbols(f)[i] \in SymbolEntry /\ i \in Nat \ {0} /\ i <= Len(Symbols(f))
  BY <1>1
<1>3. Symbols(f)[i].section \in 0 .. Len(Sections(f))
  BY JobsAssumption, Zenon DEF Files, Symbols, Sections
<1> QED BY <1>1, <1>2, <1>3 DEF SymbolEntry

\* A relocation of a file.
LEMMA RelocationIs ==
  ASSUME job \in Jobs, NEW f \in Files, NEW i \in DOMAIN Relocations(f)
  PROVE  LET r == Relocations(f)[i]
         IN /\ i \in Nat \ {0} /\ i <= Len(Relocations(f))
            /\ r.section \in DOMAIN Sections(f) /\ r.word \in Nat \ {0}
            /\ Covered(r) \subseteq DOMAIN Sections(f)[r.section]
            /\ r.symbol \in Nat /\ (r.symbol # 0 => r.symbol \in DOMAIN Symbols(f))
            /\ r.type \in Types(job.files[f].machine)
            /\ LeftOpen(r.type, Sections(f)[r.section][r.word])
            /\ r.kind \in {"SYMBOL", "LENGTH", "PAGE", "ADDRESS"} /\ r.addend \in Int
            /\ \A j \in DOMAIN Relocations(f) :
                 i # j /\ r.section = Relocations(f)[j].section =>
                   Covered(r) \cap Covered(Relocations(f)[j]) = {}
<1> DEFINE r == Relocations(f)[i]
<1>1. Relocations(f) \in Seq(RelocationEntry) /\ Symbols(f) \in Seq(SymbolEntry)
  BY FileIs
<1>2. r \in RelocationEntry /\ i \in Nat \ {0} /\ i <= Len(Relocations(f))
  BY <1>1
<1>3. /\ r.section \in DOMAIN Sections(f)
      /\ Covered(r) \subseteq DOMAIN Sections(f)[r.section]
      /\ r.symbol \in 0 .. Len(Symbols(f))
      /\ r.type \in Types(job.files[f].machine)
      /\ LeftOpen(r.type, Sections(f)[r.section][r.word])
  BY JobsAssumption, Zenon DEF Files, Symbols, Sections, Relocations
<1>4. \A j \in DOMAIN Relocations(f) :
        i # j /\ r.section = Relocations(f)[j].section =>
          Covered(r) \cap Covered(Relocations(f)[j]) = {}
  BY JobsAssumption, Zenon DEF Files, Relocations
<1>5. r.symbol # 0 => r.symbol \in DOMAIN Symbols(f)
  BY <1>1, <1>3
<1>6. /\ r.word \in Nat \ {0} /\ r.symbol \in Nat /\ r.addend \in Int
      /\ r.kind \in {"SYMBOL", "LENGTH", "PAGE", "ADDRESS"}
  BY <1>2 DEF RelocationEntry
<1> QED BY <1>2, <1>3, <1>4, <1>5, <1>6

\* A PROCESSOR names files of the job.
LEMMA NamedIs ==
  ASSUME job \in Jobs, NEW p \in DOMAIN job.uses
  PROVE  Named(p) \subseteq Files
BY JobIs DEF Named

-----------------------------------------------------------------------------
(* The next file of the list of those that are open.                       *)

\* A set of numbers has a least one.
LEMMA LeastIs ==
  ASSUME NEW T, T \subseteq Nat, T # {}
  PROVE  \E x \in T : \A y \in T : x <= y
<1> DEFINE R == OpToRel(<, Nat)
<1>1. IsWellFoundedOn(R, Nat)
  BY NatLessThanWellFounded
<1>2. \A x, y \in Nat : <<y, x>> \in R <=> y < x
  BY DEF OpToRel
<1> HIDE DEF R
<1>3. PICK x \in T : \A y \in T : ~ (<<y, x>> \in R)
  BY <1>1, WFMin
<1>4. ASSUME NEW y \in T PROVE x <= y
  <2>1. x \in Nat /\ y \in Nat /\ ~ (<<y, x>> \in R)
    BY <1>3
  <2>2. ~ (y < x)
    BY <1>2, <2>1
  <2> QED BY <2>1, <2>2
<1> QED BY <1>4

\* The next file is open, and no open file is before it.
LEMMA FirstIs ==
  ASSUME TypeOK, NEW n \in Nat, Rest(n) # {}
  PROVE  /\ First(n) \in objects /\ First(n) \in Nat \ {0} /\ First(n) >= n
         /\ \A g \in objects : g >= n => First(n) <= g
<1>1. objects \subseteq Nat \ {0}
  BY JobIs DEF TypeOK
<1>2. Rest(n) \subseteq Nat
  BY <1>1 DEF Rest
<1>3. \E x \in Rest(n) : \A y \in Rest(n) : x <= y
  BY <1>2, LeastIs
<1>4. First(n) \in Rest(n) /\ \A y \in Rest(n) : First(n) <= y
  BY <1>3, Zenon DEF First
<1> QED BY <1>1, <1>4 DEF Rest

\* An open file is the next one from itself.
LEMMA FirstOpen ==
  ASSUME TypeOK, NEW n \in objects
  PROVE  First(n) = n
<1>1. n \in Nat \ {0}
  BY JobIs DEF TypeOK
<1>2. n \in Rest(n)
  BY <1>1 DEF Rest
<1>3. First(n) \in Nat /\ First(n) >= n /\ First(n) <= n
  BY <1>1, <1>2, FirstIs
<1> QED BY <1>1, <1>3

\* The next file is its own next.
LEMMA FirstFirst ==
  ASSUME TypeOK, NEW n \in Nat, Rest(n) # {}
  PROVE  First(First(n)) = First(n)
BY FirstIs, FirstOpen

-----------------------------------------------------------------------------
(* The initial states.                                                     *)

\* Nothing is open at first.
LEMMA InitIs ==
  ASSUME Init
  PROVE  IInv
<1> USE DEF Init
<1>1. job \in Jobs /\ 1 \in DOMAIN job.uses /\ Files = 1 .. Len(job.files)
  BY JobIs
<1>2. TypeOK
  <2>1. \A f \in Files :
          /\ sh_addr[f] \in [DOMAIN Sections(f) -> Nat \cup {None}]
          /\ by[f] \in [DOMAIN Sections(f) -> Nat \cup {None}]
          /\ DOMAIN code[f] = DOMAIN Sections(f)
          /\ \A s \in DOMAIN Sections(f) : DOMAIN code[f][s] = DOMAIN Sections(f)[s]
    BY DEF Files
  <2>2. \A f \in Files : st_value[f] \in [DOMAIN Symbols(f) -> Nat]
    <3> TAKE f \in Files
    <3>1. \A i \in DOMAIN Symbols(f) : Symbols(f)[i].value \in Nat
      BY <1>1, SymbolIs
    <3> QED BY <3>1 DEF Files
  <2>3. at \in (Nat \ {0}) \X (Nat \ {0}) /\ objects \subseteq Files /\ processor \in DOMAIN job.uses
    BY <1>1
  <2>4. DOMAIN sh_addr = Files /\ DOMAIN by = Files /\ DOMAIN st_value = Files /\ DOMAIN code = Files
    BY DEF Files
  <2> QED BY <1>1, <2>1, <2>2, <2>3, <2>4 DEF TypeOK
<1>3. ObjectsOK
  <2>1. \A i \in DOMAIN job.uses[1] : ~ (i < 1)
    <3>1. job.uses \in Seq(Seq(Nat))
      BY <1>1, JobIs
    <3>2. job.uses[1] \in Seq(Nat)
      BY <1>1, <3>1
    <3> QED BY <3>2
  <2> QED BY <2>1 DEF ObjectsOK
<1>4. PlacedOK
  BY DEF PlacedOK, Files
<1>5. ValuesOK
  <2>1. \A f \in Files : \A i \in DOMAIN Symbols(f) :
          Symbols(f)[i].value \in Nat /\ st_value[f][i] = Symbols(f)[i].value /\ ~ Passed(f, i)
    BY <1>1, SymbolIs DEF Files, Passed
  <2>2. ASSUME NEW f \in Files, NEW i \in DOMAIN Symbols(f)
        PROVE  st_value[f][i] = Symbols(f)[i].value
                 + IF Passed(f, i) /\ Symbols(f)[i].section # 0
                   THEN Address(f, Symbols(f)[i].section) ELSE 0
    <3>1. ~ (Passed(f, i) /\ Symbols(f)[i].section # 0)
      BY <2>1, Zenon
    <3>2. (IF Passed(f, i) /\ Symbols(f)[i].section # 0
           THEN Address(f, Symbols(f)[i].section) ELSE 0) = 0
      BY <3>1, Zenon
    <3>3. Symbols(f)[i].value \in Nat /\ st_value[f][i] = Symbols(f)[i].value
      BY <2>1, Zenon
    <3> HIDE DEF Init
    <3> QED BY <3>2, <3>3
  <2> QED BY <2>2, Zenon DEF ValuesOK
<1>6. GlobalsOK
  BY DEF GlobalsOK
<1>7. WordsOK
  <2>1. \A f \in Files : \A i \in DOMAIN Relocations(f) : ~ Fixed(f, i)
    BY DEF Fixed
  <2>2. \A f \in Files : code[f] = Sections(f)
    BY DEF Files
  <2>3. \A f \in Files : \A r : Words(f, r) = Before(f, r)
    BY <2>2 DEF Words, Before
  <2> QED BY <2>1, <2>2, <2>3, Zenon DEF WordsOK
<1>8. FixedOK
  BY Zenon DEF FixedOK, Fixed
<1>9. KeptOK
  BY DEF KeptOK
<1>10. ToldOK
  BY DEF ToldOK
<1> QED BY <1>2, <1>3, <1>4, <1>5, <1>6, <1>7, <1>8, <1>9, <1>10 DEF IInv

-----------------------------------------------------------------------------
(* Steps that only go on.                                                  *)

\* The next PROCESSOR has one more before it.
LEMMA EarlierNow ==
  ASSUME TypeOK, processor + 1 \in DOMAIN job.uses, UNCHANGED job, processor' = processor + 1
  PROVE  Earlier' = Earlier \cup Named(processor)
<1>1. processor \in Nat \ {0}
  <2>1. job.uses \in Seq(Seq(Nat))
    BY JobIs DEF TypeOK
  <2> QED BY <2>1 DEF TypeOK
<1>2. 1 .. processor' - 1 = (1 .. processor - 1) \cup {processor}
  BY <1>1
<1>3. \A p : Named(p)' = Named(p)
  BY DEF Named
<1> QED BY <1>2, <1>3, Zenon DEF Earlier

\* What a relocation gives depends on the symbols and the addresses only.
LEMMA OutcomeSame ==
  ASSUME UNCHANGED <<job, st_value, globals, sh_addr>>, NEW f, NEW r
  PROVE  /\ Outcome(f, r)' = Outcome(f, r) /\ Unresolved(f, r)' = Unresolved(f, r)
         /\ Referred(f, r)' = Referred(f, r)
<1>1. Referred(f, r)' = Referred(f, r)
  BY DEF Referred, Symbols
<1>2. relocation_push(f, r)' = relocation_push(f, r)
  BY <1>1 DEF relocation_push, Symbols
<1>3. Address(f, r.section)' = Address(f, r.section)
  BY DEF Address
<1>4. Before(f, r)' = Before(f, r)
  BY DEF Before, Sections
<1> QED BY <1>1, <1>2, <1>3, <1>4 DEF Outcome, Unresolved

\* A step that only goes on.
Still == UNCHANGED <<job, objects, sh_addr, by, st_value, code, globals>>

\* It passes no symbol, and deals with no relocation.
PassedSame ==
  \A f \in objects : \A i \in DOMAIN Symbols(f) : Passed(f, i)' <=> Passed(f, i)
FixedSame ==
  \A f \in objects : \A i \in DOMAIN Relocations(f) : Fixed(f, i)' <=> Fixed(f, i)

\* What a step that only goes on leaves as it is: what is computed from the files,
LEMMA StillSame ==
  ASSUME Still
  PROVE  /\ Files' = Files /\ \A p : Named(p)' = Named(p)
         /\ \A f : Sections(f)' = Sections(f) /\ Symbols(f)' = Symbols(f) /\ Relocations(f)' = Relocations(f)
         /\ \A f, s : Address(f, s)' = Address(f, s)
         /\ \A f, r : Words(f, r)' = Words(f, r) /\ Before(f, r)' = Before(f, r)
         /\ \A d, n : Defines(d, n)' = Defines(d, n)
         /\ \A f, r : /\ Outcome(f, r)' = Outcome(f, r) /\ Unresolved(f, r)' = Unresolved(f, r)
                      /\ Referred(f, r)' = Referred(f, r)
<1> USE DEF Still
<1>1. Files' = Files /\ \A p : Named(p)' = Named(p)
  BY DEF Files, Named
<1>2. \A f : Sections(f)' = Sections(f) /\ Symbols(f)' = Symbols(f) /\ Relocations(f)' = Relocations(f)
  BY DEF Sections, Symbols, Relocations
<1>3. \A f, s : Address(f, s)' = Address(f, s)
  BY DEF Address
<1>4. \A f, r : Words(f, r)' = Words(f, r) /\ Before(f, r)' = Before(f, r)
  BY <1>2 DEF Words, Before
<1>5. \A d, n : Defines(d, n)' = Defines(d, n)
  BY <1>2 DEF Defines
<1>6. \A f, r : /\ Outcome(f, r)' = Outcome(f, r) /\ Unresolved(f, r)' = Unresolved(f, r)
                /\ Referred(f, r)' = Referred(f, r)
  BY OutcomeSame
<1> QED BY <1>1, <1>2, <1>3, <1>4, <1>5, <1>6

\* the values of the symbols,
LEMMA StillValues ==
  ASSUME Still, ValuesOK, Earlier' = Earlier, objects \subseteq Files, PassedSame
  PROVE  ValuesOK'
<1>1. \A f \in Files : \A i \in DOMAIN Symbols(f) : Passed(f, i)' <=> Passed(f, i)
  <2>1. \A f, i : f \notin objects => ~ Passed(f, i) /\ ~ Passed(f, i)'
    BY Zenon DEF Passed, Still
  <2> QED BY <2>1, Zenon DEF PassedSame
<1>2. st_value' = st_value
  BY DEF Still
<1> QED BY <1>1 DEF ValuesOK, Symbols, Address, Files, Still

\* the words,
LEMMA StillWords ==
  ASSUME Still, WordsOK, Earlier' = Earlier, objects \subseteq Files, FixedSame
  PROVE  WordsOK'
<1>1. \A f \in Files : \A i \in DOMAIN Relocations(f) : Fixed(f, i)' <=> Fixed(f, i)
  <2>1. \A f, i : f \notin objects => ~ Fixed(f, i) /\ ~ Fixed(f, i)'
    BY Zenon DEF Fixed, Still
  <2> QED BY <2>1, Zenon DEF FixedSame
<1>2. code' = code
  BY DEF Still
<1> QED BY <1>1, <1>2, StillSame DEF WordsOK, Still, Sections, Relocations, Files

\* what was put into them,
LEMMA StillFixed ==
  ASSUME Still, FixedOK, Earlier' = Earlier, objects \subseteq Files, FixedSame, errors \subseteq errors'
  PROVE  FixedOK'
<1>1. \A f \in Files : \A i \in DOMAIN Relocations(f) : Fixed(f, i)' <=> Fixed(f, i)
  <2>1. \A f, i : f \notin objects => ~ Fixed(f, i) /\ ~ Fixed(f, i)'
    BY Zenon DEF Fixed, Still
  <2> QED BY <2>1, Zenon DEF FixedSame
<1>2. errors' = {} => errors = {}
  OBVIOUS
<1> QED BY <1>1, <1>2, StillSame DEF FixedOK, Still, Relocations, Files

\* the names,
LEMMA StillGlobals ==
  ASSUME Still, GlobalsOK, PassedSame, errors \subseteq errors', pc # "open", pc' # "open"
  PROVE  GlobalsOK'
<1>1. errors' = {} => errors = {}
  OBVIOUS
<1>2. globals' = globals /\ objects' = objects
  BY DEF Still
<1>4. ASSUME NEW n \in DOMAIN globals
      PROVE  \E d : /\ d = globals[n] /\ d \in (Nat \ {0}) \X (Nat \ {0})
                    /\ Defines(d, n)' /\ Passed(d[1], d[2])'
  <2>1. PICK d : d = globals[n]
    OBVIOUS
  <2>2. d \in (Nat \ {0}) \X (Nat \ {0}) /\ Defines(d, n) /\ Passed(d[1], d[2])
    BY <2>1 DEF GlobalsOK
  <2>3. Passed(d[1], d[2])' <=> Passed(d[1], d[2])
    BY <2>2, Zenon DEF PassedSame, Defines
  <2>4. Defines(d, n)' <=> Defines(d, n)
    BY StillSame, Zenon
  <2> QED BY <2>1, <2>2, <2>3, <2>4, Zenon
<1>5. (\A n \in DOMAIN globals :
         LET d == globals[n]
         IN d \in (Nat \ {0}) \X (Nat \ {0}) /\ Defines(d, n) /\ Passed(d[1], d[2]))'
  BY <1>2, <1>4
<1>6. \A f \in objects : \A i \in DOMAIN Symbols(f) :
         LET s == Symbols(f)[i]
         IN Passed(f, i)' =>
              /\ s.global /\ s.section # 0 =>
                   /\ s.name.is \in DOMAIN globals
                   /\ errors' = {} => globals[s.name.is] = <<f, i>>
              /\ errors' = {} => s.global \/ s.section # 0
  BY <1>1, Zenon DEF GlobalsOK, PassedSame
<1>7. \A f : Symbols(f)' = Symbols(f)
  BY StillSame, Zenon
<1> QED BY <1>2, <1>5, <1>6, <1>7 DEF GlobalsOK

\* the types,
LEMMA StillType ==
  ASSUME TypeOK, Still, processor' = processor,
         pc' \in {"open", "sections", "symbols", "relocate", "closed", "aborted"},
         at' \in (Nat \ {0}) \X (Nat \ {0}), pc' = "symbols" => at'[1] \in objects
  PROVE  TypeOK' /\ Earlier' = Earlier
<1>1. TypeOK'
  BY DEF TypeOK, Still, Files, Sections, Symbols
<1>2. Earlier' = Earlier
  BY DEF Still, Earlier, Named
<1> QED BY <1>1, <1>2

\* the files that are open,
LEMMA StillObjects ==
  ASSUME ObjectsOK, Still, processor' = processor, Earlier' = Earlier,
         pc # "open", pc' # "open", errors \subseteq errors'
  PROVE  ObjectsOK'
<1>1. Named(processor)' = Named(processor)
  BY DEF Named, Still
<1>2. errors' = {} => errors = {}
  OBVIOUS
<1> QED BY <1>1, <1>2 DEF ObjectsOK, Still

\* the addresses,
LEMMA StillPlaced ==
  ASSUME PlacedOK, Still, errors \subseteq errors',
         \A f \in objects : Checked(f)' =>
           \/ Checked(f)
           \/ errors' = {} => \A s \in DOMAIN Sections(f) : by[f][s] # None
  PROVE  PlacedOK'
<1>1. \A f : Sections(f)' = Sections(f)
  BY StillSame
<1>2. errors' = {} => errors = {}
  OBVIOUS
<1>3. Files' = Files /\ objects' = objects /\ by' = by /\ sh_addr' = sh_addr
  BY DEF Still, Files
<1>4. errors' = {} =>
        \A f \in objects : Checked(f)' => \A s \in DOMAIN Sections(f) : by[f][s] # None
  BY <1>2, Zenon DEF PlacedOK
<1> QED BY <1>1, <1>3, <1>4 DEF PlacedOK

\* the executables,
LEMMA StillKept ==
  ASSUME KeptOK, kept' = kept, processor' = processor, pc # "closed", pc' # "closed"
  PROVE  KeptOK'
BY DEF KeptOK

\* what an error tells,
LEMMA ToldSame ==
  ASSUME Still, pc # "open" => pc' # "open", Resolved => Resolved', NEW e, Told(e)
  PROVE  Told(e)'
<1> DEFINE f == e.file
           s == Symbols(f)[e.index]
           r == Relocations(f)[e.index]
<1>1. Sections(f)' = Sections(f) /\ Symbols(f)' = Symbols(f) /\ Relocations(f)' = Relocations(f)
  BY StillSame
<1>2. \A q : /\ Outcome(f, q)' = Outcome(f, q) /\ Unresolved(f, q)' = Unresolved(f, q)
  BY StillSame
<1>3. \A n : Defines(<<f, e.index>>, n)' <=> Defines(<<f, e.index>>, n)
  BY StillSame
<1>4. Named(1)' = Named(1)
  BY StillSame
<1>5. CASE e.what \in {"not found", "machine"} /\ f \in Named(1)
             /\ ~ (job.files[f].exists /\ job.files[f].machine = job.machine)
  BY <1>4, <1>5 DEF Told, Still
<1>6. CASE /\ e.what = "not referenced" /\ f \in objects /\ pc # "open"
           /\ e.index \in DOMAIN Sections(f) /\ by[f][e.index] = None
  BY <1>1, <1>6 DEF Told, Still
<1>7. CASE /\ e.what = "multiply defined" /\ Defines(<<f, e.index>>, s.name.is) /\ pc # "open"
           /\ s.name.is \in DOMAIN globals /\ globals[s.name.is] # <<f, e.index>>
  BY <1>1, <1>3, <1>7 DEF Told, Still
<1>8. CASE /\ e.what = "undefined but local" /\ f \in objects
           /\ e.index \in DOMAIN Symbols(f) /\ ~ s.global /\ s.section = 0
  BY <1>1, <1>8 DEF Told, Still
<1>9. CASE /\ e.what = "unresolved" /\ f \in objects /\ Resolved
           /\ e.index \in DOMAIN Relocations(f) /\ Unresolved(f, r)
  BY <1>1, <1>2, <1>9 DEF Told, Still
<1>10. CASE /\ e.what = "fixup" /\ f \in objects /\ Resolved
            /\ e.index \in DOMAIN Relocations(f) /\ Outcome(f, r).is = "error"
  BY <1>1, <1>2, <1>10 DEF Told, Still
<1> QED BY <1>5, <1>6, <1>7, <1>8, <1>9, <1>10 DEF Told

\* and what all errors tell.
LEMMA StillTold ==
  ASSUME ToldOK, Still, processor' = processor, pc # "open", pc' # "open", pc' # "aborted",
         Resolved => Resolved', \A e \in errors' : e \in errors \/ (processor = 1 => Told(e)')
  PROVE  ToldOK'
<1> SUFFICES ASSUME processor = 1 PROVE \A e \in errors' : Told(e)'
  BY DEF ToldOK
<1>1. \A e \in errors : Told(e)'
  BY ToldSame, Zenon DEF ToldOK
<1> QED BY <1>1

\* The invariant after a step that only goes on.
LEMMA StillRest ==
  ASSUME IInv, Still, processor' = processor, pc # "open",
         pc' \in {"sections", "symbols", "relocate", "closed"},
         at' \in (Nat \ {0}) \X (Nat \ {0}), pc' = "symbols" => at'[1] \in objects,
         errors \subseteq errors', FixedSame,
         \A f \in objects : Checked(f)' =>
           \/ Checked(f)
           \/ errors' = {} => \A s \in DOMAIN Sections(f) : by[f][s] # None,
         Resolved => Resolved', \A e \in errors' : e \in errors \/ (processor = 1 => Told(e)'),
         KeptOK', ValuesOK', GlobalsOK'
  PROVE  IInv'
<1>1. /\ TypeOK /\ ObjectsOK /\ PlacedOK /\ WordsOK /\ FixedOK /\ ToldOK /\ objects \subseteq Files
  BY DEF IInv, TypeOK
<1>2. pc' # "open" /\ pc' # "aborted"
  OBVIOUS
<1>3. TypeOK' /\ Earlier' = Earlier
  BY <1>1, StillType
<1>4. ObjectsOK'
  BY <1>1, <1>2, <1>3, StillObjects, Zenon
<1>5. PlacedOK'
  BY <1>1, StillPlaced, Zenon
<1>8. WordsOK'
  BY <1>1, <1>3, StillWords, Zenon
<1>9. FixedOK'
  BY <1>1, <1>3, StillFixed, Zenon
<1>10. ToldOK'
  BY <1>1, <1>2, StillTold, Zenon
<1> QED BY <1>3, <1>4, <1>5, <1>8, <1>9, <1>10 DEF IInv

\* The symbols and the names, after such a step.
LEMMA StillBoth ==
  ASSUME IInv, Still, processor' = processor, pc # "open", pc' # "open", errors \subseteq errors',
         PassedSame
  PROVE  ValuesOK' /\ GlobalsOK'
<1>1. ValuesOK /\ GlobalsOK /\ objects \subseteq Files
  BY DEF IInv, TypeOK
<1>2. Earlier' = Earlier
  BY DEF Still, Earlier, Named
<1>3. ValuesOK'
  BY <1>1, <1>2, StillValues, Zenon
<1>4. GlobalsOK'
  BY <1>1, StillGlobals, Zenon
<1> QED BY <1>3, <1>4

-----------------------------------------------------------------------------
(* The steps of the loops.                                                 *)

\* A section that no statement places is an error.
LEMMA CheckSectionsStep ==
  ASSUME IInv, CheckSections
  PROVE  IInv'
<1>1. TypeOK /\ KeptOK /\ at[1] \in Nat \ {0} /\ objects \subseteq Nat \ {0} /\ objects \subseteq Files
  BY JobIs DEF IInv, TypeOK
<1> USE DEF CheckSections
<1>2. PICK f : f = First(at[1])
  OBVIOUS
<1>3. pc = "sections" /\ pc' = "symbols" /\ at' = <<f, 1>> /\ Rest(at[1]) # {}
  BY <1>2
<1>4. Still /\ processor' = processor /\ kept' = kept
  BY DEF Still
<1>5. errors' = errors \cup {Fault("not referenced", f, s) :
                               s \in {t \in DOMAIN Sections(f) : by[f][t] = None}}
  BY <1>2
<1> HIDE DEF CheckSections
<1>6. /\ f \in objects /\ f \in Nat \ {0} /\ f >= at[1]
      /\ \A g \in objects : g >= at[1] => f <= g
  BY <1>1, <1>2, <1>3, FirstIs
<1>7. PassedSame
  <2> SUFFICES ASSUME NEW g \in objects, NEW i \in DOMAIN Symbols(g)
               PROVE  Passed(g, i)' <=> Passed(g, i)
    BY DEF PassedSame
  <2>1. i \in Nat \ {0} /\ g \in Nat
    BY <1>1, SymbolIs DEF TypeOK
  <2>2. Passed(g, i) <=> g < at[1]
    BY <1>3 DEF Passed, Resolved
  <2>3. Passed(g, i)' <=> g < f
    BY <1>3, <1>4, <2>1 DEF Passed, Resolved, Still
  <2> QED BY <1>1, <1>6, <2>1, <2>2, <2>3
<1>8. FixedSame
  BY <1>3 DEF FixedSame, Fixed
<1>9. \A g \in objects : Checked(g)' =>
        \/ Checked(g)
        \/ errors' = {} => \A s \in DOMAIN Sections(g) : by[g][s] # None
  <2> SUFFICES ASSUME NEW g \in objects, Checked(g)', ~ Checked(g), errors' = {}
               PROVE  \A s \in DOMAIN Sections(g) : by[g][s] # None
    OBVIOUS
  <2>1. ~ (g < at[1])
    BY <1>3 DEF Checked
  <2>2. g < f \/ g = f
    BY <1>3 DEF Checked, Resolved
  <2>3. g \in Nat
    BY <1>1
  <2>4. g = f
    BY <1>1, <1>6, <2>1, <2>2, <2>3
  <2> QED BY <1>5, <2>4
<1>10. \A e \in errors' : e \in errors \/ Told(e)'
  <2>1. ASSUME NEW s \in DOMAIN Sections(f), by[f][s] = None
        PROVE  Told(Fault("not referenced", f, s))'
    <3>1. PICK e : e = Fault("not referenced", f, s)
      OBVIOUS
    <3>2. e.what = "not referenced" /\ e.file = f /\ e.index = s
      BY <3>1 DEF Fault
    <3>3. Told(e)'
      BY <1>3, <1>4, <1>6, <2>1, <3>2, StillSame DEF Told, Still
    <3> QED BY <3>1, <3>3
  <2> QED BY <1>5, <2>1
<1>11. KeptOK'
  BY <1>1, <1>3, <1>4, StillKept
<1>12. at' \in (Nat \ {0}) \X (Nat \ {0}) /\ at'[1] \in objects /\ ~ Resolved
  BY <1>3, <1>6 DEF Resolved
<1>13. errors \subseteq errors' /\ pc # "open" /\ pc' # "open"
  BY <1>3, <1>5
<1>14. ValuesOK' /\ GlobalsOK'
  BY <1>4, <1>7, <1>13, StillBoth
<1> QED BY <1>3, <1>4, <1>8, <1>9, <1>10, <1>11, <1>12, <1>13, <1>14, StillRest

\* A symbol that is passed: the symbols of a file are passed in order.
LEMMA PassOne ==
  ASSUME TypeOK, pc = "symbols", UNCHANGED <<job, objects, pc>>, at' = <<at[1], at[2] + 1>>,
         NEW g \in objects, NEW k \in DOMAIN Symbols(g)
  PROVE  Passed(g, k)' <=> Passed(g, k) \/ (g = at[1] /\ k = at[2])
<1>1. k \in Nat /\ g \in Nat /\ at[1] \in Nat /\ at[2] \in Nat
  BY JobIs, SymbolIs DEF TypeOK
<1>2. Passed(g, k) <=> g < at[1] \/ (g = at[1] /\ k < at[2])
  BY DEF Passed, Resolved
<1>3. Passed(g, k)' <=> g < at[1] \/ (g = at[1] /\ k < at[2] + 1)
  BY DEF Passed, Resolved
<1> QED BY <1>1, <1>2, <1>3

\* An undefined symbol has to be global.
LEMMA UndefinedSymbolStep ==
  ASSUME IInv, UndefinedSymbol
  PROVE  IInv'
<1>1. /\ TypeOK /\ KeptOK /\ ValuesOK /\ GlobalsOK
      /\ at[1] \in Nat \ {0} /\ at[2] \in Nat \ {0} /\ objects \subseteq Nat \ {0}
      /\ objects \subseteq Files
  BY JobIs DEF IInv, TypeOK
<1> USE DEF UndefinedSymbol
<1>2. at[1] \in objects /\ First(at[1]) = at[1]
  BY <1>1, FirstOpen DEF TypeOK
<1>3. PICK f, i : f = at[1] /\ i = at[2]
  OBVIOUS
<1>4. f \in objects /\ i \in Nat \ {0} /\ f \in Nat \ {0} /\ f \in Files
  BY <1>1, <1>2, <1>3
<1>5. pc = "symbols" /\ pc' = "symbols" /\ at' = <<f, i + 1>> /\ i <= Len(Symbols(f))
  BY <1>2, <1>3 DEF NextIndex
<1>6. Still /\ processor' = processor /\ kept' = kept
  BY DEF Still
<1>7. i \in DOMAIN Symbols(f)
  <2> HIDE DEF UndefinedSymbol
  <2>1. Symbols(f) \in Seq(SymbolEntry)
    BY <1>1, <1>4, FileIs DEF TypeOK
  <2> QED BY <1>4, <1>5, <2>1
<1>8. /\ Symbols(f)[i].section = 0 /\ Symbols(f)[i].global \in BOOLEAN
      /\ errors' = errors \cup
           IF Symbols(f)[i].global THEN {} ELSE {Fault("undefined but local", f, i)}
  BY <1>1, <1>3, <1>4, <1>7, SymbolIs DEF TypeOK
<1>9. \A g \in objects : \A k \in DOMAIN Symbols(g) :
        Passed(g, k)' <=> Passed(g, k) \/ (g = f /\ k = i)
  BY <1>1, <1>3, <1>5, <1>6, PassOne DEF Still
<1> HIDE DEF UndefinedSymbol
<1>10. FixedSame
  BY <1>5 DEF FixedSame, Fixed
<1>11. \A g \in objects : Checked(g)' => Checked(g)
  BY <1>3, <1>5 DEF Checked, Resolved
<1>12. errors \subseteq errors' /\ pc # "open" /\ pc' # "open"
  BY <1>5, <1>8
<1>13. \A e \in errors' : e \in errors \/ Told(e)'
  <2> SUFFICES ASSUME ~ Symbols(f)[i].global
               PROVE  Told(Fault("undefined but local", f, i))'
    BY <1>8
  <2>1. PICK e : e = Fault("undefined but local", f, i)
    OBVIOUS
  <2>2. e.what = "undefined but local" /\ e.file = f /\ e.index = i
    BY <2>1 DEF Fault
  <2>3. Told(e)'
    BY <1>4, <1>6, <1>7, <1>8, <2>2, StillSame DEF Told, Still
  <2> QED BY <2>1, <2>3
<1>14. KeptOK'
  BY <1>1, <1>5, <1>6, StillKept
<1>15. at' \in (Nat \ {0}) \X (Nat \ {0}) /\ at'[1] \in objects /\ ~ Resolved
  BY <1>4, <1>5 DEF Resolved
<1>16. ValuesOK'
  <2>1. \A g \in Files : \A k \in DOMAIN Symbols(g) :
          Passed(g, k)' /\ Symbols(g)[k].section # 0 <=> Passed(g, k) /\ Symbols(g)[k].section # 0
    <3>1. \A g, k : g \notin objects => ~ Passed(g, k) /\ ~ Passed(g, k)'
      BY <1>6, Zenon DEF Passed, Still
    <3> QED BY <1>8, <1>9, <3>1
  <2>2. Earlier' = Earlier
    BY <1>6 DEF Still, Earlier, Named
  <2> QED BY <1>1, <1>6, <2>1, <2>2 DEF ValuesOK, Symbols, Address, Files, Still
<1>17. GlobalsOK'
  <2>1. globals' = globals /\ objects' = objects
    BY <1>6 DEF Still
  <2>2. \A n \in DOMAIN globals :
          LET d == globals[n]
          IN d \in (Nat \ {0}) \X (Nat \ {0}) /\ Defines(d, n) /\ Passed(d[1], d[2])
    BY <1>1, <1>12 DEF GlobalsOK
  <2>3. ASSUME NEW n \in DOMAIN globals
        PROVE  \E d : /\ d = globals[n] /\ d \in (Nat \ {0}) \X (Nat \ {0})
                      /\ Defines(d, n)' /\ Passed(d[1], d[2])'
    <3>1. PICK d : d = globals[n]
      OBVIOUS
    <3>2. d \in (Nat \ {0}) \X (Nat \ {0}) /\ Defines(d, n) /\ Passed(d[1], d[2])
      BY <2>2, <3>1
    <3>3. Passed(d[1], d[2])'
      BY <1>9, <3>2, Zenon DEF Defines
    <3>4. Defines(d, n)' <=> Defines(d, n)
      BY <1>6, StillSame, Zenon
    <3> QED BY <3>1, <3>2, <3>3, <3>4, Zenon
  <2>4. (\A n \in DOMAIN globals :
           LET d == globals[n]
           IN d \in (Nat \ {0}) \X (Nat \ {0}) /\ Defines(d, n) /\ Passed(d[1], d[2]))'
    BY <2>1, <2>3
  <2>5. ASSUME NEW g \in objects, NEW k \in DOMAIN Symbols(g), Passed(g, k)'
        PROVE  LET s == Symbols(g)[k]
               IN /\ s.global /\ s.section # 0 =>
                       /\ s.name.is \in DOMAIN globals
                       /\ errors' = {} => globals[s.name.is] = <<g, k>>
                  /\ errors' = {} => s.global \/ s.section # 0
    <3>1. CASE Passed(g, k)
      BY <1>1, <1>12, <3>1 DEF GlobalsOK
    <3>2. CASE g = f /\ k = i
      BY <1>8, <3>2
    <3> QED BY <1>9, <2>5, <3>1, <3>2
  <2>6. \A g : Symbols(g)' = Symbols(g)
    BY <1>6, StillSame, Zenon
  <2> QED BY <2>1, <2>4, <2>5, <2>6 DEF GlobalsOK
<1> QED BY <1>5, <1>6, <1>10, <1>11, <1>12, <1>13, <1>14, <1>15, <1>16, <1>17, StillRest

\* All symbols of a file are passed.
LEMMA EndSymbolsStep ==
  ASSUME IInv, EndSymbols
  PROVE  IInv'
<1>1. /\ TypeOK /\ KeptOK /\ at[1] \in Nat \ {0} /\ at[2] \in Nat \ {0}
      /\ at[1] \in objects /\ objects \subseteq Nat \ {0} /\ objects \subseteq Files
  BY JobIs, SMTT(30) DEF IInv, TypeOK, EndSymbols
<1> USE DEF EndSymbols
<1>2. pc = "symbols" /\ pc' = "sections" /\ at' = <<at[1] + 1, 1>> /\ at[2] > Len(Symbols(at[1]))
  OBVIOUS
<1>3. Still /\ processor' = processor /\ kept' = kept /\ errors' = errors
  BY DEF Still, done
<1> HIDE DEF EndSymbols
<1>4. PassedSame
  <2> SUFFICES ASSUME NEW g \in objects, NEW k \in DOMAIN Symbols(g)
               PROVE  Passed(g, k)' <=> Passed(g, k)
    BY DEF PassedSame
  <2>1. k \in Nat /\ k <= Len(Symbols(g)) /\ g \in Nat
    BY <1>1, SymbolIs DEF TypeOK
  <2>2. Passed(g, k) <=> g < at[1] \/ (g = at[1] /\ k < at[2])
    BY <1>2 DEF Passed, Resolved
  <2>3. Passed(g, k)' <=> g < at[1] + 1
    BY <1>2, <1>3, <2>1 DEF Passed, Resolved, Still
  <2>4. Len(Symbols(at[1])) \in Nat
    <3>1. Symbols(at[1]) \in Seq(SymbolEntry)
      BY <1>1, FileIs DEF TypeOK
    <3> QED BY <3>1
  <2>5. g = at[1] => k < at[2]
    BY <1>1, <1>2, <2>1, <2>4
  <2> QED BY <1>1, <2>1, <2>2, <2>3, <2>5
<1>5. FixedSame
  BY <1>2 DEF FixedSame, Fixed
<1>6. \A g \in objects : Checked(g)' => Checked(g)
  <2> TAKE g \in objects
  <2>1. g \in Nat
    BY <1>1
  <2>2. Checked(g) <=> g < at[1] \/ g = at[1]
    BY <1>2 DEF Checked, Resolved
  <2>3. Checked(g)' <=> g < at[1] + 1
    BY <1>2, <1>3 DEF Checked, Resolved, Still
  <2> QED BY <1>1, <2>1, <2>2, <2>3
<1>7. at' \in (Nat \ {0}) \X (Nat \ {0}) /\ ~ Resolved
  BY <1>1, <1>2 DEF Resolved
<1>8. KeptOK'
  BY <1>1, <1>2, <1>3, StillKept
<1>9. ValuesOK' /\ GlobalsOK'
  BY <1>2, <1>3, <1>4, StillBoth
<1> QED BY <1>2, <1>3, <1>5, <1>6, <1>7, <1>8, <1>9, StillRest

\* All files are passed.
LEMMA EndFixupStep ==
  ASSUME IInv, EndFixup
  PROVE  IInv'
<1>1. /\ TypeOK /\ KeptOK /\ at[1] \in Nat \ {0} /\ objects \subseteq Nat \ {0}
      /\ objects \subseteq Files
  BY JobIs DEF IInv, TypeOK
<1> USE DEF EndFixup
<1>2. pc = "sections" /\ pc' = "relocate" /\ at' = <<1, 1>> /\ Rest(at[1]) = {}
  BY DEF Start
<1>3. Still /\ processor' = processor /\ kept' = kept /\ errors' = errors
  BY DEF Still, done
<1> HIDE DEF EndFixup
<1>4. \A g \in objects : g < at[1]
  BY <1>1, <1>2 DEF Rest
<1>5. PassedSame
  BY <1>2, <1>3, <1>4 DEF PassedSame, Passed, Resolved, Still
<1>6. \A g \in objects : Checked(g)
  BY <1>2, <1>4 DEF Checked
<1>7. FixedSame
  <2> SUFFICES ASSUME NEW g \in objects, NEW k \in DOMAIN Relocations(g)
               PROVE  ~ Fixed(g, k) /\ ~ Fixed(g, k)'
    BY DEF FixedSame
  <2>1. k \in Nat \ {0} /\ g \in Nat \ {0}
    BY <1>1, RelocationIs DEF TypeOK
  <2> QED BY <1>2, <2>1 DEF Fixed
<1>8. at' \in (Nat \ {0}) \X (Nat \ {0}) /\ Resolved'
  BY <1>2 DEF Resolved
<1>9. KeptOK'
  BY <1>1, <1>2, <1>3, StillKept
<1>10. ValuesOK' /\ GlobalsOK'
  BY <1>2, <1>3, <1>5, StillBoth
<1> QED BY <1>2, <1>3, <1>6, <1>7, <1>8, <1>9, <1>10, StillRest

\* All relocations of a file are dealt with.
LEMMA EndRelocationsStep ==
  ASSUME IInv, EndRelocations
  PROVE  IInv'
<1>1. /\ TypeOK /\ KeptOK /\ at[1] \in Nat \ {0} /\ at[2] \in Nat \ {0}
      /\ objects \subseteq Nat \ {0} /\ objects \subseteq Files
  BY JobIs DEF IInv, TypeOK
<1> USE DEF EndRelocations
<1>2. PICK f : f = First(at[1])
  OBVIOUS
<1>3. /\ f \in objects /\ f \in Nat \ {0} /\ f >= at[1]
      /\ \A g \in objects : g >= at[1] => f <= g
  BY <1>1, <1>2, FirstIs
<1>4. /\ pc = "relocate" /\ pc' = "relocate" /\ at' = <<f + 1, 1>> /\ at[2] > Len(Relocations(f))
  BY <1>2 DEF NextFile
<1>5. Still /\ processor' = processor /\ kept' = kept /\ errors' = errors
  BY DEF Still, done
<1> HIDE DEF EndRelocations
<1>6. PassedSame
  BY <1>4, <1>5 DEF PassedSame, Passed, Resolved, Still
<1>7. \A g \in objects : Checked(g)
  BY <1>4 DEF Checked, Resolved
<1>8. FixedSame
  <2> SUFFICES ASSUME NEW g \in objects, NEW k \in DOMAIN Relocations(g)
               PROVE  Fixed(g, k)' <=> Fixed(g, k)
    BY DEF FixedSame
  <2>1. k \in Nat \ {0} /\ g \in Nat \ {0} /\ k <= Len(Relocations(g))
    BY <1>1, RelocationIs DEF TypeOK
  <2>2. Len(Relocations(f)) \in Nat
    <3>1. Relocations(f) \in Seq(RelocationEntry)
      BY <1>1, <1>3, FileIs DEF TypeOK
    <3> QED BY <3>1
  <2>3. Fixed(g, k) <=> g < at[1] \/ (g = f /\ k < at[2])
    BY <1>2, <1>4 DEF Fixed
  <2>4. Fixed(g, k)' <=> g < f + 1
    BY <1>4, <1>5, <2>1 DEF Fixed, Still
  <2>5. g = f => k < at[2]
    BY <1>1, <1>4, <2>1, <2>2
  <2> QED BY <1>1, <1>3, <2>1, <2>3, <2>4, <2>5
<1>9. at' \in (Nat \ {0}) \X (Nat \ {0}) /\ Resolved'
  BY <1>3, <1>4 DEF Resolved
<1>10. KeptOK'
  BY <1>1, <1>4, <1>5, StillKept
<1>11. ValuesOK' /\ GlobalsOK'
  BY <1>4, <1>5, <1>6, StillBoth
<1> QED BY <1>4, <1>5, <1>7, <1>8, <1>9, <1>10, <1>11, StillRest

\* The executable is kept when there is no error.
LEMMA exec_closeStep ==
  ASSUME IInv, exec_close
  PROVE  IInv'
<1>1. /\ TypeOK /\ KeptOK /\ at[1] \in Nat \ {0} /\ objects \subseteq Nat \ {0}
      /\ objects \subseteq Files
  BY JobIs DEF IInv, TypeOK
<1> USE DEF exec_close
<1>2. pc = "relocate" /\ pc' = "closed" /\ at' = <<1, 1>> /\ Rest(at[1]) = {}
  OBVIOUS
<1>3. Still /\ processor' = processor /\ errors' = errors
  BY DEF Still
<1>4. kept' = IF errors = {} THEN kept \cup {processor} ELSE kept
  OBVIOUS
<1> HIDE DEF exec_close
<1>5. PassedSame
  BY <1>2, <1>3 DEF PassedSame, Passed, Resolved, Still
<1>6. \A g \in objects : Checked(g)
  BY <1>2 DEF Checked, Resolved
<1>7. FixedSame
  <2>1. \A g \in objects : g < at[1]
    BY <1>1, <1>2 DEF Rest
  <2> QED BY <1>2, <1>3, <2>1 DEF FixedSame, Fixed, Still
<1>8. at' \in (Nat \ {0}) \X (Nat \ {0}) /\ Resolved'
  BY <1>2 DEF Resolved
<1>9. KeptOK'
  <2>1. processor \in Nat \ {0}
    <3>1. job.uses \in Seq(Seq(Nat))
      BY <1>1, JobIs DEF TypeOK
    <3> QED BY <1>1, <3>1 DEF TypeOK
  <2> QED BY <1>1, <1>2, <1>3, <1>4, <2>1 DEF KeptOK
<1>10. ValuesOK' /\ GlobalsOK'
  BY <1>2, <1>3, <1>5, StillBoth
<1> QED BY <1>2, <1>3, <1>6, <1>7, <1>8, <1>9, <1>10, StillRest

-----------------------------------------------------------------------------
(* The steps that open files and place sections.                           *)

\* The PROCESSOR that is read, and the files it names.
LEMMA ProcessorIs ==
  ASSUME TypeOK
  PROVE  /\ processor \in Nat \ {0} /\ processor <= Len(job.uses)
         /\ job.uses \in Seq(Seq(Nat)) /\ job.uses[processor] \in Seq(Nat)
         /\ \A i \in DOMAIN job.uses[processor] : job.uses[processor][i] \in Named(processor) \cap Files
<1>1. job.uses \in Seq(Seq(Nat)) /\ processor \in DOMAIN job.uses
  BY JobIs DEF TypeOK
<1>2. \A i \in DOMAIN job.uses[processor] : job.uses[processor][i] \in Files
  BY <1>1, JobIs, Zenon DEF TypeOK
<1> QED BY <1>1, <1>2 DEF Named

\* Before the section statements of a PROCESSOR nothing is checked, passed or fixed.
LEMMA OpenNot ==
  /\ pc = "open" => \A f, i : ~ Checked(f) /\ ~ Passed(f, i) /\ ~ Fixed(f, i)
  /\ pc' = "open" => \A f, i : ~ Checked(f)' /\ ~ Passed(f, i)' /\ ~ Fixed(f, i)'
BY DEF Checked, Passed, Fixed, Resolved

\* The next PROCESSOR: no file that only it names is open yet.
LEMMA NextProcessorStep ==
  ASSUME IInv, NextProcessor
  PROVE  IInv'
<1>1. /\ TypeOK /\ ObjectsOK /\ PlacedOK /\ ValuesOK /\ WordsOK /\ KeptOK
      /\ objects \subseteq Files
  BY DEF IInv, TypeOK
<1>2. /\ pc = "closed" /\ pc' = "open" /\ at' = <<1, 1>> /\ processor < Len(job.uses)
      /\ processor' = processor + 1 /\ errors' = errors /\ kept' = kept
  BY DEF NextProcessor, Start, done
<1>3. Still
  BY DEF NextProcessor, done, Still
<1>4. processor \in Nat \ {0} /\ processor + 1 \in DOMAIN job.uses /\ processor + 1 # 1
  BY <1>1, <1>2, ProcessorIs
<1>5. Earlier' = Earlier \cup Named(processor)
  BY <1>1, <1>2, <1>3, <1>4, EarlierNow DEF Still
<1>6. \A f, i : ~ Checked(f)' /\ ~ Passed(f, i)' /\ ~ Fixed(f, i)'
  BY <1>2, OpenNot, Zenon
<1>7. \A f \in Files \ (Earlier \cup Named(processor)) : f \notin objects
  BY <1>1 DEF ObjectsOK
<1>8. TypeOK'
  <2>1. at' \in (Nat \ {0}) \X (Nat \ {0})
    BY <1>2
  <2>2. processor' \in DOMAIN job'.uses
    BY <1>2, <1>3, <1>4 DEF Still
  <2> QED BY <1>1, <1>2, <1>3, <2>1, <2>2 DEF TypeOK, Still, Files, Sections, Symbols
<1>9. ObjectsOK'
  <2>1. \A i \in DOMAIN job.uses[processor + 1] : ~ (i < 1)
    <3>1. job.uses[processor + 1] \in Seq(Nat)
      BY <1>1, <1>4, ProcessorIs
    <3> QED BY <3>1
  <2>2. at'[2] = 1 /\ objects' = objects /\ job' = job
    BY <1>2, <1>3 DEF Still
  <2>3. objects \subseteq Earlier'
    BY <1>1, <1>5 DEF ObjectsOK
  <2> QED BY <1>1, <1>2, <2>1, <2>2, <2>3 DEF ObjectsOK
<1>10. PlacedOK'
  BY <1>1, <1>3, <1>6 DEF PlacedOK, Still, Files, Sections
<1>11. ValuesOK'
  <2>1. \A f \in Files \ Earlier' : \A i : ~ Passed(f, i) /\ ~ Passed(f, i)'
    BY <1>5, <1>6, <1>7, Zenon DEF Passed
  <2>2. Files \ Earlier' \subseteq Files \ Earlier
    BY <1>5
  <2> QED BY <1>1, <1>3, <2>1, <2>2 DEF ValuesOK, Still, Files, Symbols
<1>12. GlobalsOK'
  BY <1>2 DEF GlobalsOK
<1>13. WordsOK'
  <2>1. \A f \in Files \ Earlier' : \A i : ~ Fixed(f, i) /\ ~ Fixed(f, i)'
    BY <1>5, <1>6, <1>7, Zenon DEF Fixed
  <2>2. Files \ Earlier' \subseteq Files \ Earlier /\ code' = code
    BY <1>3, <1>5 DEF Still
  <2> QED BY <1>1, <1>3, <2>1, <2>2, StillSame DEF WordsOK, Still, Files, Sections, Relocations
<1>14. FixedOK'
  BY <1>6, Zenon DEF FixedOK
<1>15. KeptOK'
  BY <1>1, <1>2, <1>4 DEF KeptOK
<1>16. ToldOK'
  BY <1>2, <1>4 DEF ToldOK
<1> QED BY <1>8, <1>9, <1>10, <1>11, <1>12, <1>13, <1>14, <1>15, <1>16 DEF IInv

\* A file that is named is open, or there is an error.
LEMMA object_openStep ==
  ASSUME IInv, object_open
  PROVE  IInv'
<1>1. /\ TypeOK /\ ObjectsOK /\ PlacedOK /\ ValuesOK /\ WordsOK /\ KeptOK /\ ToldOK
      /\ objects \subseteq Files
  BY DEF IInv, TypeOK
<1> DEFINE f_ == job.uses[processor][at[2]]
           fault_ == IF f_ \in objects THEN "none"
                     ELSE IF ~job.files[f_].exists THEN "not found"
                     ELSE IF job.files[f_].machine # job.machine THEN "machine"
                     ELSE "none"
<1>2. /\ pc = "open" /\ pc' = "open" /\ at' = <<1, at[2] + 1>> /\ at[2] <= Len(job.uses[processor])
      /\ IF fault_ = "none"
           THEN objects' = objects \cup {f_} /\ errors' = errors
           ELSE errors' = errors \cup {Fault(fault_, f_, 0)} /\ objects' = objects
  BY DEF object_open
<1>3. /\ job' = job /\ processor' = processor /\ sh_addr' = sh_addr /\ by' = by /\ st_value' = st_value
      /\ code' = code /\ globals' = globals /\ kept' = kept
  BY DEF object_open
<1>4. PICK f, fault : f = f_ /\ fault = fault_
  OBVIOUS
<1> HIDE DEF f_, fault_
<1>5. /\ IF fault = "none"
           THEN objects' = objects \cup {f} /\ errors' = errors
           ELSE errors' = errors \cup {Fault(fault, f, 0)} /\ objects' = objects
  BY <1>2, <1>4
<1>6. \/ fault = "none" /\ (f \in objects \/ (job.files[f].exists /\ job.files[f].machine = job.machine))
      \/ fault \in {"not found", "machine"} /\ ~ (job.files[f].exists /\ job.files[f].machine = job.machine)
  BY <1>4 DEF f_, fault_
<1>7. at[2] \in DOMAIN job.uses[processor] /\ at[2] \in Nat \ {0} /\ f \in Named(processor) /\ f \in Files
  <2>1. at[2] \in Nat \ {0} /\ job.uses[processor] \in Seq(Nat)
    BY <1>1, ProcessorIs DEF TypeOK
  <2>2. at[2] \in DOMAIN job.uses[processor]
    BY <1>2, <2>1
  <2> QED BY <1>1, <1>4, <2>1, <2>2, ProcessorIs DEF f_
<1>8. \A g, i : /\ ~ Checked(g)' /\ ~ Passed(g, i)' /\ ~ Fixed(g, i)'
                /\ ~ Checked(g) /\ ~ Passed(g, i) /\ ~ Fixed(g, i)
  BY <1>2, OpenNot, Zenon
<1>9. Earlier' = Earlier /\ Named(processor)' = Named(processor) /\ Named(1)' = Named(1)
  BY <1>3 DEF Earlier, Named
<1>10. objects \subseteq objects' /\ objects' \subseteq objects \cup {f} /\ errors \subseteq errors'
  BY <1>5
<1>11. errors' = {} => errors = {} /\ f \in objects'
  BY <1>5
<1>12. TypeOK'
  <2>1. at' \in (Nat \ {0}) \X (Nat \ {0})
    BY <1>2, <1>7
  <2>2. objects' \subseteq Files
    BY <1>1, <1>7, <1>10
  <2> QED BY <1>1, <1>2, <1>3, <2>1, <2>2 DEF TypeOK, Files, Sections, Symbols
<1>13. ObjectsOK'
  <2>1. objects' \subseteq Earlier \cup Named(processor)
    BY <1>1, <1>7, <1>10 DEF ObjectsOK
  <2>2. \A g \in objects' : job.files[g].exists /\ job.files[g].machine = job.machine
    BY <1>1, <1>5, <1>6 DEF ObjectsOK
  <2>3. ASSUME errors' = {}, NEW i \in DOMAIN job.uses[processor], i < at[2] + 1
        PROVE  job.uses[processor][i] \in objects'
    <3>1. i \in Nat
      <4>1. job.uses[processor] \in Seq(Nat)
        BY <1>1, ProcessorIs
      <4> QED BY <4>1
    <3>2. CASE i < at[2]
      BY <1>1, <1>2, <1>10, <1>11, <2>3, <3>2 DEF ObjectsOK
    <3>3. CASE i = at[2]
      BY <1>4, <1>11, <2>3, <3>3 DEF f_
    <3> QED BY <1>7, <2>3, <3>1, <3>2, <3>3
  <2> QED BY <1>2, <1>3, <1>9, <2>1, <2>2, <2>3 DEF ObjectsOK
<1>14. PlacedOK'
  BY <1>1, <1>3, <1>8 DEF PlacedOK, Files, Sections
<1>15. ValuesOK'
  BY <1>1, <1>3, <1>8, <1>9 DEF ValuesOK, Files, Symbols
<1>16. GlobalsOK'
  BY <1>2 DEF GlobalsOK
<1>17. WordsOK'
  <2>1. \A g, r : Words(g, r)' = Words(g, r) /\ Before(g, r)' = Before(g, r)
    BY <1>3 DEF Words, Before, Sections
  <2> QED BY <1>1, <1>3, <1>8, <1>9, <2>1 DEF WordsOK, Files, Sections, Relocations
<1>18. FixedOK'
  BY <1>8, Zenon DEF FixedOK
<1>19. KeptOK'
  BY <1>1, <1>2, <1>3 DEF KeptOK
<1>20. ToldOK'
  <2> SUFFICES ASSUME processor = 1 PROVE \A e \in errors' : Told(e)'
    BY <1>2, <1>3 DEF ToldOK
  <2>1. ASSUME NEW e \in errors PROVE Told(e)'
    <3>1. Told(e)
      BY <1>1 DEF ToldOK
    <3>2. \/ e.what \in {"not found", "machine"} /\ e.file \in Named(1)
               /\ ~ (job.files[e.file].exists /\ job.files[e.file].machine = job.machine)
          \/ /\ e.what = "undefined but local" /\ e.file \in objects
             /\ e.index \in DOMAIN Symbols(e.file) /\ ~ Symbols(e.file)[e.index].global
             /\ Symbols(e.file)[e.index].section = 0
      BY <1>2, <3>1 DEF Told, Resolved
    <3>3. Symbols(e.file)' = Symbols(e.file)
      BY <1>3 DEF Symbols
    <3> QED BY <1>3, <1>9, <1>10, <3>2, <3>3 DEF Told
  <2>2. ASSUME fault # "none" PROVE Told(Fault(fault, f, 0))'
    <3>1. PICK e : e = Fault(fault, f, 0)
      OBVIOUS
    <3>2. e.what = fault /\ e.file = f
      BY <3>1 DEF Fault
    <3>3. Told(e)'
      BY <1>3, <1>6, <1>7, <1>9, <2>2, <3>2 DEF Told
    <3> QED BY <3>1, <3>3
  <2> QED BY <1>5, <2>1, <2>2
<1> QED BY <1>12, <1>13, <1>14, <1>15, <1>16, <1>17, <1>18, <1>19, <1>20 DEF IInv

\* Sections get addresses before any symbol does.
LEMMA PlaceSectionsStep ==
  ASSUME IInv, PlaceSections
  PROVE  IInv'
<1>1. /\ TypeOK /\ ObjectsOK /\ PlacedOK /\ ValuesOK /\ WordsOK /\ KeptOK /\ ToldOK
      /\ objects \subseteq Files
  BY DEF IInv, TypeOK
<1>2. /\ pc = "open" /\ pc' = "sections" /\ at' = <<1, 1>> /\ at[2] > Len(job.uses[processor])
      /\ globals' = << >>
      /\ job' = job /\ processor' = processor /\ objects' = objects /\ st_value' = st_value
      /\ code' = code /\ errors' = errors /\ kept' = kept
  BY DEF PlaceSections, Start
<1>3. PICK placed \in SUBSET Unplaced : \E a \in [placed -> job.addresses] :
        /\ sh_addr' = [f \in DOMAIN sh_addr |-> [s \in DOMAIN sh_addr[f] |->
                         IF <<f, s>> \in placed THEN a[<<f, s>>] ELSE sh_addr[f][s]]]
        /\ by' = [f \in DOMAIN by |-> [s \in DOMAIN by[f] |->
                    IF <<f, s>> \in placed THEN processor ELSE by[f][s]]]
  BY DEF PlaceSections
<1>4. PICK a \in [placed -> job.addresses] :
        /\ sh_addr' = [f \in DOMAIN sh_addr |-> [s \in DOMAIN sh_addr[f] |->
                         IF <<f, s>> \in placed THEN a[<<f, s>>] ELSE sh_addr[f][s]]]
        /\ by' = [f \in DOMAIN by |-> [s \in DOMAIN by[f] |->
                    IF <<f, s>> \in placed THEN processor ELSE by[f][s]]]
  BY <1>3
<1>5. job.addresses \subseteq Nat /\ processor \in Nat \ {0}
  BY <1>1, JobIs, ProcessorIs DEF TypeOK
<1>6. /\ DOMAIN sh_addr' = Files /\ DOMAIN by' = Files
      /\ \A f \in Files :
           /\ sh_addr'[f] \in [DOMAIN Sections(f) -> Nat \cup {None}]
           /\ by'[f] \in [DOMAIN Sections(f) -> Nat \cup {None}]
           /\ \A s \in DOMAIN Sections(f) : by'[f][s] = None <=> sh_addr'[f][s] = None
  <2>1. DOMAIN sh_addr' = Files /\ DOMAIN by' = Files
    BY <1>1, <1>4 DEF TypeOK
  <2> SUFFICES ASSUME NEW f \in Files
               PROVE  /\ sh_addr'[f] \in [DOMAIN Sections(f) -> Nat \cup {None}]
                      /\ by'[f] \in [DOMAIN Sections(f) -> Nat \cup {None}]
                      /\ \A s \in DOMAIN Sections(f) : by'[f][s] = None <=> sh_addr'[f][s] = None
    BY <2>1
  <2>2. /\ sh_addr[f] \in [DOMAIN Sections(f) -> Nat \cup {None}]
        /\ by[f] \in [DOMAIN Sections(f) -> Nat \cup {None}]
        /\ DOMAIN sh_addr = Files /\ DOMAIN by = Files
    BY <1>1 DEF TypeOK
  <2>3. /\ sh_addr'[f] = [s \in DOMAIN Sections(f) |->
                            IF <<f, s>> \in placed THEN a[<<f, s>>] ELSE sh_addr[f][s]]
        /\ by'[f] = [s \in DOMAIN Sections(f) |->
                       IF <<f, s>> \in placed THEN processor ELSE by[f][s]]
    BY <1>4, <2>2
  <2>4. \A s : <<f, s>> \in placed => a[<<f, s>>] \in Nat
    BY <1>5
  <2>5. None \notin Nat
    BY DEF None
  <2>6. sh_addr'[f] \in [DOMAIN Sections(f) -> Nat \cup {None}]
    BY <2>2, <2>3, <2>4
  <2>7. by'[f] \in [DOMAIN Sections(f) -> Nat \cup {None}]
    BY <1>5, <2>2, <2>3
  <2>8. ASSUME NEW s \in DOMAIN Sections(f)
        PROVE  by'[f][s] = None <=> sh_addr'[f][s] = None
    <3>1. by[f][s] = None <=> sh_addr[f][s] = None
      BY <1>1 DEF PlacedOK
    <3> QED BY <1>5, <2>3, <2>4, <2>5, <3>1
  <2> QED BY <2>6, <2>7, <2>8
<1>7. \A g \in Files : \A i :
        /\ i \in Nat \ {0} => ~ Checked(g)' /\ ~ Passed(g, i)' /\ ~ Fixed(g, i)'
        /\ ~ Checked(g) /\ ~ Passed(g, i) /\ ~ Fixed(g, i)
  <2> SUFFICES ASSUME NEW g \in Files, NEW i, i \in Nat \ {0}
               PROVE  ~ Checked(g)' /\ ~ Passed(g, i)' /\ ~ Fixed(g, i)'
    BY <1>2, OpenNot, Zenon
  <2>1. g \in Nat \ {0}
    BY <1>1, JobIs DEF TypeOK
  <2> QED BY <1>2, <2>1 DEF Checked, Passed, Fixed, Resolved
<1>8. Earlier' = Earlier /\ Named(processor)' = Named(processor) /\ Named(1)' = Named(1)
  BY <1>2 DEF Earlier, Named
<1>9. \A g : Sections(g)' = Sections(g) /\ Symbols(g)' = Symbols(g) /\ Relocations(g)' = Relocations(g)
  BY <1>2 DEF Sections, Symbols, Relocations
<1>10. TypeOK'
  BY <1>1, <1>2, <1>6, <1>9 DEF TypeOK, Files
<1>11. ObjectsOK'
  <2>1. errors = {} => \A i \in DOMAIN job.uses[processor] : job.uses[processor][i] \in objects
    <3>1. job.uses[processor] \in Seq(Nat) /\ at[2] \in Nat
      BY <1>1, ProcessorIs DEF TypeOK
    <3>2. \A i \in DOMAIN job.uses[processor] : i < at[2]
      BY <1>2, <3>1
    <3> QED BY <1>1, <1>2, <3>2 DEF ObjectsOK
  <2>2. errors = {} => Named(processor) \subseteq objects
    BY <2>1 DEF Named
  <2> QED BY <1>1, <1>2, <1>8, <2>2 DEF ObjectsOK
<1>12. PlacedOK'
  <2>1. \A g \in objects : ~ Checked(g)'
    BY <1>1, <1>7
  <2> QED BY <1>2, <1>6, <1>9, <2>1 DEF PlacedOK, Files
<1>13. ValuesOK'
  <2>1. \A g \in Files : \A i \in DOMAIN Symbols(g) : ~ Passed(g, i) /\ ~ Passed(g, i)'
    BY <1>1, <1>7, SymbolIs DEF TypeOK
  <2> QED BY <1>1, <1>2, <1>8, <2>1 DEF ValuesOK, Files, Symbols
<1>14. GlobalsOK'
  <2>1. \A g \in objects : \A i \in DOMAIN Symbols(g) : ~ Passed(g, i)'
    BY <1>1, <1>7, SymbolIs DEF TypeOK
  <2>2. DOMAIN globals' = {}
    BY <1>2
  <2> QED BY <1>2, <1>9, <2>1, <2>2 DEF GlobalsOK
<1>15. \A g \in Files : \A i \in DOMAIN Relocations(g) : ~ Fixed(g, i) /\ ~ Fixed(g, i)'
  BY <1>1, <1>7, RelocationIs DEF TypeOK
<1>16. WordsOK'
  <2>1. \A g, r : Words(g, r)' = Words(g, r) /\ Before(g, r)' = Before(g, r)
    BY <1>2 DEF Words, Before, Sections
  <2> QED BY <1>1, <1>2, <1>8, <1>15, <2>1 DEF WordsOK, Files, Sections, Relocations
<1>17. FixedOK'
  BY <1>2, <1>8, <1>9, <1>15 DEF FixedOK, Files
<1>18. KeptOK'
  BY <1>1, <1>2 DEF KeptOK
<1>19. ToldOK'
  <2> SUFFICES ASSUME processor = 1, NEW e \in errors PROVE Told(e)'
    BY <1>2 DEF ToldOK
  <2>1. Told(e)
    BY <1>1 DEF ToldOK
  <2>2. \/ e.what \in {"not found", "machine"} /\ e.file \in Named(1)
             /\ ~ (job.files[e.file].exists /\ job.files[e.file].machine = job.machine)
        \/ /\ e.what = "undefined but local" /\ e.file \in objects
           /\ e.index \in DOMAIN Symbols(e.file) /\ ~ Symbols(e.file)[e.index].global
           /\ Symbols(e.file)[e.index].section = 0
    BY <1>2, <2>1 DEF Told, Resolved
  <2> QED BY <1>2, <1>8, <1>9, <2>2 DEF Told
<1> QED BY <1>10, <1>11, <1>12, <1>13, <1>14, <1>16, <1>17, <1>18, <1>19 DEF IInv

-----------------------------------------------------------------------------
(* The steps that change symbols and words.                                *)

\* An address is a number.
LEMMA AddressIs ==
  ASSUME TypeOK, NEW f \in Files, NEW s \in DOMAIN Sections(f)
  PROVE  Address(f, s) \in Nat
BY DEF TypeOK, Address, None

\* A symbol that defines a name, which is not known yet or multiply defined.
LEMMA DefinedSymbolStep ==
  ASSUME IInv, DefinedSymbol
  PROVE  IInv'
<1>1. /\ TypeOK /\ ObjectsOK /\ PlacedOK /\ ValuesOK /\ GlobalsOK /\ WordsOK /\ KeptOK /\ ToldOK
      /\ at[1] \in Nat \ {0} /\ at[2] \in Nat \ {0} /\ objects \subseteq Nat \ {0}
      /\ objects \subseteq Files /\ at \in (Nat \ {0}) \X (Nat \ {0})
  BY JobIs DEF IInv, TypeOK
<1> USE DEF DefinedSymbol
<1>2. at[1] \in objects /\ First(at[1]) = at[1]
  BY <1>1, FirstOpen DEF TypeOK
<1>3. PICK f, i : f = at[1] /\ i = at[2]
  OBVIOUS
<1>4. f \in objects /\ i \in Nat \ {0} /\ f \in Nat \ {0} /\ f \in Files /\ at = <<f, i>>
  <2> HIDE DEF DefinedSymbol
  <2>1. at = <<at[1], at[2]>>
    BY <1>1
  <2> QED BY <1>1, <1>2, <1>3, <2>1
<1>5. pc = "symbols" /\ pc' = "symbols" /\ at' = <<f, i + 1>> /\ i <= Len(Symbols(f))
  BY <1>2, <1>3 DEF NextIndex
<1>6. PICK s : s = Symbols(f)[i]
  OBVIOUS
<1>7. /\ s.section # 0
      /\ st_value' = [st_value EXCEPT ![f][i] = @ + Address(f, s.section)]
      /\ \/ ~ s.global /\ globals' = globals /\ errors' = errors
         \/ /\ s.global /\ s.name.is \notin DOMAIN globals /\ errors' = errors
            /\ globals' = [name \in DOMAIN globals \cup {s.name.is} |->
                             IF name = s.name.is THEN <<f, i>> ELSE globals[name]]
         \/ /\ s.global /\ s.name.is \in DOMAIN globals /\ globals' = globals
            /\ errors' = errors \cup {Fault("multiply defined", f, i)}
  <2>1. /\ s.section # 0
        /\ st_value' = [st_value EXCEPT ![f][i] = @ + Address(f, s.section)]
        /\ CASE ~s.global -> UNCHANGED <<globals, errors>>
             [] s.global /\ s.name.is \notin DOMAIN globals ->
                  /\ globals' = [name \in DOMAIN globals \cup {s.name.is} |->
                                   IF name = s.name.is THEN at ELSE globals[name]]
                  /\ UNCHANGED errors
             [] OTHER ->
                  /\ errors' = errors \cup {Fault("multiply defined", f, i)}
                  /\ UNCHANGED globals
    BY <1>3, <1>6
  <2> HIDE DEF DefinedSymbol
  <2>2. CASE ~ s.global
    BY <2>1, <2>2
  <2>3. CASE s.global /\ s.name.is \notin DOMAIN globals
    BY <1>4, <2>1, <2>3
  <2>4. CASE s.global /\ s.name.is \in DOMAIN globals
    BY <2>1, <2>4
  <2> QED BY <2>1, <2>2, <2>3, <2>4
<1>8. /\ job' = job /\ processor' = processor /\ objects' = objects /\ sh_addr' = sh_addr /\ by' = by
      /\ code' = code /\ kept' = kept
  OBVIOUS
<1> HIDE DEF DefinedSymbol
<1>9. i \in DOMAIN Symbols(f)
  <2>1. Symbols(f) \in Seq(SymbolEntry)
    BY <1>1, <1>4, FileIs DEF TypeOK
  <2> QED BY <1>4, <1>5, <2>1
<1>10. s.section \in DOMAIN Sections(f) /\ s.global \in BOOLEAN /\ s.value \in Nat
  BY <1>1, <1>4, <1>6, <1>7, <1>9, SymbolIs DEF TypeOK
<1>11. \A g \in objects : \A k \in DOMAIN Symbols(g) :
         Passed(g, k)' <=> Passed(g, k) \/ (g = f /\ k = i)
  <2>1. UNCHANGED <<job, objects, pc>> /\ at' = <<at[1], at[2] + 1>>
    BY <1>3, <1>5, <1>8
  <2> QED BY <1>1, <1>3, <1>5, <2>1, PassOne
<1>12. ~ Passed(f, i)
  BY <1>3, <1>4, <1>5 DEF Passed, Resolved
<1>13. \A g : Sections(g)' = Sections(g) /\ Symbols(g)' = Symbols(g) /\ Relocations(g)' = Relocations(g)
  BY <1>8 DEF Sections, Symbols, Relocations
<1>14. /\ Earlier' = Earlier /\ Named(processor)' = Named(processor) /\ Named(1)' = Named(1)
       /\ Files' = Files
  BY <1>8 DEF Earlier, Named, Files
<1>15. Address(f, s.section) \in Nat
  BY <1>1, <1>4, <1>10, AddressIs
<1>16. /\ DOMAIN st_value' = Files
       /\ \A g \in Files : \A k \in DOMAIN Symbols(g) :
            st_value'[g][k] = IF g = f /\ k = i THEN st_value[f][i] + Address(f, s.section)
                              ELSE st_value[g][k]
       /\ \A g \in Files : st_value'[g] \in [DOMAIN Symbols(g) -> Nat]
  <2>1. DOMAIN st_value = Files /\ \A g \in Files : st_value[g] \in [DOMAIN Symbols(g) -> Nat]
    BY <1>1 DEF TypeOK
  <2>2. st_value' = [g \in Files |-> IF g = f THEN [st_value[f] EXCEPT ![i] = @ + Address(f, s.section)]
                                   ELSE st_value[g]]
    BY <1>7, <2>1
  <2>3. PICK value : value = st_value[f][i] + Address(f, s.section)
    OBVIOUS
  <2>4. value \in Nat
    BY <1>4, <1>9, <1>15, <2>1, <2>3
  <2>5. st_value'[f] = [k \in DOMAIN Symbols(f) |-> IF k = i THEN value ELSE st_value[f][k]]
    BY <1>4, <2>1, <2>2, <2>3
  <2>6. \A g \in Files : g # f => st_value'[g] = st_value[g]
    BY <2>2
  <2>7. DOMAIN st_value' = Files
    BY <2>2
  <2>8. \A g \in Files : st_value'[g] \in [DOMAIN Symbols(g) -> Nat]
    BY <2>1, <2>4, <2>5, <2>6
  <2>9. \A g \in Files : \A k \in DOMAIN Symbols(g) :
            st_value'[g][k] = IF g = f /\ k = i THEN value ELSE st_value[g][k]
    BY <2>5, <2>6
  <2> QED BY <2>3, <2>7, <2>8, <2>9
<1>17. \A g, k : ~ Fixed(g, k) /\ ~ Fixed(g, k)'
  BY <1>5 DEF Fixed
<1>18. \A g : Checked(g)' => Checked(g)
  BY <1>3, <1>5, <1>8 DEF Checked, Resolved
<1>19. errors \subseteq errors' /\ (errors' = {} => errors = {})
  BY <1>7
<1>20. /\ DOMAIN globals \subseteq DOMAIN globals'
       /\ \A n \in DOMAIN globals : globals'[n] = globals[n]
       /\ \A n \in DOMAIN globals' \ DOMAIN globals :
            s.global /\ n = s.name.is /\ globals'[n] = <<f, i>>
  BY <1>7
<1>21. TypeOK'
  <2>1. at' \in (Nat \ {0}) \X (Nat \ {0}) /\ at'[1] \in objects
    BY <1>4, <1>5
  <2> QED BY <1>1, <1>5, <1>8, <1>13, <1>14, <1>16, <2>1 DEF TypeOK
<1>22. ObjectsOK'
  BY <1>1, <1>5, <1>8, <1>14, <1>19 DEF ObjectsOK
<1>23. PlacedOK'
  BY <1>1, <1>8, <1>13, <1>14, <1>18, <1>19 DEF PlacedOK
<1>24. ValuesOK'
  <2>1. ASSUME NEW g \in Files \ Earlier, NEW k \in DOMAIN Symbols(g)
        PROVE  st_value'[g][k] = Symbols(g)[k].value
                 + IF Passed(g, k)' /\ Symbols(g)[k].section # 0
                   THEN Address(g, Symbols(g)[k].section) ELSE 0
    <3>1. st_value[g][k] = Symbols(g)[k].value
            + IF Passed(g, k) /\ Symbols(g)[k].section # 0
              THEN Address(g, Symbols(g)[k].section) ELSE 0
      BY <1>1, <2>1 DEF ValuesOK
    <3>2. CASE g = f /\ k = i
      <4>1. st_value[g][k] = s.value + 0
        BY <1>6, <1>12, <3>1, <3>2
      <4>2. Passed(g, k)' /\ Symbols(g)[k] = s
        BY <1>4, <1>6, <1>9, <1>11, <3>2
      <4>3. (IF Passed(g, k)' /\ Symbols(g)[k].section # 0
             THEN Address(g, Symbols(g)[k].section) ELSE 0) = Address(f, s.section)
        BY <1>7, <3>2, <4>2
      <4>4. st_value'[g][k] = st_value[g][k] + Address(f, s.section)
        BY <1>16, <2>1, <3>2
      <4> QED BY <1>10, <1>15, <4>1, <4>2, <4>3, <4>4
    <3>3. CASE ~ (g = f /\ k = i)
      <4>1. Passed(g, k)' <=> Passed(g, k)
        <5>1. CASE g \in objects
          BY <1>11, <2>1, <3>3, <5>1
        <5>2. CASE g \notin objects
          BY <1>8, <5>2, Zenon DEF Passed
        <5> QED BY <5>1, <5>2
      <4>2. st_value'[g][k] = st_value[g][k]
        BY <1>16, <2>1, <3>3
      <4> QED BY <3>1, <4>1, <4>2
    <3> QED BY <3>2, <3>3
  <2> QED BY <1>8, <1>13, <1>14, <2>1 DEF ValuesOK, Address
<1>25. GlobalsOK'
  <2>1. \A d, n : Defines(d, n)' <=> Defines(d, n)
    BY <1>8, <1>13 DEF Defines
  <2>2. \A n \in DOMAIN globals :
          LET d == globals[n]
          IN d \in (Nat \ {0}) \X (Nat \ {0}) /\ Defines(d, n) /\ Passed(d[1], d[2])
    BY <1>1, <1>5 DEF GlobalsOK
  <2>3. ASSUME NEW n \in DOMAIN globals'
        PROVE  \E d : /\ d = globals'[n] /\ d \in (Nat \ {0}) \X (Nat \ {0})
                      /\ Defines(d, n)' /\ Passed(d[1], d[2])'
    <3>1. CASE n \in DOMAIN globals
      <4>1. PICK d : d = globals[n]
        OBVIOUS
      <4>2. d \in (Nat \ {0}) \X (Nat \ {0}) /\ Defines(d, n) /\ Passed(d[1], d[2])
        BY <2>2, <3>1, <4>1
      <4>3. Passed(d[1], d[2])'
        BY <1>11, <4>2, Zenon DEF Defines
      <4>4. Defines(d, n)' /\ d = globals'[n]
        BY <1>20, <2>1, <3>1, <4>1, <4>2
      <4> QED BY <4>2, <4>3, <4>4, Zenon
    <3>2. CASE n \notin DOMAIN globals
      <4>1. PICK d : d = <<f, i>>
        OBVIOUS
      <4>2. d[1] = f /\ d[2] = i /\ d \in (Nat \ {0}) \X (Nat \ {0})
        BY <1>4, <4>1
      <4>3. s.global /\ n = s.name.is /\ globals'[n] = d
        BY <1>20, <2>3, <3>2, <4>1
      <4>4. Defines(d, n)
        BY <1>4, <1>6, <1>7, <1>9, <4>2, <4>3 DEF Defines
      <4>5. Passed(d[1], d[2])'
        BY <1>4, <1>9, <1>11, <4>2
      <4> QED BY <2>1, <4>2, <4>3, <4>4, <4>5, Zenon
    <3> QED BY <3>1, <3>2
  <2>4. (\A n \in DOMAIN globals :
           LET d == globals[n]
           IN d \in (Nat \ {0}) \X (Nat \ {0}) /\ Defines(d, n) /\ Passed(d[1], d[2]))'
    BY <2>3
  <2>5. ASSUME NEW g \in objects, NEW k \in DOMAIN Symbols(g), Passed(g, k)'
        PROVE  LET t == Symbols(g)[k]
               IN /\ t.global /\ t.section # 0 =>
                       /\ t.name.is \in DOMAIN globals'
                       /\ errors' = {} => globals'[t.name.is] = <<g, k>>
                  /\ errors' = {} => t.global \/ t.section # 0
    <3>1. CASE Passed(g, k)
      <4>1. LET t == Symbols(g)[k]
            IN /\ t.global /\ t.section # 0 =>
                    /\ t.name.is \in DOMAIN globals
                    /\ errors = {} => globals[t.name.is] = <<g, k>>
               /\ errors = {} => t.global \/ t.section # 0
        BY <1>1, <1>5, <3>1 DEF GlobalsOK
      <4> QED BY <1>19, <1>20, <4>1
    <3>2. CASE g = f /\ k = i
      <4>1. s.global => s.name.is \in DOMAIN globals' /\ (errors' = {} => globals'[s.name.is] = <<f, i>>)
        BY <1>7
      <4> QED BY <1>6, <1>7, <3>2, <4>1
    <3> QED BY <1>11, <2>5, <3>1, <3>2
  <2> QED BY <1>8, <1>13, <2>4, <2>5 DEF GlobalsOK
<1>26. WordsOK'
  <2>1. \A g, r : Words(g, r)' = Words(g, r) /\ Before(g, r)' = Before(g, r)
    BY <1>8, <1>13 DEF Words, Before
  <2> QED BY <1>1, <1>8, <1>13, <1>14, <1>17, <2>1 DEF WordsOK
<1>27. FixedOK'
  BY <1>17, Zenon DEF FixedOK
<1>28. KeptOK'
  BY <1>1, <1>5, <1>8 DEF KeptOK
<1>29. ToldOK'
  <2> SUFFICES ASSUME processor = 1 PROVE \A e \in errors' : Told(e)'
    BY <1>5, <1>8 DEF ToldOK
  <2>1. \A d, n : Defines(d, n)' <=> Defines(d, n)
    BY <1>8, <1>13 DEF Defines
  <2>2. ASSUME NEW e \in errors PROVE Told(e)'
    <3>1. Told(e)
      BY <1>1 DEF ToldOK
    <3>2. PICK g, n, t : g = e.file /\ n = e.index /\ t = Symbols(g)[n]
      OBVIOUS
    <3>3. \/ e.what \in {"not found", "machine"} /\ g \in Named(1)
               /\ ~ (job.files[g].exists /\ job.files[g].machine = job.machine)
          \/ /\ e.what = "not referenced" /\ g \in objects
             /\ n \in DOMAIN Sections(g) /\ by[g][n] = None
          \/ /\ e.what = "multiply defined" /\ Defines(<<g, n>>, t.name.is)
             /\ t.name.is \in DOMAIN globals /\ globals[t.name.is] # <<g, n>>
          \/ /\ e.what = "undefined but local" /\ g \in objects
             /\ n \in DOMAIN Symbols(g) /\ ~ t.global /\ t.section = 0
      BY <1>5, <3>1, <3>2 DEF Told, Resolved
    <3>4. /\ Sections(g)' = Sections(g) /\ Symbols(g)' = Symbols(g)
          /\ Defines(<<g, n>>, t.name.is)' <=> Defines(<<g, n>>, t.name.is)
      BY <1>13, <2>1
    <3> QED BY <1>5, <1>8, <1>14, <1>20, <3>2, <3>3, <3>4 DEF Told
  <2>3. ASSUME s.global, s.name.is \in DOMAIN globals, globals' = globals
        PROVE  Told(Fault("multiply defined", f, i))'
    <3>1. PICK e : e = Fault("multiply defined", f, i)
      OBVIOUS
    <3>2. e.what = "multiply defined" /\ e.file = f /\ e.index = i
      BY <3>1 DEF Fault
    <3>3. PICK d : d = globals[s.name.is]
      OBVIOUS
    <3>4. d \in (Nat \ {0}) \X (Nat \ {0}) /\ Passed(d[1], d[2])
      BY <1>1, <1>5, <2>3, <3>3 DEF GlobalsOK
    <3>5. d # <<f, i>>
      BY <1>12, <3>4
    <3>6. Defines(<<f, i>>, s.name.is)
      BY <1>4, <1>6, <1>7, <1>9, <2>3 DEF Defines
    <3>7. Told(e)'
      BY <1>5, <1>6, <1>13, <2>1, <2>3, <3>2, <3>3, <3>5, <3>6 DEF Told
    <3> QED BY <3>1, <3>7
  <2> QED BY <1>7, <2>2, <2>3
<1> QED BY <1>21, <1>22, <1>23, <1>24, <1>25, <1>26, <1>27, <1>28, <1>29 DEF IInv

-----------------------------------------------------------------------------
(* What comes of a relocation.                                             *)

\* The symbol that is referred to is one of an open file.
LEMMA ReferredIs ==
  ASSUME TypeOK, GlobalsOK, pc # "open", NEW f \in objects, NEW i \in DOMAIN Relocations(f),
         NEW to, to = Referred(f, Relocations(f)[i]), to # << >>
  PROVE  /\ to \in (Nat \ {0}) \X (Nat \ {0}) /\ to[1] \in objects /\ to[2] \in DOMAIN Symbols(to[1])
         /\ Symbols(to[1])[to[2]].section # 0
<1> DEFINE r == Relocations(f)[i]
<1>1. f \in Files /\ f \in Nat \ {0}
  BY JobIs DEF TypeOK
<1>2. r.symbol # 0 => r.symbol \in DOMAIN Symbols(f)
  BY <1>1, RelocationIs DEF TypeOK
<1> DEFINE symbol == Symbols(f)[r.symbol]
<1>3. r.symbol # 0
  BY DEF Referred
<1>4. r.symbol \in Nat \ {0}
  BY <1>1, <1>2, <1>3, SymbolIs DEF TypeOK
<1>5. CASE symbol.section # 0
  <2>1. to = <<f, r.symbol>>
    BY <1>3, <1>5 DEF Referred
  <2> QED BY <1>1, <1>2, <1>3, <1>4, <1>5, <2>1
<1>6. CASE symbol.section = 0
  <2>1. symbol.name.is \in DOMAIN globals /\ to = globals[symbol.name.is]
    BY <1>3, <1>6 DEF Referred
  <2>2. to \in (Nat \ {0}) \X (Nat \ {0}) /\ Defines(to, symbol.name.is)
    BY <2>1 DEF GlobalsOK
  <2> QED BY <2>2 DEF Defines
<1> QED BY <1>5, <1>6

\* PAGE and ADDRESS take the two halves of a value.
LEMMA Halves ==
  ASSUME NEW value \in Nat
  PROVE  value \div 2^16 \in Nat /\ (value % 2^16) \in Nat
<1>1. 2^16 = 65536
  BY SMT
<1> QED BY SMT, <1>1

\* relocation_push gives a number.
LEMMA PushIs ==
  ASSUME TypeOK, GlobalsOK, pc # "open", NEW f \in objects, NEW i \in DOMAIN Relocations(f)
  PROVE  relocation_push(f, Relocations(f)[i]) \in Int
<1> DEFINE r == Relocations(f)[i]
<1>1. f \in Files /\ job \in Jobs /\ objects \subseteq Files
  BY DEF TypeOK
<1>2. r.addend \in Int /\ r.kind \in {"SYMBOL", "LENGTH", "PAGE", "ADDRESS"}
  BY <1>1, RelocationIs
<1>3. PICK to : to = Referred(f, r)
  OBVIOUS
<1>4. CASE to = << >>
  BY <1>2, <1>3, <1>4 DEF relocation_push
<1>5. CASE to # << >>
  <2>1. to[1] \in Files /\ to[2] \in DOMAIN Symbols(to[1])
    BY <1>1, <1>3, <1>5, ReferredIs
  <2>2. st_value[to[1]][to[2]] \in Nat /\ Symbols(to[1])[to[2]].size \in Nat
    BY <1>1, <2>1, SymbolIs DEF TypeOK
  <2>3. PICK value, size : value = st_value[to[1]][to[2]] /\ size = Symbols(to[1])[to[2]].size
    OBVIOUS
  <2>4. relocation_push(f, r) = r.addend + (CASE r.kind = "SYMBOL"  -> value
                        [] r.kind = "LENGTH"  -> size
                        [] r.kind = "PAGE"    -> value \div 2^16
                        [] r.kind = "ADDRESS" -> value % 2^16)
    BY <1>3, <1>5, <2>3 DEF relocation_push
  <2>5. value \div 2^16 \in Nat /\ (value % 2^16) \in Nat
    BY <2>2, <2>3, Halves
  <2> QED BY <1>2, <2>2, <2>3, <2>4, <2>5
<1> QED BY <1>4, <1>5

\* The number that is put into the words.
Value(f, r) ==
  relocation_push(f, r) - (IF r.type \in {"DO", "REL"} THEN Address(f, r.section) + r.word - 1 ELSE 0)

\* What comes of a relocation of an open file whose words are those of the object.
LEMMA OutcomeRight ==
  ASSUME TypeOK, ObjectsOK, GlobalsOK, pc # "open", NEW f \in objects, NEW i \in DOMAIN Relocations(f)
  PROVE  LET r == Relocations(f)[i]
         IN Right(Outcome(f, r), job.machine, r.type, Value(f, r), Before(f, r))
<1> DEFINE r == Relocations(f)[i]
<1>1. f \in Files /\ job \in Jobs /\ job.machine \in Machine /\ job.files[f].machine = job.machine
  BY JobIs DEF TypeOK, ObjectsOK
<1>2. /\ r.type \in Types(job.machine) /\ r.section \in DOMAIN Sections(f) /\ r.word \in Nat \ {0}
      /\ LeftOpen(r.type, Sections(f)[r.section][r.word])
  BY <1>1, RelocationIs
<1>3. DOMAIN Before(f, r) = 1 .. RelocatedWords(r.type) /\ 1 \in 1 .. RelocatedWords(r.type)
  BY DEF Before, RelocatedWords
<1>4. Before(f, r)[1] = Sections(f)[r.section][r.word]
  <2>1. Before(f, r)[1] = Sections(f)[r.section][r.word + 1 - 1]
    BY <1>3 DEF Before
  <2>2. r.word + 1 - 1 = r.word
    BY <1>2
  <2> QED BY <2>1, <2>2
<1>5. Address(f, r.section) + r.word - 1 \in Int
  BY <1>1, <1>2, AddressIs
<1>6. PICK value, here, old : /\ value = relocation_push(f, r) /\ old = Before(f, r)
                              /\ here = Address(f, r.section) + r.word - 1
  OBVIOUS
<1>7. value \in Int
  BY <1>6, PushIs
<1>8. Right(fixup_code(job.machine, r.type, value, here, old), job.machine, r.type,
            value - (IF r.type \in {"DO", "REL"} THEN here ELSE 0), old)
  BY <1>1, <1>2, <1>3, <1>4, <1>5, <1>6, <1>7, FixupIsRight
<1>9. Outcome(f, r) = fixup_code(job.machine, r.type, value, here, old)
  BY <1>6 DEF Outcome
<1>10. Value(f, r) = value - (IF r.type \in {"DO", "REL"} THEN here ELSE 0)
  BY <1>6 DEF Value
<1> QED BY <1>6, <1>8, <1>9, <1>10

\* It gives the words that the relocation covers.
LEMMA RightWords ==
  ASSUME NEW result, NEW machine, NEW type, NEW number, NEW old,
         old = [k \in 1 .. RelocatedWords(type) |-> old[k]],
         Right(result, machine, type, number, old)
  PROVE  result.code = [k \in 1 .. RelocatedWords(type) |-> result.code[k]]
<1>1. type = "YYCCBO" => RelocatedWords(type) = 1
  BY DEF RelocatedWords
<1>2. CASE result.is = "error"
  BY <1>2 DEF Right
<1>3. CASE result.is = "done"
  <2>1. result.code = Written(machine, type, number, old)
    BY <1>3 DEF Right
  <2>2. DOMAIN old = 1 .. RelocatedWords(type)
    BY Zenon
  <2>3. CASE type = "YYCCBO"
    <3>1. \E word : result.code = <<word>>
      BY <2>1, <2>3 DEF Written
    <3> QED BY <1>1, <2>3, <3>1
  <2>4. CASE type # "YYCCBO"
    <3>1. result.code = Filled(Constants(machine)[As(type, old)], type, number, old)
      BY <2>1, <2>4 DEF Written
    <3> QED BY <2>2, <3>1 DEF Filled
  <2> QED BY <2>3, <2>4
<1> QED BY <1>2, <1>3 DEF Right

\* The relocations of a file are dealt with in order.
LEMMA FixOne ==
  ASSUME TypeOK, pc = "relocate", pc' = "relocate", UNCHANGED <<job, objects>>, Rest(at[1]) # {},
         at' = <<First(at[1]), at[2] + 1>>,
         NEW g \in objects, NEW k \in DOMAIN Relocations(g)
  PROVE  Fixed(g, k)' <=> Fixed(g, k) \/ (g = First(at[1]) /\ k = at[2])
<1>1. k \in Nat /\ g \in Nat /\ at[1] \in Nat /\ at[2] \in Nat
  BY JobIs, RelocationIs DEF TypeOK
<1>2. PICK f : f = First(at[1])
  OBVIOUS
<1>3. f \in objects /\ f \in Nat /\ f >= at[1] /\ (g >= at[1] => f <= g)
  BY <1>1, <1>2, FirstIs
<1>4. First(f) = f /\ First(f)' = First(f)
  <2>1. First(f) = f
    BY <1>3, FirstOpen
  <2>2. Rest(f)' = Rest(f)
    BY DEF Rest
  <2> QED BY <2>1, <2>2 DEF First
<1>5. Fixed(g, k) <=> g < at[1] \/ (g = f /\ k < at[2])
  BY <1>2 DEF Fixed
<1>6. Fixed(g, k)' <=> g < f \/ (g = f /\ k < at[2] + 1)
  BY <1>2, <1>4 DEF Fixed
<1> QED BY <1>1, <1>2, <1>3, <1>5, <1>6

\* A relocation: of a new file its words were those of the object, and no other
\* relocation covers them.
LEMMA RelocateOneStep ==
  ASSUME IInv, RelocateOne
  PROVE  IInv'
<1>1. /\ TypeOK /\ ObjectsOK /\ PlacedOK /\ ValuesOK /\ GlobalsOK /\ WordsOK /\ FixedOK /\ KeptOK
      /\ ToldOK /\ at[1] \in Nat \ {0} /\ at[2] \in Nat \ {0} /\ objects \subseteq Nat \ {0}
      /\ objects \subseteq Files /\ job \in Jobs
  BY JobIs DEF IInv, TypeOK
<1> USE DEF RelocateOne
<1>2. PICK f, i : f = First(at[1]) /\ i = at[2]
  OBVIOUS
<1>3. PICK r : r = Relocations(f)[i]
  OBVIOUS
<1>4. PICK result : result = fixup_code(job.machine, r.type, relocation_push(f, r),
                                        Address(f, r.section) + r.word - 1, Words(f, r))
  OBVIOUS
<1>5. PICK section : section = r.section
  OBVIOUS
<1>6. /\ pc = "relocate" /\ Rest(at[1]) # {} /\ i <= Len(Relocations(f))
      /\ job' = job /\ processor' = processor /\ objects' = objects /\ sh_addr' = sh_addr /\ by' = by
      /\ st_value' = st_value /\ globals' = globals /\ kept' = kept
  BY <1>2
<1>7. code' = [code EXCEPT ![f][section] =
                 [w \in DOMAIN @ |-> IF w - r.word + 1 \in DOMAIN result.code
                                       THEN result.code[w - r.word + 1] ELSE @[w]]]
  BY <1>2, <1>3, <1>4, <1>5
<1>8. errors' = errors \cup (IF Unresolved(f, r) THEN {Fault("unresolved", f, i)} ELSE {}) \cup
             (IF result.is = "error" THEN {Fault("fixup", f, i)} ELSE {})
  BY <1>2, <1>3, <1>4 DEF Unresolved
<1>9. \/ result.is = "assert" /\ pc' = "aborted" /\ at' = at
      \/ result.is # "assert" /\ pc' = pc /\ at' = <<f, i + 1>>
  BY <1>2, <1>3, <1>4 DEF NextIndex
<1> HIDE DEF RelocateOne
<1>10. /\ f \in objects /\ f \in Nat \ {0} /\ f >= at[1] /\ f \in Files
       /\ i \in Nat \ {0}
  BY <1>1, <1>2, <1>6, FirstIs
<1>11. i \in DOMAIN Relocations(f)
  <2>1. Relocations(f) \in Seq(RelocationEntry)
    BY <1>1, <1>10, FileIs
  <2> QED BY <1>6, <1>10, <2>1
<1>12. /\ section \in DOMAIN Sections(f) /\ r.word \in Nat \ {0}
       /\ \A j \in DOMAIN Relocations(f) :
            i # j /\ section = Relocations(f)[j].section =>
              Covered(r) \cap Covered(Relocations(f)[j]) = {}
  BY <1>1, <1>3, <1>5, <1>10, <1>11, RelocationIs
<1>13. \A g : Sections(g)' = Sections(g) /\ Symbols(g)' = Symbols(g) /\ Relocations(g)' = Relocations(g)
  BY <1>6 DEF Sections, Symbols, Relocations
<1>14. /\ Earlier' = Earlier /\ Named(processor)' = Named(processor) /\ Named(1)' = Named(1)
       /\ Files' = Files
  BY <1>6 DEF Earlier, Named, Files
<1>15. \A g, q : /\ Outcome(g, q)' = Outcome(g, q) /\ Unresolved(g, q)' = Unresolved(g, q)
                 /\ Before(g, q)' = Before(g, q)
  BY <1>6, <1>13, OutcomeSame DEF Before
<1>16. \A g, s : Address(g, s)' = Address(g, s)
  BY <1>6 DEF Address
<1>17. errors \subseteq errors' /\ (errors' = {} => errors = {})
  BY <1>8
<1>18. Resolved /\ Resolved' /\ pc' # "open" /\ pc' # "closed" /\ pc # "open" /\ pc # "closed" /\ pc' # "symbols"
  BY <1>6, <1>9 DEF Resolved
<1>19. \A g \in objects : Checked(g) /\ \A k : Passed(g, k) /\ Passed(g, k)'
  BY <1>6, <1>18 DEF Checked, Passed
<1>20. /\ DOMAIN code = Files /\ DOMAIN code[f] = DOMAIN Sections(f)
       /\ \A g \in Files : /\ DOMAIN code[g] = DOMAIN Sections(g)
                           /\ \A s \in DOMAIN Sections(g) : DOMAIN code[g][s] = DOMAIN Sections(g)[s]
  BY <1>1, <1>10 DEF TypeOK
<1>21. code'[f][section] =
         [w \in DOMAIN code[f][section] |-> IF w - r.word + 1 \in DOMAIN result.code
                                              THEN result.code[w - r.word + 1] ELSE code[f][section][w]]
  BY <1>7, <1>10, <1>12, <1>20
<1>22. /\ DOMAIN code' = Files
       /\ \A g \in Files : g # f => code'[g] = code[g]
       /\ DOMAIN code'[f] = DOMAIN Sections(f)
       /\ \A s \in DOMAIN Sections(f) : s # section => code'[f][s] = code[f][s]
  BY <1>7, <1>10, <1>12, <1>20
<1>23. TypeOK'
  <2>1. at' \in (Nat \ {0}) \X (Nat \ {0})
    <3>1. at \in (Nat \ {0}) \X (Nat \ {0})
      BY <1>1 DEF TypeOK
    <3> QED BY <1>9, <1>10, <3>1
  <2>2. DOMAIN code'[f][section] = DOMAIN Sections(f)[section]
    BY <1>10, <1>12, <1>20, <1>21
  <2>3. \A g \in Files : /\ DOMAIN code'[g] = DOMAIN Sections(g)
                         /\ \A s \in DOMAIN Sections(g) : DOMAIN code'[g][s] = DOMAIN Sections(g)[s]
    BY <1>20, <1>22, <2>2
  <2>4. pc' \in {"open", "sections", "symbols", "relocate", "closed", "aborted"}
    BY <1>6, <1>9
  <2> QED BY <1>1, <1>6, <1>13, <1>14, <1>18, <1>22, <2>1, <2>3, <2>4 DEF TypeOK
<1>24. ObjectsOK'
  BY <1>1, <1>6, <1>14, <1>17, <1>18 DEF ObjectsOK
<1>25. PlacedOK'
  BY <1>1, <1>6, <1>13, <1>14, <1>17, <1>19 DEF PlacedOK
<1>26. ValuesOK'
  <2>1. \A g \in Files : \A k : Passed(g, k)' <=> Passed(g, k)
    BY <1>6, <1>18 DEF Passed
  <2> QED BY <1>1, <1>6, <1>13, <1>14, <1>16, <2>1 DEF ValuesOK
<1>27. GlobalsOK'
  <2>1. \A n \in DOMAIN globals :
          LET d == globals[n]
          IN d \in (Nat \ {0}) \X (Nat \ {0}) /\ Defines(d, n) /\ Passed(d[1], d[2])
    BY <1>1, <1>18 DEF GlobalsOK
  <2>2. ASSUME NEW n \in DOMAIN globals
        PROVE  \E d : /\ d = globals[n] /\ d \in (Nat \ {0}) \X (Nat \ {0})
                      /\ Defines(d, n)' /\ Passed(d[1], d[2])'
    <3>1. PICK d : d = globals[n]
      OBVIOUS
    <3>2. d \in (Nat \ {0}) \X (Nat \ {0}) /\ Defines(d, n)
      BY <2>1, <3>1
    <3>3. Passed(d[1], d[2])'
      BY <1>19, <3>2, Zenon DEF Defines
    <3>4. Defines(d, n)'
      BY <1>6, <1>13, <3>2 DEF Defines
    <3> QED BY <3>1, <3>2, <3>3, <3>4, Zenon
  <2>3. (\A n \in DOMAIN globals :
           LET d == globals[n]
           IN d \in (Nat \ {0}) \X (Nat \ {0}) /\ Defines(d, n) /\ Passed(d[1], d[2]))'
    BY <1>6, <2>2
  <2>4. \A g \in objects : \A k \in DOMAIN Symbols(g) :
          LET s == Symbols(g)[k]
          IN /\ s.global /\ s.section # 0 =>
                  /\ s.name.is \in DOMAIN globals
                  /\ errors' = {} => globals[s.name.is] = <<g, k>>
             /\ errors' = {} => s.global \/ s.section # 0
    BY <1>1, <1>17, <1>18, <1>19 DEF GlobalsOK
  <2> QED BY <1>6, <1>13, <2>3, <2>4 DEF GlobalsOK
<1>28. KeptOK'
  BY <1>1, <1>6, <1>18 DEF KeptOK
\* A file that is new: its relocation is done, or told of.
<1>29. ASSUME f \notin Earlier
       PROVE  /\ Words(f, r) = Before(f, r) /\ result = Outcome(f, r) /\ result.is \in {"done", "error"}
              /\ result.code = [k \in 1 .. RelocatedWords(r.type) |-> result.code[k]]
  <2>1. ~ Fixed(f, i)
    <3>1. at[1] \in Nat /\ ~ (f < at[1]) /\ ~ (i < at[2])
      BY <1>1, <1>2, <1>10
    <3> QED BY <1>6, <3>1 DEF Fixed
  <2>2. Words(f, r) = Before(f, r)
    BY <1>1, <1>3, <1>10, <1>11, <1>29, <2>1 DEF WordsOK
  <2>3. result = Outcome(f, r)
    BY <1>4, <2>2 DEF Outcome
  <2>4. Right(result, job.machine, r.type, Value(f, r), Before(f, r))
    BY <1>1, <1>3, <1>10, <1>11, <1>18, <2>3, OutcomeRight
  <2>5. Before(f, r) = [k \in 1 .. RelocatedWords(r.type) |-> Before(f, r)[k]]
    BY DEF Before
  <2>6. result.code = [k \in 1 .. RelocatedWords(r.type) |-> result.code[k]]
    <3>1. PICK old : old = Before(f, r)
      OBVIOUS
    <3> QED BY <2>4, <2>5, <3>1, RightWords
  <2>7. result.is \in {"done", "error"}
    BY <2>4 DEF Right
  <2> QED BY <2>2, <2>3, <2>6, <2>7
<1>30. ASSUME pc' = pc
       PROVE  \A g \in Files : \A k \in DOMAIN Relocations(g) :
                Fixed(g, k)' <=> Fixed(g, k) \/ (g = f /\ k = i)
  <2> SUFFICES ASSUME NEW g \in Files, NEW k \in DOMAIN Relocations(g)
               PROVE  Fixed(g, k)' <=> Fixed(g, k) \/ (g = f /\ k = i)
    OBVIOUS
  <2>1. CASE g \in objects
    <3>1. /\ pc = "relocate" /\ pc' = "relocate" /\ UNCHANGED <<job, objects>>
          /\ at' = <<First(at[1]), at[2] + 1>>
      BY <1>2, <1>6, <1>9, <1>30
    <3> QED BY <1>1, <1>2, <1>6, <2>1, <3>1, FixOne
  <2>2. CASE g \notin objects
    BY <1>6, <1>10, <2>2, Zenon DEF Fixed
  <2> QED BY <2>1, <2>2
<1>31. ASSUME pc' # pc
       PROVE  /\ f \in Earlier /\ processor # 1
              /\ \A g \in Files : \A k \in DOMAIN Relocations(g) : Fixed(g, k)' <=> Fixed(g, k)
  <2>1. result.is = "assert" /\ pc' = "aborted" /\ at' = at
    BY <1>9, <1>31
  <2>2. f \in Earlier
    BY <1>29, <2>1
  <2>3. processor # 1
    BY <2>2 DEF Earlier
  <2>4. First(at[1])' = First(at[1])
    BY <1>6, <2>1 DEF First, Rest
  <2> QED BY <1>6, <2>1, <2>2, <2>3, <2>4, Zenon DEF Fixed
<1>32. FixedOK'
  <2>1. ASSUME errors' = {}, NEW g \in Files \ Earlier, NEW k \in DOMAIN Relocations(g), Fixed(g, k)'
        PROVE  Outcome(g, Relocations(g)[k]).is = "done" /\ ~ Unresolved(g, Relocations(g)[k])
    <3>1. CASE Fixed(g, k)
      BY <1>1, <1>17, <2>1, <3>1 DEF FixedOK
    <3>2. CASE g = f /\ k = i
      <4>1. result = Outcome(f, r) /\ result.is \in {"done", "error"}
        BY <1>29, <2>1, <3>2
      <4>2. result.is # "error" /\ ~ Unresolved(f, r)
        BY <1>8, <2>1
      <4> QED BY <1>3, <3>2, <4>1, <4>2
    <3> QED BY <1>30, <1>31, <2>1, <3>1, <3>2
  <2> QED BY <1>13, <1>14, <1>15, <2>1 DEF FixedOK
<1>33. ASSUME f \notin Earlier
       PROVE  \A s \in DOMAIN Sections(f) : \A w \in DOMAIN Sections(f)[s] :
                s # section \/ w \notin Covered(r) => code'[f][s][w] = code[f][s][w]
  <2> SUFFICES ASSUME NEW s \in DOMAIN Sections(f), NEW w \in DOMAIN Sections(f)[s],
                      s # section \/ w \notin Covered(r)
               PROVE  code'[f][s][w] = code[f][s][w]
    OBVIOUS
  <2>1. CASE s # section
    BY <1>22, <2>1
  <2>2. CASE s = section /\ w \notin Covered(r)
    <3>1. w \in Nat
      <4>1. Sections(f) \in Seq(Seq(SUBSET (0 .. 23)))
        BY <1>1, <1>10, FileIs
      <4>2. Sections(f)[s] \in Seq(SUBSET (0 .. 23))
        BY <4>1
      <4> QED BY <4>2
    <3>2. DOMAIN result.code = 1 .. RelocatedWords(r.type) /\ RelocatedWords(r.type) \in Nat
      BY <1>29, <1>33 DEF RelocatedWords
    <3>3. w - r.word + 1 \notin 1 .. RelocatedWords(r.type)
      BY <1>12, <2>2, <3>1, <3>2 DEF Covered
    <3>4. w \in DOMAIN code[f][section]
      BY <1>10, <1>20, <2>2
    <3> QED BY <1>21, <2>2, <3>2, <3>3, <3>4
  <2> QED BY <2>1, <2>2
<1>34. WordsOK'
  <2>1. ASSUME NEW g \in Files \ Earlier, NEW k \in DOMAIN Relocations(g)
        PROVE  Words(g, Relocations(g)[k])' =
                 IF Fixed(g, k)' THEN Outcome(g, Relocations(g)[k]).code ELSE Before(g, Relocations(g)[k])
    <3>1. PICK q : q = Relocations(g)[k]
      OBVIOUS
    <3>2. Words(g, q) = IF Fixed(g, k) THEN Outcome(g, q).code ELSE Before(g, q)
      BY <1>1, <2>1, <3>1 DEF WordsOK
    <3>3. CASE g # f
      <4>1. Words(g, q)' = Words(g, q)
        BY <1>22, <2>1, <3>3 DEF Words
      <4>2. Fixed(g, k)' <=> Fixed(g, k)
        BY <1>30, <1>31, <2>1, <3>3
      <4> QED BY <1>13, <3>1, <3>2, <4>1, <4>2
    <3>4. CASE g = f /\ k # i
      <4>1. Fixed(g, k)' <=> Fixed(g, k)
        BY <1>30, <1>31, <2>1, <3>4
      <4>2. \A x \in 1 .. RelocatedWords(q.type) :
              code'[f][q.section][q.word + x - 1] = code[f][q.section][q.word + x - 1]
        <5> TAKE x \in 1 .. RelocatedWords(q.type)
        <5>1. /\ q.section \in DOMAIN Sections(f) /\ q.word \in Nat
              /\ Covered(q) \subseteq DOMAIN Sections(f)[q.section]
          BY <1>1, <1>10, <2>1, <3>1, <3>4, RelocationIs
        <5>2. RelocatedWords(q.type) \in Nat
          BY DEF RelocatedWords
        <5>3. q.word + x - 1 \in Covered(q)
          BY <5>1, <5>2 DEF Covered
        <5>4. q.section # section \/ q.word + x - 1 \notin Covered(r)
          BY <1>12, <2>1, <3>1, <3>4, <5>3
        <5>5. f \notin Earlier
          BY <2>1, <3>4
        <5> QED BY <1>33, <5>1, <5>3, <5>4, <5>5
      <4>3. Words(g, q)' = Words(g, q)
        BY <3>4, <4>2 DEF Words
      <4> QED BY <1>13, <3>1, <3>2, <4>1, <4>3
    <3>5. CASE g = f /\ k = i
      <4>1. /\ result = Outcome(f, r) /\ result.is \in {"done", "error"} /\ q = r
            /\ result.code = [x \in 1 .. RelocatedWords(r.type) |-> result.code[x]]
        BY <1>3, <1>29, <2>1, <3>1, <3>5
      <4>2. Fixed(g, k)'
        BY <1>10, <1>11, <1>30, <1>31, <2>1, <3>5
      <4>3. \A x \in 1 .. RelocatedWords(r.type) : code'[f][section][r.word + x - 1] = result.code[x]
        <5> TAKE x \in 1 .. RelocatedWords(r.type)
        <5>1. Covered(r) \subseteq DOMAIN Sections(f)[section]
          BY <1>1, <1>3, <1>5, <1>10, <1>11, RelocationIs
        <5>2. RelocatedWords(r.type) \in Nat
          BY DEF RelocatedWords
        <5>3. r.word + x - 1 \in Covered(r) /\ (r.word + x - 1) - r.word + 1 = x
          BY <1>12, <5>2 DEF Covered
        <5>4. r.word + x - 1 \in DOMAIN code[f][section]
          BY <1>10, <1>12, <1>20, <5>1, <5>3
        <5>5. x \in DOMAIN result.code
          BY <4>1
        <5> QED BY <1>21, <5>3, <5>4, <5>5
      <4>4. Words(f, r)' = [x \in 1 .. RelocatedWords(r.type) |-> result.code[x]]
        BY <1>5, <4>3 DEF Words
      <4> QED BY <1>13, <3>1, <3>5, <4>1, <4>2, <4>4
    <3> QED BY <3>3, <3>4, <3>5
  <2>2. ASSUME NEW g \in Files \ Earlier, NEW s \in DOMAIN Sections(g), NEW w \in DOMAIN Sections(g)[s]
        PROVE  \/ code'[g][s][w] = Sections(g)[s][w]
               \/ \E k \in DOMAIN Relocations(g) :
                    Relocations(g)[k].section = s /\ w \in Covered(Relocations(g)[k])
    <3>1. \/ code[g][s][w] = Sections(g)[s][w]
          \/ \E k \in DOMAIN Relocations(g) :
               Relocations(g)[k].section = s /\ w \in Covered(Relocations(g)[k])
      BY <1>1, <2>2 DEF WordsOK
    <3>2. CASE g # f
      BY <1>22, <2>2, <3>1, <3>2
    <3>3. CASE g = f /\ s = section /\ w \in Covered(r)
      BY <1>3, <1>5, <1>11, <3>3
    <3>4. CASE g = f /\ (s # section \/ w \notin Covered(r))
      BY <1>33, <2>2, <3>1, <3>4
    <3> QED BY <3>2, <3>3, <3>4
  <2> QED BY <1>13, <1>14, <1>15, <2>1, <2>2 DEF WordsOK
<1>35. ToldOK'
  <2> SUFFICES ASSUME processor = 1 PROVE pc' # "aborted" /\ \A e \in errors' : Told(e)'
    BY <1>6 DEF ToldOK
  <2>1. pc' # "aborted" /\ f \notin Earlier
    <3>1. f \notin Earlier
      BY DEF Earlier
    <3> QED BY <1>6, <1>31, <3>1
  <2>2. \A d, n : Defines(d, n)' <=> Defines(d, n)
    BY <1>6, <1>13 DEF Defines
  <2>3. ASSUME NEW e \in errors PROVE Told(e)'
    <3>1. Told(e)
      BY <1>1 DEF ToldOK
    <3>2. PICK g, n, t, q : g = e.file /\ n = e.index /\ t = Symbols(g)[n] /\ q = Relocations(g)[n]
      OBVIOUS
    <3>3. \/ e.what \in {"not found", "machine"} /\ g \in Named(1)
               /\ ~ (job.files[g].exists /\ job.files[g].machine = job.machine)
          \/ /\ e.what = "not referenced" /\ g \in objects
             /\ n \in DOMAIN Sections(g) /\ by[g][n] = None
          \/ /\ e.what = "multiply defined" /\ Defines(<<g, n>>, t.name.is)
             /\ t.name.is \in DOMAIN globals /\ globals[t.name.is] # <<g, n>>
          \/ /\ e.what = "undefined but local" /\ g \in objects
             /\ n \in DOMAIN Symbols(g) /\ ~ t.global /\ t.section = 0
          \/ /\ e.what = "unresolved" /\ g \in objects
             /\ n \in DOMAIN Relocations(g) /\ Unresolved(g, q)
          \/ /\ e.what = "fixup" /\ g \in objects
             /\ n \in DOMAIN Relocations(g) /\ Outcome(g, q).is = "error"
      BY <3>1, <3>2 DEF Told
    <3>4. /\ Sections(g)' = Sections(g) /\ Symbols(g)' = Symbols(g) /\ Relocations(g)' = Relocations(g)
          /\ Defines(<<g, n>>, t.name.is)' <=> Defines(<<g, n>>, t.name.is)
          /\ Outcome(g, q)' = Outcome(g, q) /\ Unresolved(g, q)' = Unresolved(g, q)
      BY <1>13, <1>15, <2>2
    <3> QED BY <1>6, <1>14, <1>18, <3>2, <3>3, <3>4 DEF Told
  <2>4. ASSUME NEW what \in {"unresolved", "fixup"},
               what = "unresolved" => Unresolved(f, r),
               what = "fixup" => Outcome(f, r).is = "error"
        PROVE  Told(Fault(what, f, i))'
    <3>1. PICK e : e = Fault(what, f, i)
      OBVIOUS
    <3>2. e.what = what /\ e.file = f /\ e.index = i
      BY <3>1 DEF Fault
    <3>3. Told(e)'
      BY <1>3, <1>6, <1>10, <1>11, <1>13, <1>15, <1>18, <2>4, <3>2 DEF Told
    <3> QED BY <3>1, <3>3
  <2>5. result = Outcome(f, r)
    BY <1>29, <2>1
  <2> QED BY <1>8, <2>1, <2>3, <2>4, <2>5
<1> QED BY <1>23, <1>24, <1>25, <1>26, <1>27, <1>28, <1>32, <1>34, <1>35 DEF IInv

\* A step that changes nothing.
LEMMA StutterStep ==
  ASSUME IInv, UNCHANGED vars
  PROVE  IInv'
<1>1. Still /\ processor' = processor /\ pc' = pc /\ at' = at /\ errors' = errors /\ kept' = kept
  BY DEF vars, Still
<1>2. /\ Files' = Files /\ \A p : Named(p)' = Named(p)
      /\ \A f : Sections(f)' = Sections(f) /\ Symbols(f)' = Symbols(f) /\ Relocations(f)' = Relocations(f)
      /\ \A f, s : Address(f, s)' = Address(f, s)
      /\ \A f, r : Words(f, r)' = Words(f, r) /\ Before(f, r)' = Before(f, r)
      /\ \A d, n : Defines(d, n)' = Defines(d, n)
      /\ \A f, r : Outcome(f, r)' = Outcome(f, r) /\ Unresolved(f, r)' = Unresolved(f, r)
  BY <1>1, StillSame
<1>3. Earlier' = Earlier /\ Resolved' = Resolved
  BY <1>1, <1>2, Zenon DEF Earlier, Resolved
<1>4. \A f, i : Checked(f)' = Checked(f) /\ Passed(f, i)' = Passed(f, i) /\ Fixed(f, i)' = Fixed(f, i)
  BY <1>1, <1>3 DEF Checked, Passed, Fixed, First, Rest, Still
<1>5. \A e \in errors : Told(e) => Told(e)'
  BY <1>1, <1>3, ToldSame
<1> USE <1>1, <1>2, <1>3, <1>4 DEF IInv, Still
<1>6. TypeOK'  BY DEF TypeOK
<1>7. ObjectsOK'  BY DEF ObjectsOK
<1>8. PlacedOK'  BY DEF PlacedOK
<1>9. ValuesOK'  BY DEF ValuesOK
<1>10. GlobalsOK'  BY DEF GlobalsOK
<1>11. WordsOK'  BY DEF WordsOK
<1>12. FixedOK'  BY DEF FixedOK
<1>13. KeptOK'  BY DEF KeptOK
<1>14. ToldOK'  BY <1>5 DEF ToldOK
<1> QED BY <1>6, <1>7, <1>8, <1>9, <1>10, <1>11, <1>12, <1>13, <1>14

-----------------------------------------------------------------------------
(* The symbols that a relocation means, and the number it stands for.      *)

\* A definition of a name.
LEMMA DefinitionsIs ==
  ASSUME NEW name, NEW d
  PROVE  d \in Definitions(name) <=>
           \E g \in objects : \E j \in DOMAIN Symbols(g) :
             /\ d = <<g, j>> /\ Symbols(g)[j].global /\ Symbols(g)[j].section # 0
             /\ Symbols(g)[j].name.is = name.is
<1> DEFINE Of(g) == {j \in DOMAIN Symbols(g) :
                       Symbols(g)[j].global /\ Symbols(g)[j].section # 0 /\ Symbols(g)[j].name.is = name.is}
<1>1. Definitions(name) = UNION {{<<g, j>> : j \in Of(g)} : g \in objects}
  BY DEF Definitions
<1> HIDE DEF Of
<1>2. d \in Definitions(name) <=> \E g \in objects : \E j \in Of(g) : d = <<g, j>>
  BY <1>1
<1> USE DEF Of
<1> QED BY <1>2, Zenon

\* When relocations are dealt with, all symbols have been passed.
LEMMA PassedAll ==
  ASSUME Resolved
  PROVE  pc # "open" /\ \A g \in objects : Checked(g) /\ \A k : Passed(g, k)
BY DEF Resolved, Checked, Passed

\* A definition of a name is one that the names stand for, or there is an error.
LEMMA DefinitionKnown ==
  ASSUME GlobalsOK, Resolved, NEW name, NEW d \in Definitions(name)
  PROVE  /\ name.is \in DOMAIN globals
         /\ errors = {} => globals[name.is] = d
<1>1. PICK g \in objects : \E j \in DOMAIN Symbols(g) :
        /\ d = <<g, j>> /\ Symbols(g)[j].global /\ Symbols(g)[j].section # 0
        /\ Symbols(g)[j].name.is = name.is
  BY DefinitionsIs
<1>2. PICK j \in DOMAIN Symbols(g) :
        /\ d = <<g, j>> /\ Symbols(g)[j].global /\ Symbols(g)[j].section # 0
        /\ Symbols(g)[j].name.is = name.is
  BY <1>1
<1> QED BY <1>2, PassedAll DEF GlobalsOK

\* What a name stands for defines it.
LEMMA GlobalDefined ==
  ASSUME GlobalsOK, pc # "open", NEW name, name.is \in DOMAIN globals
  PROVE  globals[name.is] \in Definitions(name) /\ globals[name.is] # << >>
<1>1. PICK d : d = globals[name.is]
  OBVIOUS
<1>2. d \in (Nat \ {0}) \X (Nat \ {0}) /\ Defines(d, name.is)
  BY <1>1 DEF GlobalsOK
<1>3. d = <<d[1], d[2]>> /\ d # << >>
  <2>1. PICK x, y \in Nat \ {0} : d = <<x, y>>
    BY <1>2
  <2> QED BY <2>1
<1>4. /\ d[1] \in objects /\ d[2] \in DOMAIN Symbols(d[1])
      /\ Symbols(d[1])[d[2]].global /\ Symbols(d[1])[d[2]].section # 0
      /\ Symbols(d[1])[d[2]].name.is = name.is
  BY <1>2 DEF Defines
<1>5. d \in Definitions(name)
  BY <1>3, <1>4, DefinitionsIs
<1> QED BY <1>1, <1>3, <1>5

\* The symbol that ld21 finds is one that is meant, and it finds one if there is any.
LEMMA ReferredMeant ==
  ASSUME GlobalsOK, Resolved, NEW f, NEW r, r.symbol # 0
  PROVE  /\ Referred(f, r) # << >> => Referred(f, r) \in Meant(f, r)
         /\ Meant(f, r) # {} => Referred(f, r) # << >>
<1> DEFINE symbol == Symbols(f)[r.symbol]
<1>1. CASE symbol.section # 0
  BY <1>1 DEF Referred, Meant
<1>2. CASE symbol.section = 0
  <2>1. /\ Referred(f, r) = IF symbol.name.is \in DOMAIN globals THEN globals[symbol.name.is] ELSE << >>
        /\ Meant(f, r) = Definitions(symbol.name)
    BY <1>2 DEF Referred, Meant
  <2>2. symbol.name.is \in DOMAIN globals =>
          globals[symbol.name.is] \in Definitions(symbol.name) /\ globals[symbol.name.is] # << >>
    BY PassedAll, GlobalDefined
  <2>3. \A d \in Definitions(symbol.name) : symbol.name.is \in DOMAIN globals
    BY DefinitionKnown
  <2> HIDE DEF symbol
  <2> QED BY <2>1, <2>2, <2>3
<1> QED BY <1>1, <1>2

\* When a relocation means one symbol and its sections are placed, what ld21 computes is
\* the number that it stands for.
LEMMA MeantIs ==
  ASSUME TypeOK, ValuesOK, GlobalsOK, Resolved,
         NEW f \in objects, NEW i \in DOMAIN Relocations(f), NEW r, r = Relocations(f)[i],
         sh_addr[f][r.section] # None,
         r.symbol # 0 => /\ Referred(f, r) # << >>
                         /\ \A d \in Meant(f, r) :
                              /\ d = Referred(f, r) /\ d[1] \notin Earlier
                              /\ sh_addr[d[1]][Symbols(d[1])[d[2]].section] # None
  PROVE  MeantNumber(f, r) = Value(f, r)
<1>1. objects \subseteq Files /\ job \in Jobs /\ pc # "open" /\ f \in Files
  BY PassedAll DEF TypeOK
<1>2. /\ r.section \in DOMAIN Sections(f) /\ r.word \in Nat /\ r.addend \in Int
      /\ r.kind \in {"SYMBOL", "LENGTH", "PAGE", "ADDRESS"}
  BY <1>1, RelocationIs
<1>3. Address(f, r.section) = sh_addr[f][r.section] /\ Address(f, r.section) \in Nat
  BY <1>1, <1>2, AddressIs DEF Address
<1> DEFINE here == IF r.type \in {"DO", "REL"} THEN Address(f, r.section) + r.word - 1 ELSE 0
<1>4. here \in Int
  BY <1>2, <1>3
<1>5. Value(f, r) = relocation_push(f, r) - here
  BY DEF Value
<1>6. CASE r.symbol = 0
  <2>1. Referred(f, r) = << >>
    BY <1>6 DEF Referred
  <2>2. relocation_push(f, r) = r.addend + 0
    BY <2>1 DEF relocation_push
  <2>3. MeantNumber(f, r) = 0 + r.addend - here
    BY <1>3, <1>6 DEF MeantNumber
  <2> HIDE DEF here
  <2> QED BY <1>2, <1>4, <1>5, <2>2, <2>3
<1>7. CASE r.symbol # 0
  <2>1. PICK d : d = Referred(f, r)
    OBVIOUS
  <2>2. d # << >> /\ d \in Meant(f, r) /\ \A e \in Meant(f, r) : e = d
    BY <1>7, <2>1, ReferredMeant
  <2>3. (CHOOSE e \in Meant(f, r) : TRUE) = d
    BY <2>2
  <2>4. /\ d[1] \in objects /\ d[2] \in DOMAIN Symbols(d[1]) /\ Symbols(d[1])[d[2]].section # 0
    BY <1>1, <2>1, <2>2, ReferredIs
  <2>5. PICK symbol, value : symbol = Symbols(d[1])[d[2]] /\ value = st_value[d[1]][d[2]]
    OBVIOUS
  <2>6. d[1] \notin Earlier /\ sh_addr[d[1]][symbol.section] # None
    BY <1>7, <2>2, <2>5
  <2>7. symbol.section \in DOMAIN Sections(d[1]) /\ symbol.value \in Nat /\ symbol.size \in Nat
    BY <1>1, <2>4, <2>5, SymbolIs
  <2>8. /\ Address(d[1], symbol.section) = sh_addr[d[1]][symbol.section]
        /\ Address(d[1], symbol.section) \in Nat
    BY <1>1, <2>4, <2>6, <2>7, AddressIs DEF Address
  <2>9. value = symbol.value + Address(d[1], symbol.section)
    BY <1>1, <2>4, <2>5, <2>6, PassedAll DEF ValuesOK
  <2>10. value = sh_addr[d[1]][symbol.section] + symbol.value /\ value \in Nat
    BY <2>7, <2>8, <2>9
  <2>11. value \div 2^16 \in Nat /\ (value % 2^16) \in Nat
    BY <2>10, Halves
  <2> DEFINE taken == CASE r.kind = "SYMBOL"  -> value
                        [] r.kind = "LENGTH"  -> symbol.size
                        [] r.kind = "PAGE"    -> value \div 2^16
                        [] r.kind = "ADDRESS" -> value % 2^16
  <2>12. taken \in Int
    BY <1>2, <2>7, <2>10, <2>11
  <2>13. relocation_push(f, r) = r.addend + taken
    BY <2>1, <2>2, <2>5 DEF relocation_push
  <2>14. MeantNumber(f, r) = taken + r.addend - here
    BY <1>3, <1>7, <2>3, <2>5, <2>10 DEF MeantNumber
  <2> HIDE DEF here, taken
  <2> QED BY <1>2, <1>4, <1>5, <2>12, <2>13, <2>14
<1> QED BY <1>6, <1>7

\* The words of the definitions are those of what fixup_code was shown to do.
LEMMA As21Is ==
  ASSUME NEW f, NEW r, NEW number
  PROVE  /\ WrittenByAs21(f, r, number) = Written(job.machine, r.type, number, Before(f, r))
         /\ TakenByAs21(f, r, number) <=> Taken(job.machine, r.type, number, Before(f, r))
         /\ TypeOf(f, r) = As(r.type, Before(f, r))
<1>1. TypeOf(f, r) = As(r.type, Before(f, r))
  BY DEF TypeOf, As
<1>2. EntryOf(f, r) = Constants(job.machine)[As(r.type, Before(f, r))]
  BY <1>1 DEF EntryOf
<1>3. WrittenByAs21(f, r, number) = Written(job.machine, r.type, number, Before(f, r))
  BY <1>2, Zenon DEF WrittenByAs21, Written, Filled
<1>4. TakenByAs21(f, r, number) <=> Taken(job.machine, r.type, number, Before(f, r))
  BY <1>2, Zenon DEF TakenByAs21, Taken, HasRoom, Room
<1> QED BY <1>1, <1>3, <1>4

\* All that is meant by a relocation of a linked file.
LEMMA NewMeant ==
  ASSUME IInv, Linked, NEW f \in New, NEW i \in DOMAIN Relocations(f),
         NEW r, r = Relocations(f)[i]
  PROVE  /\ f \in objects /\ f \in Files \ Earlier
         /\ Words(f, r) = Outcome(f, r).code /\ Outcome(f, r).is = "done"
         /\ Right(Outcome(f, r), job.machine, r.type, Value(f, r), Before(f, r))
         /\ IsNew(f, r) => MeantNumber(f, r) = Value(f, r)
<1>1. /\ TypeOK /\ ObjectsOK /\ PlacedOK /\ ValuesOK /\ GlobalsOK /\ WordsOK /\ FixedOK
      /\ pc = "closed" /\ errors = {} /\ Resolved /\ pc # "open" /\ job \in Jobs
  BY DEF IInv, Linked, KeptOK, Resolved, TypeOK
<1>2. f \in objects /\ f \in Files \ Earlier /\ \A g \in New : g \notin Earlier
  BY <1>1 DEF New, Earlier, ObjectsOK, TypeOK
<1>3. Fixed(f, i)
  BY <1>1, <1>2 DEF Fixed
<1>4. Outcome(f, r).is = "done" /\ ~ Unresolved(f, r) /\ Words(f, r) = Outcome(f, r).code
  BY <1>1, <1>2, <1>3 DEF FixedOK, WordsOK
<1>5. Right(Outcome(f, r), job.machine, r.type, Value(f, r), Before(f, r))
  BY <1>1, <1>2, OutcomeRight
<1>6. ASSUME IsNew(f, r)
      PROVE  MeantNumber(f, r) = Value(f, r)
  <2>1. processor # None /\ r.section \in DOMAIN Sections(f)
    BY <1>1, <1>2, ProcessorIs, RelocationIs DEF None
  <2>2. sh_addr[f][r.section] # None
    BY <1>1, <1>2, <1>6, <2>1 DEF IsNew, PlacedOK
  <2>3. ASSUME r.symbol # 0, NEW d \in Meant(f, r)
        PROVE  /\ d = Referred(f, r) /\ d[1] \notin Earlier
               /\ sh_addr[d[1]][Symbols(d[1])[d[2]].section] # None
    <3>1. d = Referred(f, r)
      <4>1. CASE Symbols(f)[r.symbol].section # 0
        BY <2>3, <4>1 DEF Meant, Referred
      <4>2. CASE Symbols(f)[r.symbol].section = 0
        <5>1. PICK name : name = Symbols(f)[r.symbol].name
          OBVIOUS
        <5>2. d \in Definitions(name)
          BY <2>3, <4>2, <5>1 DEF Meant
        <5>3. name.is \in DOMAIN globals /\ globals[name.is] = d
          BY <1>1, <5>2, DefinitionKnown
        <5> QED BY <2>3, <4>2, <5>1, <5>3 DEF Referred
      <4> QED BY <4>1, <4>2
    <3>2. Referred(f, r) # << >>
      BY <1>4, <2>3 DEF Unresolved
    <3>3. /\ d[1] \in objects /\ d[2] \in DOMAIN Symbols(d[1]) /\ Symbols(d[1])[d[2]].section # 0
      BY <1>1, <1>2, <3>1, <3>2, ReferredIs
    <3>4. PICK s : s = Symbols(d[1])[d[2]].section
      OBVIOUS
    <3>5. s \in DOMAIN Sections(d[1]) /\ d[1] \in Files
      BY <1>1, <3>3, <3>4, SymbolIs DEF TypeOK
    <3>6. d[1] \in New /\ by[d[1]][s] = processor
      BY <1>6, <2>3, <3>4 DEF IsNew
    <3> QED BY <1>1, <1>2, <2>1, <3>1, <3>4, <3>5, <3>6 DEF PlacedOK
  <2>4. r.symbol # 0 => Referred(f, r) # << >>
    BY <1>4 DEF Unresolved
  <2> QED BY <1>1, <1>2, <2>2, <2>3, <2>4, MeantIs
<1> QED BY <1>2, <1>4, <1>5, <1>6

\* The words of a linked file, from the invariant.
LEMMA WordIsLinkedNow ==
  ASSUME IInv
  PROVE  WordIsLinked
<1> SUFFICES ASSUME Linked, NEW f \in New
             PROVE  \A s \in DOMAIN Sections(f) :
               /\ \A i \in DOMAIN Relocations(f) :
                    LET r == Relocations(f)[i]
                    IN IsNew(f, r) => Words(f, r) = WrittenByAs21(f, r, MeantNumber(f, r))
               /\ \A w \in DOMAIN Sections(f)[s] :
                    \/ code[f][s][w] = Sections(f)[s][w]
                    \/ \E i \in DOMAIN Relocations(f) :
                         LET r == Relocations(f)[i]
                         IN r.section = s /\ w \in Covered(r)
  BY DEF WordIsLinked
<1>1. ASSUME NEW i \in DOMAIN Relocations(f), IsNew(f, Relocations(f)[i])
      PROVE  Words(f, Relocations(f)[i]) =
               WrittenByAs21(f, Relocations(f)[i], MeantNumber(f, Relocations(f)[i]))
  <2>1. PICK r : r = Relocations(f)[i]
    OBVIOUS
  <2>2. /\ Words(f, r) = Outcome(f, r).code /\ Outcome(f, r).is = "done"
        /\ Right(Outcome(f, r), job.machine, r.type, Value(f, r), Before(f, r))
        /\ MeantNumber(f, r) = Value(f, r)
    BY <1>1, <2>1, NewMeant
  <2>3. Words(f, r) = Written(job.machine, r.type, Value(f, r), Before(f, r))
    BY <2>2 DEF Right
  <2> QED BY <2>1, <2>2, <2>3, As21Is
<1>2. f \in Files \ Earlier
  BY DEF IInv, Linked, KeptOK, New, Earlier, ObjectsOK, TypeOK
<1> QED BY <1>1, <1>2 DEF IInv, WordsOK

\* AluMeans for a word that is given.
Puts(word, amf, number, new) ==
  /\ amf \in AluFunctions /\ number \in Both(16) /\ Plain(number)
  /\ AluConstant(amf, number) # {} /\ word \cap YYCCBO = {}
  /\ new = (word \ AMF_MASK) \cup AluConstant(amf, number)

LEMMA AluPut ==
  ASSUME NEW word, NEW amf, NEW number, NEW new, Puts(word, amf, number, new)
  PROVE  Operation(Function(new), Yop(new)) = Operation(amf, number)
<1> USE DEF Puts
<1>1. Operation(Function((word \ AMF_MASK) \cup AluConstant(amf, number)),
                Yop((word \ AMF_MASK) \cup AluConstant(amf, number))) = Operation(amf, number)
  BY AluMeans, Zenon
<1> QED BY <1>1, Zenon

\* The constants of the ALU in a linked file, from the invariant.
LEMMA ConstantIsMeantNow ==
  ASSUME IInv
  PROVE  ConstantIsMeant
<1> DEFINE Meets(f, r, number, amf, new) ==
             r.type = "YYCCBO" /\ IsNew(f, r) /\ HasRoom(f, r) /\ number \in Both(16)
             /\ Plain(number)
               => Operation(Function(new), Yop(new)) = Operation(amf, number)
<1> SUFFICES ASSUME Linked, NEW x \in AllRelocations
             PROVE  LET f == x[1]
                        r == Relocations(f)[x[2]]
                    IN Meets(f, r, MeantNumber(f, r), Function(Before(f, r)[1]),
                             code[f][r.section][r.word])
  BY SMTT(30) DEF ConstantIsMeant, Plain
<1> HIDE DEF Meets
<1> SUFFICES ASSUME NEW f, NEW r, NEW number, NEW amf, NEW new,
                    f = x[1], r = Relocations(f)[x[2]], number = MeantNumber(f, r),
                    amf = Function(Before(f, r)[1]), new = code[f][r.section][r.word]
             PROVE  Meets(f, r, number, amf, new)
  BY Zenon
<1> SUFFICES ASSUME r.type = "YYCCBO", IsNew(f, r), HasRoom(f, r), number \in Both(16),
                    Plain(number)
             PROVE  Operation(Function(new), Yop(new)) = Operation(amf, number)
  BY Zenon DEF Meets
<1>1. PICK i : i = x[2] /\ i \in DOMAIN Relocations(f) /\ r = Relocations(f)[i]
  BY DEF AllRelocations
<1>2. f \in New
  BY DEF IsNew
<1>3. /\ f \in Files \ Earlier
      /\ Words(f, r) = Outcome(f, r).code /\ Outcome(f, r).is = "done"
      /\ Right(Outcome(f, r), job.machine, r.type, Value(f, r), Before(f, r))
      /\ number = Value(f, r)
  BY <1>1, <1>2, NewMeant
<1>4. PICK old : old = Before(f, r)
  OBVIOUS
<1>5. job \in Jobs /\ LeftOpen(r.type, Sections(f)[r.section][r.word]) /\ r.word \in Nat
  BY <1>1, <1>3, RelocationIs DEF IInv, TypeOK
<1>6. RelocatedWords(r.type) = 1
  BY DEF RelocatedWords
<1>7. r.word + 1 - 1 = r.word
  <2>1. \A n \in Nat : n + 1 - 1 = n
    OBVIOUS
  <2> QED BY <1>5, <2>1, Zenon
<1>8. old[1] = Sections(f)[r.section][r.word] /\ Words(f, r)[1] = new
  <2>1. 1 \in 1 .. RelocatedWords(r.type)
    BY <1>6
  <2>2. /\ Before(f, r)[1] = Sections(f)[r.section][r.word + 1 - 1]
        /\ Words(f, r)[1] = code[f][r.section][r.word + 1 - 1]
    BY <2>1 DEF Before, Words
  <2> QED BY <1>4, <1>7, <2>2
<1>9. PICK a \in AluFunctions : old[1] \cap AMF_MASK = AMF(a)
  BY <1>5, <1>8 DEF LeftOpen
<1>10. Function(old[1]) = a
  <2>1. a \in 0 .. 31
    BY DEF AluFunctions
  <2> QED BY <1>9, <2>1, FunctionIs
<1>11. amf = a /\ old[1] \cap YYCCBO = {}
  BY <1>4, <1>5, <1>8, <1>10 DEF LeftOpen, YYCCBO, HasRoom
<1>12. Words(f, r) = Written(job.machine, r.type, number, old)
  BY <1>3, <1>4 DEF Right
<1>13. new = (old[1] \ AMF_MASK) \cup AluConstant(amf, number)
  <2>1. Words(f, r) = <<(old[1] \ AMF_MASK) \cup AluConstant(Function(old[1]), number)>>
    BY <1>12 DEF Written
  <2>2. Words(f, r)[1] = (old[1] \ AMF_MASK) \cup AluConstant(Function(old[1]), number)
    BY <2>1
  <2> QED BY <1>8, <1>10, <1>11, <2>2, Zenon
<1>14. AluConstant(amf, number) # {}
  <2>1. AluConstant(Function(old[1]), number) # {}
    BY <1>3, <1>4 DEF Right
  <2> QED BY <1>10, <1>11, <2>1
<1>15. PICK word : word = old[1]
  OBVIOUS
<1>16. amf \in AluFunctions /\ word \cap YYCCBO = {} /\ new = (word \ AMF_MASK) \cup AluConstant(amf, number)
  BY <1>9, <1>11, <1>13, <1>15, Zenon
<1>17. number \in Both(16) /\ Plain(number)
  BY Zenon
<1>18. AluConstant(amf, number) # {}
  BY <1>14, Zenon
<1>19. Puts(word, amf, number, new)
  BY <1>16, <1>17, <1>18, Zenon DEF Puts
<1> QED BY ONLY <1>19, AluPut

-----------------------------------------------------------------------------
(* What the errors say.                                                    *)

\* With no error all is known and what is put is taken; each error tells of what is not.
LEMMA ErrorIsToldNow ==
  ASSUME IInv
  PROVE  ErrorIsTold
<1> DEFINE good == objects = Named(1)
             /\ \A f \in objects :
                  /\ \A s \in DOMAIN Sections(f) : by[f][s] # None
                  /\ \A i \in DOMAIN Symbols(f) :
                       LET symbol == Symbols(f)[i]
                       IN IF symbol.global
                            THEN \A d, e \in Definitions(symbol.name) : d = e
                            ELSE symbol.section # 0
           known == \A x \in AllRelocations :
             LET r == Relocations(x[1])[x[2]]
             IN r.symbol = 0 \/ Meant(x[1], r) # {}
           Fits(x) == LET r == Relocations(x[1])[x[2]]
                      IN TakenByAs21(x[1], r, MeantNumber(x[1], r))
           told == \A x \in AllRelocations :
                     LET r == Relocations(x[1])[x[2]]
                     IN TypeOf(x[1], r) \notin Different /\ HasRoom(x[1], r)
<1> HIDE DEF good, known, Fits, told
<1> SUFFICES ASSUME pc \in {"closed", "aborted"}, processor = 1
             PROVE  /\ kept = {1} => good /\ known
                    /\ told /\ good /\ known => (kept = {1} <=> \A x \in AllRelocations : Fits(x))
  BY Zenon DEF ErrorIsTold, good, known, Fits, told
<1>1. /\ TypeOK /\ ObjectsOK /\ PlacedOK /\ ValuesOK /\ GlobalsOK /\ WordsOK /\ FixedOK
      /\ pc = "closed" /\ Resolved /\ pc # "open" /\ job \in Jobs /\ objects \subseteq Files
  BY DEF IInv, ToldOK, Resolved, TypeOK
<1>2. kept = {1} <=> errors = {}
  <2>1. 1 .. processor = {1}
    OBVIOUS
  <2> QED BY <1>1, <2>1 DEF IInv, KeptOK
<1>3. Earlier = {} /\ objects \subseteq Named(1)
  <2>1. 1 .. processor - 1 = {}
    OBVIOUS
  <2>2. Earlier = {}
    BY <2>1 DEF Earlier
  <2> QED BY <1>1, <2>2 DEF ObjectsOK
<1>4. \A x : x \in AllRelocations <=>
        \E f \in objects : \E i \in DOMAIN Relocations(f) : x = <<f, i>>
  BY DEF AllRelocations
<1>5. ASSUME NEW f \in objects, NEW i \in DOMAIN Relocations(f)
      PROVE  LET r == Relocations(f)[i]
             IN /\ Right(Outcome(f, r), job.machine, r.type, Value(f, r), Before(f, r))
                /\ errors = {} => Outcome(f, r).is = "done" /\ ~ Unresolved(f, r)
  <2>1. Fixed(f, i) /\ f \in Files \ Earlier
    BY <1>1, <1>3 DEF Fixed
  <2> QED BY <1>1, <2>1, OutcomeRight DEF FixedOK
<1>6. ASSUME errors = {}
      PROVE  good /\ known
  <2>1. objects = Named(1)
    BY <1>1, <1>3, <1>6 DEF ObjectsOK
  <2>2. \A f \in objects : \A s \in DOMAIN Sections(f) : by[f][s] # None
    BY <1>1, <1>6, PassedAll DEF PlacedOK
  <2>3. ASSUME NEW f \in objects, NEW i \in DOMAIN Symbols(f)
        PROVE  LET symbol == Symbols(f)[i]
               IN IF symbol.global
                    THEN \A d, e \in Definitions(symbol.name) : d = e
                    ELSE symbol.section # 0
    <3>1. \A d, e \in Definitions(Symbols(f)[i].name) : d = e
      BY <1>1, <1>6, DefinitionKnown
    <3>2. Symbols(f)[i].global \/ Symbols(f)[i].section # 0
      BY <1>1, <1>6, PassedAll DEF GlobalsOK
    <3> QED BY <3>1, <3>2
  <2>4. ASSUME NEW x \in AllRelocations
        PROVE  LET r == Relocations(x[1])[x[2]]
               IN r.symbol = 0 \/ Meant(x[1], r) # {}
    <3>1. PICK f \in objects : \E i \in DOMAIN Relocations(f) : x = <<f, i>>
      BY <1>4
    <3>2. PICK i \in DOMAIN Relocations(f) : x = <<f, i>>
      BY <3>1
    <3>3. PICK r : r = Relocations(f)[i]
      OBVIOUS
    <3>4. ~ Unresolved(f, r)
      BY <1>5, <1>6, <3>3
    <3>5. r.symbol = 0 \/ Meant(f, r) # {}
      BY <1>1, <3>4, ReferredMeant DEF Unresolved
    <3> QED BY <3>2, <3>3, <3>5
  <2> QED BY <2>1, <2>2, <2>3, <2>4, Zenon DEF good, known
\* When all is known, the number that ld21 computes is the one that is meant.
<1>7. ASSUME good, known, NEW f \in objects, NEW i \in DOMAIN Relocations(f),
             NEW r, r = Relocations(f)[i]
      PROVE  /\ MeantNumber(f, r) = Value(f, r)
             /\ ~ Unresolved(f, r)
  <2>1. r.symbol = 0 \/ Meant(f, r) # {}
    <3>1. <<f, i>> \in AllRelocations
      BY <1>4, Zenon
    <3>2. PICK x : x = <<f, i>>
      OBVIOUS
    <3>3. x[1] = f /\ x[2] = i /\ x \in AllRelocations
      BY <3>1, <3>2
    <3> QED BY <1>7, <3>3 DEF known
  <2>2. r.symbol # 0 => Referred(f, r) # << >> /\ Referred(f, r) \in Meant(f, r)
    BY <1>1, <2>1, ReferredMeant
  <2>3. r.section \in DOMAIN Sections(f) /\ (r.symbol # 0 => r.symbol \in DOMAIN Symbols(f))
    BY <1>1, <1>7, RelocationIs
  <2>4. \A g \in objects : \A s \in DOMAIN Sections(g) : sh_addr[g][s] # None
    BY <1>1, <1>7 DEF PlacedOK, good
  <2>5. ASSUME r.symbol # 0, NEW d \in Meant(f, r)
        PROVE  /\ d = Referred(f, r) /\ d[1] \notin Earlier
               /\ sh_addr[d[1]][Symbols(d[1])[d[2]].section] # None
    <3>1. d = Referred(f, r)
      <4>1. CASE Symbols(f)[r.symbol].section # 0
        BY <2>5, <4>1 DEF Meant, Referred
      <4>2. CASE Symbols(f)[r.symbol].section = 0
        <5>1. Meant(f, r) = Definitions(Symbols(f)[r.symbol].name)
          BY <4>2 DEF Meant
        <5>2. \A c, e \in Definitions(Symbols(f)[r.symbol].name) : c = e
          BY <1>7, <2>3, <2>5, <4>2 DEF good
        <5> QED BY <2>2, <2>5, <5>1, <5>2
      <4> QED BY <4>1, <4>2
    <3>2. /\ d[1] \in objects /\ d[2] \in DOMAIN Symbols(d[1]) /\ Symbols(d[1])[d[2]].section # 0
      BY <1>1, <1>7, <2>2, <2>5, <3>1, ReferredIs
    <3>3. Symbols(d[1])[d[2]].section \in DOMAIN Sections(d[1])
      BY <1>1, <3>2, SymbolIs
    <3> QED BY <1>3, <2>4, <3>1, <3>2, <3>3
  <2>6. MeantNumber(f, r) = Value(f, r)
    BY <1>1, <1>7, <2>2, <2>3, <2>4, <2>5, MeantIs
  <2> QED BY <2>2, <2>6 DEF Unresolved
<1>8. ASSUME told, good, known, NEW f \in objects, NEW i \in DOMAIN Relocations(f),
             NEW r, r = Relocations(f)[i]
      PROVE  Fits(<<f, i>>) <=> Outcome(f, r).is = "done"
  <2>1. PICK x : x = <<f, i>>
    OBVIOUS
  <2>2. x[1] = f /\ x[2] = i /\ x \in AllRelocations
    BY <1>4, <2>1
  <2>3. As(r.type, Before(f, r)) \notin Different /\ Room(r.type, Before(f, r))
    BY <1>8, <2>2, As21Is DEF told, HasRoom, Room
  <2>4. Fits(x) <=> Taken(job.machine, r.type, Value(f, r), Before(f, r))
    BY <1>7, <1>8, <2>2, As21Is DEF Fits
  <2>5. Outcome(f, r).is = "done" <=> Taken(job.machine, r.type, Value(f, r), Before(f, r))
    BY <1>5, <1>8, <2>3 DEF Right
  <2> QED BY <2>1, <2>4, <2>5
<1>9. ASSUME told, good, known, errors = {}, NEW x \in AllRelocations
      PROVE  Fits(x)
  <2>1. PICK f \in objects : \E i \in DOMAIN Relocations(f) : x = <<f, i>>
    BY <1>4
  <2>2. PICK i \in DOMAIN Relocations(f) : x = <<f, i>>
    BY <2>1
  <2>3. PICK r : r = Relocations(f)[i]
    OBVIOUS
  <2>4. Outcome(f, r).is = "done"
    BY <1>5, <1>9, <2>3
  <2> QED BY <1>8, <1>9, <2>2, <2>3, <2>4
<1>10. ASSUME told, good, known, \A x \in AllRelocations : Fits(x), NEW e \in errors
       PROVE  FALSE
  <2>1. Told(e)
    BY DEF IInv, ToldOK
  <2>2. PICK f, n, s, r : f = e.file /\ n = e.index /\ s = Symbols(f)[n] /\ r = Relocations(f)[n]
    OBVIOUS
  <2>3. \/ f \in Named(1) /\ ~ (job.files[f].exists /\ job.files[f].machine = job.machine)
        \/ f \in objects /\ n \in DOMAIN Sections(f) /\ by[f][n] = None
        \/ /\ Defines(<<f, n>>, s.name.is)
           /\ s.name.is \in DOMAIN globals /\ globals[s.name.is] # <<f, n>>
        \/ f \in objects /\ n \in DOMAIN Symbols(f) /\ ~ s.global /\ s.section = 0
        \/ f \in objects /\ n \in DOMAIN Relocations(f) /\ Unresolved(f, r)
        \/ f \in objects /\ n \in DOMAIN Relocations(f) /\ Outcome(f, r).is = "error"
    BY <2>1, <2>2 DEF Told
  <2>4. CASE f \in Named(1) /\ ~ (job.files[f].exists /\ job.files[f].machine = job.machine)
    BY <1>1, <1>10, <2>4 DEF good, ObjectsOK
  <2>5. CASE f \in objects /\ n \in DOMAIN Sections(f) /\ by[f][n] = None
    BY <1>10, <2>5 DEF good
  <2>6. CASE /\ Defines(<<f, n>>, s.name.is)
             /\ s.name.is \in DOMAIN globals /\ globals[s.name.is] # <<f, n>>
    <3>1. /\ f \in objects /\ n \in DOMAIN Symbols(f) /\ s.global /\ s.section # 0
      BY <2>2, <2>6 DEF Defines
    <3>2. <<f, n>> \in Definitions(s.name)
      BY <2>2, <3>1, DefinitionsIs
    <3>3. globals[s.name.is] \in Definitions(s.name)
      BY <1>1, <2>6, GlobalDefined
    <3>4. \A c, d \in Definitions(s.name) : c = d
      BY <1>10, <2>2, <3>1 DEF good
    <3> QED BY <2>6, <3>2, <3>3, <3>4
  <2>7. CASE f \in objects /\ n \in DOMAIN Symbols(f) /\ ~ s.global /\ s.section = 0
    BY <1>10, <2>2, <2>7 DEF good
  <2>8. CASE f \in objects /\ n \in DOMAIN Relocations(f) /\ Unresolved(f, r)
    BY <1>7, <1>10, <2>2, <2>8
  <2>9. CASE f \in objects /\ n \in DOMAIN Relocations(f) /\ Outcome(f, r).is = "error"
    <3>1. Fits(<<f, n>>)
      BY <1>4, <1>10, <2>9
    <3> QED BY <1>8, <1>10, <2>2, <2>9, <3>1
  <2> QED BY <2>3, <2>4, <2>5, <2>6, <2>7, <2>8, <2>9
<1> QED BY <1>2, <1>6, <1>9, <1>10

-----------------------------------------------------------------------------
(* The theorems.                                                           *)

\* The invariant of ld21's loops: what was opened, placed, passed, named and put into
\* the words so far, and what the errors tell (execfile.c).
THEOREM InvariantHolds == Spec => []IInv
<1>1. Init => IInv
  BY InitIs
<1>2. IInv /\ [Next]_vars => IInv'
  <2> SUFFICES ASSUME IInv, [Next]_vars PROVE IInv'
    OBVIOUS
  <2> QED BY object_openStep, PlaceSectionsStep, CheckSectionsStep, DefinedSymbolStep,
             UndefinedSymbolStep, EndSymbolsStep, EndFixupStep, RelocateOneStep,
             EndRelocationsStep, exec_closeStep, NextProcessorStep, StutterStep DEF Next
<1> QED BY <1>1, <1>2, PTL DEF Spec

\* A step keeps the types of the variables (execfile.c).
THEOREM TypesHold == Spec => []TypeOK
<1>1. IInv => TypeOK
  BY DEF IInv
<1> QED BY <1>1, InvariantHolds, PTL

\* The words of a linked file are those of the objects, and where there is a relocation
\* what as21 would have written if it had known the number (execfile.c, fixup.c).
THEOREM WordsAreLinked == Spec => []WordIsLinked
<1>1. IInv => WordIsLinked
  BY WordIsLinkedNow
<1> QED BY <1>1, InvariantHolds, PTL

\* An instruction of the ALU in a linked file that has room for a constant computes with
\* the one that the source gives (fixup.c, util.c).
THEOREM ConstantsAreMeant == Spec => []ConstantIsMeant
<1>1. IInv => ConstantIsMeant
  BY ConstantIsMeantNow
<1> QED BY <1>1, InvariantHolds, PTL

\* The executable of the first PROCESSOR is kept only when all files can be read, all their
\* sections are placed, every name has one definition and every symbol that is referred to
\* is known; then, but for the types where ld21 and as21 differ, and constants of the ALU
\* where an instruction has no room for them, it is kept exactly when each number is one
\* that as21 takes (yyerror, error_count and exec_close).
THEOREM ErrorsAreTold == Spec => []ErrorIsTold
<1>1. IInv => ErrorIsTold
  BY ErrorIsToldNow
<1> QED BY <1>1, InvariantHolds, PTL

\* The assertions of fixup.c hold until a second PROCESSOR is linked, which is where
\* relocations can be made again in words that are linked already.
THEOREM AssertionsHoldFirst == Spec => [](processor = 1 => FixupAssertionsHold)
<1>1. IInv => (processor = 1 => FixupAssertionsHold)
  BY DEF IInv, ToldOK, FixupAssertionsHold
<1> QED BY <1>1, InvariantHolds, PTL
=============================================================================
