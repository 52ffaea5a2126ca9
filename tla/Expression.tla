----------------------------- MODULE Expression -----------------------------
(***************************************************************************)
(* Expressions whose value is known only after linking.  The assembler     *)
(* folds what is constant and emits the rest as relocations in postfix     *)
(* order (as21/expression.c and the expression rules of                    *)
(* as21-grammar.y and as219x-grammar.y, which are the same); the linker    *)
(* evaluates the relocations of one location on a stack                    *)
(* (ld21/execfile.c).  The parser's reductions are the actions, so every   *)
(* expression tree of at most source.nodes nodes is assembled and linked.      *)
(***************************************************************************)
EXTENDS Integers, Sequences

CONSTANTS
  Symbol,       \* symbols of the program
  Value,        \* their final addresses
  SizeOf,       \* their st_size
  Resolved,     \* symbols some object file defines
  Source,       \* what the sources draw their expressions from: numbers,
                \* <<part, symbol>> pairs and operators, with the bounds on the
                \* nodes of an expression and on locations with an expression
  PageSize,     \* words in a page: the linker splits addresses at bit 16
  StackSize     \* size of the linker's expression stack

Unary == {"NEGATE", "LOGICAL_NOT", "BITWISE_NOT"}
Binary == {"MULTIPLY", "DIVIDE", "MOD", "ADD", "SUBTRACT", "SHIFT_UP",
           "SHIFT_DOWN", "LESS", "LESS_EQUAL", "GREATER", "GREATER_EQUAL",
           "EQUAL", "NOT_EQUAL", "BITWISE_AND", "BITWISE_XOR", "BITWISE_OR",
           "LOGICAL_AND", "LOGICAL_OR"}

\* The operators whose operands are the other way round.
Forward == [RDIVIDE |-> "DIVIDE", RMOD |-> "MOD", RSUBTRACT |-> "SUBTRACT",
            RSHIFT_UP |-> "SHIFT_UP", RSHIFT_DOWN |-> "SHIFT_DOWN"]
Reverse == DOMAIN Forward

\* The part of a symbol a relocation asks for, SYMBOL_MASK of its type.
Part == {"SYMBOL", "LENGTH_OF", "PAGE_OF", "ADDRESS_OF"}
NoSymbol == "STN_UNDEF"

\* The results of dividing by zero, INT_MAX and INT_MIN.
IntMax == 2147483647
IntMin == -2147483647 - 1

\* Bound: the magnitude of the operands of arithmetic, below which no int
\* overflows and a C shift is defined.
Bits == 12

ASSUME SymbolAssumption ==
  /\ NoSymbol \notin Symbol /\ Resolved \subseteq Symbol
  /\ Value \in [Symbol -> Nat] /\ SizeOf \in [Symbol -> Nat]
  /\ PageSize \in Nat \ {0} /\ StackSize \in Nat \ {0}
ASSUME SourceAssumption ==
  Source \subseteq [numbers : SUBSET Int, parts : SUBSET (Part \X Symbol),
                    operators : SUBSET (Unary \cup Binary),
                    nodes : Nat, locations : Nat]

VARIABLES
  source,    \* the element of Source that is assembled
  pc,        \* "parse", "link", "done"; "rejected", or "overflow" past the stack
  operands,  \* bison's values of the subexpressions not yet reduced
  nodes,     \* leaves and operators parsed in the current expression
  relocs,    \* the relocations of the section
  location,  \* words emitted so far, the r_offset of the next relocation
  wanted,    \* history: the value of the expression at each location
  next,      \* the relocation the linker is at
  stack,     \* its expression stack
  fixed,     \* the values it computed, in the order of the locations
  failed     \* a symbol was not found

vars == <<source, pc, operands, nodes, relocs, location, wanted, next, stack, fixed, failed>>

----------------------------------------------------------------------------
(* Arithmetic, the same in both programs. *)

Truth(b) == IF b THEN 1 ELSE 0
Abs(x) == IF x < 0 THEN -x ELSE x

\* C division truncates.
Quotient(x, y) ==
  IF (x < 0) = (y < 0) THEN Abs(x) \div Abs(y) ELSE -(Abs(x) \div Abs(y))

int_divide(left, right) ==
  CASE right # 0 -> Quotient(left, right)
    [] right = 0 /\ left < 0 -> IntMin
    [] right = 0 /\ left = 0 -> 0
    [] OTHER -> IntMax

int_mod(left, right) ==
  IF right = 0 THEN 0 ELSE left - right * Quotient(left, right)

\* Bit k of a number in two's complement; bit Bits is its sign.
Bit(x, k) == (x \div 2^k) % 2

\* The number whose bit k is one exactly when bits[k] holds.
FromBits(bits) ==
  LET upTo[k \in -1 .. Bits] ==
        IF k = -1 THEN 0
        ELSE upTo[k - 1] + Truth(bits[k]) * (IF k = Bits THEN -(2^k) ELSE 2^k)
  IN upTo[Bits]

Apply1(op, x) ==
  CASE op = "NEGATE" -> -x
    [] op = "LOGICAL_NOT" -> Truth(x = 0)
    [] op = "BITWISE_NOT" -> -x - 1

Apply2(op, x, y) ==
  CASE op = "MULTIPLY" -> x * y
    [] op = "DIVIDE" -> int_divide(x, y)
    [] op = "MOD" -> int_mod(x, y)
    [] op = "ADD" -> x + y
    [] op = "SUBTRACT" -> x - y
    [] op = "SHIFT_UP" -> x * 2^y
    [] op = "SHIFT_DOWN" -> x \div 2^y
    [] op = "LESS" -> Truth(x < y)
    [] op = "LESS_EQUAL" -> Truth(x <= y)
    [] op = "GREATER" -> Truth(x > y)
    [] op = "GREATER_EQUAL" -> Truth(x >= y)
    [] op = "EQUAL" -> Truth(x = y)
    [] op = "NOT_EQUAL" -> Truth(x # y)
    [] op = "BITWISE_AND" ->
         FromBits([k \in 0 .. Bits |-> Bit(x, k) = 1 /\ Bit(y, k) = 1])
    [] op = "BITWISE_XOR" ->
         FromBits([k \in 0 .. Bits |-> Bit(x, k) # Bit(y, k)])
    [] op = "BITWISE_OR" ->
         FromBits([k \in 0 .. Bits |-> Bit(x, k) = 1 \/ Bit(y, k) = 1])
    [] op = "LOGICAL_AND" -> Truth(x # 0 /\ y # 0)
    [] op = "LOGICAL_OR" -> Truth(x # 0 \/ y # 0)

\* The expressions that are built: C defines all their operations.
Small(x) == -(2^Bits) < x /\ x < 2^Bits
Defined1(x) == x # IntMin
Defined2(op, x, y) ==
  \/ op \in {"LESS", "LESS_EQUAL", "GREATER", "GREATER_EQUAL", "EQUAL",
            "NOT_EQUAL", "LOGICAL_AND", "LOGICAL_OR"}
  \/ /\ Small(x) /\ Small(y)
     /\ op \in {"SHIFT_UP", "SHIFT_DOWN"} => y \in 0 .. Bits

\* relocation_push: the part of a symbol, plus the addend.
PartOf(part, s) ==
  CASE part = "SYMBOL" -> Value[s]
    [] part = "LENGTH_OF" -> SizeOf[s]
    [] part = "PAGE_OF" -> Value[s] \div PageSize
    [] part = "ADDRESS_OF" -> Value[s] % PageSize

SymbolValue(part, s, addend) ==
  IF s \in Resolved THEN PartOf(part, s) + addend ELSE addend

----------------------------------------------------------------------------
(* The assembler. *)

\* expression_t, with the value the whole program gives it.
Operand(type, part, s, addend, value) ==
  [type |-> type, part |-> part, symbol |-> s, addend |-> addend, value |-> value]

\* symbol_add_relocation at the current location.
Reloc(op, part, s, addend) ==
  [op |-> op, part |-> part, symbol |-> s, addend |-> addend, offset |-> location]

IsPush(e) == e.type = "PUSH"
IsNumber(e) == IsPush(e) /\ e.symbol = NoSymbol
IsName(e) == IsPush(e) /\ e.symbol # NoSymbol

\* The relocation an operand still needs before an operator.
Pushed(e) ==
  IF IsPush(e) THEN <<Reloc("PUSH", e.part, e.symbol, e.addend)>> ELSE <<>>

Symbolic(value) == Operand("SYMBOLIC", "SYMBOL", NoSymbol, 0, value)

\* Mutant of Reversed: a comparison stays as it is.
ReversedMutant(op) ==
  IF \E r \in Reverse : Forward[r] = op THEN CHOOSE r \in Reverse : Forward[r] = op
  ELSE op

\* When the left operand is pushed after the right one was computed, the linker
\* finds them the other way round.
Reversed(op) ==
  CASE \E r \in Reverse : Forward[r] = op -> CHOOSE r \in Reverse : Forward[r] = op
    [] op = "LESS" -> "GREATER"
    [] op = "LESS_EQUAL" -> "GREATER_EQUAL"
    [] op = "GREATER" -> "LESS"
    [] op = "GREATER_EQUAL" -> "LESS_EQUAL"
    [] OTHER -> op

\* The operator binary_op emits for these operands.
Emitted(op, left, right) ==
  IF IsPush(left) /\ ~ IsPush(right) THEN Reversed(op) ELSE op

Top == operands[Len(operands)]
Below == operands[Len(operands) - 1]
Drop(q, n) == SubSeq(q, 1, Len(q) - n)

Parsing ==
  /\ pc = "parse" /\ nodes < source.nodes /\ location < source.locations
  /\ nodes' = nodes + 1
  /\ UNCHANGED <<source, pc, location, wanted, next, stack, fixed, failed>>

\* A leaf is read only when operators enough to join it can follow.
Leaf == Parsing /\ nodes + Len(operands) < source.nodes

\* primary_expression: a number.
Number(n) ==
  /\ Leaf
  /\ operands' = Append(operands, Operand("PUSH", "SYMBOL", NoSymbol, n, n))
  /\ UNCHANGED relocs

\* primary_expression: a symbol, or LENGTH, PAGE or ADDRESS of it.
Name(part, s) ==
  /\ Leaf
  /\ operands' = Append(operands,
       Operand("PUSH", part, s, 0, SymbolValue(part, s, 0)))
  /\ UNCHANGED relocs

\* unary_op.
UnaryOp(op) ==
  /\ Parsing /\ Len(operands) >= 1 /\ Defined1(Top.value)
  /\ LET value == Apply1(op, Top.value) IN
     IF IsNumber(Top)
     THEN /\ operands' = Append(Drop(operands, 1),
               Operand("PUSH", "SYMBOL", NoSymbol, Apply1(op, Top.addend), value))
          /\ UNCHANGED relocs
     ELSE /\ operands' = Append(Drop(operands, 1), Symbolic(value))
          /\ relocs' = relocs \o Pushed(Top)
                              \o <<Reloc(op, "SYMBOL", NoSymbol, 0)>>

\* A sum or difference of a symbol and a number stays one relocation, whose
\* addend the number becomes a part of.
AddsToAddend(op) ==
  \/ op = "ADD" /\ IsNumber(Below) /\ IsName(Top)
  \/ op \in {"ADD", "SUBTRACT"} /\ IsName(Below) /\ IsNumber(Top)

AddToAddend(op) ==
  /\ Parsing /\ Len(operands) >= 2 /\ AddsToAddend(op)
  /\ Defined2(op, Below.value, Top.value)
  /\ LET name == IF IsName(Top) THEN Top ELSE Below
         number == IF IsName(Top) THEN Below ELSE Top
     IN operands' = Append(Drop(operands, 2),
          [name EXCEPT !.addend = Apply2(op, @, number.addend),
                       !.value = Apply2(op, Below.value, Top.value)])
  /\ UNCHANGED relocs

\* binary_op.
BinaryOp(op) ==
  /\ Parsing /\ Len(operands) >= 2 /\ ~ AddsToAddend(op)
  /\ Defined2(op, Below.value, Top.value)
  /\ LET value == Apply2(op, Below.value, Top.value) IN
     IF IsNumber(Below) /\ IsNumber(Top)
     THEN /\ operands' = Append(Drop(operands, 2),
               Operand("PUSH", "SYMBOL", NoSymbol,
                       Apply2(op, Below.addend, Top.addend), value))
          /\ UNCHANGED relocs
     ELSE /\ operands' = Append(Drop(operands, 2), Symbolic(value))
          /\ relocs' = relocs \o Pushed(Below) \o Pushed(Top)
                       \o <<Reloc(Emitted(op, Below, Top), "SYMBOL", NoSymbol, 0)>>

\* The end of an initializer or an immediate operand: a constant is encoded in
\* the word, anything else gets the relocation of the word itself.
EndExpression ==
  /\ pc = "parse" /\ Len(operands) = 1
  /\ IF IsNumber(Top)
     THEN UNCHANGED <<relocs, wanted>>
     ELSE /\ relocs' = Append(relocs,
               Reloc("R_DATA", Top.part, Top.symbol, Top.addend))
          /\ wanted' = Append(wanted, Top.value)
  /\ operands' = <<>> /\ nodes' = 0
  /\ location' = location + 1
  /\ UNCHANGED <<source, pc, next, stack, fixed, failed>>

\* A syntax error: yyparse fails and as21 writes no object file.
SyntaxError ==
  /\ pc = "parse" /\ operands # <<>>
  /\ pc' = "rejected"
  /\ operands' = <<>> /\ nodes' = 0 /\ relocs' = <<>> /\ wanted' = <<>>
  /\ UNCHANGED <<source, location, next, stack, fixed, failed>>

EndAssembly ==
  /\ pc = "parse" /\ operands = <<>> /\ location = source.locations
  /\ pc' = "link"
  /\ UNCHANGED <<source, operands, nodes, relocs, location, wanted, next, stack, fixed,
                 failed>>

----------------------------------------------------------------------------
(* The linker: relocate, relocation_expression and relocation_push. *)

\* relocate looks ahead to the last relocation of a location.
SameLocation(i, j) ==
  {i, j} \subseteq DOMAIN relocs /\ relocs[i].offset = relocs[j].offset
IsFirst(i) == ~ SameLocation(i - 1, i)
IsLast(i) == ~ SameLocation(i, i + 1)

Linking ==
  /\ pc = "link" /\ next <= Len(relocs)
  /\ next' = next + 1
  /\ UNCHANGED <<source, operands, nodes, relocs, location, wanted>>

\* Mutant of Push: a stack with one entry less.
PushMutant(rel) ==
  /\ stack' = Append(stack, SymbolValue(rel.part, rel.symbol, rel.addend))
  /\ failed' = (failed \/ (rel.symbol # NoSymbol /\ rel.symbol \notin Resolved))
  /\ pc' = IF Len(stack) < StackSize - 1 THEN pc ELSE "overflow"

\* relocation_push; the array stack[32] has no check.
Push(rel) ==
  /\ stack' = Append(stack, SymbolValue(rel.part, rel.symbol, rel.addend))
  /\ failed' = (failed \/ (rel.symbol # NoSymbol /\ rel.symbol \notin Resolved))
  /\ pc' = IF Len(stack) < StackSize THEN pc ELSE "overflow"

LinkPush ==
  /\ Linking /\ ~ IsLast(next) /\ relocs[next].op = "PUSH"
  /\ Push(relocs[next])
  /\ UNCHANGED fixed

LinkUnary ==
  /\ Linking /\ ~ IsLast(next) /\ relocs[next].op \in Unary
  /\ stack' = [stack EXCEPT ![Len(stack)] = Apply1(relocs[next].op, @)]
  /\ UNCHANGED <<pc, fixed, failed>>

LinkBinary ==
  /\ Linking /\ ~ IsLast(next) /\ relocs[next].op \in Binary \cup Reverse
  /\ LET op == relocs[next].op
         under == stack[Len(stack) - 1]
         top == stack[Len(stack)]
     IN stack' = Append(Drop(stack, 2),
          IF op \in Reverse THEN Apply2(Forward[op], top, under)
          ELSE Apply2(op, under, top))
  /\ UNCHANGED <<pc, fixed, failed>>

\* A location with one relocation: the symbol or number itself.
FixSingle ==
  /\ Linking /\ IsLast(next) /\ IsFirst(next)
  /\ fixed' = Append(fixed,
       SymbolValue(relocs[next].part, relocs[next].symbol, relocs[next].addend))
  /\ failed' = (failed \/ relocs[next].symbol \notin Resolved \cup {NoSymbol})
  /\ UNCHANGED <<pc, stack>>

\* The last of several: the value left on the stack.
FixExpression ==
  /\ Linking /\ IsLast(next) /\ ~ IsFirst(next)
  /\ fixed' = Append(fixed, stack[1])
  /\ stack' = <<>>
  /\ UNCHANGED <<pc, failed>>

\* Mutant of EndLink: the loop ends before the last relocation.
EndLinkMutant ==
  /\ pc = "link" /\ next >= Len(relocs)
  /\ pc' = "done"
  /\ UNCHANGED <<source, operands, nodes, relocs, location, wanted, next, stack, fixed,
                 failed>>

EndLink ==
  /\ pc = "link" /\ next > Len(relocs)
  /\ pc' = "done"
  /\ UNCHANGED <<source, operands, nodes, relocs, location, wanted, next, stack, fixed,
                 failed>>

Stopped == pc \in {"done", "rejected", "overflow"} /\ UNCHANGED vars

Init ==
  /\ source \in Source
  /\ pc = "parse" /\ operands = <<>> /\ nodes = 0 /\ relocs = <<>>
  /\ location = 0 /\ wanted = <<>> /\ next = 1 /\ stack = <<>> /\ fixed = <<>>
  /\ failed = FALSE

Next ==
  \/ \E n \in source.numbers : Number(n)
  \/ \E r \in source.parts : Name(r[1], r[2])
  \/ \E op \in source.operators \cap Unary : UnaryOp(op)
  \/ \E op \in source.operators \cap Binary : AddToAddend(op)
  \/ \E op \in source.operators \cap Binary : BinaryOp(op)
  \/ EndExpression
  \/ EndAssembly
  \/ SyntaxError
  \/ LinkPush \/ LinkUnary \/ LinkBinary \/ FixSingle \/ FixExpression
  \/ EndLink
  \/ Stopped

Spec == Init /\ [][Next]_vars

----------------------------------------------------------------------------
(* Properties. *)

\* binary_op, the additive_expression rules and relocation_expression agree: the
\* linker gives every location the value the expression has when it is evaluated
\* as it is written, whatever was folded, carried as an addend or reversed.
LinkedValue ==
  failed \/ \A i \in DOMAIN fixed : fixed[i] = wanted[i]

\* relocate finds one value for each location the assembler left open.
EveryLocationIsFixed == pc = "done" => Len(fixed) = Len(wanted)

\* relocation_expression: an operator finds its operands on the stack, and the
\* assertion that one value is left at the end of a location holds.
\* relocation_push has no check of its array: an operand waits on the stack
\* for every operator to the left of it; since binary_op pushes a left operand
\* only after the right one was computed, it takes three leaves and operators to
\* use one more entry.
StackIsSound ==
  /\ pc = "link" /\ next <= Len(relocs) =>
       /\ IsFirst(next) => stack = <<>>
       /\ IsLast(next) /\ ~ IsFirst(next) => Len(stack) = 1
       /\ ~ IsLast(next) /\ relocs[next].op \in Unary => Len(stack) >= 1
       /\ ~ IsLast(next) /\ relocs[next].op \in Binary \cup Reverse => Len(stack) >= 2
  /\ pc = "overflow" => source.nodes >= 3 * StackSize
=============================================================================
