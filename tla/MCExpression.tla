---------------------------- MODULE MCExpression ----------------------------
(***************************************************************************)
(* A symbol on the second page and one that no object file defines; their  *)
(* parts and the numbers differ from one another, so that quotients,       *)
(* remainders and comparisons tell their operands apart.                   *)
(***************************************************************************)
EXTENDS Expression, TLC

MCValue == "x" :> 5 @@ "u" :> 0
MCSizeOf == "x" :> 2 @@ "u" :> 0

Whole(symbols) == {"SYMBOL"} \X symbols

MCSource ==
  { \* Every operator, on a number, a symbol and a symbol no file defines.
    [numbers |-> {-3, 0}, parts |-> Whole({"x", "u"}),
     operators |-> Unary \cup Binary, nodes |-> 5, locations |-> 1],
    \* Operators that tell their operands apart, nested deeply.
    [numbers |-> {-3}, parts |-> Whole({"x"}),
     operators |-> {"BITWISE_NOT", "SUBTRACT", "DIVIDE"}, nodes |-> 8, locations |-> 1],
    \* Every part of a symbol, at locations that follow one another.
    [numbers |-> {-3, 0}, parts |-> (Part \X {"x"}) \cup Whole({"u"}),
     operators |-> {"BITWISE_NOT", "SUBTRACT"}, nodes |-> 3, locations |-> 2] }
=============================================================================
