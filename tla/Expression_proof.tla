-------------------------- MODULE Expression_proof --------------------------
(***************************************************************************)
(* Theorems about Expression, for every source, symbol table and size of   *)
(* the linker's stack.                                                     *)
(***************************************************************************)
EXTENDS Expression, NaturalsInduction, SequenceTheorems, WellFoundedInduction, TLAPS

(* Numbers: every operation gives one. *)

LEMMA Powers ==
  ASSUME NEW y \in 0 .. Bits
  PROVE  2^y \in Nat \ {0}
<1> y \in 0 .. 12
  BY DEF Bits
<1>0. CASE y = 0
  BY <1>0
<1>1. CASE y = 1
  BY <1>1
<1>2. CASE y = 2
  BY <1>2
<1>3. CASE y = 3
  BY <1>3
<1>4. CASE y = 4
  BY <1>4
<1>5. CASE y = 5
  BY <1>5
<1>6. CASE y = 6
  BY <1>6
<1>7. CASE y = 7
  BY <1>7
<1>8. CASE y = 8
  BY <1>8
<1>9. CASE y = 9
  BY <1>9
<1>10. CASE y = 10
  BY <1>10
<1>11. CASE y = 11
  BY <1>11
<1>12. CASE y = 12
  BY <1>12
<1> QED
  BY <1>0, <1>1, <1>2, <1>3, <1>4, <1>5, <1>6, <1>7, <1>8, <1>9, <1>10, <1>11, <1>12

\* The sums of the first numbers of a: what a recursive function computes.
SumsOf(f, a, n) ==
  f = [k \in -1 .. n |-> IF k = -1 THEN 0 ELSE f[k - 1] + a[k]]

LEMMA SumsExist ==
  ASSUME NEW a, NEW n \in Nat
  PROVE  \E f : SumsOf(f, a, n - 1)
<1> DEFINE R == OpToRel(<, Nat)
           T == {m \in Nat : ~ \E f : SumsOf(f, a, m - 1)}
<1>1. IsWellFoundedOn(R, Nat)
  BY NatLessThanWellFounded
<1>2. \A x, y \in Nat : <<y, x>> \in R <=> y < x
  BY DEF OpToRel
<1> HIDE DEF R
<1>3. SUFFICES ASSUME T # {} PROVE FALSE
  OBVIOUS
<1>4. PICK m \in T : \A y \in T : ~ (<<y, m>> \in R)
  <2>1. T \subseteq Nat
    OBVIOUS
  <2> HIDE DEF T
  <2> QED
    BY <1>1, <1>3, <2>1, WFMin
<1>5. CASE m = 0
  <2> DEFINE f == [k \in -1 .. -1 |-> 0]
  <2>1. f = [k \in -1 .. -1 |-> IF k = -1 THEN 0 ELSE f[k - 1] + a[k]]
    OBVIOUS
  <2>2. m - 1 = -1
    BY <1>5
  <2> HIDE DEF f
  <2>3. SumsOf(f, a, m - 1)
    BY <2>1, <2>2 DEF SumsOf
  <2> QED
    BY <2>3
<1>6. CASE m # 0
  <2>1. m - 1 \in Nat /\ m - 1 < m /\ m \in Nat
    BY <1>6
  <2>2. m - 1 \notin T
    <3> HIDE DEF T
    <3> QED
      BY <1>2, <1>4, <2>1
  <2>3. PICK f : SumsOf(f, a, m - 2)
    BY <2>1, <2>2
  <2> DEFINE g == [k \in -1 .. m - 1 |-> IF k = m - 1 THEN f[m - 2] + a[m - 1] ELSE f[k]]
  <2>4. \A k \in -1 .. m - 2 : f[k] = IF k = -1 THEN 0 ELSE f[k - 1] + a[k]
    BY <2>3 DEF SumsOf
  <2>5. ASSUME NEW k \in -1 .. m - 1
        PROVE  g[k] = IF k = -1 THEN 0 ELSE g[k - 1] + a[k]
    <3>1. CASE k = m - 1
      BY <2>1, <3>1
    <3>2. CASE k # m - 1
      BY <2>1, <2>4, <3>2
    <3> QED
      BY <3>1, <3>2
  <2>6. g = [k \in -1 .. m - 1 |-> g[k]]
    OBVIOUS
  <2> HIDE DEF g
  <2>7. SumsOf(g, a, m - 1)
    BY <2>5, <2>6 DEF SumsOf
  <2> QED
    BY <2>7
<1> QED
  BY <1>5, <1>6

LEMMA SumsAreNumbers ==
  ASSUME NEW n \in Nat, NEW a \in [0 .. n -> Int], NEW f, SumsOf(f, a, n)
  PROVE  f[n] \in Int
<1> DEFINE R == OpToRel(<, Nat)
           T == {m \in 0 .. n + 1 : f[m - 1] \notin Int}
<1>1. IsWellFoundedOn(R, Nat)
  BY NatLessThanWellFounded
<1>2. \A x, y \in Nat : <<y, x>> \in R <=> y < x
  BY DEF OpToRel
<1> HIDE DEF R
<1>3. \A k \in -1 .. n : f[k] = IF k = -1 THEN 0 ELSE f[k - 1] + a[k]
  BY DEF SumsOf
<1>4. T = {}
  <2> SUFFICES ASSUME T # {} PROVE FALSE
    OBVIOUS
  <2>1. PICK m \in T : \A y \in T : ~ (<<y, m>> \in R)
    <3>1. T \subseteq Nat
      OBVIOUS
    <3> HIDE DEF T
    <3> QED
      BY <1>1, <3>1, WFMin
  <2>2. m \in 0 .. n + 1 /\ f[m - 1] \notin Int
    OBVIOUS
  <2>3. m # 0
    BY <1>3, <2>2
  <2>4. m - 1 \in 0 .. n + 1 /\ m - 1 < m /\ m - 1 \in Nat /\ m \in Nat
    BY <2>2, <2>3
  <2>5. m - 1 \notin T
    <3> HIDE DEF T
    <3> QED
      BY <1>2, <2>1, <2>4
  <2>6. f[m - 2] \in Int
    <3>1. (m - 1) - 1 = m - 2
      BY <2>2
    <3> QED
      BY <2>4, <2>5, <3>1
  <2>7. f[m - 1] = f[m - 2] + a[m - 1]
    <3>1. m - 1 \in -1 .. n /\ m - 1 # -1 /\ (m - 1) - 1 = m - 2
      BY <2>2, <2>3
    <3> HIDE DEF T
    <3> QED
      BY <1>3, <3>1
  <2>8. a[m - 1] \in Int
    <3>1. m - 1 \in 0 .. n
      BY <2>2, <2>3
    <3> QED
      BY <3>1
  <2> HIDE DEF T
  <2> QED
    BY <2>2, <2>6, <2>7, <2>8
<1> QED
  <2>1. n + 1 \notin T
    BY <1>4
  <2> QED
    BY <2>1

LEMMA FromBitsIsNumber ==
  ASSUME NEW bits
  PROVE  FromBits(bits) \in Int
<1> DEFINE a == [k \in 0 .. Bits |-> Truth(bits[k]) * (IF k = Bits THEN -(2^k) ELSE 2^k)]
           P(f) == f = [k \in -1 .. Bits |->
                          IF k = -1 THEN 0
                          ELSE f[k - 1]
                                 + Truth(bits[k]) * (IF k = Bits THEN -(2^k) ELSE 2^k)]
           Q(f) == SumsOf(f, a, Bits)
<1>0. Bits = 12
  BY DEF Bits
<1>1. a \in [0 .. Bits -> Int]
  <2>1. ASSUME NEW k \in 0 .. Bits
        PROVE  Truth(bits[k]) * (IF k = Bits THEN -(2^k) ELSE 2^k) \in Int
    <3>1. PICK z \in Nat \ {0} : z = 2^k
      BY Powers
    <3>2. Truth(bits[k]) \in Int
      BY DEF Truth
    <3> QED
      BY <3>1, <3>2
  <2> QED
    BY <2>1
<1>2. ASSUME NEW f PROVE P(f) <=> Q(f)
  <2>1. ASSUME NEW k \in -1 .. Bits, k # -1
        PROVE  a[k] = Truth(bits[k]) * (IF k = Bits THEN -(2^k) ELSE 2^k)
    <3>1. k \in 0 .. Bits
      BY <1>0, <2>1
    <3> QED
      BY <3>1
  <2> HIDE DEF a
  <2>2. \A k \in -1 .. Bits :
           (IF k = -1 THEN 0
            ELSE f[k - 1] + Truth(bits[k]) * (IF k = Bits THEN -(2^k) ELSE 2^k))
             = (IF k = -1 THEN 0 ELSE f[k - 1] + a[k])
    BY <2>1
  <2>3. [k \in -1 .. Bits |->
           IF k = -1 THEN 0
           ELSE f[k - 1] + Truth(bits[k]) * (IF k = Bits THEN -(2^k) ELSE 2^k)]
          = [k \in -1 .. Bits |-> IF k = -1 THEN 0 ELSE f[k - 1] + a[k]]
    BY <2>2, Zenon
  <2> QED
    BY <2>3, Zenon DEF SumsOf
<1>3. FromBits(bits) = (CHOOSE f : P(f))[Bits]
  BY DEF FromBits
<1>4. (CHOOSE f : P(f)) = (CHOOSE f : Q(f))
  <2> HIDE DEF P, Q
  <2> QED
    BY <1>2, Zenon
<1>5. \E f : Q(f)
  <2>1. PICK n \in Nat : n = Bits + 1
    BY <1>0
  <2>2. \E f : SumsOf(f, a, n - 1)
    <3> HIDE DEF a
    <3> QED
      BY SumsExist
  <2>3. n - 1 = Bits
    BY <1>0, <2>1
  <2> HIDE DEF a
  <2> QED
    BY <2>2, <2>3
<1>6. Q(CHOOSE f : Q(f))
  <2> HIDE DEF Q
  <2> QED
    BY <1>5, Zenon
<1>7. (CHOOSE f : Q(f))[Bits] \in Int
  <2>1. PICK f : f = CHOOSE g : Q(g)
    OBVIOUS
  <2>2. SumsOf(f, a, Bits)
    <3>1. Q(f)
      <4> HIDE DEF Q
      <4> QED
        BY <1>6, <2>1
    <3> QED
      BY <3>1
  <2>3. Bits \in Nat
    BY <1>0
  <2> HIDE DEF a, Q
  <2> QED
    BY <1>1, <2>1, <2>2, <2>3, SumsAreNumbers
<1> QED
  <2> HIDE DEF P, Q
  <2> QED
    BY <1>3, <1>4, <1>7

LEMMA QuotientIsNumber ==
  ASSUME NEW x \in Int, NEW y \in Int, y # 0
  PROVE  Quotient(x, y) \in Int
<1>1. PICK a \in Nat, b \in Nat \ {0} : a = Abs(x) /\ b = Abs(y)
  BY DEF Abs
<1>2. a \div b \in Int
  BY <1>1
<1> QED
  BY <1>1, <1>2 DEF Quotient

LEMMA Apply1IsNumber ==
  ASSUME NEW op \in Unary, NEW x \in Int
  PROVE  Apply1(op, x) \in Int
BY DEF Apply1, Unary, Truth

LEMMA Apply2IsNumber ==
  ASSUME NEW op \in Binary, NEW x \in Int, NEW y \in Int, Defined2(op, x, y)
  PROVE  Apply2(op, x, y) \in Int
<1>1. CASE op \in {"MULTIPLY", "ADD", "SUBTRACT"}
  BY <1>1 DEF Apply2
<1>2. CASE op = "DIVIDE"
  <2>1. Apply2(op, x, y) = int_divide(x, y)
    BY <1>2 DEF Apply2
  <2>2. int_divide(x, y) \in Int
    BY QuotientIsNumber DEF int_divide, IntMin, IntMax
  <2> QED
    BY <2>1, <2>2
<1>3. CASE op = "MOD"
  <2>1. Apply2(op, x, y) = int_mod(x, y)
    BY <1>3 DEF Apply2
  <2>2. int_mod(x, y) \in Int
    BY QuotientIsNumber DEF int_mod
  <2> QED
    BY <2>1, <2>2
<1>4. CASE op \in {"SHIFT_UP", "SHIFT_DOWN"}
  <2>1. y \in 0 .. Bits
    BY <1>4 DEF Defined2
  <2>2. PICK z \in Nat \ {0} : z = 2^y
    BY <2>1, Powers
  <2>3. x * z \in Int /\ x \div z \in Int
    OBVIOUS
  <2> QED
    BY <1>4, <2>2, <2>3 DEF Apply2
<1>5. CASE op \in {"BITWISE_AND", "BITWISE_XOR", "BITWISE_OR"}
  BY <1>5, FromBitsIsNumber DEF Apply2
<1>6. CASE op \in {"LESS", "LESS_EQUAL", "GREATER", "GREATER_EQUAL", "EQUAL", "NOT_EQUAL",
                   "LOGICAL_AND", "LOGICAL_OR"}
  <2>1. \A b : Truth(b) \in Int
    BY DEF Truth
  <2> QED
    BY <1>6, <2>1 DEF Apply2
<1> QED
  BY <1>1, <1>2, <1>3, <1>4, <1>5, <1>6 DEF Binary

LEMMA ReversedIs ==
  ASSUME NEW op \in Binary, NEW x \in Int, NEW y \in Int
  PROVE  /\ Reversed(op) \in Binary \cup Reverse
         /\ Reversed(op) \in Reverse => Apply2(Forward[Reversed(op)], x, y) = Apply2(op, x, y)
         /\ Reversed(op) \notin Reverse => Apply2(Reversed(op), y, x) = Apply2(op, x, y)
<1>0. Reverse = {"RDIVIDE", "RMOD", "RSUBTRACT", "RSHIFT_UP", "RSHIFT_DOWN"}
  BY DEF Reverse, Forward
<1>1. CASE op \in {"DIVIDE", "MOD", "SUBTRACT", "SHIFT_UP", "SHIFT_DOWN"}
  <2>1. \E r \in Reverse : Forward[r] = op
    BY <1>1, <1>0 DEF Forward
  <2> DEFINE q == CHOOSE r \in Reverse : Forward[r] = op
  <2>2. q \in Reverse /\ Forward[q] = op
    <3> HIDE DEF Reverse, Forward
    <3> QED
      BY <2>1, Zenon
  <2>3. Reversed(op) = q
    <3>1. op \notin {"LESS", "LESS_EQUAL", "GREATER", "GREATER_EQUAL"}
      BY <1>1
    <3> QED
      BY <2>1, <3>1 DEF Reversed
  <2> HIDE DEF q
  <2> QED
    BY <2>2, <2>3
<1>2. CASE op \in {"LESS", "LESS_EQUAL", "GREATER", "GREATER_EQUAL"}
  <2>1. ~ \E r \in Reverse : Forward[r] = op
    BY <1>2, <1>0 DEF Forward
  <2>2. /\ op = "LESS" => Reversed(op) = "GREATER"
        /\ op = "LESS_EQUAL" => Reversed(op) = "GREATER_EQUAL"
        /\ op = "GREATER" => Reversed(op) = "LESS"
        /\ op = "GREATER_EQUAL" => Reversed(op) = "LESS_EQUAL"
    BY <2>1 DEF Reversed
  <2>3. /\ Reversed(op) \in Binary /\ Reversed(op) \notin Reverse
    BY <1>0, <1>2, <2>2 DEF Binary
  <2>4. Apply2(Reversed(op), y, x) = Apply2(op, x, y)
    <3>1. (x < y) = (y > x) /\ (x <= y) = (y >= x) /\ (x > y) = (y < x) /\ (x >= y) = (y <= x)
      OBVIOUS
    <3> QED
      BY <1>2, <2>2, <3>1 DEF Apply2, Truth
  <2> QED
    BY <2>3, <2>4
<1>3. CASE op \in {"MULTIPLY", "ADD", "EQUAL", "NOT_EQUAL", "LOGICAL_AND", "LOGICAL_OR"}
  <2>1. ~ \E r \in Reverse : Forward[r] = op
    BY <1>3, <1>0 DEF Forward
  <2>2. Reversed(op) = op /\ op \notin Reverse
    BY <1>0, <1>3, <2>1 DEF Reversed
  <2>3. Apply2(op, y, x) = Apply2(op, x, y)
    <3>1. x * y = y * x /\ x + y = y + x
      OBVIOUS
    <3> QED
      BY <1>3, <3>1 DEF Apply2, Truth
  <2> QED
    BY <2>2, <2>3
<1>4. CASE op \in {"BITWISE_AND", "BITWISE_XOR", "BITWISE_OR"}
  <2>1. ~ \E r \in Reverse : Forward[r] = op
    BY <1>4, <1>0 DEF Forward
  <2>2. Reversed(op) = op /\ op \notin Reverse
    BY <1>0, <1>4, <2>1 DEF Reversed
  <2>3. /\ [k \in 0 .. Bits |-> Bit(x, k) = 1 /\ Bit(y, k) = 1]
             = [k \in 0 .. Bits |-> Bit(y, k) = 1 /\ Bit(x, k) = 1]
        /\ [k \in 0 .. Bits |-> Bit(x, k) # Bit(y, k)]
             = [k \in 0 .. Bits |-> Bit(y, k) # Bit(x, k)]
        /\ [k \in 0 .. Bits |-> Bit(x, k) = 1 \/ Bit(y, k) = 1]
             = [k \in 0 .. Bits |-> Bit(y, k) = 1 \/ Bit(x, k) = 1]
    BY Zenon
  <2>4. Apply2(op, y, x) = Apply2(op, x, y)
    BY <1>4, <2>3 DEF Apply2
  <2> QED
    BY <2>2, <2>4
<1> QED
  BY <1>1, <1>2, <1>3, <1>4 DEF Binary

LEMMA SymbolValueIsNumber ==
  ASSUME NEW part \in Part, NEW s, NEW addend \in Int
  PROVE  SymbolValue(part, s, addend) \in Int
<1>1. CASE s \in Resolved
  <2>1. Value[s] \in Nat /\ SizeOf[s] \in Nat /\ PageSize \in Nat \ {0}
    BY <1>1, SymbolAssumption
  <2>2. PartOf(part, s) \in Int
    BY <2>1 DEF PartOf, Part
  <2> QED
    BY <1>1, <2>2 DEF SymbolValue
<1>2. CASE s \notin Resolved
  BY <1>2 DEF SymbolValue
<1> QED
  BY <1>1, <1>2

\* A number added to the addend of a name is added to its value.
LEMMA SumIsCarried ==
  ASSUME NEW part \in Part, NEW s, NEW addend \in Int, NEW n \in Int
  PROVE  /\ SymbolValue(part, s, addend + n) = SymbolValue(part, s, addend) + n
         /\ SymbolValue(part, s, addend + n) = n + SymbolValue(part, s, addend)
         /\ SymbolValue(part, s, addend - n) = SymbolValue(part, s, addend) - n
<1>1. CASE s \in Resolved
  <2>1. Value[s] \in Nat /\ SizeOf[s] \in Nat /\ PageSize \in Nat \ {0}
    BY <1>1, SymbolAssumption
  <2>2. PICK z \in Int : z = PartOf(part, s)
    BY <2>1 DEF PartOf, Part
  <2> QED
    BY <1>1, <2>2 DEF SymbolValue
<1>2. CASE s \notin Resolved
  BY <1>2 DEF SymbolValue
<1> QED
  BY <1>1, <1>2

----------------------------------------------------------------------------
(* What the linker computes for a list of relocations. *)

RelocType ==
  [op : Unary \cup Binary \cup Reverse \cup {"PUSH", "R_DATA"}, part : Part,
   symbol : Symbol \cup {NoSymbol}, addend : Int, offset : Nat]

\* The relocation r turns the stack s into t.
Calculates(r, s, t) ==
  \/ r.op = "PUSH" /\ t = Append(s, SymbolValue(r.part, r.symbol, r.addend))
  \/ /\ r.op \in Unary /\ Len(s) >= 1
     /\ t = [s EXCEPT ![Len(s)] = Apply1(r.op, @)]
  \/ /\ r.op \in Binary \cup Reverse /\ Len(s) >= 2
     /\ t = Append(Drop(s, 2),
              IF r.op \in Reverse THEN Apply2(Forward[r.op], s[Len(s)], s[Len(s) - 1])
              ELSE Apply2(r.op, s[Len(s) - 1], s[Len(s)]))

\* It is the last of its location, which gets the value that is on the stack or,
\* when there is none, its own.
Found(r, s) == IF s = <<>> THEN SymbolValue(r.part, r.symbol, r.addend) ELSE s[1]

Does(r, s, t, f, g) ==
  \/ r.op # "R_DATA" /\ Calculates(r, s, t) /\ g = f
  \/ r.op = "R_DATA" /\ Len(s) <= 1 /\ t = <<>> /\ g = Append(f, Found(r, s))

Agrees(f, W) == Len(f) <= Len(W) /\ \A i \in 1 .. Len(f) : f[i] = W[i]

\* S and F are the stacks and the values fixed after each of the relocations R,
\* the expressions of which have the values W; at is the location that is being
\* assembled, high bounds the stack there and most at the earlier locations.
Kept(R, S, F, W, at, high, most) ==
  /\ R \in Seq(RelocType) /\ W \in Seq(Int)
  /\ at \in Nat /\ high \in Int /\ most \in Int
  /\ S \in [0 .. Len(R) -> Seq(Int)] /\ F \in [0 .. Len(R) -> Seq(Int)]
  /\ S[0] = <<>> /\ F[0] = <<>> /\ F[Len(R)] = W
  /\ \A k \in 1 .. Len(R) :
       /\ Does(R[k], S[k - 1], S[k], F[k - 1], F[k])
       /\ R[k].offset <= at
       /\ R[k].op = "R_DATA" => R[k].offset < at
       /\ 3 * (Len(S[k]) - 1) <= most \/ 3 * (Len(S[k]) - 1) <= high
  /\ \A k \in 1 .. Len(R) - 1 :
       R[k].op = "R_DATA" <=> R[k].offset # R[k + 1].offset
  /\ \A k \in 0 .. Len(R) : Agrees(F[k], W)
  /\ Len(R) > 0 /\ R[Len(R)].op # "R_DATA" => R[Len(R)].offset = at

\* The relocations R leave s on the stack.
Ready(R, s, W, at, high, most) ==
  \E S, F : Kept(R, S, F, W, at, high, most) /\ S[Len(R)] = s

LEMMA ReadyTypes ==
  ASSUME NEW R, NEW s, NEW W, NEW at, NEW high, NEW most, Ready(R, s, W, at, high, most)
  PROVE  /\ R \in Seq(RelocType) /\ W \in Seq(Int) /\ s \in Seq(Int)
         /\ at \in Nat /\ high \in Int /\ most \in Int
<1>1. PICK S, F : Kept(R, S, F, W, at, high, most) /\ S[Len(R)] = s
  BY DEF Ready
<1> QED
  BY <1>1 DEF Kept

LEMMA CalculatesSomething ==
  ASSUME NEW s \in Seq(Int), NEW r, NEW t, Calculates(r, s, t)
  PROVE  t # <<>>
<1>1. ASSUME NEW q \in Seq(Int), NEW x
      PROVE  Append(q, x) # <<>>
  <2>1. q \in Seq(Int \cup {x}) /\ x \in Int \cup {x}
    OBVIOUS
  <2> QED
    BY <2>1, AppendProperties
<1>2. CASE r.op = "PUSH" /\ t = Append(s, SymbolValue(r.part, r.symbol, r.addend))
  BY <1>1, <1>2
<1>3. CASE Len(s) >= 1 /\ t = [s EXCEPT ![Len(s)] = Apply1(r.op, @)]
  <2>1. Len(s) \in Nat
    OBVIOUS
  <2>2. DOMAIN t = 1 .. Len(s)
    BY <1>3
  <2>3. 1 \in DOMAIN t
    BY <1>3, <2>1, <2>2
  <2> QED
    BY <2>3
<1>4. CASE Len(s) >= 2 /\ \E x : t = Append(Drop(s, 2), x)
  <2>1. Drop(s, 2) \in Seq(Int)
    BY <1>4 DEF Drop
  <2> QED
    BY <1>1, <1>4, <2>1
<1> QED
  BY <1>2, <1>3, <1>4 DEF Calculates

\* One more relocation of the same location.
LEMMA Calculated ==
  ASSUME NEW R, NEW s, NEW W, NEW at, NEW high, NEW most, Ready(R, s, W, at, high, most),
         NEW r \in RelocType, NEW t \in Seq(Int), Calculates(r, s, t), r.op # "R_DATA",
         r.offset = at,
         NEW high2 \in Int, high <= high2, 3 * (Len(t) - 1) <= high2
  PROVE  Ready(Append(R, r), t, W, at, high2, most)
<1>1. PICK S, F : Kept(R, S, F, W, at, high, most) /\ S[Len(R)] = s
  BY DEF Ready
<1>2. PICK n \in Nat : n = Len(R)
  BY <1>1 DEF Kept
<1>3. PICK S2 : S2 = [k \in 0 .. n + 1 |-> IF k = n + 1 THEN t ELSE S[k]]
  OBVIOUS
<1>4. PICK F2 : F2 = [k \in 0 .. n + 1 |-> IF k = n + 1 THEN W ELSE F[k]]
  OBVIOUS
<1>5. PICK R2 : R2 = Append(R, r)
  OBVIOUS
<1>6. /\ R2 \in Seq(RelocType) /\ Len(R2) = n + 1 /\ R2[n + 1] = r
      /\ \A k \in 1 .. n : R2[k] = R[k]
  BY <1>1, <1>2, <1>5 DEF Kept
<1>7. /\ W \in Seq(Int) /\ at \in Nat /\ high \in Int /\ most \in Int
      /\ S \in [0 .. n -> Seq(Int)] /\ F \in [0 .. n -> Seq(Int)]
      /\ S[0] = <<>> /\ F[0] = <<>> /\ F[n] = W /\ S[n] = s
  BY <1>1, <1>2 DEF Kept
<1>8. /\ S2 \in [0 .. n + 1 -> Seq(Int)] /\ F2 \in [0 .. n + 1 -> Seq(Int)]
      /\ S2[0] = <<>> /\ F2[0] = <<>> /\ F2[n + 1] = W /\ S2[n + 1] = t
      /\ \A k \in 0 .. n : S2[k] = S[k] /\ F2[k] = F[k]
  <2>1. \A k \in 0 .. n : k \in 0 .. n + 1 /\ k # n + 1
    OBVIOUS
  <2>2. n + 1 \in 0 .. n + 1 /\ 0 \in 0 .. n
    OBVIOUS
  <2>3. /\ F2[n + 1] = W /\ S2[n + 1] = t
        /\ \A k \in 0 .. n : S2[k] = S[k] /\ F2[k] = F[k]
    BY <1>3, <1>4, <2>1, <2>2
  <2>4. \A k \in 0 .. n + 1 : k = n + 1 \/ k \in 0 .. n
    OBVIOUS
  <2>5. \A k \in 0 .. n + 1 : S2[k] \in Seq(Int) /\ F2[k] \in Seq(Int)
    BY <1>7, <2>3, <2>4
  <2>6. S2 \in [0 .. n + 1 -> Seq(Int)] /\ F2 \in [0 .. n + 1 -> Seq(Int)]
    BY <1>3, <1>4, <2>5
  <2> QED
    BY <1>7, <2>2, <2>3, <2>6
<1>9. \A k \in 1 .. n : k - 1 \in 0 .. n /\ k \in 0 .. n
  OBVIOUS
<1>10. \A k \in 1 .. n + 1 :
         /\ Does(R2[k], S2[k - 1], S2[k], F2[k - 1], F2[k])
         /\ R2[k].offset <= at
         /\ R2[k].op = "R_DATA" => R2[k].offset < at
         /\ 3 * (Len(S2[k]) - 1) <= most \/ 3 * (Len(S2[k]) - 1) <= high2
  <2> TAKE k \in 1 .. n + 1
  <2>1. CASE k \in 1 .. n
    <3>1. /\ Does(R[k], S[k - 1], S[k], F[k - 1], F[k])
          /\ R[k].offset <= at
          /\ R[k].op = "R_DATA" => R[k].offset < at
          /\ 3 * (Len(S[k]) - 1) <= most \/ 3 * (Len(S[k]) - 1) <= high
      BY <1>1, <1>2, <2>1 DEF Kept
    <3>2. PICK l \in Int : l = 3 * (Len(S[k]) - 1)
      <4>1. Len(S[k]) \in Nat
        BY <1>7, <2>1
      <4> QED
        BY <4>1
    <3>3. /\ S2[k - 1] = S[k - 1] /\ F2[k - 1] = F[k - 1] /\ S2[k] = S[k] /\ F2[k] = F[k]
          /\ R2[k] = R[k]
      BY <1>6, <1>8, <1>9, <2>1
    <3>4. 3 * (Len(S2[k]) - 1) <= most \/ 3 * (Len(S2[k]) - 1) <= high2
      <4>1. l <= most \/ l <= high2
        <5>1. l <= most \/ l <= high
          BY <3>1, <3>2, Zenon
        <5> QED
          BY <1>7, <5>1
      <4> QED
        BY <3>2, <3>3, <4>1, Zenon
    <3> QED
      BY <3>1, <3>3, <3>4
  <2>2. CASE k = n + 1
    <3>1. k - 1 = n /\ n \in 0 .. n
      BY <2>2
    <3>2. Does(R2[k], S2[k - 1], S2[k], F2[k - 1], F2[k])
      BY <1>6, <1>7, <1>8, <2>2, <3>1 DEF Does
    <3>3. R2[k] = r /\ S2[k] = t /\ at <= at
      BY <1>6, <1>7, <1>8, <2>2
    <3> QED
      BY <3>2, <3>3, Zenon
  <2> QED
    BY <2>1, <2>2
<1>11. \A k \in 1 .. n : R2[k].op = "R_DATA" <=> R2[k].offset # R2[k + 1].offset
  <2> TAKE k \in 1 .. n
  <2>1. CASE k = n
    <3>1. /\ R[k].op = "R_DATA" => R[k].offset < at
          /\ R[k].op # "R_DATA" => R[k].offset = at
      BY <1>1, <1>2, <2>1 DEF Kept
    <3>2. R[k] \in RelocType /\ R2[k] = R[k] /\ R2[k + 1] = r
      BY <1>1, <1>2, <1>6, <2>1 DEF Kept
    <3>3. R[k].offset \in Nat
      BY <3>2 DEF RelocType
    <3>4. R[k].op = "R_DATA" <=> R[k].offset # at
      <4>1. PICK o \in Nat : o = R[k].offset
        BY <3>3
      <4>2. o < at => o # at
        BY <1>7
      <4> QED
        BY <3>1, <4>1, <4>2, Zenon
    <3> QED
      BY <3>2, <3>4
  <2>2. CASE k # n
    <3>1. k \in 1 .. Len(R) - 1 /\ k + 1 \in 1 .. n
      BY <1>2, <2>2
    <3>2. R[k].op = "R_DATA" <=> R[k].offset # R[k + 1].offset
      BY <1>1, <3>1 DEF Kept
    <3> QED
      BY <1>6, <3>1, <3>2
  <2> QED
    BY <2>1, <2>2
<1>12. \A k \in 0 .. n + 1 : Agrees(F2[k], W)
  <2> TAKE k \in 0 .. n + 1
  <2>1. CASE k \in 0 .. n
    BY <1>1, <1>2, <1>8, <2>1 DEF Kept
  <2>2. CASE k = n + 1
    BY <1>7, <1>8, <2>2 DEF Agrees
  <2> QED
    BY <2>1, <2>2
<1>13. Kept(R2, S2, F2, W, at, high2, most)
  BY <1>6, <1>7, <1>8, <1>10, <1>11, <1>12 DEF Kept
<1> QED
  BY <1>5, <1>6, <1>8, <1>13 DEF Ready

\* The last relocation of a location.
LEMMA Fixes ==
  ASSUME NEW R, NEW s, NEW W, NEW at, NEW high, NEW most, Ready(R, s, W, at, high, most),
         NEW r \in RelocType, r.op = "R_DATA", r.offset = at, Len(s) <= 1,
         NEW v \in Int, v = Found(r, s), high <= most, NEW high2 \in Int, 0 <= most
  PROVE  Ready(Append(R, r), <<>>, Append(W, v), at + 1, high2, most)
<1>1. PICK S, F : Kept(R, S, F, W, at, high, most) /\ S[Len(R)] = s
  BY DEF Ready
<1>2. PICK n \in Nat : n = Len(R)
  BY <1>1 DEF Kept
<1>3. PICK S2 : S2 = [k \in 0 .. n + 1 |-> IF k = n + 1 THEN <<>> ELSE S[k]]
  OBVIOUS
<1>14. PICK W2 : W2 = Append(W, v)
  OBVIOUS
<1>4. PICK F2 : F2 = [k \in 0 .. n + 1 |-> IF k = n + 1 THEN W2 ELSE F[k]]
  OBVIOUS
<1>5. PICK R2 : R2 = Append(R, r)
  OBVIOUS
<1>6. /\ R2 \in Seq(RelocType) /\ Len(R2) = n + 1 /\ R2[n + 1] = r
      /\ \A k \in 1 .. n : R2[k] = R[k]
  BY <1>1, <1>2, <1>5 DEF Kept
<1>7. /\ W \in Seq(Int) /\ at \in Nat /\ high \in Int /\ most \in Int
      /\ S \in [0 .. n -> Seq(Int)] /\ F \in [0 .. n -> Seq(Int)]
      /\ S[0] = <<>> /\ F[0] = <<>> /\ F[n] = W /\ S[n] = s
  BY <1>1, <1>2 DEF Kept
<1>15. /\ W2 \in Seq(Int) /\ Len(W2) = Len(W) + 1
      /\ \A i \in 1 .. Len(W) : W2[i] = W[i]
  BY <1>7, <1>14
<1>16. Len(W) \in Nat
  BY <1>7
<1>8. /\ S2 \in [0 .. n + 1 -> Seq(Int)] /\ F2 \in [0 .. n + 1 -> Seq(Int)]
      /\ S2[0] = <<>> /\ F2[0] = <<>> /\ F2[n + 1] = W2 /\ S2[n + 1] = <<>>
      /\ \A k \in 0 .. n : S2[k] = S[k] /\ F2[k] = F[k]
  <2>1. \A k \in 0 .. n : k \in 0 .. n + 1 /\ k # n + 1
    OBVIOUS
  <2>2. n + 1 \in 0 .. n + 1 /\ 0 \in 0 .. n
    OBVIOUS
  <2>3. /\ F2[n + 1] = W2 /\ S2[n + 1] = <<>>
        /\ \A k \in 0 .. n : S2[k] = S[k] /\ F2[k] = F[k]
    BY <1>3, <1>4, <2>1, <2>2
  <2>4. \A k \in 0 .. n + 1 : k = n + 1 \/ k \in 0 .. n
    OBVIOUS
  <2>5. \A k \in 0 .. n + 1 : S2[k] \in Seq(Int) /\ F2[k] \in Seq(Int)
    <3>1. \A k \in 0 .. n : S2[k] \in Seq(Int) /\ F2[k] \in Seq(Int)
      BY <1>7, <2>3
    <3>2. S2[n + 1] \in Seq(Int) /\ F2[n + 1] \in Seq(Int)
      BY <1>15, <2>3
    <3> QED
      BY <2>4, <3>1, <3>2, Zenon
  <2>6. S2 \in [0 .. n + 1 -> Seq(Int)] /\ F2 \in [0 .. n + 1 -> Seq(Int)]
    BY <1>3, <1>4, <2>5
  <2> QED
    BY <1>7, <2>2, <2>3, <2>6
<1>9. \A k \in 1 .. n : k - 1 \in 0 .. n /\ k \in 0 .. n
  OBVIOUS
<1>10. \A k \in 1 .. n + 1 :
         /\ Does(R2[k], S2[k - 1], S2[k], F2[k - 1], F2[k])
         /\ R2[k].offset <= at + 1
         /\ R2[k].op = "R_DATA" => R2[k].offset < at + 1
         /\ 3 * (Len(S2[k]) - 1) <= most \/ 3 * (Len(S2[k]) - 1) <= high2
  <2> TAKE k \in 1 .. n + 1
  <2>1. CASE k \in 1 .. n
    <3>1. /\ Does(R[k], S[k - 1], S[k], F[k - 1], F[k])
          /\ R[k].offset <= at
          /\ 3 * (Len(S[k]) - 1) <= most \/ 3 * (Len(S[k]) - 1) <= high
      BY <1>1, <1>2, <2>1 DEF Kept
    <3>2. PICK l \in Int : l = 3 * (Len(S[k]) - 1)
      <4>1. Len(S[k]) \in Nat
        BY <1>7, <2>1
      <4> QED
        BY <4>1
    <3>3. /\ S2[k - 1] = S[k - 1] /\ F2[k - 1] = F[k - 1] /\ S2[k] = S[k] /\ F2[k] = F[k]
          /\ R2[k] = R[k]
      BY <1>6, <1>8, <1>9, <2>1
    <3>4. 3 * (Len(S2[k]) - 1) <= most
      <4>1. l <= most
        <5>1. l <= most \/ l <= high
          BY <3>1, <3>2, Zenon
        <5> QED
          BY <1>7, <5>1
      <4> QED
        BY <3>2, <3>3, <4>1, Zenon
    <3>5. R[k].offset \in Nat
      <4>1. R[k] \in RelocType
        BY <1>1, <1>2, <2>1 DEF Kept
      <4> QED
        BY <4>1 DEF RelocType
    <3>6. R[k].offset <= at + 1 /\ R[k].offset < at + 1
      BY <1>7, <3>1, <3>5
    <3> QED
      BY <3>1, <3>3, <3>4, <3>6
  <2>2. CASE k = n + 1
    <3>1. k - 1 = n /\ n \in 0 .. n
      BY <2>2
    <3>2. Does(R2[k], S2[k - 1], S2[k], F2[k - 1], F2[k])
      BY <1>6, <1>7, <1>8, <1>14, <2>2, <3>1 DEF Does
    <3>3. R2[k] = r /\ S2[k] = <<>> /\ at <= at + 1 /\ at < at + 1
      BY <1>6, <1>7, <1>8, <2>2
    <3>4. 3 * (Len(S2[k]) - 1) <= most
      <4>1. Len(S2[k]) = 0
        BY <3>3
      <4> QED
        BY <1>7, <4>1
    <3> QED
      BY <3>2, <3>3, <3>4, Zenon
  <2> QED
    BY <2>1, <2>2
<1>11. \A k \in 1 .. n : R2[k].op = "R_DATA" <=> R2[k].offset # R2[k + 1].offset
  <2> TAKE k \in 1 .. n
  <2>1. CASE k = n
    <3>1. /\ R[k].op = "R_DATA" => R[k].offset < at
          /\ R[k].op # "R_DATA" => R[k].offset = at
      BY <1>1, <1>2, <2>1 DEF Kept
    <3>2. R[k] \in RelocType /\ R2[k] = R[k] /\ R2[k + 1] = r
      BY <1>1, <1>2, <1>6, <2>1 DEF Kept
    <3>3. R[k].offset \in Nat
      BY <3>2 DEF RelocType
    <3>4. R[k].op = "R_DATA" <=> R[k].offset # at
      <4>1. PICK o \in Nat : o = R[k].offset
        BY <3>3
      <4>2. o < at => o # at
        BY <1>7
      <4> QED
        BY <3>1, <4>1, <4>2, Zenon
    <3> QED
      BY <3>2, <3>4
  <2>2. CASE k # n
    <3>1. k \in 1 .. Len(R) - 1 /\ k + 1 \in 1 .. n
      BY <1>2, <2>2
    <3>2. R[k].op = "R_DATA" <=> R[k].offset # R[k + 1].offset
      BY <1>1, <3>1 DEF Kept
    <3> QED
      BY <1>6, <3>1, <3>2
  <2> QED
    BY <2>1, <2>2
<1>12. \A k \in 0 .. n + 1 : Agrees(F2[k], W2)
  <2> TAKE k \in 0 .. n + 1
  <2>1. CASE k \in 0 .. n
    <3>1. Agrees(F[k], W)
      BY <1>1, <1>2, <2>1 DEF Kept
    <3>2. Len(F[k]) \in Nat
      BY <1>7, <2>1
    <3>3. Len(F[k]) <= Len(W2) /\ \A i \in 1 .. Len(F[k]) : i \in 1 .. Len(W)
      BY <1>15, <1>16, <3>1, <3>2 DEF Agrees
    <3>4. Agrees(F[k], W2)
      BY <1>15, <3>1, <3>3 DEF Agrees
    <3> QED
      BY <1>8, <2>1, <3>4
  <2>2. CASE k = n + 1
    <3>1. Len(W2) \in Nat
      BY <1>15
    <3> QED
      BY SMTT(30), <1>8, <2>2, <3>1 DEF Agrees
  <2> QED
    BY <2>1, <2>2
<1>13. Kept(R2, S2, F2, W2, at + 1, high2, most)
  <2>1. at + 1 \in Nat /\ R2[n + 1].op = "R_DATA" /\ (n + 1) - 1 = n
    BY <1>6, <1>7
  <2> QED
    BY <1>6, <1>7, <1>8, <1>15, <1>10, <1>11, <1>12, <2>1 DEF Kept
<1> QED
  BY <1>5, <1>6, <1>8, <1>14, <1>13 DEF Ready

\* The bound on the stack may grow.
LEMMA Higher ==
  ASSUME NEW R, NEW s, NEW W, NEW at, NEW high, NEW most, Ready(R, s, W, at, high, most),
         NEW high2 \in Int, high <= high2
  PROVE  Ready(R, s, W, at, high2, most)
<1>1. PICK S, F : Kept(R, S, F, W, at, high, most) /\ S[Len(R)] = s
  BY DEF Ready
<1>2. \A k \in 1 .. Len(R) :
        3 * (Len(S[k]) - 1) <= most \/ 3 * (Len(S[k]) - 1) <= high2
  <2> TAKE k \in 1 .. Len(R)
  <2>1. 3 * (Len(S[k]) - 1) <= most \/ 3 * (Len(S[k]) - 1) <= high
    BY <1>1 DEF Kept
  <2>2. Len(S[k]) \in Nat /\ high \in Int /\ most \in Int
    BY <1>1 DEF Kept
  <2> QED
    BY <2>1, <2>2
<1>3. Kept(R, S, F, W, at, high2, most)
  BY <1>1, <1>2 DEF Kept
<1> QED
  BY <1>1, <1>3 DEF Ready

\* A location without relocations.
LEMMA Passed ==
  ASSUME NEW R, NEW W, NEW at, NEW high, NEW most, Ready(R, <<>>, W, at, high, most),
         high <= most, NEW high2 \in Int
  PROVE  Ready(R, <<>>, W, at + 1, high2, most)
<1>1. PICK S, F : Kept(R, S, F, W, at, high, most) /\ S[Len(R)] = <<>>
  BY DEF Ready
<1>2. PICK n \in Nat : n = Len(R)
  BY <1>1 DEF Kept
<1>3. \A k \in 1 .. n :
        /\ 3 * (Len(S[k]) - 1) <= most
        /\ R[k].offset <= at + 1 /\ (R[k].op = "R_DATA" => R[k].offset < at + 1)
  <2> TAKE k \in 1 .. n
  <2>1. /\ 3 * (Len(S[k]) - 1) <= most \/ 3 * (Len(S[k]) - 1) <= high
        /\ R[k].offset <= at
    BY <1>1, <1>2 DEF Kept
  <2>2. Len(S[k]) \in Nat /\ high \in Int /\ most \in Int /\ at \in Nat
    BY <1>1, <1>2 DEF Kept
  <2>3. R[k].offset \in Nat
    <3>1. R[k] \in RelocType
      BY <1>1, <1>2 DEF Kept
    <3> QED
      BY <3>1 DEF RelocType
  <2> QED
    BY <2>1, <2>2, <2>3
<1>4. n > 0 => R[n].op = "R_DATA"
  <2> SUFFICES ASSUME n > 0, R[n].op # "R_DATA" PROVE FALSE
    OBVIOUS
  <2>1. n \in 1 .. Len(R) /\ n - 1 \in 0 .. Len(R)
    BY <1>2
  <2>2. Does(R[n], S[n - 1], S[n], F[n - 1], F[n])
    BY <1>1, <2>1 DEF Kept
  <2>3. Calculates(R[n], S[n - 1], <<>>)
    BY <1>1, <1>2, <2>2 DEF Does
  <2>4. S[n - 1] \in Seq(Int)
    BY <1>1, <2>1 DEF Kept
  <2> QED
    BY <2>3, <2>4, CalculatesSomething
<1>5. Kept(R, S, F, W, at + 1, high2, most)
  <2>1. at + 1 \in Nat
    BY <1>1 DEF Kept
  <2>2. \A k \in 1 .. n :
          /\ Does(R[k], S[k - 1], S[k], F[k - 1], F[k])
          /\ R[k].offset <= at + 1
          /\ R[k].op = "R_DATA" => R[k].offset < at + 1
          /\ 3 * (Len(S[k]) - 1) <= most \/ 3 * (Len(S[k]) - 1) <= high2
    BY <1>1, <1>2, <1>3 DEF Kept
  <2> QED
    BY <1>1, <1>2, <1>4, <2>1, <2>2 DEF Kept
<1> QED
  BY <1>1, <1>5 DEF Ready

----------------------------------------------------------------------------
(* The operands bison holds and the values that wait on the stack. *)

OperandType ==
  [type : {"PUSH", "SYMBOLIC"}, part : Part, symbol : Symbol \cup {NoSymbol},
   addend : Int, value : Int]

\* An operand the linker still has to push has the value it will push.
IsLeaf(e) == IsPush(e) /\ e.value = SymbolValue(e.part, e.symbol, e.addend)

\* c counts the operands of q the linker has computed; their values are s.
Counts(c, q, s) ==
  /\ c \in [0 .. Len(q) -> Nat]
  /\ c[0] = 0 /\ c[Len(q)] = Len(s)
  /\ \A k \in 1 .. Len(q) :
       IF IsPush(q[k]) THEN IsLeaf(q[k]) /\ c[k] = c[k - 1]
       ELSE c[k] = c[k - 1] + 1 /\ s[c[k]] = q[k].value
  /\ \A k \in 0 .. Len(q) : c[k] <= k
  /\ \A j, k \in 0 .. Len(q) : j <= k => c[j] <= c[k]

Waiting(q, s) ==
  q \in Seq(OperandType) /\ s \in Seq(Int) /\ \E c : Counts(c, q, s)

\* Everything between two reductions of the parser.
Parsed(R, q, W, at, n, most) ==
  /\ n \in Nat /\ n <= most
  /\ \E s : /\ Ready(R, s, W, at, n + Len(q) - 1, most)
            /\ Waiting(q, s)
            /\ Len(q) + Len(s) <= n

LEMMA FewWait ==
  ASSUME NEW q, NEW s, Waiting(q, s)
  PROVE  Len(q) \in Nat /\ Len(s) \in Nat /\ Len(s) <= Len(q)
<1>1. PICK c : Counts(c, q, s)
  BY DEF Waiting
<1>2. Len(q) \in Nat /\ Len(s) \in Nat
  BY DEF Waiting
<1> QED
  BY <1>1, <1>2 DEF Counts

LEMMA LeafJoins ==
  ASSUME NEW q, NEW s, Waiting(q, s), NEW e \in OperandType, IsLeaf(e)
  PROVE  Waiting(Append(q, e), s)
<1>1. PICK c : Counts(c, q, s)
  BY DEF Waiting
<1>2. PICK n \in Nat : n = Len(q)
  BY DEF Waiting
<1>3. PICK p : p = Append(q, e)
  OBVIOUS
<1>4. /\ p \in Seq(OperandType) /\ Len(p) = n + 1 /\ p[n + 1] = e
      /\ \A k \in 1 .. n : p[k] = q[k]
  BY <1>2, <1>3 DEF Waiting
<1>5. PICK d : d = [k \in 0 .. n + 1 |-> IF k = n + 1 THEN c[n] ELSE c[k]]
  OBVIOUS
<1>6. c \in [0 .. n -> Nat] /\ c[0] = 0 /\ c[n] = Len(s) /\ c[n] <= n /\ c[n] \in Nat
  BY <1>1, <1>2 DEF Counts
<1>7. /\ d \in [0 .. n + 1 -> Nat] /\ d[0] = 0 /\ d[n + 1] = Len(s)
      /\ \A k \in 0 .. n : d[k] = c[k]
  BY <1>5, <1>6
<1>8. \A k \in 1 .. n + 1 :
        IF IsPush(p[k]) THEN IsLeaf(p[k]) /\ d[k] = d[k - 1]
        ELSE d[k] = d[k - 1] + 1 /\ s[d[k]] = p[k].value
  <2> TAKE k \in 1 .. n + 1
  <2>1. CASE k \in 1 .. n
    <3>1. k - 1 \in 0 .. n /\ k \in 0 .. n
      BY <2>1
    <3>2. IF IsPush(q[k]) THEN IsLeaf(q[k]) /\ c[k] = c[k - 1]
          ELSE c[k] = c[k - 1] + 1 /\ s[c[k]] = q[k].value
      BY <1>1, <1>2, <2>1 DEF Counts
    <3> QED
      BY <1>4, <1>7, <2>1, <3>1, <3>2
  <2>2. CASE k = n + 1
    <3>1. k - 1 = n /\ n \in 0 .. n
      BY <2>2
    <3> QED
      BY <1>4, <1>6, <1>7, <2>2, <3>1 DEF IsLeaf
  <2> QED
    BY <2>1, <2>2
<1>9. \A k \in 0 .. n + 1 : d[k] <= k
  <2> TAKE k \in 0 .. n + 1
  <2>1. CASE k \in 0 .. n
    BY <1>1, <1>2, <1>7, <2>1 DEF Counts
  <2>2. CASE k = n + 1
    BY <1>6, <1>7, <2>2
  <2> QED
    BY <2>1, <2>2
<1>10. \A j, k \in 0 .. n + 1 : j <= k => d[j] <= d[k]
  <2> TAKE j, k \in 0 .. n + 1
  <2>1. \A i, l \in 0 .. n : i <= l => c[i] <= c[l]
    BY <1>1, <1>2 DEF Counts
  <2>2. CASE k \in 0 .. n
    BY <1>7, <2>1, <2>2
  <2>3. CASE k = n + 1 /\ j \in 0 .. n
    <3>1. d[j] = c[j] /\ d[k] = c[n] /\ c[j] <= c[n]
      BY <1>6, <1>7, <2>1, <2>3
    <3> QED
      BY <3>1
  <2>4. CASE k = n + 1 /\ j = n + 1
    BY <1>6, <1>7, <2>4
  <2> QED
    BY <2>2, <2>3, <2>4
<1>11. Counts(d, p, s)
  BY <1>4, <1>7, <1>8, <1>9, <1>10 DEF Counts
<1> QED
  BY <1>3, <1>4, <1>11 DEF Waiting

LEMMA ResultJoins ==
  ASSUME NEW q, NEW s, Waiting(q, s), NEW e \in OperandType, ~ IsPush(e)
  PROVE  Waiting(Append(q, e), Append(s, e.value))
<1>1. PICK c : Counts(c, q, s)
  BY DEF Waiting
<1>2. PICK n \in Nat : n = Len(q)
  BY DEF Waiting
<1>3. PICK p, t : p = Append(q, e) /\ t = Append(s, e.value)
  OBVIOUS
<1>4. /\ p \in Seq(OperandType) /\ Len(p) = n + 1 /\ p[n + 1] = e
      /\ \A k \in 1 .. n : p[k] = q[k]
  BY <1>2, <1>3 DEF Waiting
<1>5. e.value \in Int
  BY DEF OperandType
<1>6. /\ t \in Seq(Int) /\ Len(t) = Len(s) + 1 /\ t[Len(s) + 1] = e.value
      /\ \A i \in 1 .. Len(s) : t[i] = s[i]
      /\ Len(s) \in Nat
  BY <1>3, <1>5 DEF Waiting
<1>7. PICK d : d = [k \in 0 .. n + 1 |-> IF k = n + 1 THEN c[n] + 1 ELSE c[k]]
  OBVIOUS
<1>8. c \in [0 .. n -> Nat] /\ c[0] = 0 /\ c[n] = Len(s) /\ c[n] <= n /\ c[n] \in Nat
  BY <1>1, <1>2 DEF Counts
<1>9. /\ d \in [0 .. n + 1 -> Nat] /\ d[0] = 0 /\ d[n + 1] = Len(s) + 1
      /\ \A k \in 0 .. n : d[k] = c[k]
  BY <1>7, <1>8
<1>10. \A i, l \in 0 .. n : i <= l => c[i] <= c[l]
  BY <1>1, <1>2 DEF Counts
<1>11. \A k \in 1 .. n + 1 :
         IF IsPush(p[k]) THEN IsLeaf(p[k]) /\ d[k] = d[k - 1]
         ELSE d[k] = d[k - 1] + 1 /\ t[d[k]] = p[k].value
  <2> TAKE k \in 1 .. n + 1
  <2>1. CASE k \in 1 .. n
    <3>1. k - 1 \in 0 .. n /\ k \in 0 .. n
      BY <2>1
    <3>2. IF IsPush(q[k]) THEN IsLeaf(q[k]) /\ c[k] = c[k - 1]
          ELSE c[k] = c[k - 1] + 1 /\ s[c[k]] = q[k].value
      BY <1>1, <1>2, <2>1 DEF Counts
    <3>3. c[k] <= Len(s) /\ c[k] \in Nat /\ c[k - 1] \in Nat
      BY <1>8, <1>10, <3>1
    <3>4. c[k] = c[k - 1] + 1 => t[c[k]] = s[c[k]]
      BY <1>6, <3>3
    <3> QED
      BY <1>4, <1>9, <2>1, <3>1, <3>2, <3>4
  <2>2. CASE k = n + 1
    <3>1. k - 1 = n /\ n \in 0 .. n
      BY <2>2
    <3> QED
      BY <1>4, <1>6, <1>8, <1>9, <2>2, <3>1
  <2> QED
    BY <2>1, <2>2
<1>12. \A k \in 0 .. n + 1 : d[k] <= k
  <2> TAKE k \in 0 .. n + 1
  <2>1. CASE k \in 0 .. n
    BY <1>1, <1>2, <1>9, <2>1 DEF Counts
  <2>2. CASE k = n + 1
    BY <1>8, <1>9, <2>2
  <2> QED
    BY <2>1, <2>2
<1>13. \A j, k \in 0 .. n + 1 : j <= k => d[j] <= d[k]
  <2> TAKE j, k \in 0 .. n + 1
  <2>1. CASE k \in 0 .. n
    BY <1>9, <1>10, <2>1
  <2>2. CASE k = n + 1 /\ j \in 0 .. n
    <3>1. d[j] = c[j] /\ d[k] = Len(s) + 1 /\ c[j] <= c[n] /\ c[j] \in Nat
      BY <1>8, <1>9, <1>10, <2>2
    <3> QED
      BY <1>6, <1>8, <3>1
  <2>3. CASE k = n + 1 /\ j = n + 1
    BY <1>6, <1>9, <2>3
  <2> QED
    BY <2>1, <2>2, <2>3
<1>14. Counts(d, p, t)
  BY <1>4, <1>6, <1>9, <1>11, <1>12, <1>13 DEF Counts
<1> QED
  BY <1>3, <1>4, <1>6, <1>14 DEF Waiting

LEMMA Front ==
  ASSUME NEW S, NEW q \in Seq(S), NEW l \in Nat, l <= Len(q)
  PROVE  /\ SubSeq(q, 1, l) \in Seq(S) /\ Len(SubSeq(q, 1, l)) = l
         /\ \A i \in 1 .. l : SubSeq(q, 1, l)[i] = q[i]
OBVIOUS

\* The values below the last operand.
Below1(q, s, u) ==
  /\ Waiting(Drop(q, 1), u)
  /\ Len(Drop(q, 1)) = Len(q) - 1
  /\ q[Len(q)] \in OperandType
  /\ IF IsPush(q[Len(q)]) THEN IsLeaf(q[Len(q)]) /\ s = u
     ELSE s = Append(u, q[Len(q)].value)

LEMMA LastLeaves ==
  ASSUME NEW q, NEW s, Waiting(q, s), Len(q) >= 1
  PROVE  \E u : Below1(q, s, u)
<1>1. PICK c : Counts(c, q, s)
  BY DEF Waiting
<1>2. PICK n \in Nat : n = Len(q) /\ n >= 1
  BY DEF Waiting
<1>3. q \in Seq(OperandType) /\ s \in Seq(Int) /\ Len(s) \in Nat
  BY DEF Waiting
<1>4. PICK p : p = Drop(q, 1)
  OBVIOUS
<1>5. PICK m \in Nat : m = n - 1
  BY <1>2
<1>6. /\ p \in Seq(OperandType) /\ Len(p) = m /\ m \in 0 .. n
      /\ \A k \in 1 .. m : p[k] = q[k] /\ k \in 1 .. n /\ k \in 0 .. m /\ k - 1 \in 0 .. m
  BY <1>2, <1>3, <1>4, <1>5 DEF Drop
<1>7. PICK e : e = q[n]
  OBVIOUS
<1>8. e \in OperandType /\ e.value \in Int
  <2>1. e \in OperandType
    BY <1>2, <1>3, <1>7
  <2> QED
    BY <2>1 DEF OperandType
<1>9. PICK d : d = [k \in 0 .. m |-> c[k]]
  OBVIOUS
<1>10. c \in [0 .. n -> Nat] /\ c[0] = 0 /\ c[n] = Len(s)
  BY <1>1, <1>2 DEF Counts
<1>11. d \in [0 .. m -> Nat] /\ d[0] = 0 /\ \A k \in 0 .. m : d[k] = c[k] /\ k \in 0 .. n
  BY <1>5, <1>9, <1>10
<1>12. IF IsPush(e) THEN IsLeaf(e) /\ c[n] = c[m] ELSE c[n] = c[m] + 1 /\ s[c[n]] = e.value
  BY <1>1, <1>2, <1>5, <1>7 DEF Counts
<1>13. \A k \in 0 .. m : d[k] <= k /\ d[k] <= c[m] /\ d[k] \in Nat
  BY <1>1, <1>2, <1>6, <1>11 DEF Counts
<1>14. \A j, k \in 0 .. m : j <= k => d[j] <= d[k]
  BY <1>1, <1>2, <1>11 DEF Counts
<1>15. \A k \in 1 .. m :
         IF IsPush(p[k]) THEN IsLeaf(p[k]) /\ d[k] = d[k - 1]
         ELSE d[k] = d[k - 1] + 1 /\ s[d[k]] = p[k].value
  <2> TAKE k \in 1 .. m
  <2>1. IF IsPush(q[k]) THEN IsLeaf(q[k]) /\ c[k] = c[k - 1]
        ELSE c[k] = c[k - 1] + 1 /\ s[c[k]] = q[k].value
    BY <1>1, <1>2, <1>6 DEF Counts
  <2> QED
    BY <1>6, <1>11, <2>1
<1>16. CASE IsPush(e)
  <2>1. Counts(d, p, s)
    <3>1. d[m] = Len(s)
      BY <1>6, <1>10, <1>11, <1>12, <1>16
    <3> QED
      BY <1>6, <1>11, <1>13, <1>14, <1>15, <3>1 DEF Counts
  <2>2. Waiting(p, s)
    BY <1>3, <1>6, <2>1 DEF Waiting
  <2>3. Below1(q, s, s)
    BY <1>2, <1>4, <1>5, <1>6, <1>7, <1>8, <1>12, <1>16, <2>2 DEF Below1
  <2> QED
    BY <2>3
<1>17. CASE ~ IsPush(e)
  <2>1. PICK l \in Nat : l = c[m]
    BY <1>6, <1>10
  <2>2. Len(s) = l + 1 /\ s[l + 1] = e.value
    BY <1>10, <1>12, <1>17, <2>1
  <2>3. PICK u : u = SubSeq(s, 1, l)
    OBVIOUS
  <2>4. u \in Seq(Int) /\ Len(u) = l /\ \A i \in 1 .. l : u[i] = s[i]
    BY <1>3, <2>2, <2>3
  <2>5. s = Append(u, e.value)
    BY <1>3, <1>8, <2>2, <2>4
  <2>6. \A k \in 1 .. m :
          IF IsPush(p[k]) THEN IsLeaf(p[k]) /\ d[k] = d[k - 1]
          ELSE d[k] = d[k - 1] + 1 /\ u[d[k]] = p[k].value
    <3> TAKE k \in 1 .. m
    <3>1. d[k] \in Nat /\ d[k - 1] \in Nat /\ d[k] <= l
      BY <1>6, <1>13, <2>1
    <3>2. d[k] = d[k - 1] + 1 => u[d[k]] = s[d[k]]
      BY <2>4, <3>1
    <3> QED
      BY <1>15, <3>2
  <2>7. Counts(d, p, u)
    <3>1. d[m] = Len(u)
      BY <1>6, <1>11, <2>1, <2>4
    <3> QED
      BY <1>6, <1>11, <1>13, <1>14, <2>6, <3>1 DEF Counts
  <2>8. Waiting(p, u)
    BY <1>6, <2>4, <2>7 DEF Waiting
  <2>9. Below1(q, s, u)
    BY <1>2, <1>4, <1>5, <1>6, <1>7, <1>8, <1>17, <2>5, <2>8 DEF Below1
  <2> QED
    BY <2>9
<1> QED
  BY <1>16, <1>17

----------------------------------------------------------------------------
(* The reductions of the parser. *)

\* Relocations of the location at.
RelocAt(at, op, part, symbol, addend) ==
  [op |-> op, part |-> part, symbol |-> symbol, addend |-> addend, offset |-> at]

PushAt(at, e) == RelocAt(at, "PUSH", e.part, e.symbol, e.addend)
OpAt(at, op) == RelocAt(at, op, "SYMBOL", NoSymbol, 0)

LEMMA LeafIsRead ==
  ASSUME NEW R, NEW q, NEW W, NEW at, NEW n, NEW most, Parsed(R, q, W, at, n, most),
         NEW e \in OperandType, IsLeaf(e), n < most
  PROVE  Parsed(R, Append(q, e), W, at, n + 1, most)
<1>1. PICK s : Ready(R, s, W, at, n + Len(q) - 1, most) /\ Waiting(q, s) /\ Len(q) + Len(s) <= n
  BY DEF Parsed
<1>2. Len(q) \in Nat /\ Len(s) \in Nat /\ n \in Nat /\ most \in Int
  BY <1>1, FewWait, ReadyTypes DEF Parsed
<1>3. Waiting(Append(q, e), s)
  BY <1>1, LeafJoins
<1>4. Len(Append(q, e)) = Len(q) + 1
  BY <1>1 DEF Waiting
<1>5. Ready(R, s, W, at, (n + 1) + Len(Append(q, e)) - 1, most)
  <2>5. n + Len(q) - 1 \in Int
    BY <1>2
  <2>1. PICK h \in Int : h = n + Len(q) - 1
    BY <2>5, Zenon
  <2>4. PICK h2 \in Int : h2 = (n + 1) + Len(Append(q, e)) - 1
    BY <1>2, <1>4
  <2>2. h <= h2
    BY <1>2, <1>4, <2>1, <2>4
  <2>3. Ready(R, s, W, at, h2, most)
    BY <1>1, <2>1, <2>2, Higher
  <2> QED
    BY <2>4, <2>3
<1> QED
  BY <1>1, <1>2, <1>3, <1>4, <1>5 DEF Parsed

\* Folding: the leaf e takes the place of one operand, or of two.
LEMMA LeafIsFolded ==
  ASSUME NEW R, NEW q, NEW W, NEW at, NEW n, NEW most, Parsed(R, q, W, at, n, most),
         Len(q) >= 1, IsPush(q[Len(q)]), NEW e \in OperandType, IsLeaf(e), n < most
  PROVE  Parsed(R, Append(Drop(q, 1), e), W, at, n + 1, most)
<1>1. PICK s : Ready(R, s, W, at, n + Len(q) - 1, most) /\ Waiting(q, s) /\ Len(q) + Len(s) <= n
  BY DEF Parsed
<1>2. Len(q) \in Nat /\ Len(s) \in Nat /\ n \in Nat /\ most \in Int
  BY <1>1, FewWait, ReadyTypes DEF Parsed
<1>3. Waiting(Drop(q, 1), s) /\ Len(Drop(q, 1)) = Len(q) - 1
  BY <1>1, LastLeaves DEF Below1
<1>4. PICK p : p = Append(Drop(q, 1), e)
  OBVIOUS
<1>5. Waiting(p, s)
  BY <1>3, <1>4, LeafJoins
<1>6. Len(p) = Len(q)
  BY <1>2, <1>3, <1>4 DEF Waiting
<1>7. Ready(R, s, W, at, (n + 1) + Len(p) - 1, most)
  <2>5. n + Len(q) - 1 \in Int
    BY <1>2
  <2>1. PICK h \in Int : h = n + Len(q) - 1
    BY <2>5, Zenon
  <2>4. PICK h2 \in Int : h2 = (n + 1) + Len(p) - 1
    BY <1>2, <1>6
  <2>2. h <= h2
    BY <1>2, <1>6, <2>1, <2>4
  <2>3. Ready(R, s, W, at, h2, most)
    BY <1>1, <2>1, <2>2, Higher
  <2> QED
    BY <2>3, <2>4
<1>8. Len(p) + Len(s) <= n + 1
  BY <1>1, <1>2, <1>6
<1>9. n + 1 \in Nat /\ n + 1 <= most
  BY <1>2
<1> QED
  BY <1>4, <1>5, <1>7, <1>8, <1>9 DEF Parsed

LEMMA TwoLeave ==
  ASSUME NEW q, NEW s, Waiting(q, s), Len(q) >= 2
  PROVE  \E u, w : /\ Below1(q, s, w) /\ Below1(Drop(q, 1), w, u)
                   /\ Waiting(Drop(q, 2), u) /\ Len(Drop(q, 2)) = Len(q) - 2
                   /\ Drop(q, 1)[Len(Drop(q, 1))] = q[Len(q) - 1]
<1>1. q \in Seq(OperandType) /\ Len(q) \in Nat
  BY DEF Waiting
<1>2. PICK w : Below1(q, s, w)
  BY <1>1, LastLeaves
<1>3. PICK p : p = Drop(q, 1)
  OBVIOUS
<1>4. p \in Seq(OperandType) /\ Len(p) = Len(q) - 1 /\ \A k \in 1 .. Len(q) - 1 : p[k] = q[k]
  BY <1>1, <1>3 DEF Drop
<1>5. Len(p) >= 1
  BY <1>1, <1>4
<1>6. PICK u : Below1(p, w, u)
  <2>1. Waiting(p, w)
    BY <1>2, <1>3 DEF Below1
  <2> QED
    BY <1>5, <2>1, LastLeaves
<1>7. Drop(p, 1) = Drop(q, 2)
  <2>1. /\ Drop(p, 1) \in Seq(OperandType) /\ Len(Drop(p, 1)) = Len(q) - 2
        /\ \A k \in 1 .. Len(q) - 2 : Drop(p, 1)[k] = q[k]
    BY <1>1, <1>4 DEF Drop
  <2>2. /\ Drop(q, 2) \in Seq(OperandType) /\ Len(Drop(q, 2)) = Len(q) - 2
        /\ \A k \in 1 .. Len(q) - 2 : Drop(q, 2)[k] = q[k]
    <3>1. Len(q) - 2 \in Nat /\ Len(q) - 2 <= Len(q)
      BY <1>1
    <3> QED
      BY <1>1, <3>1, Front DEF Drop
  <2> QED
    BY <2>1, <2>2
<1>8. Waiting(Drop(q, 2), u) /\ Len(Drop(q, 2)) = Len(q) - 2
  <2>1. Waiting(Drop(p, 1), u) /\ Len(Drop(p, 1)) = Len(p) - 1
    BY <1>6 DEF Below1
  <2> QED
    BY <1>1, <1>4, <1>7, <2>1
<1>9. p[Len(p)] = q[Len(q) - 1]
  BY <1>1, <1>4
<1> QED
  BY <1>2, <1>3, <1>6, <1>8, <1>9

LEMMA LeavesAreFolded ==
  ASSUME NEW R, NEW q, NEW W, NEW at, NEW n, NEW most, Parsed(R, q, W, at, n, most),
         Len(q) >= 2, IsPush(q[Len(q)]), IsPush(q[Len(q) - 1]),
         NEW e \in OperandType, IsLeaf(e), n < most
  PROVE  Parsed(R, Append(Drop(q, 2), e), W, at, n + 1, most)
<1>1. PICK s : Ready(R, s, W, at, n + Len(q) - 1, most) /\ Waiting(q, s) /\ Len(q) + Len(s) <= n
  BY DEF Parsed
<1>2. Len(q) \in Nat /\ Len(s) \in Nat /\ n \in Nat /\ most \in Int
  BY <1>1, FewWait, ReadyTypes DEF Parsed
<1>3. Waiting(Drop(q, 2), s) /\ Len(Drop(q, 2)) = Len(q) - 2
  <2>1. PICK u, w : /\ Below1(q, s, w) /\ Below1(Drop(q, 1), w, u)
                    /\ Waiting(Drop(q, 2), u) /\ Len(Drop(q, 2)) = Len(q) - 2
                    /\ Drop(q, 1)[Len(Drop(q, 1))] = q[Len(q) - 1]
    BY <1>1, TwoLeave
  <2>2. s = w /\ w = u
    BY <2>1 DEF Below1
  <2> QED
    BY <2>1, <2>2
<1>4. PICK p : p = Append(Drop(q, 2), e)
  OBVIOUS
<1>5. Waiting(p, s)
  BY <1>3, <1>4, LeafJoins
<1>6. Len(p) = Len(q) - 1
  BY <1>2, <1>3, <1>4 DEF Waiting
<1>7. Ready(R, s, W, at, (n + 1) + Len(p) - 1, most)
  <2>1. (n + 1) + Len(p) - 1 = n + Len(q) - 1
    BY <1>2, <1>6
  <2> QED
    BY <1>1, <2>1
<1>8. Len(p) + Len(s) <= n + 1
  BY <1>1, <1>2, <1>6
<1>9. n + 1 \in Nat /\ n + 1 <= most
  BY <1>2
<1> QED
  BY <1>4, <1>5, <1>7, <1>8, <1>9 DEF Parsed

\* An operand the linker computes is the result of an operation.
Result(v) == [type |-> "SYMBOLIC", part |-> "SYMBOL", symbol |-> NoSymbol, addend |-> 0,
              value |-> v]

LEMMA ResultType ==
  ASSUME NEW v \in Int
  PROVE  Result(v) \in OperandType /\ ~ IsPush(Result(v)) /\ Result(v).value = v
BY DEF Result, OperandType, Part, IsPush

LEMMA RelocIsReloc ==
  ASSUME NEW at \in Nat
  PROVE  /\ \A op \in Unary \cup Binary \cup Reverse :
              OpAt(at, op) \in RelocType /\ OpAt(at, op).op = op /\ OpAt(at, op).offset = at
         /\ \A e \in OperandType :
              PushAt(at, e) \in RelocType /\ PushAt(at, e).op = "PUSH" /\ PushAt(at, e).offset = at
         /\ \A e \in OperandType :
              LET r == RelocAt(at, "R_DATA", e.part, e.symbol, e.addend)
              IN r \in RelocType /\ r.op = "R_DATA" /\ r.offset = at
BY DEF OpAt, PushAt, RelocAt, RelocType, Part, OperandType

\* The linker pushes a leaf.
LEMMA LeafIsPushed ==
  ASSUME NEW R, NEW s, NEW W, NEW at, NEW high, NEW most, Ready(R, s, W, at, high, most),
         NEW e \in OperandType, IsLeaf(e),
         NEW high2 \in Int, high <= high2, 3 * Len(s) <= high2
  PROVE  Ready(Append(R, PushAt(at, e)), Append(s, e.value), W, at, high2, most)
<1>1. s \in Seq(Int) /\ at \in Nat
  BY ReadyTypes
<1>2. PICK r : r = PushAt(at, e)
  OBVIOUS
<1>3. /\ r \in RelocType /\ r.op = "PUSH" /\ r.offset = at
      /\ r.part = e.part /\ r.symbol = e.symbol /\ r.addend = e.addend
  BY <1>1, <1>2, RelocIsReloc DEF PushAt, RelocAt
<1>4. PICK t : t = Append(s, e.value)
  OBVIOUS
<1>5. e.value \in Int
  BY DEF OperandType
<1>6. t \in Seq(Int) /\ Len(t) = Len(s) + 1 /\ Len(s) \in Nat
  BY <1>1, <1>4, <1>5
<1>7. Calculates(r, s, t)
  BY <1>3, <1>4 DEF Calculates, IsLeaf
<1>8. 3 * (Len(t) - 1) <= high2
  BY <1>6
<1> QED
  BY <1>2, <1>3, <1>4, <1>6, <1>7, <1>8, Calculated

\* The linker joins the two values on top of u.
LEMMA TwoAreJoined ==
  ASSUME NEW u \in Seq(Int), NEW a \in Int, NEW b \in Int, NEW v \in Int,
         NEW op \in Binary \cup Reverse,
         v = IF op \in Reverse THEN Apply2(Forward[op], b, a) ELSE Apply2(op, a, b),
         NEW R, NEW W, NEW at, NEW high, NEW most,
         Ready(R, Append(Append(u, a), b), W, at, high, most),
         NEW high2 \in Int, high <= high2, 3 * Len(u) <= high2
  PROVE  Ready(Append(R, OpAt(at, op)), Append(u, v), W, at, high2, most)
<1>1. at \in Nat
  BY ReadyTypes
<1>2. PICK r : r = OpAt(at, op)
  OBVIOUS
<1>3. r \in RelocType /\ r.op = op /\ r.offset = at
  BY <1>1, <1>2, RelocIsReloc
<1>4. PICK s : s = Append(Append(u, a), b)
  OBVIOUS
<1>5. /\ s \in Seq(Int) /\ Len(s) = Len(u) + 2 /\ Len(u) \in Nat
      /\ s[Len(s)] = b /\ s[Len(s) - 1] = a
      /\ \A i \in 1 .. Len(u) : s[i] = u[i]
  BY <1>4
<1>6. Drop(s, 2) = u
  <2>1. PICK z : z = SubSeq(s, 1, Len(s) - 2)
    OBVIOUS
  <2>2. Len(s) - 2 = Len(u)
    BY <1>5
  <2>3. z \in Seq(Int) /\ Len(z) = Len(u) /\ \A i \in 1 .. Len(u) : z[i] = u[i]
    <3>1. PICK l \in Nat : l = Len(u) /\ l <= Len(s)
      BY <1>5
    <3> QED
      BY <1>5, <2>1, <2>2, <3>1, Front
  <2>4. z = u
    BY <2>3, SeqEqual
  <2> QED
    BY <2>1, <2>4 DEF Drop
<1>7. PICK t : t = Append(u, v)
  OBVIOUS
<1>8. t \in Seq(Int) /\ 3 * (Len(t) - 1) <= high2
  BY <1>5, <1>7
<1>9. Calculates(r, s, t)
  <2>1. Len(s) >= 2
    BY <1>5
  <2>2. t = Append(Drop(s, 2),
              IF r.op \in Reverse THEN Apply2(Forward[r.op], s[Len(s)], s[Len(s) - 1])
              ELSE Apply2(r.op, s[Len(s) - 1], s[Len(s)]))
    BY <1>3, <1>5, <1>6, <1>7, Zenon
  <2> QED
    BY <1>3, <2>1, <2>2 DEF Calculates
<1>10. r.op # "R_DATA"
  BY <1>3 DEF Binary, Reverse, Forward
<1> QED
  BY <1>2, <1>3, <1>4, <1>7, <1>8, <1>9, <1>10, Calculated

\* The relocations UnaryOp and BinaryOp add.
LeafFirst(R, at, e) == IF IsPush(e) THEN Append(R, PushAt(at, e)) ELSE R

LEMMA OneIsComputed ==
  ASSUME NEW R, NEW q, NEW W, NEW at, NEW n, NEW most, Parsed(R, q, W, at, n, most),
         Len(q) >= 1, NEW op \in Unary, n < most
  PROVE  Parsed(Append(LeafFirst(R, at, q[Len(q)]), OpAt(at, op)),
                Append(Drop(q, 1), Result(Apply1(op, q[Len(q)].value))), W, at, n + 1, most)
<1>1. PICK s : Ready(R, s, W, at, n + Len(q) - 1, most) /\ Waiting(q, s) /\ Len(q) + Len(s) <= n
  BY DEF Parsed
<1>2. PICK u : Below1(q, s, u)
  BY <1>1, LastLeaves
<1>3. PICK e \in OperandType : e = q[Len(q)]
  BY <1>2 DEF Below1
<1>4. PICK v \in Int : v = Apply1(op, e.value)
  <2>1. e.value \in Int
    BY DEF OperandType
  <2> QED
    BY <2>1, Apply1IsNumber
<1>5. PICK p : p = Append(Drop(q, 1), Result(v))
  OBVIOUS
<1>6. /\ Len(q) \in Nat /\ Len(s) \in Nat /\ n \in Nat /\ most \in Int /\ at \in Nat
      /\ u \in Seq(Int) /\ Len(u) \in Nat
  BY <1>1, <1>2, FewWait, ReadyTypes DEF Parsed, Below1, Waiting
<1>7. Waiting(p, Append(u, v)) /\ Len(p) = Len(q)
  <2>1. Waiting(Drop(q, 1), u) /\ Len(Drop(q, 1)) = Len(q) - 1
    BY <1>2 DEF Below1
  <2>2. Waiting(p, Append(u, v))
    BY <1>5, <2>1, ResultJoins, ResultType
  <2>3. Drop(q, 1) \in Seq(OperandType)
    BY <2>1 DEF Waiting
  <2> QED
    BY <1>5, <1>6, <2>1, <2>2, <2>3
<1>28. n \in Nat /\ Len(q) \in Nat /\ Len(p) \in Nat
  BY <1>6, <1>7
<1>29. n + Len(q) - 1 \in Int /\ (n + 1) + Len(p) - 1 \in Int
  BY <1>28
<1>27. PICK h \in Int : h = n + Len(q) - 1
  BY <1>29
<1>8. PICK h2 \in Int : h2 = (n + 1) + Len(p) - 1
  BY <1>29
<1>9. h <= h2
  BY <1>6, <1>7, <1>8, <1>27
<1>10. Len(u) <= Len(q) - 1 /\ Len(u) <= Len(s)
  <2>1. Len(u) <= Len(Drop(q, 1)) /\ Len(Drop(q, 1)) = Len(q) - 1
    BY <1>2, FewWait DEF Below1
  <2>2. s = u \/ s = Append(u, e.value)
    BY <1>2, <1>3 DEF Below1
  <2>3. e.value \in Int
    BY DEF OperandType
  <2> QED
    BY <1>6, <2>1, <2>2, <2>3
<1>11. PICK x \in Int : x = e.value
  BY DEF OperandType
<1>12. 3 * Len(u) <= h2
  BY <1>1, <1>6, <1>7, <1>8, <1>10
<1>13. Ready(LeafFirst(R, at, e), Append(u, x), W, at, h2, most)
  <2>1. CASE IsPush(e)
    <3>1. s = u /\ IsLeaf(e)
      BY <1>2, <1>3, <2>1 DEF Below1
    <3> QED
      BY <1>1, <1>27, <1>9, <1>11, <1>12, <2>1, <3>1, LeafIsPushed DEF LeafFirst
  <2>2. CASE ~ IsPush(e)
    <3>1. s = Append(u, x)
      BY <1>2, <1>3, <1>11, <2>2 DEF Below1
    <3> QED
      BY <1>1, <1>27, <1>9, <2>2, <3>1, Higher DEF LeafFirst
  <2> QED
    BY <2>1, <2>2
<1>14. PICK r : r = OpAt(at, op)
  OBVIOUS
<1>15. r \in RelocType /\ r.op = op /\ r.offset = at
  BY <1>6, <1>14, RelocIsReloc
<1>16. PICK t, w : t = Append(u, v) /\ w = Append(u, x)
  OBVIOUS
<1>17. /\ t \in Seq(Int) /\ Len(t) = Len(u) + 1
       /\ w \in Seq(Int) /\ Len(w) = Len(u) + 1 /\ w[Len(w)] = x
       /\ t[Len(w)] = v /\ \A i \in 1 .. Len(u) : t[i] = w[i]
  BY <1>6, <1>16
<1>18. t = [w EXCEPT ![Len(w)] = Apply1(op, @)]
  <2>1. PICK z : z = [w EXCEPT ![Len(w)] = v]
    OBVIOUS
  <2>2. z \in Seq(Int) /\ Len(z) = Len(w) /\ z[Len(w)] = v
        /\ \A i \in 1 .. Len(u) : z[i] = w[i]
    BY <1>6, <1>17, <2>1
  <2>3. t = z
    <3>1. Len(w) = Len(u) + 1 /\ Len(t) = Len(w) /\ t[Len(w)] = z[Len(w)]
      BY <1>17, <2>2
    <3>2. \A i \in 1 .. Len(w) : i = Len(w) \/ i \in 1 .. Len(u)
      BY <1>6, <3>1
    <3>3. \A i \in 1 .. Len(w) : t[i] = z[i]
      BY <1>17, <2>2, <3>1, <3>2
    <3> QED
      BY <1>17, <2>2, <3>1, <3>3
  <2>4. w[Len(w)] = x /\ v = Apply1(op, x)
    BY <1>4, <1>11, <1>17
  <2> QED
    BY <2>1, <2>3, <2>4
<1>19. Calculates(r, w, t)
  <2>1. Len(w) >= 1
    BY <1>6, <1>17
  <2> QED
    BY <1>15, <1>18, <2>1 DEF Calculates
<1>20. r.op # "R_DATA"
  BY <1>15 DEF Unary
<1>21. 3 * (Len(t) - 1) <= h2
  BY <1>6, <1>12, <1>17
<1>22. h2 <= h2
  OBVIOUS
<1>23. Ready(Append(LeafFirst(R, at, e), r), t, W, at, h2, most)
  BY <1>13, <1>15, <1>16, <1>17, <1>19, <1>20, <1>21, <1>22, Calculated
<1>24. Len(p) + Len(t) <= n + 1
  BY <1>1, <1>6, <1>7, <1>10, <1>17
<1>25. n + 1 \in Nat /\ n + 1 <= most
  BY <1>6
<1>26. Parsed(Append(LeafFirst(R, at, e), r), p, W, at, n + 1, most)
  BY <1>7, <1>8, <1>16, <1>23, <1>24, <1>25 DEF Parsed
<1> QED
  BY <1>3, <1>4, <1>5, <1>14, <1>26

LEMMA TwoAreComputed ==
  ASSUME NEW R, NEW q, NEW W, NEW at, NEW n, NEW most, Parsed(R, q, W, at, n, most),
         Len(q) >= 2, NEW op \in Binary, n < most,
         Defined2(op, q[Len(q) - 1].value, q[Len(q)].value)
  PROVE  Parsed(Append(LeafFirst(LeafFirst(R, at, q[Len(q) - 1]), at, q[Len(q)]),
                       OpAt(at, Emitted(op, q[Len(q) - 1], q[Len(q)]))),
                Append(Drop(q, 2), Result(Apply2(op, q[Len(q) - 1].value, q[Len(q)].value))),
                W, at, n + 1, most)
<1>1. PICK s : Ready(R, s, W, at, n + Len(q) - 1, most) /\ Waiting(q, s) /\ Len(q) + Len(s) <= n
  BY DEF Parsed
<1>2. PICK u, w : /\ Below1(q, s, w) /\ Below1(Drop(q, 1), w, u)
                  /\ Waiting(Drop(q, 2), u) /\ Len(Drop(q, 2)) = Len(q) - 2
                  /\ Drop(q, 1)[Len(Drop(q, 1))] = q[Len(q) - 1]
  BY <1>1, TwoLeave
<1>3. PICK d \in OperandType : d = q[Len(q) - 1]
  BY <1>2 DEF Below1
<1>4. PICK e \in OperandType : e = q[Len(q)]
  BY <1>2 DEF Below1
<1>5. PICK x \in Int : x = d.value
  BY DEF OperandType
<1>6. PICK y \in Int : y = e.value
  BY DEF OperandType
<1>7. PICK v \in Int : v = Apply2(op, x, y)
  BY <1>3, <1>4, <1>5, <1>6, Apply2IsNumber
<1>8. /\ IF IsPush(e) THEN IsLeaf(e) /\ s = w ELSE s = Append(w, y)
      /\ IF IsPush(d) THEN IsLeaf(d) /\ w = u ELSE w = Append(u, x)
  BY <1>2, <1>3, <1>4, <1>5, <1>6 DEF Below1
<1>9. u \in Seq(Int) /\ Len(u) \in Nat /\ w \in Seq(Int)
  BY <1>2 DEF Waiting, Below1
<1>10. PICK p : p = Append(Drop(q, 2), Result(v))
  OBVIOUS
<1>11. n \in Nat /\ Len(q) \in Nat /\ Len(s) \in Nat /\ most \in Int /\ at \in Nat
  BY <1>1, FewWait, ReadyTypes DEF Parsed
<1>12. Waiting(p, Append(u, v)) /\ Len(p) = Len(q) - 1
  <2>1. Waiting(p, Append(u, v))
    BY <1>2, <1>10, ResultJoins, ResultType
  <2>2. Drop(q, 2) \in Seq(OperandType)
    BY <1>2 DEF Waiting
  <2> QED
    BY <1>2, <1>10, <1>11, <2>1, <2>2
<1>13. Len(u) <= Len(q) - 2 /\ Len(u) <= Len(s)
  <2>1. Len(u) <= Len(q) - 2
    BY <1>2, FewWait
  <2>2. Len(Append(u, x)) = Len(u) + 1
    BY <1>9
  <2>3. Len(w) = Len(u) \/ Len(w) = Len(u) + 1
    BY <1>8, <2>2
  <2>4. Len(Append(w, y)) = Len(w) + 1
    BY <1>9
  <2>5. Len(s) = Len(w) \/ Len(s) = Len(w) + 1
    BY <1>8, <2>4
  <2> QED
    BY <1>9, <2>1, <2>3, <2>5
<1>14. n + Len(q) - 1 \in Int /\ (n + 1) + Len(p) - 1 = n + Len(q) - 1
  BY <1>11, <1>12
<1>15. PICK h \in Int : h = n + Len(q) - 1
  BY <1>14
<1>16. h <= h /\ 3 * Len(u) <= h /\ 3 * (Len(u) + 1) <= h
  BY <1>1, <1>9, <1>11, <1>13, <1>15
<1>17. Ready(R, s, W, at, h, most)
  BY <1>1, <1>15
<1>18. PICK R1, R2 : R1 = LeafFirst(R, at, d) /\ R2 = LeafFirst(R1, at, e)
  OBVIOUS
<1>19. PICK op2 : op2 = Emitted(op, d, e)
  OBVIOUS
<1>20. \A t \in Seq(Int), z \in Int :
         Len(Append(t, z)) = Len(t) + 1 /\ Append(t, z) \in Seq(Int)
  OBVIOUS
\* The values the operator finds, and what it makes of them.
<1> DEFINE Finds(a, b) ==
             /\ Ready(R2, Append(Append(u, a), b), W, at, h, most)
             /\ op2 \in Binary \cup Reverse
             /\ v = IF op2 \in Reverse THEN Apply2(Forward[op2], b, a) ELSE Apply2(op2, a, b)
<1>21. op \notin Reverse
  BY DEF Binary, Reverse, Forward
<1>22. ASSUME ~ (IsPush(d) /\ ~ IsPush(e))
       PROVE  \E a \in Int, b \in Int : Finds(a, b)
  <2>1. op2 = op
    BY <1>19, <1>22 DEF Emitted
  <2>2. ASSUME IsPush(d) /\ IsPush(e)
       PROVE  Finds(x, y)
    <3>1. IsLeaf(d) /\ IsLeaf(e) /\ s = u
      BY <1>8, <2>2
    <3>2. Ready(R1, Append(u, x), W, at, h, most)
      BY <1>5, <1>16, <1>17, <1>18, <2>2, <3>1, LeafIsPushed DEF LeafFirst
    <3>3. 3 * Len(Append(u, x)) <= h
      BY <1>9, <1>16, <1>20
    <3>4. Ready(R2, Append(Append(u, x), y), W, at, h, most)
      BY <1>6, <1>16, <1>18, <2>2, <3>1, <3>2, <3>3, LeafIsPushed DEF LeafFirst
    <3> QED
      BY <1>7, <1>21, <2>1, <3>4
  <2>3. ASSUME ~ IsPush(d) /\ IsPush(e)
       PROVE  Finds(x, y)
    <3>1. IsLeaf(e) /\ s = Append(u, x)
      BY <1>8, <2>3
    <3>2. Ready(R1, Append(u, x), W, at, h, most)
      BY <1>17, <1>18, <2>3, <3>1 DEF LeafFirst
    <3>3. 3 * Len(Append(u, x)) <= h
      BY <1>9, <1>16, <1>20
    <3>4. Ready(R2, Append(Append(u, x), y), W, at, h, most)
      BY <1>6, <1>16, <1>18, <2>3, <3>1, <3>2, <3>3, LeafIsPushed DEF LeafFirst
    <3> QED
      BY <1>7, <1>21, <2>1, <3>4
  <2>4. ASSUME ~ IsPush(d) /\ ~ IsPush(e)
       PROVE  Finds(x, y)
    <3>1. s = Append(Append(u, x), y)
      BY <1>8, <2>4
    <3>2. Ready(R2, Append(Append(u, x), y), W, at, h, most)
      BY <1>17, <1>18, <2>4, <3>1 DEF LeafFirst
    <3> QED
      BY <1>7, <1>21, <2>1, <3>2
  <2>5. Finds(x, y)
    <3> HIDE DEF Finds
    <3> QED
      BY <1>22, <2>2, <2>3, <2>4
  <2> HIDE DEF Finds
  <2> QED
    BY <2>5
<1>23. ASSUME IsPush(d) /\ ~ IsPush(e)
       PROVE  \E a \in Int, b \in Int : Finds(a, b)
  <2>1. op2 = Reversed(op)
    BY <1>19, <1>23 DEF Emitted
  <2>2. IsLeaf(d) /\ s = Append(u, y)
    BY <1>8, <1>23
  <2>3. 3 * Len(Append(u, y)) <= h
    BY <1>9, <1>16, <1>20
  <2>4. Ready(R1, Append(Append(u, y), x), W, at, h, most)
    BY <1>5, <1>16, <1>17, <1>18, <1>23, <2>2, <2>3, LeafIsPushed DEF LeafFirst
  <2>5. R2 = R1
    BY <1>18, <1>23 DEF LeafFirst
  <2>6. Finds(y, x)
    BY <1>7, <2>1, <2>4, <2>5, ReversedIs
  <2> HIDE DEF Finds
  <2> QED
    BY <2>6
<1>24. PICK a \in Int, b \in Int : Finds(a, b)
  <2> HIDE DEF Finds
  <2> QED
    BY <1>22, <1>23
<1>25. Ready(Append(R2, OpAt(at, op2)), Append(u, v), W, at, h, most)
  BY <1>9, <1>16, <1>24, TwoAreJoined
<1>26. Len(p) + Len(Append(u, v)) <= n + 1
  <2>1. Len(Append(u, v)) = Len(u) + 1
    BY <1>9, <1>20
  <2> QED
    BY <1>1, <1>9, <1>11, <1>12, <1>13, <2>1
<1>27. Parsed(Append(R2, OpAt(at, op2)), p, W, at, n + 1, most)
  <2>1. n + 1 \in Nat /\ n + 1 <= most
    BY <1>11
  <2> QED
    BY <1>12, <1>14, <1>15, <1>25, <1>26, <2>1 DEF Parsed
<1> QED
  BY <1>3, <1>4, <1>5, <1>6, <1>7, <1>10, <1>18, <1>19, <1>27

\* The end of an expression that is a number.
LEMMA NumberEnds ==
  ASSUME NEW R, NEW q, NEW W, NEW at, NEW n, NEW most, Parsed(R, q, W, at, n, most),
         Len(q) = 1, IsPush(q[1])
  PROVE  Parsed(R, <<>>, W, at + 1, 0, most)
<1>1. PICK s : Ready(R, s, W, at, n + Len(q) - 1, most) /\ Waiting(q, s) /\ Len(q) + Len(s) <= n
  BY DEF Parsed
<1>2. n \in Nat /\ most \in Int /\ n <= most
  BY <1>1, ReadyTypes DEF Parsed
<1>3. PICK u : Below1(q, s, u)
  BY <1>1, LastLeaves
<1>4. s = u /\ Waiting(Drop(q, 1), u) /\ Len(Drop(q, 1)) = 0
  BY <1>3 DEF Below1
<1>5. Drop(q, 1) = <<>> /\ u = <<>>
  <2>1. Drop(q, 1) \in Seq(OperandType) /\ u \in Seq(Int) /\ Len(u) = 0
    <3>1. Len(u) <= 0 /\ Len(u) \in Nat
      BY <1>4, FewWait
    <3> QED
      BY <1>4, <3>1 DEF Waiting
  <2> QED
    BY <1>4, <2>1
<1>6. Ready(R, <<>>, W, at, n, most)
  <2>1. n + Len(q) - 1 = n
    BY <1>2
  <2> QED
    BY <1>1, <1>4, <1>5, <2>1
<1>7. Ready(R, <<>>, W, at + 1, -1, most)
  BY <1>2, <1>6, Passed
<1>8. Len(<<>>) = 0
  OBVIOUS
<1>9. 0 + Len(<<>>) - 1 = -1 /\ Len(<<>>) + Len(<<>>) <= 0 /\ 0 <= most
  BY <1>2, <1>8
<1> QED
  BY <1>4, <1>5, <1>7, <1>9 DEF Parsed

\* The end of any other.
LEMMA RelocationEnds ==
  ASSUME NEW R, NEW q, NEW W, NEW at, NEW n, NEW most, Parsed(R, q, W, at, n, most),
         Len(q) = 1
  PROVE  Parsed(Append(R, RelocAt(at, "R_DATA", q[1].part, q[1].symbol, q[1].addend)),
                <<>>, Append(W, q[1].value), at + 1, 0, most)
<1>1. PICK s : Ready(R, s, W, at, n + Len(q) - 1, most) /\ Waiting(q, s) /\ Len(q) + Len(s) <= n
  BY DEF Parsed
<1>2. n \in Nat /\ most \in Int /\ n <= most /\ at \in Nat
  BY <1>1, ReadyTypes DEF Parsed
<1>3. PICK u : Below1(q, s, u)
  BY <1>1, LastLeaves
<1>4. PICK e \in OperandType : e = q[1]
  BY <1>3 DEF Below1
<1>5. /\ Waiting(Drop(q, 1), u) /\ Len(Drop(q, 1)) = 0
      /\ IF IsPush(e) THEN IsLeaf(e) /\ s = u ELSE s = Append(u, e.value)
  BY <1>3, <1>4 DEF Below1
<1>6. Drop(q, 1) = <<>> /\ u = <<>>
  <2>1. Drop(q, 1) \in Seq(OperandType) /\ u \in Seq(Int) /\ Len(u) = 0
    <3>1. Len(u) <= 0 /\ Len(u) \in Nat
      BY <1>5, FewWait
    <3> QED
      BY <1>5, <3>1 DEF Waiting
  <2> QED
    BY <1>5, <2>1
<1>7. PICK v \in Int : v = e.value
  BY DEF OperandType
<1>8. PICK r : r = RelocAt(at, "R_DATA", e.part, e.symbol, e.addend)
  OBVIOUS
<1>9. /\ r \in RelocType /\ r.op = "R_DATA" /\ r.offset = at
      /\ r.part = e.part /\ r.symbol = e.symbol /\ r.addend = e.addend
  BY <1>2, <1>8, RelocIsReloc DEF RelocAt
<1>10. Len(s) <= 1 /\ v = Found(r, s)
  <2>1. Append(<<>>, v) = <<v>> /\ <<v>> # <<>> /\ <<v>>[1] = v /\ Len(<<v>>) = 1
    OBVIOUS
  <2>2. Len(<<>>) = 0
    OBVIOUS
  <2>3. CASE IsPush(e)
    BY <1>5, <1>6, <1>7, <1>9, <2>2, <2>3 DEF Found, IsLeaf
  <2>4. CASE ~ IsPush(e)
    <3>1. s = <<v>>
      BY <1>5, <1>6, <1>7, <2>1, <2>4, Zenon
    <3> QED
      BY <2>1, <3>1 DEF Found
  <2> QED
    BY <2>3, <2>4
<1>11. Ready(R, s, W, at, n, most)
  <2>1. n + Len(q) - 1 = n
    BY <1>2
  <2> QED
    BY <1>1, <2>1
<1>12. 0 <= most
  BY <1>2
<1>13. Ready(Append(R, r), <<>>, Append(W, v), at + 1, -1, most)
  BY <1>2, <1>9, <1>10, <1>11, <1>12, Fixes
<1>14. Len(<<>>) = 0
  OBVIOUS
<1>15. 0 + Len(<<>>) - 1 = -1 /\ Len(<<>>) + Len(<<>>) <= 0
  BY <1>14
<1> QED
  BY <1>4, <1>5, <1>6, <1>7, <1>8, <1>12, <1>13, <1>15 DEF Parsed

----------------------------------------------------------------------------
(* The invariant. *)

\* While the source is parsed, the relocations so far leave on the stack what
\* the operands that have none wait for.
ParseOK ==
  /\ stack = <<>> /\ fixed = <<>> /\ next = 1
  /\ Parsed(relocs, operands, wanted, location, nodes, source.nodes)

\* The linker does what the relocations say, one by one.
LinkOK ==
  \E S, F :
    /\ Kept(relocs, S, F, wanted, location, source.nodes, source.nodes)
    /\ S[Len(relocs)] = <<>>
    /\ next \in 1 .. Len(relocs) + 1
    /\ stack = S[next - 1] /\ fixed = F[next - 1]
    /\ pc = "done" => next = Len(relocs) + 1
    /\ pc = "overflow" => source.nodes >= 3 * StackSize

IInv ==
  /\ source \in Source
  /\ \/ pc = "rejected" /\ fixed = <<>>
     \/ pc = "parse" /\ ParseOK
     \/ pc \in {"link", "done", "overflow"} /\ LinkOK

LEMMA SourceTypes ==
  ASSUME NEW s \in Source
  PROVE  /\ s.numbers \subseteq Int /\ s.parts \subseteq Part \X Symbol
         /\ s.operators \subseteq Unary \cup Binary
         /\ s.nodes \in Nat /\ s.locations \in Nat
BY SourceAssumption

LEMMA Initially == Init => IInv
<1> SUFFICES ASSUME Init PROVE IInv
  OBVIOUS
<1>1. source.nodes \in Nat /\ source \in Source
  BY SourceTypes DEF Init
<1>2. PICK most \in Nat : most = source.nodes
  BY <1>1
<1>3. Len(<<>>) = 0 /\ <<>> \in Seq(RelocType) /\ <<>> \in Seq(Int) /\ <<>> \in Seq(OperandType)
  OBVIOUS
<1>4. PICK S : S = [k \in 0 .. 0 |-> <<>>]
  OBVIOUS
<1>5. S \in [0 .. 0 -> Seq(Int)] /\ S[0] = <<>>
  BY <1>3, <1>4
<1>6. \A k : k \notin 1 .. 0
  OBVIOUS
<1>7. Agrees(<<>>, <<>>)
  BY <1>3, <1>6 DEF Agrees
<1>8. Kept(<<>>, S, S, <<>>, 0, -1, most)
  <2>1. 0 \in Nat /\ -1 \in Int /\ ~ (0 > 0) /\ most \in Int
    OBVIOUS
  <2>2. \A k \in 0 .. 0 : k = 0
    OBVIOUS
  <2>3. \A k \in 1 .. 0 - 1 : FALSE
    OBVIOUS
  <2> QED
    BY <1>3, <1>5, <1>6, <1>7, <2>1, <2>2, <2>3 DEF Kept
<1>9. Ready(<<>>, <<>>, <<>>, 0, -1, most)
  BY <1>3, <1>5, <1>8 DEF Ready
<1>10. PICK c : c = [k \in 0 .. 0 |-> 0]
  OBVIOUS
<1>11. Counts(c, <<>>, <<>>)
  <2>1. c \in [0 .. 0 -> Nat] /\ c[0] = 0 /\ \A k \in 0 .. 0 : k = 0
    BY <1>10
  <2> QED
    BY <1>3, <1>6, <2>1 DEF Counts
<1>12. Waiting(<<>>, <<>>)
  BY <1>3, <1>11 DEF Waiting
<1>13. Parsed(<<>>, <<>>, <<>>, 0, 0, most)
  <2>1. 0 + Len(<<>>) - 1 = -1 /\ Len(<<>>) + Len(<<>>) <= 0 /\ 0 <= most /\ 0 \in Nat
    BY <1>3
  <2> QED
    BY <1>9, <1>12, <2>1 DEF Parsed
<1> QED
  BY <1>1, <1>2, <1>13 DEF Init, IInv, ParseOK

\* The state between two reductions.
LEMMA ParseFacts ==
  ASSUME NEW q, NEW R, NEW W, NEW at, NEW n, NEW most, Parsed(R, q, W, at, n, most)
  PROVE  /\ q \in Seq(OperandType) /\ Len(q) \in Nat
         /\ R \in Seq(RelocType) /\ W \in Seq(Int) /\ at \in Nat /\ n \in Nat /\ most \in Int
         /\ \A k \in 1 .. Len(q) : q[k] \in OperandType /\ (IsPush(q[k]) => IsLeaf(q[k]))
<1>1. PICK s : Ready(R, s, W, at, n + Len(q) - 1, most) /\ Waiting(q, s)
  BY DEF Parsed
<1>2. PICK c : Counts(c, q, s)
  BY <1>1 DEF Waiting
<1>3. q \in Seq(OperandType) /\ Len(q) \in Nat
  BY <1>1 DEF Waiting
<1>4. \A k \in 1 .. Len(q) : q[k] \in OperandType
  BY <1>3
<1>5. \A k \in 1 .. Len(q) : IsPush(q[k]) => IsLeaf(q[k])
  BY <1>2 DEF Counts
<1> QED
  BY <1>1, <1>3, <1>4, <1>5, ReadyTypes DEF Parsed

\* A number is worth what it says.
LEMMA NumberIsLeaf ==
  ASSUME NEW n \in Int
  PROVE  /\ Operand("PUSH", "SYMBOL", NoSymbol, n, n) \in OperandType
         /\ IsLeaf(Operand("PUSH", "SYMBOL", NoSymbol, n, n))
BY SymbolAssumption DEF Operand, OperandType, IsLeaf, IsPush, SymbolValue, Part

LEMMA NumberValue ==
  ASSUME NEW e \in OperandType, IsLeaf(e), IsNumber(e)
  PROVE  e.value = e.addend /\ e.addend \in Int
BY SymbolAssumption DEF OperandType, IsLeaf, IsNumber, SymbolValue

\* A list ends with the relocations an operation adds.
LEMMA AddedIsAppended ==
  ASSUME NEW R \in Seq(RelocType), NEW e \in OperandType, location \in Nat
  PROVE  R \o Pushed(e) = LeafFirst(R, location, e)
<1>1. CASE IsPush(e)
  <2>1. PICK r : r = PushAt(location, e)
    OBVIOUS
  <2>2. r \in RelocType
    BY <2>1, RelocIsReloc
  <2>3. Pushed(e) = <<r>>
    BY <1>1, <2>1 DEF Pushed, PushAt, RelocAt, Reloc
  <2>4. Append(R, r) = R \o <<r>>
    BY <2>2, AppendIsConcat
  <2> QED
    BY <1>1, <2>1, <2>3, <2>4 DEF LeafFirst
<1>2. CASE ~ IsPush(e)
  <2>1. Pushed(e) = <<>>
    BY <1>2 DEF Pushed
  <2>2. R \o <<>> = R
    OBVIOUS
  <2> QED
    BY <1>2, <2>1, <2>2 DEF LeafFirst
<1> QED
  BY <1>1, <1>2

LEMMA LeafFirstType ==
  ASSUME NEW R \in Seq(RelocType), NEW e \in OperandType, NEW at \in Nat
  PROVE  LeafFirst(R, at, e) \in Seq(RelocType)
<1>1. PushAt(at, e) \in RelocType
  BY RelocIsReloc
<1> QED
  BY <1>1 DEF LeafFirst

LEMMA ParseStep ==
  ASSUME IInv, Parsing, Parsed(relocs', operands', wanted, location, nodes + 1, source.nodes)
  PROVE  IInv'
<1>1. pc = "parse" /\ pc' = "parse" /\ ParseOK /\ source \in Source
  BY DEF IInv, Parsing
<1>2. nodes' = nodes + 1 /\ UNCHANGED <<source, wanted, location, stack, fixed, next>>
  BY DEF Parsing
<1>3. ParseOK'
  BY <1>1, <1>2 DEF ParseOK
<1> QED
  BY <1>1, <1>2, <1>3 DEF IInv

LEMMA BeforeParse ==
  ASSUME IInv, Parsing
  PROVE  /\ Parsed(relocs, operands, wanted, location, nodes, source.nodes)
         /\ nodes < source.nodes /\ source \in Source
BY DEF IInv, Parsing, ParseOK

LEMMA NumberKeeps ==
  ASSUME IInv, NEW n \in source.numbers, Number(n)
  PROVE  IInv'
<1>1. Parsing
  BY DEF Number, Leaf
<1>2. n \in Int
  BY <1>1, BeforeParse, SourceTypes
<1>3. PICK e : e = Operand("PUSH", "SYMBOL", NoSymbol, n, n)
  OBVIOUS
<1>4. e \in OperandType /\ IsLeaf(e)
  BY <1>2, <1>3, NumberIsLeaf
<1>5. operands' = Append(operands, e) /\ relocs' = relocs
  BY <1>3 DEF Number
<1> QED
  BY <1>1, <1>4, <1>5, BeforeParse, LeafIsRead, ParseStep

LEMMA NameKeeps ==
  ASSUME IInv, NEW r \in source.parts, Name(r[1], r[2])
  PROVE  IInv'
<1>1. Parsing
  BY DEF Name, Leaf
<1>2. PICK part \in Part, symbol \in Symbol : part = r[1] /\ symbol = r[2]
  <2>1. r \in Part \X Symbol
    BY <1>1, BeforeParse, SourceTypes
  <2> QED
    BY <2>1
<1>3. PICK e : e = Operand("PUSH", part, symbol, 0, SymbolValue(part, symbol, 0))
  OBVIOUS
<1>4. e \in OperandType /\ IsLeaf(e)
  BY <1>3, SymbolValueIsNumber DEF Operand, OperandType, IsLeaf, IsPush
<1>5. operands' = Append(operands, e) /\ relocs' = relocs
  BY <1>2, <1>3 DEF Name
<1> QED
  BY <1>1, <1>4, <1>5, BeforeParse, LeafIsRead, ParseStep

LEMMA UnaryOpKeeps ==
  ASSUME IInv, NEW op \in Unary, UnaryOp(op)
  PROVE  IInv'
<1>1. Parsing /\ Len(operands) >= 1
  BY DEF UnaryOp
<1>2. /\ Parsed(relocs, operands, wanted, location, nodes, source.nodes)
      /\ nodes < source.nodes
  BY <1>1, BeforeParse
<1>3. /\ Len(operands) \in Nat /\ relocs \in Seq(RelocType) /\ location \in Nat
      /\ Top \in OperandType /\ (IsPush(Top) => IsLeaf(Top))
  BY <1>1, <1>2, ParseFacts DEF Top
<1>4. CASE IsNumber(Top)
  <2>1. PICK e : e = Operand("PUSH", "SYMBOL", NoSymbol, Apply1(op, Top.addend),
                             Apply1(op, Top.value))
    OBVIOUS
  <2>2. Top.value = Top.addend /\ Top.addend \in Int /\ IsPush(Top)
    BY <1>3, <1>4, NumberValue DEF IsNumber
  <2>3. e \in OperandType /\ IsLeaf(e)
    BY <2>1, <2>2, Apply1IsNumber, NumberIsLeaf
  <2>4. operands' = Append(Drop(operands, 1), e) /\ relocs' = relocs
    BY <1>4, <2>1 DEF UnaryOp
  <2>5. IsPush(operands[Len(operands)])
    BY <2>2 DEF Top
  <2> QED
    BY <1>1, <1>2, <2>3, <2>4, <2>5, LeafIsFolded, ParseStep
<1>5. CASE ~ IsNumber(Top)
  <2>1. PICK r : r = OpAt(location, op)
    OBVIOUS
  <2>2. r \in RelocType
    BY <1>3, <2>1, RelocIsReloc
  <2>3. relocs' = relocs \o Pushed(Top) \o <<r>>
    BY <1>5, <2>1 DEF UnaryOp, OpAt, RelocAt, Reloc
  <2>4. PICK R : R = LeafFirst(relocs, location, Top)
    OBVIOUS
  <2>5. R \in Seq(RelocType) /\ R = relocs \o Pushed(Top)
    BY <1>3, <2>4, LeafFirstType, AddedIsAppended
  <2>6. relocs' = Append(R, r)
    BY <2>2, <2>3, <2>5, AppendIsConcat
  <2>7. operands' = Append(Drop(operands, 1), Result(Apply1(op, Top.value)))
    BY <1>5 DEF UnaryOp, Symbolic, Operand, Result
  <2> QED
    BY <1>1, <1>2, <2>1, <2>4, <2>6, <2>7, OneIsComputed, ParseStep DEF Top
<1> QED
  BY <1>4, <1>5

LEMMA AddToAddendKeeps ==
  ASSUME IInv, NEW op \in Binary, AddToAddend(op)
  PROVE  IInv'
<1>1. Parsing /\ Len(operands) >= 2 /\ AddsToAddend(op)
  BY DEF AddToAddend
<1>2. /\ Parsed(relocs, operands, wanted, location, nodes, source.nodes)
      /\ nodes < source.nodes
  BY <1>1, BeforeParse
<1>3. /\ Len(operands) \in Nat
      /\ Top \in OperandType /\ (IsPush(Top) => IsLeaf(Top))
      /\ Below \in OperandType /\ (IsPush(Below) => IsLeaf(Below))
  <2>1. Len(operands) \in 1 .. Len(operands) /\ Len(operands) - 1 \in 1 .. Len(operands)
    BY <1>1, <1>2, ParseFacts
  <2> QED
    BY <1>2, <2>1, ParseFacts DEF Top, Below
<1>4. PICK e : e = [(IF IsName(Top) THEN Top ELSE Below) EXCEPT
                      !.addend = Apply2(op, @, (IF IsName(Top) THEN Below ELSE Top).addend),
                      !.value = Apply2(op, Below.value, Top.value)]
  OBVIOUS
<1>5. operands' = Append(Drop(operands, 2), e) /\ relocs' = relocs
  BY <1>4 DEF AddToAddend
<1>6. IsPush(Top) /\ IsPush(Below)
  BY <1>1 DEF AddsToAddend, IsName, IsNumber
<1>7. IsPush(operands[Len(operands)]) /\ IsPush(operands[Len(operands) - 1])
  BY <1>6 DEF Top, Below
<1>8. e \in OperandType /\ IsLeaf(e)
  <2>1. CASE op = "ADD" /\ IsNumber(Below) /\ IsName(Top)
    <3>1. PICK x \in Int : x = Below.addend /\ x = Below.value
      BY <1>3, <1>6, <2>1, NumberValue
    <3>2. PICK part \in Part, symbol \in Symbol \cup {NoSymbol}, a \in Int :
            Top = [type |-> "PUSH", part |-> part, symbol |-> symbol, addend |-> a,
                   value |-> SymbolValue(part, symbol, a)]
      BY <1>3, <1>6 DEF OperandType, IsPush, IsLeaf
    <3>3. e = [type |-> "PUSH", part |-> part, symbol |-> symbol, addend |-> a + x,
               value |-> x + SymbolValue(part, symbol, a)]
      BY <1>4, <2>1, <3>1, <3>2 DEF Apply2
    <3>4. a + x \in Int /\ SymbolValue(part, symbol, a + x) = x + SymbolValue(part, symbol, a)
      BY SumIsCarried
    <3>5. SymbolValue(part, symbol, a + x) \in Int
      BY <3>4, SymbolValueIsNumber
    <3> QED
      BY <3>3, <3>4, <3>5 DEF OperandType, IsLeaf, IsPush
  <2>2. CASE op \in {"ADD", "SUBTRACT"} /\ IsName(Below) /\ IsNumber(Top)
    <3>1. PICK x \in Int : x = Top.addend /\ x = Top.value
      BY <1>3, <1>6, <2>2, NumberValue
    <3>2. PICK part \in Part, symbol \in Symbol \cup {NoSymbol}, a \in Int :
            Below = [type |-> "PUSH", part |-> part, symbol |-> symbol, addend |-> a,
                     value |-> SymbolValue(part, symbol, a)]
      BY <1>3, <1>6 DEF OperandType, IsPush, IsLeaf
    <3>3. ~ IsName(Top)
      BY <2>2 DEF IsName, IsNumber
    <3>4. PICK b, v : b = Apply2(op, a, x) /\ v = Apply2(op, SymbolValue(part, symbol, a), x)
      OBVIOUS
    <3>5. e = [type |-> "PUSH", part |-> part, symbol |-> symbol, addend |-> b, value |-> v]
      BY <1>4, <3>1, <3>2, <3>3, <3>4
    <3>6. b \in Int /\ v = SymbolValue(part, symbol, b)
      BY <2>2, <3>4, SumIsCarried DEF Apply2
    <3>7. v \in Int
      BY <3>6, SymbolValueIsNumber
    <3> QED
      BY <3>5, <3>6, <3>7 DEF OperandType, IsLeaf, IsPush
  <2> QED
    BY <1>1, <2>1, <2>2 DEF AddsToAddend
<1> QED
  BY <1>1, <1>2, <1>5, <1>7, <1>8, LeavesAreFolded, ParseStep

LEMMA BinaryOpKeeps ==
  ASSUME IInv, NEW op \in Binary, BinaryOp(op)
  PROVE  IInv'
<1>1. Parsing /\ Len(operands) >= 2 /\ Defined2(op, Below.value, Top.value)
  BY DEF BinaryOp
<1>2. /\ Parsed(relocs, operands, wanted, location, nodes, source.nodes)
      /\ nodes < source.nodes
  BY <1>1, BeforeParse
<1>3. /\ Len(operands) \in Nat /\ relocs \in Seq(RelocType) /\ location \in Nat
      /\ Top \in OperandType /\ (IsPush(Top) => IsLeaf(Top))
      /\ Below \in OperandType /\ (IsPush(Below) => IsLeaf(Below))
  <2>1. Len(operands) \in 1 .. Len(operands) /\ Len(operands) - 1 \in 1 .. Len(operands)
    BY <1>1, <1>2, ParseFacts
  <2> QED
    BY <1>2, <2>1, ParseFacts DEF Top, Below
<1>4. CASE IsNumber(Below) /\ IsNumber(Top)
  <2>1. PICK v : v = Apply2(op, Below.value, Top.value)
    OBVIOUS
  <2>2. /\ Top.value = Top.addend /\ Top.addend \in Int /\ IsPush(Top)
        /\ Below.value = Below.addend /\ Below.addend \in Int /\ IsPush(Below)
    BY <1>3, <1>4, NumberValue DEF IsNumber
  <2>3. v \in Int
    BY <1>1, <2>1, <2>2, Apply2IsNumber
  <2>4. PICK e : e = Operand("PUSH", "SYMBOL", NoSymbol, v, v)
    OBVIOUS
  <2>5. e \in OperandType /\ IsLeaf(e)
    BY <2>3, <2>4, NumberIsLeaf
  <2>6. operands' = Append(Drop(operands, 2), e) /\ relocs' = relocs
    BY <1>4, <2>1, <2>2, <2>4 DEF BinaryOp
  <2>7. IsPush(operands[Len(operands)]) /\ IsPush(operands[Len(operands) - 1])
    BY <2>2 DEF Top, Below
  <2> QED
    BY <1>1, <1>2, <2>5, <2>6, <2>7, LeavesAreFolded, ParseStep
<1>5. CASE ~ (IsNumber(Below) /\ IsNumber(Top))
  <2>1. PICK r : r = OpAt(location, Emitted(op, Below, Top))
    OBVIOUS
  <2>2. r \in RelocType
    <3>1. Below.value \in Int /\ Top.value \in Int
      BY <1>3 DEF OperandType
    <3>2. Emitted(op, Below, Top) \in Binary \cup Reverse
      BY <3>1, ReversedIs DEF Emitted
    <3> QED
      BY <1>3, <2>1, <3>2, RelocIsReloc
  <2>3. relocs' = relocs \o Pushed(Below) \o Pushed(Top) \o <<r>>
    BY <1>5, <2>1 DEF BinaryOp, OpAt, RelocAt, Reloc
  <2>4. PICK R1 : R1 = LeafFirst(relocs, location, Below)
    OBVIOUS
  <2>5. R1 \in Seq(RelocType) /\ R1 = relocs \o Pushed(Below)
    BY <1>3, <2>4, LeafFirstType, AddedIsAppended
  <2>6. PICK R2 : R2 = LeafFirst(R1, location, Top)
    OBVIOUS
  <2>7. R2 \in Seq(RelocType) /\ R2 = relocs \o Pushed(Below) \o Pushed(Top)
    BY <1>3, <2>5, <2>6, LeafFirstType, AddedIsAppended
  <2>8. relocs' = Append(R2, r)
    BY <2>2, <2>3, <2>7, AppendIsConcat
  <2>9. operands' = Append(Drop(operands, 2), Result(Apply2(op, Below.value, Top.value)))
    BY <1>5 DEF BinaryOp, Symbolic, Operand, Result
  <2> QED
    BY <1>1, <1>2, <2>1, <2>4, <2>6, <2>8, <2>9, TwoAreComputed, ParseStep DEF Top, Below
<1> QED
  BY <1>4, <1>5

LEMMA EndExpressionKeeps ==
  ASSUME IInv, EndExpression
  PROVE  IInv'
<1>1. /\ pc = "parse" /\ pc' = "parse" /\ ParseOK /\ source \in Source /\ Len(operands) = 1
      /\ operands' = <<>> /\ nodes' = 0 /\ location' = location + 1
      /\ UNCHANGED <<source, next, stack, fixed>>
  BY DEF IInv, EndExpression
<1>2. Parsed(relocs, operands, wanted, location, nodes, source.nodes)
  BY <1>1 DEF ParseOK
<1>3. Top = operands[1]
  BY <1>1 DEF Top
<1>4. Parsed(relocs', <<>>, wanted', location + 1, 0, source.nodes)
  <2>1. CASE IsNumber(Top)
    <3>1. relocs' = relocs /\ wanted' = wanted /\ IsPush(operands[1])
      BY <1>3, <2>1 DEF EndExpression, IsNumber
    <3> QED
      BY <1>1, <1>2, <3>1, NumberEnds
  <2>2. CASE ~ IsNumber(Top)
    <3>1. /\ relocs' = Append(relocs, RelocAt(location, "R_DATA", operands[1].part,
                                              operands[1].symbol, operands[1].addend))
          /\ wanted' = Append(wanted, operands[1].value)
      BY <1>3, <2>2 DEF EndExpression, Reloc, RelocAt
    <3> QED
      BY <1>1, <1>2, <3>1, RelocationEnds
  <2> QED
    BY <2>1, <2>2
<1>5. ParseOK'
  BY <1>1, <1>4 DEF ParseOK
<1> QED
  BY <1>1, <1>5 DEF IInv

LEMMA EndAssemblyKeeps ==
  ASSUME IInv, EndAssembly
  PROVE  IInv'
<1>1. /\ pc = "parse" /\ pc' = "link" /\ ParseOK /\ source \in Source /\ operands = <<>>
      /\ UNCHANGED <<source, relocs, wanted, location, next, stack, fixed>>
  BY DEF IInv, EndAssembly
<1>2. PICK most, n : most = source.nodes /\ n = nodes
  OBVIOUS
<1>3. Parsed(relocs, <<>>, wanted, location, n, most)
  BY <1>1, <1>2 DEF ParseOK
<1>4. PICK s : Ready(relocs, s, wanted, location, n + Len(<<>>) - 1, most) /\ Waiting(<<>>, s)
  BY <1>3 DEF Parsed
<1>5. s = <<>> /\ Len(<<>>) = 0
  <2>1. Len(<<>>) = 0
    OBVIOUS
  <2>2. Len(s) <= 0 /\ Len(s) \in Nat
    BY <1>4, <2>1, FewWait
  <2>3. s \in Seq(Int) /\ Len(s) = 0
    BY <1>4, <2>2 DEF Waiting
  <2> QED
    BY <2>1, <2>3
<1>6. Ready(relocs, <<>>, wanted, location, most, most)
  <2>1. n \in Nat /\ most \in Int /\ n <= most
    BY <1>3, <1>4, ReadyTypes DEF Parsed
  <2>2. n + Len(<<>>) - 1 <= most
    BY <1>5, <2>1
  <2> QED
    BY <1>4, <1>5, <2>1, <2>2, Higher
<1>7. PICK S, F : Kept(relocs, S, F, wanted, location, most, most) /\ S[Len(relocs)] = <<>>
  BY <1>6 DEF Ready
<1>8. LinkOK'
  <2>1. S[0] = <<>> /\ F[0] = <<>> /\ Len(relocs) \in Nat
    BY <1>7 DEF Kept
  <2>2. next = 1 /\ stack = <<>> /\ fixed = <<>> /\ next - 1 = 0 /\ next \in 1 .. Len(relocs) + 1
    BY <1>1, <2>1 DEF ParseOK
  <2>3. /\ Kept(relocs', S, F, wanted', location', source.nodes', source.nodes')
        /\ S[Len(relocs')] = <<>>
        /\ next' \in 1 .. Len(relocs') + 1
        /\ stack' = S[next' - 1] /\ fixed' = F[next' - 1]
        /\ pc' # "done" /\ pc' # "overflow"
    BY <1>1, <1>2, <1>7, <2>1, <2>2
  <2> QED
    BY <2>3 DEF LinkOK
<1> QED
  BY <1>1, <1>8 DEF IInv

LEMMA SyntaxErrorKeeps ==
  ASSUME IInv, SyntaxError
  PROVE  IInv'
BY DEF IInv, SyntaxError, ParseOK

----------------------------------------------------------------------------
(* The linker follows the relocations. *)

\* What LinkOK says of the relocation the linker is at.
At(S, F, n) ==
  /\ Kept(relocs, S, F, wanted, location, source.nodes, source.nodes)
  /\ S[Len(relocs)] = <<>>
  /\ n = Len(relocs) /\ n \in Nat
  /\ next \in 1 .. n
  /\ next - 1 \in 0 .. n /\ next \in 0 .. n
  /\ stack = S[next - 1] /\ fixed = F[next - 1]
  /\ stack \in Seq(Int) /\ S[next] \in Seq(Int)
  /\ relocs \in Seq(RelocType) /\ relocs[next] \in RelocType
  /\ Does(relocs[next], stack, S[next], fixed, F[next])
  /\ 3 * (Len(S[next]) - 1) <= source.nodes

LEMMA LinkFacts ==
  ASSUME LinkOK, next <= Len(relocs), source \in Source
  PROVE  \E S, F, n : At(S, F, n)
<1>1. PICK S, F :
        /\ Kept(relocs, S, F, wanted, location, source.nodes, source.nodes)
        /\ S[Len(relocs)] = <<>>
        /\ next \in 1 .. Len(relocs) + 1
        /\ stack = S[next - 1] /\ fixed = F[next - 1]
  BY DEF LinkOK
<1>2. PICK n \in Nat : n = Len(relocs)
  BY <1>1 DEF Kept
<1>3. next \in 1 .. n /\ next - 1 \in 0 .. n /\ next \in 0 .. n
  BY <1>1, <1>2
<1>4. relocs \in Seq(RelocType) /\ relocs[next] \in RelocType
  BY <1>1, <1>2, <1>3 DEF Kept
<1>5. S[next - 1] \in Seq(Int) /\ S[next] \in Seq(Int)
  BY <1>1, <1>2, <1>3 DEF Kept
<1>6. /\ Does(relocs[next], S[next - 1], S[next], F[next - 1], F[next])
      /\ 3 * (Len(S[next]) - 1) <= source.nodes
  BY <1>1, <1>2, <1>3 DEF Kept
<1> QED
  BY <1>1, <1>2, <1>3, <1>4, <1>5, <1>6 DEF At

\* The R_DATA relocation is the last of its location, and the stack is empty at
\* the first.
LEMMA EndsOfLocations ==
  ASSUME NEW S, NEW F, NEW n, At(S, F, n)
  PROVE  /\ IsLast(next) <=> relocs[next].op = "R_DATA"
         /\ IsFirst(next) <=> stack = <<>>
<1>1. /\ n \in Nat /\ n = Len(relocs) /\ next \in 1 .. n /\ DOMAIN relocs = 1 .. n
      /\ Kept(relocs, S, F, wanted, location, source.nodes, source.nodes)
      /\ stack = S[next - 1] /\ S[n] = <<>>
  BY DEF At
<1>2. \A k \in 1 .. n - 1 :
        relocs[k].op = "R_DATA" <=> relocs[k].offset # relocs[k + 1].offset
  BY <1>1 DEF Kept
<1>3. \A k \in 1 .. n :
        /\ S[k - 1] \in Seq(Int)
        /\ Does(relocs[k], S[k - 1], S[k], F[k - 1], F[k])
  <2> TAKE k \in 1 .. n
  <2>1. k - 1 \in 0 .. n
    BY <1>1
  <2> QED
    BY <1>1, <2>1 DEF Kept
<1>4. \A k \in 1 .. n : relocs[k].op = "R_DATA" <=> S[k] = <<>>
  BY <1>3, CalculatesSomething DEF Does
<1>5. IsLast(next) <=> relocs[next].op = "R_DATA"
  <2>1. CASE next = n
    <3>1. next + 1 \notin DOMAIN relocs
      BY <1>1, <2>1
    <3>2. IsLast(next)
      BY <3>1 DEF IsLast, SameLocation
    <3>3. relocs[next].op = "R_DATA"
      BY <1>1, <1>4, <2>1
    <3> QED
      BY <3>2, <3>3
  <2>2. CASE next # n
    <3>1. next \in 1 .. n - 1 /\ next + 1 \in DOMAIN relocs /\ next \in DOMAIN relocs
      BY <1>1, <2>2
    <3>2. IsLast(next) <=> relocs[next].offset # relocs[next + 1].offset
      BY <3>1 DEF IsLast, SameLocation
    <3> QED
      BY <1>2, <3>1, <3>2
  <2> QED
    BY <2>1, <2>2
<1>6. IsFirst(next) <=> stack = <<>>
  <2>1. CASE next = 1
    <3>1. next - 1 \notin DOMAIN relocs /\ next - 1 = 0
      BY <1>1, <2>1
    <3>2. IsFirst(next)
      BY <3>1 DEF IsFirst, SameLocation
    <3>3. stack = <<>>
      BY <1>1, <3>1 DEF Kept
    <3> QED
      BY <3>2, <3>3
  <2>2. CASE next # 1
    <3>1. /\ next - 1 \in 1 .. n - 1 /\ next - 1 \in 1 .. n /\ (next - 1) + 1 = next
          /\ next - 1 \in DOMAIN relocs /\ next \in DOMAIN relocs
      BY <1>1, <2>2
    <3>2. IsFirst(next) <=> relocs[next - 1].offset # relocs[next].offset
      BY <3>1 DEF IsFirst, SameLocation
    <3>3. relocs[next - 1].op = "R_DATA" <=> relocs[next - 1].offset # relocs[next].offset
      BY <1>2, <3>1
    <3>4. relocs[next - 1].op = "R_DATA" <=> S[next - 1] = <<>>
      BY <1>4, <3>1
    <3> QED
      BY <1>1, <3>2, <3>3, <3>4
  <2> QED
    BY <2>1, <2>2
<1> QED
  BY <1>5, <1>6

\* A step of the linker does what the relocation says.
LEMMA LinkStep ==
  ASSUME IInv, Linking, NEW S, NEW F, NEW n, At(S, F, n),
         stack' = S[next], fixed' = F[next],
         pc' = "link" \/ (pc' = "overflow" /\ source.nodes >= 3 * StackSize)
  PROVE  IInv'
<1>1. /\ source \in Source /\ next' = next + 1
      /\ UNCHANGED <<source, relocs, wanted, location>>
  BY DEF IInv, Linking
<1>2. PICK l : l = next
  OBVIOUS
<1>3. /\ Kept(relocs, S, F, wanted, location, source.nodes, source.nodes)
      /\ S[Len(relocs)] = <<>> /\ n = Len(relocs) /\ n \in Nat /\ l \in 1 .. n
  BY <1>2 DEF At
<1>4. next' = l + 1 /\ next' \in 1 .. Len(relocs) + 1 /\ next' - 1 = l
  BY <1>1, <1>2, <1>3
<1>5. /\ Kept(relocs', S, F, wanted', location', source.nodes', source.nodes')
      /\ S[Len(relocs')] = <<>>
      /\ next' \in 1 .. Len(relocs') + 1
      /\ stack' = S[next' - 1] /\ fixed' = F[next' - 1]
      /\ pc' # "done" /\ (pc' = "overflow" => source.nodes' >= 3 * StackSize)
  BY <1>1, <1>2, <1>3, <1>4
<1>6. LinkOK'
  BY <1>5 DEF LinkOK
<1> QED
  BY <1>1, <1>6 DEF IInv

LEMMA BeforeLink ==
  ASSUME IInv, Linking
  PROVE  pc = "link" /\ source \in Source /\ \E S, F, n : At(S, F, n)
<1>1. pc = "link" /\ LinkOK /\ source \in Source /\ next <= Len(relocs)
  BY DEF IInv, Linking
<1> QED
  BY <1>1, LinkFacts

LEMMA LinkPushKeeps ==
  ASSUME IInv, LinkPush
  PROVE  IInv'
<1>1. Linking /\ relocs[next].op = "PUSH" /\ Push(relocs[next]) /\ fixed' = fixed
  BY DEF LinkPush
<1>2. PICK S, F, n : At(S, F, n)
  BY <1>1, BeforeLink
<1>3. /\ S[next] = Append(stack, SymbolValue(relocs[next].part, relocs[next].symbol,
                                              relocs[next].addend))
      /\ F[next] = fixed
  BY <1>1, <1>2 DEF At, Does, Calculates, Unary, Binary, Reverse, Forward
<1>4. stack' = S[next] /\ fixed' = F[next]
  BY <1>1, <1>3 DEF Push
<1>5. pc' = "link" \/ (pc' = "overflow" /\ source.nodes >= 3 * StackSize)
  <2>1. CASE Len(stack) < StackSize
    BY <1>1, <2>1, BeforeLink DEF Push
  <2>2. CASE ~ (Len(stack) < StackSize)
    <3>1. pc' = "overflow"
      BY <1>1, <2>2 DEF Push
    <3>2. /\ stack \in Seq(Int) /\ S[next] \in Seq(Int) /\ 3 * (Len(S[next]) - 1) <= source.nodes
      BY <1>2 DEF At
    <3>3. PICK x : x = SymbolValue(relocs[next].part, relocs[next].symbol, relocs[next].addend)
      OBVIOUS
    <3>4. x \in Int
      <4>1. relocs[next] \in RelocType
        BY <1>2 DEF At
      <4> QED
        BY <3>3, <4>1, SymbolValueIsNumber DEF RelocType
    <3>5. Len(S[next]) = Len(stack) + 1 /\ Len(stack) \in Nat
      BY <1>3, <3>2, <3>3, <3>4
    <3>6. PICK l \in Nat : l = Len(stack)
      BY <3>5
    <3>7. l >= StackSize /\ StackSize \in Nat
      BY <2>2, <3>6, SymbolAssumption
    <3>8. 3 * (Len(S[next]) - 1) = 3 * l
      BY <3>5, <3>6
    <3>9. PICK most \in Nat : most = source.nodes
      BY <1>1, BeforeLink, SourceTypes
    <3>10. 3 * l <= most
      BY <3>2, <3>8, <3>9, Zenon
    <3>11. most >= 3 * StackSize
      BY <3>7, <3>10
    <3> QED
      BY <3>1, <3>9, <3>11
  <2> QED
    BY <2>1, <2>2
<1> QED
  BY <1>1, <1>2, <1>4, <1>5, LinkStep

LEMMA LinkUnaryKeeps ==
  ASSUME IInv, LinkUnary
  PROVE  IInv'
<1>1. /\ Linking /\ relocs[next].op \in Unary /\ pc' = pc /\ fixed' = fixed
      /\ stack' = [stack EXCEPT ![Len(stack)] = Apply1(relocs[next].op, @)]
  BY DEF LinkUnary
<1>2. PICK S, F, n : At(S, F, n)
  BY <1>1, BeforeLink
<1>3. /\ relocs[next].op \notin Binary \cup Reverse
      /\ relocs[next].op # "PUSH" /\ relocs[next].op # "R_DATA"
  BY <1>1 DEF Unary, Binary, Reverse, Forward
<1>4. Does(relocs[next], stack, S[next], fixed, F[next])
  BY <1>2 DEF At
<1>5. /\ S[next] = [stack EXCEPT ![Len(stack)] = Apply1(relocs[next].op, @)]
      /\ F[next] = fixed
  BY <1>3, <1>4, Zenon DEF Does, Calculates
<1>6. stack' = S[next] /\ fixed' = F[next]
  BY <1>1, <1>5, Zenon
<1>7. pc' = "link"
  BY <1>1, BeforeLink
<1> QED
  BY <1>1, <1>2, <1>6, <1>7, LinkStep

LEMMA LinkBinaryKeeps ==
  ASSUME IInv, LinkBinary
  PROVE  IInv'
<1>1. /\ Linking /\ relocs[next].op \in Binary \cup Reverse /\ pc' = pc /\ fixed' = fixed
      /\ stack' = Append(Drop(stack, 2),
           IF relocs[next].op \in Reverse
           THEN Apply2(Forward[relocs[next].op], stack[Len(stack)], stack[Len(stack) - 1])
           ELSE Apply2(relocs[next].op, stack[Len(stack) - 1], stack[Len(stack)]))
  BY DEF LinkBinary
<1>2. PICK S, F, n : At(S, F, n)
  BY <1>1, BeforeLink
<1>3. /\ relocs[next].op \notin Unary
      /\ relocs[next].op # "PUSH" /\ relocs[next].op # "R_DATA"
  BY <1>1 DEF Unary, Binary, Reverse, Forward
<1>4. Does(relocs[next], stack, S[next], fixed, F[next])
  BY <1>2 DEF At
<1>5. /\ S[next] = Append(Drop(stack, 2),
           IF relocs[next].op \in Reverse
           THEN Apply2(Forward[relocs[next].op], stack[Len(stack)], stack[Len(stack) - 1])
           ELSE Apply2(relocs[next].op, stack[Len(stack) - 1], stack[Len(stack)]))
      /\ F[next] = fixed
  BY <1>3, <1>4, Zenon DEF Does, Calculates
<1>6. stack' = S[next] /\ fixed' = F[next]
  BY <1>1, <1>5, Zenon
<1>7. pc' = "link"
  BY <1>1, BeforeLink
<1> QED
  BY <1>1, <1>2, <1>6, <1>7, LinkStep

LEMMA FixSingleKeeps ==
  ASSUME IInv, FixSingle
  PROVE  IInv'
<1>1. /\ Linking /\ IsLast(next) /\ IsFirst(next) /\ pc' = pc /\ stack' = stack
      /\ fixed' = Append(fixed, SymbolValue(relocs[next].part, relocs[next].symbol,
                                             relocs[next].addend))
  BY DEF FixSingle
<1>2. PICK S, F, n : At(S, F, n)
  BY <1>1, BeforeLink
<1>3. relocs[next].op = "R_DATA" /\ stack = <<>>
  BY <1>1, <1>2, EndsOfLocations
<1>4. Does(relocs[next], stack, S[next], fixed, F[next])
  BY <1>2 DEF At
<1>5. S[next] = <<>> /\ F[next] = Append(fixed, Found(relocs[next], stack))
  BY <1>3, <1>4, Zenon DEF Does
<1>6. stack' = S[next] /\ fixed' = F[next]
  BY <1>1, <1>3, <1>5 DEF Found
<1>7. pc' = "link"
  BY <1>1, BeforeLink
<1> QED
  BY <1>1, <1>2, <1>6, <1>7, LinkStep

LEMMA FixExpressionKeeps ==
  ASSUME IInv, FixExpression
  PROVE  IInv'
<1>1. /\ Linking /\ IsLast(next) /\ ~ IsFirst(next) /\ pc' = pc /\ stack' = <<>>
      /\ fixed' = Append(fixed, stack[1])
  BY DEF FixExpression
<1>2. PICK S, F, n : At(S, F, n)
  BY <1>1, BeforeLink
<1>3. relocs[next].op = "R_DATA" /\ stack # <<>>
  BY <1>1, <1>2, EndsOfLocations
<1>4. Does(relocs[next], stack, S[next], fixed, F[next])
  BY <1>2 DEF At
<1>5. S[next] = <<>> /\ F[next] = Append(fixed, Found(relocs[next], stack))
  BY <1>3, <1>4, Zenon DEF Does
<1>6. stack' = S[next] /\ fixed' = F[next]
  BY <1>1, <1>3, <1>5 DEF Found
<1>7. pc' = "link"
  BY <1>1, BeforeLink
<1> QED
  BY <1>1, <1>2, <1>6, <1>7, LinkStep

LEMMA EndLinkKeeps ==
  ASSUME IInv, EndLink
  PROVE  IInv'
<1>1. /\ pc = "link" /\ pc' = "done" /\ LinkOK /\ source \in Source /\ next > Len(relocs)
      /\ UNCHANGED <<source, relocs, wanted, location, next, stack, fixed>>
  BY DEF IInv, EndLink
<1>2. PICK S, F :
        /\ Kept(relocs, S, F, wanted, location, source.nodes, source.nodes)
        /\ S[Len(relocs)] = <<>>
        /\ next \in 1 .. Len(relocs) + 1
        /\ stack = S[next - 1] /\ fixed = F[next - 1]
  BY <1>1 DEF LinkOK
<1>3. next = Len(relocs) + 1
  <2>1. Len(relocs) \in Nat
    BY <1>2 DEF Kept
  <2> QED
    BY <1>1, <1>2, <2>1
<1>4. /\ Kept(relocs', S, F, wanted', location', source.nodes', source.nodes')
      /\ S[Len(relocs')] = <<>>
      /\ next' \in 1 .. Len(relocs') + 1
      /\ stack' = S[next' - 1] /\ fixed' = F[next' - 1]
      /\ next' = Len(relocs') + 1 /\ pc' # "overflow"
  BY <1>1, <1>2, <1>3
<1>5. LinkOK'
  BY <1>4 DEF LinkOK
<1> QED
  BY <1>1, <1>5 DEF IInv

LEMMA StutterKeeps ==
  ASSUME IInv, UNCHANGED vars
  PROVE  IInv'
BY DEF IInv, vars, ParseOK, LinkOK

\* The invariant holds of every state.
THEOREM Invariance == Spec => []IInv
<1>1. Init => IInv
  BY Initially
<1>2. IInv /\ [Next]_vars => IInv'
  <2> SUFFICES ASSUME IInv, [Next]_vars PROVE IInv'
    OBVIOUS
  <2>1. CASE \E n \in source.numbers : Number(n)
    BY <2>1, NumberKeeps
  <2>2. CASE \E r \in source.parts : Name(r[1], r[2])
    BY <2>2, NameKeeps
  <2>3. CASE \E op \in source.operators \cap Unary : UnaryOp(op)
    BY <2>3, UnaryOpKeeps
  <2>4. CASE \E op \in source.operators \cap Binary : AddToAddend(op)
    BY <2>4, AddToAddendKeeps
  <2>5. CASE \E op \in source.operators \cap Binary : BinaryOp(op)
    BY <2>5, BinaryOpKeeps
  <2>6. CASE EndExpression
    BY <2>6, EndExpressionKeeps
  <2>7. CASE EndAssembly
    BY <2>7, EndAssemblyKeeps
  <2>8. CASE SyntaxError
    BY <2>8, SyntaxErrorKeeps
  <2>9. CASE LinkPush
    BY <2>9, LinkPushKeeps
  <2>10. CASE LinkUnary
    BY <2>10, LinkUnaryKeeps
  <2>11. CASE LinkBinary
    BY <2>11, LinkBinaryKeeps
  <2>12. CASE FixSingle
    BY <2>12, FixSingleKeeps
  <2>13. CASE FixExpression
    BY <2>13, FixExpressionKeeps
  <2>14. CASE EndLink
    BY <2>14, EndLinkKeeps
  <2>15. CASE Stopped
    BY <2>15, StutterKeeps DEF Stopped
  <2>16. CASE UNCHANGED vars
    BY <2>16, StutterKeeps
  <2> QED
    BY <2>1, <2>2, <2>3, <2>4, <2>5, <2>6, <2>7, <2>8, <2>9, <2>10, <2>11, <2>12, <2>13,
       <2>14, <2>15, <2>16 DEF Next
<1> QED
  BY <1>1, <1>2, PTL DEF Spec

\* Whatever the assembler folded, carried as an addend or reversed, the linker
\* gives a location the value of its expression (binary_op and the
\* additive_expression rules of as21, relocation_expression of ld21).
THEOREM Linked == Spec => []LinkedValue
<1>1. IInv => LinkedValue
  <2> SUFFICES ASSUME IInv PROVE \A i \in DOMAIN fixed : fixed[i] = wanted[i]
    BY DEF LinkedValue
  <2>1. CASE fixed = <<>>
    BY <2>1
  <2>2. CASE LinkOK
    <3>1. PICK S, F :
            /\ Kept(relocs, S, F, wanted, location, source.nodes, source.nodes)
            /\ next \in 1 .. Len(relocs) + 1 /\ fixed = F[next - 1]
      BY <2>2 DEF LinkOK
    <3>2. Len(relocs) \in Nat
      BY <3>1 DEF Kept
    <3>3. next - 1 \in 0 .. Len(relocs)
      BY <3>1, <3>2
    <3>4. Agrees(fixed, wanted) /\ fixed \in Seq(Int)
      BY <3>1, <3>3 DEF Kept
    <3> QED
      BY <3>4 DEF Agrees
  <2> QED
    BY <2>1, <2>2 DEF IInv, ParseOK
<1> QED
  BY <1>1, Invariance, PTL

\* relocate passes over no location the assembler left open.
THEOREM Fixed == Spec => []EveryLocationIsFixed
<1>1. IInv => EveryLocationIsFixed
  <2> SUFFICES ASSUME IInv, pc = "done" PROVE Len(fixed) = Len(wanted)
    BY DEF EveryLocationIsFixed
  <2>1. PICK S, F :
          /\ Kept(relocs, S, F, wanted, location, source.nodes, source.nodes)
          /\ next = Len(relocs) + 1 /\ fixed = F[next - 1]
    BY DEF IInv, LinkOK
  <2>2. Len(relocs) \in Nat
    BY <2>1 DEF Kept
  <2>3. next - 1 = Len(relocs)
    BY <2>1, <2>2
  <2>4. fixed = wanted
    BY <2>1, <2>3 DEF Kept
  <2> QED
    BY <2>4
<1> QED
  BY <1>1, Invariance, PTL

\* relocation_expression finds its operands, leaves one value, and its stack of
\* StackSize entries, which has no check, is too small only for an expression of
\* at least three times as many leaves and operators.
THEOREM Stack == Spec => []StackIsSound
<1>1. IInv => StackIsSound
  <2> SUFFICES ASSUME IInv PROVE StackIsSound
    OBVIOUS
  <2>1. pc = "overflow" => source.nodes >= 3 * StackSize
    BY DEF IInv, LinkOK
  <2>2. ASSUME pc = "link", next <= Len(relocs)
        PROVE  /\ IsFirst(next) => stack = <<>>
               /\ IsLast(next) /\ ~ IsFirst(next) => Len(stack) = 1
               /\ ~ IsLast(next) /\ relocs[next].op \in Unary => Len(stack) >= 1
               /\ ~ IsLast(next) /\ relocs[next].op \in Binary \cup Reverse => Len(stack) >= 2
    <3>1. LinkOK /\ source \in Source
      BY <2>2 DEF IInv
    <3>2. PICK S, F, n : At(S, F, n)
      BY <2>2, <3>1, LinkFacts
    <3>3. /\ IsLast(next) <=> relocs[next].op = "R_DATA"
          /\ IsFirst(next) <=> stack = <<>>
      BY <3>2, EndsOfLocations
    <3>4. Does(relocs[next], stack, S[next], fixed, F[next]) /\ stack \in Seq(Int)
      BY <3>2 DEF At
    <3>5. ASSUME IsLast(next), ~ IsFirst(next)
          PROVE  Len(stack) = 1
      <4>3. relocs[next].op = "R_DATA" /\ stack # <<>>
        BY <3>3, <3>5, Zenon
      <4>1. Len(stack) <= 1 /\ stack # <<>>
        BY <3>4, <4>3, Zenon DEF Does
      <4>2. PICK l \in Nat : l = Len(stack) /\ l # 0
        BY <3>4, <4>1
      <4>4. l <= 1
        BY <4>1, <4>2, Zenon
      <4>5. l = 1
        BY <4>2, <4>4
      <4> QED
        BY <4>2, <4>5
    <3>6. ASSUME ~ IsLast(next), relocs[next].op \in Unary
          PROVE  Len(stack) >= 1
      <4>1. relocs[next].op \notin Binary \cup Reverse \cup {"PUSH", "R_DATA"}
        BY <3>6 DEF Unary, Binary, Reverse, Forward
      <4> QED
        BY <3>4, <4>1 DEF Does, Calculates
    <3>7. ASSUME ~ IsLast(next), relocs[next].op \in Binary \cup Reverse
          PROVE  Len(stack) >= 2
      <4>1. relocs[next].op \notin Unary \cup {"PUSH", "R_DATA"}
        BY <3>7 DEF Unary, Binary, Reverse, Forward
      <4> QED
        BY <3>4, <4>1 DEF Does, Calculates
    <3> QED
      BY <3>3, <3>5, <3>6, <3>7
  <2> QED
    BY <2>1, <2>2 DEF StackIsSound
<1> QED
  BY <1>1, Invariance, PTL
=============================================================================
