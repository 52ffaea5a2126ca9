-------------------------- MODULE Assembly_proof --------------------------
(***************************************************************************)
(* Proofs about the object file that as21 makes (Assembly).                *)
(*                                                                         *)
(* The pages of a section and its location counter are kept apart; the     *)
(* invariant says that they agree.  Counts: the counter is where           *)
(* create_elf_data puts the next word.  Found, Marked, Met: a label, a     *)
(* relocation, an aligned word has the place of its word.  All of that is  *)
(* a consequence of how sums over pages change: words are only added on    *)
(* the last page (Extends), .ALIGN changes the delta of a last page        *)
(* without words (AlignsLast), and /CIRC that of the page on which its     *)
(* variables begin (AlignsPage), which moves every word from there on.     *)
(* Spread: variables share no location and end before the counter, the     *)
(* one whose words are being emitted (Pending) as far as they are.  Begun, *)
(* BegunAt, Aside: a circular buffer begins on a page of its own, and what *)
(* is in its section is before it or in it, so that align_symbols moves    *)
(* what has to move.                                                       *)
(*                                                                         *)
(* Facts about sums, pages and sections are proved first for any section;  *)
(* then for any list of sections and any symbols; then one lemma per       *)
(* action says that it keeps the invariant.                                *)
(***************************************************************************)
EXTENDS Assembly, NaturalsInduction, SequenceTheorems, WellFoundedInduction, TLAPS

----------------------------------------------------------------------------
(* Arithmetic of alignments. *)

LEMMA ThePowers ==
  PowersOf2 = {1, 2, 4, 8, 16, 32, 64, 128, 256, 512, 1024, 2048, 4096, 8192, 16384}
<1>1. /\ 2^0 = 1 /\ 2^1 = 2 /\ 2^2 = 4 /\ 2^3 = 8 /\ 2^4 = 16 /\ 2^5 = 32
      /\ 2^6 = 64 /\ 2^7 = 128
  OBVIOUS
<1>2. /\ 2^8 = 256 /\ 2^9 = 512 /\ 2^10 = 1024 /\ 2^11 = 2048 /\ 2^12 = 4096
      /\ 2^13 = 8192 /\ 2^14 = 16384
  OBVIOUS
<1>3. PowersOf2 = {2^0, 2^1, 2^2, 2^3, 2^4, 2^5, 2^6, 2^7, 2^8, 2^9, 2^10, 2^11, 2^12,
                   2^13, 2^14}
  <2>1. 0 .. 14 = {0, 1, 2, 3, 4, 5, 6, 7, 8, 9, 10, 11, 12, 13, 14}
    OBVIOUS
  <2>2. PowersOf2 = {2^k : k \in {0, 1, 2, 3, 4, 5, 6, 7, 8, 9, 10, 11, 12, 13, 14}}
    BY <2>1, Zenon DEF PowersOf2
  <2> QED
    BY <2>2, Zenon
<1> QED
  BY <1>1, <1>2, <1>3

LEMMA PowersAreNumbers ==
  ASSUME NEW a \in PowersOf2
  PROVE  a \in Nat /\ a >= 1
BY ThePowers

\* outfile_align finds a power of two below its limit.
LEMMA PowerIsLarge ==
  ASSUME NEW by \in Nat, by <= 16384
  PROVE  PowerOf2(by) \in PowersOf2 /\ PowerOf2(by) >= by
<1> DEFINE Fits(a) == a >= by /\ (a = 1 \/ a \div 2 < by)
<1>1. \E a \in PowersOf2 : Fits(a)
  <2>1. CASE by <= 1
    <3>1. Fits(1) /\ 1 \in PowersOf2
      BY <2>1, ThePowers
    <3> QED
      BY <3>1
  <2>2. CASE by > 1 /\ by <= 256
    <3>1. \/ Fits(2) \/ Fits(4) \/ Fits(8) \/ Fits(16) \/ Fits(32) \/ Fits(64)
          \/ Fits(128) \/ Fits(256)
      BY <2>2
    <3> HIDE DEF Fits
    <3> QED
      BY <3>1, ThePowers
  <2>3. CASE by > 256
    <3>1. \/ Fits(512) \/ Fits(1024) \/ Fits(2048) \/ Fits(4096) \/ Fits(8192)
          \/ Fits(16384)
      BY <2>3
    <3> HIDE DEF Fits
    <3> QED
      BY <3>1, ThePowers
  <2> QED
    BY <2>1, <2>2, <2>3
<1>2. PowerOf2(by) = CHOOSE a \in PowersOf2 : Fits(a)
  BY DEF PowerOf2
<1>3. PowerOf2(by) \in PowersOf2 /\ Fits(PowerOf2(by))
  <2> HIDE DEF Fits
  <2> QED
    BY <1>1, <1>2
<1> QED
  BY <1>3

\* The smaller of two powers of two divides the larger.
LEMMA PowersDivide ==
  ASSUME NEW a \in PowersOf2, NEW b \in PowersOf2, a <= b, NEW x \in Nat, x % b = 0
  PROVE  x % a = 0
<1>1. b \in {1, 2, 4, 8, 16, 32, 64, 128, 256, 512, 1024, 2048, 4096, 8192, 16384}
  BY ThePowers
<1>2. CASE a = 1
  BY <1>1, <1>2
<1>3. CASE a = 2
  BY <1>1, <1>3
<1>4. CASE a = 4
  BY <1>1, <1>4
<1>5. CASE a = 8
  BY <1>1, <1>5
<1>6. CASE a = 16
  BY <1>1, <1>6
<1>7. CASE a = 32
  BY <1>1, <1>7
<1>8. CASE a = 64
  BY <1>1, <1>8
<1>9. CASE a = 128
  BY <1>1, <1>9
<1>10. CASE a = 256
  BY <1>1, <1>10
<1>11. CASE a = 512
  BY <1>1, <1>11
<1>12. CASE a = 1024
  BY <1>1, <1>12
<1>13. CASE a = 2048
  BY <1>1, <1>13
<1>14. CASE a = 4096
  BY <1>1, <1>14
<1>15. CASE a = 8192
  BY <1>1, <1>15
<1>16. CASE a = 16384
  BY <1>1, <1>16
<1> QED
  BY ThePowers, <1>2, <1>3, <1>4, <1>5, <1>6, <1>7, <1>8, <1>9, <1>10, <1>11, <1>12, <1>13,
     <1>14, <1>15, <1>16

\* The words that alignment skips: up to the next multiple, none at one.
LEMMA SkipAligns ==
  ASSUME NEW a \in PowersOf2, NEW x \in Nat
  PROVE  /\ Skip(x, a) \in Nat /\ (x + Skip(x, a)) % a = 0
         /\ x % a = 0 => Skip(x, a) = 0
<1>1. Skip(x, a) = ((x + a - 1) \div a) * a - x
  BY DEF Skip
<1>2. CASE a = 1
  BY <1>1, <1>2
<1>3. CASE a = 2
  BY <1>1, <1>3
<1>4. CASE a = 4
  BY <1>1, <1>4
<1>5. CASE a = 8
  BY <1>1, <1>5
<1>6. CASE a = 16
  BY <1>1, <1>6
<1>7. CASE a = 32
  BY <1>1, <1>7
<1>8. CASE a = 64
  BY <1>1, <1>8
<1>9. CASE a = 128
  BY <1>1, <1>9
<1>10. CASE a = 256
  BY <1>1, <1>10
<1>11. CASE a = 512
  BY <1>1, <1>11
<1>12. CASE a = 1024
  BY <1>1, <1>12
<1>13. CASE a = 2048
  BY <1>1, <1>13
<1>14. CASE a = 4096
  BY <1>1, <1>14
<1>15. CASE a = 8192
  BY <1>1, <1>15
<1>16. CASE a = 16384
  BY <1>1, <1>16
<1> QED
  BY ThePowers, <1>2, <1>3, <1>4, <1>5, <1>6, <1>7, <1>8, <1>9, <1>10, <1>11, <1>12, <1>13,
     <1>14, <1>15, <1>16

----------------------------------------------------------------------------
(* Sums. *)

\* Induction: a set of counterexamples has a least one.
LEMMA Least ==
  ASSUME NEW T, T \subseteq Nat, T # {}
  PROVE  \E m \in T : \A y \in T : m <= y
<1> DEFINE R == OpToRel(<, Nat)
<1>1. IsWellFoundedOn(R, Nat)
  BY NatLessThanWellFounded
<1>2. \A x, y \in Nat : <<y, x>> \in R <=> y < x
  BY DEF OpToRel
<1> HIDE DEF R
<1>3. PICK m \in T : \A y \in T : ~ (<<y, m>> \in R)
  BY <1>1, WFMin
<1>4. ASSUME NEW y \in T
      PROVE  m <= y
  <2>1. y \in Nat /\ m \in Nat
    OBVIOUS
  <2>2. ~ (y < m)
    BY <1>2, <1>3, <2>1
  <2> QED
    BY <2>1, <2>2
<1> QED
  BY <1>4

\* What a recursive function computes: the sums of the first numbers of a.
SumsOf(f, a, n) == f = [k \in 0 .. n |-> IF k = 0 THEN 0 ELSE f[k - 1] + a[k]]

LEMMA SumsExist ==
  ASSUME NEW a, NEW n \in Nat
  PROVE  \E f : SumsOf(f, a, n)
<1> DEFINE T == {m \in Nat : ~ \E f : SumsOf(f, a, m)}
<1>1. SUFFICES ASSUME T # {} PROVE FALSE
  OBVIOUS
<1>2. PICK m \in T : \A y \in T : m <= y
  <2>1. T \subseteq Nat
    OBVIOUS
  <2> HIDE DEF T
  <2> QED
    BY <1>1, <2>1, Least
<1>3. m \in Nat /\ ~ \E f : SumsOf(f, a, m)
  OBVIOUS
<1>4. CASE m = 0
  <2> DEFINE f == [k \in 0 .. 0 |-> 0]
  <2>1. f = [k \in 0 .. 0 |-> IF k = 0 THEN 0 ELSE f[k - 1] + a[k]]
    OBVIOUS
  <2> HIDE DEF f
  <2>2. SumsOf(f, a, m)
    BY <1>4, <2>1 DEF SumsOf
  <2> QED
    BY <1>3, <2>2
<1>5. CASE m # 0
  <2>1. m - 1 \in Nat /\ ~ (m <= m - 1)
    BY <1>3, <1>5
  <2>2. m - 1 \notin T
    <3> HIDE DEF T
    <3> QED
      BY <1>2, <2>1
  <2>3. PICK f : SumsOf(f, a, m - 1)
    BY <2>1, <2>2
  <2> DEFINE g == [k \in 0 .. m |-> IF k = m THEN f[m - 1] + a[m] ELSE f[k]]
  <2>4. \A k \in 0 .. m - 1 : f[k] = IF k = 0 THEN 0 ELSE f[k - 1] + a[k]
    BY <2>3 DEF SumsOf
  <2>5. ASSUME NEW k \in 0 .. m
        PROVE  g[k] = IF k = 0 THEN 0 ELSE g[k - 1] + a[k]
    <3>1. CASE k = m
      BY <1>3, <1>5, <2>1, <3>1
    <3>2. CASE k # m
      BY <1>3, <2>1, <2>4, <3>2
    <3> QED
      BY <3>1, <3>2
  <2>6. g = [k \in 0 .. m |-> g[k]]
    OBVIOUS
  <2> HIDE DEF g
  <2>7. SumsOf(g, a, m)
    BY <2>5, <2>6 DEF SumsOf
  <2> QED
    BY <1>3, <2>7
<1> QED
  BY <1>4, <1>5

\* f and g are sums of the same first m numbers.
SumsOfSame(f, a, n, g, b, m) ==
  m <= n /\ SumsOf(f, a, n) /\ SumsOf(g, b, m) /\ \A k \in 1 .. m : a[k] = b[k]
SameAt(f, g, m) == f[m] = g[m]

LEMMA SumsAgree ==
  ASSUME NEW a, NEW b, NEW n \in Nat, NEW m \in Nat, NEW f, NEW g,
         SumsOfSame(f, a, n, g, b, m)
  PROVE  SameAt(f, g, m)
<1> m <= n /\ SumsOf(f, a, n) /\ SumsOf(g, b, m) /\ \A k \in 1 .. m : a[k] = b[k]
  BY DEF SumsOfSame
<1> DEFINE T == {k \in 0 .. m : f[k] # g[k]}
<1>1. \A k \in 0 .. m : f[k] = IF k = 0 THEN 0 ELSE f[k - 1] + a[k]
  BY DEF SumsOf
<1>2. \A k \in 0 .. m : g[k] = IF k = 0 THEN 0 ELSE g[k - 1] + b[k]
  BY DEF SumsOf
<1>3. T = {}
  <2>1. SUFFICES ASSUME T # {} PROVE FALSE
    OBVIOUS
  <2>2. PICK k \in T : \A y \in T : k <= y
    <3>1. T \subseteq Nat
      OBVIOUS
    <3> HIDE DEF T
    <3> QED
      BY <2>1, <3>1, Least
  <2>3. k \in 0 .. m /\ f[k] # g[k]
    OBVIOUS
  <2>4. k # 0
    BY <1>1, <1>2, <2>3
  <2>5. k - 1 \in 0 .. m /\ ~ (k <= k - 1) /\ k \in 1 .. m
    BY <2>3, <2>4
  <2>6. k - 1 \notin T
    <3> HIDE DEF T
    <3> QED
      BY <2>2, <2>5
  <2>7. f[k - 1] = g[k - 1]
    BY <2>5, <2>6
  <2> HIDE DEF T
  <2> QED
    BY <1>1, <1>2, <2>3, <2>4, <2>5, <2>7
<1> QED
  BY <1>3 DEF SameAt

WordsOf(s, i) == [k \in 1 .. i |-> s.pages[k].words]
DeltasOf(s, i) == [k \in 1 .. i |-> s.pages[k].delta]

LEMMA WordsAreSums ==
  ASSUME NEW s, NEW i \in Nat
  PROVE  \E f : SumsOf(f, WordsOf(s, i), i) /\ WordsUpTo(s, i) = f[i]
<1> DEFINE P(f) == f = [k \in 0 .. i |->
                          IF k = 0 THEN 0 ELSE f[k - 1] + s.pages[k].words]
           Q(f) == SumsOf(f, WordsOf(s, i), i)
<1>1. ASSUME NEW f PROVE P(f) <=> Q(f)
  <2>1. ASSUME NEW k \in 0 .. i
        PROVE  (IF k = 0 THEN 0 ELSE f[k - 1] + s.pages[k].words)
                 = (IF k = 0 THEN 0 ELSE f[k - 1] + WordsOf(s, i)[k])
    <3>1. CASE k = 0
      BY <3>1
    <3>2. CASE k # 0
      <4>1. k \in 1 .. i
        BY <3>2
      <4> QED
        BY <4>1 DEF WordsOf
    <3> QED
      BY <3>1, <3>2
  <2>2. [k \in 0 .. i |-> IF k = 0 THEN 0 ELSE f[k - 1] + s.pages[k].words]
          = [k \in 0 .. i |-> IF k = 0 THEN 0 ELSE f[k - 1] + WordsOf(s, i)[k]]
    BY <2>1, Zenon
  <2> QED
    BY <2>2, Zenon DEF SumsOf
<1>2. WordsUpTo(s, i) = (CHOOSE f : P(f))[i]
  BY DEF WordsUpTo
<1>3. (CHOOSE f : P(f)) = (CHOOSE f : Q(f))
  <2> HIDE DEF P, Q
  <2> QED
    BY <1>1, Zenon
<1>4. \E f : Q(f)
  BY SumsExist
<1>5. Q(CHOOSE f : Q(f))
  <2> HIDE DEF Q
  <2> QED
    BY <1>4, Zenon
<1>6. WordsUpTo(s, i) = (CHOOSE f : Q(f))[i]
  <2> HIDE DEF P, Q
  <2> QED
    BY <1>2, <1>3, Zenon
<1> QED
  <2>1. PICK f : f = CHOOSE g : Q(g)
    OBVIOUS
  <2>2. Q(f) /\ WordsUpTo(s, i) = f[i]
    <3> HIDE DEF Q
    <3> QED
      BY <1>5, <1>6, <2>1, Zenon
  <2> QED
    BY <2>2, Zenon

LEMMA DeltasAreSums ==
  ASSUME NEW s, NEW i \in Nat
  PROVE  \E f : SumsOf(f, DeltasOf(s, i), i) /\ DeltasUpTo(s, i) = f[i]
<1> DEFINE P(f) == f = [k \in 0 .. i |->
                          IF k = 0 THEN 0 ELSE f[k - 1] + s.pages[k].delta]
           Q(f) == SumsOf(f, DeltasOf(s, i), i)
<1>1. ASSUME NEW f PROVE P(f) <=> Q(f)
  <2>1. ASSUME NEW k \in 0 .. i
        PROVE  (IF k = 0 THEN 0 ELSE f[k - 1] + s.pages[k].delta)
                 = (IF k = 0 THEN 0 ELSE f[k - 1] + DeltasOf(s, i)[k])
    <3>1. CASE k = 0
      BY <3>1
    <3>2. CASE k # 0
      <4>1. k \in 1 .. i
        BY <3>2
      <4> QED
        BY <4>1 DEF DeltasOf
    <3> QED
      BY <3>1, <3>2
  <2>2. [k \in 0 .. i |-> IF k = 0 THEN 0 ELSE f[k - 1] + s.pages[k].delta]
          = [k \in 0 .. i |-> IF k = 0 THEN 0 ELSE f[k - 1] + DeltasOf(s, i)[k]]
    BY <2>1, Zenon
  <2> QED
    BY <2>2, Zenon DEF SumsOf
<1>2. DeltasUpTo(s, i) = (CHOOSE f : P(f))[i]
  BY DEF DeltasUpTo
<1>3. (CHOOSE f : P(f)) = (CHOOSE f : Q(f))
  <2> HIDE DEF P, Q
  <2> QED
    BY <1>1, Zenon
<1>4. \E f : Q(f)
  BY SumsExist
<1>5. Q(CHOOSE f : Q(f))
  <2> HIDE DEF Q
  <2> QED
    BY <1>4, Zenon
<1>6. DeltasUpTo(s, i) = (CHOOSE f : Q(f))[i]
  <2> HIDE DEF P, Q
  <2> QED
    BY <1>2, <1>3, Zenon
<1> QED
  <2>1. PICK f : f = CHOOSE g : Q(g)
    OBVIOUS
  <2>2. Q(f) /\ DeltasUpTo(s, i) = f[i]
    <3> HIDE DEF Q
    <3> QED
      BY <1>5, <1>6, <2>1, Zenon
  <2> QED
    BY <2>2, Zenon

LEMMA PageFields ==
  ASSUME NEW s, s.pages \in Seq(Page), NEW k \in 1 .. Len(s.pages)
  PROVE  s.pages[k].words \in Nat /\ s.pages[k].delta \in Nat
<1>1. s.pages[k] \in Page
  BY ElementOfSeq
<1> QED
  BY <1>1 DEF Page

LEMMA SumsStep ==
  ASSUME NEW s, NEW i \in Nat
  PROVE  /\ WordsUpTo(s, 0) = 0 /\ DeltasUpTo(s, 0) = 0
         /\ WordsUpTo(s, i + 1) = WordsUpTo(s, i) + s.pages[i + 1].words
         /\ DeltasUpTo(s, i + 1) = DeltasUpTo(s, i) + s.pages[i + 1].delta
<1>1. WordsUpTo(s, 0) = 0
  <2>1. PICK f : SumsOf(f, WordsOf(s, 0), 0) /\ WordsUpTo(s, 0) = f[0]
    BY WordsAreSums
  <2> QED
    BY <2>1 DEF SumsOf
<1>2. DeltasUpTo(s, 0) = 0
  <2>1. PICK f : SumsOf(f, DeltasOf(s, 0), 0) /\ DeltasUpTo(s, 0) = f[0]
    BY DeltasAreSums
  <2> QED
    BY <2>1 DEF SumsOf
<1> PICK j \in Nat : j = i + 1
  OBVIOUS
<1>3. WordsUpTo(s, j) = WordsUpTo(s, i) + s.pages[j].words
  <2>1. PICK f : SumsOf(f, WordsOf(s, i), i) /\ WordsUpTo(s, i) = f[i]
    BY WordsAreSums
  <2>2. PICK g : SumsOf(g, WordsOf(s, j), j) /\ WordsUpTo(s, j) = g[j]
    BY WordsAreSums
  <2>3. g[j] = g[i] + WordsOf(s, j)[j]
    BY <2>2 DEF SumsOf
  <2>4. WordsOf(s, j)[j] = s.pages[j].words
    BY DEF WordsOf
  <2>5. \A k \in 1 .. i : WordsOf(s, j)[k] = WordsOf(s, i)[k]
    BY DEF WordsOf
  <2>6. g[i] = f[i]
    <3>1. i <= j
      OBVIOUS
    <3>2. SumsOfSame(g, WordsOf(s, j), j, f, WordsOf(s, i), i)
      BY <2>1, <2>2, <2>5, <3>1 DEF SumsOfSame
    <3>3. SameAt(g, f, i)
      BY <3>2, SumsAgree, Zenon
    <3> QED
      BY <3>3 DEF SameAt
  <2> QED
    BY <2>1, <2>2, <2>3, <2>4, <2>6
<1>4. DeltasUpTo(s, j) = DeltasUpTo(s, i) + s.pages[j].delta
  <2>1. PICK f : SumsOf(f, DeltasOf(s, i), i) /\ DeltasUpTo(s, i) = f[i]
    BY DeltasAreSums
  <2>2. PICK g : SumsOf(g, DeltasOf(s, j), j) /\ DeltasUpTo(s, j) = g[j]
    BY DeltasAreSums
  <2>3. g[j] = g[i] + DeltasOf(s, j)[j]
    BY <2>2 DEF SumsOf
  <2>4. DeltasOf(s, j)[j] = s.pages[j].delta
    BY DEF DeltasOf
  <2>5. \A k \in 1 .. i : DeltasOf(s, j)[k] = DeltasOf(s, i)[k]
    BY DEF DeltasOf
  <2>6. g[i] = f[i]
    <3>1. i <= j
      OBVIOUS
    <3>2. SumsOfSame(g, DeltasOf(s, j), j, f, DeltasOf(s, i), i)
      BY <2>1, <2>2, <2>5, <3>1 DEF SumsOfSame
    <3>3. SameAt(g, f, i)
      BY <3>2, SumsAgree, Zenon
    <3> QED
      BY <3>3 DEF SameAt
  <2> QED
    BY <2>1, <2>2, <2>3, <2>4, <2>6
<1> QED
  BY <1>1, <1>2, <1>3, <1>4

\* What is before page i + 1.
LEMMA SumsAreNumbers ==
  ASSUME NEW s, s.pages \in Seq(Page), NEW i \in 0 .. Len(s.pages)
  PROVE  WordsUpTo(s, i) \in Nat /\ DeltasUpTo(s, i) \in Nat
<1> DEFINE T == {k \in 0 .. Len(s.pages) :
                   ~ (WordsUpTo(s, k) \in Nat /\ DeltasUpTo(s, k) \in Nat)}
<1>1. T = {}
  <2>1. SUFFICES ASSUME T # {} PROVE FALSE
    OBVIOUS
  <2>2. PICK k \in T : \A y \in T : k <= y
    <3>1. T \subseteq Nat
      OBVIOUS
    <3> HIDE DEF T
    <3> QED
      BY <2>1, <3>1, Least
  <2>3. k \in 0 .. Len(s.pages) /\ ~ (WordsUpTo(s, k) \in Nat /\ DeltasUpTo(s, k) \in Nat)
    OBVIOUS
  <2>4. k # 0
    BY <2>3, SumsStep
  <2>5. k - 1 \in 0 .. Len(s.pages) /\ ~ (k <= k - 1) /\ k \in 1 .. Len(s.pages)
    BY <2>3, <2>4
  <2>6. k - 1 \notin T
    <3> HIDE DEF T
    <3> QED
      BY <2>2, <2>5
  <2>7. WordsUpTo(s, k - 1) \in Nat /\ DeltasUpTo(s, k - 1) \in Nat
    BY <2>5, <2>6
  <2> HIDE DEF T
  <2>8. s.pages[k].words \in Nat /\ s.pages[k].delta \in Nat
    BY <2>5, PageFields
  <2>9. /\ WordsUpTo(s, k) = WordsUpTo(s, k - 1) + s.pages[k].words
        /\ DeltasUpTo(s, k) = DeltasUpTo(s, k - 1) + s.pages[k].delta
    <3> PICK j \in Nat : j = k - 1
      BY <2>5
    <3>1. k = j + 1
      BY <2>3
    <3> QED
      BY <3>1, SumsStep
  <2> QED
    BY <2>3, <2>7, <2>8, <2>9
<1> QED
  BY <1>1

LEMMA SumsGrow ==
  ASSUME NEW s, s.pages \in Seq(Page), NEW i \in 0 .. Len(s.pages),
         NEW j \in i .. Len(s.pages)
  PROVE  WordsUpTo(s, i) <= WordsUpTo(s, j) /\ DeltasUpTo(s, i) <= DeltasUpTo(s, j)
<1> DEFINE T == {k \in i .. Len(s.pages) :
                   ~ (WordsUpTo(s, i) <= WordsUpTo(s, k) /\ DeltasUpTo(s, i) <= DeltasUpTo(s, k))}
<1>1. T = {}
  <2>1. SUFFICES ASSUME T # {} PROVE FALSE
    OBVIOUS
  <2>2. PICK k \in T : \A y \in T : k <= y
    <3>1. T \subseteq Nat
      OBVIOUS
    <3> HIDE DEF T
    <3> QED
      BY <2>1, <3>1, Least
  <2>3. /\ k \in i .. Len(s.pages)
        /\ ~ (WordsUpTo(s, i) <= WordsUpTo(s, k) /\ DeltasUpTo(s, i) <= DeltasUpTo(s, k))
    OBVIOUS
  <2>4. k # i
    BY <2>3, SumsAreNumbers
  <2>5. /\ k - 1 \in i .. Len(s.pages) /\ k - 1 \in 0 .. Len(s.pages)
        /\ k \in 0 .. Len(s.pages) /\ ~ (k <= k - 1) /\ k \in 1 .. Len(s.pages)
    BY <2>3, <2>4
  <2>6. k - 1 \notin T
    <3> HIDE DEF T
    <3> QED
      BY <2>2, <2>5
  <2>7. WordsUpTo(s, i) <= WordsUpTo(s, k - 1) /\ DeltasUpTo(s, i) <= DeltasUpTo(s, k - 1)
    BY <2>5, <2>6
  <2> HIDE DEF T
  <2>8. s.pages[k].words \in Nat /\ s.pages[k].delta \in Nat
    BY <2>5, PageFields
  <2>9. /\ WordsUpTo(s, k) = WordsUpTo(s, k - 1) + s.pages[k].words
        /\ DeltasUpTo(s, k) = DeltasUpTo(s, k - 1) + s.pages[k].delta
    <3> PICK l \in Nat : l = k - 1
      BY <2>5
    <3>1. k = l + 1
      BY <2>3
    <3> QED
      BY <3>1, SumsStep
  <2>10. /\ WordsUpTo(s, i) \in Nat /\ DeltasUpTo(s, i) \in Nat
         /\ WordsUpTo(s, k - 1) \in Nat /\ DeltasUpTo(s, k - 1) \in Nat
    BY <2>5, SumsAreNumbers
  <2>11. WordsUpTo(s, i) <= WordsUpTo(s, k)
    BY <2>7, <2>8, <2>9, <2>10
  <2>12. DeltasUpTo(s, i) <= DeltasUpTo(s, k)
    BY <2>7, <2>8, <2>9, <2>10
  <2> QED
    BY <2>3, <2>11, <2>12, Zenon
<1> QED
  BY <1>1

LEMMA WordsSame ==
  ASSUME NEW s, NEW t, NEW n \in Nat, \A i \in 1 .. n : t.pages[i].words = s.pages[i].words
  PROVE  WordsUpTo(t, n) = WordsUpTo(s, n)
<1>1. PICK f : SumsOf(f, WordsOf(t, n), n) /\ WordsUpTo(t, n) = f[n]
  BY WordsAreSums
<1>2. PICK g : SumsOf(g, WordsOf(s, n), n) /\ WordsUpTo(s, n) = g[n]
  BY WordsAreSums
<1>3. \A k \in 1 .. n : WordsOf(t, n)[k] = WordsOf(s, n)[k]
  BY DEF WordsOf
<1>4. f[n] = g[n]
  <2>1. SumsOfSame(f, WordsOf(t, n), n, g, WordsOf(s, n), n)
    BY <1>1, <1>2, <1>3 DEF SumsOfSame
  <2>2. SameAt(f, g, n)
    BY <2>1, SumsAgree, Zenon
  <2> QED
    BY <2>2 DEF SameAt
<1> QED
  BY <1>1, <1>2, <1>4

\* The first n pages keep their deltas, but that of page p gets larger by d.
Raised(s, t, n, p, d) ==
  \A i \in 1 .. n : t.pages[i].delta = s.pages[i].delta + (IF i = p THEN d ELSE 0)

\* When the delta of page p gets larger by d, so does what is up to there.
LEMMA DeltasRaised ==
  ASSUME NEW s, s.pages \in Seq(Page), NEW t, NEW n \in 0 .. Len(s.pages),
         NEW p \in Nat \ {0}, NEW d \in Nat, Raised(s, t, n, p, d)
  PROVE  DeltasUpTo(t, n) = DeltasUpTo(s, n) + (IF p <= n THEN d ELSE 0)
<1> DEFINE More(k) == IF p <= k THEN d ELSE 0
           T == {k \in 0 .. n : DeltasUpTo(t, k) # DeltasUpTo(s, k) + More(k)}
<1>1. T = {}
  <2>1. SUFFICES ASSUME T # {} PROVE FALSE
    OBVIOUS
  <2>2. PICK k \in T : \A y \in T : k <= y
    <3>1. T \subseteq Nat
      OBVIOUS
    <3> HIDE DEF T
    <3> QED
      BY <2>1, <3>1, Least
  <2>3. k \in 0 .. n /\ DeltasUpTo(t, k) # DeltasUpTo(s, k) + More(k)
    OBVIOUS
  <2>4. k # 0
    BY <2>3, SumsStep
  <2>5. k - 1 \in 0 .. n /\ ~ (k <= k - 1) /\ k \in 1 .. n
    BY <2>3, <2>4
  <2>6. k - 1 \notin T
    <3> HIDE DEF T
    <3> QED
      BY <2>2, <2>5
  <2>7. DeltasUpTo(t, k - 1) = DeltasUpTo(s, k - 1) + More(k - 1)
    BY <2>5, <2>6
  <2> HIDE DEF T
  <2>8. s.pages[k].delta \in Nat
    <3>1. k \in 1 .. Len(s.pages)
      BY <2>5
    <3> QED
      BY <3>1, PageFields
  <2>9. /\ DeltasUpTo(t, k) = DeltasUpTo(t, k - 1) + t.pages[k].delta
        /\ DeltasUpTo(s, k) = DeltasUpTo(s, k - 1) + s.pages[k].delta
    <3> PICK l \in Nat : l = k - 1
      BY <2>5
    <3>1. k = l + 1
      BY <2>3
    <3> QED
      BY <3>1, SumsStep
  <2>10. DeltasUpTo(s, k - 1) \in Nat
    BY <2>5, SumsAreNumbers
  <2>11. t.pages[k].delta = s.pages[k].delta + (IF k = p THEN d ELSE 0)
    BY <2>5 DEF Raised
  <2>12. More(k) = More(k - 1) + (IF k = p THEN d ELSE 0)
    BY <2>3, <2>5
  <2>16. PICK x \in Nat : x = DeltasUpTo(s, k - 1)
    BY <2>10
  <2>17. PICK z \in Nat : z = s.pages[k].delta
    BY <2>8
  <2>18. PICK m \in Nat : m = More(k - 1)
    OBVIOUS
  <2>19. PICK e \in Nat : e = IF k = p THEN d ELSE 0
    OBVIOUS
  <2> HIDE DEF More
  <2>13. DeltasUpTo(t, k) = (x + m) + (z + e)
    BY <2>7, <2>9, <2>11, <2>16, <2>17, <2>18, <2>19, Zenon
  <2>14. DeltasUpTo(s, k) + More(k) = (x + z) + (m + e)
    BY <2>9, <2>12, <2>16, <2>17, <2>18, <2>19, Zenon
  <2>15. (x + m) + (z + e) = (x + z) + (m + e)
    OBVIOUS
  <2> QED
    BY <2>3, <2>13, <2>14, <2>15, Zenon
<1> QED
  BY <1>1

----------------------------------------------------------------------------
(* Where words are. *)

\* The page that has a word.
OnPage(s, w, i) == WordsUpTo(s, i - 1) < w /\ w <= WordsUpTo(s, i)

LEMMA WordIsOnPage ==
  ASSUME NEW s, s.pages \in Seq(Page), NEW w \in 1 .. Emitted(s)
  PROVE  \E i \in 1 .. Len(s.pages) : OnPage(s, w, i)
<1> DEFINE n == Len(s.pages)
           T == {k \in 0 .. n : w <= WordsUpTo(s, k)}
<1>1. n \in Nat /\ n \in T
  BY DEF Emitted
<1>2. PICK k \in T : \A y \in T : k <= y
  <2>1. T \subseteq Nat /\ T # {}
    BY <1>1
  <2> HIDE DEF T
  <2> QED
    BY <2>1, Least
<1>3. k \in 0 .. n /\ w <= WordsUpTo(s, k)
  OBVIOUS
<1>4. WordsUpTo(s, 0) = 0 /\ w \in Nat /\ w >= 1
  <2>1. Emitted(s) \in Nat
    BY <1>1, SumsAreNumbers DEF Emitted
  <2>2. WordsUpTo(s, 0) = 0
    <3>1. 0 \in Nat
      OBVIOUS
    <3> QED
      BY <3>1, SumsStep, Zenon
  <2>3. w \in Nat /\ w >= 1
    BY <2>1
  <2> QED
    BY <2>2, <2>3
<1>5. k # 0
  BY <1>3, <1>4
<1>6. k - 1 \in 0 .. n /\ ~ (k <= k - 1) /\ k \in 1 .. n
  BY <1>3, <1>5
<1>7. k - 1 \notin T
  <2> HIDE DEF T
  <2> QED
    BY <1>2, <1>6
<1>8. WordsUpTo(s, k - 1) \in Nat
  BY <1>6, SumsAreNumbers
<1>9. ~ (w <= WordsUpTo(s, k - 1))
  BY <1>6, <1>7
<1>10. WordsUpTo(s, k - 1) < w
  BY <1>4, <1>8, <1>9
<1> QED
  BY <1>3, <1>6, <1>10 DEF OnPage

LEMMA PositionIs ==
  ASSUME NEW s, s.pages \in Seq(Page), NEW i \in 1 .. Len(s.pages), NEW w \in Nat,
         OnPage(s, w, i)
  PROVE  Position(s, w) = w - 1 + DeltasUpTo(s, i)
<1>1. DOMAIN s.pages = 1 .. Len(s.pages)
  OBVIOUS
<1>2. ASSUME NEW j \in 1 .. Len(s.pages), OnPage(s, w, j), j < i
      PROVE  FALSE
  <2>1. j \in 0 .. Len(s.pages) /\ i - 1 \in j .. Len(s.pages) /\ i - 1 \in 0 .. Len(s.pages)
    BY <1>2
  <2>2. WordsUpTo(s, j) <= WordsUpTo(s, i - 1)
    BY <2>1, SumsGrow
  <2>3. WordsUpTo(s, j) \in Nat /\ WordsUpTo(s, i - 1) \in Nat
    BY <2>1, SumsAreNumbers
  <2> QED
    BY <1>2, <2>2, <2>3 DEF OnPage
<1>3. ASSUME NEW j \in 1 .. Len(s.pages), OnPage(s, w, j), i < j
      PROVE  FALSE
  <2>1. i \in 0 .. Len(s.pages) /\ j - 1 \in i .. Len(s.pages) /\ j - 1 \in 0 .. Len(s.pages)
    BY <1>3
  <2>2. WordsUpTo(s, i) <= WordsUpTo(s, j - 1)
    BY <2>1, SumsGrow
  <2>3. WordsUpTo(s, i) \in Nat /\ WordsUpTo(s, j - 1) \in Nat
    BY <2>1, SumsAreNumbers
  <2> QED
    BY <1>3, <2>2, <2>3 DEF OnPage
<1>4. \A j \in DOMAIN s.pages : OnPage(s, w, j) => j = i
  BY <1>1, <1>2, <1>3
<1> DEFINE on == CHOOSE j \in DOMAIN s.pages : OnPage(s, w, j)
<1>5. on = i
  <2>1. i \in DOMAIN s.pages /\ OnPage(s, w, i)
    BY <1>1
  <2> QED
    BY <1>4, <2>1
<1>6. Position(s, w) = w - 1 + DeltasUpTo(s, on)
  BY DEF Position, OnPage
<1> QED
  BY <1>5, <1>6

\* A word of a section that gets larger stays at its place; when the delta of
\* page p does, its words and those that follow move with it.
LEMMA WordsMove ==
  ASSUME NEW s, s.pages \in Seq(Page), NEW t, t.pages \in Seq(Page),
         Len(s.pages) <= Len(t.pages), NEW p \in 1 .. Len(s.pages), NEW d \in Nat,
         \A i \in 1 .. Len(s.pages) - 1 : t.pages[i].words = s.pages[i].words,
         s.pages[Len(s.pages)].words <= t.pages[Len(s.pages)].words,
         Raised(s, t, Len(s.pages), p, d),
         NEW w \in 1 .. Emitted(s)
  PROVE  /\ Position(s, w) \in Nat
         /\ Position(t, w) = Position(s, w) + (IF WordsUpTo(s, p - 1) < w THEN d ELSE 0)
<1>1. PICK i \in 1 .. Len(s.pages) : OnPage(s, w, i)
  BY WordIsOnPage
<1>2. Emitted(s) \in Nat /\ w \in Nat /\ w >= 1
  <2>1. Len(s.pages) \in 0 .. Len(s.pages)
    OBVIOUS
  <2>2. Emitted(s) \in Nat
    BY <2>1, SumsAreNumbers DEF Emitted
  <2> QED
    BY <2>2
<1>13. Len(s.pages) \in Nat /\ Len(t.pages) \in Nat
  OBVIOUS
<1> PICK l \in Nat : l = i - 1
  OBVIOUS
<1>3. l \in 0 .. Len(s.pages) /\ i \in 0 .. Len(s.pages) /\ i = l + 1 /\ i \in 1 .. Len(t.pages)
  OBVIOUS
<1>4. WordsUpTo(t, l) = WordsUpTo(s, l)
  <2>1. \A k \in 1 .. l : t.pages[k].words = s.pages[k].words
    OBVIOUS
  <2> QED
    BY <2>1, WordsSame
<1>5. WordsUpTo(s, i) <= WordsUpTo(t, i)
  <2>1. s.pages[i].words <= t.pages[i].words
    <3>1. CASE i = Len(s.pages)
      BY <3>1
    <3>2. CASE i # Len(s.pages)
      <4>1. i \in 1 .. Len(s.pages) - 1
        BY <3>2
      <4>2. s.pages[i].words \in Nat /\ t.pages[i].words = s.pages[i].words
        BY <4>1, PageFields
      <4> QED
        BY <4>2
    <3> QED
      BY <3>1, <3>2
  <2>2. s.pages[i].words \in Nat /\ t.pages[i].words \in Nat
    BY <1>3, PageFields
  <2>3. /\ WordsUpTo(s, i) = WordsUpTo(s, l) + s.pages[i].words
        /\ WordsUpTo(t, i) = WordsUpTo(t, l) + t.pages[i].words
    BY <1>3, SumsStep
  <2>4. WordsUpTo(s, l) \in Nat
    BY <1>3, SumsAreNumbers
  <2>5. PICK x \in Nat : x = WordsUpTo(s, l)
    BY <2>4
  <2>6. PICK y \in Nat : y = s.pages[i].words
    BY <2>2
  <2>7. PICK z \in Nat : z = t.pages[i].words
    BY <2>2
  <2>8. WordsUpTo(s, i) = x + y /\ WordsUpTo(t, i) = x + z
    BY <1>4, <2>3, <2>5, <2>6, <2>7, Zenon
  <2>9. y <= z
    BY <2>1, <2>6, <2>7, Zenon
  <2>10. x + y <= x + z
    BY <2>9
  <2> QED
    BY <2>8, <2>10, Zenon
<1>6. WordsUpTo(s, i) \in Nat /\ WordsUpTo(t, i) \in Nat /\ DeltasUpTo(s, i) \in Nat
  <2>1. i \in 0 .. Len(t.pages)
    BY <1>3
  <2> QED
    BY <1>3, <2>1, SumsAreNumbers
<1>7. OnPage(t, w, i)
  BY <1>1, <1>2, <1>3, <1>4, <1>5, <1>6 DEF OnPage
<1>8. Position(s, w) = w - 1 + DeltasUpTo(s, i) /\ Position(t, w) = w - 1 + DeltasUpTo(t, i)
  BY <1>1, <1>2, <1>3, <1>7, PositionIs
<1>9. DeltasUpTo(t, i) = DeltasUpTo(s, i) + (IF p <= i THEN d ELSE 0)
  <2>1. Raised(s, t, i, p, d)
    BY <1>13 DEF Raised
  <2>2. p \in Nat \ {0}
    BY <1>13
  <2> QED
    BY <1>3, <2>1, <2>2, DeltasRaised
<1>10. WordsUpTo(s, p - 1) < w <=> p <= i
  <2>4. p - 1 \in 0 .. Len(s.pages)
    BY <1>13
  <2>1. p - 1 \in 0 .. Len(s.pages) /\ WordsUpTo(s, p - 1) \in Nat /\ WordsUpTo(s, l) \in Nat
    BY <1>3, <2>4, SumsAreNumbers
  <2>2. CASE p <= i
    <3>1. l \in p - 1 .. Len(s.pages)
      BY <2>2
    <3>2. WordsUpTo(s, p - 1) <= WordsUpTo(s, l)
      BY <2>1, <3>1, SumsGrow
    <3> QED
      BY <1>1, <1>2, <2>1, <2>2, <3>2 DEF OnPage
  <2>3. CASE ~ (p <= i)
    <3>1. p - 1 \in i .. Len(s.pages)
      BY <2>3
    <3>2. WordsUpTo(s, i) <= WordsUpTo(s, p - 1)
      BY <1>3, <3>1, SumsGrow
    <3> QED
      BY <1>1, <1>2, <1>6, <2>1, <2>3, <3>2 DEF OnPage
  <2> QED
    BY <2>2, <2>3
<1>11. Position(s, w) \in Nat
  BY <1>2, <1>6, <1>8
<1>12. Position(t, w) = Position(s, w) + (IF p <= i THEN d ELSE 0)
  <2> PICK x \in Nat : x = DeltasUpTo(s, i)
    BY <1>6
  <2> PICK e \in Nat : e = IF p <= i THEN d ELSE 0
    OBVIOUS
  <2>1. Position(s, w) = w - 1 + x /\ Position(t, w) = w - 1 + (x + e)
    BY <1>8, <1>9
  <2> QED
    BY <1>2, <2>1
<1> QED
  BY <1>10, <1>11, <1>12

----------------------------------------------------------------------------
(* What the proof shows of every state. *)

Statuses == {"statement", "qualified", "variables", "declared", "values", "done",
             "failed", "aborted"}
SymbolRec == [flags : SUBSET {"DEFINED", "REFERENCED", "EXTERN", "GLOBAL"},
              global : BOOLEAN, section : SectionName \cup {NoSection}, value : Nat,
              size : Nat, word : Nat]
AlignedWord == [section : SectionName, word : Nat \ {0}, by : PowersOf2]

\* The sections of the file.
Those(q) == {q[i] : i \in DOMAIN q}

TypeOK ==
  /\ source \in Source /\ pc \in Statuses
  /\ sections \in Seq(Section)
  /\ \A s \in Those(sections) : s.addralign \in PowersOf2
  /\ DOMAIN symbols \subseteq Name
  /\ symbols \in [DOMAIN symbols -> SymbolRec]
  /\ qualifiers \subseteq {"CIRC", "INIT24"}
  /\ alignment \in [page : Nat, offset : Nat, reloc : Nat]
  /\ variable \in Name \cup {NoSymbol} /\ length \in Nat
  /\ aligned \subseteq AlignedWord

\* The names of sections differ, and symbols and aligned words are in sections.
Unique(q) == \A i, j \in DOMAIN q : q[i].name = q[j].name => i = j
AreIn(S, y, A) ==
  /\ \A n \in DOMAIN y : y[n].section # NoSection => \E s \in S : s.name = y[n].section
  /\ \A n \in DOMAIN y : y[n].section = NoSection => y[n].size = 0
  /\ \A a \in A : \E s \in S : s.name = a.section

\* The location counter of a section is where its next word will be.
Counts(s) == s.offset = Emitted(s) + DeltasUpTo(s, Len(s.pages))

\* A word that was emitted is at place v, or the next word will be.
IsAt(s, word, v) ==
  /\ word <= Emitted(s) + 1
  /\ word \in 1 .. Emitted(s) => v = Position(s, word)
  /\ word = Emitted(s) + 1 => v = s.offset

\* A word is at a multiple, or the next word will be.
IsMultiple(s, word, by) == \E v \in Nat : IsAt(s, word, v) /\ v % by = 0

Counted(S) == \A s \in S : HasData(s) => Counts(s)
Found(S, y) ==
  \A s \in S, n \in DOMAIN y :
    HasData(s) /\ y[n].section = s.name => IsAt(s, y[n].word, y[n].value)
Met(S, A) ==
  \A s \in S, a \in A :
    HasData(s) /\ a.section = s.name => IsMultiple(s, a.word, a.by)
Wide(S, A) == \A s \in S, a \in A : a.section = s.name => a.by <= s.addralign

\* A relocation has the place of its word.
Marks(s, r) ==
  r.word <= Emitted(s) /\ r.offset = Position(s, r.word) * EntSize[s.space]
Marked(S) ==
  \A s \in S : HasData(s) => \A k \in DOMAIN s.relocs : Marks(s, s.relocs[k])

\* The words of section s before a circular buffer that begins at al.
Before(s, al) == WordsUpTo(s, al.page - 1)

\* A circular buffer that begins at al.
Begun(s, al) ==
  /\ al.page \in 1 .. Len(s.pages) /\ al.offset <= s.offset /\ al.reloc <= Len(s.relocs)
BegunAt(s, al, A) ==
  /\ al.offset = Before(s, al) + DeltasUpTo(s, al.page)
  /\ IsAt(s, Before(s, al) + 1, al.offset)
  /\ \A a \in A : a.section = s.name =>
       /\ a.word <= Before(s, al) + 1
       /\ a.word = Before(s, al) + 1 => al.offset % a.by = 0
RelocsBefore(s, al) == \A k \in 1 .. al.reloc : s.relocs[k].word <= Before(s, al)

InBuffer ==
  pc \in {"qualified", "variables", "declared", "values"} /\ "CIRC" \in qualifiers

\* The variable whose words are being emitted, and how many were.
Pending == IF pc \in {"declared", "values"} THEN variable ELSE NoSymbol
SoFar == IF pc = "values" THEN length ELSE 0

\* Two variables share no word.
Apart(a, b) ==
  \/ a.size = 0 \/ b.size = 0
  \/ a.value + a.size <= b.value \/ b.value + b.size <= a.value

\* The variables but p end before the location counter, and share no word; they
\* end before p, of which k words were emitted.
Spread(S, y, p, k) ==
  /\ \A s \in S, n \in DOMAIN y : y[n].section = s.name =>
       IF n = p THEN y[n].value + k = s.offset ELSE y[n].value + y[n].size <= s.offset
  /\ \A m, n \in DOMAIN y :
       m # n /\ m # p /\ y[m].section = y[n].section /\ y[m].section # NoSection =>
       /\ n # p => Apart(y[m], y[n])
       /\ n = p => y[m].value + y[m].size <= y[n].value

\* The variables but p end before a circular buffer that begins at al, or begin in it.
Aside(s, al, y, p) ==
  \A n \in DOMAIN y : y[n].section = s.name =>
    \/ al.offset <= y[n].value
    \/ n # p /\ y[n].value + y[n].size <= al.offset

SectionsOK ==
  /\ Unique(sections)
  /\ AreIn(Those(sections), symbols, aligned)
  /\ Wide(Those(sections), aligned)
WordsOK ==
  "page" \notin skewed =>
    /\ Counted(Those(sections)) /\ Found(Those(sections), symbols)
    /\ Met(Those(sections), aligned)
RelocsOK == skewed = {} => Marked(Those(sections))
VariablesOK ==
  pc # "failed" =>
    /\ Spread(Those(sections), symbols, Pending, SoFar)
    /\ NoCode => SoFar = 0
    /\ Pending # NoSymbol =>
         /\ Pending \in DOMAIN symbols
         /\ IF NoCode THEN symbols[Pending].section = NoSection
            ELSE symbols[Pending].section = here.name
BufferOK ==
  InBuffer =>
    /\ ~ NoCode /\ Begun(here, alignment) /\ Aside(here, alignment, symbols, Pending)
    /\ "page" \notin skewed /\ HasData(here) => BegunAt(here, alignment, aligned)
    /\ skewed = {} /\ HasData(here) => RelocsBefore(here, alignment)

IInv == TypeOK /\ SectionsOK /\ WordsOK /\ RelocsOK /\ VariablesOK /\ BufferOK

----------------------------------------------------------------------------
(* What becomes of a section. *)

LEMMA SectionFields ==
  ASSUME NEW s \in Section
  PROVE  /\ s.name \in SectionName /\ s.type \in SecType /\ s.space \in Space
         /\ s.pages \in Seq(Page) /\ s.offset \in Nat /\ s.relocs \in Seq(Relocation)
         /\ Len(s.pages) \in Nat /\ Emitted(s) \in Nat
         /\ DeltasUpTo(s, Len(s.pages)) \in Nat
<1>1. /\ s.name \in SectionName /\ s.type \in SecType /\ s.space \in Space
      /\ s.pages \in Seq(Page) /\ s.offset \in Nat /\ s.relocs \in Seq(Relocation)
  BY DEF Section
<1>2. Len(s.pages) \in Nat
  BY <1>1
<1>3. Len(s.pages) \in 0 .. Len(s.pages)
  BY <1>2
<1> QED
  BY <1>1, <1>2, <1>3, SumsAreNumbers DEF Emitted

\* Section s becomes t with k more words, or k more locations if it has no data.
Grows(s, t, k) ==
  /\ t \in Section /\ t.name = s.name /\ t.type = s.type /\ t.space = s.space
  /\ t.addralign = s.addralign /\ t.relocs = s.relocs /\ t.offset = s.offset + k
  /\ Len(s.pages) <= Len(t.pages)
  /\ \A i \in 1 .. Len(s.pages) :
       WordsUpTo(t, i - 1) = WordsUpTo(s, i - 1) /\ DeltasUpTo(t, i) = DeltasUpTo(s, i)
  /\ HasData(s) =>
       /\ Emitted(t) = Emitted(s) + k
       /\ \A w \in 1 .. Emitted(s) : Position(t, w) = Position(s, w)
  /\ HasData(s) /\ Counts(s) =>
       /\ Counts(t)
       /\ \A w \in Emitted(s) + 1 .. Emitted(t) : Position(t, w) = s.offset + (w - Emitted(s) - 1)

\* A page list to which one word is added on its last page.
AddsWord(p, q, m) ==
  /\ p \in Seq(Page) /\ q \in Seq(Page) /\ m \in Nat \ {0} /\ Len(q) = m
  /\ m \in {Len(p), Len(p) + 1}
  /\ \A i \in 1 .. m - 1 : q[i] = p[i]
  /\ q[m].words = (IF m = Len(p) THEN p[m].words ELSE 0) + 1
  /\ q[m].delta = (IF m = Len(p) THEN p[m].delta ELSE 0)

LEMMA WordIsAdded ==
  ASSUME NEW s \in Section, HasData(s)
  PROVE  /\ EmitWord(s) \in Section
         /\ EmitWord(s).name = s.name /\ EmitWord(s).type = s.type
         /\ EmitWord(s).space = s.space /\ EmitWord(s).addralign = s.addralign
         /\ EmitWord(s).relocs = s.relocs /\ EmitWord(s).offset = s.offset + 1
         /\ \E m : AddsWord(s.pages, EmitWord(s).pages, m)
<1> DEFINE p == s.pages
           p0 == IF PageIsFull(s) THEN Append(p, EmptyPage) ELSE p
           m == Len(p0)
           q == [p0 EXCEPT ![m].words = @ + 1]
           t == [s EXCEPT !.pages = q, !.offset = @ + 1]
<1>1. EmitWord(s) = t
  <2>1. s.type # "NOBITS"
    BY DEF HasData
  <2> QED
    BY <2>1, Zenon DEF EmitWord
<1>2. p \in Seq(Page) /\ Len(p) \in Nat
  BY SectionFields
<1>3. EmptyPage \in Page
  BY DEF EmptyPage, Page
<1>4. /\ p0 \in Seq(Page) /\ m \in Nat \ {0} /\ m \in {Len(p), Len(p) + 1}
      /\ \A i \in 1 .. m - 1 : p0[i] = p[i]
      /\ p0[m].words = (IF m = Len(p) THEN p[m].words ELSE 0)
      /\ p0[m].delta = (IF m = Len(p) THEN p[m].delta ELSE 0)
  <2> HIDE DEF p
  <2>1. CASE PageIsFull(s)
    <3>1. p0 = Append(p, EmptyPage)
      BY <2>1
    <3> HIDE DEF p0
    <3>2. /\ p0 \in Seq(Page) /\ Len(p0) = Len(p) + 1
          /\ \A i \in 1 .. Len(p) : p0[i] = p[i]
          /\ p0[Len(p) + 1] = EmptyPage
      BY <1>2, <1>3, <3>1, AppendProperties
    <3>3. EmptyPage.words = 0 /\ EmptyPage.delta = 0
      BY DEF EmptyPage
    <3> QED
      BY <1>2, <3>2, <3>3
  <2>2. CASE ~ PageIsFull(s)
    <3>1. p0 = p
      BY <2>2
    <3>2. p # <<>>
      BY <2>2 DEF PageIsFull, p
    <3>3. Len(p) # 0
      BY <1>2, <3>2
    <3> HIDE DEF p0
    <3> QED
      BY <1>2, <3>1, <3>3
  <2> QED
    BY <2>1, <2>2
<1>5. p0[m] \in Page
  <2>1. m \in 1 .. Len(p0)
    BY <1>4
  <2> HIDE DEF p0, m
  <2> QED
    BY <1>4, <2>1, ElementOfSeq
<1> DEFINE e == [p0[m] EXCEPT !.words = @ + 1]
<1>6. e \in Page /\ e.words = p0[m].words + 1 /\ e.delta = p0[m].delta
  <2> HIDE DEF p0, m
  <2> QED
    BY <1>5 DEF Page
<1>7. q = [p0 EXCEPT ![m] = e]
  <2> HIDE DEF p0, m
  <2> QED
    OBVIOUS
<1>8. /\ q \in Seq(Page) /\ Len(q) = m
      /\ \A i \in 1 .. m : q[i] = IF i = m THEN e ELSE p0[i]
  <2>1. m \in 1 .. Len(p0)
    BY <1>4
  <2>2. m = Len(p0)
    OBVIOUS
  <2> HIDE DEF p0, m, q, e
  <2> QED
    BY <1>4, <1>6, <1>7, <2>1, <2>2, ExceptSeq
<1>9. AddsWord(p, q, m)
  <2> HIDE DEF p, p0, m, q, e
  <2> QED
    BY <1>2, <1>4, <1>6, <1>8 DEF AddsWord
<1>10. /\ t \in Section /\ t.name = s.name /\ t.type = s.type /\ t.space = s.space
       /\ t.addralign = s.addralign /\ t.relocs = s.relocs /\ t.offset = s.offset + 1
       /\ t.pages = q
  <2> DEFINE o == s.offset + 1
  <2>1. o \in Nat /\ q \in Seq(Page)
    BY <1>8, SectionFields
  <2>2. t = [s EXCEPT !.pages = q, !.offset = o]
    OBVIOUS
  <2> HIDE DEF p, p0, m, q, e, t, o
  <2>3. /\ t \in Section /\ t.name = s.name /\ t.type = s.type /\ t.space = s.space
        /\ t.addralign = s.addralign /\ t.relocs = s.relocs /\ t.offset = o
        /\ t.pages = q
    BY <2>1, <2>2 DEF Section
  <2> QED
    BY <2>3 DEF o
<1> HIDE DEF p0, m, q, e, t
<1> QED
  BY <1>1, <1>9, <1>10

LEMMA WordGrows ==
  ASSUME NEW s \in Section
  PROVE  Grows(s, EmitWord(s), 1)
<1>1. /\ s.pages \in Seq(Page) /\ s.offset \in Nat /\ Len(s.pages) \in Nat
      /\ Emitted(s) \in Nat /\ DeltasUpTo(s, Len(s.pages)) \in Nat
  BY SectionFields
<1>2. CASE s.type = "NOBITS"
  <2> DEFINE t == [s EXCEPT !.offset = @ + 1]
  <2>1. EmitWord(s) = t
    BY <1>2 DEF EmitWord
  <2>2. /\ t \in Section /\ t.name = s.name /\ t.type = s.type /\ t.space = s.space
        /\ t.addralign = s.addralign /\ t.relocs = s.relocs /\ t.offset = s.offset + 1
        /\ t.pages = s.pages
    BY DEF Section
  <2> HIDE DEF t
  <2>3. \A i : WordsUpTo(t, i) = WordsUpTo(s, i) /\ DeltasUpTo(t, i) = DeltasUpTo(s, i)
    BY <2>2, Zenon DEF WordsUpTo, DeltasUpTo
  <2>4. ~ HasData(s)
    BY <1>2 DEF HasData
  <2>5. Len(s.pages) <= Len(t.pages)
    BY <1>1, <2>2
  <2> QED
    BY <2>1, <2>2, <2>3, <2>4, <2>5 DEF Grows
<1>3. CASE s.type # "NOBITS"
  <2>1. HasData(s)
    BY <1>3, SectionFields DEF HasData, SecType
  <2>2. PICK t : t = EmitWord(s)
    OBVIOUS
  <2>3. /\ t \in Section
        /\ t.name = s.name /\ t.type = s.type
        /\ t.space = s.space /\ t.addralign = s.addralign
        /\ t.relocs = s.relocs /\ t.offset = s.offset + 1
        /\ \E m : AddsWord(s.pages, t.pages, m)
    BY <2>1, <2>2, WordIsAdded
  <2>4. PICK m : AddsWord(s.pages, t.pages, m)
    BY <2>3
  <2>5. PICK n \in Nat : n = Len(s.pages)
    BY <1>1
  <2>6. /\ m \in Nat \ {0} /\ Len(t.pages) = m /\ t.pages \in Seq(Page)
        /\ m \in {n, n + 1} /\ n <= m
    BY <2>4, <2>5 DEF AddsWord
  <2>7. \A i \in 1 .. m - 1 : t.pages[i] = s.pages[i]
    BY <2>4 DEF AddsWord
  <2>8. PICK l \in Nat : m = l + 1
    <3>1. m - 1 \in Nat /\ m = (m - 1) + 1
      BY <2>6
    <3> QED
      BY <3>1
  <2>9. ASSUME NEW i \in 0 .. l
        PROVE  WordsUpTo(t, i) = WordsUpTo(s, i)
    <3>1. \A k \in 1 .. i : t.pages[k].words = s.pages[k].words
      BY <2>7, <2>8
    <3> QED
      BY <3>1, WordsSame
  <2>10. Raised(s, t, n, 1, 0)
    <3>1. ASSUME NEW k \in 1 .. n
          PROVE  t.pages[k].delta = s.pages[k].delta + (IF k = 1 THEN 0 ELSE 0)
      <4>1. t.pages[k].delta = s.pages[k].delta
        <5>1. CASE k = m
          <6>1. m = Len(s.pages)
            BY <2>5, <2>6, <5>1
          <6> QED
            BY <2>4, <5>1, <6>1 DEF AddsWord
        <5>2. CASE k # m
          <6>1. k \in 1 .. m - 1
            BY <2>6, <5>2
          <6> QED
            BY <2>7, <6>1
        <5> QED
          BY <5>1, <5>2
      <4>2. s.pages[k].delta \in Nat
        BY <1>1, <2>5, PageFields
      <4> QED
        BY <4>1, <4>2
    <3> QED
      BY <3>1 DEF Raised
  <2>11. ASSUME NEW i \in 0 .. n
         PROVE  DeltasUpTo(t, i) = DeltasUpTo(s, i) /\ DeltasUpTo(s, i) \in Nat
    <3>1. DeltasUpTo(s, i) \in Nat
      BY <1>1, <2>5, SumsAreNumbers
    <3>2. Raised(s, t, i, 1, 0)
      BY <2>10 DEF Raised
    <3>3. DeltasUpTo(t, i) = DeltasUpTo(s, i) + (IF 1 <= i THEN 0 ELSE 0)
      BY <1>1, <2>5, <3>2, DeltasRaised
    <3> QED
      BY <3>1, <3>3
  <2>12. /\ WordsUpTo(s, l) \in Nat
         /\ Emitted(t) = Emitted(s) + 1
         /\ WordsUpTo(s, l) <= Emitted(s)
         /\ DeltasUpTo(t, m) = DeltasUpTo(s, n) /\ DeltasUpTo(s, n) \in Nat
    <3>1. WordsUpTo(s, l) \in Nat /\ WordsUpTo(t, l) = WordsUpTo(s, l)
      <4>1. l \in 0 .. n /\ l \in 0 .. l
        BY <2>6, <2>8
      <4> QED
        BY <1>1, <2>5, <2>9, <4>1, SumsAreNumbers
    <3>2. /\ Emitted(t) = WordsUpTo(t, l) + t.pages[m].words
          /\ DeltasUpTo(t, m) = DeltasUpTo(t, l) + t.pages[m].delta
      BY <2>6, <2>8, SumsStep DEF Emitted
    <3>3. CASE m = n
      <4>1. /\ Emitted(s) = WordsUpTo(s, l) + s.pages[m].words
            /\ DeltasUpTo(s, m) = DeltasUpTo(s, l) + s.pages[m].delta
        BY <2>5, <2>8, <3>3, SumsStep DEF Emitted
      <4>2. s.pages[m].words \in Nat /\ s.pages[m].delta \in Nat
        BY <1>1, <2>5, <2>6, <3>3, PageFields
      <4>3. t.pages[m].words = s.pages[m].words + 1 /\ t.pages[m].delta = s.pages[m].delta
        BY <2>4, <2>5, <3>3 DEF AddsWord
      <4>4. DeltasUpTo(t, l) = DeltasUpTo(s, l) /\ DeltasUpTo(s, n) \in Nat
        BY <2>8, <2>11, <3>3
      <4>5. PICK x \in Nat : x = WordsUpTo(s, l)
        BY <3>1
      <4>6. PICK y \in Nat : y = s.pages[m].words
        BY <4>2
      <4>7. Emitted(t) = x + (y + 1) /\ Emitted(s) = x + y
        BY <3>1, <3>2, <4>1, <4>3, <4>5, <4>6, Zenon
      <4>8. x + (y + 1) = (x + y) + 1 /\ x <= x + y
        OBVIOUS
      <4>9. Emitted(t) = Emitted(s) + 1 /\ WordsUpTo(s, l) <= Emitted(s)
        BY <4>5, <4>7, <4>8, Zenon
      <4> QED
        BY <3>1, <3>2, <3>3, <4>1, <4>3, <4>4, <4>9, Zenon
    <3>4. CASE m # n
      <4>1. m = n + 1 /\ l = n
        BY <2>5, <2>6, <2>8, <3>4
      <4>2. t.pages[m].words = 1 /\ t.pages[m].delta = 0
        BY <2>4, <2>5, <2>6, <3>4 DEF AddsWord
      <4>3. Emitted(s) = WordsUpTo(s, l)
        BY <2>5, <4>1 DEF Emitted
      <4>4. DeltasUpTo(t, l) = DeltasUpTo(s, n) /\ DeltasUpTo(s, n) \in Nat
        BY <2>11, <4>1
      <4>5. Emitted(t) = Emitted(s) + 1
        BY <3>1, <3>2, <4>2, <4>3, Zenon
      <4> QED
        BY <3>1, <3>2, <4>2, <4>3, <4>4, <4>5
    <3> QED
      BY <3>3, <3>4
  <2>13. ASSUME NEW w \in 1 .. Emitted(s)
         PROVE  Position(t, w) = Position(s, w)
    <3>1. n # 0
      <4>1. CASE n = 0
        <5>1. Emitted(s) = 0
          BY <2>5, <4>1, SumsStep DEF Emitted
        <5> QED
          BY <5>1
      <4> QED
        BY <4>1
    <3>2. 1 \in 1 .. Len(s.pages) /\ Len(s.pages) <= Len(t.pages)
      BY <2>5, <2>6, <3>1
    <3>3. \A i \in 1 .. Len(s.pages) - 1 : t.pages[i].words = s.pages[i].words
      BY <2>5, <2>6, <2>7
    <3>4. s.pages[Len(s.pages)].words <= t.pages[Len(s.pages)].words
      <4>1. s.pages[n].words \in Nat
        BY <1>1, <2>5, <3>1, PageFields
      <4>2. CASE m = n
        BY <2>4, <2>5, <4>1, <4>2 DEF AddsWord
      <4>3. CASE m # n
        <5>1. n \in 1 .. m - 1
          BY <2>6, <3>1, <4>3
        <5> QED
          BY <2>5, <2>7, <4>1, <5>1
      <4> QED
        BY <4>2, <4>3
    <3>5. Raised(s, t, Len(s.pages), 1, 0)
      BY <2>5, <2>10
    <3>6. /\ Position(s, w) \in Nat
          /\ Position(t, w) = Position(s, w) + (IF WordsUpTo(s, 1 - 1) < w THEN 0 ELSE 0)
      BY SMTT(30), <1>1, <2>6, <3>2, <3>3, <3>4, <3>5, WordsMove
    <3> QED
      BY <3>6
  <2>14. ASSUME Counts(s)
         PROVE  Counts(t) /\ Position(t, Emitted(s) + 1) = s.offset
    <3>1. s.offset = Emitted(s) + DeltasUpTo(s, n)
      BY <2>5, <2>14 DEF Counts
    <3>2. Counts(t)
      <4>1. t.offset = Emitted(t) + DeltasUpTo(t, m)
        BY <1>1, <2>3, <2>12, <3>1
      <4> QED
        BY <2>6, <4>1 DEF Counts
    <3>3. OnPage(t, Emitted(s) + 1, m)
      <4>1. WordsUpTo(t, l) = WordsUpTo(s, l) /\ m - 1 = l
        BY <2>8, <2>9
      <4>2. WordsUpTo(t, m) = Emitted(s) + 1
        BY <2>6, <2>12 DEF Emitted
      <4> QED
        BY <1>1, <2>12, <4>1, <4>2 DEF OnPage
    <3>4. m \in 1 .. Len(t.pages) /\ Emitted(s) + 1 \in Nat
      BY <1>1, <2>6
    <3>5. PICK w \in Nat : w = Emitted(s) + 1
      BY <3>4
    <3>6. Position(t, w) = w - 1 + DeltasUpTo(t, m)
      BY <2>6, <3>3, <3>4, <3>5, PositionIs
    <3>7. w - 1 = Emitted(s)
      BY <1>1, <3>5
    <3> QED
      BY <2>12, <3>1, <3>2, <3>5, <3>6, <3>7, Zenon
  <2>15. ASSUME NEW i \in 1 .. Len(s.pages)
         PROVE  WordsUpTo(t, i - 1) = WordsUpTo(s, i - 1) /\ DeltasUpTo(t, i) = DeltasUpTo(s, i)
    <3>1. i - 1 \in 0 .. l /\ i \in 0 .. n
      BY <2>5, <2>6, <2>8
    <3> QED
      BY <2>9, <2>11, <3>1
  <2>16. ASSUME Counts(s), NEW w \in Emitted(s) + 1 .. Emitted(t)
         PROVE  Position(t, w) = s.offset + (w - Emitted(s) - 1)
    <3>1. w = Emitted(s) + 1 /\ w - Emitted(s) - 1 = 0
      BY <1>1, <2>12, <2>16
    <3> QED
      BY <1>1, <2>14, <2>16, <3>1
  <2> QED
    BY <2>2, <2>3, <2>5, <2>6, <2>12, <2>13, <2>14, <2>15, <2>16 DEF Grows
<1> QED
  BY <1>2, <1>3

LEMMA OffsetGrows ==
  ASSUME NEW s \in Section, s.type = "NOBITS", NEW k \in Nat
  PROVE  Grows(s, [s EXCEPT !.offset = @ + k], k)
<1> DEFINE o == s.offset + k
           t == [s EXCEPT !.offset = o]
<1>1. s.offset \in Nat /\ Len(s.pages) \in Nat
  BY SectionFields
<1>2. o \in Nat
  BY <1>1
<1>3. /\ t \in Section /\ t.name = s.name /\ t.type = s.type /\ t.space = s.space
      /\ t.addralign = s.addralign /\ t.relocs = s.relocs /\ t.offset = o
      /\ t.pages = s.pages
  <2> HIDE DEF o
  <2> QED
    BY <1>2 DEF Section
<1>4. t = [s EXCEPT !.offset = @ + k]
  OBVIOUS
<1> HIDE DEF t
<1>5. \A i : WordsUpTo(t, i) = WordsUpTo(s, i) /\ DeltasUpTo(t, i) = DeltasUpTo(s, i)
  BY <1>3, Zenon DEF WordsUpTo, DeltasUpTo
<1>6. ~ HasData(s)
  BY DEF HasData
<1>7. Len(s.pages) <= Len(t.pages)
  BY <1>1, <1>3
<1>8. Grows(s, t, k)
  BY <1>3, <1>5, <1>6, <1>7 DEF Grows
<1> QED
  BY <1>4, <1>8, Zenon

LEMMA NothingGrows ==
  ASSUME NEW s \in Section
  PROVE  Grows(s, s, 0)
<1>1. s.offset \in Nat /\ Len(s.pages) \in Nat /\ Emitted(s) \in Nat
  BY SectionFields
<1>2. s.offset = s.offset + 0 /\ Len(s.pages) <= Len(s.pages) /\ Emitted(s) = Emitted(s) + 0
  BY <1>1
<1>3. Emitted(s) + 1 .. Emitted(s) = {}
  BY <1>1
<1> QED
  BY <1>2, <1>3 DEF Grows

LEMMA GrowsMore ==
  ASSUME NEW s \in Section, NEW t, NEW u, NEW k \in Nat, Grows(s, t, k), Grows(t, u, 1)
  PROVE  Grows(s, u, k + 1)
<1>1. t \in Section /\ u \in Section
  BY DEF Grows
<1>2. /\ s.offset \in Nat /\ Len(s.pages) \in Nat /\ Emitted(s) \in Nat
      /\ t.offset \in Nat /\ Len(t.pages) \in Nat /\ Emitted(t) \in Nat
      /\ u.offset \in Nat /\ Len(u.pages) \in Nat /\ Emitted(u) \in Nat
  BY <1>1, SectionFields
<1>3. /\ u.name = s.name /\ u.type = s.type /\ u.space = s.space
      /\ u.addralign = s.addralign /\ u.relocs = s.relocs
  BY Zenon DEF Grows
<1>4. u.offset = s.offset + (k + 1) /\ Len(s.pages) <= Len(u.pages)
      /\ Len(s.pages) <= Len(t.pages)
  <2>1. /\ t.offset = s.offset + k /\ u.offset = t.offset + 1
        /\ Len(s.pages) <= Len(t.pages) /\ Len(t.pages) <= Len(u.pages)
    BY DEF Grows
  <2>2. PICK o \in Nat : o = s.offset
    BY <1>2
  <2>3. u.offset = o + k + 1
    BY <2>1, <2>2, Zenon
  <2>4. o + k + 1 = o + (k + 1)
    OBVIOUS
  <2>5. PICK l \in Nat : l = Len(s.pages)
    BY <1>2
  <2>6. PICK m \in Nat : m = Len(t.pages)
    BY <1>2
  <2>7. PICK n \in Nat : n = Len(u.pages)
    BY <1>2
  <2>8. l <= m /\ m <= n
    BY <2>1, <2>5, <2>6, <2>7, Zenon
  <2>9. l <= n
    BY <2>8
  <2> QED
    BY <2>1, <2>2, <2>3, <2>4, <2>5, <2>7, <2>9, Zenon
<1>5. ASSUME NEW i \in 1 .. Len(s.pages)
      PROVE  WordsUpTo(u, i - 1) = WordsUpTo(s, i - 1) /\ DeltasUpTo(u, i) = DeltasUpTo(s, i)
  <2>1. i \in 1 .. Len(t.pages)
    BY <1>2, <1>4
  <2> QED
    BY <2>1, Zenon DEF Grows
<1>6. ASSUME HasData(s)
      PROVE  /\ Emitted(t) = Emitted(s) + k /\ Emitted(u) = Emitted(t) + 1
             /\ Emitted(u) = Emitted(s) + (k + 1)
             /\ \A w \in 1 .. Emitted(s) : Position(u, w) = Position(s, w)
  <2>1. HasData(t)
    BY <1>6 DEF HasData, Grows
  <2>2. Emitted(t) = Emitted(s) + k /\ Emitted(u) = Emitted(t) + 1
    BY <1>6, <2>1, Zenon DEF Grows
  <2>3. Emitted(u) = Emitted(s) + (k + 1)
    BY <1>2, <2>2
  <2>4. ASSUME NEW w \in 1 .. Emitted(s)
        PROVE  Position(u, w) = Position(s, w)
    <3>1. w \in 1 .. Emitted(t)
      BY <1>2, <2>2
    <3> QED
      BY <1>6, <2>1, <3>1, Zenon DEF Grows
  <2> QED
    BY <2>2, <2>3, <2>4
<1>7. ASSUME HasData(s), Counts(s)
      PROVE  /\ Counts(u)
             /\ \A w \in Emitted(s) + 1 .. Emitted(u) :
                  Position(u, w) = s.offset + (w - Emitted(s) - 1)
  <2>1. HasData(t)
    BY <1>7 DEF HasData, Grows
  <2>2. Counts(t)
    BY <1>7, Zenon DEF Grows
  <2>3. Counts(u)
    BY <2>1, <2>2, Zenon DEF Grows
  <2>4. ASSUME NEW w \in Emitted(s) + 1 .. Emitted(u)
        PROVE  Position(u, w) = s.offset + (w - Emitted(s) - 1)
    <3>1. Emitted(t) = Emitted(s) + k /\ Emitted(u) = Emitted(t) + 1
      BY <1>6, <1>7
    <3>2. CASE w <= Emitted(t)
      <4>1. w \in 1 .. Emitted(t) /\ w \in Emitted(s) + 1 .. Emitted(t)
        BY <1>2, <3>1, <3>2
      <4>2. Position(u, w) = Position(t, w)
        BY <2>1, <4>1, Zenon DEF Grows
      <4>3. Position(t, w) = s.offset + (w - Emitted(s) - 1)
        BY <1>7, <4>1, Zenon DEF Grows
      <4> QED
        BY <4>2, <4>3, Zenon
    <3>3. CASE ~ (w <= Emitted(t))
      <4>1. w = Emitted(t) + 1 /\ w \in Emitted(t) + 1 .. Emitted(u)
        BY <1>2, <3>1, <3>3
      <4>2. Position(u, w) = t.offset + (w - Emitted(t) - 1)
        BY <2>1, <2>2, <4>1, Zenon DEF Grows
      <4>3. t.offset = s.offset + k
        BY Zenon DEF Grows
      <4>4. PICK o \in Nat : o = s.offset
        BY <1>2
      <4>5. PICK e \in Nat : e = Emitted(s)
        BY <1>2
      <4>6. Emitted(t) = e + k
        BY <3>1, <4>5, Zenon
      <4>7. Position(u, w) = o + k + (w - (e + k) - 1)
        BY <4>2, <4>3, <4>4, <4>6, Zenon
      <4>8. w \in Int
        BY <1>2, <4>1
      <4>9. o + k + (w - (e + k) - 1) = o + (w - e - 1)
        BY <4>8
      <4> QED
        BY <4>4, <4>5, <4>7, <4>9, Zenon
    <3> QED
      BY <3>2, <3>3
  <2> QED
    BY <2>3, <2>4
<1> QED
  BY <1>1, <1>3, <1>4, <1>5, <1>6, <1>7 DEF Grows

\* What outfile_emit_bss computes: the section after each of n words.
WordsAfter(f, s, n) == f = [k \in 0 .. n |-> IF k = 0 THEN s ELSE EmitWord(f[k - 1])]

LEMMA WordsExist ==
  ASSUME NEW s, NEW n \in Nat
  PROVE  \E f : WordsAfter(f, s, n)
<1> DEFINE T == {m \in Nat : ~ \E f : WordsAfter(f, s, m)}
<1>1. SUFFICES ASSUME T # {} PROVE FALSE
  OBVIOUS
<1>2. PICK m \in T : \A y \in T : m <= y
  <2>1. T \subseteq Nat
    OBVIOUS
  <2> HIDE DEF T
  <2> QED
    BY <1>1, <2>1, Least
<1>3. m \in Nat /\ ~ \E f : WordsAfter(f, s, m)
  OBVIOUS
<1>4. CASE m = 0
  <2> DEFINE f == [k \in 0 .. 0 |-> s]
  <2>1. f = [k \in 0 .. 0 |-> IF k = 0 THEN s ELSE EmitWord(f[k - 1])]
    OBVIOUS
  <2> HIDE DEF f
  <2>2. WordsAfter(f, s, m)
    BY <1>4, <2>1 DEF WordsAfter
  <2> QED
    BY <1>3, <2>2
<1>5. CASE m # 0
  <2>1. m - 1 \in Nat /\ ~ (m <= m - 1)
    BY <1>3, <1>5
  <2>2. m - 1 \notin T
    <3> HIDE DEF T
    <3> QED
      BY <1>2, <2>1
  <2>3. PICK f : WordsAfter(f, s, m - 1)
    BY <2>1, <2>2
  <2> DEFINE g == [k \in 0 .. m |-> IF k = m THEN EmitWord(f[m - 1]) ELSE f[k]]
  <2>4. \A k \in 0 .. m - 1 : f[k] = IF k = 0 THEN s ELSE EmitWord(f[k - 1])
    BY <2>3 DEF WordsAfter
  <2>5. ASSUME NEW k \in 0 .. m
        PROVE  g[k] = IF k = 0 THEN s ELSE EmitWord(g[k - 1])
    <3>1. CASE k = m
      <4>1. k # 0 /\ k - 1 \in 0 .. m /\ k - 1 # m /\ k - 1 = m - 1
        BY <1>3, <1>5, <3>1
      <4> QED
        BY <3>1, <4>1
    <3>2. CASE k # m
      <4>1. k \in 0 .. m - 1 /\ k - 1 # m
        BY <1>3, <3>2
      <4>2. k # 0 => k - 1 \in 0 .. m
        BY <1>3
      <4> QED
        BY <2>4, <3>2, <4>1, <4>2
    <3> QED
      BY <3>1, <3>2
  <2>6. g = [k \in 0 .. m |-> g[k]]
    OBVIOUS
  <2> HIDE DEF g
  <2>7. WordsAfter(g, s, m)
    BY <2>5, <2>6 DEF WordsAfter
  <2> QED
    BY <1>3, <2>7
<1> QED
  BY <1>4, <1>5

LEMMA WordsAfterGrow ==
  ASSUME NEW s \in Section, NEW n \in Nat, NEW f, WordsAfter(f, s, n)
  PROVE  Grows(s, f[n], n)
<1> DEFINE T == {k \in 0 .. n : ~ Grows(s, f[k], k)}
<1>1. \A k \in 0 .. n : f[k] = IF k = 0 THEN s ELSE EmitWord(f[k - 1])
  BY DEF WordsAfter
<1>2. T = {}
  <2>1. SUFFICES ASSUME T # {} PROVE FALSE
    OBVIOUS
  <2>2. PICK k \in T : \A y \in T : k <= y
    <3>1. T \subseteq Nat
      OBVIOUS
    <3> HIDE DEF T
    <3> QED
      BY <2>1, <3>1, Least
  <2>3. k \in 0 .. n /\ ~ Grows(s, f[k], k)
    OBVIOUS
  <2>4. k # 0
    BY <1>1, <2>3, NothingGrows
  <2>5. k - 1 \in 0 .. n /\ ~ (k <= k - 1) /\ k - 1 \in Nat /\ (k - 1) + 1 = k
    BY <2>3, <2>4
  <2>6. k - 1 \notin T
    <3> HIDE DEF T
    <3> QED
      BY <2>2, <2>5
  <2>7. Grows(s, f[k - 1], k - 1)
    BY <2>5, <2>6
  <2> HIDE DEF T
  <2>8. f[k - 1] \in Section /\ f[k] = EmitWord(f[k - 1])
    BY <1>1, <2>3, <2>4, <2>7 DEF Grows
  <2>9. PICK t : t = f[k - 1]
    OBVIOUS
  <2>10. PICK l \in Nat : l = k - 1
    BY <2>5
  <2>11. t \in Section /\ Grows(s, t, l) /\ f[k] = EmitWord(t) /\ k = l + 1
    BY <2>5, <2>7, <2>8, <2>9, <2>10
  <2>12. Grows(t, EmitWord(t), 1)
    BY <2>11, WordGrows
  <2>13. Grows(s, EmitWord(t), l + 1)
    BY <2>11, <2>12, GrowsMore
  <2> QED
    BY <2>3, <2>11, <2>13
<1> QED
  BY <1>2

LEMMA BssGrows ==
  ASSUME NEW s \in Section, NEW n \in Nat
  PROVE  Grows(s, EmitBss(s, n), n)
<1>1. CASE s.type = "NOBITS"
  BY <1>1, OffsetGrows DEF EmitBss
<1>2. CASE s.type # "NOBITS"
  <2> DEFINE P(f) == f = [k \in 0 .. n |-> IF k = 0 THEN s ELSE EmitWord(f[k - 1])]
  <2>1. EmitBss(s, n) = (CHOOSE f : P(f))[n]
    BY <1>2, Zenon DEF EmitBss
  <2>2. \E f : P(f)
    BY WordsExist, Zenon DEF WordsAfter
  <2>3. PICK f : f = CHOOSE g : P(g)
    OBVIOUS
  <2>4. P(f) /\ EmitBss(s, n) = f[n]
    <3> HIDE DEF P
    <3> QED
      BY <2>1, <2>2, <2>3, Zenon
  <2>5. WordsAfter(f, s, n)
    BY <2>4, Zenon DEF WordsAfter
  <2>6. Grows(s, f[n], n)
    BY <2>5, WordsAfterGrow
  <2> HIDE DEF P
  <2> QED
    BY <2>4, <2>6
<1> QED
  BY <1>1, <1>2

LEMMA FreshIs ==
  ASSUME NEW s \in Section
  PROVE  \E m \in Nat \ {0} :
           /\ FreshPage(s) \in Seq(Page) /\ Len(FreshPage(s)) = m
           /\ m \in {Len(s.pages), Len(s.pages) + 1}
           /\ \A i \in 1 .. Len(s.pages) : FreshPage(s)[i] = s.pages[i]
           /\ FreshPage(s)[m].words = 0 /\ FreshPage(s)[m].delta \in Nat
           /\ m # Len(s.pages) => FreshPage(s)[m].delta = 0
<1> DEFINE p == s.pages
<1>1. p \in Seq(Page) /\ Len(p) \in Nat
  BY SectionFields
<1>2. EmptyPage \in Page /\ EmptyPage.words = 0 /\ EmptyPage.delta = 0
  BY DEF EmptyPage, Page
<1>3. CASE p = <<>> \/ LastPage(s).words > 0
  <2>1. FreshPage(s) = Append(p, EmptyPage)
    BY <1>3 DEF FreshPage
  <2> HIDE DEF p
  <2>2. /\ FreshPage(s) \in Seq(Page) /\ Len(FreshPage(s)) = Len(p) + 1
        /\ \A i \in 1 .. Len(p) : FreshPage(s)[i] = p[i]
        /\ FreshPage(s)[Len(p) + 1] = EmptyPage
    BY <1>1, <1>2, <2>1, AppendProperties
  <2>3. PICK m \in Nat \ {0} : m = Len(p) + 1
    BY <1>1
  <2>4. FreshPage(s)[m].words = 0 /\ FreshPage(s)[m].delta = 0
    BY <1>2, <2>2, <2>3
  <2>5. \A i \in 1 .. Len(s.pages) : FreshPage(s)[i] = s.pages[i]
    BY <2>2 DEF p
  <2>6. m \in {Len(s.pages), Len(s.pages) + 1} /\ Len(FreshPage(s)) = m
    BY <2>2, <2>3 DEF p
  <2> QED
    BY <2>2, <2>4, <2>5, <2>6
<1>4. CASE ~ (p = <<>> \/ LastPage(s).words > 0)
  <2>1. FreshPage(s) = p
    BY <1>4 DEF FreshPage
  <2>2. PICK m \in Nat \ {0} : m = Len(p)
    <3> HIDE DEF p
    <3>1. p # <<>>
      BY <1>4
    <3> QED
      BY <1>1, <3>1
  <2>3. p[m].words \in Nat /\ p[m].delta \in Nat
    BY <1>1, <2>2, PageFields
  <2>4. p[m].words = 0
    <3>1. ~ (p[m].words > 0)
      BY <1>4, <2>2 DEF LastPage
    <3> QED
      BY <2>3, <3>1
  <2>5. \A i \in 1 .. Len(s.pages) : FreshPage(s)[i] = s.pages[i]
    BY <2>1
  <2>6. m \in {Len(s.pages), Len(s.pages) + 1} /\ Len(FreshPage(s)) = m /\ m = Len(s.pages)
    BY <2>1, <2>2
  <2> QED
    BY <1>1, <2>1, <2>3, <2>4, <2>5, <2>6
<1> QED
  BY <1>3, <1>4

\* Section s becomes t, which is aligned by d locations on a last page without
\* words, m.
AlignsLast(s, t, m, d) ==
  /\ t \in Section /\ m \in Nat \ {0} /\ Len(t.pages) = m
  /\ t.name = s.name /\ t.type = s.type /\ t.space = s.space /\ t.relocs = s.relocs
  /\ t.offset = s.offset + d
  /\ m \in {Len(s.pages), Len(s.pages) + 1}
  /\ \A i \in 1 .. m - 1 : t.pages[i] = s.pages[i]
  /\ t.pages[m].words = 0
  /\ IF m = Len(s.pages)
     THEN s.pages[m].words = 0 /\ t.pages[m].delta = s.pages[m].delta + d
     ELSE t.pages[m].delta = d

\* The words of s stay where they are.
LEMMA LastIsAligned ==
  ASSUME NEW s \in Section, NEW t, NEW m, NEW d \in Nat, AlignsLast(s, t, m, d)
  PROVE  /\ Emitted(t) = Emitted(s) /\ WordsUpTo(t, m - 1) = Emitted(s)
         /\ \A w \in 1 .. Emitted(s) : Position(t, w) = Position(s, w)
         /\ Counts(s) => Counts(t)
         /\ DeltasUpTo(t, m) = DeltasUpTo(s, Len(s.pages)) + d
<1>1. /\ s.pages \in Seq(Page) /\ s.offset \in Nat /\ Len(s.pages) \in Nat
      /\ Emitted(s) \in Nat /\ DeltasUpTo(s, Len(s.pages)) \in Nat
  BY SectionFields
<1>2. /\ t \in Section /\ m \in Nat \ {0} /\ Len(t.pages) = m
      /\ m \in {Len(s.pages), Len(s.pages) + 1}
  BY DEF AlignsLast
<1>3. t.pages \in Seq(Page) /\ Emitted(t) \in Nat
  BY <1>2, SectionFields
<1>4. PICK n \in Nat : n = Len(s.pages)
  BY <1>1
<1>5. PICK l \in Nat : m = l + 1
  <2>1. m - 1 \in Nat /\ m = (m - 1) + 1
    BY <1>2
  <2> QED
    BY <2>1
<1>6. \A i \in 1 .. l : t.pages[i] = s.pages[i]
  <2>1. m - 1 = l
    BY <1>5
  <2> QED
    BY <2>1 DEF AlignsLast
<1>7. \A i \in 0 .. l : WordsUpTo(t, i) = WordsUpTo(s, i)
  <2>1. ASSUME NEW i \in 0 .. l
        PROVE  WordsUpTo(t, i) = WordsUpTo(s, i)
    <3>1. \A k \in 1 .. i : t.pages[k].words = s.pages[k].words
      BY <1>6
    <3> QED
      BY <3>1, WordsSame
  <2> QED
    BY <2>1
<1>8. l \in 0 .. n /\ n \in {l, l + 1}
  BY <1>2, <1>4, <1>5
<1>9. Emitted(s) = WordsUpTo(s, l)
  <2>1. CASE n = l
    BY <1>4, <2>1 DEF Emitted
  <2>2. CASE n = l + 1
    <3>1. Emitted(s) = WordsUpTo(s, l) + s.pages[m].words
      BY <1>4, <1>5, <2>2, SumsStep DEF Emitted
    <3>2. s.pages[m].words = 0
      BY <1>4, <1>5, <2>2 DEF AlignsLast
    <3>3. WordsUpTo(s, l) \in Nat
      BY <1>1, <1>4, <1>8, SumsAreNumbers
    <3> QED
      BY <3>1, <3>2, <3>3
  <2> QED
    BY <1>8, <2>1, <2>2
<1>10. Emitted(t) = WordsUpTo(t, l)
  <2>1. Emitted(t) = WordsUpTo(t, l) + t.pages[m].words
    BY SMTT(30), <1>2, <1>5, SumsStep DEF Emitted
  <2>2. t.pages[m].words = 0
    BY DEF AlignsLast
  <2>3. WordsUpTo(t, l) \in Nat
    <3>1. l \in 0 .. Len(t.pages)
      BY <1>2, <1>5
    <3> QED
      BY <1>3, <3>1, SumsAreNumbers
  <2> QED
    BY <2>1, <2>2, <2>3
<1>11. Emitted(t) = Emitted(s) /\ WordsUpTo(t, m - 1) = Emitted(s)
  <2>1. m - 1 = l /\ l \in 0 .. l
    BY <1>5
  <2>2. WordsUpTo(t, l) = WordsUpTo(s, l)
    BY <1>7, <2>1
  <2> QED
    BY <1>9, <1>10, <2>1, <2>2, Zenon
<1>12. ASSUME NEW k \in 1 .. l PROVE t.pages[k].delta = s.pages[k].delta + 0
  <2>1. k \in 1 .. Len(s.pages)
    BY <1>4, <1>8
  <2>2. s.pages[k].delta \in Nat
    BY <1>1, <2>1, PageFields
  <2> QED
    BY <1>6, <2>2
<1>13. DeltasUpTo(t, l) = DeltasUpTo(s, l) /\ DeltasUpTo(s, l) \in Nat
  <2>1. Raised(s, t, l, 1, 0)
    BY <1>12 DEF Raised
  <2>2. l \in 0 .. Len(s.pages)
    BY <1>4, <1>8
  <2>3. DeltasUpTo(s, l) \in Nat
    BY <1>1, <2>2, SumsAreNumbers
  <2>4. DeltasUpTo(t, l) = DeltasUpTo(s, l) + (IF 1 <= l THEN 0 ELSE 0)
    BY <1>1, <2>1, <2>2, DeltasRaised
  <2> QED
    BY <2>3, <2>4
<1>14. DeltasUpTo(t, m) = DeltasUpTo(s, n) + d
  <2>1. DeltasUpTo(t, m) = DeltasUpTo(t, l) + t.pages[m].delta
    BY <1>5, SumsStep
  <2>2. CASE n = l
    <3>1. t.pages[m].delta = d
      <4>1. m # Len(s.pages)
        BY <1>4, <1>5, <2>2
      <4> QED
        BY <4>1 DEF AlignsLast
    <3> QED
      BY <1>13, <2>1, <2>2, <3>1
  <2>3. CASE n = l + 1
    <3>1. t.pages[m].delta = s.pages[m].delta + d /\ m = n
      BY <1>4, <1>5, <2>3 DEF AlignsLast
    <3>2. DeltasUpTo(s, n) = DeltasUpTo(s, l) + s.pages[m].delta
      BY <1>5, <2>3, SumsStep
    <3>3. m \in 1 .. Len(s.pages)
      BY <1>2, <1>4, <3>1
    <3>4. s.pages[m].delta \in Nat
      BY <1>1, <3>3, PageFields
    <3>5. PICK x \in Nat : x = DeltasUpTo(s, l)
      BY <1>13
    <3>6. PICK y \in Nat : y = s.pages[m].delta
      BY <3>4
    <3>7. DeltasUpTo(t, m) = x + (y + d) /\ DeltasUpTo(s, n) = x + y
      BY <1>13, <2>1, <3>1, <3>2, <3>5, <3>6, Zenon
    <3>8. x + (y + d) = x + y + d
      OBVIOUS
    <3> QED
      BY <3>7, <3>8, Zenon
  <2> QED
    BY <1>8, <2>2, <2>3
<1>15. ASSUME NEW w \in 1 .. Emitted(s)
       PROVE  Position(t, w) = Position(s, w)
  <2>1. PICK i \in 1 .. Len(s.pages) : OnPage(s, w, i)
    BY <1>1, WordIsOnPage
  <2>2. i <= l
    <3>1. CASE i = l + 1
      <4>1. WordsUpTo(s, l) < w /\ w <= Emitted(s)
        <5>1. i - 1 = l
          BY <3>1
        <5> QED
          BY <1>1, <2>1, <5>1 DEF OnPage
      <4> QED
        BY <1>1, <1>9, <4>1
    <3> QED
      BY <1>4, <1>8, <3>1
  <2>3. i \in 1 .. Len(t.pages) /\ i - 1 \in 0 .. l /\ i \in 0 .. l /\ w \in Nat
        /\ i \in 0 .. Len(s.pages)
    BY <1>1, <1>2, <1>4, <1>5, <2>2
  <2>4. OnPage(t, w, i)
    BY <1>7, <2>1, <2>3 DEF OnPage
  <2>5. DeltasUpTo(t, i) = DeltasUpTo(s, i)
    <3>1. Raised(s, t, i, 1, 0)
      <4>1. \A k \in 1 .. i : t.pages[k].delta = s.pages[k].delta + 0
        BY <1>12, <2>3
      <4> QED
        BY <4>1 DEF Raised
    <3>2. DeltasUpTo(t, i) = DeltasUpTo(s, i) + (IF 1 <= i THEN 0 ELSE 0)
      BY <1>1, <2>3, <3>1, DeltasRaised
    <3>3. DeltasUpTo(s, i) \in Nat
      BY <1>1, <2>3, SumsAreNumbers
    <3> QED
      BY <3>2, <3>3
  <2>6. Position(s, w) = w - 1 + DeltasUpTo(s, i) /\ Position(t, w) = w - 1 + DeltasUpTo(t, i)
    BY <1>1, <1>3, <2>1, <2>3, <2>4, PositionIs
  <2> QED
    BY <2>5, <2>6, Zenon
<1>16. ASSUME Counts(s)
       PROVE  Counts(t)
  <2>1. s.offset = Emitted(s) + DeltasUpTo(s, n) /\ t.offset = s.offset + d
    BY <1>4, <1>16 DEF Counts, AlignsLast
  <2>2. PICK e \in Nat : e = Emitted(s)
    BY <1>1
  <2>3. PICK x \in Nat : x = DeltasUpTo(s, n)
    BY <1>1, <1>4
  <2>4. t.offset = e + x + d /\ DeltasUpTo(t, m) = x + d /\ Emitted(t) = e
    BY <1>11, <1>14, <2>1, <2>2, <2>3, Zenon
  <2>5. e + x + d = e + (x + d)
    OBVIOUS
  <2> QED
    BY <1>2, <2>4, <2>5 DEF Counts
<1> QED
  BY <1>4, <1>11, <1>14, <1>15, <1>16

\* Section s becomes t, of which page p is aligned by d locations more.
AlignsPage(s, t, p, d) ==
  /\ t \in Section /\ p \in 1 .. Len(s.pages) /\ Len(t.pages) = Len(s.pages)
  /\ t.offset = s.offset + d
  /\ \A i \in 1 .. Len(s.pages) : t.pages[i].words = s.pages[i].words
  /\ Raised(s, t, Len(s.pages), p, d)

\* The words before page p stay where they are, the others move.
LEMMA PageIsAligned ==
  ASSUME NEW s \in Section, NEW t, NEW p, NEW d \in Nat, AlignsPage(s, t, p, d)
  PROVE  /\ Emitted(t) = Emitted(s) /\ WordsUpTo(t, p - 1) = WordsUpTo(s, p - 1)
         /\ \A w \in 1 .. Emitted(s) :
              /\ Position(s, w) \in Nat
              /\ Position(t, w) = Position(s, w)
                                    + (IF WordsUpTo(s, p - 1) < w THEN d ELSE 0)
         /\ Counts(s) => Counts(t)
<1>1. /\ s.pages \in Seq(Page) /\ s.offset \in Nat /\ Len(s.pages) \in Nat
      /\ Emitted(s) \in Nat /\ DeltasUpTo(s, Len(s.pages)) \in Nat
  BY SectionFields
<1>2. /\ t \in Section /\ p \in 1 .. Len(s.pages) /\ Len(t.pages) = Len(s.pages)
  BY DEF AlignsPage
<1>3. t.pages \in Seq(Page)
  BY <1>2, SectionFields
<1>4. \A i \in 1 .. Len(s.pages) : t.pages[i].words = s.pages[i].words
  BY DEF AlignsPage
<1>5. Emitted(t) = Emitted(s)
  BY <1>1, <1>2, <1>4, WordsSame DEF Emitted
<1>6. WordsUpTo(t, p - 1) = WordsUpTo(s, p - 1)
  <2>1. PICK l \in Nat : l = p - 1
    BY <1>1, <1>2
  <2>2. \A i \in 1 .. l : t.pages[i].words = s.pages[i].words
    BY SMTT(30), <1>1, <1>2, <1>4, <2>1
  <2> QED
    BY <2>1, <2>2, WordsSame
<1>7. ASSUME NEW w \in 1 .. Emitted(s)
      PROVE  /\ Position(s, w) \in Nat
             /\ Position(t, w) = Position(s, w)
                                   + (IF WordsUpTo(s, p - 1) < w THEN d ELSE 0)
  <2>1. Raised(s, t, Len(s.pages), p, d)
    BY DEF AlignsPage
  <2>2. \A i \in 1 .. Len(s.pages) - 1 : t.pages[i].words = s.pages[i].words
    BY <1>1, <1>4
  <2>3. s.pages[Len(s.pages)].words <= t.pages[Len(s.pages)].words
    <3>1. Len(s.pages) \in 1 .. Len(s.pages)
      BY <1>1, <1>2
    <3>2. s.pages[Len(s.pages)].words \in Nat
      BY <1>1, <3>1, PageFields
    <3> QED
      BY <1>4, <3>1, <3>2
  <2>4. Len(s.pages) <= Len(t.pages)
    BY <1>1, <1>2
  <2> QED
    BY SMTT(30), <1>1, <1>2, <1>3, <2>1, <2>2, <2>3, <2>4, WordsMove
<1>8. ASSUME Counts(s)
      PROVE  Counts(t)
  <2>1. Raised(s, t, Len(s.pages), p, d) /\ t.offset = s.offset + d
    BY DEF AlignsPage
  <2>2. p \in Nat \ {0} /\ p <= Len(s.pages) /\ Len(s.pages) \in 0 .. Len(s.pages)
    BY <1>1, <1>2
  <2>3. DeltasUpTo(t, Len(s.pages))
          = DeltasUpTo(s, Len(s.pages)) + (IF p <= Len(s.pages) THEN d ELSE 0)
    BY <1>1, <2>1, <2>2, DeltasRaised
  <2>4. DeltasUpTo(t, Len(s.pages)) = DeltasUpTo(s, Len(s.pages)) + d
    BY <2>2, <2>3
  <2>5. PICK e \in Nat : e = Emitted(s)
    BY <1>1
  <2>6. PICK x \in Nat : x = DeltasUpTo(s, Len(s.pages))
    BY <1>1
  <2>7. t.offset = e + x + d /\ DeltasUpTo(t, Len(t.pages)) = x + d /\ Emitted(t) = e
    BY <1>2, <1>5, <1>8, <2>1, <2>4, <2>5, <2>6, Zenon DEF Counts
  <2>8. e + x + d = e + (x + d)
    OBVIOUS
  <2> QED
    BY <2>7, <2>8, Zenon DEF Counts
<1> QED
  BY <1>5, <1>6, <1>7, <1>8

\* The words before a page are below the place where it begins, the others and
\* the location counter are not.
LEMMA PageDivides ==
  ASSUME NEW s \in Section, NEW p \in 1 .. Len(s.pages)
  PROVE  /\ WordsUpTo(s, p - 1) \in Nat /\ DeltasUpTo(s, p) \in Nat
         /\ WordsUpTo(s, p - 1) <= Emitted(s)
         /\ \A w \in 1 .. Emitted(s) :
              WordsUpTo(s, p - 1) < w
                <=> WordsUpTo(s, p - 1) + DeltasUpTo(s, p) <= Position(s, w)
         /\ Counts(s) => WordsUpTo(s, p - 1) + DeltasUpTo(s, p) <= s.offset
<1>1. /\ s.pages \in Seq(Page) /\ s.offset \in Nat /\ Len(s.pages) \in Nat
      /\ Emitted(s) \in Nat /\ DeltasUpTo(s, Len(s.pages)) \in Nat
  BY SectionFields
<1>2. PICK n \in Nat : n = Len(s.pages)
  BY <1>1
<1>3. p \in 0 .. n /\ p - 1 \in 0 .. n /\ n \in p .. n /\ n \in p - 1 .. n /\ p \in 1 .. n
  BY <1>2
<1>4. WordsUpTo(s, p - 1) \in Nat /\ DeltasUpTo(s, p) \in Nat
  BY <1>1, <1>2, <1>3, SumsAreNumbers
<1>5. WordsUpTo(s, p - 1) <= Emitted(s) /\ DeltasUpTo(s, p) <= DeltasUpTo(s, n)
  BY <1>1, <1>2, <1>3, SumsGrow DEF Emitted
<1>6. PICK a \in Nat : a = WordsUpTo(s, p - 1)
  BY <1>4
<1>7. PICK b \in Nat : b = DeltasUpTo(s, p)
  BY <1>4
<1>8. ASSUME NEW w \in 1 .. Emitted(s)
      PROVE  a < w <=> a + b <= Position(s, w)
  <2>1. PICK i \in 1 .. Len(s.pages) : OnPage(s, w, i)
    BY <1>1, WordIsOnPage
  <2>2. w \in Nat /\ i \in 0 .. n /\ i - 1 \in 0 .. n
    BY <1>1, <1>2
  <2>3. Position(s, w) = w - 1 + DeltasUpTo(s, i)
    BY <1>1, <2>1, <2>2, PositionIs
  <2>4. PICK x \in Nat : x = DeltasUpTo(s, i)
    BY <1>1, <1>2, <2>2, SumsAreNumbers
  <2>5. PICK y \in Nat : y = WordsUpTo(s, i)
    BY <1>1, <1>2, <2>2, SumsAreNumbers
  <2>6. PICK z \in Nat : z = WordsUpTo(s, i - 1)
    BY <1>1, <1>2, <2>2, SumsAreNumbers
  <2>7. z < w /\ w <= y
    BY <2>1, <2>5, <2>6 DEF OnPage
  <2>8. CASE p <= i
    <3>1. i \in p .. n /\ i - 1 \in p - 1 .. n
      BY <1>2, <1>3, <2>2, <2>8
    <3>2. a <= z /\ b <= x
      BY <1>1, <1>2, <1>3, <1>6, <1>7, <2>4, <2>6, <3>1, SumsGrow
    <3>3. a < w /\ a + b <= w - 1 + x
      BY <2>2, <2>7, <3>2
    <3> QED
      BY <2>3, <2>4, <3>3, Zenon
  <2>9. CASE ~ (p <= i)
    <3>1. p - 1 \in i .. n /\ p \in i .. n
      BY <1>2, <1>3, <2>2, <2>9
    <3>2. y <= a /\ x <= b
      BY <1>1, <1>2, <1>3, <1>6, <1>7, <2>2, <2>4, <2>5, <3>1, SumsGrow
    <3>3. ~ (a < w) /\ ~ (a + b <= w - 1 + x)
      BY <2>2, <2>7, <3>2
    <3> QED
      BY <2>3, <2>4, <3>3, Zenon
  <2> QED
    BY <2>8, <2>9
<1>9. ASSUME Counts(s)
      PROVE  a + b <= s.offset
  <2>1. s.offset = Emitted(s) + DeltasUpTo(s, n)
    BY <1>2, <1>9 DEF Counts
  <2>2. PICK e \in Nat : e = Emitted(s)
    BY <1>1
  <2>3. PICK x \in Nat : x = DeltasUpTo(s, n)
    BY <1>1, <1>2
  <2>4. a <= e /\ b <= x
    BY <1>5, <1>6, <1>7, <2>2, <2>3, Zenon
  <2>5. a + b <= e + x
    BY <2>4
  <2> QED
    BY <2>1, <2>2, <2>3, <2>5, Zenon
<1> QED
  BY <1>4, <1>5, <1>6, <1>7, <1>8, <1>9, Zenon

\* Section s becomes t with k more words, or k more locations if it has no data.
Extends(s, t, k) ==
  /\ t \in Section /\ t.name = s.name /\ t.type = s.type /\ t.space = s.space
  /\ t.addralign = s.addralign /\ t.offset = s.offset + k
  /\ Len(s.pages) <= Len(t.pages)
  /\ \A i \in 1 .. Len(s.pages) :
       WordsUpTo(t, i - 1) = WordsUpTo(s, i - 1) /\ DeltasUpTo(t, i) = DeltasUpTo(s, i)
  /\ HasData(s) =>
       /\ Emitted(t) = Emitted(s) + k
       /\ \A w \in 1 .. Emitted(s) : Position(t, w) = Position(s, w)
  /\ HasData(s) /\ Counts(s) =>
       /\ Counts(t)
       /\ \A w \in Emitted(s) + 1 .. Emitted(t) : Position(t, w) = s.offset + (w - Emitted(s) - 1)

\* A relocation of the next word of section s.
MarksNext(s, r) ==
  r \in Relocation /\ r.word = Emitted(s) + 1 /\ r.offset = s.offset * EntSize[s.space]

\* The relocations of section s become those of t.
KeepsRelocs(s, t) == t.relocs = s.relocs
AddsReloc(s, t) == HasData(s) /\ \E r : MarksNext(s, r) /\ t.relocs = Append(s.relocs, r)

LEMMA GrowsExtends ==
  ASSUME NEW s, NEW t, NEW k, Grows(s, t, k)
  PROVE  Extends(s, t, k) /\ KeepsRelocs(s, t)
BY Zenon DEF Grows, Extends, KeepsRelocs

\* A word with a relocation.
LEMMA MarkedWordExtends ==
  ASSUME NEW s \in Section, HasData(s), NEW n \in Name
  PROVE  /\ Extends(s, EmitWord(AddRelocation(s, n)), 1)
         /\ AddsReloc(s, EmitWord(AddRelocation(s, n)))
<1> DEFINE r == [symbol |-> n, offset |-> s.offset * EntSize[s.space], word |-> Emitted(s) + 1]
           rs == Append(s.relocs, r)
           u == [s EXCEPT !.relocs = rs]
<1>1. /\ s.offset \in Nat /\ s.relocs \in Seq(Relocation) /\ s.space \in Space
      /\ Emitted(s) \in Nat
  BY SectionFields
<1>2. r \in Relocation
  <2>1. EntSize[s.space] \in Nat
    BY <1>1, SpaceAssumption
  <2>2. s.offset * EntSize[s.space] \in Nat
    BY <1>1, <2>1
  <2>3. Emitted(s) + 1 \in Nat \ {0}
    BY <1>1
  <2> QED
    BY <2>2, <2>3 DEF Relocation
<1>3. rs \in Seq(Relocation)
  <2> HIDE DEF r
  <2> QED
    BY <1>1, <1>2, AppendProperties
<1>4. /\ u \in Section /\ u.name = s.name /\ u.type = s.type /\ u.space = s.space
      /\ u.pages = s.pages /\ u.offset = s.offset /\ u.addralign = s.addralign
      /\ u.relocs = rs
  <2> HIDE DEF rs
  <2> QED
    BY <1>3 DEF Section
<1>5. AddRelocation(s, n) = u
  <2>1. s.type # "NOBITS"
    BY DEF HasData
  <2> QED
    BY <2>1, Zenon DEF AddRelocation
<1>6. MarksNext(s, r)
  <2>1. r.word = Emitted(s) + 1 /\ r.offset = s.offset * EntSize[s.space]
    OBVIOUS
  <2> HIDE DEF r
  <2> QED
    BY <1>2, <2>1 DEF MarksNext
<1> HIDE DEF r, u
<1>7. Grows(u, EmitWord(u), 1)
  BY <1>4, WordGrows
<1>8. PICK t : t = EmitWord(u)
  OBVIOUS
<1>9. /\ \A i : WordsUpTo(u, i) = WordsUpTo(s, i) /\ DeltasUpTo(u, i) = DeltasUpTo(s, i)
      /\ \A w : Position(u, w) = Position(s, w)
  <2>1. \A i : WordsUpTo(u, i) = WordsUpTo(s, i) /\ DeltasUpTo(u, i) = DeltasUpTo(s, i)
    BY <1>4, Zenon DEF WordsUpTo, DeltasUpTo
  <2>2. ASSUME NEW w PROVE Position(u, w) = Position(s, w)
    <3> DEFINE P(i) == i \in DOMAIN u.pages /\ (WordsUpTo(u, i - 1) < w /\ w <= WordsUpTo(u, i))
               Q(i) == i \in DOMAIN s.pages /\ (WordsUpTo(s, i - 1) < w /\ w <= WordsUpTo(s, i))
    <3>1. \A i : P(i) <=> Q(i)
      BY <1>4, <2>1, Zenon
    <3>2. (CHOOSE i : P(i)) = (CHOOSE i : Q(i))
      <4> HIDE DEF P, Q
      <4> QED
        BY <3>1, Zenon
    <3>3. /\ Position(u, w) = w - 1 + DeltasUpTo(u, CHOOSE i : P(i))
          /\ Position(s, w) = w - 1 + DeltasUpTo(s, CHOOSE i : Q(i))
      BY DEF Position
    <3> HIDE DEF P, Q
    <3> QED
      BY <2>1, <3>2, <3>3, Zenon
  <2> QED
    BY <2>1, <2>2
<1>10. Emitted(u) = Emitted(s) /\ (Counts(u) <=> Counts(s)) /\ (HasData(u) <=> HasData(s))
  BY <1>4, <1>9, Zenon DEF Emitted, Counts, HasData
<1>11. Extends(s, t, 1)
  <2>1. Grows(u, t, 1)
    BY <1>7, <1>8
  <2>2. /\ t \in Section /\ t.name = s.name /\ t.type = s.type /\ t.space = s.space
        /\ t.addralign = s.addralign /\ t.offset = s.offset + 1
        /\ Len(s.pages) <= Len(t.pages)
    BY <1>4, <2>1, Zenon DEF Grows
  <2>3. \A i \in 1 .. Len(s.pages) :
          WordsUpTo(t, i - 1) = WordsUpTo(s, i - 1) /\ DeltasUpTo(t, i) = DeltasUpTo(s, i)
    BY <1>4, <1>9, <2>1, Zenon DEF Grows
  <2>4. HasData(s) =>
          /\ Emitted(t) = Emitted(s) + 1
          /\ \A w \in 1 .. Emitted(s) : Position(t, w) = Position(s, w)
    BY <1>9, <1>10, <2>1, Zenon DEF Grows
  <2>5. HasData(s) /\ Counts(s) =>
          /\ Counts(t)
          /\ \A w \in Emitted(s) + 1 .. Emitted(t) :
               Position(t, w) = s.offset + (w - Emitted(s) - 1)
    BY <1>4, <1>10, <2>1, Zenon DEF Grows
  <2> QED
    BY <2>2, <2>3, <2>4, <2>5 DEF Extends
<1>12. AddsReloc(s, t)
  <2>1. t.relocs = Append(s.relocs, r)
    BY <1>4, <1>7, <1>8, Zenon DEF Grows
  <2> QED
    BY <1>6, <2>1 DEF AddsReloc
<1> QED
  BY <1>5, <1>8, <1>11, <1>12, Zenon

\* What is at a place in s is there in t; the next word is where it was expected.
LEMMA ExtendsIsAt ==
  ASSUME NEW s \in Section, HasData(s), Counts(s), NEW t, NEW k \in Nat, Extends(s, t, k),
         NEW w \in Nat, NEW v, IsAt(s, w, v)
  PROVE  IsAt(t, w, v)
<1>1. t \in Section /\ s.offset \in Nat /\ t.offset = s.offset + k /\ Emitted(s) \in Nat
      /\ Emitted(t) = Emitted(s) + k
  BY SectionFields DEF Extends
<1>2. w <= Emitted(s) + 1
  BY DEF IsAt
<1>3. w <= Emitted(t) + 1
  BY <1>1, <1>2
<1>4. ASSUME w \in 1 .. Emitted(t)
      PROVE  v = Position(t, w)
  <2>1. CASE w <= Emitted(s)
    <3>1. w \in 1 .. Emitted(s)
      BY <1>1, <1>4, <2>1
    <3> QED
      BY <3>1, Zenon DEF IsAt, Extends
  <2>2. CASE ~ (w <= Emitted(s))
    <3>1. w = Emitted(s) + 1 /\ w \in Emitted(s) + 1 .. Emitted(t)
      BY <1>1, <1>2, <1>4, <2>2
    <3>2. v = s.offset
      BY <3>1 DEF IsAt
    <3>3. Position(t, w) = s.offset + (w - Emitted(s) - 1)
      BY <3>1, Zenon DEF Extends
    <3>4. w - Emitted(s) - 1 = 0
      BY <1>1, <3>1
    <3> QED
      BY <1>1, <3>2, <3>3, <3>4
  <2> QED
    BY <2>1, <2>2
<1>5. ASSUME w = Emitted(t) + 1
      PROVE  v = t.offset
  <2>1. k = 0 /\ w = Emitted(s) + 1
    BY <1>1, <1>2, <1>5
  <2>2. v = s.offset
    BY <2>1 DEF IsAt
  <2> QED
    BY <1>1, <2>1, <2>2
<1> QED
  BY <1>3, <1>4, <1>5 DEF IsAt

LEMMA ExtendsMarks ==
  ASSUME NEW s \in Section, HasData(s), Counts(s), NEW t, NEW k \in Nat, Extends(s, t, k),
         KeepsRelocs(s, t) \/ (AddsReloc(s, t) /\ k > 0),
         \A i \in DOMAIN s.relocs : Marks(s, s.relocs[i])
  PROVE  \A i \in DOMAIN t.relocs : Marks(t, t.relocs[i])
<1>1. /\ t \in Section /\ s.offset \in Nat /\ Emitted(s) \in Nat
      /\ Emitted(t) = Emitted(s) + k /\ t.space = s.space
      /\ s.relocs \in Seq(Relocation) /\ Emitted(t) \in Nat
  BY SectionFields DEF Extends
<1>2. ASSUME NEW r \in Relocation, Marks(s, r)
      PROVE  Marks(t, r)
  <2>1. r.word \in Nat /\ r.word >= 1
    BY DEF Relocation
  <2>2. r.word \in 1 .. Emitted(s) /\ r.word <= Emitted(t)
    BY <1>1, <1>2, <2>1 DEF Marks
  <2>3. Position(t, r.word) = Position(s, r.word)
    BY <2>2, Zenon DEF Extends
  <2> QED
    BY <1>1, <1>2, <2>2, <2>3, Zenon DEF Marks
<1>3. CASE KeepsRelocs(s, t)
  <2>1. ASSUME NEW i \in DOMAIN t.relocs
        PROVE  Marks(t, t.relocs[i])
    <3>1. t.relocs = s.relocs /\ i \in DOMAIN s.relocs
      BY <1>3, <2>1 DEF KeepsRelocs
    <3>2. i \in 1 .. Len(s.relocs)
      BY <1>1, <3>1
    <3>3. s.relocs[i] \in Relocation
      BY <1>1, <3>2, ElementOfSeq
    <3> QED
      BY <1>2, <3>1, <3>3
  <2> QED
    BY <2>1
<1>4. CASE AddsReloc(s, t) /\ k > 0
  <2>1. PICK r : MarksNext(s, r) /\ t.relocs = Append(s.relocs, r)
    BY <1>4 DEF AddsReloc
  <2>2. r \in Relocation /\ r.word = Emitted(s) + 1 /\ r.offset = s.offset * EntSize[s.space]
    BY <2>1 DEF MarksNext
  <2>3. Marks(t, r)
    <3>1. r.word \in Emitted(s) + 1 .. Emitted(t) /\ r.word <= Emitted(t)
          /\ r.word - Emitted(s) - 1 = 0
      BY <1>1, <1>4, <2>2
    <3>2. Position(t, r.word) = s.offset + (r.word - Emitted(s) - 1)
      BY <3>1, Zenon DEF Extends
    <3>3. Position(t, r.word) = s.offset
      BY <1>1, <3>1, <3>2
    <3> QED
      BY <1>1, <2>2, <3>1, <3>3, Zenon DEF Marks
  <2>4. ASSUME NEW i \in DOMAIN t.relocs
        PROVE  Marks(t, t.relocs[i])
    <3>1. /\ Len(t.relocs) = Len(s.relocs) + 1 /\ t.relocs \in Seq(Relocation)
          /\ \A j \in 1 .. Len(s.relocs) : t.relocs[j] = s.relocs[j]
          /\ t.relocs[Len(s.relocs) + 1] = r
      BY <1>1, <2>1, <2>2, AppendProperties
    <3>2. i \in 1 .. Len(s.relocs) + 1
      BY <3>1
    <3>3. CASE i \in 1 .. Len(s.relocs)
      <4>1. s.relocs[i] \in Relocation /\ i \in DOMAIN s.relocs
        BY <1>1, <3>3, ElementOfSeq
      <4> QED
        BY <1>2, <3>1, <3>3, <4>1
    <3>4. CASE i = Len(s.relocs) + 1
      BY <2>3, <3>1, <3>4
    <3> QED
      BY <1>1, <3>2, <3>3, <3>4
  <2> QED
    BY <2>4
<1> QED
  BY <1>3, <1>4

LEMMA ExtendsBegun ==
  ASSUME NEW s \in Section, NEW t, NEW k \in Nat, Extends(s, t, k),
         KeepsRelocs(s, t) \/ AddsReloc(s, t), NEW A,
         NEW al \in [page : Nat, offset : Nat, reloc : Nat], Begun(s, al)
  PROVE  /\ Begun(t, al)
         /\ HasData(s) /\ Counts(s) /\ BegunAt(s, al, A) => BegunAt(t, al, A)
         /\ RelocsBefore(s, al) => RelocsBefore(t, al)
<1>1. /\ t \in Section /\ s.offset \in Nat /\ t.offset = s.offset + k
      /\ Len(s.pages) \in Nat /\ Len(t.pages) \in Nat
      /\ Len(s.pages) <= Len(t.pages) /\ t.name = s.name
      /\ s.relocs \in Seq(Relocation) /\ t.relocs \in Seq(Relocation)
  BY SectionFields DEF Extends
<1>2. al.page \in Nat /\ al.offset \in Nat /\ al.reloc \in Nat
  OBVIOUS
<1>3. al.page \in 1 .. Len(s.pages) /\ al.offset <= s.offset /\ al.reloc <= Len(s.relocs)
  BY DEF Begun
<1>4. /\ Len(s.relocs) <= Len(t.relocs)
      /\ \A i \in 1 .. Len(s.relocs) : t.relocs[i] = s.relocs[i]
  <2>1. CASE KeepsRelocs(s, t)
    BY <1>1, <2>1 DEF KeepsRelocs
  <2>2. CASE AddsReloc(s, t)
    <3>1. PICK r : MarksNext(s, r) /\ t.relocs = Append(s.relocs, r)
      BY <2>2 DEF AddsReloc
    <3>2. r \in Relocation
      BY <3>1 DEF MarksNext
    <3> QED
      BY <1>1, <3>1, <3>2, AppendProperties
  <2> QED
    BY <2>1, <2>2
<1>5. Begun(t, al)
  <2>1. al.page \in 1 .. Len(t.pages) /\ al.offset <= t.offset /\ al.reloc <= Len(t.relocs)
    <3>1. al.page \in 1 .. Len(t.pages) /\ al.offset <= t.offset
      BY <1>1, <1>2, <1>3
    <3>2. al.reloc <= Len(t.relocs)
      BY <1>1, <1>2, <1>3, <1>4
    <3> QED
      BY <3>1, <3>2
  <2> QED
    BY <2>1 DEF Begun
<1>6. /\ WordsUpTo(t, al.page - 1) = WordsUpTo(s, al.page - 1)
      /\ DeltasUpTo(t, al.page) = DeltasUpTo(s, al.page)
  BY <1>3, Zenon DEF Extends
<1>7. Before(t, al) = Before(s, al)
  BY <1>6 DEF Before
<1>8. ASSUME HasData(s), Counts(s), BegunAt(s, al, A)
      PROVE  BegunAt(t, al, A)
  <2>1. Before(s, al) \in Nat
    BY <1>3, PageDivides DEF Before
  <2>2. PICK w \in Nat : w = Before(s, al) + 1
    BY <2>1
  <2>3. IsAt(s, w, al.offset)
    BY <1>8, <2>2 DEF BegunAt
  <2>4. IsAt(t, w, al.offset)
    BY <1>8, <2>3, ExtendsIsAt
  <2>6. IsAt(t, Before(t, al) + 1, al.offset)
    BY <1>7, <2>2, <2>4
  <2>7. al.offset = Before(t, al) + DeltasUpTo(t, al.page)
    BY <1>6, <1>7, <1>8, Zenon DEF BegunAt
  <2>8. \A a \in A : a.section = t.name =>
          /\ a.word <= Before(t, al) + 1
          /\ a.word = Before(t, al) + 1 => al.offset % a.by = 0
    BY <1>1, <1>7, <1>8, Zenon DEF BegunAt
  <2> QED
    BY <2>6, <2>7, <2>8 DEF BegunAt
<1>9. ASSUME RelocsBefore(s, al)
      PROVE  RelocsBefore(t, al)
  <2>1. ASSUME NEW i \in 1 .. al.reloc
        PROVE  t.relocs[i].word <= Before(t, al)
    <3>1. i \in 1 .. Len(s.relocs)
      BY <1>1, <1>2, <1>3
    <3> QED
      BY <1>4, <1>7, <1>9, <3>1 DEF RelocsBefore
  <2> QED
    BY <2>1 DEF RelocsBefore
<1> QED
  BY <1>5, <1>8, <1>9

----------------------------------------------------------------------------
(* What becomes of the sections of the file and of its symbols. *)

\* The current section of q becomes t in r.
Replaces(q, r, t) ==
  /\ q \in Seq(Section) /\ q # <<>> /\ t \in Section /\ t.name = q[1].name
  /\ r = [q EXCEPT ![1] = t]

LEMMA Replaced ==
  ASSUME NEW q, NEW r, NEW t, Unique(q), Replaces(q, r, t)
  PROVE  /\ r \in Seq(Section) /\ r # <<>> /\ r[1] = t /\ Unique(r)
         /\ q[1] \in Section /\ q[1] \in Those(q) /\ t \in Those(r) /\ Those(q) \subseteq Section
         /\ \A u \in Those(r) : u = t \/ (u \in Those(q) /\ u.name # t.name)
         /\ \A s \in Those(q) : s.name = t.name => s = q[1]
         /\ \A s \in Those(q) : s = q[1] \/ s \in Those(r)
<1>1. /\ q \in Seq(Section) /\ q # <<>> /\ t \in Section /\ t.name = q[1].name
      /\ r = [q EXCEPT ![1] = t]
  BY DEF Replaces
<1>2. PICK n \in Nat \ {0} : n = Len(q)
  BY <1>1
<1>3. 1 \in 1 .. Len(q) /\ DOMAIN q = 1 .. n
  BY <1>1, <1>2
<1>4. /\ r \in Seq(Section) /\ Len(r) = n
      /\ \A j \in 1 .. n : r[j] = IF j = 1 THEN t ELSE q[j]
  BY <1>1, <1>2, <1>3, ExceptSeq
<1>5. DOMAIN r = 1 .. n /\ r # <<>> /\ r[1] = t
  BY <1>2, <1>3, <1>4
<1>6. \A j \in 1 .. n : q[j] \in Section
  BY <1>1, <1>2, ElementOfSeq
<1>7. \A i, j \in 1 .. n : q[i].name = q[j].name => i = j
  BY <1>3 DEF Unique
<1>8. \A i, j \in 1 .. n : r[i].name = r[j].name => i = j
  <2>1. \A j \in 1 .. n : r[j].name = q[j].name
    BY <1>1, <1>4
  <2> QED
    BY <1>7, <2>1
<1>9. Unique(r)
  BY <1>5, <1>8 DEF Unique
<1>10. /\ q[1] \in Section /\ q[1] \in Those(q) /\ t \in Those(r) /\ Those(q) \subseteq Section
  BY <1>2, <1>3, <1>5, <1>6 DEF Those
<1>11. ASSUME NEW u \in Those(r)
       PROVE  u = t \/ (u \in Those(q) /\ u.name # t.name)
  <2>1. PICK j \in 1 .. n : u = r[j]
    BY <1>5 DEF Those
  <2>2. CASE j = 1
    BY <1>5, <2>1, <2>2
  <2>3. CASE j # 1
    <3>1. u = q[j]
      BY <1>4, <2>1, <2>3
    <3>2. u \in Those(q)
      BY <1>3, <3>1 DEF Those
    <3>3. q[j].name # q[1].name
      BY <1>2, <1>7, <2>3
    <3> QED
      BY <1>1, <3>1, <3>2, <3>3
  <2> QED
    BY <2>2, <2>3
<1>12. ASSUME NEW s \in Those(q)
       PROVE  /\ s.name = t.name => s = q[1]
              /\ s = q[1] \/ s \in Those(r)
  <2>1. PICK j \in 1 .. n : s = q[j]
    BY <1>3 DEF Those
  <2>2. CASE j = 1
    BY <2>1, <2>2
  <2>3. CASE j # 1
    <3>1. r[j] = s
      BY <1>4, <2>1, <2>3
    <3>2. s \in Those(r)
      BY <1>5, <3>1 DEF Those
    <3>3. q[j].name # q[1].name
      BY <1>2, <1>7, <2>3
    <3> QED
      BY <1>1, <2>1, <3>2, <3>3
  <2> QED
    BY <2>2, <2>3
<1> QED
  BY <1>4, <1>5, <1>9, <1>10, <1>11, <1>12

LEMMA ReplacedAreIn ==
  ASSUME NEW q, NEW r, NEW t, Unique(q), Replaces(q, r, t), NEW y, NEW A,
         AreIn(Those(q), y, A)
  PROVE  AreIn(Those(r), y, A)
<1>1. \A s \in Those(q) : \E u \in Those(r) : u.name = s.name
  <2>1. t.name = q[1].name
    BY DEF Replaces
  <2> QED
    BY <2>1, Replaced
<1>2. ASSUME NEW n \in DOMAIN y, y[n].section # NoSection
      PROVE  \E u \in Those(r) : u.name = y[n].section
  <2>1. PICK s \in Those(q) : s.name = y[n].section
    BY <1>2 DEF AreIn
  <2> QED
    BY <1>1, <2>1
<1>3. ASSUME NEW a \in A
      PROVE  \E u \in Those(r) : u.name = a.section
  <2>1. PICK s \in Those(q) : s.name = a.section
    BY DEF AreIn
  <2> QED
    BY <1>1, <2>1
<1>4. \A n \in DOMAIN y : y[n].section = NoSection => y[n].size = 0
  BY DEF AreIn
<1> QED
  BY <1>2, <1>3, <1>4 DEF AreIn

\* Everything is found as before when words follow.
LEMMA ExtendedIsFound ==
  ASSUME NEW q, NEW r, NEW t, Unique(q), Replaces(q, r, t), NEW k \in Nat, Extends(q[1], t, k),
         NEW y, y \in [DOMAIN y -> SymbolRec], NEW A, A \subseteq AlignedWord,
         Counted(Those(q)), Found(Those(q), y), Met(Those(q), A)
  PROVE  Counted(Those(r)) /\ Found(Those(r), y) /\ Met(Those(r), A)
<1>1. /\ q[1] \in Section /\ q[1] \in Those(q) /\ t \in Section /\ t.name = q[1].name
      /\ HasData(t) => HasData(q[1])
  BY Replaced DEF Replaces, Extends, HasData
<1>2. ASSUME HasData(t)
      PROVE  HasData(q[1]) /\ Counts(q[1]) /\ Counts(t)
  BY <1>1, <1>2 DEF Counted, Extends
<1>3. ASSUME HasData(t), NEW w \in Nat, NEW v, IsAt(q[1], w, v)
      PROVE  IsAt(t, w, v)
  BY <1>1, <1>2, <1>3, ExtendsIsAt
<1>4. Counted(Those(r))
  <2>1. ASSUME NEW u \in Those(r), HasData(u)
        PROVE  Counts(u)
    <3>1. u = t \/ u \in Those(q)
      BY Replaced
    <3> QED
      BY <1>2, <2>1, <3>1 DEF Counted
  <2> QED
    BY <2>1 DEF Counted
<1>5. Found(Those(r), y)
  <2>1. ASSUME NEW u \in Those(r), NEW n \in DOMAIN y, HasData(u), y[n].section = u.name
        PROVE  IsAt(u, y[n].word, y[n].value)
    <3>1. CASE u = t
      <4>1. y[n].section = q[1].name /\ HasData(q[1])
        BY <1>1, <2>1, <3>1
      <4>2. IsAt(q[1], y[n].word, y[n].value)
        BY <1>1, <4>1 DEF Found
      <4>3. y[n].word \in Nat
        BY DEF SymbolRec
      <4> QED
        BY <1>3, <2>1, <3>1, <4>2, <4>3
    <3>2. CASE u \in Those(q)
      BY <2>1, <3>2 DEF Found
    <3> QED
      BY <3>1, <3>2, Replaced
  <2> QED
    BY <2>1 DEF Found
<1>6. Met(Those(r), A)
  <2>1. ASSUME NEW u \in Those(r), NEW a \in A, HasData(u), a.section = u.name
        PROVE  IsMultiple(u, a.word, a.by)
    <3>1. CASE u = t
      <4>1. a.section = q[1].name /\ HasData(q[1])
        BY <1>1, <2>1, <3>1
      <4>2. IsMultiple(q[1], a.word, a.by)
        BY <1>1, <4>1 DEF Met
      <4>3. PICK v \in Nat : IsAt(q[1], a.word, v) /\ v % a.by = 0
        BY <4>2 DEF IsMultiple
      <4>4. a.word \in Nat
        BY DEF AlignedWord
      <4>5. IsAt(t, a.word, v)
        BY <1>3, <2>1, <3>1, <4>3, <4>4
      <4> QED
        BY <3>1, <4>3, <4>5 DEF IsMultiple
    <3>2. CASE u \in Those(q)
      BY <2>1, <3>2 DEF Met
    <3> QED
      BY <3>1, <3>2, Replaced
  <2> QED
    BY <2>1 DEF Met
<1> QED
  BY <1>4, <1>5, <1>6

LEMMA ExtendedIsMarked ==
  ASSUME NEW q, NEW r, NEW t, Unique(q), Replaces(q, r, t), NEW k \in Nat, Extends(q[1], t, k),
         KeepsRelocs(q[1], t) \/ (AddsReloc(q[1], t) /\ k > 0),
         Counted(Those(q)), Marked(Those(q))
  PROVE  Marked(Those(r))
<1>1. /\ q[1] \in Section /\ q[1] \in Those(q)
      /\ HasData(t) => HasData(q[1])
  BY Replaced DEF Extends, HasData
<1>2. ASSUME NEW u \in Those(r), HasData(u)
      PROVE  \A i \in DOMAIN u.relocs : Marks(u, u.relocs[i])
  <2>1. CASE u = t
    <3>1. HasData(q[1]) /\ Counts(q[1])
      BY <1>1, <1>2, <2>1 DEF Counted
    <3>2. \A i \in DOMAIN q[1].relocs : Marks(q[1], q[1].relocs[i])
      BY <1>1, <3>1 DEF Marked
    <3> QED
      BY <1>1, <2>1, <3>1, <3>2, ExtendsMarks
  <2>2. CASE u \in Those(q)
    BY <1>2, <2>2 DEF Marked
  <2> QED
    BY <2>1, <2>2, Replaced
<1> QED
  BY <1>2 DEF Marked

LEMMA ReplacedIsWide ==
  ASSUME NEW q, NEW r, NEW t, Unique(q), Replaces(q, r, t), q[1].addralign <= t.addralign,
         NEW A, A \subseteq AlignedWord, Wide(Those(q), A)
  PROVE  Wide(Those(r), A)
<1>1. /\ q[1] \in Section /\ q[1] \in Those(q) /\ t \in Section /\ t.name = q[1].name
  BY Replaced DEF Replaces
<1>2. q[1].addralign \in Nat /\ t.addralign \in Nat
  BY <1>1 DEF Section
<1>3. ASSUME NEW u \in Those(r), NEW a \in A, a.section = u.name
      PROVE  a.by <= u.addralign
  <2>1. CASE u = t
    <3>1. a.by <= q[1].addralign
      BY <1>1, <1>3, <2>1 DEF Wide
    <3>2. a.by \in Nat
      <4>1. a.by \in PowersOf2
        BY DEF AlignedWord
      <4> QED
        BY <4>1, PowersAreNumbers
    <3> QED
      BY <1>2, <2>1, <3>1, <3>2
  <2>2. CASE u \in Those(q)
    BY <1>3, <2>2 DEF Wide
  <2> QED
    BY <2>1, <2>2, Replaced
<1> QED
  BY <1>3 DEF Wide

\* Variables do not come nearer when the current section gets k locations more.
LEMMA ExtendedIsSpread ==
  ASSUME NEW q, NEW r, NEW t, Unique(q), Replaces(q, r, t), NEW k \in Nat,
         t.offset = q[1].offset + k, NEW y, y \in [DOMAIN y -> SymbolRec], NEW p, NEW j \in Nat,
         p \in DOMAIN y => y[p].section = q[1].name,
         Spread(Those(q), y, p, j)
  PROVE  Spread(Those(r), y, p, j + k)
<1>1. /\ q[1] \in Section /\ q[1] \in Those(q) /\ t \in Section /\ t.name = q[1].name
  BY Replaced DEF Replaces
<1>2. q[1].offset \in Nat
  BY <1>1, SectionFields
<1>3. ASSUME NEW u \in Those(r), NEW n \in DOMAIN y, y[n].section = u.name
      PROVE  IF n = p THEN y[n].value + (j + k) = u.offset
             ELSE y[n].value + y[n].size <= u.offset
  <2>1. y[n].value \in Nat /\ y[n].size \in Nat
    BY DEF SymbolRec
  <2>2. CASE u = t
    <3>1. IF n = p THEN y[n].value + j = q[1].offset
          ELSE y[n].value + y[n].size <= q[1].offset
      BY <1>1, <1>3, <2>2 DEF Spread
    <3>2. PICK v \in Nat : v = y[n].value
      BY <2>1
    <3>3. PICK z \in Nat : z = y[n].size
      BY <2>1
    <3>4. PICK o \in Nat : o = q[1].offset
      BY <1>2
    <3>5. CASE n = p
      <4>1. v + j = o
        BY <3>1, <3>2, <3>4, <3>5
      <4>2. v + (j + k) = o + k
        BY <4>1
      <4> QED
        BY <2>2, <3>2, <3>4, <3>5, <4>2, Zenon
    <3>6. CASE n # p
      <4>1. v + z <= o
        BY <3>1, <3>2, <3>3, <3>4, <3>6
      <4>2. v + z <= o + k
        BY <4>1
      <4> QED
        BY <2>2, <3>2, <3>3, <3>4, <3>6, <4>2, Zenon
    <3> QED
      BY <3>5, <3>6
  <2>3. CASE u \in Those(q) /\ u.name # t.name
    <3>1. n # p
      BY <1>1, <1>3, <2>3
    <3> QED
      BY <1>3, <2>3, <3>1 DEF Spread
  <2> QED
    BY <2>2, <2>3, Replaced
<1> QED
  BY <1>3 DEF Spread

----------------------------------------------------------------------------
(* What becomes of the symbols. *)

LEMMA SymbolFields ==
  ASSUME NEW y, y \in [DOMAIN y -> SymbolRec], NEW n \in DOMAIN y
  PROVE  /\ y[n] \in SymbolRec /\ y[n].value \in Nat /\ y[n].size \in Nat /\ y[n].word \in Nat
         /\ y[n].section \in SectionName \cup {NoSection}
<1>1. y[n] \in SymbolRec
  OBVIOUS
<1> QED
  BY <1>1 DEF SymbolRec

\* Symbols that y has keep their places, others have none.
SamePlace(a, b) == a.section = b.section /\ a.value = b.value /\ a.size = b.size
Redeclares(y, z) ==
  /\ DOMAIN y \subseteq DOMAIN z
  /\ \A n \in DOMAIN z :
       IF n \in DOMAIN y THEN SamePlace(z[n], y[n])
       ELSE z[n].section = NoSection /\ z[n].size = 0

LEMMA RedeclaredKeeps ==
  ASSUME NEW S, S \subseteq Section, NEW y, NEW z, Redeclares(y, z), NEW A, NEW p, NEW k
  PROVE  /\ AreIn(S, y, A) => AreIn(S, z, A)
         /\ (\A n \in DOMAIN y : z[n].word = y[n].word) /\ Found(S, y) => Found(S, z)
         /\ Spread(S, y, p, k) => Spread(S, z, p, k)
         /\ \A s \in S : \A al : Aside(s, al, y, p) => Aside(s, al, z, p)
<1>1. ASSUME NEW n \in DOMAIN z
      PROVE  \/ n \in DOMAIN y /\ SamePlace(z[n], y[n])
             \/ n \notin DOMAIN y /\ z[n].section = NoSection /\ z[n].size = 0
  BY DEF Redeclares
<1>2. \A s \in S : s.name # NoSection
  BY SpaceAssumption DEF Section
<1>3. ASSUME NEW s \in S, NEW n \in DOMAIN z, z[n].section = s.name
      PROVE  n \in DOMAIN y /\ SamePlace(z[n], y[n])
  BY <1>1, <1>2, <1>3
<1>4. ASSUME AreIn(S, y, A)
      PROVE  AreIn(S, z, A)
  <2>1. ASSUME NEW n \in DOMAIN z
        PROVE  /\ z[n].section # NoSection => \E s \in S : s.name = z[n].section
               /\ z[n].section = NoSection => z[n].size = 0
    <3>1. CASE n \in DOMAIN y /\ SamePlace(z[n], y[n])
      BY <1>4, <3>1, Zenon DEF AreIn, SamePlace
    <3>2. CASE z[n].section = NoSection /\ z[n].size = 0
      BY <3>2
    <3> QED
      BY <1>1, <3>1, <3>2
  <2>2. \A a \in A : \E s \in S : s.name = a.section
    BY <1>4, Zenon DEF AreIn
  <2> QED
    BY <2>1, <2>2, Zenon DEF AreIn
<1>5. ASSUME Found(S, y), \A n \in DOMAIN y : z[n].word = y[n].word
      PROVE  Found(S, z)
  <2>1. ASSUME NEW s \in S, NEW n \in DOMAIN z, HasData(s), z[n].section = s.name
        PROVE  IsAt(s, z[n].word, z[n].value)
    <3>1. n \in DOMAIN y /\ SamePlace(z[n], y[n])
      BY <1>3, <2>1
    <3>2. IsAt(s, y[n].word, y[n].value)
      BY <1>5, <2>1, <3>1, Zenon DEF Found, SamePlace
    <3> QED
      BY <1>5, <3>1, <3>2, Zenon DEF SamePlace
  <2> QED
    BY <2>1 DEF Found
<1>6. ASSUME Spread(S, y, p, k)
      PROVE  Spread(S, z, p, k)
  <2>1. ASSUME NEW s \in S, NEW n \in DOMAIN z, z[n].section = s.name
        PROVE  IF n = p THEN z[n].value + k = s.offset ELSE z[n].value + z[n].size <= s.offset
    <3>1. n \in DOMAIN y /\ SamePlace(z[n], y[n])
      BY <1>3, <2>1
    <3>2. y[n].section = s.name
      BY <2>1, <3>1, Zenon DEF SamePlace
    <3>3. IF n = p THEN y[n].value + k = s.offset ELSE y[n].value + y[n].size <= s.offset
      BY <1>6, <3>1, <3>2, Zenon DEF Spread
    <3> QED
      BY <3>1, <3>3, Zenon DEF SamePlace
  <2>2. ASSUME NEW m \in DOMAIN z, NEW n \in DOMAIN z, m # n, m # p,
               z[m].section = z[n].section, z[m].section # NoSection
        PROVE  /\ n # p => Apart(z[m], z[n])
               /\ n = p => z[m].value + z[m].size <= z[n].value
    <3>1. /\ m \in DOMAIN y /\ SamePlace(z[m], y[m]) /\ n \in DOMAIN y /\ SamePlace(z[n], y[n])
      BY <1>1, <2>2
    <3>2. y[m].section = y[n].section /\ y[m].section # NoSection
      BY <2>2, <3>1 DEF SamePlace
    <3>3. /\ n # p => Apart(y[m], y[n])
          /\ n = p => y[m].value + y[m].size <= y[n].value
      BY <1>6, <2>2, <3>1, <3>2, Zenon DEF Spread
    <3> QED
      BY <3>1, <3>3, Zenon DEF SamePlace, Apart
  <2> QED
    BY <2>1, <2>2, Zenon DEF Spread
<1>7. ASSUME NEW s \in S, NEW al, Aside(s, al, y, p)
      PROVE  Aside(s, al, z, p)
  <2>1. ASSUME NEW n \in DOMAIN z, z[n].section = s.name
        PROVE  \/ al.offset <= z[n].value
               \/ n # p /\ z[n].value + z[n].size <= al.offset
    <3>1. n \in DOMAIN y /\ SamePlace(z[n], y[n])
      BY <1>3, <2>1
    <3> QED
      BY <1>7, <2>1, <3>1, Zenon DEF Aside, SamePlace
  <2> QED
    BY <2>1 DEF Aside
<1> QED
  BY <1>4, <1>5, <1>6, <1>7

\* Without a pending variable the number of its words does not matter.
LEMMA NonePends ==
  ASSUME NEW S, NEW y, DOMAIN y \subseteq Name, NEW j, NEW k, Spread(S, y, NoSymbol, j)
  PROVE  Spread(S, y, NoSymbol, k)
<1>1. \A n \in DOMAIN y : n # NoSymbol
  BY SpaceAssumption
<1> QED
  BY <1>1, Zenon DEF Spread

\* A variable that has all its words is one like the others.
LEMMA PendingEnds ==
  ASSUME NEW S, S \subseteq Section, NEW y, y \in [DOMAIN y -> SymbolRec],
         DOMAIN y \subseteq Name, NEW p \in DOMAIN y, Spread(S, y, p, y[p].size), NEW k
  PROVE  Spread(S, y, NoSymbol, k)
<1>1. \A n \in DOMAIN y : n # NoSymbol
  BY SpaceAssumption
<1>2. ASSUME NEW s \in S, NEW n \in DOMAIN y, y[n].section = s.name
      PROVE  y[n].value + y[n].size <= s.offset
  <2>1. s.offset \in Nat
    BY SectionFields
  <2>2. IF n = p THEN y[n].value + y[p].size = s.offset ELSE y[n].value + y[n].size <= s.offset
    BY <1>2 DEF Spread
  <2> QED
    BY <2>1, <2>2
<1>3. ASSUME NEW m \in DOMAIN y, NEW n \in DOMAIN y, m # n,
             y[m].section = y[n].section, y[m].section # NoSection
      PROVE  Apart(y[m], y[n])
  <2>1. CASE m = p
    <3>1. y[n].value + y[n].size <= y[m].value
      BY <1>3, <2>1 DEF Spread
    <3> QED
      BY <3>1, Zenon DEF Apart
  <2>2. CASE m # p /\ n = p
    <3>1. y[m].value + y[m].size <= y[n].value
      BY <1>3, <2>2 DEF Spread
    <3> QED
      BY <3>1, Zenon DEF Apart
  <2>3. CASE m # p /\ n # p
    BY <1>3, <2>3 DEF Spread
  <2> QED
    BY <2>1, <2>2, <2>3
<1> QED
  BY <1>1, <1>2, <1>3, Zenon DEF Spread

\* Symbol n gets the place of the next word of section s.
Defines(s, y, z, n, size) ==
  /\ DOMAIN z = DOMAIN y \cup {n}
  /\ \A m \in DOMAIN z : m # n => m \in DOMAIN y /\ z[m] = y[m]
  /\ z[n].section = s.name /\ z[n].value = s.offset /\ z[n].size = size
  /\ z[n].word = Emitted(s) + 1

LEMMA DefinedIsFound ==
  ASSUME NEW S, S \subseteq Section, NEW s \in S, \A u \in S : u.name = s.name => u = s,
         NEW y, NEW z, NEW n, NEW size, Defines(s, y, z, n, size), NEW A
  PROVE  /\ AreIn(S, y, A) => AreIn(S, z, A)
         /\ Found(S, y) => Found(S, z)
<1>1. s.name # NoSection
  BY SpaceAssumption DEF Section
<1>2. n \in DOMAIN z
  BY DEF Defines
<1>3. ASSUME AreIn(S, y, A)
      PROVE  AreIn(S, z, A)
  <2>1. ASSUME NEW m \in DOMAIN z
        PROVE  /\ z[m].section # NoSection => \E u \in S : u.name = z[m].section
               /\ z[m].section = NoSection => z[m].size = 0
    <3>1. CASE m = n
      BY <1>1, <3>1 DEF Defines
    <3>2. CASE m # n
      <4>1. m \in DOMAIN y /\ z[m] = y[m]
        BY <3>2, Zenon DEF Defines
      <4> QED
        BY <1>3, <4>1, Zenon DEF AreIn
    <3> QED
      BY <3>1, <3>2
  <2>2. \A a \in A : \E u \in S : u.name = a.section
    BY <1>3, Zenon DEF AreIn
  <2> QED
    BY <2>1, <2>2, Zenon DEF AreIn
<1>4. ASSUME Found(S, y)
      PROVE  Found(S, z)
  <2>1. ASSUME NEW u \in S, NEW m \in DOMAIN z, HasData(u), z[m].section = u.name
        PROVE  IsAt(u, z[m].word, z[m].value)
    <3>1. CASE m = n
      <4>1. u = s /\ z[m].word = Emitted(s) + 1 /\ z[m].value = s.offset
        BY <2>1, <3>1 DEF Defines
      <4>2. Emitted(s) \in Nat
        BY SectionFields
      <4>3. Emitted(s) + 1 \notin 1 .. Emitted(s) /\ Emitted(s) + 1 <= Emitted(s) + 1
        BY <4>2
      <4> QED
        BY <4>1, <4>3, Zenon DEF IsAt
    <3>2. CASE m # n
      <4>1. m \in DOMAIN y /\ z[m] = y[m]
        BY <3>2, Zenon DEF Defines
      <4> QED
        BY <1>4, <2>1, <4>1, Zenon DEF Found
    <3> QED
      BY <3>1, <3>2
  <2> QED
    BY <2>1 DEF Found
<1> QED
  BY <1>3, <1>4

LEMMA DefinedIsSpread ==
  ASSUME NEW S, S \subseteq Section, NEW s \in S, \A u \in S : u.name = s.name => u = s,
         NEW y, NEW z, DOMAIN y \subseteq Name, z \in [DOMAIN z -> SymbolRec],
         NEW n \in Name, NEW size, Defines(s, y, z, n, size), NEW k, Spread(S, y, NoSymbol, k)
  PROVE  Spread(S, z, n, 0)
<1>1. \A m \in DOMAIN y : m # NoSymbol
  BY SpaceAssumption
<1>2. s.offset \in Nat
  BY SectionFields
<1>3. ASSUME NEW u \in S, NEW m \in DOMAIN z, z[m].section = u.name
      PROVE  IF m = n THEN z[m].value + 0 = u.offset ELSE z[m].value + z[m].size <= u.offset
  <2>1. CASE m = n
    <3>1. u = s /\ z[m].value = s.offset
      BY <1>3, <2>1 DEF Defines
    <3> QED
      BY <1>2, <2>1, <3>1
  <2>2. CASE m # n
    <3>1. m \in DOMAIN y /\ z[m] = y[m]
      BY <2>2, Zenon DEF Defines
    <3> QED
      BY <1>1, <1>3, <2>2, <3>1, Zenon DEF Spread
  <2> QED
    BY <2>1, <2>2
<1>4. ASSUME NEW l \in DOMAIN z, NEW m \in DOMAIN z, l # m, l # n,
             z[l].section = z[m].section, z[l].section # NoSection
      PROVE  /\ m # n => Apart(z[l], z[m])
             /\ m = n => z[l].value + z[l].size <= z[m].value
  <2>1. l \in DOMAIN y /\ z[l] = y[l]
    BY <1>4, Zenon DEF Defines
  <2>2. ASSUME m # n
        PROVE  Apart(z[l], z[m])
    <3>1. m \in DOMAIN y /\ z[m] = y[m]
      BY <2>2, Zenon DEF Defines
    <3> QED
      BY <1>1, <1>4, <2>1, <3>1, Zenon DEF Spread
  <2>3. ASSUME m = n
        PROVE  z[l].value + z[l].size <= z[m].value
    <3>1. y[l].section = s.name /\ z[m].value = s.offset
      BY <1>4, <2>1, <2>3 DEF Defines
    <3>2. y[l].value + y[l].size <= s.offset
      BY <1>1, <2>1, <3>1, Zenon DEF Spread
    <3> QED
      BY <2>1, <3>1, <3>2, Zenon
  <2> QED
    BY <2>2, <2>3
<1> QED
  BY <1>3, <1>4, Zenon DEF Spread

LEMMA DefinedIsAside ==
  ASSUME NEW s, NEW al, al.offset <= s.offset, NEW y, NEW z, DOMAIN y \subseteq Name, NEW n,
         NEW size, Defines(s, y, z, n, size), Aside(s, al, y, NoSymbol)
  PROVE  Aside(s, al, z, n)
<1>1. ASSUME NEW m \in DOMAIN z, z[m].section = s.name
      PROVE  \/ al.offset <= z[m].value
             \/ m # n /\ z[m].value + z[m].size <= al.offset
  <2>1. CASE m = n
    <3>1. z[m].value = s.offset
      BY <2>1 DEF Defines
    <3> QED
      BY <3>1, Zenon
  <2>2. CASE m # n
    <3>1. m \in DOMAIN y /\ z[m] = y[m]
      BY <2>2, Zenon DEF Defines
    <3> QED
      BY <1>1, <2>2, <3>1, Zenon DEF Aside
  <2> QED
    BY <2>1, <2>2
<1> QED
  BY <1>1, Zenon DEF Aside

LEMMA PendingIsAside ==
  ASSUME NEW s, NEW al, NEW y, DOMAIN y \subseteq Name, NEW p, Aside(s, al, y, p)
  PROVE  Aside(s, al, y, NoSymbol)
<1>1. \A n \in DOMAIN y : n # NoSymbol
  BY SpaceAssumption
<1> QED
  BY <1>1, Zenon DEF Aside

\* The pending variable p gets size e.
Sizes(y, z, p, e) ==
  z = [y EXCEPT ![p].size = e] /\ (y[p].section = NoSection => e = 0)

LEMMA SizedKeeps ==
  ASSUME NEW S, S \subseteq Section, NEW y, NEW z, NEW p \in DOMAIN y,
         y \in [DOMAIN y -> SymbolRec], NEW e \in Nat,
         Sizes(y, z, p, e), NEW A
  PROVE  /\ z \in [DOMAIN y -> SymbolRec] /\ DOMAIN z = DOMAIN y /\ z[p].size = e
         /\ AreIn(S, y, A) => AreIn(S, z, A)
         /\ Found(S, y) => Found(S, z)
         /\ Spread(S, y, p, e) => Spread(S, z, p, e)
         /\ \A s \in S : \A al : Aside(s, al, y, p) => Aside(s, al, z, p)
<1> DEFINE r == [y[p] EXCEPT !.size = e]
<1>1. y[p] \in SymbolRec
  OBVIOUS
<1>2. /\ r \in SymbolRec /\ r.section = y[p].section /\ r.value = y[p].value /\ r.size = e
      /\ r.word = y[p].word
  BY <1>1 DEF SymbolRec
<1>3. z = [y EXCEPT ![p] = r] /\ (y[p].section = NoSection => e = 0)
  BY DEF Sizes
<1> HIDE DEF r
<1>4. /\ z \in [DOMAIN y -> SymbolRec] /\ DOMAIN z = DOMAIN y
      /\ \A n \in DOMAIN y : z[n] = IF n = p THEN r ELSE y[n]
  BY <1>2, <1>3
<1>5. \A n \in DOMAIN y : /\ z[n].section = y[n].section /\ z[n].value = y[n].value
                          /\ z[n].word = y[n].word
                          /\ n # p => z[n].size = y[n].size
                          /\ n = p => z[n].size = e
  BY <1>2, <1>4
<1>6. ASSUME AreIn(S, y, A)
      PROVE  AreIn(S, z, A)
  <2>1. ASSUME NEW n \in DOMAIN y
        PROVE  /\ z[n].section # NoSection => \E u \in S : u.name = z[n].section
               /\ z[n].section = NoSection => z[n].size = 0
    <3>1. y[n].section # NoSection => \E u \in S : u.name = y[n].section
      BY <1>6 DEF AreIn
    <3>2. y[n].section = NoSection => y[n].size = 0
      BY <1>6 DEF AreIn
    <3>3. y[p].section = NoSection => e = 0
      BY Zenon DEF Sizes
    <3> QED
      BY <1>5, <3>1, <3>2, <3>3
  <2>2. \A a \in A : \E u \in S : u.name = a.section
    BY <1>6, Zenon DEF AreIn
  <2> QED
    BY <1>4, <2>1, <2>2, Zenon DEF AreIn
<1>7. ASSUME Found(S, y)
      PROVE  Found(S, z)
  <2>1. ASSUME NEW s \in S, NEW n \in DOMAIN y, HasData(s), z[n].section = s.name
        PROVE  IsAt(s, z[n].word, z[n].value)
    <3>1. IsAt(s, y[n].word, y[n].value)
      BY <1>5, <1>7, <2>1, Zenon DEF Found
    <3> QED
      BY <1>5, <3>1, Zenon
  <2> QED
    BY <1>4, <2>1, Zenon DEF Found
<1>8. ASSUME Spread(S, y, p, e)
      PROVE  Spread(S, z, p, e)
  <2>1. ASSUME NEW s \in S, NEW n \in DOMAIN y, z[n].section = s.name
        PROVE  IF n = p THEN z[n].value + e = s.offset ELSE z[n].value + z[n].size <= s.offset
    <3>1. IF n = p THEN y[n].value + e = s.offset ELSE y[n].value + y[n].size <= s.offset
      BY <1>5, <1>8, <2>1, Zenon DEF Spread
    <3> QED
      BY <1>5, <3>1, Zenon
  <2>2. ASSUME NEW m \in DOMAIN y, NEW n \in DOMAIN y, m # n, m # p,
               z[m].section = z[n].section, z[m].section # NoSection
        PROVE  /\ n # p => Apart(z[m], z[n])
               /\ n = p => z[m].value + z[m].size <= z[n].value
    <3>1. y[m].section = y[n].section /\ y[m].section # NoSection
      BY <1>5, <2>2, Zenon
    <3>2. /\ n # p => Apart(y[m], y[n])
          /\ n = p => y[m].value + y[m].size <= y[n].value
      BY <1>8, <2>2, <3>1, Zenon DEF Spread
    <3> QED
      BY <1>5, <2>2, <3>2, Zenon DEF Apart
  <2> QED
    BY <1>4, <2>1, <2>2, Zenon DEF Spread
<1>9. \A s \in S : \A al : Aside(s, al, y, p) => Aside(s, al, z, p)
  BY <1>4, <1>5, Zenon DEF Aside
<1> QED
  BY <1>4, <1>5, <1>6, <1>7, <1>8, <1>9, Zenon

----------------------------------------------------------------------------
(* What .ALIGN and /CIRC do. *)

\* A location at a multiple of one power of two still is after alignment to another.
LEMMA MultipleStays ==
  ASSUME NEW a \in PowersOf2, NEW b \in PowersOf2, NEW x \in Nat, x % a = 0
  PROVE  (x + Skip(x, b)) % a = 0
<1>1. Skip(x, b) \in Nat /\ (x + Skip(x, b)) % b = 0 /\ (x % b = 0 => Skip(x, b) = 0)
  BY SkipAligns
<1>2. CASE a <= b
  <2>1. x + Skip(x, b) \in Nat
    BY <1>1
  <2> QED
    BY <1>1, <1>2, <2>1, PowersDivide
<1>3. CASE b <= a
  <2>1. x % b = 0
    BY <1>3, PowersDivide
  <2>2. Skip(x, b) = 0
    BY <1>1, <2>1
  <2>3. x + Skip(x, b) = x
    BY <2>2
  <2> QED
    BY <2>3
<1>4. a \in Nat /\ b \in Nat
  BY PowersAreNumbers
<1> QED
  BY <1>2, <1>3, <1>4

\* B has the aligned words of A and one of section s.
OneMore(s, A, B, w, by) ==
  \A b \in B : b \in A \/ (b.section = s.name /\ b.word = w /\ b.by = by)

LEMMA OneMoreIsIn ==
  ASSUME NEW S, NEW s \in S, NEW y, NEW A, NEW B, NEW w, NEW by, OneMore(s, A, B, w, by),
         AreIn(S, y, A)
  PROVE  AreIn(S, y, B)
<1>1. \A b \in B : \E u \in S : u.name = b.section
  BY Zenon DEF AreIn, OneMore
<1> QED
  BY <1>1, Zenon DEF AreIn

LEMMA OneMoreIsWide ==
  ASSUME NEW q, NEW r, NEW t, Unique(q), Replaces(q, r, t), q[1].addralign <= t.addralign,
         NEW A, A \subseteq AlignedWord, Wide(Those(q), A), NEW B, NEW w, NEW by,
         OneMore(q[1], A, B, w, by), by <= t.addralign
  PROVE  Wide(Those(r), B)
<1>1. Wide(Those(r), A)
  BY ReplacedIsWide
<1>2. ASSUME NEW u \in Those(r), NEW b \in B, b.section = u.name
      PROVE  b.by <= u.addralign
  <2>1. CASE b \in A
    BY <1>1, <1>2, <2>1 DEF Wide
  <2>2. CASE b.section = q[1].name /\ b.by = by
    <3>1. t.name = q[1].name
      BY DEF Replaces
    <3>2. u = t \/ (u \in Those(q) /\ u.name # t.name)
      BY Replaced
    <3>3. u = t
      BY <1>2, <2>2, <3>1, <3>2
    <3> QED
      BY <2>2, <3>3
  <2> QED
    BY <2>1, <2>2 DEF OneMore
<1> QED
  BY <1>2 DEF Wide

\* Everything is found when the current section becomes t, its symbols and its
\* aligned words those of z and B.
LEMMA ChangedIsFound ==
  ASSUME NEW q, NEW r, NEW t, Unique(q), Replaces(q, r, t), NEW y, NEW z,
         DOMAIN z = DOMAIN y,
         \A n \in DOMAIN y : z[n].section = y[n].section /\ (y[n].section # t.name => z[n] = y[n]),
         NEW A, NEW B, NEW w, NEW by, OneMore(q[1], A, B, w, by),
         Counted(Those(q)), Found(Those(q), y), Met(Those(q), A),
         HasData(t) => HasData(q[1]),
         HasData(t) => Counts(t),
         HasData(t) => \A n \in DOMAIN y :
           y[n].section = t.name /\ IsAt(q[1], y[n].word, y[n].value)
             => IsAt(t, z[n].word, z[n].value),
         HasData(t) => \A a \in A :
           a.section = t.name /\ IsMultiple(q[1], a.word, a.by) => IsMultiple(t, a.word, a.by),
         HasData(t) => IsMultiple(t, w, by)
  PROVE  Counted(Those(r)) /\ Found(Those(r), z) /\ Met(Those(r), B)
<1>1. q[1] \in Those(q) /\ t.name = q[1].name
  BY Replaced DEF Replaces
<1>2. \A u \in Those(r) : u = t \/ (u \in Those(q) /\ u.name # t.name)
  BY Replaced
<1>3. Counted(Those(r))
  <2>1. ASSUME NEW u \in Those(r), HasData(u)
        PROVE  Counts(u)
    BY <1>2, <2>1 DEF Counted
  <2> QED
    BY <2>1 DEF Counted
<1>4. Found(Those(r), z)
  <2>1. ASSUME NEW u \in Those(r), NEW n \in DOMAIN z, HasData(u), z[n].section = u.name
        PROVE  IsAt(u, z[n].word, z[n].value)
    <3>1. n \in DOMAIN y /\ y[n].section = u.name
      BY <2>1
    <3>2. CASE u = t
      <4>1. IsAt(q[1], y[n].word, y[n].value)
        BY <1>1, <2>1, <3>1, <3>2 DEF Found
      <4> QED
        BY <2>1, <3>1, <3>2, <4>1
    <3>3. CASE u \in Those(q) /\ u.name # t.name
      <4>1. z[n] = y[n] /\ IsAt(u, y[n].word, y[n].value)
        BY <2>1, <3>1, <3>3 DEF Found
      <4> QED
        BY <4>1
    <3> QED
      BY <1>2, <3>2, <3>3
  <2> QED
    BY <2>1 DEF Found
<1>5. Met(Those(r), B)
  <2>1. ASSUME NEW u \in Those(r), NEW b \in B, HasData(u), b.section = u.name
        PROVE  IsMultiple(u, b.word, b.by)
    <3>1. CASE b \in A
      <4>1. CASE u = t
        <5>1. IsMultiple(q[1], b.word, b.by)
          BY <1>1, <2>1, <3>1, <4>1 DEF Met
        <5> QED
          BY <2>1, <3>1, <4>1, <5>1
      <4>2. CASE u \in Those(q)
        BY <2>1, <3>1, <4>2 DEF Met
      <4> QED
        BY <1>2, <4>1, <4>2
    <3>2. CASE b.section = q[1].name /\ b.word = w /\ b.by = by
      <4>1. u = t
        BY <1>1, <1>2, <2>1, <3>2
      <4> QED
        BY <2>1, <3>2, <4>1
    <3> QED
      BY <3>1, <3>2 DEF OneMore
  <2> QED
    BY <2>1 DEF Met
<1> QED
  BY <1>3, <1>4, <1>5

\* What .ALIGN does to a place: the words stay, but the next one moves.
LEMMA LastIsAt ==
  ASSUME NEW s \in Section, NEW t, NEW m, NEW d \in Nat, AlignsLast(s, t, m, d),
         NEW w \in Nat, NEW v, IsAt(s, w, v)
  PROVE  /\ w # Emitted(s) + 1 => IsAt(t, w, v)
         /\ w = Emitted(s) + 1 => v = s.offset /\ IsAt(t, w, s.offset + d)
<1>1. /\ Emitted(t) = Emitted(s) /\ t.offset = s.offset + d
      /\ \A x \in 1 .. Emitted(s) : Position(t, x) = Position(s, x)
  <2>1. t.offset = s.offset + d
    BY DEF AlignsLast
  <2>2. /\ Emitted(t) = Emitted(s)
        /\ \A x \in 1 .. Emitted(s) : Position(t, x) = Position(s, x)
    BY LastIsAligned
  <2> QED
    BY <2>1, <2>2
<1>2. Emitted(s) \in Nat
  BY SectionFields
<1>3. CASE w # Emitted(s) + 1
  BY <1>1, <1>3, Zenon DEF IsAt
<1>4. CASE w = Emitted(s) + 1
  <2>1. w \notin 1 .. Emitted(s)
    BY <1>2, <1>4
  <2> QED
    BY <1>1, <1>4, <2>1, Zenon DEF IsAt
<1> QED
  BY <1>3, <1>4

\* .ALIGN: symbols that stand before the next word lose it when words are skipped.
LoseWord(s, y, z, d) ==
  z = [n \in DOMAIN y |->
         IF y[n].section = s.name /\ d > 0 /\ y[n].word = Emitted(s) + 1
         THEN [y[n] EXCEPT !.word = 0] ELSE y[n]]

\* What .ALIGN does to the sections, the symbols and the aligned words.
AlignsTo(q, r, t, y, z, by, m, d, A, B) ==
  /\ Unique(q) /\ Replaces(q, r, t) /\ y \in [DOMAIN y -> SymbolRec] /\ by \in PowersOf2
  /\ d = Skip(q[1].offset, by) /\ AlignsLast(q[1], t, m, d) /\ LoseWord(q[1], y, z, d)
  /\ A \subseteq AlignedWord /\ OneMore(q[1], A, B, Emitted(q[1]) + 1, by)

LEMMA AlignedIsFound ==
  ASSUME NEW q, NEW r, NEW t, NEW y, NEW z, NEW by, NEW m, NEW d, NEW A, NEW B,
         AlignsTo(q, r, t, y, z, by, m, d, A, B),
         Counted(Those(q)), Found(Those(q), y), Met(Those(q), A)
  PROVE  Counted(Those(r)) /\ Found(Those(r), z) /\ Met(Those(r), B)
<1> /\ Unique(q) /\ Replaces(q, r, t) /\ y \in [DOMAIN y -> SymbolRec] /\ by \in PowersOf2
    /\ d = Skip(q[1].offset, by) /\ AlignsLast(q[1], t, m, d) /\ LoseWord(q[1], y, z, d)
    /\ A \subseteq AlignedWord /\ OneMore(q[1], A, B, Emitted(q[1]) + 1, by)
  BY DEF AlignsTo
<1>1. /\ q[1] \in Section /\ q[1] \in Those(q) /\ t.name = q[1].name /\ t.type = q[1].type
      /\ q[1].offset \in Nat /\ Emitted(q[1]) \in Nat
  BY Replaced, SectionFields DEF Replaces, AlignsLast
<1>2. d \in Nat /\ (q[1].offset + d) % by = 0
  BY <1>1, SkipAligns
<1>3. HasData(t) => HasData(q[1])
  BY <1>1 DEF HasData
<1>4. HasData(t) => Counts(t)
  BY <1>1, <1>2, <1>3, LastIsAligned DEF Counted
<1>5. /\ DOMAIN z = DOMAIN y
      /\ \A n \in DOMAIN y : z[n].section = y[n].section /\ z[n].value = y[n].value
                             /\ (y[n].section # t.name => z[n] = y[n])
  <2>1. DOMAIN z = DOMAIN y
    BY Zenon DEF LoseWord
  <2>2. ASSUME NEW n \in DOMAIN y
        PROVE  /\ z[n].section = y[n].section /\ z[n].value = y[n].value
               /\ y[n].section # t.name => z[n] = y[n]
    <3>1. z[n] = IF y[n].section = q[1].name /\ d > 0 /\ y[n].word = Emitted(q[1]) + 1
                 THEN [y[n] EXCEPT !.word = 0] ELSE y[n]
      BY Zenon DEF LoseWord
    <3>2. y[n] \in SymbolRec
      OBVIOUS
    <3>3. /\ [y[n] EXCEPT !.word = 0].section = y[n].section
          /\ [y[n] EXCEPT !.word = 0].value = y[n].value
      BY <3>2 DEF SymbolRec
    <3> QED
      BY <1>1, <3>1, <3>3, Zenon
  <2> QED
    BY <2>1, <2>2
<1>6. ASSUME NEW n \in DOMAIN y, y[n].section = t.name, IsAt(q[1], y[n].word, y[n].value)
      PROVE  IsAt(t, z[n].word, z[n].value)
  <2>1. y[n] \in SymbolRec /\ y[n].word \in Nat
    BY SymbolFields
  <2>2. z[n] = IF y[n].section = q[1].name /\ d > 0 /\ y[n].word = Emitted(q[1]) + 1
               THEN [y[n] EXCEPT !.word = 0] ELSE y[n]
    BY Zenon DEF LoseWord
  <2>3. CASE y[n].word # Emitted(q[1]) + 1
    <3>1. z[n] = y[n]
      BY <2>2, <2>3, Zenon
    <3>2. IsAt(t, y[n].word, y[n].value)
      BY <1>1, <1>2, <1>6, <2>1, <2>3, LastIsAt
    <3> QED
      BY <3>1, <3>2
  <2>4. CASE y[n].word = Emitted(q[1]) + 1 /\ d > 0
    <3>1. z[n] = [y[n] EXCEPT !.word = 0]
      BY <1>1, <1>6, <2>2, <2>4, Zenon
    <3>2. z[n].word = 0
      BY <2>1, <3>1 DEF SymbolRec
    <3>3. Emitted(t) = Emitted(q[1])
      BY <1>1, <1>2, LastIsAligned
    <3>4. 0 <= Emitted(t) + 1 /\ 0 \notin 1 .. Emitted(t) /\ 0 # Emitted(t) + 1
      BY <1>1, <3>3
    <3> QED
      BY <3>2, <3>4, Zenon DEF IsAt
  <2>5. CASE y[n].word = Emitted(q[1]) + 1 /\ ~ (d > 0)
    <3>1. z[n] = y[n]
      BY <2>2, <2>5, Zenon
    <3>2. y[n].value = q[1].offset /\ IsAt(t, y[n].word, q[1].offset + d)
      BY <1>1, <1>2, <1>6, <2>1, <2>5, LastIsAt
    <3>3. q[1].offset + d = q[1].offset
      BY <1>1, <1>2, <2>5
    <3> QED
      BY <3>1, <3>2, <3>3
  <2> QED
    BY <2>3, <2>4, <2>5
<1>7. ASSUME NEW a \in A, a.section = t.name, IsMultiple(q[1], a.word, a.by)
      PROVE  IsMultiple(t, a.word, a.by)
  <2>1. a.word \in Nat /\ a.by \in PowersOf2
    BY DEF AlignedWord
  <2>2. PICK v \in Nat : IsAt(q[1], a.word, v) /\ v % a.by = 0
    BY <1>7 DEF IsMultiple
  <2>3. CASE a.word # Emitted(q[1]) + 1
    <3>1. IsAt(t, a.word, v)
      BY <1>1, <1>2, <2>1, <2>2, <2>3, LastIsAt
    <3> QED
      BY <2>2, <3>1 DEF IsMultiple
  <2>4. CASE a.word = Emitted(q[1]) + 1
    <3>1. v = q[1].offset /\ IsAt(t, a.word, q[1].offset + d)
      BY <1>1, <1>2, <2>1, <2>2, <2>4, LastIsAt
    <3>2. (q[1].offset + d) % a.by = 0
      BY <1>1, <2>1, <2>2, <3>1, MultipleStays
    <3>3. q[1].offset + d \in Nat
      BY <1>1, <1>2
    <3> QED
      BY <3>1, <3>2, <3>3 DEF IsMultiple
  <2> QED
    BY <2>3, <2>4
<1>8. IsMultiple(t, Emitted(q[1]) + 1, by)
  <2>1. IsAt(q[1], Emitted(q[1]) + 1, q[1].offset)
    <3>1. Emitted(q[1]) + 1 \notin 1 .. Emitted(q[1]) /\ Emitted(q[1]) + 1 <= Emitted(q[1]) + 1
      BY <1>1
    <3> QED
      BY <3>1, Zenon DEF IsAt
  <2>2. Emitted(q[1]) + 1 \in Nat
    BY <1>1
  <2>3. IsAt(t, Emitted(q[1]) + 1, q[1].offset + d)
    BY <1>1, <1>2, <2>1, <2>2, LastIsAt
  <2>4. q[1].offset + d \in Nat
    BY <1>1, <1>2
  <2> QED
    BY <1>2, <2>3, <2>4 DEF IsMultiple
<1>9. \A n \in DOMAIN y : z[n].section = y[n].section /\ (y[n].section # t.name => z[n] = y[n])
  BY <1>5
<1>10. HasData(t) => \A n \in DOMAIN y :
         y[n].section = t.name /\ IsAt(q[1], y[n].word, y[n].value)
           => IsAt(t, z[n].word, z[n].value)
  BY <1>6
<1>11. HasData(t) => \A a \in A :
         a.section = t.name /\ IsMultiple(q[1], a.word, a.by) => IsMultiple(t, a.word, a.by)
  BY <1>7
<1>12. PICK w \in Nat : w = Emitted(q[1]) + 1
  BY <1>1
<1>13. OneMore(q[1], A, B, w, by) /\ (HasData(t) => IsMultiple(t, w, by))
  BY <1>8, <1>12
<1>14. DOMAIN z = DOMAIN y
  BY <1>5
<1> QED
  BY <1>3, <1>4, <1>9, <1>10, <1>11, <1>13, <1>14, ChangedIsFound

LEMMA AlignedIsMarked ==
  ASSUME NEW q, NEW r, NEW t, Unique(q), Replaces(q, r, t), NEW m, NEW d \in Nat,
         AlignsLast(q[1], t, m, d), Marked(Those(q))
  PROVE  Marked(Those(r))
<1>1. /\ q[1] \in Section /\ q[1] \in Those(q) /\ t.type = q[1].type /\ t.relocs = q[1].relocs
      /\ t.space = q[1].space /\ q[1].relocs \in Seq(Relocation)
  BY Replaced, SectionFields DEF AlignsLast
<1>2. /\ Emitted(t) = Emitted(q[1])
      /\ \A x \in 1 .. Emitted(q[1]) : Position(t, x) = Position(q[1], x)
  BY <1>1, LastIsAligned
<1>3. Emitted(q[1]) \in Nat
  BY <1>1, SectionFields
<1>4. ASSUME NEW u \in Those(r), HasData(u)
      PROVE  \A i \in DOMAIN u.relocs : Marks(u, u.relocs[i])
  <2>1. CASE u = t
    <3>1. ASSUME NEW i \in DOMAIN t.relocs
          PROVE  Marks(t, t.relocs[i])
      <4>1. i \in 1 .. Len(q[1].relocs)
        BY <1>1
      <4>2. t.relocs[i] \in Relocation
        BY <1>1, <4>1, ElementOfSeq
      <4>3. Marks(q[1], t.relocs[i])
        BY <1>1, <1>4, <2>1 DEF Marked, HasData
      <4>4. t.relocs[i].word \in 1 .. Emitted(q[1])
        BY <1>3, <4>2, <4>3 DEF Marks, Relocation
      <4> QED
        BY <1>1, <1>2, <4>3, <4>4, Zenon DEF Marks
    <3> QED
      BY <2>1, <3>1
  <2>2. CASE u \in Those(q)
    BY <1>4, <2>2 DEF Marked
  <2> QED
    BY <2>1, <2>2, Replaced
<1> QED
  BY <1>4 DEF Marked

\* /CIRC begins: the buffer begins at the next word.
LEMMA FreshBegins ==
  ASSUME NEW s \in Section, NEW t, NEW m, AlignsLast(s, t, m, 0), NEW A, A \subseteq AlignedWord,
         NEW y, NEW al, al = [page |-> m, offset |-> s.offset, reloc |-> Len(s.relocs)]
  PROVE  /\ t.addralign = s.addralign => Extends(s, t, 0)
         /\ Begun(t, al)
         /\ /\ HasData(s) /\ Counts(s)
            /\ \A a \in A : a.section = s.name => IsMultiple(s, a.word, a.by)
            => BegunAt(t, al, A)
         /\ (\A i \in DOMAIN s.relocs : Marks(s, s.relocs[i])) => RelocsBefore(t, al)
<1>1. /\ s.pages \in Seq(Page) /\ s.offset \in Nat /\ Len(s.pages) \in Nat
      /\ Emitted(s) \in Nat /\ DeltasUpTo(s, Len(s.pages)) \in Nat
      /\ s.relocs \in Seq(Relocation)
  BY SectionFields
<1>2. /\ t \in Section /\ m \in Nat \ {0} /\ Len(t.pages) = m /\ t.name = s.name
      /\ t.type = s.type /\ t.space = s.space /\ t.relocs = s.relocs /\ t.offset = s.offset + 0
      /\ m \in {Len(s.pages), Len(s.pages) + 1}
  BY DEF AlignsLast
<1>3. /\ Emitted(t) = Emitted(s) /\ WordsUpTo(t, m - 1) = Emitted(s)
      /\ \A w \in 1 .. Emitted(s) : Position(t, w) = Position(s, w)
      /\ Counts(s) => Counts(t)
      /\ DeltasUpTo(t, m) = DeltasUpTo(s, Len(s.pages)) + 0
  BY LastIsAligned
<1>4. t.offset = s.offset /\ Before(t, al) = Emitted(s)
      /\ DeltasUpTo(t, m) = DeltasUpTo(s, Len(s.pages))
  BY <1>1, <1>2, <1>3 DEF Before
<1>5. Begun(t, al)
  BY <1>1, <1>2, <1>4 DEF Begun
<1>6. ASSUME HasData(s), Counts(s),
             \A a \in A : a.section = s.name => IsMultiple(s, a.word, a.by)
      PROVE  BegunAt(t, al, A)
  <2>1. al.offset = Before(t, al) + DeltasUpTo(t, al.page)
    BY <1>4, <1>6, Zenon DEF Counts
  <2>2. IsAt(t, Before(t, al) + 1, al.offset)
    <3>1. Emitted(s) + 1 \notin 1 .. Emitted(s) /\ Emitted(s) + 1 <= Emitted(s) + 1
      BY <1>1
    <3> QED
      BY <1>3, <1>4, <3>1, Zenon DEF IsAt
  <2>3. ASSUME NEW a \in A, a.section = t.name
        PROVE  /\ a.word <= Before(t, al) + 1
               /\ a.word = Before(t, al) + 1 => al.offset % a.by = 0
    <3>1. IsMultiple(s, a.word, a.by)
      BY <1>2, <1>6, <2>3
    <3>2. PICK v \in Nat : IsAt(s, a.word, v) /\ v % a.by = 0
      BY <3>1 DEF IsMultiple
    <3> QED
      BY <1>4, <3>2, Zenon DEF IsAt
  <2> QED
    BY <2>1, <2>2, <2>3, Zenon DEF BegunAt
<1>7. ASSUME \A i \in DOMAIN s.relocs : Marks(s, s.relocs[i])
      PROVE  RelocsBefore(t, al)
  <2>1. ASSUME NEW i \in 1 .. al.reloc
        PROVE  t.relocs[i].word <= Before(t, al)
    <3>1. i \in DOMAIN s.relocs
      BY <1>1
    <3> QED
      BY <1>2, <1>4, <1>7, <3>1, Zenon DEF Marks
  <2> QED
    BY <2>1 DEF RelocsBefore
<1>8. ASSUME t.addralign = s.addralign
      PROVE  Extends(s, t, 0)
  <2>1. PICK n \in Nat : n = Len(s.pages)
    BY <1>1
  <2>2. \A i \in 1 .. m - 1 : t.pages[i] = s.pages[i]
    BY DEF AlignsLast
  <2>3. Len(s.pages) <= Len(t.pages)
    BY <1>1, <1>2
  <2>4. \A i \in 0 .. m - 1 : WordsUpTo(t, i) = WordsUpTo(s, i)
    <3>1. ASSUME NEW i \in 0 .. m - 1
          PROVE  WordsUpTo(t, i) = WordsUpTo(s, i)
      <4>1. \A k \in 1 .. i : t.pages[k].words = s.pages[k].words
        BY <1>2, <2>2
      <4>2. i \in Nat
        OBVIOUS
      <4> QED
        BY <4>1, <4>2, WordsSame
    <3> QED
      BY <3>1
  <2>5. Raised(s, t, n, 1, 0)
    <3>1. ASSUME NEW k \in 1 .. n
          PROVE  t.pages[k].delta = s.pages[k].delta + (IF k = 1 THEN 0 ELSE 0)
      <4>1. s.pages[k].delta \in Nat
        BY <1>1, <2>1, PageFields
      <4>2. CASE k = m
        <5>1. m = Len(s.pages)
          BY <1>2, <2>1, <4>2
        <5>2. t.pages[m].delta = s.pages[m].delta + 0
          BY <5>1 DEF AlignsLast
        <5> QED
          BY <4>2, <5>2
      <4>3. CASE k # m
        <5>1. k \in 1 .. m - 1
          BY <1>2, <2>1, <4>3
        <5> QED
          BY <2>2, <4>1, <5>1
      <4> QED
        BY <4>2, <4>3
    <3> QED
      BY <3>1 DEF Raised
  <2>6. ASSUME NEW i \in 1 .. Len(s.pages)
        PROVE  WordsUpTo(t, i - 1) = WordsUpTo(s, i - 1) /\ DeltasUpTo(t, i) = DeltasUpTo(s, i)
    <3>1. WordsUpTo(t, i - 1) = WordsUpTo(s, i - 1)
      <4>1. i - 1 \in 0 .. m - 1
        BY <1>2, <2>1
      <4> QED
        BY <2>4, <4>1
    <3>2. i \in 0 .. Len(s.pages) /\ i \in 0 .. n /\ i \in Nat
      BY <1>1, <2>1
    <3>3. Raised(s, t, i, 1, 0)
      BY <2>5, <3>2 DEF Raised
    <3>4. DeltasUpTo(t, i) = DeltasUpTo(s, i) + (IF 1 <= i THEN 0 ELSE 0)
      BY <1>1, <3>2, <3>3, DeltasRaised
    <3>5. DeltasUpTo(s, i) \in Nat
      BY <1>1, <3>2, SumsAreNumbers
    <3> QED
      BY <3>1, <3>4, <3>5
  <2>7. Emitted(t) = Emitted(s) + 0
    BY <1>1, <1>3
  <2>8. \A w \in Emitted(s) + 1 .. Emitted(t) : Position(t, w) = s.offset + (w - Emitted(s) - 1)
    <3>1. \A w : w \notin Emitted(s) + 1 .. Emitted(s)
      BY <1>1
    <3> QED
      BY <1>3, <3>1, Zenon
  <2> QED
    BY <1>2, <1>3, <1>8, <2>3, <2>6, <2>7, <2>8, Zenon DEF Extends
<1> QED
  BY <1>5, <1>6, <1>7, <1>8

----------------------------------------------------------------------------
(* The end of a circular buffer. *)

\* What begins in the buffer moves by d.
MovedTo(al, d, v) == IF v >= al.offset THEN v + d ELSE v

LEMMA BufferIsAt ==
  ASSUME NEW s \in Section, NEW al \in [page : Nat, offset : Nat, reloc : Nat], Begun(s, al),
         NEW A, BegunAt(s, al, A), Counts(s), NEW d \in Nat, NEW t,
         AlignsPage(s, t, al.page, d), NEW w \in Nat, NEW v, IsAt(s, w, v)
  PROVE  IsAt(t, w, MovedTo(al, d, v))
<1>1. /\ Emitted(t) = Emitted(s)
      /\ \A x \in 1 .. Emitted(s) :
           /\ Position(s, x) \in Nat
           /\ Position(t, x) = Position(s, x)
                                 + (IF WordsUpTo(s, al.page - 1) < x THEN d ELSE 0)
  BY PageIsAligned
<1>2. al.page \in 1 .. Len(s.pages) /\ t.offset = s.offset + d
  BY DEF AlignsPage
<1>3. /\ WordsUpTo(s, al.page - 1) + DeltasUpTo(s, al.page) = al.offset
      /\ \A x \in 1 .. Emitted(s) :
           WordsUpTo(s, al.page - 1) < x
             <=> WordsUpTo(s, al.page - 1) + DeltasUpTo(s, al.page) <= Position(s, x)
  BY <1>2, PageDivides DEF BegunAt, Before
<1>4. Emitted(s) \in Nat /\ s.offset \in Nat /\ al.offset \in Nat /\ al.offset <= s.offset
  BY SectionFields DEF Begun
<1>5. CASE w \in 1 .. Emitted(s)
  <2>1. v = Position(s, w) /\ w # Emitted(s) + 1
    BY <1>4, <1>5 DEF IsAt
  <2>2. PICK x \in Nat : x = Position(s, w)
    BY <1>1, <1>5
  <2>3. Position(t, w) = x + (IF x >= al.offset THEN d ELSE 0)
    <3>1. WordsUpTo(s, al.page - 1) < w <=> al.offset <= x
      BY <1>3, <1>5, <2>2, Zenon
    <3>2. Position(t, w) = x + (IF WordsUpTo(s, al.page - 1) < w THEN d ELSE 0)
      BY <1>1, <1>5, <2>2, Zenon
    <3>3. al.offset <= x <=> x >= al.offset
      BY <1>4
    <3> QED
      BY <3>1, <3>2, <3>3, Zenon
  <2>4. Position(t, w) = MovedTo(al, d, x)
    BY <2>3 DEF MovedTo
  <2> QED
    BY <1>1, <1>5, <2>1, <2>2, <2>4, Zenon DEF IsAt
<1>6. CASE w = Emitted(s) + 1
  <2>1. v = s.offset /\ w \notin 1 .. Emitted(s)
    BY <1>4, <1>6 DEF IsAt
  <2>2. MovedTo(al, d, s.offset) = t.offset
    BY <1>2, <1>4 DEF MovedTo
  <2> QED
    BY <1>1, <1>6, <2>1, <2>2, Zenon DEF IsAt
<1>7. CASE w \notin 1 .. Emitted(s) /\ w # Emitted(s) + 1
  BY <1>1, <1>7, Zenon DEF IsAt
<1> QED
  BY <1>5, <1>6, <1>7

\* align_symbols.
MoveSymbols(s, y, z, al, d) ==
  z = [n \in DOMAIN y |->
         IF y[n].section = s.name /\ y[n].value >= al.offset
         THEN [y[n] EXCEPT !.value = @ + d] ELSE y[n]]

LEMMA SymbolsMove ==
  ASSUME NEW s, NEW y, y \in [DOMAIN y -> SymbolRec], NEW z, NEW d \in Nat, NEW al,
         MoveSymbols(s, y, z, al, d)
  PROVE  /\ DOMAIN z = DOMAIN y
         /\ z \in [DOMAIN y -> SymbolRec]
         /\ \A n \in DOMAIN y :
              /\ z[n].section = y[n].section /\ z[n].size = y[n].size /\ z[n].word = y[n].word
              /\ y[n].section # s.name => z[n] = y[n]
              /\ y[n].section = s.name => z[n].value = MovedTo(al, d, y[n].value)
<1>1. DOMAIN z = DOMAIN y
  BY Zenon DEF MoveSymbols
<1>2. ASSUME NEW n \in DOMAIN y
      PROVE  /\ z[n] \in SymbolRec
             /\ z[n].section = y[n].section /\ z[n].size = y[n].size /\ z[n].word = y[n].word
             /\ y[n].section # s.name => z[n] = y[n]
             /\ y[n].section = s.name => z[n].value = MovedTo(al, d, y[n].value)
  <2>1. y[n] \in SymbolRec /\ y[n].value \in Nat
    BY SymbolFields
  <2>2. z[n] = IF y[n].section = s.name /\ y[n].value >= al.offset
               THEN [y[n] EXCEPT !.value = @ + d] ELSE y[n]
    BY Zenon DEF MoveSymbols
  <2> DEFINE e == y[n].value + d
             m == [y[n] EXCEPT !.value = e]
  <2>3. [y[n] EXCEPT !.value = @ + d] = m
    OBVIOUS
  <2>4. e \in Nat
    BY <2>1
  <2>5. /\ m \in SymbolRec /\ m.section = y[n].section /\ m.size = y[n].size
        /\ m.word = y[n].word /\ m.value = e
    <3> HIDE DEF e
    <3> QED
      BY <2>1, <2>4 DEF SymbolRec
  <2> HIDE DEF m
  <2> QED
    BY <2>1, <2>2, <2>3, <2>5, Zenon DEF MovedTo, e
<1>3. z \in [DOMAIN y -> SymbolRec]
  <2>1. z = [n \in DOMAIN z |-> z[n]]
    BY Zenon DEF MoveSymbols
  <2> QED
    BY <1>1, <1>2, <2>1, Zenon
<1> QED
  BY <1>1, <1>2, <1>3

EndsTo(q, r, t, y, z, by, al, d, A, B) ==
  /\ Unique(q) /\ Replaces(q, r, t) /\ y \in [DOMAIN y -> SymbolRec] /\ by \in PowersOf2
  /\ al \in [page : Nat, offset : Nat, reloc : Nat] /\ Begun(q[1], al)
  /\ d = Skip(al.offset, by) /\ AlignsPage(q[1], t, al.page, d) /\ t.type = q[1].type
  /\ MoveSymbols(q[1], y, z, al, d)
  /\ A \subseteq AlignedWord /\ (HasData(q[1]) => BegunAt(q[1], al, A))
  /\ OneMore(q[1], A, B, Before(q[1], al) + 1, by)

LEMMA BufferIsFound ==
  ASSUME NEW q, NEW r, NEW t, NEW y, NEW z, NEW by, NEW al, NEW d, NEW A, NEW B,
         EndsTo(q, r, t, y, z, by, al, d, A, B),
         Counted(Those(q)), Found(Those(q), y), Met(Those(q), A)
  PROVE  Counted(Those(r)) /\ Found(Those(r), z) /\ Met(Those(r), B)
<1> /\ Unique(q) /\ Replaces(q, r, t) /\ y \in [DOMAIN y -> SymbolRec] /\ by \in PowersOf2
    /\ al \in [page : Nat, offset : Nat, reloc : Nat] /\ Begun(q[1], al)
    /\ d = Skip(al.offset, by) /\ AlignsPage(q[1], t, al.page, d) /\ t.type = q[1].type
    /\ MoveSymbols(q[1], y, z, al, d)
    /\ A \subseteq AlignedWord /\ (HasData(q[1]) => BegunAt(q[1], al, A))
    /\ OneMore(q[1], A, B, Before(q[1], al) + 1, by)
  BY DEF EndsTo
<1>1. PICK s : s = q[1]
  OBVIOUS
<1>2. /\ s \in Section /\ s \in Those(q) /\ t.name = s.name /\ t.type = s.type
      /\ s.offset \in Nat /\ Emitted(s) \in Nat
  BY <1>1, Replaced, SectionFields DEF Replaces
<1>3. al.offset \in Nat /\ d \in Nat /\ (al.offset + d) % by = 0
  BY SkipAligns
<1>4. HasData(t) => HasData(s)
  BY <1>2 DEF HasData
<1>5. Begun(s, al) /\ AlignsPage(s, t, al.page, d) /\ MoveSymbols(s, y, z, al, d)
      /\ (HasData(s) => BegunAt(s, al, A)) /\ OneMore(s, A, B, Before(s, al) + 1, by)
  BY <1>1
<1>6. ASSUME HasData(t), NEW w \in Nat, NEW v, IsAt(s, w, v)
      PROVE  IsAt(t, w, MovedTo(al, d, v))
  <2>1. Counts(s) /\ BegunAt(s, al, A)
    BY <1>2, <1>4, <1>5, <1>6 DEF Counted
  <2> QED
    BY <1>2, <1>3, <1>5, <1>6, <2>1, BufferIsAt
<1>7. HasData(t) => Counts(t)
  <2>1. ASSUME HasData(t)
        PROVE  Counts(t)
    <3>1. Counts(s)
      BY <1>2, <1>4, <2>1 DEF Counted
    <3> QED
      BY <1>2, <1>3, <1>5, <3>1, PageIsAligned
  <2> QED
    BY <2>1
<1>8. /\ DOMAIN z = DOMAIN y
      /\ \A n \in DOMAIN y :
           /\ z[n].section = y[n].section /\ z[n].word = y[n].word
           /\ y[n].section # s.name => z[n] = y[n]
           /\ y[n].section = s.name => z[n].value = MovedTo(al, d, y[n].value)
  BY <1>3, <1>5, SymbolsMove
<1>9. \A n \in DOMAIN y : z[n].section = y[n].section /\ (y[n].section # t.name => z[n] = y[n])
  BY <1>2, <1>8
<1>10. HasData(t) => \A n \in DOMAIN y :
         y[n].section = t.name /\ IsAt(q[1], y[n].word, y[n].value)
           => IsAt(t, z[n].word, z[n].value)
  <2>1. ASSUME HasData(t), NEW n \in DOMAIN y, y[n].section = t.name,
               IsAt(s, y[n].word, y[n].value)
        PROVE  IsAt(t, z[n].word, z[n].value)
    <3>1. y[n].word \in Nat
      BY SymbolFields
    <3>2. IsAt(t, y[n].word, MovedTo(al, d, y[n].value))
      BY <1>6, <2>1, <3>1
    <3> QED
      BY <1>2, <1>8, <2>1, <3>2, Zenon
  <2> QED
    BY <1>1, <2>1
<1>11. PICK w \in Nat : w = Before(s, al) + 1
  <2>1. al.page \in 1 .. Len(s.pages)
    BY <1>5 DEF Begun
  <2>2. Before(s, al) \in Nat
    BY <1>2, <2>1, PageDivides DEF Before
  <2> QED
    BY <2>2
<1>12. ASSUME HasData(t)
       PROVE  IsAt(t, w, al.offset + d) /\ al.offset + d \in Nat
  <2>1. IsAt(s, w, al.offset)
    BY <1>4, <1>5, <1>11, <1>12 DEF BegunAt
  <2>2. IsAt(t, w, MovedTo(al, d, al.offset))
    BY <1>6, <1>12, <2>1
  <2>3. MovedTo(al, d, al.offset) = al.offset + d
    BY <1>3 DEF MovedTo
  <2> QED
    BY <1>3, <2>2, <2>3
<1>13. HasData(t) => IsMultiple(t, w, by)
  BY <1>3, <1>12 DEF IsMultiple
<1>14. HasData(t) => \A a \in A :
         a.section = t.name /\ IsMultiple(q[1], a.word, a.by) => IsMultiple(t, a.word, a.by)
  <2>1. ASSUME HasData(t), NEW a \in A, a.section = t.name, IsMultiple(s, a.word, a.by)
        PROVE  IsMultiple(t, a.word, a.by)
    <3>1. a.word \in Nat /\ a.by \in PowersOf2
      BY DEF AlignedWord
    <3>2. PICK v \in Nat : IsAt(s, a.word, v) /\ v % a.by = 0
      BY <2>1 DEF IsMultiple
    <3>3. /\ a.word <= Before(s, al) + 1
          /\ a.word = Before(s, al) + 1 => al.offset % a.by = 0
      BY <1>2, <1>4, <1>5, <2>1 DEF BegunAt
    <3>4. CASE a.word = w
      <4>1. al.offset % a.by = 0
        BY <1>11, <3>3, <3>4
      <4>2. (al.offset + d) % a.by = 0
        BY <1>3, <3>1, <4>1, MultipleStays
      <4> QED
        BY <1>12, <2>1, <3>4, <4>2 DEF IsMultiple
    <3>5. CASE a.word # w
      <4>1. IsAt(t, a.word, MovedTo(al, d, v))
        BY <1>6, <2>1, <3>1, <3>2
      <4>2. MovedTo(al, d, v) = v \/ IsAt(t, a.word, v)
        <5>1. /\ WordsUpTo(s, al.page - 1) \in Nat
              /\ \A x \in 1 .. Emitted(s) :
                   WordsUpTo(s, al.page - 1) < x
                     <=> WordsUpTo(s, al.page - 1) + DeltasUpTo(s, al.page) <= Position(s, x)
              /\ WordsUpTo(s, al.page - 1) <= Emitted(s)
          <6>1. al.page \in 1 .. Len(s.pages)
            BY <1>5 DEF Begun
          <6> QED
            BY <1>2, <6>1, PageDivides
        <5>2. WordsUpTo(s, al.page - 1) + DeltasUpTo(s, al.page) = al.offset
          BY <1>4, <1>5, <2>1, Zenon DEF BegunAt, Before
        <5>3. Before(s, al) = WordsUpTo(s, al.page - 1)
          BY DEF Before
        <5>4. a.word < w /\ ~ (WordsUpTo(s, al.page - 1) < a.word)
          BY <1>11, <3>1, <3>3, <3>5, <5>1, <5>3
        <5>5. CASE a.word \in 1 .. Emitted(s)
          <6>1. v = Position(s, a.word)
            BY <3>2, <5>5, Zenon DEF IsAt
          <6>2. ~ (al.offset <= v)
            BY <5>1, <5>2, <5>4, <5>5, <6>1, Zenon
          <6>3. ~ (v >= al.offset)
            BY <1>3, <6>2
          <6> QED
            BY <6>3, Zenon DEF MovedTo
        <5>6. CASE a.word \notin 1 .. Emitted(s)
          <6>1. a.word <= Emitted(s) /\ a.word # Emitted(s) + 1
            BY <1>2, <1>11, <3>1, <5>1, <5>3, <5>4
          <6>2. Emitted(t) = Emitted(s)
            BY <1>2, <1>3, <1>5, PageIsAligned
          <6> QED
            BY <3>2, <5>6, <6>1, <6>2, Zenon DEF IsAt
        <5> QED
          BY <5>5, <5>6
      <4>3. IsAt(t, a.word, v)
        BY <4>1, <4>2
      <4> QED
        BY <3>2, <4>3 DEF IsMultiple
    <3> QED
      BY <3>4, <3>5
  <2> QED
    BY <1>1, <2>1
<1>15. OneMore(q[1], A, B, w, by) /\ DOMAIN z = DOMAIN y /\ (HasData(t) => HasData(q[1]))
  BY <1>1, <1>4, <1>5, <1>8, <1>11
<1> QED
  BY <1>7, <1>9, <1>10, <1>13, <1>14, <1>15, ChangedIsFound

RelocsMoved(s, al, d) ==
  [i \in DOMAIN s.relocs |->
     IF i > al.reloc THEN [s.relocs[i] EXCEPT !.offset = @ + d] ELSE s.relocs[i]]

\* align_relocations, when it does what it has to: nothing moves, or no relocations
\* follow the beginning of the buffer.
LEMMA BufferIsMarked ==
  ASSUME NEW q, NEW r, NEW t, Unique(q), Replaces(q, r, t), NEW d \in Nat,
         NEW al \in [page : Nat, offset : Nat, reloc : Nat], Begun(q[1], al),
         AlignsPage(q[1], t, al.page, d), t.type = q[1].type, t.space = q[1].space,
         t.relocs = RelocsMoved(q[1], al, d),
         d = 0 \/ (Len(q[1].relocs) <= al.reloc /\ (HasData(q[1]) => RelocsBefore(q[1], al))),
         Marked(Those(q))
  PROVE  Marked(Those(r))
<1>1. PICK s : s = q[1]
  OBVIOUS
<1>2. /\ s \in Section /\ s \in Those(q) /\ s.relocs \in Seq(Relocation)
      /\ Emitted(s) \in Nat /\ Len(s.relocs) \in Nat
  BY <1>1, Replaced, SectionFields
<1>3. /\ Emitted(t) = Emitted(s)
      /\ \A w \in 1 .. Emitted(s) :
           /\ Position(s, w) \in Nat
           /\ Position(t, w) = Position(s, w)
                                 + (IF WordsUpTo(s, al.page - 1) < w THEN d ELSE 0)
  BY <1>1, <1>2, PageIsAligned
<1>4. ASSUME HasData(t), NEW i \in DOMAIN t.relocs
      PROVE  Marks(t, t.relocs[i])
  <2>1. HasData(s)
    BY <1>1, <1>4 DEF HasData
  <2>2. i \in DOMAIN s.relocs /\ i \in 1 .. Len(s.relocs)
    BY <1>1, <1>2, <1>4 DEF RelocsMoved
  <2>3. /\ s.relocs[i] \in Relocation /\ s.relocs[i].offset \in Nat
        /\ s.relocs[i].word \in Nat \ {0}
    <3>1. s.relocs[i] \in Relocation
      BY <1>2, <2>2, ElementOfSeq
    <3> QED
      BY <3>1 DEF Relocation
  <2>4. Marks(s, s.relocs[i])
    BY <1>2, <2>1, <2>2 DEF Marked
  <2>5. s.relocs[i].word \in 1 .. Emitted(s)
    BY <1>2, <2>3, <2>4 DEF Marks
  <2>6. t.relocs[i] = IF i > al.reloc THEN [s.relocs[i] EXCEPT !.offset = @ + d]
                      ELSE s.relocs[i]
    BY <1>1, <2>2 DEF RelocsMoved
  <2>7. t.relocs[i] = s.relocs[i] /\ Position(t, s.relocs[i].word) = Position(s, s.relocs[i].word)
    <3>1. CASE d = 0
      <4>1. [s.relocs[i] EXCEPT !.offset = @ + d] = s.relocs[i]
        <5> DEFINE e == s.relocs[i].offset + d
        <5>1. e = s.relocs[i].offset
          BY <2>3, <3>1
        <5>2. [s.relocs[i] EXCEPT !.offset = @ + d] = [s.relocs[i] EXCEPT !.offset = e]
          OBVIOUS
        <5> HIDE DEF e
        <5> QED
          BY <2>3, <5>1, <5>2 DEF Relocation
      <4>2. Position(t, s.relocs[i].word) = Position(s, s.relocs[i].word) + 0
        BY <1>3, <2>5, <3>1, Zenon
      <4>3. Position(s, s.relocs[i].word) \in Nat
        BY <1>3, <2>5
      <4> QED
        BY <2>6, <4>1, <4>2, <4>3
    <3>2. CASE Len(s.relocs) <= al.reloc /\ RelocsBefore(s, al)
      <4>1. al.reloc \in Nat /\ ~ (i > al.reloc) /\ i \in 1 .. al.reloc
        BY <1>2, <2>2, <3>2
      <4>2. s.relocs[i].word <= Before(s, al)
        BY <3>2, <4>1 DEF RelocsBefore
      <4>3. al.page \in 1 .. Len(s.pages)
        BY <1>1 DEF Begun
      <4>4. WordsUpTo(s, al.page - 1) \in Nat
        BY <1>2, <4>3, PageDivides
      <4>5. ~ (WordsUpTo(s, al.page - 1) < s.relocs[i].word)
        BY <2>3, <4>2, <4>4 DEF Before
      <4>6. Position(t, s.relocs[i].word) = Position(s, s.relocs[i].word) + 0
        BY <1>3, <2>5, <4>5, Zenon
      <4>7. Position(s, s.relocs[i].word) \in Nat
        BY <1>3, <2>5
      <4> QED
        BY <2>6, <4>1, <4>6, <4>7
    <3> QED
      BY <1>1, <2>1, <3>1, <3>2
  <2> QED
    BY <1>1, <1>3, <2>4, <2>7, Zenon DEF Marks
<1>5. ASSUME NEW u \in Those(r), HasData(u)
      PROVE  \A i \in DOMAIN u.relocs : Marks(u, u.relocs[i])
  <2>1. CASE u = t
    BY <1>4, <1>5, <2>1
  <2>2. CASE u \in Those(q)
    BY <1>5, <2>2 DEF Marked
  <2> QED
    BY <2>1, <2>2, Replaced
<1> QED
  BY <1>5 DEF Marked

\* The variables of the buffer move together, away from those before it.
LEMMA BufferIsSpread ==
  ASSUME NEW q, NEW r, NEW t, Unique(q), Replaces(q, r, t), NEW y, NEW z,
         DOMAIN y \subseteq Name, y \in [DOMAIN y -> SymbolRec], NEW d \in Nat,
         NEW al \in [page : Nat, offset : Nat, reloc : Nat], t.offset = q[1].offset + d,
         MoveSymbols(q[1], y, z, al, d), Aside(q[1], al, y, NoSymbol),
         NEW j, NEW k, Spread(Those(q), y, NoSymbol, j)
  PROVE  Spread(Those(r), z, NoSymbol, k)
<1>1. PICK s : s = q[1]
  OBVIOUS
<1>2. /\ s \in Section /\ s \in Those(q) /\ t.name = s.name /\ s.offset \in Nat
      /\ t.offset = s.offset + d
  BY <1>1, Replaced, SectionFields DEF Replaces
<1>3. \A n \in DOMAIN y : n # NoSymbol
  BY SpaceAssumption
<1>4. /\ DOMAIN z = DOMAIN y
      /\ \A n \in DOMAIN y :
           /\ z[n].section = y[n].section /\ z[n].size = y[n].size
           /\ y[n].section # s.name => z[n] = y[n]
           /\ y[n].section = s.name => z[n].value = MovedTo(al, d, y[n].value)
  BY <1>1, SymbolsMove
<1>5. al.offset \in Nat
  OBVIOUS
<1>6. ASSUME NEW u \in Those(r), NEW n \in DOMAIN y, y[n].section = u.name
      PROVE  z[n].value + z[n].size <= u.offset
  <2>1. y[n].value \in Nat /\ y[n].size \in Nat
    BY SymbolFields
  <2>2. CASE u = t
    <3>1. y[n].value + y[n].size <= s.offset
      BY <1>2, <1>3, <1>6, <2>2, Zenon DEF Spread
    <3>2. z[n].value = MovedTo(al, d, y[n].value) /\ z[n].size = y[n].size
      BY <1>2, <1>4, <1>6, <2>2, Zenon
    <3>3. MovedTo(al, d, y[n].value) + y[n].size <= s.offset + d
      BY <1>2, <1>5, <2>1, <3>1 DEF MovedTo
    <3> QED
      BY <1>2, <2>2, <3>2, <3>3, Zenon
  <2>3. CASE u \in Those(q) /\ u.name # t.name
    <3>1. z[n] = y[n]
      BY <1>2, <1>4, <1>6, <2>3
    <3> QED
      BY <1>3, <1>6, <2>3, <3>1, Zenon DEF Spread
  <2> QED
    BY <2>2, <2>3, Replaced
<1>7. ASSUME NEW m \in DOMAIN y, NEW n \in DOMAIN y, m # n,
             y[m].section = y[n].section, y[m].section # NoSection
      PROVE  Apart(z[m], z[n])
  <2>1. Apart(y[m], y[n])
    BY <1>3, <1>7, Zenon DEF Spread
  <2>2. CASE y[m].section = s.name
    <3>1. /\ z[m].value = MovedTo(al, d, y[m].value) /\ z[n].value = MovedTo(al, d, y[n].value)
          /\ z[m].size = y[m].size /\ z[n].size = y[n].size
      BY <1>4, <1>7, <2>2, Zenon
    <3>2. /\ al.offset <= y[m].value \/ y[m].value + y[m].size <= al.offset
          /\ al.offset <= y[n].value \/ y[n].value + y[n].size <= al.offset
      BY <1>1, <1>7, <2>2, Zenon DEF Aside
    <3>3. PICK v \in Nat : v = y[m].value
      BY SymbolFields
    <3>4. PICK e \in Nat : e = y[m].size
      BY SymbolFields
    <3>5. PICK w \in Nat : w = y[n].value
      BY SymbolFields
    <3>6. PICK f \in Nat : f = y[n].size
      BY SymbolFields
    <3>7. PICK o \in Nat : o = al.offset
      BY <1>5
    <3>8. /\ e = 0 \/ f = 0 \/ v + e <= w \/ w + f <= v
          /\ o <= v \/ v + e <= o
          /\ o <= w \/ w + f <= o
      BY <2>1, <3>2, <3>3, <3>4, <3>5, <3>6, <3>7, Zenon DEF Apart
    <3>9. \/ e = 0 \/ f = 0
          \/ (IF v >= o THEN v + d ELSE v) + e <= (IF w >= o THEN w + d ELSE w)
          \/ (IF w >= o THEN w + d ELSE w) + f <= (IF v >= o THEN v + d ELSE v)
      BY <3>8
    <3>10. /\ z[m].value = (IF v >= o THEN v + d ELSE v) /\ z[m].size = e
           /\ z[n].value = (IF w >= o THEN w + d ELSE w) /\ z[n].size = f
      BY <3>1, <3>3, <3>4, <3>5, <3>6, <3>7, Zenon DEF MovedTo
    <3> QED
      BY <3>9, <3>10, Zenon DEF Apart
  <2>3. CASE y[m].section # s.name
    <3>1. z[m] = y[m] /\ z[n] = y[n]
      BY <1>4, <1>7, <2>3
    <3> QED
      BY <2>1, <3>1
  <2> QED
    BY <2>2, <2>3
<1> QED
  BY <1>3, <1>4, <1>6, <1>7, Zenon DEF Spread

\* Symbols that move stay in their sections.
LEMMA MovedAreIn ==
  ASSUME NEW S, NEW s, NEW y, y \in [DOMAIN y -> SymbolRec], NEW z, NEW d \in Nat, NEW al,
         MoveSymbols(s, y, z, al, d), NEW A, AreIn(S, y, A)
  PROVE  AreIn(S, z, A)
<1>1. /\ DOMAIN z = DOMAIN y
      /\ \A n \in DOMAIN y : z[n].section = y[n].section /\ z[n].size = y[n].size
  BY SymbolsMove
<1>2. ASSUME NEW n \in DOMAIN y
      PROVE  /\ z[n].section # NoSection => \E u \in S : u.name = z[n].section
             /\ z[n].section = NoSection => z[n].size = 0
  BY <1>1, Zenon DEF AreIn
<1>3. \A a \in A : \E u \in S : u.name = a.section
  BY Zenon DEF AreIn
<1> QED
  BY <1>1, <1>2, <1>3, Zenon DEF AreIn

----------------------------------------------------------------------------
(* The sections the steps make. *)

LEMMA LargerIs ==
  ASSUME NEW a \in PowersOf2, NEW b \in PowersOf2
  PROVE  Larger(a, b) \in PowersOf2 /\ a <= Larger(a, b) /\ b <= Larger(a, b)
<1>1. a \in Nat /\ b \in Nat
  BY PowersAreNumbers
<1>2. CASE a > b
  <2>1. Larger(a, b) = a
    BY <1>2, Zenon DEF Larger
  <2>2. a <= a /\ b <= a
    BY <1>1, <1>2
  <2> QED
    BY <2>1, <2>2, Zenon
<1>3. CASE ~ (a > b)
  <2>1. Larger(a, b) = b
    BY <1>3, Zenon DEF Larger
  <2>2. a <= b /\ b <= b
    BY <1>1, <1>3
  <2> QED
    BY <2>1, <2>2, Zenon
<1> QED
  BY <1>2, <1>3

AlignedTo(s, by, d) ==
  [s EXCEPT !.pages = [FreshPage(s) EXCEPT ![Len(FreshPage(s))].delta = d],
            !.offset = @ + d, !.addralign = Larger(@, by)]

LEMMA AlignedSection ==
  ASSUME NEW s \in Section, s.addralign \in PowersOf2, NEW by \in PowersOf2, NEW d \in Nat,
         NEW t, t = AlignedTo(s, by, d)
  PROVE  /\ t \in Section /\ t.addralign \in PowersOf2 /\ s.addralign <= t.addralign
         /\ by <= t.addralign /\ t.name = s.name /\ t.type = s.type /\ t.offset = s.offset + d
         /\ FreshPage(s)[Len(FreshPage(s))].delta = 0
              => AlignsLast(s, t, Len(FreshPage(s)), d)
<1>1. PICK m \in Nat \ {0} :
        /\ FreshPage(s) \in Seq(Page) /\ Len(FreshPage(s)) = m
        /\ m \in {Len(s.pages), Len(s.pages) + 1}
        /\ \A i \in 1 .. Len(s.pages) : FreshPage(s)[i] = s.pages[i]
        /\ FreshPage(s)[m].words = 0 /\ FreshPage(s)[m].delta \in Nat
        /\ m # Len(s.pages) => FreshPage(s)[m].delta = 0
  BY FreshIs
<1>2. PICK f \in Seq(Page) : f = FreshPage(s)
  BY <1>1
<1>3. s.offset \in Nat /\ Len(s.pages) \in Nat
  BY SectionFields
<1> DEFINE e == [f[m] EXCEPT !.delta = d]
           g == [f EXCEPT ![m] = e]
           o == s.offset + d
           a == Larger(s.addralign, by)
<1>4. m \in 1 .. Len(f) /\ Len(f) = m /\ f[m].words = 0
  BY <1>1, <1>2
<1>5. e \in Page /\ e.delta = d /\ e.words = 0
  <2>1. f[m] \in Page
    BY <1>4, ElementOfSeq
  <2> QED
    BY <1>4, <2>1 DEF Page
<1>6. t = [s EXCEPT !.pages = g, !.offset = o, !.addralign = a]
  <2>1. [f EXCEPT ![m].delta = d] = g
    OBVIOUS
  <2>2. FreshPage(s) = f /\ Len(FreshPage(s)) = m
    BY <1>1, <1>2
  <2>3. t = [s EXCEPT !.pages = [f EXCEPT ![m].delta = d], !.offset = @ + d,
                      !.addralign = Larger(@, by)]
    BY <2>2 DEF AlignedTo
  <2> HIDE DEF g
  <2> QED
    BY <2>1, <2>3
<1>7. /\ g \in Seq(Page) /\ Len(g) = m
      /\ \A i \in 1 .. m : g[i] = IF i = m THEN e ELSE f[i]
  <2> HIDE DEF e
  <2>1. /\ g \in Seq(Page) /\ Len(g) = Len(f)
        /\ \A i \in 1 .. Len(f) : g[i] = IF i = m THEN e ELSE f[i]
    BY <1>4, <1>5, ExceptSeq
  <2> HIDE DEF g
  <2> QED
    BY <1>4, <2>1
<1>8. a \in PowersOf2 /\ s.addralign <= a /\ by <= a /\ a \in Nat \ {0}
  <2>1. a \in PowersOf2 /\ s.addralign <= a /\ by <= a
    BY LargerIs
  <2> HIDE DEF a
  <2>2. a \in Nat /\ a >= 1
    BY <2>1, PowersAreNumbers
  <2> QED
    BY <2>1, <2>2
<1>9. o \in Nat
  BY <1>3
<1> HIDE DEF e, g, a, o
<1>10. /\ t \in Section /\ t.addralign = a /\ t.name = s.name /\ t.type = s.type
       /\ t.offset = o /\ t.pages = g /\ t.space = s.space /\ t.relocs = s.relocs
  BY <1>6, <1>7, <1>8, <1>9 DEF Section
<1>11. ASSUME f[m].delta = 0
       PROVE  AlignsLast(s, t, m, d)
  <2>1. \A i \in 1 .. m - 1 : t.pages[i] = s.pages[i]
    <3>1. ASSUME NEW i \in 1 .. m - 1
          PROVE  g[i] = s.pages[i]
      <4>1. i \in 1 .. m /\ i # m
        OBVIOUS
      <4>2. i \in 1 .. Len(s.pages)
        BY <1>1, <1>3
      <4>3. g[i] = f[i] /\ f[i] = s.pages[i]
        BY <1>1, <1>2, <1>7, <4>1, <4>2
      <4> QED
        BY <4>3
    <3> QED
      BY <1>10, <3>1
  <2>2. t.pages[m].words = 0 /\ t.pages[m].delta = d
    <3>1. m \in 1 .. m
      OBVIOUS
    <3>2. g[m] = e
      BY <1>7, <3>1, Zenon
    <3> QED
      BY <1>5, <1>10, <3>2, Zenon
  <2>3. ASSUME m = Len(s.pages)
        PROVE  s.pages[m].words = 0 /\ s.pages[m].delta = 0
    <3>1. m \in 1 .. Len(s.pages)
      BY <2>3
    <3>2. f[m] = s.pages[m]
      BY <1>1, <1>2, <3>1
    <3> QED
      BY <1>4, <1>11, <3>2
  <2>4. IF m = Len(s.pages)
        THEN s.pages[m].words = 0 /\ t.pages[m].delta = s.pages[m].delta + d
        ELSE t.pages[m].delta = d
    BY <2>2, <2>3
  <2>5. Len(t.pages) = m
    BY <1>7, <1>10
  <2>6. t.offset = s.offset + d
    BY <1>10 DEF o
  <2> QED
    BY <1>1, <1>10, <2>1, <2>2, <2>4, <2>5, <2>6 DEF AlignsLast
<1>12. FreshPage(s)[Len(FreshPage(s))].delta = 0 => AlignsLast(s, t, Len(FreshPage(s)), d)
  BY <1>1, <1>2, <1>11
<1>13. t.offset = s.offset + d
  BY <1>10 DEF o
<1> QED
  BY <1>8, <1>10, <1>12, <1>13, Zenon

LEMMA FreshSection ==
  ASSUME NEW s \in Section, NEW t, t = [s EXCEPT !.pages = FreshPage(s)]
  PROVE  /\ t \in Section /\ t.addralign = s.addralign /\ t.name = s.name
         /\ t.relocs = s.relocs /\ AlignsLast(s, t, Len(FreshPage(s)), 0)
<1>1. PICK m \in Nat \ {0} :
        /\ FreshPage(s) \in Seq(Page) /\ Len(FreshPage(s)) = m
        /\ m \in {Len(s.pages), Len(s.pages) + 1}
        /\ \A i \in 1 .. Len(s.pages) : FreshPage(s)[i] = s.pages[i]
        /\ FreshPage(s)[m].words = 0 /\ FreshPage(s)[m].delta \in Nat
        /\ m # Len(s.pages) => FreshPage(s)[m].delta = 0
  BY FreshIs
<1>2. PICK f \in Seq(Page) : f = FreshPage(s)
  BY <1>1
<1>3. s.offset \in Nat /\ Len(s.pages) \in Nat
  BY SectionFields
<1>4. /\ t \in Section /\ t.addralign = s.addralign /\ t.name = s.name /\ t.type = s.type
      /\ t.offset = s.offset /\ t.pages = f /\ t.space = s.space /\ t.relocs = s.relocs
  BY <1>2 DEF Section
<1>5. Len(f) = m /\ f[m].words = 0 /\ f[m].delta \in Nat
      /\ (m # Len(s.pages) => f[m].delta = 0)
  BY <1>1, <1>2, Zenon
<1>6. \A i \in 1 .. m - 1 : t.pages[i] = s.pages[i]
  <2>1. ASSUME NEW i \in 1 .. m - 1
        PROVE  f[i] = s.pages[i]
    <3>1. i \in 1 .. Len(s.pages)
      BY <1>1, <1>3
    <3> QED
      BY <1>1, <1>2, <3>1
  <2> QED
    BY <1>4, <2>1
<1>7. IF m = Len(s.pages)
      THEN s.pages[m].words = 0 /\ t.pages[m].delta = s.pages[m].delta + 0
      ELSE t.pages[m].delta = 0
  <2>1. CASE m = Len(s.pages)
    <3>1. m \in 1 .. Len(s.pages)
      BY <2>1
    <3>2. f[m] = s.pages[m]
      BY <1>1, <1>2, <3>1
    <3>3. s.pages[m].words = 0 /\ t.pages[m].delta = s.pages[m].delta + 0
      BY <1>4, <1>5, <3>2
    <3> QED
      BY <2>1, <3>3
  <2>2. CASE m # Len(s.pages)
    BY <1>4, <1>5, <2>2
  <2> QED
    BY <2>1, <2>2
<1>8. t.offset = s.offset + 0
  BY <1>3, <1>4
<1>9. AlignsLast(s, t, m, 0)
  BY <1>1, <1>4, <1>5, <1>6, <1>7, <1>8 DEF AlignsLast
<1> QED
  BY <1>1, <1>4, <1>9

EndedTo(s, al, by, d) ==
  [s EXCEPT !.pages[al.page].delta = Larger(@, d), !.offset = @ + d,
            !.addralign = Larger(@, by), !.relocs = RelocsMoved(s, al, d)]

LEMMA EndedSection ==
  ASSUME NEW s \in Section, s.addralign \in PowersOf2, NEW by \in PowersOf2, NEW d \in Nat,
         NEW al \in [page : Nat, offset : Nat, reloc : Nat], Begun(s, al), NEW t,
         t = EndedTo(s, al, by, d)
  PROVE  /\ t \in Section /\ t.addralign \in PowersOf2 /\ s.addralign <= t.addralign
         /\ by <= t.addralign /\ t.name = s.name /\ t.type = s.type /\ t.space = s.space
         /\ t.offset = s.offset + d
         /\ t.relocs = RelocsMoved(s, al, d)
         /\ s.pages[al.page].delta = 0 \/ d = 0 => AlignsPage(s, t, al.page, d)
<1>1. PICK p \in 1 .. Len(s.pages) : p = al.page
  BY DEF Begun
<1>2. s.offset \in Nat /\ Len(s.pages) \in Nat /\ s.pages \in Seq(Page)
      /\ s.relocs \in Seq(Relocation) /\ Len(s.relocs) \in Nat
  BY SectionFields
<1>3. s.pages[p] \in Page
  BY <1>2, ElementOfSeq
<1>4. s.pages[p].delta \in Nat /\ s.pages[p].words \in Nat
  BY <1>3 DEF Page
<1> DEFINE x == Larger(s.pages[p].delta, d)
           e == [s.pages[p] EXCEPT !.delta = x]
           g == [s.pages EXCEPT ![p] = e]
           o == s.offset + d
           a == Larger(s.addralign, by)
           l == [i \in DOMAIN s.relocs |->
                   IF i > al.reloc THEN [s.relocs[i] EXCEPT !.offset = @ + d] ELSE s.relocs[i]]
<1>5. x \in Nat /\ (s.pages[p].delta = 0 \/ d = 0 => x = s.pages[p].delta + d)
  BY <1>4 DEF Larger
<1>6. e \in Page /\ e.delta = x /\ e.words = s.pages[p].words
  <2> HIDE DEF x
  <2> QED
    BY <1>3, <1>5 DEF Page
<1>7. /\ g \in Seq(Page) /\ Len(g) = Len(s.pages)
      /\ \A i \in 1 .. Len(s.pages) : g[i] = IF i = p THEN e ELSE s.pages[i]
  <2> HIDE DEF e
  <2> QED
    BY <1>2, <1>6, ExceptSeq
<1>8. a \in PowersOf2 /\ s.addralign <= a /\ by <= a /\ a \in Nat \ {0}
  <2>1. a \in PowersOf2 /\ s.addralign <= a /\ by <= a
    BY LargerIs
  <2> HIDE DEF a
  <2>2. a \in Nat /\ a >= 1
    BY <2>1, PowersAreNumbers
  <2> QED
    BY <2>1, <2>2
<1>9. l \in Seq(Relocation)
  <2>1. ASSUME NEW i \in 1 .. Len(s.relocs)
        PROVE  l[i] \in Relocation
    <3>1. s.relocs[i] \in Relocation /\ i \in DOMAIN s.relocs
      BY <1>2, ElementOfSeq
    <3>2. s.relocs[i].offset + d \in Nat
      BY <3>1 DEF Relocation
    <3> DEFINE n == s.relocs[i].offset + d
    <3>3. [s.relocs[i] EXCEPT !.offset = @ + d] = [s.relocs[i] EXCEPT !.offset = n]
      OBVIOUS
    <3>4. [s.relocs[i] EXCEPT !.offset = n] \in Relocation
      <4>1. n \in Nat
        BY <3>2
      <4> HIDE DEF n
      <4> QED
        BY <3>1, <4>1 DEF Relocation
    <3> HIDE DEF n
    <3> QED
      BY <3>1, <3>3, <3>4
  <2>2. PICK k \in Nat : k = Len(s.relocs)
    BY <1>2
  <2>3. DOMAIN l = 1 .. k
    BY <1>2, <2>2
  <2>4. l = [i \in 1 .. k |-> l[i]]
    BY <2>3, Zenon
  <2>5. \A i \in 1 .. k : l[i] \in Relocation
    BY <2>1, <2>2
  <2> HIDE DEF l
  <2>6. l \in [1 .. k -> Relocation]
    BY <2>4, <2>5, Zenon
  <2> QED
    BY <2>6, SeqDef
<1>10. t = [s EXCEPT !.pages = g, !.offset = o, !.addralign = a, !.relocs = l]
  <2>1. t = [s EXCEPT !.pages[p].delta = Larger(@, d), !.offset = @ + d,
                      !.addralign = Larger(@, by), !.relocs = l]
    BY <1>1 DEF EndedTo, RelocsMoved
  <2> HIDE DEF l
  <2>2. [s.pages EXCEPT ![p].delta = Larger(@, d)] = g
    OBVIOUS
  <2>3. t = [s EXCEPT !.pages = [s.pages EXCEPT ![p].delta = Larger(@, d)], !.offset = @ + d,
                      !.addralign = Larger(@, by), !.relocs = l]
    BY <2>1 DEF Section
  <2> HIDE DEF g
  <2> QED
    BY <2>2, <2>3
<1>11. o \in Nat
  BY <1>2
<1> HIDE DEF x, e, g, a, o, l
<1>12. /\ t \in Section /\ t.addralign = a /\ t.name = s.name /\ t.type = s.type
       /\ t.offset = o /\ t.pages = g /\ t.space = s.space /\ t.relocs = l
  BY <1>7, <1>8, <1>9, <1>10, <1>11 DEF Section
<1>13. ASSUME s.pages[p].delta = 0 \/ d = 0
       PROVE  AlignsPage(s, t, p, d)
  <2>1. \A i \in 1 .. Len(s.pages) : t.pages[i].words = s.pages[i].words
    BY <1>6, <1>7, <1>12
  <2>2. ASSUME NEW i \in 1 .. Len(s.pages)
        PROVE  t.pages[i].delta = s.pages[i].delta + (IF i = p THEN d ELSE 0)
    <3>1. s.pages[i].delta \in Nat
      BY <1>2, PageFields
    <3>2. CASE i = p
      BY <1>5, <1>6, <1>7, <1>12, <1>13, <3>2
    <3>3. CASE i # p
      <4>1. t.pages[i].delta = s.pages[i].delta
        BY <1>7, <1>12, <3>3, Zenon
      <4>2. PICK n \in Nat : n = s.pages[i].delta
        BY <3>1
      <4>3. n = n + 0
        OBVIOUS
      <4> QED
        BY <3>3, <4>1, <4>2, <4>3, Zenon
    <3> QED
      BY <3>2, <3>3
  <2>3. Raised(s, t, Len(s.pages), p, d)
    BY <2>2 DEF Raised
  <2>4. Len(t.pages) = Len(s.pages)
    BY <1>7, <1>12
  <2>5. t.offset = s.offset + d
    BY <1>12 DEF o
  <2> QED
    BY <1>12, <2>1, <2>3, <2>4, <2>5 DEF AlignsPage
<1>14. t.offset = s.offset + d /\ t.relocs = l
  BY <1>12 DEF o
<1>15. s.pages[al.page].delta = 0 \/ d = 0 => AlignsPage(s, t, al.page, d)
  BY <1>1, <1>13
<1>16. l = RelocsMoved(s, al, d)
  BY DEF l, RelocsMoved
<1> QED
  BY <1>8, <1>12, <1>14, <1>15, <1>16, Zenon

----------------------------------------------------------------------------
(* The list of sections. *)

\* A section goes to the front: outfile_select_section, outfile_previous_section.
FrontOf(q, i) == <<q[i]>> \o SubSeq(q, 1, i - 1) \o SubSeq(q, i + 1, Len(q))

LEMMA FrontKeeps ==
  ASSUME NEW q \in Seq(Section), Unique(q), NEW i \in 1 .. Len(q), NEW r, r = FrontOf(q, i)
  PROVE  r \in Seq(Section) /\ r # <<>> /\ Unique(r) /\ Those(r) = Those(q)
<1>1. PICK n \in Nat : n = Len(q)
  OBVIOUS
<1>2. i \in 1 .. n /\ DOMAIN q = 1 .. n /\ \A j \in 1 .. n : q[j] \in Section
  BY <1>1, ElementOfSeq
<1> DEFINE a == SubSeq(q, 1, i - 1)
           b == SubSeq(q, i + 1, n)
           h == <<q[i]>>
<1>3. /\ a \in Seq(Section) /\ Len(a) = i - 1
      /\ \A j \in 1 .. i - 1 : a[j] = q[j]
  <2>1. \A j \in 1 .. i - 1 : q[j] \in Section
    BY <1>2
  <2>2. /\ a \in Seq(Section) /\ Len(a) = IF 1 <= i - 1 THEN i - 1 - 1 + 1 ELSE 0
        /\ \A j \in 1 .. i - 1 - 1 + 1 : a[j] = q[1 + j - 1]
    <3>1. i - 1 \in Int
      BY <1>2
    <3> QED
      BY <2>1, <3>1, SubSeqProperties
  <2> HIDE DEF a
  <2>3. Len(a) = i - 1
    BY <1>2, <2>2
  <2>4. ASSUME NEW j \in 1 .. i - 1
        PROVE  a[j] = q[j]
    <3>1. j \in 1 .. i - 1 - 1 + 1 /\ 1 + j - 1 = j
      BY <1>2
    <3> QED
      BY <2>2, <3>1
  <2> QED
    BY <2>2, <2>3, <2>4
<1>4. /\ b \in Seq(Section) /\ Len(b) = n - i
      /\ \A j \in 1 .. n - i : b[j] = q[i + j]
  <2>1. \A j \in i + 1 .. n : q[j] \in Section
    BY <1>2
  <2>2. /\ b \in Seq(Section) /\ Len(b) = IF i + 1 <= n THEN n - (i + 1) + 1 ELSE 0
        /\ \A j \in 1 .. n - (i + 1) + 1 : b[j] = q[i + 1 + j - 1]
    <3>1. i + 1 \in Int /\ n \in Int
      BY <1>2
    <3> QED
      BY <2>1, <3>1, SubSeqProperties
  <2> HIDE DEF b
  <2>3. Len(b) = n - i
    BY <1>2, <2>2
  <2>4. ASSUME NEW j \in 1 .. n - i
        PROVE  b[j] = q[i + j]
    <3>1. j \in 1 .. n - (i + 1) + 1 /\ i + 1 + j - 1 = i + j
      BY <1>2
    <3> QED
      BY <2>2, <3>1
  <2> QED
    BY <2>2, <2>3, <2>4
<1>5. h \in Seq(Section) /\ Len(h) = 1 /\ h[1] = q[i]
  BY <1>2
<1> HIDE DEF a, b, h
<1>6. /\ h \o a \in Seq(Section) /\ Len(h \o a) = i
      /\ \A j \in 1 .. i : (h \o a)[j] = IF j <= 1 THEN h[j] ELSE a[j - 1]
  <2>1. /\ h \o a \in Seq(Section) /\ Len(h \o a) = Len(h) + Len(a)
        /\ \A j \in 1 .. Len(h) + Len(a) :
             (h \o a)[j] = IF j <= Len(h) THEN h[j] ELSE a[j - Len(h)]
    BY <1>3, <1>5, ConcatProperties
  <2>2. 1 + (i - 1) = i
    BY <1>2
  <2>3. Len(h) + Len(a) = i
    BY <1>3, <1>5, <2>2
  <2> QED
    BY <1>5, <2>1, <2>3, Zenon
<1>7. r = (h \o a) \o b
  BY <1>1 DEF a, b, h, FrontOf
<1>8. /\ r \in Seq(Section) /\ Len(r) = n
      /\ \A j \in 1 .. n : r[j] = IF j <= i THEN (h \o a)[j] ELSE b[j - i]
  <2>1. PICK c \in Seq(Section) : c = h \o a
    BY <1>6
  <2>2. /\ c \o b \in Seq(Section) /\ Len(c \o b) = Len(c) + Len(b)
        /\ \A j \in 1 .. Len(c) + Len(b) :
             (c \o b)[j] = IF j <= Len(c) THEN c[j] ELSE b[j - Len(c)]
    BY <1>4, ConcatProperties
  <2>3. i + (n - i) = n
    BY <1>2
  <2>4. Len(c) = i /\ Len(c) + Len(b) = n
    BY <1>4, <1>6, <2>1, <2>3
  <2> QED
    BY <1>7, <2>1, <2>2, <2>4, Zenon
<1> DEFINE from(j) == IF j = 1 THEN i ELSE IF j <= i THEN j - 1 ELSE j
<1>9. \A j \in 1 .. n : from(j) \in 1 .. n /\ r[j] = q[from(j)]
  <2>1. ASSUME NEW j \in 1 .. n
        PROVE  from(j) \in 1 .. n /\ r[j] = q[from(j)]
    <3>1. CASE j = 1
      <4>1. j <= i /\ j \in 1 .. i /\ from(j) = i
        BY <1>2, <3>1
      <4>2. r[j] = h[1]
        <5>1. r[1] = (h \o a)[1]
          <6>1. 1 \in 1 .. n /\ 1 <= i
            BY <1>2
          <6> QED
            BY <1>8, <6>1, Zenon
        <5>2. (h \o a)[1] = h[1]
          <6>1. 1 \in 1 .. i /\ 1 <= 1
            BY <1>2
          <6> QED
            BY <1>6, <6>1, Zenon
        <5> QED
          BY <3>1, <5>1, <5>2
      <4> HIDE DEF from
      <4> QED
        BY <1>2, <1>5, <4>1, <4>2
    <3>2. CASE j # 1 /\ j <= i
      <4>1. from(j) = j - 1 /\ j \in 1 .. i /\ j - 1 \in 1 .. i - 1 /\ ~ (j <= 1)
            /\ j - 1 \in 1 .. n
        BY <1>2, <3>2
      <4> HIDE DEF from
      <4>2. r[j] = a[j - 1]
        BY <1>6, <1>8, <3>2, <4>1
      <4> QED
        BY <1>3, <4>1, <4>2
    <3>3. CASE j # 1 /\ ~ (j <= i)
      <4>1. from(j) = j /\ j - i \in 1 .. n - i /\ i + (j - i) = j
        BY <1>2, <3>3
      <4> HIDE DEF from
      <4>2. r[j] = b[j - i]
        BY <1>8, <3>3
      <4>3. b[j - i] = q[i + (j - i)]
        BY <1>4, <4>1
      <4> QED
        BY <4>1, <4>2, <4>3
    <3> QED
      BY <3>1, <3>2, <3>3
  <2> QED
    BY <2>1
<1>10. \A j, k \in 1 .. n : from(j) = from(k) => j = k
  BY <1>2
<1>11. \A k \in 1 .. n : \E j \in 1 .. n : from(j) = k
  <2>1. ASSUME NEW k \in 1 .. n
        PROVE  \E j \in 1 .. n : from(j) = k
    <3>1. CASE k = i
      <4>1. 1 \in 1 .. n /\ from(1) = k
        BY <1>2, <3>1
      <4> HIDE DEF from
      <4> QED
        BY <4>1
    <3>2. CASE k < i
      <4>1. k + 1 \in 1 .. n /\ from(k + 1) = k
        BY <1>2, <3>2
      <4> HIDE DEF from
      <4> QED
        BY <4>1
    <3>3. CASE k > i
      <4>1. from(k) = k
        BY <1>2, <3>3
      <4> HIDE DEF from
      <4> QED
        BY <4>1
    <3> QED
      BY <1>2, <3>1, <3>2, <3>3
  <2> QED
    BY <2>1
<1> HIDE DEF from
<1>12. DOMAIN r = 1 .. n /\ r # <<>>
  <2>1. DOMAIN r = 1 .. n
    BY <1>8
  <2>2. n >= 1
    BY <1>2
  <2>3. r # <<>>
    BY <1>8, <2>2
  <2> QED
    BY <2>1, <2>3
<1>13. \A j, k \in 1 .. n : q[j].name = q[k].name => j = k
  BY <1>2 DEF Unique
<1>14. Unique(r)
  <2>1. ASSUME NEW j \in 1 .. n, NEW k \in 1 .. n, r[j].name = r[k].name
        PROVE  j = k
    <3>1. q[from(j)].name = q[from(k)].name
      BY <1>9, <2>1
    <3>2. from(j) = from(k)
      BY <1>9, <1>13, <3>1
    <3> QED
      BY <1>10, <3>2
  <2> QED
    BY <1>12, <2>1 DEF Unique
<1>15. Those(r) = Those(q)
  <2>1. \A s : s \in Those(r) => s \in Those(q)
    BY <1>2, <1>9, <1>12 DEF Those
  <2>2. ASSUME NEW s \in Those(q)
        PROVE  s \in Those(r)
    <3>1. PICK k \in 1 .. n : s = q[k]
      BY <1>2 DEF Those
    <3>2. PICK j \in 1 .. n : from(j) = k
      BY <1>11
    <3>3. s = r[j]
      BY <1>9, <3>1, <3>2
    <3> QED
      BY <1>12, <3>3 DEF Those
  <2> QED
    BY <2>1, <2>2
<1> QED
  BY <1>8, <1>12, <1>14, <1>15

\* A new section at the front.
LEMMA NewIsFirst ==
  ASSUME NEW q \in Seq(Section), Unique(q), NEW s \in Section,
         \A i \in DOMAIN q : q[i].name # s.name, NEW r, r = <<s>> \o q
  PROVE  /\ r \in Seq(Section) /\ r # <<>> /\ Unique(r)
         /\ Those(r) = Those(q) \cup {s}
         /\ \A u \in Those(q) : u.name # s.name
<1>1. PICK n \in Nat : n = Len(q)
  OBVIOUS
<1>2. DOMAIN q = 1 .. n
  BY <1>1
<1>3. <<s>> \in Seq(Section) /\ Len(<<s>>) = 1 /\ <<s>>[1] = s
  OBVIOUS
<1>4. PICK h \in Seq(Section) : h = <<s>>
  BY <1>3
<1>5. /\ r \in Seq(Section) /\ Len(r) = 1 + n
      /\ \A j \in 1 .. 1 + n : r[j] = IF j <= 1 THEN h[j] ELSE q[j - 1]
  <2>1. Len(h) = 1 /\ r = h \o q
    BY <1>3, <1>4
  <2>2. /\ h \o q \in Seq(Section) /\ Len(h \o q) = 1 + n
        /\ \A j \in 1 .. 1 + n : (h \o q)[j] = IF j <= 1 THEN h[j] ELSE q[j - 1]
    BY <1>1, <2>1, ConcatProperties
  <2> QED
    BY <2>1, <2>2
<1>6. h[1] = s
  BY <1>3, <1>4
<1>7. /\ DOMAIN r = 1 .. 1 + n /\ r[1] = s
      /\ \A j \in 1 .. n : r[j + 1] = q[j]
  <2>1. DOMAIN r = 1 .. 1 + n
    BY <1>5
  <2>2. r[1] = s
    <3>1. 1 \in 1 .. 1 + n
      OBVIOUS
    <3> QED
      BY <1>5, <1>6, <3>1
  <2>3. ASSUME NEW j \in 1 .. n
        PROVE  r[j + 1] = q[j]
    <3>1. j + 1 \in 1 .. 1 + n /\ ~ (j + 1 <= 1) /\ j + 1 - 1 = j
      OBVIOUS
    <3> QED
      BY <1>5, <3>1
  <2> QED
    BY <2>1, <2>2, <2>3
<1>8. \A j \in 1 .. 1 + n : j = 1 \/ \E k \in 1 .. n : j = k + 1
  <2>1. ASSUME NEW j \in 1 .. 1 + n, j # 1
        PROVE  \E k \in 1 .. n : j = k + 1
    <3>1. j - 1 \in 1 .. n /\ j = (j - 1) + 1
      BY <2>1
    <3> QED
      BY <3>1
  <2> QED
    BY <2>1
<1>9. \A j, k \in 1 .. n : q[j].name = q[k].name => j = k
  BY <1>2 DEF Unique
<1>10. \A j \in 1 .. n : q[j].name # s.name
  BY <1>2
<1>11. ASSUME NEW j \in 1 .. 1 + n, NEW k \in 1 .. 1 + n, r[j].name = r[k].name
       PROVE  j = k
  <2>1. CASE j = 1 /\ k = 1
    BY <2>1
  <2>2. CASE j = 1 /\ k # 1
    <3>1. PICK l \in 1 .. n : k = l + 1
      BY <1>8, <2>2
    <3> QED
      BY <1>7, <1>10, <1>11, <2>2, <3>1
  <2>3. CASE j # 1 /\ k = 1
    <3>1. PICK l \in 1 .. n : j = l + 1
      BY <1>8, <2>3
    <3> QED
      BY <1>7, <1>10, <1>11, <2>3, <3>1
  <2>4. CASE j # 1 /\ k # 1
    <3>1. PICK l \in 1 .. n : j = l + 1
      BY <1>8, <2>4
    <3>2. PICK m \in 1 .. n : k = m + 1
      BY <1>8, <2>4
    <3>3. q[l].name = q[m].name
      BY <1>7, <1>11, <3>1, <3>2
    <3> QED
      BY <1>9, <3>1, <3>2, <3>3
  <2> QED
    BY <2>1, <2>2, <2>3, <2>4
<1>12. Unique(r)
  BY <1>7, <1>11 DEF Unique
<1>13. Those(r) = Those(q) \cup {s}
  <2>1. ASSUME NEW u \in Those(r)
        PROVE  u \in Those(q) \cup {s}
    <3>1. PICK j \in 1 .. 1 + n : u = r[j]
      BY <1>7 DEF Those
    <3>2. CASE j = 1
      BY <1>7, <3>1, <3>2
    <3>3. CASE j # 1
      <4>1. PICK l \in 1 .. n : j = l + 1
        BY <1>8, <3>3
      <4>2. u = q[l]
        BY <1>7, <3>1, <4>1
      <4> QED
        BY <1>2, <4>2 DEF Those
    <3> QED
      BY <3>2, <3>3
  <2>2. s \in Those(r)
    <3>1. 1 \in 1 .. 1 + n
      OBVIOUS
    <3> QED
      BY <1>7, <3>1 DEF Those
  <2>3. ASSUME NEW u \in Those(q)
        PROVE  u \in Those(r)
    <3>1. PICK j \in 1 .. n : u = q[j]
      BY <1>2 DEF Those
    <3>2. u = r[j + 1] /\ j + 1 \in 1 .. 1 + n
      BY <1>7, <3>1
    <3> QED
      BY <1>7, <3>2 DEF Those
  <2> QED
    BY <2>1, <2>2, <2>3
<1>14. \A u \in Those(q) : u.name # s.name
  BY <1>2, <1>10 DEF Those
<1>15. r # <<>>
  BY <1>5
<1> QED
  BY <1>5, <1>12, <1>13, <1>14, <1>15

\* It has no symbols, no words and no relocations.
LEMMA NewKeeps ==
  ASSUME NEW S, NEW s \in Section, s.offset = 0, s.pages = <<>>, s.relocs = <<>>,
         \A u \in S : u.name # s.name, NEW y, NEW A, AreIn(S, y, A), NEW p, NEW k
  PROVE  /\ AreIn(S \cup {s}, y, A)
         /\ Wide(S, A) => Wide(S \cup {s}, A)
         /\ Counted(S) => Counted(S \cup {s})
         /\ Found(S, y) => Found(S \cup {s}, y)
         /\ Met(S, A) => Met(S \cup {s}, A)
         /\ Marked(S) => Marked(S \cup {s})
         /\ Spread(S, y, p, k) => Spread(S \cup {s}, y, p, k)
<1>1. s.name # NoSection
  BY SpaceAssumption DEF Section
<1>2. \A n \in DOMAIN y : y[n].section # s.name
  <2>1. ASSUME NEW n \in DOMAIN y, y[n].section = s.name
        PROVE  FALSE
    <3>1. \E u \in S : u.name = y[n].section
      BY <1>1, <2>1, Zenon DEF AreIn
    <3> QED
      BY <2>1, <3>1
  <2> QED
    BY <2>1
<1>3. \A a \in A : a.section # s.name
  BY Zenon DEF AreIn
<1>4. AreIn(S \cup {s}, y, A)
  BY Zenon DEF AreIn
<1>5. Counts(s)
  <2>1. Len(s.pages) = 0
    OBVIOUS
  <2>2. Emitted(s) = 0 /\ DeltasUpTo(s, Len(s.pages)) = 0
    BY <2>1, SumsStep DEF Emitted
  <2> QED
    BY <2>2 DEF Counts
<1>6. Wide(S, A) => Wide(S \cup {s}, A)
  BY <1>3, Zenon DEF Wide
<1>7. Counted(S) => Counted(S \cup {s})
  BY <1>5, Zenon DEF Counted
<1>8. Found(S, y) => Found(S \cup {s}, y)
  BY <1>2, Zenon DEF Found
<1>9. Met(S, A) => Met(S \cup {s}, A)
  BY <1>3, Zenon DEF Met
<1>10. Marked(S) => Marked(S \cup {s})
  <2>1. \A i : i \notin DOMAIN s.relocs
    OBVIOUS
  <2> QED
    BY <2>1, Zenon DEF Marked
<1>11. Spread(S, y, p, k) => Spread(S \cup {s}, y, p, k)
  <2>1. ASSUME Spread(S, y, p, k)
        PROVE  Spread(S \cup {s}, y, p, k)
    <3>1. ASSUME NEW u \in S \cup {s}, NEW n \in DOMAIN y, y[n].section = u.name
          PROVE  u \in S
      BY <1>2, <3>1
    <3>2. ASSUME NEW u \in S \cup {s}, NEW n \in DOMAIN y, y[n].section = u.name
          PROVE  IF n = p THEN y[n].value + k = u.offset ELSE y[n].value + y[n].size <= u.offset
      BY <2>1, <3>1, <3>2, Zenon DEF Spread
    <3>3. \A m, n \in DOMAIN y :
            m # n /\ m # p /\ y[m].section = y[n].section /\ y[m].section # NoSection =>
            /\ n # p => Apart(y[m], y[n])
            /\ n = p => y[m].value + y[m].size <= y[n].value
      BY <2>1, Zenon DEF Spread
    <3> QED
      BY <3>2, <3>3, Zenon DEF Spread
  <2> QED
    BY <2>1
<1> QED
  BY <1>4, <1>6, <1>7, <1>8, <1>9, <1>10, <1>11

----------------------------------------------------------------------------
(* What the steps do to the file. *)

\* The first section of q becomes t with k more words, the symbols y those of z.
Lengthens(q, r, t, y, z, k) ==
  /\ Replaces(q, r, t) /\ Extends(q[1], t, k)
  /\ KeepsRelocs(q[1], t) \/ (AddsReloc(q[1], t) /\ k > 0)
  /\ Redeclares(y, z) /\ \A n \in DOMAIN y : z[n].word = y[n].word

LEMMA LengthenedKeeps ==
  ASSUME NEW q, Unique(q), NEW r, NEW t, NEW y, y \in [DOMAIN y -> SymbolRec], NEW z,
         z \in [DOMAIN z -> SymbolRec], NEW k \in Nat, Lengthens(q, r, t, y, z, k),
         NEW A, A \subseteq AlignedWord, AreIn(Those(q), y, A), Wide(Those(q), A)
  PROVE  /\ Unique(r) /\ AreIn(Those(r), z, A) /\ Wide(Those(r), A)
         /\ Counted(Those(q)) /\ Found(Those(q), y) /\ Met(Those(q), A)
              => Counted(Those(r)) /\ Found(Those(r), z) /\ Met(Those(r), A)
         /\ Counted(Those(q)) /\ Marked(Those(q)) => Marked(Those(r))
<1>1. /\ Replaces(q, r, t) /\ Extends(q[1], t, k)
      /\ KeepsRelocs(q[1], t) \/ (AddsReloc(q[1], t) /\ k > 0)
      /\ Redeclares(y, z) /\ \A n \in DOMAIN y : z[n].word = y[n].word
  BY DEF Lengthens
<1>2. Unique(r) /\ r \in Seq(Section) /\ Those(r) \subseteq Section
  <2>1. Unique(r) /\ r \in Seq(Section)
    BY <1>1, Replaced
  <2> QED
    BY <2>1, ElementOfSeq DEF Those
<1>3. AreIn(Those(r), z, A)
  <2>1. AreIn(Those(r), y, A)
    BY <1>1, ReplacedAreIn
  <2> QED
    BY <1>1, <1>2, <2>1, RedeclaredKeeps
<1>4. Wide(Those(r), A)
  <2>1. q[1].addralign <= t.addralign
    <3>1. t.addralign = q[1].addralign /\ t \in Section
      BY <1>1 DEF Extends
    <3>2. t.addralign \in Nat
      BY <3>1 DEF Section
    <3> QED
      BY <3>1, <3>2
  <2> QED
    BY <1>1, <2>1, ReplacedIsWide
<1>5. ASSUME Counted(Those(q)), Found(Those(q), y), Met(Those(q), A)
      PROVE  Counted(Those(r)) /\ Found(Those(r), z) /\ Met(Those(r), A)
  <2>1. Counted(Those(r)) /\ Found(Those(r), y) /\ Met(Those(r), A)
    BY <1>1, <1>5, ExtendedIsFound
  <2>2. Found(Those(r), z)
    BY <1>1, <1>2, <2>1, RedeclaredKeeps
  <2> QED
    BY <2>1, <2>2
<1>6. ASSUME Counted(Those(q)), Marked(Those(q))
      PROVE  Marked(Those(r))
  BY <1>1, <1>6, ExtendedIsMarked
<1> QED
  BY <1>2, <1>3, <1>4, <1>5, <1>6

LEMMA LengthenedIsSpread ==
  ASSUME NEW q, Unique(q), NEW r, NEW t, NEW y, y \in [DOMAIN y -> SymbolRec], NEW z,
         NEW k \in Nat, Lengthens(q, r, t, y, z, k), NEW p, NEW j \in Nat,
         p \in DOMAIN y => y[p].section = q[1].name, Spread(Those(q), y, p, j)
  PROVE  Spread(Those(r), z, p, j + k)
<1>1. Replaces(q, r, t) /\ t.offset = q[1].offset + k /\ Redeclares(y, z)
  BY Zenon DEF Lengthens, Extends
<1>2. Those(r) \subseteq Section
  <2>1. r \in Seq(Section)
    BY <1>1, Replaced
  <2> QED
    BY <2>1, ElementOfSeq DEF Those
<1>3. Spread(Those(r), y, p, j + k)
  BY <1>1, ExtendedIsSpread
<1> QED
  BY <1>1, <1>2, <1>3, RedeclaredKeeps

LEMMA LengthenedIsBegun ==
  ASSUME NEW q, Unique(q), NEW r, NEW t, NEW y, NEW z, NEW k \in Nat,
         Lengthens(q, r, t, y, z, k), NEW A,
         NEW al \in [page : Nat, offset : Nat, reloc : Nat], Begun(q[1], al), NEW p,
         Aside(q[1], al, y, p)
  PROVE  /\ Begun(r[1], al) /\ Aside(r[1], al, z, p) /\ (HasData(r[1]) => HasData(q[1]))
         /\ HasData(q[1]) /\ Counts(q[1]) /\ BegunAt(q[1], al, A) => BegunAt(r[1], al, A)
         /\ RelocsBefore(q[1], al) => RelocsBefore(r[1], al)
<1>1. /\ Replaces(q, r, t) /\ Extends(q[1], t, k) /\ Redeclares(y, z)
      /\ KeepsRelocs(q[1], t) \/ AddsReloc(q[1], t)
  BY DEF Lengthens
<1>2. q[1] \in Section /\ r[1] = t /\ t \in Section /\ t.name = q[1].name /\ t.type = q[1].type
  BY <1>1, Replaced DEF Replaces, Extends
<1>3. /\ Begun(t, al)
      /\ HasData(q[1]) /\ Counts(q[1]) /\ BegunAt(q[1], al, A) => BegunAt(t, al, A)
      /\ RelocsBefore(q[1], al) => RelocsBefore(t, al)
  BY <1>1, <1>2, ExtendsBegun
<1>4. Aside(t, al, z, p)
  <2>1. Aside(t, al, y, p)
    BY <1>2, Zenon DEF Aside
  <2>2. t \in {t} /\ {t} \subseteq Section
    BY <1>2
  <2> QED
    BY <1>1, <2>1, <2>2, RedeclaredKeeps
<1>5. HasData(t) => HasData(q[1])
  BY <1>2 DEF HasData
<1> QED
  BY <1>2, <1>3, <1>4, <1>5

\* Without sections there is nothing that could share a word.
LEMMA EmptyIsSpread ==
  ASSUME NEW y, NEW A, AreIn({}, y, A), NEW p, NEW k
  PROVE  Spread({}, y, p, k) /\ \A n \in DOMAIN y : y[n].section = NoSection
<1>1. \A n \in DOMAIN y : y[n].section = NoSection
  BY Zenon DEF AreIn
<1> QED
  BY <1>1, Zenon DEF Spread

LEMMA NothingIn ==
  Those(<<>>) = {}
BY DEF Those

----------------------------------------------------------------------------
(* What the operators of the steps do to the symbols and the sections. *)

LEMMA ReferencedIs ==
  ASSUME TypeOK, NEW n \in Name, NEW scope, scope \subseteq {"EXTERN", "GLOBAL"}
  PROVE  /\ Referenced(n, scope) \in [DOMAIN Referenced(n, scope) -> SymbolRec]
         /\ DOMAIN Referenced(n, scope) \subseteq Name
         /\ Redeclares(symbols, Referenced(n, scope))
         /\ \A m \in DOMAIN symbols : Referenced(n, scope)[m].word = symbols[m].word
<1> DEFINE f == Symbol(n).flags \cup {"REFERENCED"} \cup scope
           g == Symbol(n).global \/ scope # {}
           s == [Symbol(n) EXCEPT !.flags = f, !.global = g]
           z == WithSymbol(n, s)
<1>1. Referenced(n, scope) = z
  BY Zenon DEF Referenced
<1>2. DOMAIN symbols \subseteq Name /\ symbols \in [DOMAIN symbols -> SymbolRec]
  BY DEF TypeOK
<1>3. NewSymbol \in SymbolRec
  BY DEF NewSymbol, SymbolRec
<1>4. Symbol(n) \in SymbolRec
  BY <1>2, <1>3 DEF Symbol, Known
<1>5. f \subseteq {"DEFINED", "REFERENCED", "EXTERN", "GLOBAL"} /\ g \in BOOLEAN
  <2>1. Symbol(n).flags \subseteq {"DEFINED", "REFERENCED", "EXTERN", "GLOBAL"}
    BY <1>4 DEF SymbolRec
  <2> QED
    BY <2>1
<1> HIDE DEF f, g
<1>6. /\ s \in SymbolRec /\ s.section = Symbol(n).section /\ s.value = Symbol(n).value
      /\ s.size = Symbol(n).size /\ s.word = Symbol(n).word
  BY <1>4, <1>5 DEF SymbolRec
<1> HIDE DEF s
<1>7. /\ DOMAIN z = DOMAIN symbols \cup {n}
      /\ \A m \in DOMAIN z : z[m] = IF m = n THEN s ELSE symbols[m]
  BY Zenon DEF WithSymbol
<1>8. z \in [DOMAIN z -> SymbolRec]
  BY <1>2, <1>6, Zenon DEF WithSymbol
<1> HIDE DEF z
<1>9. n \in DOMAIN symbols => Symbol(n) = symbols[n]
  BY DEF Symbol, Known
<1>10. n \notin DOMAIN symbols => Symbol(n).section = NoSection /\ Symbol(n).size = 0
  BY DEF Symbol, Known, NewSymbol
<1>11. ASSUME NEW m \in DOMAIN z
       PROVE  /\ IF m \in DOMAIN symbols THEN SamePlace(z[m], symbols[m])
                 ELSE z[m].section = NoSection /\ z[m].size = 0
              /\ m \in DOMAIN symbols => z[m].word = symbols[m].word
  <2>1. CASE m = n
    <3>1. z[m] = s
      BY <1>7, <2>1
    <3>2. CASE m \in DOMAIN symbols
      <4>1. Symbol(n) = symbols[m]
        BY <1>9, <2>1, <3>2
      <4>2. SamePlace(z[m], symbols[m]) /\ z[m].word = symbols[m].word
        BY <1>6, <3>1, <4>1, Zenon DEF SamePlace
      <4> QED
        BY <3>2, <4>2
    <3>3. CASE m \notin DOMAIN symbols
      BY <1>6, <1>10, <2>1, <3>1, <3>3
    <3> QED
      BY <3>2, <3>3
  <2>2. CASE m # n
    <3>1. z[m] = symbols[m] /\ m \in DOMAIN symbols
      BY <1>7, <2>2
    <3> QED
      BY <3>1, Zenon DEF SamePlace
  <2> QED
    BY <2>1, <2>2
<1>12. Redeclares(symbols, z)
  <2>1. DOMAIN symbols \subseteq DOMAIN z
    BY <1>7
  <2> QED
    BY <1>11, <2>1 DEF Redeclares
<1>13. \A m \in DOMAIN symbols : z[m].word = symbols[m].word
  BY <1>7, <1>11
<1> QED
  BY <1>1, <1>2, <1>7, <1>8, <1>12, <1>13

LEMMA DefinedIs ==
  ASSUME TypeOK, NEW n \in Name, NEW size \in Nat
  PROVE  /\ Defined(n, size) \in [DOMAIN Defined(n, size) -> SymbolRec]
         /\ DOMAIN Defined(n, size) \subseteq Name /\ n \in DOMAIN Defined(n, size)
         /\ NoCode => /\ Redeclares(symbols, Defined(n, size))
                      /\ \A m \in DOMAIN symbols : Defined(n, size)[m].word = symbols[m].word
         /\ ~ NoCode => Defines(here, symbols, Defined(n, size), n, size)
<1> DEFINE f == Symbol(n).flags \cup {"DEFINED"}
           s == [Symbol(n) EXCEPT !.flags = f]
           h == [s EXCEPT !.section = here.name, !.value = here.offset,
                          !.size = size, !.word = Emitted(here) + 1]
           e == IF NoCode THEN s ELSE h
           z == WithSymbol(n, e)
<1>1. Defined(n, size) = z
  BY Zenon DEF Defined
<1>2. DOMAIN symbols \subseteq Name /\ symbols \in [DOMAIN symbols -> SymbolRec]
      /\ sections \in Seq(Section)
  BY DEF TypeOK
<1>3. NewSymbol \in SymbolRec
  BY DEF NewSymbol, SymbolRec
<1>4. Symbol(n) \in SymbolRec
  BY <1>2, <1>3 DEF Symbol, Known
<1>5. f \subseteq {"DEFINED", "REFERENCED", "EXTERN", "GLOBAL"}
  <2>1. Symbol(n).flags \subseteq {"DEFINED", "REFERENCED", "EXTERN", "GLOBAL"}
    BY <1>4 DEF SymbolRec
  <2> QED
    BY <2>1
<1> HIDE DEF f
<1>6. /\ s \in SymbolRec /\ s.section = Symbol(n).section /\ s.value = Symbol(n).value
      /\ s.size = Symbol(n).size /\ s.word = Symbol(n).word
  BY <1>4, <1>5 DEF SymbolRec
<1> HIDE DEF s
<1>7. ASSUME ~ NoCode
      PROVE  /\ h \in SymbolRec /\ h.section = here.name /\ h.value = here.offset
             /\ h.size = size /\ h.word = Emitted(here) + 1
  <2>1. here \in Section
    <3>1. 1 \in 1 .. Len(sections)
      BY <1>2, <1>7 DEF NoCode
    <3> QED
      BY <1>2, <3>1, ElementOfSeq DEF here
  <2>2. here.name \in SectionName /\ here.offset \in Nat /\ Emitted(here) \in Nat
    BY <2>1, SectionFields
  <2>3. PICK a : a = here.name
    OBVIOUS
  <2>4. PICK b \in Nat : b = here.offset
    BY <2>2
  <2>5. PICK c \in Nat : c = Emitted(here) + 1
    BY <2>2
  <2>6. h = [s EXCEPT !.section = a, !.value = b, !.size = size, !.word = c]
    BY <2>3, <2>4, <2>5
  <2> HIDE DEF h
  <2>7. a \in SectionName
    BY <2>2, <2>3
  <2> QED
    BY <1>6, <2>3, <2>4, <2>5, <2>6, <2>7 DEF SymbolRec
<1>8. e \in SymbolRec
  BY <1>6, <1>7
<1> HIDE DEF h
<1>9. (NoCode => e = s) /\ (~ NoCode => e = h)
  OBVIOUS
<1> HIDE DEF e
<1>10. /\ DOMAIN z = DOMAIN symbols \cup {n}
       /\ \A m \in DOMAIN z : z[m] = IF m = n THEN e ELSE symbols[m]
  BY Zenon DEF WithSymbol
<1>11. z \in [DOMAIN z -> SymbolRec]
  BY <1>2, <1>8, Zenon DEF WithSymbol
<1> HIDE DEF z
<1>12. n \in DOMAIN symbols => Symbol(n) = symbols[n]
  BY DEF Symbol, Known
<1>13. n \notin DOMAIN symbols => Symbol(n).section = NoSection /\ Symbol(n).size = 0
  BY DEF Symbol, Known, NewSymbol
<1>14. ASSUME NoCode
       PROVE  Redeclares(symbols, z) /\ \A m \in DOMAIN symbols : z[m].word = symbols[m].word
  <2>1. ASSUME NEW m \in DOMAIN z
        PROVE  /\ IF m \in DOMAIN symbols THEN SamePlace(z[m], symbols[m])
                  ELSE z[m].section = NoSection /\ z[m].size = 0
               /\ m \in DOMAIN symbols => z[m].word = symbols[m].word
    <3>1. CASE m = n
      <4>1. z[m] = s
        BY <1>9, <1>10, <1>14, <3>1
      <4>2. CASE m \in DOMAIN symbols
        <5>1. Symbol(n) = symbols[m]
          BY <1>12, <3>1, <4>2
        <5>2. SamePlace(z[m], symbols[m]) /\ z[m].word = symbols[m].word
          BY <1>6, <4>1, <5>1, Zenon DEF SamePlace
        <5> QED
          BY <4>2, <5>2
      <4>3. CASE m \notin DOMAIN symbols
        BY <1>6, <1>13, <3>1, <4>1, <4>3
      <4> QED
        BY <4>2, <4>3
    <3>2. CASE m # n
      <4>1. z[m] = symbols[m] /\ m \in DOMAIN symbols
        BY <1>10, <3>2
      <4> QED
        BY <4>1, Zenon DEF SamePlace
    <3> QED
      BY <3>1, <3>2
  <2>2. DOMAIN symbols \subseteq DOMAIN z
    BY <1>10
  <2> QED
    BY <2>1, <2>2 DEF Redeclares
<1>15. ASSUME ~ NoCode
       PROVE  Defines(here, symbols, z, n, size)
  <2>1. z[n] = h /\ n \in DOMAIN z
    BY <1>9, <1>10, <1>15
  <2>2. \A m \in DOMAIN z : m # n => m \in DOMAIN symbols /\ z[m] = symbols[m]
    BY <1>10
  <2> QED
    BY <1>7, <1>10, <1>15, <2>1, <2>2, Zenon DEF Defines
<1> QED
  BY <1>1, <1>2, <1>10, <1>11, <1>14, <1>15

LEMMA HereIs ==
  ASSUME TypeOK, ~ NoCode
  PROVE  /\ here \in Section /\ here \in Those(sections) /\ sections[1] = here
         /\ sections # <<>> /\ Those(sections) \subseteq Section /\ here.addralign \in PowersOf2
         /\ 1 \in 1 .. Len(sections)
<1>1. sections \in Seq(Section)
  BY DEF TypeOK
<1>2. 1 \in 1 .. Len(sections) /\ DOMAIN sections = 1 .. Len(sections)
  BY <1>1 DEF NoCode
<1>3. here \in Section /\ here \in Those(sections) /\ sections[1] = here
  BY <1>1, <1>2, ElementOfSeq DEF here, Those
<1>4. Those(sections) \subseteq Section
  BY <1>1, ElementOfSeq DEF Those
<1> QED
  BY <1>2, <1>3, <1>4 DEF TypeOK, NoCode

LEMMA EmitLengthens ==
  ASSUME TypeOK, NEW n \in Name \cup {NoSymbol}, Emit(n)
  PROVE  /\ ~ NoCode
         /\ \E t : Lengthens(sections, sections', t, symbols, symbols', 1)
         /\ symbols' \in [DOMAIN symbols' -> SymbolRec] /\ DOMAIN symbols' \subseteq Name
<1>1. ~ NoCode /\ HasData(here)
  BY DEF Emit, CanEmit, HasData
<1>2. /\ here \in Section /\ here \in Those(sections) /\ sections[1] = here /\ sections # <<>>
  BY <1>1, HereIs
<1> DEFINE s == IF n = NoSymbol THEN here ELSE AddRelocation(here, n)
<1>3. PICK t : t = EmitWord(s)
  OBVIOUS
<1>4. sections' = [sections EXCEPT ![1] = t]
  BY <1>3, Zenon DEF Emit
<1>5. Extends(here, t, 1) /\ (KeepsRelocs(here, t) \/ AddsReloc(here, t))
  <2>1. CASE n = NoSymbol
    <3>1. Grows(here, t, 1)
      BY <1>2, <1>3, <2>1, WordGrows
    <3> QED
      BY <3>1, GrowsExtends
  <2>2. CASE n # NoSymbol
    <3>1. n \in Name /\ t = EmitWord(AddRelocation(here, n))
      BY <1>3, <2>2
    <3> QED
      BY <1>1, <1>2, <3>1, MarkedWordExtends
  <2> QED
    BY <2>1, <2>2
<1> HIDE DEF s
<1>6. Replaces(sections, sections', t)
  <2>1. t \in Section /\ t.name = here.name
    BY <1>5 DEF Extends
  <2> QED
    BY <1>2, <1>4, <2>1 DEF Replaces, TypeOK
<1>7. /\ symbols' \in [DOMAIN symbols' -> SymbolRec] /\ DOMAIN symbols' \subseteq Name
      /\ Redeclares(symbols, symbols')
      /\ \A m \in DOMAIN symbols : symbols'[m].word = symbols[m].word
  <2>1. CASE n = NoSymbol
    <3>1. symbols' = symbols
      BY <2>1, Zenon DEF Emit
    <3>2. Redeclares(symbols, symbols)
      BY Zenon DEF Redeclares, SamePlace
    <3>3. DOMAIN symbols \subseteq Name /\ symbols \in [DOMAIN symbols -> SymbolRec]
      BY DEF TypeOK
    <3> QED
      BY <3>1, <3>2, <3>3, Zenon
  <2>2. CASE n # NoSymbol
    <3>1. symbols' = Referenced(n, {})
      BY <2>2, Zenon DEF Emit
    <3>2. n \in Name
      BY <2>2
    <3>3. /\ Referenced(n, {}) \in [DOMAIN Referenced(n, {}) -> SymbolRec]
          /\ DOMAIN Referenced(n, {}) \subseteq Name
          /\ Redeclares(symbols, Referenced(n, {}))
          /\ \A m \in DOMAIN symbols : Referenced(n, {})[m].word = symbols[m].word
      BY <3>2, ReferencedIs
    <3> QED
      BY <3>1, <3>3, Zenon
  <2> QED
    BY <2>1, <2>2
<1>8. Lengthens(sections, sections', t, symbols, symbols', 1)
  BY <1>2, <1>5, <1>6, <1>7 DEF Lengthens
<1> QED
  BY <1>1, <1>7, <1>8

----------------------------------------------------------------------------
(* The steps that leave the file alone. *)

LEMMA SameFile ==
  ASSUME IInv, UNCHANGED <<sections, symbols, aligned, skewed>>
  PROVE  SectionsOK' /\ WordsOK' /\ RelocsOK'
BY DEF IInv, SectionsOK, WordsOK, RelocsOK

LEMMA FailsKeeps ==
  ASSUME IInv, NEW at, Fails(at)
  PROVE  IInv'
<1>1. pc' = "failed" /\ source' = source
      /\ UNCHANGED <<sections, symbols, spaceVars, varVars, aligned, skewed>>
  BY DEF Fails, Step
<1>2. TypeOK'
  BY <1>1 DEF IInv, TypeOK, Statuses, varVars
<1>3. SectionsOK' /\ WordsOK' /\ RelocsOK'
  BY <1>1, SameFile
<1>4. VariablesOK' /\ BufferOK'
  BY <1>1 DEF VariablesOK, BufferOK, InBuffer
<1> QED
  BY <1>2, <1>3, <1>4 DEF IInv

\* The statements begin and end without a pending variable.
LEMMA NonePending ==
  ASSUME IInv, pc \in {"statement", "qualified", "variables", "done", "aborted"}
  PROVE  /\ Pending = NoSymbol /\ SoFar = 0
         /\ \A k : Spread(Those(sections), symbols, NoSymbol, k)
<1>1. Pending = NoSymbol /\ SoFar = 0 /\ pc # "failed"
  BY DEF Pending, SoFar
<1>2. Spread(Those(sections), symbols, NoSymbol, 0)
  BY <1>1 DEF IInv, VariablesOK
<1>3. DOMAIN symbols \subseteq Name
  BY DEF IInv, TypeOK
<1> QED
  BY <1>1, <1>2, <1>3, NonePends

LEMMA QuietKeeps ==
  ASSUME IInv, UNCHANGED <<sections, symbols, aligned, skewed>>,
         pc' \in {"statement", "variables", "done", "aborted"},
         \A k : Spread(Those(sections), symbols, NoSymbol, k)
  PROVE  VariablesOK'
<1>1. Pending' = NoSymbol /\ SoFar' = 0
  BY DEF Pending, SoFar
<1>2. Spread(Those(sections), symbols, NoSymbol, 0)
  OBVIOUS
<1>3. Spread(Those(sections'), symbols', Pending', SoFar')
  BY <1>1, <1>2
<1>4. Spread(Those(sections), symbols, Pending, SoFar)'
  BY <1>3
<1> QED
  BY <1>1, <1>4 DEF VariablesOK

LEMMA BeginValuesKeeps ==
  ASSUME IInv, BeginValues
  PROVE  IInv'
<1>1. /\ pc \in {"qualified", "declared", "variables"} /\ pc' = "values" /\ source' = source
      /\ variable' = (IF pc = "declared" THEN variable ELSE NoSymbol)
      /\ length' = 0
      /\ UNCHANGED <<sections, symbols, qualifiers, alignment, aligned, skewed>>
  BY DEF BeginValues, Step, spaceVars
<1>2. TypeOK'
  BY <1>1 DEF IInv, TypeOK, Statuses
<1>3. SectionsOK' /\ WordsOK' /\ RelocsOK'
  BY <1>1, SameFile
<1>4. Pending' = Pending /\ SoFar' = 0 /\ SoFar = 0
  BY <1>1 DEF Pending, SoFar
<1>5. VariablesOK'
  <2>1. /\ Spread(Those(sections), symbols, Pending, SoFar)
        /\ Pending # NoSymbol =>
             /\ Pending \in DOMAIN symbols
             /\ IF NoCode THEN symbols[Pending].section = NoSection
                ELSE symbols[Pending].section = here.name
    BY <1>1 DEF IInv, VariablesOK
  <2>2. Spread(Those(sections), symbols, Pending, SoFar)'
    BY <1>1, <1>4, <2>1
  <2>3. (Pending # NoSymbol =>
             /\ Pending \in DOMAIN symbols
             /\ IF NoCode THEN symbols[Pending].section = NoSection
                ELSE symbols[Pending].section = here.name)'
    BY <1>1, <1>4, <2>1 DEF NoCode, here
  <2>4. SoFar' = 0
    BY <1>4
  <2> QED
    BY <2>2, <2>3, <2>4 DEF VariablesOK
<1>6. BufferOK'
  <2>1. ASSUME InBuffer'
        PROVE  /\ (~ NoCode)' /\ Begun(here, alignment)' /\ Aside(here, alignment, symbols, Pending)'
               /\ ("page" \notin skewed /\ HasData(here) => BegunAt(here, alignment, aligned))'
               /\ (skewed = {} /\ HasData(here) => RelocsBefore(here, alignment))'
    <3>1. InBuffer
      BY <1>1, <2>1 DEF InBuffer
    <3>2. /\ ~ NoCode /\ Begun(here, alignment) /\ Aside(here, alignment, symbols, Pending)
          /\ "page" \notin skewed /\ HasData(here) => BegunAt(here, alignment, aligned)
          /\ skewed = {} /\ HasData(here) => RelocsBefore(here, alignment)
      BY <3>1 DEF IInv, BufferOK
    <3> QED
      BY <1>1, <1>4, <3>2 DEF NoCode, here
  <2> QED
    BY <2>1 DEF BufferOK
<1> QED
  BY <1>2, <1>3, <1>5, <1>6 DEF IInv

LEMMA EndOfFileKeeps ==
  ASSUME IInv, EndOfFile
  PROVE  IInv'
<1>1. /\ pc = "statement" /\ pc' \in {"done", "failed"} /\ source' = source
      /\ UNCHANGED <<sections, symbols, varVars, aligned, skewed>>
  BY DEF EndOfFile
<1>2. TypeOK'
  BY <1>1 DEF IInv, TypeOK, Statuses, varVars
<1>3. SectionsOK' /\ WordsOK' /\ RelocsOK'
  BY <1>1, SameFile
<1>4. VariablesOK'
  <2>1. CASE pc' = "failed"
    BY <2>1 DEF VariablesOK
  <2>2. CASE pc' = "done"
    BY <1>1, <2>2, NonePending, QuietKeeps
  <2> QED
    BY <1>1, <2>1, <2>2
<1>5. BufferOK'
  BY <1>1 DEF BufferOK, InBuffer
<1> QED
  BY <1>2, <1>3, <1>4, <1>5 DEF IInv

LEMMA StoppedKeeps ==
  ASSUME IInv, UNCHANGED vars
  PROVE  IInv'
<1>1. /\ UNCHANGED <<sections, symbols, aligned, skewed, pc, source, qualifiers, alignment>>
      /\ UNCHANGED <<variable, length>>
  BY DEF vars, varVars
<1>2. TypeOK'
  BY <1>1 DEF IInv, TypeOK
<1>3. SectionsOK' /\ WordsOK' /\ RelocsOK'
  BY <1>1, SameFile
<1>4. Pending' = Pending /\ SoFar' = SoFar /\ NoCode' = NoCode /\ here' = here
      /\ InBuffer' = InBuffer
  BY <1>1 DEF Pending, SoFar, NoCode, here, InBuffer
<1>5. VariablesOK'
  BY <1>1, <1>4 DEF IInv, VariablesOK
<1>6. BufferOK'
  BY <1>1, <1>4 DEF IInv, BufferOK
<1> QED
  BY <1>2, <1>3, <1>5, <1>6 DEF IInv

----------------------------------------------------------------------------
(* Labels and declarations. *)

\* The names a source draws from, and the sections it selects.
LEMMA SourceIs ==
  ASSUME IInv
  PROVE  /\ source.names \subseteq Name /\ source.scopes \subseteq {"EXTERN", "GLOBAL"}
         /\ source.sections \subseteq SectionName \X SecType \X Space
         /\ source.sizes \subseteq Nat /\ source.alignments \subseteq Nat
         /\ source.qualifiers \subseteq {"CIRC", "INIT24"}
<1>1. source \in Source
  BY DEF IInv, TypeOK
<1> QED
  BY <1>1, SourceAssumption

\* What becomes of the file when the place of symbol n is defined.
LEMMA DefinitionKeeps ==
  ASSUME IInv, NEW n \in Name, NEW size \in Nat, symbols' = Defined(n, size),
         pc \in {"statement", "qualified", "variables"},
         UNCHANGED <<source, sections, aligned, skewed>>
  PROVE  /\ symbols' \in [DOMAIN symbols' -> SymbolRec] /\ DOMAIN symbols' \subseteq Name
         /\ n \in DOMAIN symbols'
         /\ SectionsOK' /\ WordsOK' /\ RelocsOK'
         /\ Spread(Those(sections'), symbols', n, 0)
         /\ NoCode => symbols'[n].section = NoSection /\ symbols'[n].size = 0
         /\ ~ NoCode => symbols'[n].section = here.name /\ symbols'[n].size = size
<1>1. TypeOK /\ SectionsOK /\ WordsOK /\ RelocsOK
  BY DEF IInv
<1>2. PICK y : y = symbols
  OBVIOUS
<1>3. PICK z : z = symbols'
  OBVIOUS
<1>4. PICK q : q = sections /\ q = sections'
  OBVIOUS
<1>5. PICK A : A = aligned /\ A = aligned'
  OBVIOUS
<1>6. /\ z \in [DOMAIN z -> SymbolRec] /\ DOMAIN z \subseteq Name /\ n \in DOMAIN z
      /\ NoCode => Redeclares(y, z) /\ \A m \in DOMAIN y : z[m].word = y[m].word
      /\ ~ NoCode => Defines(here, y, z, n, size)
  <2>1. z = Defined(n, size)
    BY <1>3
  <2> QED
    BY <1>1, <1>2, <2>1, DefinedIs, Zenon
<1>7. DOMAIN y \subseteq Name /\ y \in [DOMAIN y -> SymbolRec]
  BY <1>1, <1>2 DEF TypeOK
<1>8. Unique(q) /\ AreIn(Those(q), y, A) /\ Wide(Those(q), A)
  BY <1>1, <1>2, <1>4, <1>5 DEF SectionsOK
<1>9. Spread(Those(q), y, NoSymbol, 0)
  BY <1>2, <1>4, NonePending
<1>10. /\ AreIn(Those(q), z, A)
       /\ Found(Those(q), y) => Found(Those(q), z)
       /\ Spread(Those(q), z, n, 0)
       /\ NoCode => z[n].section = NoSection /\ z[n].size = 0
       /\ ~ NoCode => z[n].section = here.name /\ z[n].size = size
  <2>1. CASE NoCode
    <3>1. Those(q) = {}
      BY <1>4, <2>1, NothingIn DEF NoCode
    <3>2. Redeclares(y, z) /\ \A m \in DOMAIN y : z[m].word = y[m].word
      BY <1>6, <2>1
    <3>3. AreIn(Those(q), z, A) /\ (Found(Those(q), y) => Found(Those(q), z))
      BY <1>8, <3>1, <3>2, RedeclaredKeeps
    <3>4. Spread(Those(q), z, n, 0) /\ z[n].section = NoSection
      BY <1>6, <3>1, <3>3, EmptyIsSpread
    <3>5. z[n].size = 0
      BY <1>6, <3>3, <3>4, Zenon DEF AreIn
    <3> QED
      BY <2>1, <3>3, <3>4, <3>5
  <2>2. CASE ~ NoCode
    <3>1. Defines(here, y, z, n, size)
      BY <1>6, <2>2
    <3>2. here \in Those(q) /\ Those(q) \subseteq Section
      BY <1>1, <1>4, <2>2, HereIs
    <3>3. \A u \in Those(q) : u.name = here.name => u = here
      BY <1>1, <1>4, <1>8, <2>2, HereIs DEF Unique, Those
    <3>4. PICK s \in Those(q) : s = here
      BY <3>2
    <3>5. AreIn(Those(q), z, A) /\ (Found(Those(q), y) => Found(Those(q), z))
      BY <1>8, <3>1, <3>2, <3>3, <3>4, DefinedIsFound
    <3>6. Spread(Those(q), z, n, 0)
      BY <1>6, <1>7, <1>9, <3>1, <3>2, <3>3, <3>4, DefinedIsSpread
    <3>7. z[n].section = here.name /\ z[n].size = size
      BY <3>1 DEF Defines
    <3> QED
      BY <2>2, <3>5, <3>6, <3>7
  <2> QED
    BY <2>1, <2>2
<1>11. SectionsOK'
  BY <1>3, <1>4, <1>5, <1>8, <1>10 DEF SectionsOK
<1>12. WordsOK'
  BY <1>1, <1>2, <1>3, <1>4, <1>5, <1>10 DEF WordsOK
<1>13. RelocsOK'
  BY <1>1, <1>4 DEF RelocsOK
<1> QED
  BY <1>3, <1>4, <1>6, <1>10, <1>11, <1>12, <1>13

LEMMA LabelKeeps ==
  ASSUME IInv, NEW n \in Name, Label(n)
  PROVE  IInv'
<1>1. CASE Fails("statement")
  BY <1>1, FailsKeeps
<1>2. CASE /\ Step("statement", "statement") /\ symbols' = Defined(n, 0)
           /\ UNCHANGED <<sections, spaceVars, varVars, aligned, skewed>>
  <2>1. /\ pc = "statement" /\ pc' = "statement"
        /\ UNCHANGED <<source, sections, aligned, skewed, varVars>>
    BY <1>2 DEF Step
  <2>2. 0 \in Nat
    OBVIOUS
  <2>3. /\ symbols' \in [DOMAIN symbols' -> SymbolRec] /\ DOMAIN symbols' \subseteq Name
        /\ n \in DOMAIN symbols'
        /\ SectionsOK' /\ WordsOK' /\ RelocsOK'
        /\ Spread(Those(sections'), symbols', n, 0)
        /\ symbols'[n].size = 0
    BY <1>2, <2>1, <2>2, DefinitionKeeps
  <2>4. TypeOK'
    BY <2>1, <2>3 DEF IInv, TypeOK, Statuses, varVars
  <2>5. VariablesOK'
    <3>1. PICK z : z = symbols'
      OBVIOUS
    <3>2. PICK q : q = sections'
      OBVIOUS
    <3>3. Those(q) \subseteq Section
      <4>1. q \in Seq(Section)
        BY <2>4, <3>2 DEF TypeOK
      <4> QED
        BY <4>1, ElementOfSeq DEF Those
    <3>4. /\ z \in [DOMAIN z -> SymbolRec] /\ DOMAIN z \subseteq Name /\ n \in DOMAIN z
          /\ Spread(Those(q), z, n, z[n].size)
      BY <2>3, <3>1, <3>2
    <3>5. Spread(Those(q), z, NoSymbol, 0)
      BY <3>3, <3>4, PendingEnds
    <3>6. Spread(Those(sections), symbols, NoSymbol, 0)'
      BY <3>1, <3>2, <3>5
    <3>7. Pending' = NoSymbol /\ SoFar' = 0
      BY <2>1 DEF Pending, SoFar
    <3> QED
      BY <3>6, <3>7 DEF VariablesOK
  <2>6. BufferOK'
    BY <2>1 DEF BufferOK, InBuffer
  <2> QED
    BY <2>3, <2>4, <2>5, <2>6 DEF IInv
<1> QED
  BY <1>1, <1>2 DEF Label

LEMMA DeclareKeeps ==
  ASSUME IInv, NEW n \in Name, NEW scope \in {"EXTERN", "GLOBAL"}, Declare(n, scope)
  PROVE  IInv'
<1>1. /\ pc = "statement" /\ pc' = "statement" /\ symbols' = Referenced(n, {scope})
      /\ UNCHANGED <<source, sections, aligned, skewed, varVars>>
  BY DEF Declare, Step
<1>2. TypeOK /\ SectionsOK /\ WordsOK /\ RelocsOK
  BY DEF IInv
<1>3. PICK y : y = symbols
  OBVIOUS
<1>4. PICK z : z = symbols'
  OBVIOUS
<1>5. PICK q : q = sections /\ q = sections'
  BY <1>1
<1>6. PICK A : A = aligned /\ A = aligned'
  BY <1>1
<1>7. /\ z \in [DOMAIN z -> SymbolRec] /\ DOMAIN z \subseteq Name
      /\ Redeclares(y, z) /\ \A m \in DOMAIN y : z[m].word = y[m].word
  <2>1. z = Referenced(n, {scope}) /\ {scope} \subseteq {"EXTERN", "GLOBAL"}
    BY <1>1, <1>4
  <2> QED
    BY <1>2, <1>3, <2>1, ReferencedIs, ZenonT(40)
<1>8. Those(q) \subseteq Section
  <2>1. q \in Seq(Section)
    BY <1>2, <1>5 DEF TypeOK
  <2> QED
    BY <2>1, ElementOfSeq DEF Those
<1>9. Unique(q) /\ AreIn(Those(q), y, A) /\ Wide(Those(q), A)
  BY <1>2, <1>3, <1>5, <1>6 DEF SectionsOK
<1>10. Spread(Those(q), y, NoSymbol, 0)
  BY <1>1, <1>3, <1>5, NonePending
<1>11. /\ AreIn(Those(q), z, A) /\ (Found(Those(q), y) => Found(Those(q), z))
       /\ Spread(Those(q), z, NoSymbol, 0)
  BY <1>7, <1>8, <1>9, <1>10, RedeclaredKeeps
<1>12. TypeOK'
  BY <1>1, <1>2, <1>4, <1>7 DEF TypeOK, Statuses, varVars
<1>13. SectionsOK'
  BY <1>4, <1>5, <1>6, <1>9, <1>11 DEF SectionsOK
<1>14. WordsOK'
  BY <1>1, <1>2, <1>3, <1>4, <1>5, <1>6, <1>11 DEF WordsOK
<1>15. RelocsOK'
  BY <1>1, <1>2, <1>5 DEF RelocsOK
<1>16. VariablesOK'
  <2>1. Pending' = NoSymbol /\ SoFar' = 0
    BY <1>1 DEF Pending, SoFar
  <2>2. Spread(Those(sections), symbols, NoSymbol, 0)'
    BY <1>4, <1>5, <1>11
  <2> QED
    BY <2>1, <2>2 DEF VariablesOK
<1>17. BufferOK'
  BY <1>1 DEF BufferOK, InBuffer
<1> QED
  BY <1>12, <1>13, <1>14, <1>15, <1>16, <1>17 DEF IInv

----------------------------------------------------------------------------
(* Words and variables. *)

\* What becomes of the file when the current section gets k words.
LEMMA LengtheningKeeps ==
  ASSUME IInv, ~ NoCode, NEW t, NEW k \in Nat,
         Lengthens(sections, sections', t, symbols, symbols', k),
         symbols' \in [DOMAIN symbols' -> SymbolRec], DOMAIN symbols' \subseteq Name,
         UNCHANGED <<aligned, skewed>>
  PROVE  /\ sections' \in Seq(Section)
         /\ (\A s \in Those(sections) : s.addralign \in PowersOf2)'
         /\ SectionsOK' /\ WordsOK' /\ RelocsOK' /\ ~ NoCode'
         /\ here'.name = here.name /\ Those(sections') \subseteq Section
<1>1. TypeOK /\ SectionsOK /\ WordsOK /\ RelocsOK
  BY DEF IInv
<1>2. PICK y : y = symbols
  OBVIOUS
<1>3. PICK z : z = symbols'
  OBVIOUS
<1>4. PICK q : q = sections
  OBVIOUS
<1>5. PICK r : r = sections'
  OBVIOUS
<1>6. PICK A : A = aligned /\ A = aligned'
  OBVIOUS
<1>7. /\ Lengthens(q, r, t, y, z, k) /\ z \in [DOMAIN z -> SymbolRec]
      /\ y \in [DOMAIN y -> SymbolRec] /\ A \subseteq AlignedWord
  BY <1>1, <1>2, <1>3, <1>4, <1>5, <1>6 DEF TypeOK
<1>8. Unique(q) /\ AreIn(Those(q), y, A) /\ Wide(Those(q), A)
  BY <1>1, <1>2, <1>4, <1>6 DEF SectionsOK
<1>9. /\ Unique(r) /\ AreIn(Those(r), z, A) /\ Wide(Those(r), A)
      /\ Counted(Those(q)) /\ Found(Those(q), y) /\ Met(Those(q), A)
           => Counted(Those(r)) /\ Found(Those(r), z) /\ Met(Those(r), A)
      /\ Counted(Those(q)) /\ Marked(Those(q)) => Marked(Those(r))
  BY <1>7, <1>8, LengthenedKeeps
<1>10. Replaces(q, r, t) /\ Extends(q[1], t, k)
  BY <1>7 DEF Lengthens
<1>11. /\ r \in Seq(Section) /\ r # <<>> /\ r[1] = t /\ t.name = q[1].name
       /\ t.addralign = q[1].addralign /\ q[1] \in Those(q)
       /\ \A u \in Those(r) : u = t \/ u \in Those(q)
  BY <1>8, <1>10, Replaced, Zenon DEF Extends
<1>12. \A s \in Those(r) : s.addralign \in PowersOf2
  BY <1>1, <1>4, <1>11 DEF TypeOK
<1>13. (\A s \in Those(sections) : s.addralign \in PowersOf2)'
  BY <1>5, <1>12
<1>14. SectionsOK'
  BY <1>3, <1>5, <1>6, <1>9 DEF SectionsOK
<1>15. WordsOK'
  BY <1>1, <1>2, <1>3, <1>4, <1>5, <1>6, <1>9 DEF WordsOK
<1>16. RelocsOK'
  BY <1>1, <1>2, <1>4, <1>5, <1>6, <1>9 DEF WordsOK, RelocsOK
<1>17. ~ NoCode' /\ here'.name = here.name /\ Those(sections') \subseteq Section
  <2>1. Those(r) \subseteq Section
    BY <1>11, ElementOfSeq DEF Those
  <2> QED
    BY <1>4, <1>5, <1>11, <2>1 DEF NoCode, here
<1> QED
  BY <1>5, <1>11, <1>13, <1>14, <1>15, <1>16, <1>17

\* What becomes of a circular buffer.
LEMMA LengtheningIsBegun ==
  ASSUME IInv, InBuffer, ~ NoCode, NEW t, NEW k \in Nat,
         Lengthens(sections, sections', t, symbols, symbols', k),
         UNCHANGED <<aligned, skewed, alignment>>, NEW p, Aside(here, alignment, symbols, p)
  PROVE  /\ Begun(here, alignment)' /\ Aside(here', alignment', symbols', p)
         /\ ("page" \notin skewed /\ HasData(here) => BegunAt(here, alignment, aligned))'
         /\ (skewed = {} /\ HasData(here) => RelocsBefore(here, alignment))'
<1>1. /\ TypeOK /\ SectionsOK /\ WordsOK /\ Begun(here, alignment)
      /\ "page" \notin skewed /\ HasData(here) => BegunAt(here, alignment, aligned)
      /\ skewed = {} /\ HasData(here) => RelocsBefore(here, alignment)
  BY DEF IInv, BufferOK
<1>2. PICK y : y = symbols
  OBVIOUS
<1>3. PICK z : z = symbols'
  OBVIOUS
<1>4. PICK q : q = sections
  OBVIOUS
<1>5. PICK r : r = sections'
  OBVIOUS
<1>6. PICK A : A = aligned /\ A = aligned'
  OBVIOUS
<1>7. PICK al \in [page : Nat, offset : Nat, reloc : Nat] : al = alignment /\ al = alignment'
  BY <1>1 DEF TypeOK
<1>8. here = q[1] /\ here' = r[1] /\ here \in Those(sections)
  BY <1>1, <1>4, <1>5, HereIs DEF here
<1>9. /\ Unique(q) /\ Lengthens(q, r, t, y, z, k) /\ Begun(q[1], al) /\ Aside(q[1], al, y, p)
  BY <1>1, <1>2, <1>3, <1>4, <1>5, <1>7, <1>8 DEF SectionsOK
<1>10. /\ Begun(r[1], al) /\ Aside(r[1], al, z, p) /\ (HasData(r[1]) => HasData(q[1]))
       /\ HasData(q[1]) /\ Counts(q[1]) /\ BegunAt(q[1], al, A) => BegunAt(r[1], al, A)
       /\ RelocsBefore(q[1], al) => RelocsBefore(r[1], al)
  BY <1>9, LengthenedIsBegun
<1>11. "page" \notin skewed /\ HasData(q[1]) => Counts(q[1])
  BY <1>1, <1>8 DEF WordsOK, Counted
<1>12. "page" \notin skewed' /\ HasData(r[1]) => BegunAt(r[1], al, A)
  BY <1>1, <1>6, <1>7, <1>8, <1>10, <1>11
<1>13. skewed' = {} /\ HasData(r[1]) => RelocsBefore(r[1], al)
  BY <1>1, <1>7, <1>8, <1>10
<1> QED
  BY <1>3, <1>6, <1>7, <1>8, <1>10, <1>12, <1>13

LEMMA OperationKeeps ==
  ASSUME IInv, NEW n \in Name \cup {NoSymbol}, Operation(n)
  PROVE  IInv'
<1>1. CASE Fails("statement")
  BY <1>1, FailsKeeps
<1>2. CASE /\ Step("statement", "statement") /\ Emit(n)
           /\ UNCHANGED <<spaceVars, varVars, aligned, skewed>>
  <2>1. /\ pc = "statement" /\ pc' = "statement"
        /\ UNCHANGED <<source, aligned, skewed, varVars>>
    BY <1>2 DEF Step
  <2>2. TypeOK
    BY DEF IInv
  <2>3. /\ ~ NoCode /\ \E t : Lengthens(sections, sections', t, symbols, symbols', 1)
        /\ symbols' \in [DOMAIN symbols' -> SymbolRec] /\ DOMAIN symbols' \subseteq Name
    BY <1>2, <2>2, EmitLengthens
  <2>4. PICK t : Lengthens(sections, sections', t, symbols, symbols', 1)
    BY <2>3
  <2>5. /\ sections' \in Seq(Section)
        /\ (\A s \in Those(sections) : s.addralign \in PowersOf2)'
        /\ SectionsOK' /\ WordsOK' /\ RelocsOK' /\ ~ NoCode'
    BY <2>1, <2>3, <2>4, LengtheningKeeps
  <2>6. TypeOK'
    BY <2>1, <2>2, <2>3, <2>5 DEF TypeOK, varVars
  <2>7. VariablesOK'
    <3>1. PICK y : y = symbols
      OBVIOUS
    <3>2. PICK z : z = symbols'
      OBVIOUS
    <3>3. PICK q : q = sections
      OBVIOUS
    <3>4. PICK r : r = sections'
      OBVIOUS
    <3>5. /\ Unique(q) /\ Lengthens(q, r, t, y, z, 1) /\ y \in [DOMAIN y -> SymbolRec]
          /\ Spread(Those(q), y, NoSymbol, 0)
      BY <2>1, <2>2, <2>4, <3>1, <3>2, <3>3, <3>4, NonePending DEF IInv, SectionsOK, TypeOK
    <3>6. NoSymbol \notin DOMAIN y /\ DOMAIN z \subseteq Name
      BY <2>2, <2>3, <3>1, <3>2, SpaceAssumption DEF TypeOK
    <3>7. Spread(Those(r), z, NoSymbol, 0 + 1)
      BY <3>5, <3>6, LengthenedIsSpread
    <3>8. Spread(Those(r), z, NoSymbol, 0)
      BY <3>6, <3>7, NonePends
    <3>9. Spread(Those(sections), symbols, NoSymbol, 0)'
      BY <3>2, <3>4, <3>8
    <3>10. Pending' = NoSymbol /\ SoFar' = 0
      BY <2>1 DEF Pending, SoFar
    <3> QED
      BY <3>9, <3>10 DEF VariablesOK
  <2>8. BufferOK'
    BY <2>1 DEF BufferOK, InBuffer
  <2> QED
    BY <2>5, <2>6, <2>7, <2>8 DEF IInv
<1> QED
  BY <1>1, <1>2 DEF Operation

LEMMA InitialValueKeeps ==
  ASSUME IInv, NEW n \in Name \cup {NoSymbol}, InitialValue(n)
  PROVE  IInv'
<1>1. CASE Fails("values")
  BY <1>1, FailsKeeps
<1>2. CASE /\ Step("values", "values") /\ Emit(n) /\ length' = length + 1
           /\ UNCHANGED <<spaceVars, qualifiers, alignment, variable, aligned, skewed>>
  <2>1. /\ pc = "values" /\ pc' = "values" /\ length' = length + 1
        /\ UNCHANGED <<source, aligned, skewed, qualifiers, alignment, variable>>
    BY <1>2 DEF Step
  <2>2. TypeOK /\ length \in Nat
    BY DEF IInv, TypeOK
  <2>3. /\ ~ NoCode /\ \E t : Lengthens(sections, sections', t, symbols, symbols', 1)
        /\ symbols' \in [DOMAIN symbols' -> SymbolRec] /\ DOMAIN symbols' \subseteq Name
    BY <1>2, <2>2, EmitLengthens
  <2>4. PICK t : Lengthens(sections, sections', t, symbols, symbols', 1)
    BY <2>3
  <2>5. /\ sections' \in Seq(Section)
        /\ (\A s \in Those(sections) : s.addralign \in PowersOf2)'
        /\ SectionsOK' /\ WordsOK' /\ RelocsOK' /\ ~ NoCode' /\ here'.name = here.name
    BY <2>1, <2>3, <2>4, LengtheningKeeps
  <2>6. TypeOK'
    BY <2>1, <2>2, <2>3, <2>5 DEF TypeOK
  <2>7. /\ Pending = variable /\ Pending' = variable /\ SoFar = length /\ SoFar' = length + 1
        /\ Spread(Those(sections), symbols, variable, length)
        /\ variable # NoSymbol =>
             variable \in DOMAIN symbols /\ symbols[variable].section = here.name
    BY <2>1, <2>3 DEF Pending, SoFar, IInv, VariablesOK
  <2>8. VariablesOK'
    <3>1. PICK y : y = symbols
      OBVIOUS
    <3>2. PICK z : z = symbols'
      OBVIOUS
    <3>3. PICK q : q = sections /\ q[1] = here
      BY DEF here
    <3>4. PICK r : r = sections'
      OBVIOUS
    <3>5. PICK p : p = variable
      OBVIOUS
    <3>6. PICK j \in Nat : j = length
      BY <2>2
    <3>7. NoSymbol \notin DOMAIN y
      BY <2>2, <3>1, SpaceAssumption DEF TypeOK
    <3>8. /\ Unique(q) /\ Lengthens(q, r, t, y, z, 1) /\ y \in [DOMAIN y -> SymbolRec]
          /\ Spread(Those(q), y, p, j) /\ (p \in DOMAIN y => y[p].section = q[1].name)
      BY <2>2, <2>4, <2>7, <3>1, <3>2, <3>3, <3>4, <3>5, <3>6, <3>7
      DEF IInv, SectionsOK, TypeOK
    <3>9. Spread(Those(r), z, p, j + 1)
      BY <3>8, LengthenedIsSpread
    <3>10. Spread(Those(sections), symbols, Pending, SoFar)'
      BY <2>7, <3>2, <3>4, <3>5, <3>6, <3>9
    <3>11. variable # NoSymbol =>
             variable \in DOMAIN symbols' /\ symbols'[variable].section = here'.name
      <4>1. ASSUME p # NoSymbol
            PROVE  p \in DOMAIN z /\ z[p].section = here'.name
        <5>1. p \in DOMAIN y /\ y[p].section = here.name
          BY <2>7, <3>1, <3>5, <4>1
        <5>2. Redeclares(y, z)
          BY <3>8 DEF Lengthens
        <5>3. p \in DOMAIN z /\ z[p].section = y[p].section
          BY <5>1, <5>2, Zenon DEF Redeclares, SamePlace
        <5> QED
          BY <2>5, <5>1, <5>3
      <4> QED
        BY <3>2, <3>5, <4>1
    <3>12. (Pending # NoSymbol =>
              /\ Pending \in DOMAIN symbols
              /\ IF NoCode THEN symbols[Pending].section = NoSection
                 ELSE symbols[Pending].section = here.name)'
      BY <2>5, <2>7, <3>11
    <3>13. (NoCode => SoFar = 0)'
      BY <2>5
    <3> QED
      BY <3>10, <3>12, <3>13 DEF VariablesOK
  <2>9. BufferOK'
    <3>1. ASSUME InBuffer'
          PROVE  /\ Begun(here, alignment)' /\ Aside(here, alignment, symbols, Pending)'
                 /\ ("page" \notin skewed /\ HasData(here) => BegunAt(here, alignment, aligned))'
                 /\ (skewed = {} /\ HasData(here) => RelocsBefore(here, alignment))'
      <4>1. InBuffer
        BY <2>1, <3>1 DEF InBuffer
      <4>2. Aside(here, alignment, symbols, variable)
        BY <2>7, <4>1 DEF IInv, BufferOK
      <4>3. PICK p : p = variable
        OBVIOUS
      <4>4. Aside(here, alignment, symbols, p) /\ 1 \in Nat
        BY <4>2, <4>3
      <4>5. /\ Begun(here, alignment)' /\ Aside(here', alignment', symbols', p)
            /\ ("page" \notin skewed /\ HasData(here) => BegunAt(here, alignment, aligned))'
            /\ (skewed = {} /\ HasData(here) => RelocsBefore(here, alignment))'
        BY <2>1, <2>3, <2>4, <4>1, <4>4, LengtheningIsBegun
      <4>6. Aside(here, alignment, symbols, Pending)'
        BY <2>7, <4>3, <4>5
      <4> QED
        BY <4>5, <4>6
    <3> QED
      BY <2>5, <3>1 DEF BufferOK
  <2> QED
    BY <2>5, <2>6, <2>8, <2>9 DEF IInv
<1> QED
  BY <1>1, <1>2 DEF InitialValue

LEMMA DeclareVariableKeeps ==
  ASSUME IInv, NEW n \in Name, NEW size \in Nat, DeclareVariable(n, size)
  PROVE  IInv'
<1>1. CASE Fails(pc)
  BY <1>1, FailsKeeps
<1>2. CASE /\ Step(pc, "declared") /\ symbols' = Defined(n, size) /\ variable' = n
           /\ UNCHANGED <<sections, spaceVars, qualifiers, alignment, length, aligned, skewed>>
  <2>1. /\ pc \in {"qualified", "variables"} /\ pc' = "declared"
        /\ UNCHANGED <<source, sections, aligned, skewed, qualifiers, alignment, length>>
    BY <1>2 DEF Step, DeclareVariable
  <2>2. /\ symbols' \in [DOMAIN symbols' -> SymbolRec] /\ DOMAIN symbols' \subseteq Name
        /\ n \in DOMAIN symbols'
        /\ SectionsOK' /\ WordsOK' /\ RelocsOK'
        /\ Spread(Those(sections'), symbols', n, 0)
        /\ NoCode => symbols'[n].section = NoSection /\ symbols'[n].size = 0
        /\ ~ NoCode => symbols'[n].section = here.name /\ symbols'[n].size = size
    BY <1>2, <2>1, DefinitionKeeps
  <2>3. TypeOK'
    BY <1>2, <2>1, <2>2 DEF IInv, TypeOK, Statuses
  <2>4. Pending' = n /\ SoFar' = 0 /\ Pending = NoSymbol /\ n # NoSymbol
    BY <1>2, <2>1, SpaceAssumption DEF Pending, SoFar
  <2>5. VariablesOK'
    <3>1. Spread(Those(sections), symbols, Pending, SoFar)'
      BY <2>2, <2>4
    <3>2. (Pending # NoSymbol =>
             /\ Pending \in DOMAIN symbols
             /\ IF NoCode THEN symbols[Pending].section = NoSection
                ELSE symbols[Pending].section = here.name)'
      BY <2>1, <2>2, <2>4 DEF NoCode, here
    <3> QED
      BY <2>4, <3>1, <3>2 DEF VariablesOK
  <2>6. BufferOK'
    <3>1. ASSUME InBuffer'
          PROVE  /\ ~ NoCode' /\ Begun(here, alignment)' /\ Aside(here, alignment, symbols, Pending)'
                 /\ ("page" \notin skewed /\ HasData(here) => BegunAt(here, alignment, aligned))'
                 /\ (skewed = {} /\ HasData(here) => RelocsBefore(here, alignment))'
      <4>1. InBuffer
        BY <2>1, <3>1 DEF InBuffer
      <4>2. /\ ~ NoCode /\ Begun(here, alignment) /\ Aside(here, alignment, symbols, NoSymbol)
            /\ "page" \notin skewed /\ HasData(here) => BegunAt(here, alignment, aligned)
            /\ skewed = {} /\ HasData(here) => RelocsBefore(here, alignment)
        BY <2>4, <4>1 DEF IInv, BufferOK
      <4>3. Aside(here, alignment, symbols', n)
        <5>1. PICK y : y = symbols
          OBVIOUS
        <5>2. PICK z : z = symbols'
          OBVIOUS
        <5>3. PICK s : s = here
          OBVIOUS
        <5>4. PICK al : al = alignment
          OBVIOUS
        <5>5. Defines(s, y, z, n, size)
          <6>1. TypeOK
            BY DEF IInv
          <6> QED
            BY <1>2, <4>2, <5>1, <5>2, <5>3, <6>1, DefinedIs
        <5>6. al.offset <= s.offset /\ DOMAIN y \subseteq Name /\ Aside(s, al, y, NoSymbol)
          BY <4>2, <5>1, <5>3, <5>4 DEF Begun, IInv, TypeOK
        <5>7. Aside(s, al, z, n)
          BY <5>5, <5>6, DefinedIsAside
        <5> QED
          BY <5>2, <5>3, <5>4, <5>7
      <4> QED
        BY <2>1, <2>4, <4>2, <4>3 DEF NoCode, here
    <3> QED
      BY <3>1 DEF BufferOK
  <2> QED
    BY <2>2, <2>3, <2>5, <2>6 DEF IInv
<1> QED
  BY <1>1, <1>2 DEF DeclareVariable

----------------------------------------------------------------------------
(* The end of a variable. *)

LEMMA EndWithoutName ==
  ASSUME IInv, pc \in {"declared", "values"}, pc' = "variables", variable = NoSymbol,
         UNCHANGED <<source, sections, symbols, varVars, aligned, skewed>>
  PROVE  IInv'
<1>1. TypeOK'
  BY DEF IInv, TypeOK, Statuses, varVars
<1>2. SectionsOK' /\ WordsOK' /\ RelocsOK'
  BY SameFile
<1>3. Pending = NoSymbol /\ Pending' = NoSymbol
  BY DEF Pending
<1>4. VariablesOK'
  <2>1. Spread(Those(sections), symbols, NoSymbol, SoFar)
    BY <1>3 DEF IInv, VariablesOK
  <2>2. DOMAIN symbols \subseteq Name
    BY DEF IInv, TypeOK
  <2>3. \A k : Spread(Those(sections), symbols, NoSymbol, k)
    BY <2>1, <2>2, NonePends
  <2> QED
    BY <2>3, QuietKeeps
<1>5. BufferOK'
  <2>1. ASSUME InBuffer'
        PROVE  /\ ~ NoCode' /\ Begun(here, alignment)' /\ Aside(here, alignment, symbols, Pending)'
               /\ ("page" \notin skewed /\ HasData(here) => BegunAt(here, alignment, aligned))'
               /\ (skewed = {} /\ HasData(here) => RelocsBefore(here, alignment))'
    <3>1. InBuffer
      BY <2>1 DEF InBuffer, varVars
    <3>2. /\ ~ NoCode /\ Begun(here, alignment) /\ Aside(here, alignment, symbols, NoSymbol)
          /\ "page" \notin skewed /\ HasData(here) => BegunAt(here, alignment, aligned)
          /\ skewed = {} /\ HasData(here) => RelocsBefore(here, alignment)
      BY <1>3, <3>1 DEF IInv, BufferOK
    <3> QED
      BY <1>3, <3>2 DEF NoCode, here, varVars
  <2> QED
    BY <2>1 DEF BufferOK
<1> QED
  BY <1>1, <1>2, <1>4, <1>5 DEF IInv

\* The pending variable and its words.
LEMMA PendingIs ==
  ASSUME IInv, pc \in {"declared", "values"}, variable # NoSymbol, NEW e,
         e = IF pc = "values" THEN length ELSE 0
  PROVE  /\ Pending = variable /\ SoFar = e /\ e \in Nat
         /\ variable \in DOMAIN symbols /\ Symbol(variable) = symbols[variable]
         /\ Spread(Those(sections), symbols, variable, e)
         /\ NoCode => e = 0 /\ symbols[variable].section = NoSection
         /\ ~ NoCode => symbols[variable].section = here.name
<1>1. Pending = variable /\ SoFar = e
  BY DEF Pending, SoFar
<1>2. e \in Nat
  BY DEF IInv, TypeOK
<1>3. /\ Spread(Those(sections), symbols, Pending, SoFar)
      /\ NoCode => SoFar = 0
      /\ Pending # NoSymbol =>
           /\ Pending \in DOMAIN symbols
           /\ IF NoCode THEN symbols[Pending].section = NoSection
              ELSE symbols[Pending].section = here.name
  BY DEF IInv, VariablesOK
<1>4. /\ variable \in DOMAIN symbols
      /\ IF NoCode THEN symbols[variable].section = NoSection
         ELSE symbols[variable].section = here.name
  BY <1>1, <1>3
<1>5. Symbol(variable) = symbols[variable]
  BY <1>4 DEF Symbol, Known
<1> QED
  BY <1>1, <1>2, <1>3, <1>4, <1>5

\* symbol_set_size gives an array its size.
LEMMA EndWithSize ==
  ASSUME IInv, pc \in {"declared", "values"}, pc' = "variables", variable # NoSymbol, NEW e,
         e = IF pc = "values" THEN length ELSE 0,
         symbols' = [symbols EXCEPT ![variable].size = e],
         UNCHANGED <<source, sections, varVars, aligned, skewed>>
  PROVE  IInv'
<1>1. /\ Pending = variable /\ SoFar = e /\ e \in Nat
      /\ variable \in DOMAIN symbols
      /\ Spread(Those(sections), symbols, variable, e)
      /\ NoCode => e = 0
      /\ ~ NoCode => symbols[variable].section = here.name
  BY PendingIs
<1>2. TypeOK /\ SectionsOK /\ WordsOK /\ RelocsOK
  BY DEF IInv
<1>3. PICK y : y = symbols
  OBVIOUS
<1>4. PICK z : z = symbols'
  OBVIOUS
<1>5. PICK q : q = sections /\ q = sections'
  OBVIOUS
<1>6. PICK A : A = aligned /\ A = aligned'
  OBVIOUS
<1>7. PICK p : p = variable
  OBVIOUS
<1>8. Those(q) \subseteq Section
  <2>1. q \in Seq(Section)
    BY <1>2, <1>5 DEF TypeOK
  <2> QED
    BY <2>1, ElementOfSeq DEF Those
<1>9. /\ p \in DOMAIN y /\ y \in [DOMAIN y -> SymbolRec] /\ DOMAIN y \subseteq Name
      /\ z = [y EXCEPT ![p].size = e] /\ Spread(Those(q), y, p, e)
  BY <1>1, <1>2, <1>3, <1>4, <1>5, <1>7 DEF TypeOK
<1>10. y[p].section = NoSection => e = 0
  <2>1. CASE NoCode
    BY <1>1, <2>1
  <2>2. CASE ~ NoCode
    <3>1. here.name \in SectionName
      BY <1>2, <2>2, HereIs, SectionFields
    <3> QED
      BY <1>1, <1>3, <1>7, <2>2, <3>1, SpaceAssumption
  <2> QED
    BY <2>1, <2>2
<1>11. Unique(q) /\ AreIn(Those(q), y, A) /\ Wide(Those(q), A)
  BY <1>2, <1>3, <1>5, <1>6 DEF SectionsOK
<1>12. /\ z \in [DOMAIN y -> SymbolRec] /\ DOMAIN z = DOMAIN y /\ z[p].size = e
       /\ AreIn(Those(q), z, A)
       /\ Found(Those(q), y) => Found(Those(q), z)
       /\ Spread(Those(q), z, p, e)
       /\ \A s \in Those(q) : \A al : Aside(s, al, y, p) => Aside(s, al, z, p)
  <2>1. PICK f \in Nat : f = e
    BY <1>1
  <2>2. PICK S : S = Those(q)
    OBVIOUS
  <2>3. S \subseteq Section /\ Sizes(y, z, p, f)
    BY <1>8, <1>9, <1>10, <2>1, <2>2 DEF Sizes
  <2>4. /\ z \in [DOMAIN y -> SymbolRec] /\ DOMAIN z = DOMAIN y /\ z[p].size = f
        /\ AreIn(S, y, A) => AreIn(S, z, A)
        /\ Found(S, y) => Found(S, z)
        /\ Spread(S, y, p, f) => Spread(S, z, p, f)
        /\ \A s \in S : \A al : Aside(s, al, y, p) => Aside(s, al, z, p)
    <3>1. S \subseteq Section /\ Sizes(y, z, p, f) /\ p \in DOMAIN y /\ f \in Nat
          /\ y \in [DOMAIN y -> SymbolRec]
      BY <1>9, <2>1, <2>3
    <3> HIDE <2>1, <2>2, <2>3
    <3>2. z \in [DOMAIN y -> SymbolRec] /\ DOMAIN z = DOMAIN y
      BY <3>1, SizedKeeps
    <3>3. z[p].size = f
      BY <3>1, SizedKeeps
    <3>4. AreIn(S, y, A) => AreIn(S, z, A)
      BY <3>1, SizedKeeps
    <3>5. Found(S, y) => Found(S, z)
      BY <3>1, SizedKeeps
    <3>6. Spread(S, y, p, f) => Spread(S, z, p, f)
      BY <3>1, SizedKeeps
    <3>7. \A s \in S : \A al : Aside(s, al, y, p) => Aside(s, al, z, p)
      BY <3>1, SizedKeeps
    <3> QED
      BY <3>2, <3>3, <3>4, <3>5, <3>6, <3>7
  <2> QED
    BY <1>9, <1>11, <2>1, <2>2, <2>4, Zenon
<1>13. Spread(Those(q), z, NoSymbol, 0)
  BY <1>8, <1>9, <1>12, PendingEnds
<1>14. TypeOK'
  BY <1>2, <1>4, <1>9, <1>12 DEF TypeOK, Statuses, varVars
<1>15. SectionsOK'
  BY <1>4, <1>5, <1>6, <1>11, <1>12 DEF SectionsOK
<1>16. WordsOK'
  BY <1>2, <1>3, <1>4, <1>5, <1>6, <1>12 DEF WordsOK
<1>17. RelocsOK'
  BY <1>2, <1>5 DEF RelocsOK
<1>18. Pending' = NoSymbol /\ SoFar' = 0
  BY DEF Pending, SoFar
<1>19. VariablesOK'
  <2>1. Spread(Those(sections), symbols, NoSymbol, 0)'
    BY <1>4, <1>5, <1>13
  <2> QED
    BY <1>18, <2>1 DEF VariablesOK
<1>20. BufferOK'
  <2>1. ASSUME InBuffer'
        PROVE  /\ ~ NoCode' /\ Begun(here, alignment)' /\ Aside(here, alignment, symbols, Pending)'
               /\ ("page" \notin skewed /\ HasData(here) => BegunAt(here, alignment, aligned))'
               /\ (skewed = {} /\ HasData(here) => RelocsBefore(here, alignment))'
    <3>1. InBuffer
      BY <2>1 DEF InBuffer, varVars
    <3>2. /\ ~ NoCode /\ Begun(here, alignment) /\ Aside(here, alignment, symbols, variable)
          /\ "page" \notin skewed /\ HasData(here) => BegunAt(here, alignment, aligned)
          /\ skewed = {} /\ HasData(here) => RelocsBefore(here, alignment)
      BY <1>1, <3>1 DEF IInv, BufferOK
    <3>3. PICK al : al = alignment
      OBVIOUS
    <3>4. PICK s \in Those(q) : s = here
      BY <1>2, <1>5, <3>2, HereIs
    <3>5. Aside(s, al, y, p)
      BY <1>3, <1>7, <3>2, <3>3, <3>4
    <3>6. Aside(s, al, z, p)
      BY <1>12, <3>5
    <3>7. DOMAIN z \subseteq Name
      BY <1>9, <1>12
    <3>8. Aside(s, al, z, NoSymbol)
      BY <3>6, <3>7, PendingIsAside
    <3>9. Aside(here, alignment, symbols, Pending)'
      BY <1>4, <1>18, <3>3, <3>4, <3>8 DEF here, varVars
    <3> QED
      BY <3>2, <3>9 DEF NoCode, here, varVars
  <2> QED
    BY <2>1 DEF BufferOK
<1> QED
  BY <1>14, <1>15, <1>16, <1>17, <1>19, <1>20 DEF IInv

\* symbol_set_size emits the words that have no value.
LEMMA EndWithWords ==
  ASSUME IInv, pc \in {"declared", "values"}, pc' = "variables", variable # NoSymbol, NEW e,
         e = IF pc = "values" THEN length ELSE 0,
         Symbol(variable).size # 0, e <= Symbol(variable).size,
         sections' = [sections EXCEPT ![1] = EmitBss(@, Symbol(variable).size - e)],
         UNCHANGED <<source, symbols, varVars, aligned, skewed>>
  PROVE  IInv'
<1>1. /\ Pending = variable /\ SoFar = e /\ e \in Nat
      /\ variable \in DOMAIN symbols /\ Symbol(variable) = symbols[variable]
      /\ Spread(Those(sections), symbols, variable, e)
      /\ NoCode => symbols[variable].section = NoSection
      /\ ~ NoCode => symbols[variable].section = here.name
  BY PendingIs
<1>2. TypeOK /\ SectionsOK /\ WordsOK /\ RelocsOK
  BY DEF IInv
<1>3. PICK y : y = symbols /\ y = symbols'
  OBVIOUS
<1>4. PICK p : p = variable
  OBVIOUS
<1>5. /\ p \in DOMAIN y /\ y \in [DOMAIN y -> SymbolRec] /\ DOMAIN y \subseteq Name
      /\ Symbol(variable).size = y[p].size
  BY <1>1, <1>2, <1>3, <1>4 DEF TypeOK
<1>6. y[p].size \in Nat /\ y[p].size # 0 /\ e <= y[p].size
  BY <1>5, SymbolFields
<1>7. PICK k \in Nat : k = y[p].size - e /\ e + k = y[p].size
  BY <1>1, <1>6
<1>8. ~ NoCode
  <2>1. ASSUME NoCode
        PROVE  FALSE
    <3>1. y[p].section = NoSection
      BY <1>1, <1>3, <1>4, <2>1
    <3>2. y[p].size = 0
      BY <1>2, <1>3, <1>5, <3>1 DEF SectionsOK, AreIn
    <3> QED
      BY <1>6, <3>2
  <2> QED
    BY <2>1
<1>9. /\ here \in Section /\ here \in Those(sections) /\ sections[1] = here /\ sections # <<>>
      /\ sections \in Seq(Section)
  BY <1>2, <1>8, HereIs DEF TypeOK
<1>10. PICK t : t = EmitBss(here, k)
  OBVIOUS
<1>11. sections' = [sections EXCEPT ![1] = t]
  <2>1. sections' = [sections EXCEPT ![1] = EmitBss(sections[1], k)]
    BY <1>5, <1>7
  <2> QED
    BY <1>9, <1>10, <2>1
<1>12. Extends(here, t, k) /\ KeepsRelocs(here, t)
  BY <1>9, <1>10, BssGrows, GrowsExtends
<1>13. Replaces(sections, sections', t)
  <2>1. t \in Section /\ t.name = here.name
    BY <1>12 DEF Extends
  <2> QED
    BY <1>9, <1>11, <2>1 DEF Replaces
<1>14. Lengthens(sections, sections', t, symbols, symbols', k)
  <2>1. Redeclares(symbols, symbols') /\ \A n \in DOMAIN symbols : symbols'[n].word = symbols[n].word
    BY Zenon DEF Redeclares, SamePlace
  <2> QED
    BY <1>9, <1>12, <1>13, <2>1 DEF Lengthens
<1>15. symbols' \in [DOMAIN symbols' -> SymbolRec] /\ DOMAIN symbols' \subseteq Name
  BY <1>3, <1>5
<1>16. /\ sections' \in Seq(Section)
       /\ (\A s \in Those(sections) : s.addralign \in PowersOf2)'
       /\ SectionsOK' /\ WordsOK' /\ RelocsOK' /\ ~ NoCode'
       /\ Those(sections') \subseteq Section
  BY <1>8, <1>14, <1>15, LengtheningKeeps
<1>17. TypeOK'
  BY <1>2, <1>15, <1>16 DEF TypeOK, Statuses, varVars
<1>18. Pending' = NoSymbol /\ SoFar' = 0
  BY DEF Pending, SoFar
<1>19. VariablesOK'
  <2>1. PICK q : q = sections /\ q[1] = here
    BY <1>9
  <2>2. PICK r : r = sections'
    OBVIOUS
  <2>3. /\ Unique(q) /\ Lengthens(q, r, t, y, y, k)
        /\ Spread(Those(q), y, p, e) /\ (p \in DOMAIN y => y[p].section = q[1].name)
    BY <1>1, <1>2, <1>3, <1>4, <1>8, <1>14, <2>1, <2>2 DEF SectionsOK
  <2>4. Spread(Those(r), y, p, e + k)
    BY <1>1, <1>5, <2>3, LengthenedIsSpread
  <2>5. Spread(Those(r), y, p, y[p].size) /\ Those(r) \subseteq Section
    BY <1>7, <1>16, <2>2, <2>4
  <2>6. Spread(Those(r), y, NoSymbol, 0)
    BY <1>5, <2>5, PendingEnds
  <2>7. Spread(Those(sections), symbols, NoSymbol, 0)'
    BY <1>3, <2>2, <2>6
  <2> QED
    BY <1>18, <2>7 DEF VariablesOK
<1>20. BufferOK'
  <2>1. ASSUME InBuffer'
        PROVE  /\ Begun(here, alignment)' /\ Aside(here, alignment, symbols, Pending)'
               /\ ("page" \notin skewed /\ HasData(here) => BegunAt(here, alignment, aligned))'
               /\ (skewed = {} /\ HasData(here) => RelocsBefore(here, alignment))'
    <3>1. InBuffer
      BY <2>1 DEF InBuffer, varVars
    <3>2. Aside(here, alignment, symbols, p)
      BY <1>1, <1>4, <3>1 DEF IInv, BufferOK
    <3>3. Aside(here, alignment, symbols, NoSymbol)
      <4>1. PICK s : s = here
        OBVIOUS
      <4>2. PICK al : al = alignment
        OBVIOUS
      <4>3. Aside(s, al, y, p)
        BY <1>3, <3>2, <4>1, <4>2
      <4>4. Aside(s, al, y, NoSymbol)
        BY <1>5, <4>3, PendingIsAside
      <4> QED
        BY <1>3, <4>1, <4>2, <4>4
    <3>4. UNCHANGED alignment
      BY DEF varVars
    <3>5. /\ Begun(here, alignment)' /\ Aside(here', alignment', symbols', NoSymbol)
          /\ ("page" \notin skewed /\ HasData(here) => BegunAt(here, alignment, aligned))'
          /\ (skewed = {} /\ HasData(here) => RelocsBefore(here, alignment))'
      BY <1>8, <1>14, <3>1, <3>3, <3>4, LengtheningIsBegun
    <3>6. Aside(here, alignment, symbols, Pending)'
      BY <1>18, <3>5
    <3> QED
      BY <3>5, <3>6
  <2> QED
    BY <1>16, <2>1 DEF BufferOK
<1> QED
  BY <1>16, <1>17, <1>19, <1>20 DEF IInv

LEMMA EndVariableKeeps ==
  ASSUME IInv, EndVariable
  PROVE  IInv'
<1> DEFINE e == IF pc = "values" THEN length ELSE 0
           fits == variable = NoSymbol \/ Symbol(variable).size = 0
                     \/ e <= Symbol(variable).size
<1>1. CASE Fails("values")
  BY <1>1, FailsKeeps
<1>2. CASE /\ Step(pc, "variables") /\ pc \in {"declared", "values"} /\ fits
           /\ IF variable = NoSymbol THEN UNCHANGED <<sections, symbols>>
              ELSE SetSize(variable, e)
           /\ UNCHANGED <<spaceVars, varVars, aligned, skewed>>
  <2>1. /\ pc \in {"declared", "values"} /\ pc' = "variables"
        /\ UNCHANGED <<source, varVars, aligned, skewed>>
    BY <1>2 DEF Step
  <2>2. CASE variable = NoSymbol
    <3>1. UNCHANGED <<sections, symbols>>
      BY <1>2, <2>2
    <3> QED
      BY <2>1, <2>2, <3>1, EndWithoutName
  <2>3. CASE variable # NoSymbol /\ Symbol(variable).size = 0
    <3>1. SetSize(variable, e)
      BY <1>2, <2>3
    <3>2. symbols' = [symbols EXCEPT ![variable].size = e] /\ UNCHANGED sections
      BY <2>3, <3>1 DEF SetSize
    <3> QED
      BY <2>1, <2>3, <3>2, EndWithSize
  <2>4. CASE variable # NoSymbol /\ Symbol(variable).size # 0
    <3>1. SetSize(variable, e) /\ e <= Symbol(variable).size
      BY <1>2, <2>4
    <3>2. /\ sections' = [sections EXCEPT ![1] = EmitBss(@, Symbol(variable).size - e)]
          /\ UNCHANGED symbols
      BY <2>4, <3>1 DEF SetSize
    <3> QED
      BY <2>1, <2>4, <3>1, <3>2, EndWithWords
  <2> QED
    BY <2>2, <2>3, <2>4
<1> QED
  BY <1>1, <1>2 DEF EndVariable

----------------------------------------------------------------------------
(* Changes of section, and alignment. *)

\* A section that .SECTION adds.
IsNew(s, S) ==
  /\ s \in Section /\ s.offset = 0 /\ s.pages = <<>> /\ s.relocs = <<>>
  /\ s.addralign \in PowersOf2 /\ \A u \in S : u.name # s.name

\* The sections are in another order, or there is one more.
LEMMA ReorderedKeeps ==
  ASSUME IInv, pc = "statement", pc' \in {"statement", "aborted", "failed"},
         UNCHANGED <<source, symbols, varVars, aligned, skewed>>,
         sections' \in Seq(Section), Unique(sections'),
         \/ Those(sections') = Those(sections)
         \/ \E s : /\ IsNew(s, Those(sections))
                   /\ Those(sections') = Those(sections) \cup {s}
  PROVE  IInv'
<1>1. TypeOK /\ SectionsOK /\ WordsOK /\ RelocsOK
  BY DEF IInv
<1>2. PICK S : S = Those(sections)
  OBVIOUS
<1>3. PICK T : T = Those(sections')
  OBVIOUS
<1>4. PICK y : y = symbols /\ y = symbols'
  OBVIOUS
<1>5. PICK A : A = aligned /\ A = aligned'
  OBVIOUS
<1>6. S = T \/ \E s : IsNew(s, S) /\ T = S \cup {s}
  BY <1>2, <1>3
<1>7. AreIn(S, y, A) /\ Wide(S, A)
  BY <1>1, <1>2, <1>4, <1>5 DEF SectionsOK
<1>8. Spread(S, y, NoSymbol, 0)
  BY <1>2, <1>4, NonePending
<1>9. \A s \in S : s.addralign \in PowersOf2
  BY <1>1, <1>2 DEF TypeOK
<1>10. /\ AreIn(T, y, A) /\ Wide(T, A) /\ Spread(T, y, NoSymbol, 0)
       /\ Counted(S) => Counted(T)
       /\ Found(S, y) => Found(T, y)
       /\ Met(S, A) => Met(T, A)
       /\ Marked(S) => Marked(T)
       /\ \A s \in T : s.addralign \in PowersOf2
  <2>1. CASE S = T
    BY <1>7, <1>8, <1>9, <2>1, Zenon
  <2>2. ASSUME NEW s, IsNew(s, S), T = S \cup {s}
        PROVE  /\ AreIn(T, y, A) /\ Wide(T, A) /\ Spread(T, y, NoSymbol, 0)
               /\ Counted(S) => Counted(T)
               /\ Found(S, y) => Found(T, y)
               /\ Met(S, A) => Met(T, A)
               /\ Marked(S) => Marked(T)
               /\ \A u \in T : u.addralign \in PowersOf2
    <3>1. /\ s \in Section /\ s.offset = 0 /\ s.pages = <<>> /\ s.relocs = <<>>
          /\ s.addralign \in PowersOf2 /\ \A u \in S : u.name # s.name
      BY <2>2 DEF IsNew
    <3>2. AreIn(S \cup {s}, y, A)
      BY <1>7, <3>1, NewKeeps
    <3>3. Wide(S \cup {s}, A)
      BY <1>7, <3>1, NewKeeps
    <3>4. Counted(S) => Counted(S \cup {s})
      BY <1>7, <3>1, NewKeeps
    <3>5. Found(S, y) => Found(S \cup {s}, y)
      BY <1>7, <3>1, NewKeeps
    <3>6. Met(S, A) => Met(S \cup {s}, A)
      BY <1>7, <3>1, NewKeeps
    <3>7. Marked(S) => Marked(S \cup {s})
      BY <1>7, <3>1, NewKeeps
    <3>8. Spread(S \cup {s}, y, NoSymbol, 0)
      BY <1>7, <1>8, <3>1, NewKeeps
    <3>9. \A u \in S \cup {s} : u.addralign \in PowersOf2
      BY <1>9, <3>1
    <3> QED
      BY <2>2, <3>2, <3>3, <3>4, <3>5, <3>6, <3>7, <3>8, <3>9, Zenon
  <2> QED
    BY <1>6, <2>1, <2>2
<1>11. TypeOK'
  <2>1. (\A s \in Those(sections) : s.addralign \in PowersOf2)'
    BY <1>3, <1>10
  <2> QED
    BY <1>1, <2>1 DEF TypeOK, Statuses, varVars
<1>12. SectionsOK'
  BY <1>3, <1>4, <1>5, <1>10 DEF SectionsOK
<1>13. WordsOK'
  BY <1>1, <1>2, <1>3, <1>4, <1>5, <1>10 DEF WordsOK
<1>14. RelocsOK'
  BY <1>1, <1>2, <1>3, <1>10 DEF RelocsOK
<1>15. Pending' = NoSymbol /\ SoFar' = 0
  BY DEF Pending, SoFar
<1>16. VariablesOK'
  <2>1. Spread(Those(sections), symbols, NoSymbol, 0)'
    BY <1>3, <1>4, <1>10
  <2> QED
    BY <1>15, <2>1 DEF VariablesOK
<1>17. BufferOK'
  BY DEF BufferOK, InBuffer
<1> QED
  BY <1>11, <1>12, <1>13, <1>14, <1>16, <1>17 DEF IInv

LEMMA ToFrontKeeps ==
  ASSUME IInv, pc = "statement", pc' \in {"statement", "aborted", "failed"},
         UNCHANGED <<source, symbols, varVars, aligned, skewed>>,
         NEW i \in DOMAIN sections, sections' = ToFront(i)
  PROVE  IInv'
<1>1. PICK q : q = sections
  OBVIOUS
<1>2. q \in Seq(Section) /\ Unique(q)
  BY <1>1 DEF IInv, TypeOK, SectionsOK
<1>3. i \in 1 .. Len(q)
  BY <1>1, <1>2
<1>4. PICK r : r = sections'
  OBVIOUS
<1>5. r = FrontOf(q, i)
  BY <1>1, <1>4, Zenon DEF ToFront, FrontOf
<1>6. r \in Seq(Section) /\ Unique(r) /\ Those(r) = Those(q)
  BY <1>2, <1>3, <1>5, FrontKeeps
<1> QED
  BY <1>1, <1>4, <1>6, ReorderedKeeps

LEMMA SameSectionsKeep ==
  ASSUME IInv, pc = "statement", pc' \in {"statement", "aborted", "failed"},
         UNCHANGED <<source, symbols, sections, varVars, aligned, skewed>>
  PROVE  IInv'
<1>1. sections' \in Seq(Section) /\ Unique(sections')
  BY DEF IInv, TypeOK, SectionsOK
<1>2. Those(sections') = Those(sections)
  OBVIOUS
<1> QED
  BY <1>1, <1>2, ReorderedKeeps

LEMMA SelectSectionKeeps ==
  ASSUME IInv, NEW name \in SectionName, NEW type \in SecType, NEW space \in Space,
         SelectSection(name, type, space)
  PROVE  IInv'
<1>1. /\ pc = "statement" /\ pc' \in {"statement", "failed"}
      /\ UNCHANGED <<source, symbols, varVars, aligned, skewed>>
  BY DEF SelectSection, Step
<1>2. CASE \E i \in DOMAIN sections : sections' = ToFront(i)
  BY <1>1, <1>2, ToFrontKeeps
<1>3. CASE /\ \A i \in DOMAIN sections : sections[i].name # name
           /\ sections' = <<NewSection(name, type, space)>> \o sections
  <2>1. PICK q : q = sections
    OBVIOUS
  <2>2. PICK r : r = sections'
    OBVIOUS
  <2>3. PICK s : s = NewSection(name, type, space)
    OBVIOUS
  <2>4. /\ s \in Section /\ s.offset = 0 /\ s.pages = <<>> /\ s.relocs = <<>>
        /\ s.addralign = 1 /\ s.name = name
    BY <2>3 DEF NewSection, Section
  <2>5. q \in Seq(Section) /\ Unique(q)
    BY <2>1 DEF IInv, TypeOK, SectionsOK
  <2>6. (\A i \in DOMAIN q : q[i].name # s.name) /\ r = <<s>> \o q
    BY <1>3, <2>1, <2>2, <2>3, <2>4
  <2>7. /\ r \in Seq(Section) /\ Unique(r) /\ Those(r) = Those(q) \cup {s}
        /\ \A u \in Those(q) : u.name # s.name
    BY <2>4, <2>5, <2>6, NewIsFirst
  <2>8. 1 \in PowersOf2
    BY ThePowers
  <2>9. IsNew(s, Those(q))
    BY <2>4, <2>7, <2>8 DEF IsNew
  <2>10. \E u : /\ IsNew(u, Those(sections))
                /\ Those(sections') = Those(sections) \cup {u}
    BY <2>1, <2>2, <2>7, <2>9, Zenon
  <2>11. sections' \in Seq(Section) /\ Unique(sections')
    BY <2>2, <2>7
  <2> HIDE <1>3
  <2> QED
    BY <1>1, <2>10, <2>11, ReorderedKeeps
<1>4. CASE UNCHANGED sections
  BY <1>1, <1>4, SameSectionsKeep
<1> QED
  BY <1>2, <1>3, <1>4 DEF SelectSection

LEMMA PreviousSectionKeeps ==
  ASSUME IInv, PreviousSection
  PROVE  IInv'
<1>1. /\ pc = "statement" /\ pc' \in {"statement", "aborted", "failed"}
      /\ UNCHANGED <<source, symbols, varVars, aligned, skewed>>
  BY DEF PreviousSection, Step
<1>2. CASE Len(sections) >= 2 /\ sections' = ToFront(2)
  <2>1. 2 \in DOMAIN sections
    BY <1>2 DEF IInv, TypeOK
  <2> QED
    BY <1>1, <1>2, <2>1, ToFrontKeeps
<1>3. CASE UNCHANGED sections
  BY <1>1, <1>3, SameSectionsKeep
<1> QED
  BY <1>2, <1>3 DEF PreviousSection

----------------------------------------------------------------------------
(* .ALIGN *)

\* Words that are looked at after .ALIGN have the same place as before it, or none.
LEMMA LostKeeps ==
  ASSUME NEW s, NEW y, y \in [DOMAIN y -> SymbolRec], NEW z, NEW d, LoseWord(s, y, z, d)
  PROVE  /\ z \in [DOMAIN z -> SymbolRec] /\ DOMAIN z = DOMAIN y /\ Redeclares(y, z)
<1> DEFINE w(n) == y[n].section = s.name /\ d > 0 /\ y[n].word = Emitted(s) + 1
<1>1. /\ DOMAIN z = DOMAIN y
      /\ \A n \in DOMAIN y : z[n] = IF w(n) THEN [y[n] EXCEPT !.word = 0] ELSE y[n]
  BY DEF LoseWord
<1> HIDE DEF w
<1>2. z = [n \in DOMAIN z |-> z[n]]
  BY DEF LoseWord
<1>3. ASSUME NEW n \in DOMAIN y
      PROVE  z[n] \in SymbolRec /\ SamePlace(z[n], y[n])
  <2>1. PICK b : b = y[n]
    OBVIOUS
  <2>2. b \in SymbolRec
    BY <2>1
  <2>3. [b EXCEPT !.word = 0] \in SymbolRec /\ SamePlace([b EXCEPT !.word = 0], b)
    BY <2>2 DEF SymbolRec, SamePlace
  <2>4. SamePlace(b, b)
    BY DEF SamePlace
  <2>5. z[n] = [b EXCEPT !.word = 0] \/ z[n] = b
    BY <1>1, <2>1, Zenon
  <2> QED
    BY <2>1, <2>2, <2>3, <2>4, <2>5, Zenon
<1>4. z \in [DOMAIN z -> SymbolRec]
  BY <1>1, <1>2, <1>3
<1> QED
  BY <1>1, <1>3, <1>4, Zenon DEF Redeclares

\* One more aligned word.
LEMMA OneMoreIs ==
  ASSUME NEW s \in Section, NEW A, A \subseteq AlignedWord, NEW w \in Nat \ {0},
         NEW by \in PowersOf2, NEW B,
         B = A \cup {[section |-> s.name, word |-> w, by |-> by]}
  PROVE  B \subseteq AlignedWord /\ OneMore(s, A, B, w, by)
<1>1. s.name \in SectionName
  BY SectionFields
<1> QED
  BY <1>1 DEF AlignedWord, OneMore

LEMMA AlignKeeps ==
  ASSUME IInv, NEW by \in Nat, Align(by)
  PROVE  IInv'
<1> DEFINE pages == FreshPage(here)
           last == Len(pages)
           delta == Skip(here.offset, PowerOf2(by))
<1>1. CASE Fails("statement")
  BY <1>1, FailsKeeps
<1>2. CASE /\ Step("statement", "statement") /\ ~ NoCode /\ by < MaxBy
           /\ sections' = [sections EXCEPT ![1] =
                [here EXCEPT !.pages = [pages EXCEPT ![last].delta = delta],
                             !.offset = @ + delta, !.addralign = Larger(@, PowerOf2(by))]]
           /\ symbols' = [n \in DOMAIN symbols |->
                IF /\ symbols[n].section = here.name /\ delta > 0
                   /\ symbols[n].word = Emitted(here) + 1
                THEN [symbols[n] EXCEPT !.word = 0] ELSE symbols[n]]
           /\ aligned' = aligned \cup {[section |-> here.name,
                                        word |-> Emitted(here) + 1, by |-> PowerOf2(by)]}
           /\ skewed' = skewed \cup (IF pages[last].delta # 0 THEN {"page"} ELSE {})
           /\ UNCHANGED <<spaceVars, varVars>>
  <2>1. /\ pc = "statement" /\ pc' = "statement" /\ ~ NoCode /\ UNCHANGED <<source, varVars>>
        /\ by < MaxBy
    BY <1>2 DEF Step
  <2>2. TypeOK /\ SectionsOK /\ WordsOK /\ RelocsOK
    BY DEF IInv
  <2>3. /\ here \in Section /\ here.addralign \in PowersOf2 /\ sections # <<>>
        /\ sections \in Seq(Section) /\ here \in Those(sections)
        /\ Those(sections) \subseteq Section
    BY <2>1, <2>2, HereIs DEF TypeOK
  <2>4. PICK a \in PowersOf2 : a = PowerOf2(by)
    <3>1. MaxBy <= 16384 /\ MaxBy \in Nat
      BY AlignmentAssumption
    <3>2. by <= 16384
      BY <2>1, <3>1
    <3> QED
      BY <3>2, PowerIsLarge
  <2>5. PICK d \in Nat : d = Skip(here.offset, a) /\ d = delta
    <3>1. here.offset \in Nat
      BY <2>3, SectionFields
    <3> QED
      BY <2>4, <3>1, SkipAligns
  <2>6. PICK t : t = AlignedTo(here, a, d)
    OBVIOUS
  <2>7. /\ t \in Section /\ t.addralign \in PowersOf2 /\ here.addralign <= t.addralign
        /\ a <= t.addralign /\ t.name = here.name /\ t.type = here.type
        /\ t.offset = here.offset + d
        /\ pages[last].delta = 0 => AlignsLast(here, t, last, d)
    BY <2>3, <2>6, AlignedSection
  <2>8. sections' = [sections EXCEPT ![1] = t]
    <3>1. sections' = [sections EXCEPT ![1] = AlignedTo(here, PowerOf2(by), delta)]
      BY <1>2 DEF AlignedTo
    <3>3. PowerOf2(by) = a /\ delta = d
      BY <2>4, <2>5
    <3> HIDE DEF delta
    <3> QED
      BY <2>6, <3>1, <3>3, Zenon
  <2>9. LoseWord(here, symbols, symbols', d)
    BY <1>2, <2>5 DEF LoseWord
  <2>10. aligned' = aligned \cup {[section |-> here.name, word |-> Emitted(here) + 1, by |-> a]}
    BY <1>2, <2>4
  <2>11. skewed' = skewed \cup (IF pages[last].delta # 0 THEN {"page"} ELSE {})
    BY <1>2
  <2> HIDE <1>2
  <2>12. PICK q : q = sections /\ q[1] = here
    BY <2>3 DEF here
  <2>13. PICK r : r = sections'
    OBVIOUS
  <2>14. PICK y : y = symbols
    OBVIOUS
  <2>15. PICK z : z = symbols'
    OBVIOUS
  <2>16. PICK A : A = aligned
    OBVIOUS
  <2>17. PICK B : B = aligned'
    OBVIOUS
  <2>18. PICK m : m = last
    OBVIOUS
  <2>19. Replaces(q, r, t) /\ Unique(q)
    BY <2>2, <2>3, <2>7, <2>8, <2>12, <2>13 DEF Replaces, SectionsOK
  <2>20. /\ y \in [DOMAIN y -> SymbolRec] /\ DOMAIN y \subseteq Name /\ A \subseteq AlignedWord
         /\ \A s \in Those(q) : s.addralign \in PowersOf2
         /\ AreIn(Those(q), y, A) /\ Wide(Those(q), A) /\ LoseWord(q[1], y, z, d)
         /\ q[1] \in Those(q) /\ q[1] \in Section /\ Those(q) \subseteq Section
    BY <2>2, <2>3, <2>9, <2>12, <2>14, <2>15, <2>16 DEF TypeOK, SectionsOK
  <2>21. z \in [DOMAIN z -> SymbolRec] /\ DOMAIN z = DOMAIN y /\ Redeclares(y, z)
    BY <2>20, LostKeeps
  <2>22. B \subseteq AlignedWord /\ OneMore(q[1], A, B, Emitted(q[1]) + 1, a)
    <3>1. PICK w \in Nat \ {0} : w = Emitted(q[1]) + 1
      BY <2>20, SectionFields
    <3>2. B = A \cup {[section |-> q[1].name, word |-> w, by |-> a]}
      BY <2>10, <2>12, <2>16, <2>17, <3>1
    <3>3. B \subseteq AlignedWord /\ OneMore(q[1], A, B, w, a)
      BY <2>4, <2>20, <3>1, <3>2, OneMoreIs
    <3> QED
      BY <3>1, <3>3
  <2>23. AreIn(Those(r), z, B)
    <3>1. AreIn(Those(q), y, B)
      BY <2>20, <2>22, OneMoreIsIn
    <3>2. AreIn(Those(r), y, B)
      BY <2>19, <3>1, ReplacedAreIn
    <3>3. Those(r) \subseteq Section
      BY <2>19, Replaced DEF Replaces
    <3> QED
      BY <2>21, <3>2, <3>3, RedeclaredKeeps
  <2>24. Wide(Those(r), B)
    BY <2>7, <2>12, <2>19, <2>20, <2>22, OneMoreIsWide
  <2>25. /\ r \in Seq(Section) /\ r # <<>> /\ Unique(r) /\ Those(r) \subseteq Section
         /\ \A s \in Those(r) : s.addralign \in PowersOf2
    <3>1. /\ r \in Seq(Section) /\ r # <<>> /\ Unique(r)
          /\ \A u \in Those(r) : u = t \/ u \in Those(q)
      BY <2>19, Replaced, Zenon
    <3>2. Those(r) \subseteq Section
      BY <2>7, <2>20, <3>1
    <3>3. \A s \in Those(r) : s.addralign \in PowersOf2
      BY <2>7, <2>20, <3>1
    <3> QED
      BY <3>1, <3>2, <3>3
  <2>26. Spread(Those(r), z, NoSymbol, 0)
    <3>1. Spread(Those(q), y, NoSymbol, 0)
      BY <2>1, <2>12, <2>14, NonePending
    <3>2. NoSymbol \notin DOMAIN y
      BY <2>20, SpaceAssumption
    <3>3. t.offset = q[1].offset + d
      BY <2>7, <2>12
    <3>4. Spread(Those(r), y, NoSymbol, 0 + d)
      BY <2>5, <2>19, <2>20, <3>1, <3>2, <3>3, ExtendedIsSpread
    <3>5. Spread(Those(r), y, NoSymbol, 0)
      BY <2>20, <3>4, NonePends
    <3> QED
      BY <2>21, <2>25, <3>5, RedeclaredKeeps
  <2>27. "page" \notin skewed' => "page" \notin skewed /\ AlignsLast(q[1], t, m, d)
    BY <2>7, <2>11, <2>12, <2>18
  <2>28. TypeOK'
    <3>1. B \subseteq AlignedWord
      BY <2>22
    <3>2. (\A s \in Those(sections) : s.addralign \in PowersOf2)'
      BY <2>13, <2>25
    <3>3. (symbols \in [DOMAIN symbols -> SymbolRec] /\ DOMAIN symbols \subseteq Name)'
      BY <2>15, <2>20, <2>21
    <3>4. (sections \in Seq(Section) /\ aligned \subseteq AlignedWord)'
      BY <2>13, <2>17, <2>25, <3>1
    <3>5. UNCHANGED <<source, varVars>> /\ pc' \in Statuses
      BY <2>1 DEF Statuses
    <3> QED
      BY <2>2, <3>2, <3>3, <3>4, <3>5 DEF TypeOK, varVars
  <2>29. SectionsOK'
    BY <2>13, <2>15, <2>17, <2>23, <2>24, <2>25 DEF SectionsOK
  <2>30. WordsOK'
    <3>1. ASSUME "page" \notin skewed'
          PROVE  Counted(Those(r)) /\ Found(Those(r), z) /\ Met(Those(r), B)
      <4>1. Counted(Those(q)) /\ Found(Those(q), y) /\ Met(Those(q), A)
        BY <2>2, <2>12, <2>14, <2>16, <2>27, <3>1 DEF WordsOK
      <4>2. d = Skip(q[1].offset, a)
        BY <2>5, <2>12
      <4>3. PICK s : s = q[1]
        OBVIOUS
      <4>4. AlignsTo(q, r, t, y, z, a, m, d, A, B)
        BY <2>4, <2>19, <2>20, <2>22, <2>27, <3>1, <4>2, <4>3 DEF AlignsTo
      <4> HIDE <1>2
      <4> QED
        BY <4>1, <4>4, AlignedIsFound, Zenon
    <3> QED
      BY <2>13, <2>15, <2>17, <3>1 DEF WordsOK
  <2>31. RelocsOK'
    <3>1. ASSUME skewed' = {}
          PROVE  Marked(Those(r))
      <4>1. "page" \notin skewed' /\ skewed = {}
        BY <2>11, <3>1
      <4>2. Marked(Those(q))
        BY <2>2, <2>12, <4>1 DEF RelocsOK
      <4> QED
        BY <2>5, <2>19, <2>27, <4>1, <4>2, AlignedIsMarked
    <3> QED
      BY <2>13, <3>1 DEF RelocsOK
  <2>32. Pending' = NoSymbol /\ SoFar' = 0
    BY <2>1 DEF Pending, SoFar
  <2>33. VariablesOK'
    <3>1. Spread(Those(sections), symbols, NoSymbol, 0)'
      BY <2>13, <2>15, <2>26
    <3> QED
      BY <2>32, <3>1 DEF VariablesOK
  <2>34. BufferOK'
    BY <2>1 DEF BufferOK, InBuffer
  <2> QED
    BY <2>28, <2>29, <2>30, <2>31, <2>33, <2>34 DEF IInv
<1> QED
  BY <1>1, <1>2 DEF Align

----------------------------------------------------------------------------
(* The beginning of .VAR *)

\* The variables of a section end before a circular buffer that begins after them.
LEMMA FreshIsAside ==
  ASSUME NEW S, NEW s \in S, NEW t, t.name = s.name, NEW y, DOMAIN y \subseteq Name, NEW al,
         al.offset = s.offset, NEW k, Spread(S, y, NoSymbol, k)
  PROVE  Aside(t, al, y, NoSymbol)
<1>1. \A n \in DOMAIN y : n # NoSymbol
  BY SpaceAssumption
<1>2. ASSUME NEW n \in DOMAIN y, y[n].section = t.name
      PROVE  y[n].value + y[n].size <= al.offset
  <2>1. y[n].value + y[n].size <= s.offset
    BY <1>1, <1>2, Zenon DEF Spread
  <2> QED
    BY <2>1
<1> QED
  BY <1>1, <1>2, Zenon DEF Aside

LEMMA BeginPlainKeeps ==
  ASSUME IInv, NEW quals, quals \subseteq {"INIT24"}, pc = "statement", pc' = "qualified",
         qualifiers' = quals, variable' = NoSymbol, length' = 0,
         UNCHANGED <<source, sections, symbols, alignment, aligned, skewed>>
  PROVE  IInv'
<1>1. TypeOK'
  BY DEF IInv, TypeOK, Statuses
<1>2. SectionsOK' /\ WordsOK' /\ RelocsOK'
  BY SameFile
<1>3. Pending' = NoSymbol /\ SoFar' = 0
  BY DEF Pending, SoFar
<1>4. VariablesOK'
  <2>1. Spread(Those(sections), symbols, NoSymbol, 0)
    BY NonePending
  <2>2. Spread(Those(sections), symbols, NoSymbol, 0)'
    BY <2>1
  <2> QED
    BY <1>3, <2>2 DEF VariablesOK
<1>5. BufferOK'
  BY DEF BufferOK, InBuffer
<1> QED
  BY <1>1, <1>2, <1>4, <1>5 DEF IInv

LEMMA BeginBufferKeeps ==
  ASSUME IInv, NEW quals, quals \subseteq {"CIRC", "INIT24"}, pc = "statement",
         pc' = "qualified", qualifiers' = quals, variable' = NoSymbol, length' = 0, ~ NoCode,
         sections' = [sections EXCEPT ![1].pages = FreshPage(here)],
         alignment' = [page |-> Len(FreshPage(here)), offset |-> here.offset,
                       reloc |-> Len(here.relocs)],
         UNCHANGED <<source, symbols, aligned, skewed>>
  PROVE  IInv'
<1>1. TypeOK /\ SectionsOK /\ WordsOK /\ RelocsOK
  BY DEF IInv
<1>2. /\ here \in Section /\ here \in Those(sections) /\ sections[1] = here
      /\ sections # <<>> /\ Those(sections) \subseteq Section /\ sections \in Seq(Section)
  BY <1>1, HereIs DEF TypeOK
<1>3. PICK t : t = [here EXCEPT !.pages = FreshPage(here)]
  OBVIOUS
<1>4. /\ t \in Section /\ t.addralign = here.addralign /\ t.name = here.name
      /\ t.relocs = here.relocs /\ AlignsLast(here, t, Len(FreshPage(here)), 0)
  BY <1>2, <1>3, FreshSection
<1>5. sections' = [sections EXCEPT ![1] = t]
  BY <1>2, <1>3
<1>6. PICK al : al = alignment'
  OBVIOUS
<1>7. al = [page |-> Len(FreshPage(here)), offset |-> here.offset, reloc |-> Len(here.relocs)]
  BY <1>6
<1>8. PICK q : q = sections /\ q[1] = here
  BY <1>2
<1>9. PICK r : r = sections'
  OBVIOUS
<1>10. PICK y : y = symbols /\ y = symbols'
  OBVIOUS
<1>11. PICK A : A = aligned /\ A = aligned'
  OBVIOUS
<1>12. PICK m : m = Len(FreshPage(here))
  OBVIOUS
<1>13. PICK s \in Section : s = here
  BY <1>2
<1>14. /\ AlignsLast(s, t, m, 0) /\ A \subseteq AlignedWord /\ t.addralign = s.addralign
       /\ al = [page |-> m, offset |-> s.offset, reloc |-> Len(s.relocs)]
       /\ t.name = s.name /\ t.relocs = s.relocs /\ s = q[1]
       /\ y \in [DOMAIN y -> SymbolRec] /\ DOMAIN y \subseteq Name /\ Unique(q)
  BY <1>1, <1>4, <1>7, <1>8, <1>10, <1>11, <1>12, <1>13 DEF TypeOK, SectionsOK
<1>15. /\ Extends(s, t, 0) /\ Begun(t, al)
       /\ /\ HasData(s) /\ Counts(s)
          /\ \A a \in A : a.section = s.name => IsMultiple(s, a.word, a.by)
          => BegunAt(t, al, A)
       /\ (\A i \in DOMAIN s.relocs : Marks(s, s.relocs[i])) => RelocsBefore(t, al)
  <2>1. t.addralign = s.addralign => Extends(s, t, 0)
    BY <1>14, FreshBegins
  <2>2. Begun(t, al)
    BY <1>14, FreshBegins
  <2>3. /\ HasData(s) /\ Counts(s)
        /\ \A a \in A : a.section = s.name => IsMultiple(s, a.word, a.by)
        => BegunAt(t, al, A)
    BY <1>14, FreshBegins
  <2>4. (\A i \in DOMAIN s.relocs : Marks(s, s.relocs[i])) => RelocsBefore(t, al)
    BY <1>14, FreshBegins
  <2> QED
    BY <1>14, <2>1, <2>2, <2>3, <2>4
<1>16. Lengthens(q, r, t, y, y, 0)
  <2>1. Replaces(q, r, t)
    BY <1>2, <1>4, <1>5, <1>8, <1>9 DEF Replaces
  <2>2. Redeclares(y, y)
    BY Zenon DEF Redeclares, SamePlace
  <2> QED
    BY <1>14, <1>15, <2>1, <2>2, Zenon DEF Lengthens, KeepsRelocs
<1>17. Lengthens(sections, sections', t, symbols, symbols', 0)
  BY <1>8, <1>9, <1>10, <1>16
<1>18. /\ sections' \in Seq(Section)
       /\ (\A u \in Those(sections) : u.addralign \in PowersOf2)'
       /\ SectionsOK' /\ WordsOK' /\ RelocsOK' /\ ~ NoCode'
  <2>1. symbols' \in [DOMAIN symbols' -> SymbolRec] /\ DOMAIN symbols' \subseteq Name
    BY <1>10, <1>14
  <2>2. UNCHANGED <<aligned, skewed>> /\ 0 \in Nat
    OBVIOUS
  <2> QED
    BY <1>17, <2>1, <2>2, LengtheningKeeps
<1>19. here' = t
  BY <1>2, <1>5, <1>8 DEF here
<1>20. TypeOK'
  <2>1. alignment' \in [page : Nat, offset : Nat, reloc : Nat]
    <3>1. m \in Nat /\ s.offset \in Nat /\ Len(s.relocs) \in Nat
      <4>1. m \in Nat
        BY <1>14 DEF AlignsLast
      <4> QED
        BY <4>1, SectionFields
    <3> QED
      BY <1>6, <1>14, <3>1
  <2> QED
    BY <1>1, <1>18, <2>1 DEF TypeOK, Statuses
<1>21. Pending' = NoSymbol /\ SoFar' = 0
  BY DEF Pending, SoFar
<1>22. Spread(Those(q), y, NoSymbol, 0)
  BY <1>8, <1>10, NonePending
<1>23. VariablesOK'
  <2>1. NoSymbol \notin DOMAIN y
    BY <1>14, SpaceAssumption
  <2>2. Spread(Those(r), y, NoSymbol, 0 + 0)
    BY <1>14, <1>16, <1>22, <2>1, LengthenedIsSpread
  <2>3. Spread(Those(sections), symbols, NoSymbol, 0)'
    BY <1>9, <1>10, <2>2
  <2> QED
    BY <1>21, <2>3 DEF VariablesOK
<1>24. BufferOK'
  <2>1. Begun(here, alignment)'
    BY <1>6, <1>15, <1>19
  <2>2. Aside(here, alignment, symbols, Pending)'
    <3>1. s \in Those(q) /\ al.offset = s.offset
      BY <1>2, <1>8, <1>13, <1>14
    <3>2. Aside(t, al, y, NoSymbol)
      BY <1>14, <1>22, <3>1, FreshIsAside
    <3> QED
      BY <1>6, <1>10, <1>19, <1>21, <3>2
  <2>3. HasData(t) => HasData(s)
    BY <1>14 DEF HasData, AlignsLast
  <2>4. ("page" \notin skewed /\ HasData(here) => BegunAt(here, alignment, aligned))'
    <3>1. ASSUME "page" \notin skewed, HasData(t)
          PROVE  BegunAt(t, al, A)
      <4>1. Counted(Those(sections)) /\ Met(Those(sections), aligned)
        BY <1>1, <3>1 DEF WordsOK
      <4>2. s \in Those(sections)
        BY <1>2, <1>13
      <4>3. Counts(s) /\ \A a \in A : a.section = s.name => IsMultiple(s, a.word, a.by)
        BY <1>11, <2>3, <3>1, <4>1, <4>2 DEF Counted, Met
      <4> QED
        BY <1>15, <2>3, <3>1, <4>3, Zenon
    <3> QED
      BY <1>6, <1>11, <1>19, <3>1
  <2>5. (skewed = {} /\ HasData(here) => RelocsBefore(here, alignment))'
    <3>1. ASSUME skewed = {}, HasData(t)
          PROVE  RelocsBefore(t, al)
      <4>1. Marked(Those(sections)) /\ s \in Those(sections)
        BY <1>1, <1>2, <1>13, <3>1 DEF RelocsOK
      <4>2. \A i \in DOMAIN s.relocs : Marks(s, s.relocs[i])
        BY <2>3, <3>1, <4>1, Zenon DEF Marked
      <4> QED
        BY <1>15, <4>2, Zenon
    <3> QED
      BY <1>6, <1>19, <3>1
  <2> QED
    BY <1>18, <2>1, <2>2, <2>4, <2>5 DEF BufferOK
<1> QED
  BY <1>18, <1>20, <1>23, <1>24 DEF IInv

LEMMA BeginVarKeeps ==
  ASSUME IInv, NEW quals, quals \subseteq {"CIRC", "INIT24"}, BeginVar(quals)
  PROVE  IInv'
<1>1. CASE Fails("statement")
  BY <1>1, FailsKeeps
<1>2. CASE ~ Fails("statement")
  <2>1. /\ pc = "statement" /\ pc' = "qualified" /\ ("CIRC" \in quals => ~ NoCode)
        /\ qualifiers' = quals /\ variable' = NoSymbol /\ length' = 0
        /\ UNCHANGED <<source, symbols, aligned, skewed>>
        /\ IF "CIRC" \in quals
           THEN /\ sections' = [sections EXCEPT ![1].pages = FreshPage(here)]
                /\ alignment' = [page |-> Len(FreshPage(here)), offset |-> here.offset,
                                 reloc |-> Len(here.relocs)]
           ELSE UNCHANGED <<sections, alignment>>
    BY <1>2, Zenon DEF BeginVar, Step
  <2>2. CASE "CIRC" \in quals
    BY <2>1, <2>2, BeginBufferKeeps
  <2>3. CASE "CIRC" \notin quals
    <3>1. quals \subseteq {"INIT24"}
      BY <2>3
    <3> QED
      BY <2>1, <2>3, <3>1, BeginPlainKeeps
  <2> QED
    BY <2>2, <2>3
<1> QED
  BY <1>1, <1>2

----------------------------------------------------------------------------
(* The end of .VAR *)

LEMMA EndPlainKeeps ==
  ASSUME IInv, pc = "variables", pc' = "statement", qualifiers' = {},
         UNCHANGED <<source, sections, symbols, alignment, variable, length, aligned, skewed>>
  PROVE  IInv'
<1>1. TypeOK'
  BY DEF IInv, TypeOK, Statuses
<1>2. SectionsOK' /\ WordsOK' /\ RelocsOK'
  BY SameFile
<1>3. VariablesOK'
  <2>1. \A k : Spread(Those(sections), symbols, NoSymbol, k)
    BY NonePending
  <2> QED
    BY <2>1, QuietKeeps
<1>4. BufferOK'
  BY DEF BufferOK, InBuffer
<1> QED
  BY <1>1, <1>2, <1>3, <1>4 DEF IInv

LEMMA EndBufferKeeps ==
  ASSUME IInv, pc = "variables", pc' = "statement", "CIRC" \in qualifiers, qualifiers' = {},
         NEW by, by = PowerOf2(here.offset - alignment.offset),
         here.offset - alignment.offset < MaxBy,
         NEW d, d = Skip(alignment.offset, by),
         sections' = [sections EXCEPT ![1] = EndedTo(here, alignment, by, d)],
         MoveSymbols(here, symbols, symbols', alignment, d),
         aligned' = aligned \cup {[section |-> here.name, by |-> by,
                                   word |-> Before(here, alignment) + 1]},
         skewed' = skewed
                     \cup (IF here.pages[alignment.page].delta # 0 /\ d # 0
                           THEN {"page"} ELSE {})
                     \cup (IF Len(here.relocs) > alignment.reloc /\ d # 0
                           THEN {"relocation"} ELSE {}),
         UNCHANGED <<source, alignment, variable, length>>
  PROVE  IInv'
<1>1. TypeOK /\ SectionsOK /\ WordsOK /\ RelocsOK
  BY DEF IInv
<1>2. /\ ~ NoCode /\ Begun(here, alignment) /\ Aside(here, alignment, symbols, NoSymbol)
      /\ "page" \notin skewed /\ HasData(here) => BegunAt(here, alignment, aligned)
      /\ skewed = {} /\ HasData(here) => RelocsBefore(here, alignment)
  <2>1. InBuffer
    BY DEF InBuffer
  <2>2. Pending = NoSymbol
    BY NonePending
  <2> QED
    BY <2>1, <2>2 DEF IInv, BufferOK
<1>3. /\ here \in Section /\ here \in Those(sections) /\ sections[1] = here
      /\ sections # <<>> /\ Those(sections) \subseteq Section /\ sections \in Seq(Section)
      /\ here.addralign \in PowersOf2
  BY <1>1, <1>2, HereIs DEF TypeOK
<1>4. PICK al \in [page : Nat, offset : Nat, reloc : Nat] : al = alignment /\ al = alignment'
  BY <1>1 DEF TypeOK
<1>5. PICK s \in Section : s = here
  BY <1>3
<1>6. /\ s.addralign \in PowersOf2 /\ Begun(s, al) /\ Aside(s, al, symbols, NoSymbol)
      /\ "page" \notin skewed /\ HasData(s) => BegunAt(s, al, aligned)
      /\ skewed = {} /\ HasData(s) => RelocsBefore(s, al)
  BY <1>2, <1>3, <1>4, <1>5
<1>7. PICK a \in PowersOf2 : a = by
  <2>1. PICK x : x = s.offset - al.offset
    OBVIOUS
  <2>2. s.offset \in Nat /\ al.offset \in Nat /\ al.offset <= s.offset
    BY <1>6, SectionFields DEF Begun
  <2>3. x \in Nat
    BY <2>1, <2>2
  <2>4. x < MaxBy /\ by = PowerOf2(x)
    BY <1>4, <1>5, <2>1
  <2>5. x <= 16384
    BY <2>3, <2>4, AlignmentAssumption
  <2> QED
    BY <2>3, <2>4, <2>5, PowerIsLarge
<1>8. PICK e \in Nat : e = d /\ e = Skip(al.offset, a)
  BY <1>4, <1>7, SkipAligns
<1>9. PICK t : t = EndedTo(s, al, a, e)
  OBVIOUS
<1>10. /\ t \in Section /\ t.addralign \in PowersOf2 /\ s.addralign <= t.addralign
       /\ a <= t.addralign /\ t.name = s.name /\ t.type = s.type /\ t.space = s.space
       /\ t.offset = s.offset + e /\ t.relocs = RelocsMoved(s, al, e)
       /\ s.pages[al.page].delta = 0 \/ e = 0 => AlignsPage(s, t, al.page, e)
  <2>1. /\ t \in Section /\ t.addralign \in PowersOf2 /\ s.addralign <= t.addralign
        /\ a <= t.addralign /\ t.name = s.name /\ t.type = s.type /\ t.space = s.space
        /\ t.offset = s.offset + e /\ t.relocs = RelocsMoved(s, al, e)
    BY <1>4, <1>5, <1>6, <1>7, <1>8, <1>9, EndedSection
  <2>2. s.pages[al.page].delta = 0 \/ e = 0 => AlignsPage(s, t, al.page, e)
    BY <1>4, <1>5, <1>6, <1>7, <1>8, <1>9, EndedSection
  <2> QED
    BY <2>1, <2>2
<1>11. PICK q : q = sections /\ q[1] = s
  BY <1>3, <1>5
<1>12. PICK r : r = sections'
  OBVIOUS
<1>13. PICK y : y = symbols
  OBVIOUS
<1>14. PICK z : z = symbols'
  OBVIOUS
<1>15. PICK A : A = aligned
  OBVIOUS
<1>16. PICK B : B = aligned'
  OBVIOUS
<1>17. Replaces(q, r, t)
  <2>1. r = [q EXCEPT ![1] = t]
    BY <1>4, <1>5, <1>7, <1>8, <1>9, <1>11, <1>12, Zenon
  <2> QED
    BY <1>3, <1>10, <1>11, <2>1 DEF Replaces
<1>18. MoveSymbols(s, y, z, al, e)
  BY <1>4, <1>5, <1>8, <1>13, <1>14, Zenon
<1>19. /\ y \in [DOMAIN y -> SymbolRec] /\ DOMAIN y \subseteq Name /\ A \subseteq AlignedWord
       /\ \A u \in Those(q) : u.addralign \in PowersOf2
       /\ Unique(q) /\ AreIn(Those(q), y, A) /\ Wide(Those(q), A)
       /\ s \in Those(q) /\ Those(q) \subseteq Section
  BY <1>1, <1>3, <1>5, <1>11, <1>13, <1>15 DEF TypeOK, SectionsOK
<1>20. z \in [DOMAIN z -> SymbolRec] /\ DOMAIN z = DOMAIN y
  BY <1>18, <1>19, SymbolsMove
<1>21. B \subseteq AlignedWord /\ OneMore(s, A, B, Before(s, al) + 1, a)
  <2>1. PICK w \in Nat \ {0} : w = Before(s, al) + 1
    <3>1. al.page \in 1 .. Len(s.pages)
      BY <1>6 DEF Begun
    <3>2. Before(s, al) \in Nat
      BY <3>1, PageDivides DEF Before
    <3> QED
      BY <3>2
  <2>2. B = A \cup {[section |-> s.name, word |-> w, by |-> a]}
    BY <1>4, <1>5, <1>7, <1>15, <1>16, <2>1
  <2>3. B \subseteq AlignedWord /\ OneMore(s, A, B, w, a)
    BY <1>7, <1>19, <2>1, <2>2, OneMoreIs
  <2> QED
    BY <2>1, <2>3
<1>22. "page" \notin skewed' => "page" \notin skewed /\ AlignsPage(s, t, al.page, e)
  <2>1. "page" \notin skewed' =>
          "page" \notin skewed /\ (here.pages[alignment.page].delta = 0 \/ d = 0)
    OBVIOUS
  <2> QED
    BY <1>4, <1>5, <1>8, <1>10, <2>1
<1>23. skewed' = {} => skewed = {} /\ "page" \notin skewed' /\ (e = 0 \/ Len(s.relocs) <= al.reloc)
  <2>1. skewed' = {} =>
          skewed = {} /\ (~ (Len(here.relocs) > alignment.reloc) \/ d = 0)
    OBVIOUS
  <2>2. Len(s.relocs) \in Nat /\ al.reloc \in Nat
    BY SectionFields
  <2>3. ~ (Len(s.relocs) > al.reloc) => Len(s.relocs) <= al.reloc
    BY <2>2
  <2> QED
    BY <1>4, <1>5, <1>8, <2>1, <2>3
<1>24. UNCHANGED <<source, alignment, variable, length>> /\ qualifiers' = {} /\ pc' = "statement"
  OBVIOUS
<1>25. AreIn(Those(r), z, B)
  <2>1. AreIn(Those(q), z, A)
    BY <1>18, <1>19, MovedAreIn
  <2>2. AreIn(Those(q), z, B)
    BY <1>19, <1>21, <2>1, OneMoreIsIn
  <2> QED
    BY <1>17, <1>19, <2>2, ReplacedAreIn
<1>26. Wide(Those(r), B)
  BY <1>10, <1>11, <1>17, <1>19, <1>21, OneMoreIsWide
<1>27. /\ r \in Seq(Section) /\ Unique(r) /\ \A u \in Those(r) : u.addralign \in PowersOf2
  <2>1. /\ r \in Seq(Section) /\ Unique(r)
        /\ \A u \in Those(r) : u = t \/ u \in Those(q)
    BY <1>17, <1>19, Replaced, Zenon
  <2> QED
    BY <1>10, <1>19, <2>1
<1>28. Spread(Those(r), z, NoSymbol, 0)
  <2>1. Spread(Those(q), y, NoSymbol, 0)
    BY <1>11, <1>13, NonePending
  <2>2. Aside(q[1], al, y, NoSymbol) /\ MoveSymbols(q[1], y, z, al, e)
        /\ t.offset = q[1].offset + e
    BY <1>6, <1>10, <1>11, <1>13, <1>18
  <2> QED
    BY <1>4, <1>8, <1>17, <1>19, <2>1, <2>2, BufferIsSpread
<1>29. WordsOK'
  <2>1. ASSUME "page" \notin skewed'
        PROVE  Counted(Those(r)) /\ Found(Those(r), z) /\ Met(Those(r), B)
    <3>1. Counted(Those(q)) /\ Found(Those(q), y) /\ Met(Those(q), A)
      BY <1>1, <1>11, <1>13, <1>15, <1>22, <2>1 DEF WordsOK
    <3>2. HasData(s) => BegunAt(s, al, A)
      BY <1>6, <1>15, <1>22, <2>1
    <3>3. AlignsPage(s, t, al.page, e)
      BY <1>22, <2>1
    <3>4. EndsTo(q, r, t, y, z, a, al, e, A, B)
      BY <1>4, <1>6, <1>7, <1>8, <1>10, <1>11, <1>17, <1>18, <1>19, <1>21, <3>2, <3>3, Zenon
         DEF EndsTo
    <3> QED
      BY <3>1, <3>4, BufferIsFound, Zenon
  <2> QED
    BY <1>12, <1>14, <1>16, <2>1 DEF WordsOK
<1>30. RelocsOK'
  <2>1. ASSUME skewed' = {}
        PROVE  Marked(Those(r))
    <3>1. Marked(Those(q))
      BY <1>1, <1>11, <1>23, <2>1 DEF RelocsOK
    <3>2. /\ AlignsPage(q[1], t, al.page, e) /\ t.type = q[1].type /\ t.space = q[1].space
          /\ t.relocs = RelocsMoved(q[1], al, e) /\ Begun(q[1], al)
      BY <1>6, <1>10, <1>11, <1>22, <1>23, <2>1
    <3>3. e = 0 \/ (Len(q[1].relocs) <= al.reloc /\ (HasData(q[1]) => RelocsBefore(q[1], al)))
      BY <1>6, <1>11, <1>23, <2>1
    <3> QED
      BY <1>4, <1>8, <1>17, <1>19, <3>1, <3>2, <3>3, BufferIsMarked
  <2> QED
    BY <1>12, <2>1 DEF RelocsOK
<1>31. TypeOK'
  <2>1. (sections \in Seq(Section) /\ \A u \in Those(sections) : u.addralign \in PowersOf2)'
    BY <1>12, <1>27
  <2>2. (symbols \in [DOMAIN symbols -> SymbolRec] /\ DOMAIN symbols \subseteq Name)'
    BY <1>14, <1>19, <1>20
  <2>3. (aligned \subseteq AlignedWord)'
    BY <1>16, <1>21
  <2> QED
    BY <1>1, <1>24, <2>1, <2>2, <2>3 DEF TypeOK, Statuses
<1>32. SectionsOK'
  BY <1>12, <1>14, <1>16, <1>25, <1>26, <1>27 DEF SectionsOK
<1>33. VariablesOK'
  <2>1. Pending' = NoSymbol /\ SoFar' = 0
    BY <1>24 DEF Pending, SoFar
  <2>2. Spread(Those(sections), symbols, NoSymbol, 0)'
    BY <1>12, <1>14, <1>28
  <2> QED
    BY <2>1, <2>2 DEF VariablesOK
<1>34. BufferOK'
  BY <1>24 DEF BufferOK, InBuffer
<1> QED
  BY <1>29, <1>30, <1>31, <1>32, <1>33, <1>34 DEF IInv

LEMMA EndVarKeeps ==
  ASSUME IInv, EndVar
  PROVE  IInv'
<1> DEFINE extent == here.offset - alignment.offset
           by == PowerOf2(extent)
           d == Skip(alignment.offset, by)
<1>1. CASE Fails("variables")
  BY <1>1, FailsKeeps
<1>2. CASE ~ Fails("variables") /\ "CIRC" \notin qualifiers
  <2>1. /\ pc = "variables" /\ pc' = "statement" /\ qualifiers' = {}
        /\ UNCHANGED <<source, sections, symbols, alignment, variable, length, aligned, skewed>>
    BY <1>2, Zenon DEF EndVar, Step
  <2> QED
    BY <2>1, EndPlainKeeps
<1>3. CASE ~ Fails("variables") /\ "CIRC" \in qualifiers
  <2>1. /\ pc = "variables" /\ pc' = "statement" /\ qualifiers' = {} /\ extent < MaxBy
        /\ UNCHANGED <<source, alignment, variable, length>>
    BY <1>3, Zenon DEF EndVar, Step
  <2>2. /\ sections' = [sections EXCEPT ![1] =
             [here EXCEPT !.pages[alignment.page].delta = Larger(@, d), !.offset = @ + d,
                          !.addralign = Larger(@, by), !.relocs = MovedRelocations(d)]]
        /\ symbols' = MovedSymbols(d)
        /\ aligned' = aligned \cup {[section |-> here.name, by |-> by,
             word |-> WordsUpTo(here, alignment.page - 1) + 1]}
        /\ skewed' = skewed
             \cup (IF here.pages[alignment.page].delta # 0 /\ d # 0 THEN {"page"} ELSE {})
             \cup (IF Len(here.relocs) > alignment.reloc /\ d # 0
                   THEN {"relocation"} ELSE {})
    BY <1>3 DEF EndVar
  <2>3. MovedRelocations(d) = RelocsMoved(here, alignment, d)
    BY Zenon DEF MovedRelocations, RelocsMoved
  <2>4. sections' = [sections EXCEPT ![1] = EndedTo(here, alignment, by, d)]
    BY <2>2, <2>3 DEF EndedTo
  <2>5. MoveSymbols(here, symbols, symbols', alignment, d)
    BY <2>2, Zenon DEF MovedSymbols, MoveSymbols
  <2>6. aligned' = aligned \cup {[section |-> here.name, by |-> by,
                                  word |-> Before(here, alignment) + 1]}
    BY <2>2, Zenon DEF Before
  <2>7. skewed' = skewed
             \cup (IF here.pages[alignment.page].delta # 0 /\ d # 0 THEN {"page"} ELSE {})
             \cup (IF Len(here.relocs) > alignment.reloc /\ d # 0
                   THEN {"relocation"} ELSE {})
    BY <2>2
  <2> QED
    BY <1>3, <2>1, <2>4, <2>5, <2>6, <2>7, EndBufferKeeps
<1> QED
  BY <1>1, <1>2, <1>3

----------------------------------------------------------------------------
(* Every step. *)

LEMMA InitHolds ==
  ASSUME Init
  PROVE  IInv
<1>1. DOMAIN symbols = {} /\ symbols = [n \in {} |-> NewSymbol]
  BY DEF Init
<1>2. Those(sections) = {} /\ sections \in Seq(Section)
  BY NothingIn DEF Init
<1>3. TypeOK
  <2>1. symbols \in [DOMAIN symbols -> SymbolRec]
    BY <1>1
  <2>2. alignment \in [page : Nat, offset : Nat, reloc : Nat]
    BY DEF Init
  <2> QED
    BY <1>1, <1>2, <2>1, <2>2 DEF TypeOK, Init, Statuses
<1>4. SectionsOK
  <2>1. Unique(sections)
    BY DEF Init, Unique
  <2> QED
    BY <1>1, <1>2, <2>1 DEF SectionsOK, AreIn, Wide, Init
<1>5. WordsOK /\ RelocsOK
  BY <1>2 DEF WordsOK, RelocsOK, Counted, Found, Met, Marked
<1>6. VariablesOK
  <2>1. Spread(Those(sections), symbols, NoSymbol, 0)
    BY <1>1, <1>2 DEF Spread
  <2>2. Pending = NoSymbol /\ SoFar = 0
    BY DEF Pending, SoFar, Init
  <2> QED
    BY <2>1, <2>2 DEF VariablesOK
<1>7. BufferOK
  BY DEF BufferOK, InBuffer, Init
<1> QED
  BY <1>3, <1>4, <1>5, <1>6, <1>7 DEF IInv

LEMMA NextKeeps ==
  ASSUME IInv, Next
  PROVE  IInv'
<1>1. /\ source.names \subseteq Name /\ source.scopes \subseteq {"EXTERN", "GLOBAL"}
      /\ source.sections \subseteq SectionName \X SecType \X Space
      /\ source.sizes \subseteq Nat /\ source.alignments \subseteq Nat
      /\ source.qualifiers \subseteq {"CIRC", "INIT24"}
  BY SourceIs
<1>2. CASE \E n \in source.names : Label(n)
  BY <1>1, <1>2, LabelKeeps
<1>3. CASE \E n \in source.names, scope \in source.scopes : Declare(n, scope)
  BY <1>1, <1>3, DeclareKeeps
<1>4. CASE \E n \in source.names \cup {NoSymbol} : Operation(n) \/ InitialValue(n)
  <2>1. PICK n \in Name \cup {NoSymbol} : Operation(n) \/ InitialValue(n)
    BY <1>1, <1>4
  <2> QED
    BY <2>1, OperationKeeps, InitialValueKeeps
<1>5. CASE \E s \in source.sections : SelectSection(s[1], s[2], s[3])
  <2>1. PICK s \in SectionName \X SecType \X Space : SelectSection(s[1], s[2], s[3])
    BY <1>1, <1>5
  <2>2. s[1] \in SectionName /\ s[2] \in SecType /\ s[3] \in Space
    BY <2>1
  <2> QED
    BY <2>1, <2>2, SelectSectionKeeps
<1>6. CASE PreviousSection
  BY <1>6, PreviousSectionKeeps
<1>7. CASE \E by \in source.alignments : Align(by)
  BY <1>1, <1>7, AlignKeeps
<1>8. CASE \E q \in SUBSET source.qualifiers : BeginVar(q)
  BY <1>1, <1>8, BeginVarKeeps
<1>9. CASE \E n \in source.names, size \in source.sizes : DeclareVariable(n, size)
  BY <1>1, <1>9, DeclareVariableKeeps
<1>10. CASE BeginValues
  BY <1>10, BeginValuesKeeps
<1>11. CASE EndVariable
  BY <1>11, EndVariableKeeps
<1>12. CASE EndVar
  BY <1>12, EndVarKeeps
<1>13. CASE EndOfFile
  BY <1>13, EndOfFileKeeps
<1>14. CASE Stopped
  <2>1. UNCHANGED vars
    BY <1>14 DEF Stopped
  <2> QED
    BY <2>1, StoppedKeeps
<1> QED
  BY <1>2, <1>3, <1>4, <1>5, <1>6, <1>7, <1>8, <1>9, <1>10, <1>11, <1>12, <1>13, <1>14
     DEF Next

\* The sections, the symbols, the relocations and the words that were aligned
\* agree with the location counters at every step of the parser's actions
\* (as21-grammar.y, symbol.c, outfile.c).
THEOREM Invariance == Spec => []IInv
<1>1. Init => IInv
  BY InitHolds
<1>2. IInv /\ [Next]_vars => IInv'
  BY NextKeeps, StoppedKeeps
<1> QED
  BY <1>1, <1>2, PTL DEF Spec

----------------------------------------------------------------------------
(* The properties. *)

LEMMA NamedIs ==
  ASSUME Unique(sections), NEW s \in Those(sections)
  PROVE  SectionNamed(s.name) = s
<1>1. ASSUME NEW u \in Those(sections), u.name = s.name
      PROVE  u = s
  BY <1>1 DEF Those, Unique
<1> DEFINE P(u) == u \in Those(sections) /\ u.name = s.name
<1>2. P(s) /\ \A u : P(u) => u = s
  BY <1>1
<1>3. SectionNamed(s.name) = CHOOSE u \in Those(sections) : u.name = s.name
  BY Zenon DEF SectionNamed, Those
<1> QED
  BY <1>1, <1>3

LEMMA InvLabels ==
  ASSUME IInv
  PROVE  LabelFindsWord
<1> SUFFICES ASSUME skewed = {}, NEW n \in DOMAIN symbols, symbols[n].section # NoSection,
                    Laid(SectionNamed(symbols[n].section), symbols[n].word)
             PROVE  symbols[n].value
                      = Position(SectionNamed(symbols[n].section), symbols[n].word)
  BY DEF LabelFindsWord
<1>1. Unique(sections) /\ AreIn(Those(sections), symbols, aligned)
  BY DEF IInv, SectionsOK
<1>2. PICK s \in Those(sections) : s.name = symbols[n].section
  BY <1>1 DEF AreIn
<1>3. SectionNamed(symbols[n].section) = s
  BY <1>1, <1>2, NamedIs
<1>4. HasData(s) /\ symbols[n].word \in 1 .. Emitted(s)
  BY <1>3 DEF Laid
<1>5. Found(Those(sections), symbols)
  BY DEF IInv, WordsOK
<1>6. IsAt(s, symbols[n].word, symbols[n].value)
  BY <1>2, <1>4, <1>5 DEF Found
<1> QED
  BY <1>3, <1>4, <1>6 DEF IsAt

LEMMA InvRelocations ==
  ASSUME IInv
  PROVE  RelocationFindsWord
<1> SUFFICES ASSUME skewed = {}, NEW i \in DOMAIN sections,
                    NEW r \in RelocationsOf(sections[i]), Laid(sections[i], r.word)
             PROVE  r.offset = Position(sections[i], r.word) * EntSize[sections[i].space]
  BY DEF RelocationFindsWord
<1>1. PICK s : s = sections[i]
  OBVIOUS
<1>2. s \in Those(sections) /\ HasData(s)
  BY <1>1 DEF Those, Laid
<1>3. PICK k \in DOMAIN s.relocs : r = s.relocs[k]
  BY <1>1 DEF RelocationsOf
<1>4. Marked(Those(sections))
  BY DEF IInv, RelocsOK
<1>5. Marks(s, s.relocs[k])
  BY <1>2, <1>3, <1>4 DEF Marked
<1> QED
  BY <1>1, <1>3, <1>5 DEF Marks

LEMMA PowerDividesItself ==
  ASSUME NEW a \in PowersOf2
  PROVE  a % a = 0
<1>1. a \in Nat /\ a >= 1
  BY PowersAreNumbers
<1> QED
  BY <1>1

LEMMA InvAlignment ==
  ASSUME IInv
  PROVE  AlignmentIsMet
<1> SUFFICES ASSUME "page" \notin skewed, NEW a \in aligned,
                    Laid(SectionNamed(a.section), a.word)
             PROVE  /\ Position(SectionNamed(a.section), a.word) % a.by = 0
                    /\ SectionNamed(a.section).addralign % a.by = 0
  BY DEF AlignmentIsMet, IsAligned
<1>1. /\ Unique(sections) /\ AreIn(Those(sections), symbols, aligned)
      /\ Wide(Those(sections), aligned) /\ Met(Those(sections), aligned)
      /\ aligned \subseteq AlignedWord
      /\ \A s \in Those(sections) : s.addralign \in PowersOf2
  BY DEF IInv, SectionsOK, WordsOK, TypeOK
<1>2. PICK s \in Those(sections) : s.name = a.section
  BY <1>1 DEF AreIn
<1>3. SectionNamed(a.section) = s
  BY <1>1, <1>2, NamedIs
<1>4. HasData(s) /\ a.word \in 1 .. Emitted(s)
  BY <1>3 DEF Laid
<1>5. PICK v \in Nat : IsAt(s, a.word, v) /\ v % a.by = 0
  BY <1>1, <1>2, <1>4 DEF Met, IsMultiple
<1>6. v = Position(s, a.word)
  BY <1>4, <1>5 DEF IsAt
<1>7. a.by \in PowersOf2 /\ s.addralign \in PowersOf2 /\ a.by <= s.addralign
  BY <1>1, <1>2 DEF Wide, AlignedWord
<1>8. s.addralign % a.by = 0
  BY <1>7, PowerDividesItself, PowersDivide, PowersAreNumbers
<1> QED
  BY <1>3, <1>5, <1>6, <1>8

LEMMA InvVariables ==
  ASSUME IInv
  PROVE  VariablesDisjoint
<1> SUFFICES ASSUME pc = "statement", NEW m \in DOMAIN symbols, NEW n \in DOMAIN symbols,
                    symbols[m].section = symbols[n].section, symbols[m].section # NoSection
             PROVE  /\ symbols[m].value + symbols[m].size
                         <= SectionNamed(symbols[m].section).offset
                    /\ m # n => Extent(symbols[m]) \cap Extent(symbols[n]) = {}
  BY DEF VariablesDisjoint
<1>1. /\ Unique(sections) /\ AreIn(Those(sections), symbols, aligned)
      /\ symbols \in [DOMAIN symbols -> SymbolRec] /\ DOMAIN symbols \subseteq Name
  BY DEF IInv, SectionsOK, TypeOK
<1>2. Spread(Those(sections), symbols, NoSymbol, 0)
  BY NonePending
<1>3. PICK s \in Those(sections) : s.name = symbols[m].section
  BY <1>1 DEF AreIn
<1>4. SectionNamed(symbols[m].section) = s
  BY <1>1, <1>3, NamedIs
<1>5. m # NoSymbol /\ n # NoSymbol
  BY <1>1, SpaceAssumption
<1>6. symbols[m].value + symbols[m].size <= s.offset
  BY <1>2, <1>3, <1>5, Zenon DEF Spread
<1>7. ASSUME m # n
      PROVE  Extent(symbols[m]) \cap Extent(symbols[n]) = {}
  <2>1. PICK a : a = symbols[m]
    OBVIOUS
  <2>2. PICK b : b = symbols[n]
    OBVIOUS
  <2>3. Apart(a, b)
    BY <1>2, <1>5, <1>7, <2>1, <2>2, Zenon DEF Spread
  <2>4. a.value \in Nat /\ a.size \in Nat /\ b.value \in Nat /\ b.size \in Nat
    BY <1>1, <2>1, <2>2, SymbolFields
  <2>5. Extent(a) \cap Extent(b) = {}
    BY <2>3, <2>4 DEF Apart, Extent
  <2> QED
    BY <2>1, <2>2, <2>5
<1> QED
  BY <1>4, <1>6, <1>7

\* A label or variable has, as its value, the place where create_elf_data puts its
\* word, unless alignment could not be made right (outfile_align, align_symbols).
THEOREM Labels == Spec => []LabelFindsWord
BY Invariance, InvLabels, PTL

\* A relocation has the byte offset of its word (outfile_add_relocation,
\* align_relocations).
THEOREM Relocations == Spec => []RelocationFindsWord
BY Invariance, InvRelocations, PTL

\* What .ALIGN or /CIRC aligned is at a multiple of its alignment, and so is its
\* section (outfile_align).
THEOREM Alignment == Spec => []AlignmentIsMet
BY Invariance, InvAlignment, PTL

\* The variables of a section share no location and end before its counter
\* (symbol_define, symbol_set_size, align_symbols).
THEOREM Variables == Spec => []VariablesDisjoint
BY Invariance, InvVariables, PTL
============================================================================
