------------------------- MODULE Preprocessor_proof -------------------------
(***************************************************************************)
(* The preprocessor of as21 for sources of every length: what the stack of *)
(* conditions of all files selects, which of them a file closes, where an  *)
(* error is reported, and when an object file is left.                     *)
(***************************************************************************)
EXTENDS Preprocessor, SequenceTheorems, WellFoundedInduction, TLAPS

Branches == [was : BOOLEAN, now : BOOLEAN]

FileType ==
  [line : Int, delta : Int, first : Address \cup {NoAddress}, end : BOOLEAN,
   read : Int, claimed : Int, miscounted : BOOLEAN, nest : Seq(Branches)]

ConditionType ==
  [at : Address, inherited : BOOLEAN, state : BOOLEAN, elsed : BOOLEAN]

\* A directive was read, and perhaps there is more on its line.
AfterLine == {"lines", "garbage", "eof"}

\* A source is being read, in a directive that one of its files ended in or not.
Reading == {"lines", "eof", "wrap", "joined", "completed", "last"}

TypeInv ==
  /\ files \in Seq(FileType) /\ conds \in Seq(ConditionType)
  /\ mode \in {"on", "gobble"} /\ reader \in {"parse", "data"}
  /\ pc \in Reading \cup {"garbage", "pop", "term", "main", "aborted"}
  /\ parse \in {"none", "done", "open", "collect"}
  /\ defined \in BOOLEAN /\ meant \in BOOLEAN
  /\ failed \in BOOLEAN /\ object \in BOOLEAN
  /\ crossed \in BOOLEAN /\ left \in BOOLEAN /\ whole \in BOOLEAN
  /\ pc \in AfterLine \cup {"joined", "completed", "last", "term", "pop"} => files # <<>>
  /\ pc \in {"wrap", "eof"} => Len(files) > 1
  /\ pc = "last" => Len(files) = 1
  /\ pc \in {"joined", "completed", "last"} => crossed \/ parse = "done"

\* A line that was counted once follows the lines read, and has its number.
Right(f) ==
  ~ f.miscounted => f.line = f.read + 1 /\ f.line + f.delta = f.claimed

Located == \A i \in DOMAIN files : Right(files[i])

\* Without an error, a data file is open only while one is read, and the source is
\* the last file.
Ended ==
  /\ object => pc \in {"pop", "main"}
  /\ pc = "garbage" => failed
  /\ ~ left =>
       /\ object => whole /\ Len(files) = (IF pc = "pop" THEN 1 ELSE 0)
       /\ files # <<>> => ~ files[Len(files)].end
       /\ ~ failed /\ pc = "term" => whole /\ Len(files) = 1
       /\ ~ failed /\ pc \in Reading =>
            /\ (\E i \in DOMAIN files : files[i].end) => reader = "data"
            /\ \A i, k \in DOMAIN files : files[i].end /\ files[k].end => i = k

\* b[i] is the number of conditions that the files up to i have open.
Bounds(b) ==
  /\ b \in [0 .. Len(files) -> 0 .. Len(conds)]
  /\ b[0] = 0 /\ b[Len(files)] = Len(conds)
  /\ \A i \in 1 .. Len(files) : b[i] = b[i - 1] + Len(files[i].nest)
  /\ \A i, k \in 0 .. Len(files) : i <= k => b[i] <= b[k]

\* The first condition of a file is the last of those it has open.
Firsts(b) ==
  \A i \in 1 .. Len(files) :
    files[i].first = IF files[i].nest = <<>> THEN NoAddress ELSE conds[b[i]].at

\* The m-th condition of a file, the oldest first, is that at b[i] - m + 1.  It is on
\* when those up to it are, and can come on when none of its branches was.  A file
\* was included where the assembly is on.
Selecting(b) ==
  /\ \A i \in 1 .. Len(files) : \A m \in 1 .. Len(files[i].nest) :
       LET s == conds[b[i] - m + 1]
           n == files[i].nest
       IN /\ s.state <=> \A k \in 1 .. m : n[k].now
          /\ s.inherited /\ ~ s.state <=> (\A k \in 1 .. m - 1 : n[k].now) /\ ~ n[m].was
  /\ \A i \in 1 .. Len(files) : b[i] < Len(conds) => conds[b[i] + 1].state
  /\ \A i \in 2 .. Len(files) : \A m \in 1 .. Len(files[i].nest) : files[i].nest[m].now

Distinct == \A i, k \in DOMAIN conds : conds[i].at = conds[k].at => i = k

Nested ==
  ~ crossed => \E b \in [0 .. Len(files) -> 0 .. Len(conds)] :
                 Bounds(b) /\ Firsts(b) /\ (~ left => Selecting(b))

\* The lexer is where the conditions are, and a file ends with it on.
Lexed ==
  /\ pc \in {"wrap", "pop", "main"} => mode = "on"
  /\ pc \in AfterLine /\ ~ crossed /\ ~ left => (mode = "on" <=> AssemblyOn(conds))
  /\ pc \in AfterLine \cup Reading /\ ~ crossed /\ ~ left => defined = meant

IInv == TypeInv /\ Located /\ Ended /\ Distinct /\ Nested /\ Lexed
-----------------------------------------------------------------------------
(* Stacks, the newest first.                                               *)

LEMMA Newest ==
  ASSUME NEW S, NEW s \in Seq(S), s # <<>>
  PROVE  /\ Len(s) \in Nat \ {0} /\ Head(s) = s[1] /\ Head(s) \in S
         /\ Tail(s) \in Seq(S) /\ Len(Tail(s)) = Len(s) - 1
         /\ \A i \in 1 .. Len(s) - 1 : Tail(s)[i] = s[i + 1]
  OBVIOUS

LEMMA Pushed ==
  ASSUME NEW S, NEW s \in Seq(S), NEW g \in S
  PROVE  /\ <<g>> \o s \in Seq(S) /\ Len(<<g>> \o s) = Len(s) + 1
         /\ (<<g>> \o s)[1] = g /\ <<g>> \o s # <<>>
         /\ \A i \in 1 .. Len(s) : (<<g>> \o s)[i + 1] = s[i]
         /\ \A i \in 2 .. Len(s) + 1 : (<<g>> \o s)[i] = s[i - 1]
<1>1. /\ <<g>> \in Seq(S) /\ Len(<<g>>) = 1 /\ <<g>>[1] = g /\ Len(s) \in Nat
  OBVIOUS
<1>2. /\ <<g>> \o s \in Seq(S) /\ Len(<<g>> \o s) = Len(<<g>>) + Len(s)
      /\ \A i \in 1 .. Len(<<g>>) + Len(s) :
           (<<g>> \o s)[i] = IF i <= Len(<<g>>) THEN <<g>>[i] ELSE s[i - Len(<<g>>)]
  BY <1>1, ConcatProperties
<1> DEFINE t == <<g>> \o s
<1> HIDE DEF t
<1>3. /\ t \in Seq(S) /\ Len(t) = Len(s) + 1
      /\ \A i \in 1 .. Len(s) + 1 : t[i] = IF i <= 1 THEN g ELSE s[i - 1]
  BY <1>1, <1>2 DEF t
<1>4. t[1] = g /\ t # <<>>
  BY <1>1, <1>3
<1>5. ASSUME NEW i \in 1 .. Len(s) PROVE t[i + 1] = s[i]
  BY <1>1, <1>3
<1>6. ASSUME NEW i \in 2 .. Len(s) + 1 PROVE t[i] = s[i - 1]
  BY <1>1, <1>3
<1>7. QED
  BY <1>3, <1>4, <1>5, <1>6 DEF t

LEMMA OneByOne ==
  ASSUME NEW S, NEW s \in Seq(S), NEW g \in S, NEW h \in S
  PROVE  <<g, h>> \o s = <<g>> \o (<<h>> \o s)
<1>1. /\ <<g>> \in Seq(S) /\ Len(<<g>>) = 1 /\ <<g>>[1] = g
      /\ <<h>> \in Seq(S) /\ Len(<<h>>) = 1 /\ <<h>>[1] = h
      /\ <<g, h>> \in Seq(S) /\ Len(<<g, h>>) = 2 /\ <<g, h>>[1] = g /\ <<g, h>>[2] = h
  OBVIOUS
<1>2. /\ <<g>> \o <<h>> \in Seq(S) /\ Len(<<g>> \o <<h>>) = 2
      /\ (<<g>> \o <<h>>)[1] = g /\ (<<g>> \o <<h>>)[1 + 1] = h
  BY <1>1, Pushed
<1>3. \A i \in 1 .. 2 : <<g, h>>[i] = (<<g>> \o <<h>>)[i]
  BY <1>1, <1>2
<1>4. <<g, h>> = <<g>> \o <<h>>
  BY <1>1, <1>2, <1>3, SeqEqual
<1>5. (<<g>> \o <<h>>) \o s = <<g>> \o (<<h>> \o s)
  BY <1>1, ConcatAssociative
<1>6. QED
  BY <1>4, <1>5

\* The newest is replaced.
LEMMA Replaced ==
  ASSUME NEW S, NEW s \in Seq(S), s # <<>>, NEW g \in S
  PROVE  LET t == <<g>> \o Tail(s)
         IN /\ t \in Seq(S) /\ Len(t) = Len(s) /\ t[1] = g /\ t # <<>>
            /\ \A i \in 2 .. Len(s) : t[i] = s[i]
<1> DEFINE r == Tail(s)
<1>1. /\ r \in Seq(S) /\ Len(r) = Len(s) - 1 /\ Len(s) \in Nat \ {0}
      /\ \A i \in 1 .. Len(s) - 1 : r[i] = s[i + 1]
  BY Newest
<1> HIDE DEF r
<1>2. /\ <<g>> \o r \in Seq(S) /\ Len(<<g>> \o r) = Len(r) + 1
      /\ (<<g>> \o r)[1] = g /\ <<g>> \o r # <<>>
      /\ \A i \in 2 .. Len(r) + 1 : (<<g>> \o r)[i] = r[i - 1]
  BY <1>1, Pushed
<1>3. ASSUME NEW i \in 2 .. Len(s) PROVE (<<g>> \o r)[i] = s[i]
  <2>1. i - 1 \in 1 .. Len(s) - 1 /\ (i - 1) + 1 = i /\ i \in 2 .. Len(r) + 1
    BY <1>1
  <2>2. QED
    BY <1>1, <1>2, <2>1
<1>4. QED
  BY <1>1, <1>2, <1>3 DEF r

\* The least of a set of numbers.
LEMMA Least ==
  ASSUME NEW T, T \subseteq Nat, T # {}
  PROVE  \E x \in T : \A y \in T : x <= y
<1> DEFINE R == OpToRel(<, Nat)
<1>1. IsWellFoundedOn(R, Nat)
  BY NatLessThanWellFounded
<1>2. \A x, y \in Nat : <<y, x>> \in R <=> y < x
  BY DEF OpToRel
<1> HIDE DEF R
<1>3. PICK x \in T : \A y \in T : ~ (<<y, x>> \in R)
  BY <1>1, WFMin
<1>4. ASSUME NEW y \in T PROVE x <= y
  <2>1. x \in Nat /\ y \in Nat /\ ~ (<<y, x>> \in R)
    BY <1>3
  <2>2. ~ (y < x)
    BY <1>2, <2>1
  <2>3. QED
    BY <2>1, <2>2
<1>5. QED
  BY <1>4
-----------------------------------------------------------------------------
(* What becomes of a file.                                                 *)

LEMMA CountedIs ==
  ASSUME NEW f \in FileType, NEW n \in Int
  PROVE  LET g == Counted(f, n)
         IN /\ g \in FileType
            /\ g.line = f.line + n /\ g.delta = f.delta /\ g.first = f.first
            /\ g.end = f.end /\ g.read = f.read + 1 /\ g.claimed = f.claimed + 1
            /\ g.miscounted = (f.miscounted \/ n # 1) /\ g.nest = f.nest
<1> DEFINE m == f.miscounted \/ n # 1
           g == Counted(f, n)
<1>1. m \in BOOLEAN
  OBVIOUS
<1>2. f.line + n \in Int /\ f.read + 1 \in Int /\ f.claimed + 1 \in Int
  BY DEF FileType
<1>3. g = [f EXCEPT !.line = f.line + n, !.read = f.read + 1,
                    !.claimed = f.claimed + 1, !.miscounted = m]
  BY DEF Counted, FileType
<1> HIDE DEF m, g
<1>4. /\ g \in FileType
      /\ g.line = f.line + n /\ g.delta = f.delta /\ g.first = f.first
      /\ g.end = f.end /\ g.read = f.read + 1 /\ g.claimed = f.claimed + 1
      /\ g.miscounted = m /\ g.nest = f.nest
  BY <1>1, <1>2, <1>3 DEF FileType
<1>5. QED
  BY <1>4 DEF g, m

LEMMA CountedRight ==
  ASSUME NEW f \in FileType, NEW n \in Int, Right(f)
  PROVE  Right(Counted(f, n))
<1> DEFINE g == Counted(f, n)
<1>1. /\ g.line = f.line + n /\ g.delta = f.delta
      /\ g.read = f.read + 1 /\ g.claimed = f.claimed + 1
      /\ g.miscounted = (f.miscounted \/ n # 1)
  BY CountedIs
<1>2. /\ f.line \in Int /\ f.delta \in Int /\ f.read \in Int /\ f.claimed \in Int
      /\ f.miscounted \in BOOLEAN
  BY DEF FileType
<1>3. ~ g.miscounted => ~ f.miscounted /\ n = 1
  BY <1>1
<1> HIDE DEF g
<1>4. Right(g)
  BY <1>1, <1>2, <1>3 DEF Right
<1>5. QED
  BY <1>4 DEF g

LEMMA FileIs ==
  ASSUME NEW end \in BOOLEAN
  PROVE  /\ File(end) \in FileType /\ Right(File(end))
         /\ File(end).first = NoAddress /\ File(end).end = end /\ File(end).nest = <<>>
<1>1. <<>> \in Seq(Branches)
  OBVIOUS
<1>2. File(end) \in FileType
  BY <1>1 DEF File, FileType
<1>3. QED
  BY <1>2 DEF File, Right

LEMMA LateIs ==
  ASSUME NEW f \in FileType
  PROVE  LET g == Late(f)
         IN /\ g \in FileType /\ g.first = f.first /\ g.end = f.end /\ g.nest = f.nest
            /\ g.miscounted = TRUE /\ Right(g)
<1> DEFINE n == f.line + 1
           g == Late(f)
<1>1. n \in Int
  BY DEF FileType
<1>2. g = [f EXCEPT !.line = n, !.miscounted = TRUE]
  BY DEF Late, FileType
<1> HIDE DEF n, g
<1>3. /\ g \in FileType /\ g.first = f.first /\ g.end = f.end /\ g.nest = f.nest
      /\ g.miscounted = TRUE
  BY <1>1, <1>2 DEF FileType
<1>4. Right(g)
  BY <1>3 DEF Right
<1>5. QED
  BY <1>3, <1>4 DEF g

Moved(f, n) ==
  [Counted(f, 1) EXCEPT !.delta = IF n = 0 THEN 0 ELSE n - f.line - 1,
                        !.claimed = IF n = 0 THEN f.read + 2 ELSE n]

LEMMA MovedIs ==
  ASSUME NEW f \in FileType, NEW n \in LineNumbers
  PROVE  /\ Moved(f, n) \in FileType
         /\ Moved(f, n).first = f.first /\ Moved(f, n).end = f.end
         /\ Moved(f, n).nest = f.nest
         /\ Right(f) => Right(Moved(f, n))
<1> DEFINE g == Counted(f, 1)
           h == Moved(f, n)
           d == IF n = 0 THEN 0 ELSE n - f.line - 1
           c == IF n = 0 THEN f.read + 2 ELSE n
<1>1. /\ g \in FileType
      /\ g.line = f.line + 1 /\ g.first = f.first
      /\ g.end = f.end /\ g.read = f.read + 1
      /\ g.miscounted = (f.miscounted \/ 1 # 1) /\ g.nest = f.nest
  BY CountedIs
<1>2. f.line \in Int /\ f.read \in Int /\ f.miscounted \in BOOLEAN /\ n \in Int
  BY PreprocessorAssumption DEF FileType
<1>3. h = [g EXCEPT !.delta = d, !.claimed = c]
  BY DEF Moved
<1>3a. d \in Int /\ c \in Int
  BY <1>2
<1> HIDE DEF g, h, d, c
<1>4. /\ h \in FileType /\ h.line = g.line /\ h.first = g.first /\ h.end = g.end
      /\ h.read = g.read /\ h.miscounted = g.miscounted /\ h.nest = g.nest
      /\ h.delta = d /\ h.claimed = c
  BY <1>3a, <1>1, <1>3 DEF FileType
<1>5. Right(f) => Right(h)
  BY <1>1, <1>2, <1>4 DEF Right, d, c
<1>6. QED
  BY <1>1, <1>4, <1>5 DEF h

Owning(f, a, wanted) ==
  [f EXCEPT !.first = IF @ = NoAddress THEN a ELSE @,
            !.nest = Append(@, [was |-> wanted, now |-> wanted])]

LEMMA OwningIs ==
  ASSUME NEW f \in FileType, NEW a \in Address, NEW wanted \in BOOLEAN
  PROVE  LET g == Owning(f, a, wanted)
         IN /\ g \in FileType /\ g.end = f.end
            /\ g.first = (IF f.first = NoAddress THEN a ELSE f.first)
            /\ g.nest = Append(f.nest, [was |-> wanted, now |-> wanted])
            /\ Right(f) => Right(g)
<1> DEFINE r == [was |-> wanted, now |-> wanted]
           g == Owning(f, a, wanted)
<1>2. f.nest \in Seq(Branches) /\ r \in Branches
  BY DEF FileType, Branches
<1>3. Append(f.nest, r) \in Seq(Branches)
  BY <1>2
<1>4. g = [f EXCEPT !.first = IF f.first = NoAddress THEN a ELSE f.first,
                    !.nest = Append(f.nest, r)]
  BY DEF Owning, FileType
<1> HIDE DEF g, r
<1>6. /\ g \in FileType /\ g.end = f.end /\ g.nest = Append(f.nest, r)
      /\ g.first = (IF f.first = NoAddress THEN a ELSE f.first)
      /\ g.line = f.line /\ g.delta = f.delta /\ g.read = f.read
      /\ g.claimed = f.claimed /\ g.miscounted = f.miscounted
  BY <1>3, <1>4 DEF FileType
<1>7. QED
  BY <1>6 DEF g, r, Right

Opened(f, a, wanted) == Owning(Counted(f, 1), a, wanted)

LEMMA OpenedIs ==
  ASSUME NEW f \in FileType, NEW a \in Address, NEW wanted \in BOOLEAN
  PROVE  LET g == Opened(f, a, wanted)
         IN /\ g \in FileType /\ g.end = f.end
            /\ g.first = (IF f.first = NoAddress THEN a ELSE f.first)
            /\ g.nest = Append(f.nest, [was |-> wanted, now |-> wanted])
            /\ Right(f) => Right(g)
<1> DEFINE c == Counted(f, 1)
<1>1. c \in FileType /\ c.first = f.first /\ c.end = f.end /\ c.nest = f.nest
  BY CountedIs
<1>2. Right(f) => Right(c)
  BY CountedRight
<1>3. Opened(f, a, wanted) = Owning(c, a, wanted)
  BY DEF Opened
<1> HIDE DEF c
<1>4. QED
  BY <1>1, <1>2, <1>3, OwningIs

LEMMA BranchIs ==
  ASSUME NEW f \in FileType, NEW c \in BOOLEAN
  PROVE  LET g == Branch(f, c)
             n == Len(f.nest)
         IN /\ g \in FileType /\ g.end = f.end /\ g.first = f.first
            /\ Right(f) => Right(g)
            /\ f.nest = <<>> => g.nest = <<>>
            /\ f.nest # <<>> =>
                 g.nest = [f.nest EXCEPT ![n] = [was |-> f.nest[n].was \/ c,
                                                 now |-> ~ f.nest[n].was /\ c]]
<1> DEFINE g == Branch(f, c)
           n == Len(f.nest)
           r == [was |-> f.nest[n].was \/ c, now |-> ~ f.nest[n].was /\ c]
<1>1. f.nest \in Seq(Branches)
  BY DEF FileType
<1>2. CASE f.nest = <<>>
  BY <1>2 DEF Branch
<1>3. CASE f.nest # <<>>
  <2>1. n \in 1 .. Len(f.nest) /\ f.nest[n] \in Branches
    BY <1>1, <1>3
  <2>2. r \in Branches
    BY <2>1 DEF Branches
  <2>3. [f.nest EXCEPT ![n] = r] \in Seq(Branches)
    BY <1>1, <2>1, <2>2, ExceptSeq
  <2>4. g = [f EXCEPT !.nest = [f.nest EXCEPT ![n] = r]]
    BY <1>1, <1>3, <2>1 DEF Branch, FileType
  <2> HIDE DEF r, g
  <2>5. /\ g \in FileType /\ g.end = f.end /\ g.first = f.first
        /\ g.nest = [f.nest EXCEPT ![n] = r]
        /\ g.line = f.line /\ g.delta = f.delta /\ g.read = f.read
        /\ g.claimed = f.claimed /\ g.miscounted = f.miscounted
    BY <2>3, <2>4 DEF FileType
  <2>6. QED
    BY <1>3, <2>5 DEF g, r, Right
<1>4. QED
  BY <1>2, <1>3

LEMMA ElseConditionIs ==
  ASSUME NEW s \in ConditionType, NEW c \in BOOLEAN, NEW elsed \in BOOLEAN
  PROVE  LET t == ElseCondition(s, c, elsed)
         IN /\ t \in ConditionType /\ t.at = s.at
            /\ t.inherited = (s.inherited /\ ~ s.state)
            /\ t.state = (s.inherited /\ ~ s.state /\ c)
BY DEF ElseCondition, ConditionType

Shut(f) == [Closed(f) EXCEPT !.nest = SubSeq(@, 1, Len(@) - 1)]

LEMMA ShutIs ==
  ASSUME NEW f \in FileType
  PROVE  LET g == Shut(f)
         IN /\ g \in FileType /\ g.end = f.end
            /\ g.first = (IF conds # <<>> /\ f.first = Head(conds).at THEN NoAddress
                          ELSE f.first)
            /\ g.nest = SubSeq(f.nest, 1, Len(f.nest) - 1)
            /\ Right(f) => Right(g)
<1> DEFINE c == Closed(f)
           g == Shut(f)
<1>1. /\ c \in FileType /\ c.end = f.end /\ c.nest = f.nest
      /\ c.first = (IF conds # <<>> /\ f.first = Head(conds).at THEN NoAddress
                    ELSE f.first)
      /\ c.line = f.line /\ c.delta = f.delta /\ c.read = f.read
      /\ c.claimed = f.claimed /\ c.miscounted = f.miscounted
  BY DEF Closed, FileType
<1>2. f.nest \in Seq(Branches)
  BY DEF FileType
<1>3. SubSeq(f.nest, 1, Len(f.nest) - 1) \in Seq(Branches)
  BY <1>2
<1>4. g = [c EXCEPT !.nest = SubSeq(c.nest, 1, Len(c.nest) - 1)]
  BY <1>1 DEF Shut, FileType
<1> HIDE DEF c, g
<1>5. /\ g \in FileType /\ g.end = c.end /\ g.first = c.first
      /\ g.nest = SubSeq(f.nest, 1, Len(f.nest) - 1)
      /\ g.line = c.line /\ g.delta = c.delta /\ g.read = c.read
      /\ g.claimed = c.claimed /\ g.miscounted = c.miscounted
  BY <1>1, <1>3, <1>4 DEF FileType
<1>6. QED
  BY <1>1, <1>5 DEF g, Right
-----------------------------------------------------------------------------
(* The actions by what they do to the files.                               *)

\* The newest file is another one.
TopBecomes(g) ==
  /\ files # <<>> /\ files \in Seq(FileType) /\ files' \in Seq(FileType)
  /\ Len(files') = Len(files) /\ Len(files) \in Nat \ {0} /\ files' # <<>>
  /\ files[1] \in FileType /\ files'[1] = g
  /\ \A i \in 2 .. Len(files) : files'[i] = files[i]
  /\ (Right(files[1]) => Right(g)) => (Located => Located')

LEMMA TopReplaced ==
  ASSUME TypeInv, files # <<>>, NEW g \in FileType, files' = <<g>> \o Tail(files)
  PROVE  TopBecomes(g) /\ top = files[1]
<1>1. files \in Seq(FileType)
  BY DEF TypeInv
<1>2. /\ files' \in Seq(FileType) /\ Len(files') = Len(files) /\ files'[1] = g
      /\ files' # <<>> /\ \A i \in 2 .. Len(files) : files'[i] = files[i]
  BY <1>1, Replaced
<1>3. /\ top = files[1] /\ files[1] \in FileType /\ Len(files) \in Nat \ {0}
      /\ DOMAIN files = 1 .. Len(files) /\ DOMAIN files' = 1 .. Len(files)
  BY <1>1, <1>2, Newest DEF top
<1>4. ASSUME Right(files[1]) => Right(g), Located PROVE Located'
  <2>1. ASSUME NEW i \in 1 .. Len(files) PROVE Right(files'[i])
    <3>1. Right(files[i]) /\ Right(files[1])
      BY <1>3, <1>4 DEF Located
    <3>2. CASE i = 1
      BY <1>2, <1>4, <3>1, <3>2
    <3>3. CASE i # 1
      <4>1. i \in 2 .. Len(files)
        BY <3>3
      <4>2. QED
        BY <1>2, <3>1, <4>1
    <3>4. QED
      BY <3>2, <3>3
  <2>2. QED
    BY <1>3, <2>1 DEF Located, Right
<1>5. QED
  BY <1>1, <1>2, <1>3, <1>4 DEF TopBecomes

\* A line was read: no file opened or closed, nor a condition.
LineRead ==
  /\ files' \in Seq(FileType) /\ Len(files') = Len(files)
  /\ \A i \in 1 .. Len(files) :
       /\ files'[i].first = files[i].first /\ files'[i].end = files[i].end
       /\ files'[i].nest = files[i].nest
  /\ Located => Located'
  /\ UNCHANGED <<conds, crossed, object, left, whole>>

LEMMA TopRead ==
  ASSUME TypeInv, files # <<>>, NEW g \in FileType, files' = <<g>> \o Tail(files),
         g.first = top.first, g.end = top.end, g.nest = top.nest,
         Right(top) => Right(g), UNCHANGED <<conds, crossed, object, left, whole>>
  PROVE  LineRead
<1>1. TopBecomes(g) /\ top = files[1]
  BY TopReplaced
<1>2. \A i \in 1 .. Len(files) :
        /\ files'[i].first = files[i].first /\ files'[i].end = files[i].end
        /\ files'[i].nest = files[i].nest
  BY <1>1 DEF TopBecomes
<1>3. QED
  BY <1>1, <1>2 DEF TopBecomes, LineRead

LEMMA LinesRead ==
  ASSUME TypeInv, files # <<>>, NEW n \in Int, Lines(n),
         UNCHANGED <<conds, crossed, object, left, whole>>
  PROVE  LineRead
<1>1. top \in FileType
  BY Newest DEF TypeInv, top
<1> DEFINE g == Counted(top, n)
<1>2. /\ g \in FileType /\ g.first = top.first /\ g.end = top.end /\ g.nest = top.nest
      /\ Right(top) => Right(g)
  BY <1>1, CountedIs, CountedRight
<1>3. files' = <<g>> \o Tail(files)
  BY DEF Lines
<1>4. QED
  BY <1>2, <1>3, TopRead

\* An #include that is too deep: the lines of two files are counted.
LEMMA TooDeepRead == TypeInv /\ IncludeTooDeep => LineRead
<1> SUFFICES ASSUME TypeInv, IncludeTooDeep PROVE LineRead
  OBVIOUS
<1> DEFINE g == Counted(top, 0)
           h == Late(files[2])
           r == Tail(files)
<1>1. files \in Seq(FileType) /\ Len(files) \in Nat /\ Len(files) >= 2 /\ files # <<>>
  BY PreprocessorAssumption
  DEF TypeInv, IncludeTooDeep, CanPush, ReadLine
<1>2. /\ top = files[1] /\ top \in FileType /\ r \in Seq(FileType) /\ r # <<>>
      /\ Len(r) = Len(files) - 1
      /\ \A i \in 1 .. Len(files) - 1 : r[i] = files[i + 1]
  <2>1. /\ top = files[1] /\ top \in FileType /\ r \in Seq(FileType)
        /\ Len(r) = Len(files) - 1
        /\ \A i \in 1 .. Len(files) - 1 : r[i] = files[i + 1]
    BY <1>1, Newest DEF top
  <2> HIDE DEF r
  <2>2. r # <<>>
    BY <1>1, <2>1
  <2>3. QED
    BY <2>1, <2>2
<1>3. files[2] \in FileType /\ 2 \in 1 .. Len(files)
  <2>1. 2 \in 1 .. Len(files)
    BY <1>1
  <2>2. QED
    BY <1>1, <2>1, ElementOfSeq
<1>4. /\ g \in FileType /\ g.first = top.first /\ g.end = top.end /\ g.nest = top.nest
      /\ g.miscounted
  <2>1. 0 \in Int /\ top \in FileType /\ 0 # 1
    BY <1>2
  <2> HIDE DEF h, r
  <2>2. QED
    BY <2>1, CountedIs
<1>5. /\ h \in FileType /\ h.first = files[2].first /\ h.end = files[2].end
      /\ h.nest = files[2].nest /\ h.miscounted = TRUE
  BY <1>3, LateIs
<1>7. files' = <<g, h>> \o Tail(r)
  BY Zenon DEF IncludeTooDeep
<1> HIDE DEF g, h, r
<1>6. Right(g) /\ Right(h)
  BY <1>4, <1>5 DEF Right
<1>8. files' = <<g>> \o (<<h>> \o Tail(r))
  <2>1. Tail(r) \in Seq(FileType)
    BY <1>2, Newest
  <2>2. QED
    BY <1>4, <1>5, <1>7, <2>1, OneByOne
<1>9. /\ <<h>> \o Tail(r) \in Seq(FileType) /\ Len(<<h>> \o Tail(r)) = Len(r)
      /\ (<<h>> \o Tail(r))[1] = h
      /\ \A i \in 2 .. Len(r) : (<<h>> \o Tail(r))[i] = r[i]
  BY <1>2, <1>5, Replaced
<1> DEFINE t == <<h>> \o Tail(r)
<1> HIDE DEF t
<1>10. /\ files' \in Seq(FileType) /\ Len(files') = Len(t) + 1
       /\ files'[1] = g
       /\ \A i \in 2 .. Len(t) + 1 : files'[i] = t[i - 1]
  BY <1>4, <1>8, <1>9, Pushed DEF t
<1>11. Len(files') = Len(files)
  BY <1>1, <1>2, <1>9, <1>10 DEF t
<1>12. files'[2] = h
  BY <1>1, <1>2, <1>9, <1>10 DEF t
<1>13. ASSUME NEW i \in 3 .. Len(files) PROVE files'[i] = files[i]
  <2>1. /\ i \in 2 .. Len(t) + 1 /\ i - 1 \in 2 .. Len(r)
        /\ i - 1 \in 1 .. Len(files) - 1 /\ (i - 1) + 1 = i
    BY <1>1, <1>2, <1>9 DEF t
  <2>2. files'[i] = t[i - 1] /\ t[i - 1] = r[i - 1] /\ r[i - 1] = files[(i - 1) + 1]
    BY <1>2, <1>9, <1>10, <2>1 DEF t
  <2>3. QED
    BY <2>1, <2>2
<1>14. ASSUME NEW i \in 1 .. Len(files)
       PROVE  /\ files'[i].first = files[i].first /\ files'[i].end = files[i].end
              /\ files'[i].nest = files[i].nest
              /\ Right(files[i]) => Right(files'[i])
  <2>1. CASE i = 1
    BY <1>2, <1>4, <1>6, <1>10, <2>1
  <2>2. CASE i = 2
    BY <1>5, <1>6, <1>12, <2>2
  <2>3. CASE i \in 3 .. Len(files)
    BY <1>13, <2>3
  <2>4. i = 1 \/ i = 2 \/ i \in 3 .. Len(files)
    OBVIOUS
  <2>5. QED
    BY <2>1, <2>2, <2>3, <2>4
<1>15. DOMAIN files = 1 .. Len(files) /\ DOMAIN files' = 1 .. Len(files)
  BY <1>1, <1>10, <1>11
<1>16. Located => Located'
  BY <1>14, <1>15 DEF Located, Right
<1>17. UNCHANGED <<conds, crossed, object, left, whole>>
  BY DEF IncludeTooDeep, RestUnchanged
<1>18. QED
  BY <1>10, <1>11, <1>14, <1>16, <1>17 DEF LineRead

\* The actions that read a line and do no more to the files.
Line ==
  \/ Text \/ SyntaxError \/ Skip \/ Incomplete \/ Unknown
  \/ \E d \in BOOLEAN : Define(d)
  \/ \E error \in BOOLEAN : Message(error)
  \/ \E n \in LineNumbers : ChangeLocation(n)
  \/ IncludeNotFound \/ IncludeTooDeep

LEMMA LineIs == TypeInv /\ Line => LineRead /\ pc = "lines" /\ files # <<>>
<1> SUFFICES ASSUME TypeInv, Line PROVE LineRead /\ pc = "lines" /\ files # <<>>
  OBVIOUS
<1>1. pc = "lines" /\ files # <<>>
  BY DEF TypeInv, Line, Text, SyntaxError, Skip, Incomplete, Unknown, Define, Message,
         ChangeLocation, IncludeNotFound, IncludeTooDeep, ReadLine, ReadDirective,
         AfterLine
<1>2. CASE Text \/ SyntaxError \/ Incomplete \/ IncludeNotFound
  <2>1. Lines(1) /\ UNCHANGED <<conds, crossed, object, left, whole>>
    BY <1>2 DEF Text, SyntaxError, Incomplete, IncludeNotFound, RestUnchanged
  <2>2. QED
    BY <1>1, <2>1, LinesRead
<1>3. CASE Skip
  <2>1. Lines(2) /\ UNCHANGED <<conds, crossed, object, left, whole>>
    BY <1>3 DEF Skip, RestUnchanged
  <2>2. QED
    BY <1>1, <2>1, LinesRead
<1>4. CASE Unknown
  <2>1. Lines(1) /\ UNCHANGED <<conds, crossed, object, left, whole>>
    BY <1>4 DEF Unknown, RestUnchanged
  <2>2. QED
    BY <1>1, <2>1, LinesRead
<1>5. CASE \E d \in BOOLEAN : Define(d)
  <2>1. Lines(1) /\ UNCHANGED <<conds, crossed, object, left, whole>>
    BY <1>5 DEF Define, RestUnchanged
  <2>2. QED
    BY <1>1, <2>1, LinesRead
<1>6. CASE \E error \in BOOLEAN : Message(error)
  <2>1. Lines(1) /\ UNCHANGED <<conds, crossed, object, left, whole>>
    BY <1>6 DEF Message, RestUnchanged
  <2>2. QED
    BY <1>1, <2>1, LinesRead
<1>7. ASSUME NEW n \in LineNumbers, ChangeLocation(n) PROVE LineRead
  <2>1. top \in FileType
    BY <1>1, Newest DEF TypeInv, top
  <2>2. files' = <<Moved(top, n)>> \o Tail(files)
    BY <1>7, Zenon DEF ChangeLocation, Moved
  <2>3. UNCHANGED <<conds, crossed, object, left, whole>>
    BY <1>7 DEF ChangeLocation, RestUnchanged
  <2>4. QED
    BY <1>1, <2>1, <2>2, <2>3, MovedIs, TopRead
<1>8. CASE IncludeTooDeep
  BY <1>1, <1>8, TooDeepRead
<1>9. QED
  BY <1>1, <1>2, <1>3, <1>4, <1>5, <1>6, <1>7, <1>8 DEF Line

\* What may follow in the line of a directive, or in the file below it.
After == Garbage \/ EndInDirective \/ JoinedText \/ JoinedDirective \/ JoinedEnd

LEMMA AfterIs == TypeInv /\ After => LineRead /\ files # <<>>
<1> SUFFICES ASSUME TypeInv, After PROVE LineRead /\ files # <<>>
  OBVIOUS
<1>1. files # <<>> /\ files \in Seq(FileType)
  BY DEF TypeInv, AfterLine, After, Garbage, EndInDirective, JoinedText, JoinedDirective,
         JoinedEnd, Joined
<1>2. UNCHANGED <<conds, crossed, object, left, whole>>
  BY DEF After, Garbage, EndInDirective, JoinedText, JoinedDirective, JoinedEnd,
         RestUnchanged
<1>3. CASE UNCHANGED files
  BY <1>1, <1>2, <1>3 DEF LineRead, Located, Right
<1>4. CASE Lines(1)
  BY <1>1, <1>2, <1>4, LinesRead
<1>5. CASE files' = <<Late(top)>> \o Tail(files)
  <2>1. top \in FileType
    BY <1>1, Newest DEF top
  <2> DEFINE g == Late(top)
  <2>2. /\ g \in FileType /\ g.first = top.first /\ g.end = top.end /\ g.nest = top.nest
        /\ Right(g)
    BY <2>1, LateIs
  <2>3. files' = <<g>> \o Tail(files)
    BY <1>5
  <2> HIDE DEF g
  <2>4. QED
    BY <1>1, <1>2, <2>2, <2>3, TopRead
<1>6. QED
  BY <1>3, <1>4, <1>5
  DEF After, Garbage, EndInDirective, JoinedText, JoinedDirective, JoinedEnd

\* A file was opened on top of the others.
FileOpened(end) ==
  /\ files' \in Seq(FileType) /\ Len(files') = Len(files) + 1 /\ files' # <<>>
  /\ files'[1].first = NoAddress /\ files'[1].end = end /\ files'[1].nest = <<>>
  /\ \A i \in 1 .. Len(files) :
       /\ files'[i + 1].first = files[i].first /\ files'[i + 1].end = files[i].end
       /\ files'[i + 1].nest = files[i].nest
  /\ Located => Located'

LEMMA PushedFile ==
  ASSUME NEW end \in BOOLEAN, NEW u \in Seq(FileType), Len(u) = Len(files),
         files \in Seq(FileType),
         \A i \in 1 .. Len(files) :
           /\ u[i].first = files[i].first /\ u[i].end = files[i].end
           /\ u[i].nest = files[i].nest /\ (Right(files[i]) => Right(u[i])),
         files' = <<File(end)>> \o u
  PROVE  FileOpened(end)
<1> DEFINE f == File(end)
<1>1. /\ f \in FileType /\ Right(f)
      /\ f.first = NoAddress /\ f.end = end /\ f.nest = <<>>
  BY FileIs
<1> HIDE DEF f
<1>2. /\ files' \in Seq(FileType) /\ Len(files') = Len(files) + 1 /\ files' # <<>>
      /\ files'[1] = f /\ \A i \in 1 .. Len(u) : files'[i + 1] = u[i]
  BY <1>1, Pushed DEF f
<1>3. Len(files) \in Nat /\ DOMAIN files = 1 .. Len(files)
      /\ DOMAIN files' = 1 .. Len(files) + 1
  BY <1>2
<1>4. ASSUME Located PROVE Located'
  <2>1. ASSUME NEW i \in 1 .. Len(files) + 1 PROVE Right(files'[i])
    <3>1. CASE i = 1
      BY <1>1, <1>2, <3>1
    <3>2. CASE i # 1
      <4>1. i - 1 \in 1 .. Len(files) /\ (i - 1) + 1 = i
        BY <1>3, <3>2
      <4>2. files'[i] = u[i - 1] /\ Right(files[i - 1])
        BY <1>2, <1>3, <1>4, <4>1 DEF Located
      <4>3. QED
        BY <4>1, <4>2
    <3>3. QED
      BY <3>1, <3>2
  <2>2. QED
    BY <1>3, <2>1 DEF Located, Right
<1>5. QED
  BY <1>1, <1>2, <1>4 DEF FileOpened

LEMMA IncludeOpens == TypeInv /\ IncludeFile => FileOpened(FALSE)
<1> SUFFICES ASSUME TypeInv, IncludeFile PROVE FileOpened(FALSE)
  OBVIOUS
<1> DEFINE g == Counted(top, 1)
           u == <<g>> \o Tail(files)
<1>1. files \in Seq(FileType) /\ files # <<>>
  BY DEF TypeInv, AfterLine, IncludeFile, ReadLine
<1>2. /\ top = files[1] /\ top \in FileType /\ Tail(files) \in Seq(FileType)
      /\ Len(files) \in Nat \ {0}
  BY <1>1, Newest DEF top
<1>3. /\ g \in FileType /\ g.first = top.first /\ g.end = top.end /\ g.nest = top.nest
      /\ Right(top) => Right(g)
  BY <1>2, CountedIs, CountedRight
<1>4. files' = <<File(FALSE), g>> \o Tail(files)
  BY DEF IncludeFile, Includer
<1> HIDE DEF g
<1>5. files' = <<File(FALSE)>> \o u
  BY <1>2, <1>3, <1>4, FileIs, OneByOne
<1>6. /\ u \in Seq(FileType) /\ Len(u) = Len(files) /\ u[1] = g
      /\ \A i \in 2 .. Len(files) : u[i] = files[i]
  BY <1>1, <1>3, Replaced
<1> HIDE DEF u
<1>7. ASSUME NEW i \in 1 .. Len(files)
      PROVE  /\ u[i].first = files[i].first /\ u[i].end = files[i].end
             /\ u[i].nest = files[i].nest /\ (Right(files[i]) => Right(u[i]))
  <2>1. CASE i = 1
    BY <1>2, <1>3, <1>6, <2>1
  <2>2. CASE i # 1
    <3>1. i \in 2 .. Len(files)
      BY <2>2
    <3>2. QED
      BY <1>6, <3>1
  <2>3. QED
    BY <2>1, <2>2
<1>8. QED
  BY <1>1, <1>5, <1>6, <1>7, PushedFile

LEMMA DataOpens ==
  TypeInv /\ DataFile => FileOpened(TRUE) \/ UNCHANGED <<files, reader>>
<1> SUFFICES ASSUME TypeInv, DataFile, files' = <<File(TRUE)>> \o files
             PROVE  FileOpened(TRUE)
  BY DEF DataFile
<1>1. QED
  BY PushedFile DEF TypeInv

\* A condition was opened in the newest file.
ConditionOpened(a, c, wanted) ==
  /\ TopBecomes(Opened(files[1], a, wanted))
  /\ a \in Address /\ \A k \in DOMAIN conds : conds[k].at # a
  /\ conds' = <<[at |-> a, inherited |-> AssemblyOn(conds),
                 state |-> AssemblyOn(conds) /\ c, elsed |-> FALSE]>> \o conds
  /\ UNCHANGED <<crossed, left>>

LEMMA ConditionOpens ==
  ASSUME TypeInv, NEW c \in BOOLEAN, NEW wanted \in BOOLEAN, NEW behind,
         Condition(c, wanted, behind)
  PROVE  \E a \in Address : ConditionOpened(a, c, wanted)
<1>1. files # <<>>
  BY DEF TypeInv, AfterLine, Condition, ReadDirective
<1>2. PICK a \in Address \ {conds[k].at : k \in DOMAIN conds} :
        /\ conds' = <<[at |-> a, inherited |-> AssemblyOn(conds),
                       state |-> AssemblyOn(conds) /\ c, elsed |-> FALSE]>> \o conds
        /\ files' = <<Opened(top, a, wanted)>> \o Tail(files)
  BY DEF Condition, PushCondition, Opened, Owning
<1>3. top \in FileType
  BY <1>1, Newest DEF TypeInv, top
<1>4. Opened(top, a, wanted) \in FileType
  BY <1>3, OpenedIs
<1>5. TopBecomes(Opened(top, a, wanted)) /\ top = files[1]
  BY <1>1, <1>2, <1>4, TopReplaced
<1>6. UNCHANGED <<crossed, left>>
  BY DEF Condition, RestUnchanged
<1>7. \A k \in DOMAIN conds : conds[k].at # a
  BY <1>2
<1>8. ConditionOpened(a, c, wanted)
  BY <1>2, <1>5, <1>6, <1>7 DEF ConditionOpened
<1>9. QED
  BY <1>2, <1>8

\* The newest condition was closed, with the newest one of the newest file.
ConditionClosed ==
  /\ \E f \in FileType :
       /\ f.first = files[1].first /\ f.nest = files[1].nest /\ f.end = files[1].end
       /\ Right(files[1]) => Right(f)
       /\ TopBecomes(Shut(f))
  /\ conds' = IF conds = <<>> THEN conds ELSE Tail(conds)
  /\ conds # <<>> /\ files[1].nest = <<>> /\ ~ crossed' => files[1].first # NoAddress
  /\ crossed => crossed'
  /\ UNCHANGED left

LEMMA EndifCloses == TypeInv /\ Endif => ConditionClosed
<1> SUFFICES ASSUME TypeInv, Endif PROVE ConditionClosed
  OBVIOUS
<1> DEFINE f == Counted(top, 1)
<1>1. files # <<>>
  BY DEF TypeInv, AfterLine, Endif, ReadDirective
<1>2. top \in FileType /\ top = files[1]
  BY <1>1, Newest DEF TypeInv, top
<1>3. /\ f \in FileType /\ f.first = top.first /\ f.nest = top.nest /\ f.end = top.end
      /\ Right(top) => Right(f)
  BY <1>2, CountedIs, CountedRight
<1>4. files' = <<Shut(f)>> \o Tail(files)
  BY Zenon DEF Endif, Shut
<1> HIDE DEF f
<1>5. Shut(f) \in FileType
  BY <1>3, ShutIs
<1>6. TopBecomes(Shut(f))
  BY <1>1, <1>4, <1>5, TopReplaced
<1>7. /\ conds' = IF conds = <<>> THEN conds ELSE Tail(conds)
      /\ crossed' = (crossed \/ (conds # <<>> /\ top.nest = <<>>))
      /\ UNCHANGED left
  BY DEF Endif, RestUnchanged
<1>8. QED
  BY <1>2, <1>3, <1>6, <1>7 DEF ConditionClosed

LEMMA PopConditionCloses == TypeInv /\ PopCondition => ConditionClosed
<1> SUFFICES ASSUME TypeInv, PopCondition PROVE ConditionClosed
  OBVIOUS
<1>1. files # <<>> /\ files \in Seq(FileType)
  BY DEF TypeInv, PopCondition
<1>2. top \in FileType /\ top = files[1]
  BY <1>1, Newest DEF top
<1>3. files' = <<Shut(top)>> \o Tail(files)
  BY Zenon DEF PopCondition, Shut
<1>4. TopBecomes(Shut(top))
  BY <1>1, <1>2, <1>3, ShutIs, TopReplaced
<1>5. /\ conds' = IF conds = <<>> THEN conds ELSE Tail(conds)
      /\ crossed' = crossed /\ UNCHANGED left /\ top.first # NoAddress
  BY DEF PopCondition, RestUnchanged
<1>6. QED
  BY <1>2, <1>4, <1>5 DEF ConditionClosed

\* The newest condition goes on with another branch.
ConditionBranched(c) ==
  /\ TopBecomes(Branch(Counted(files[1], 1), c))
  /\ \E elsed \in BOOLEAN :
       conds' = IF conds = <<>> THEN conds
                ELSE <<ElseCondition(Head(conds), c, elsed)>> \o Tail(conds)
  /\ conds # <<>> /\ ~ crossed' => files[1].nest # <<>>
  /\ crossed => crossed'
  /\ UNCHANGED left

LEMMA BranchBranches ==
  ASSUME TypeInv, NEW c \in BOOLEAN, NEW elsed \in BOOLEAN, ElseOrElif(c, elsed)
  PROVE  ConditionBranched(c)
<1>1. files # <<>>
  BY DEF TypeInv, AfterLine, ElseOrElif, ReadDirective
<1>2. top \in FileType /\ top = files[1]
  BY <1>1, Newest DEF TypeInv, top
<1>3. Counted(top, 1) \in FileType
  BY <1>2, CountedIs
<1>4. Branch(Counted(top, 1), c) \in FileType
  BY <1>3, BranchIs
<1>5. files' = <<Branch(Counted(top, 1), c)>> \o Tail(files)
  BY DEF ElseOrElif, BranchCondition
<1>6. TopBecomes(Branch(Counted(top, 1), c))
  BY <1>1, <1>4, <1>5, TopReplaced
<1>7. /\ conds' = IF conds = <<>> THEN conds
                  ELSE <<ElseCondition(Head(conds), c, elsed)>> \o Tail(conds)
      /\ crossed' = (crossed \/ (conds # <<>> /\ top.nest = <<>>))
      /\ UNCHANGED left
  BY DEF ElseOrElif, BranchCondition, RestUnchanged
<1>8. QED
  BY <1>2, <1>6, <1>7 DEF ConditionBranched

LEMMA DirectiveIs ==
  ASSUME TypeInv, NEW behind \in SUBSET {"eof"}, ReadDirective(behind)
  PROVE  /\ pc = "lines" /\ files # <<>> /\ pc' \in AfterLine
         /\ pc' = "eof" => Len(files) > 1
BY DEF ReadDirective, AfterLine, TypeInv

LEMMA BranchReads ==
  ASSUME NEW c, NEW elsed \in BOOLEAN, ElseOrElif(c, elsed)
  PROVE  \E behind \in SUBSET {"eof"} : ReadDirective(behind)
<1>1. (IF elsed THEN {"eof"} ELSE {}) \in SUBSET {"eof"}
  OBVIOUS
<1>2. QED
  BY <1>1 DEF ElseOrElif

Opens == If \/ Ifdef \/ Ifndef

LEMMA OpensIs ==
  ASSUME TypeInv, Opens
  PROVE  \E c, wanted \in BOOLEAN : \E behind \in SUBSET {"eof"} :
           Condition(c, wanted, behind) /\ (defined = meant => c = wanted)
<1>1. CASE If
  BY <1>1 DEF If
<1>2. CASE Ifdef
  BY <1>2 DEF Ifdef, TypeInv
<1>3. CASE Ifndef
  <2>1. (~ defined) \in BOOLEAN /\ (~ meant) \in BOOLEAN /\ Condition(~ defined, ~ meant, {"eof"})
    BY <1>3 DEF Ifndef, TypeInv
  <2>2. defined = meant => (~ defined) = (~ meant)
    OBVIOUS
  <2>3. QED
    BY <2>1, <2>2
<1>4. QED
  BY <1>1, <1>2, <1>3 DEF Opens

LEMMA NextIs ==
  ASSUME [Next]_vars
  PROVE  \/ Line \/ Opens
         \/ \E c \in BOOLEAN, elsed \in BOOLEAN : ElseOrElif(c, elsed)
         \/ Endif \/ IncludeFile \/ DataFile \/ EndFile
         \/ PopCondition \/ EndPop \/ After \/ Complete \/ Terminate \/ NextSource
         \/ UNCHANGED vars
<1>1. Elif \/ Else => \E c \in BOOLEAN, elsed \in BOOLEAN : ElseOrElif(c, elsed)
  BY DEF Elif, Else
<1>2. Stopped => UNCHANGED vars
  BY DEF Stopped
<1>3. Directive => \/ Line \/ Opens \/ Elif \/ Else \/ Endif \/ IncludeFile
  BY DEF Directive, Line, Opens
<1>4. QED
  BY <1>1, <1>2, <1>3 DEF Next, Line, After
-----------------------------------------------------------------------------
(* Types.                                                                  *)

LEMMA ConditionsTyped ==
  ASSUME TypeInv
  PROVE  /\ AssemblyOn(conds) \in BOOLEAN
         /\ \A a \in Address, c \in BOOLEAN :
              conds' = <<[at |-> a, inherited |-> AssemblyOn(conds),
                          state |-> AssemblyOn(conds) /\ c, elsed |-> FALSE]>> \o conds
                => conds' \in Seq(ConditionType)
         /\ \A c, elsed \in BOOLEAN :
              conds' = (IF conds = <<>> THEN conds
                        ELSE <<ElseCondition(Head(conds), c, elsed)>> \o Tail(conds))
                => conds' \in Seq(ConditionType)
         /\ ConditionClosed => conds' \in Seq(ConditionType)
<1>1. conds \in Seq(ConditionType)
  BY DEF TypeInv
<1>2. conds # <<>> => /\ Head(conds) \in ConditionType
                      /\ Tail(conds) \in Seq(ConditionType)
  BY <1>1, Newest
<1>3. AssemblyOn(conds) \in BOOLEAN
  BY <1>2 DEF AssemblyOn, ConditionType
<1>4. ASSUME NEW a \in Address, NEW c \in BOOLEAN,
             conds' = <<[at |-> a, inherited |-> AssemblyOn(conds),
                         state |-> AssemblyOn(conds) /\ c, elsed |-> FALSE]>> \o conds
      PROVE  conds' \in Seq(ConditionType)
  <2> DEFINE on == AssemblyOn(conds)
             state == on /\ c
             s == [at |-> a, inherited |-> on, state |-> state, elsed |-> FALSE]
  <2>1. on \in BOOLEAN /\ state \in BOOLEAN
    BY <1>3
  <2>2. conds' = <<s>> \o conds
    BY <1>4
  <2> HIDE DEF on, state
  <2>3. s \in ConditionType
    BY <2>1 DEF ConditionType
  <2> HIDE DEF s
  <2>4. QED
    BY <1>1, <2>2, <2>3, Pushed
<1>6. ASSUME NEW c \in BOOLEAN, NEW elsed \in BOOLEAN,
             conds' = (IF conds = <<>> THEN conds
                       ELSE <<ElseCondition(Head(conds), c, elsed)>> \o Tail(conds))
      PROVE  conds' \in Seq(ConditionType)
  <2>2. CASE conds # <<>>
    <3> DEFINE t == ElseCondition(Head(conds), c, elsed)
    <3>1. t \in ConditionType
      BY <1>2, <2>2, ElseConditionIs
    <3>2. conds' = <<t>> \o Tail(conds)
      BY <1>6, <2>2
    <3> HIDE DEF t
    <3>3. QED
      BY <1>2, <2>2, <3>1, <3>2, Pushed
  <2>3. QED
    BY <1>1, <1>6, <2>2
<1>7. ConditionClosed => conds' \in Seq(ConditionType)
  BY <1>1, <1>2 DEF ConditionClosed
<1>8. QED
  BY <1>3, <1>4, <1>6, <1>7

\* The addresses of conditions stay apart when one is opened or branches.
LEMMA PushedApart ==
  ASSUME TypeInv, Distinct, NEW a \in Address, NEW c \in BOOLEAN,
         \A k \in DOMAIN conds : conds[k].at # a,
         conds' = <<[at |-> a, inherited |-> AssemblyOn(conds),
                     state |-> AssemblyOn(conds) /\ c, elsed |-> FALSE]>> \o conds
  PROVE  Distinct'
<1>0. conds \in Seq(ConditionType) /\ Len(conds) \in Nat /\ DOMAIN conds = 1 .. Len(conds)
  BY DEF TypeInv
<1> DEFINE s == [at |-> a, inherited |-> AssemblyOn(conds),
                 state |-> AssemblyOn(conds) /\ c, elsed |-> FALSE]
<1>3. s \in ConditionType /\ s.at = a
  <2>1. AssemblyOn(conds) \in BOOLEAN
    BY ConditionsTyped
  <2>2. QED
    BY <2>1 DEF ConditionType
<1>4. conds' = <<s>> \o conds /\ \A k \in 1 .. Len(conds) : conds[k].at # a
  BY <1>0
<1> HIDE DEF s
<1>5. /\ DOMAIN conds' = 1 .. Len(conds) + 1 /\ conds'[1] = s
      /\ \A i \in 2 .. Len(conds) + 1 : conds'[i] = conds[i - 1]
  BY <1>0, <1>3, <1>4, Pushed
<1>6. \A i \in 2 .. Len(conds) + 1 : i - 1 \in DOMAIN conds
  BY <1>0
<1>7. ASSUME NEW i \in 1 .. Len(conds) + 1, NEW k \in 1 .. Len(conds) + 1,
             conds'[i].at = conds'[k].at
      PROVE  i = k
  <2>1. i = 1 \/ i \in 2 .. Len(conds) + 1
    OBVIOUS
  <2>2. k = 1 \/ k \in 2 .. Len(conds) + 1
    OBVIOUS
  <2>3. CASE i = 1 \/ k = 1
    BY <1>0, <1>3, <1>4, <1>5, <1>6, <1>7, <2>1, <2>2, <2>3
  <2>4. CASE i \in 2 .. Len(conds) + 1 /\ k \in 2 .. Len(conds) + 1
    <3>1. conds[i - 1].at = conds[k - 1].at
      BY <1>5, <1>7, <2>4
    <3>2. i - 1 = k - 1
      BY <1>6, <2>4, <3>1 DEF Distinct
    <3>3. QED
      BY <2>4, <3>2
  <2>5. QED
    BY <2>1, <2>2, <2>3, <2>4
<1>8. QED
  BY <1>5, <1>7 DEF Distinct

LEMMA BranchedApart ==
  ASSUME TypeInv, Distinct, NEW c \in BOOLEAN, NEW elsed \in BOOLEAN,
         conds' = IF conds = <<>> THEN conds
                  ELSE <<ElseCondition(Head(conds), c, elsed)>> \o Tail(conds)
  PROVE  Distinct'
<1>0. conds \in Seq(ConditionType) /\ Len(conds) \in Nat /\ DOMAIN conds = 1 .. Len(conds)
  BY DEF TypeInv
<1>2. CASE conds = <<>>
  BY <1>2 DEF Distinct
<1>3. CASE conds # <<>>
  <2> DEFINE t == ElseCondition(Head(conds), c, elsed)
  <2>2. t \in ConditionType /\ t.at = conds[1].at
    BY <1>0, <1>3, Newest, ElseConditionIs
  <2> HIDE DEF t
  <2>3. conds' = <<t>> \o Tail(conds)
    BY <1>3 DEF t
  <2>4. /\ DOMAIN conds' = DOMAIN conds /\ conds'[1] = t
        /\ \A k \in 2 .. Len(conds) : conds'[k] = conds[k]
    BY <1>0, <1>3, <2>2, <2>3, Replaced
  <2>5. \A k \in DOMAIN conds : k = 1 \/ k \in 2 .. Len(conds)
    BY <1>0
  <2>6. \A k \in DOMAIN conds : conds'[k].at = conds[k].at
    BY <2>2, <2>4, <2>5
  <2>7. QED
    BY <2>4, <2>6 DEF Distinct
<1>4. QED
  BY <1>2, <1>3

\* What a directive that goes on in another file does, and that it does nothing when
\* its action was done before.
LEMMA CompleteIs ==
  ASSUME TypeInv, Complete
  PROVE  /\ \E g \in FileType :
              /\ TopBecomes(g) /\ Right(g) /\ g.end = files[1].end
              /\ parse = "done" => g.first = files[1].first /\ g.nest = files[1].nest
         /\ conds' \in Seq(ConditionType) /\ (Distinct => Distinct')
         /\ defined' \in BOOLEAN /\ failed' \in BOOLEAN /\ (~ failed' => ~ failed)
         /\ parse = "done" => UNCHANGED <<conds, defined>>
<1> DEFINE f == Late(top)
<1>1. files # <<>> /\ CarryOut /\ pc' \in {"lines", "term"}
  BY DEF Complete, TypeInv
<1>2. top \in FileType /\ top = files[1]
  BY <1>1, Newest DEF TypeInv, top
<1>3. /\ f \in FileType /\ Right(f) /\ f.end = files[1].end /\ f.first = files[1].first
      /\ f.nest = files[1].nest
  BY <1>2, LateIs
<1> HIDE DEF f
<1>4. CASE files' = <<f>> \o Tail(files) /\ UNCHANGED conds
           /\ \/ UNCHANGED <<defined, failed>>
              \/ parse = "open" /\ defined' = FALSE /\ UNCHANGED failed
              \/ parse = "collect" /\ defined' = TRUE /\ UNCHANGED failed
              \/ parse = "collect" /\ failed' = TRUE /\ UNCHANGED defined
  <2>1. TopBecomes(f)
    BY <1>1, <1>3, <1>4, TopReplaced
  <2>2. Distinct => Distinct'
    BY <1>4 DEF Distinct
  <2>3. /\ defined' \in BOOLEAN /\ failed' \in BOOLEAN /\ (~ failed' => ~ failed)
        /\ parse = "done" => defined' = defined
    BY <1>4 DEF TypeInv
  <2>4. conds' \in Seq(ConditionType)
    BY <1>4 DEF TypeInv
  <2>5. QED
    BY <1>3, <1>4, <2>1, <2>2, <2>3, <2>4
<1>5. ASSUME parse = "open", NEW c \in BOOLEAN, PushCondition(f, c, c),
             UNCHANGED <<defined, failed>>
      PROVE  /\ \E g \in FileType : TopBecomes(g) /\ Right(g) /\ g.end = files[1].end
             /\ conds' \in Seq(ConditionType) /\ (Distinct => Distinct')
  <2>1. PICK a \in Address \ {conds[k].at : k \in DOMAIN conds} :
          /\ conds' = <<[at |-> a, inherited |-> AssemblyOn(conds),
                         state |-> AssemblyOn(conds) /\ c, elsed |-> FALSE]>> \o conds
          /\ files' = <<Owning(f, a, c)>> \o Tail(files)
    BY <1>5 DEF PushCondition, Owning
  <2>2. /\ Owning(f, a, c) \in FileType /\ Owning(f, a, c).end = f.end
        /\ Right(Owning(f, a, c))
    BY <1>3, OwningIs
  <2>3. TopBecomes(Owning(f, a, c))
    BY <1>1, <2>1, <2>2, TopReplaced
  <2>4. conds' \in Seq(ConditionType)
    BY <2>1, ConditionsTyped
  <2>5. \A k \in DOMAIN conds : conds[k].at # a
    BY <2>1
  <2>6. Distinct => Distinct'
    BY <2>1, <2>5, PushedApart
  <2>7. QED
    BY <1>3, <2>2, <2>3, <2>4, <2>6
<1>6. ASSUME parse = "open", NEW c \in BOOLEAN, BranchCondition(f, c, FALSE),
             UNCHANGED defined
      PROVE  /\ \E g \in FileType : TopBecomes(g) /\ Right(g) /\ g.end = files[1].end
             /\ conds' \in Seq(ConditionType) /\ (Distinct => Distinct')
             /\ failed' \in BOOLEAN /\ (~ failed' => ~ failed)
  <2>1. Branch(f, c) \in FileType /\ Branch(f, c).end = f.end /\ Right(Branch(f, c))
    BY <1>3, BranchIs
  <2>2. TopBecomes(Branch(f, c))
    BY <1>1, <1>6, <2>1, TopReplaced DEF BranchCondition
  <2>3. conds' = IF conds = <<>> THEN conds
                 ELSE <<ElseCondition(Head(conds), c, FALSE)>> \o Tail(conds)
    BY <1>6 DEF BranchCondition
  <2>4. conds' \in Seq(ConditionType) /\ (Distinct => Distinct')
    <3>1. FALSE \in BOOLEAN
      OBVIOUS
    <3>2. conds' \in Seq(ConditionType)
      BY <2>3, <3>1, ConditionsTyped, Zenon
    <3>3. Distinct => Distinct'
      BY <2>3, <3>1, BranchedApart
    <3>4. QED
      BY <3>2, <3>3
  <2>5. conds # <<>> => Head(conds).elsed \in BOOLEAN
    <3>1. conds # <<>> => Head(conds) \in ConditionType
      BY Newest DEF TypeInv
    <3>2. QED
      BY <3>1 DEF ConditionType
  <2>6. failed' \in BOOLEAN /\ (~ failed' => ~ failed)
    <3> DEFINE e == IF conds = <<>> THEN TRUE ELSE Head(conds).elsed
    <3>1. e \in BOOLEAN
      BY <2>5
    <3>2. Errors(e)
      BY <1>6 DEF BranchCondition
    <3> HIDE DEF e
    <3>3. QED
      BY <3>1, <3>2 DEF Errors, TypeInv
  <2>7. QED
    BY <1>3, <2>1, <2>2, <2>4, <2>6
<1>7. \/ /\ files' = <<f>> \o Tail(files) /\ UNCHANGED conds
         /\ \/ UNCHANGED <<defined, failed>>
            \/ parse = "open" /\ defined' = FALSE /\ UNCHANGED failed
            \/ parse = "collect" /\ defined' = TRUE /\ UNCHANGED failed
            \/ parse = "collect" /\ failed' = TRUE /\ UNCHANGED defined
      \/ \E c \in BOOLEAN : /\ parse = "open" /\ PushCondition(f, c, c)
                            /\ UNCHANGED <<defined, failed>>
      \/ \E c \in BOOLEAN : /\ parse = "open" /\ BranchCondition(f, c, FALSE)
                            /\ UNCHANGED defined
  BY <1>1 DEF CarryOut, f
<1>8. QED
  BY <1>4, <1>5, <1>6, <1>7 DEF TypeInv

LEMMA EndOfInputIs ==
  ASSUME EndOfInput PROVE reader' = "parse" /\ pc' \in {"lines", "term"}
BY DEF EndOfInput

\* A line that is read leaves the rest of it, the next line or the end of its file.
LEMMA LineGoesOn ==
  ASSUME TypeInv, Line
  PROVE  /\ pc' \in AfterLine /\ (pc' = "eof" => Len(files) > 1)
         /\ reader' \in {"parse", "data"} /\ parse' = parse
<1>0. pc \in AfterLine /\ reader \in {"parse", "data"} /\ pc = "lines"
  BY LineIs DEF TypeInv, AfterLine
<1>1. CASE Text \/ SyntaxError \/ Skip \/ Incomplete \/ IncludeNotFound \/ IncludeTooDeep
  BY <1>0, <1>1 DEF Text, SyntaxError, Skip, Incomplete, IncludeNotFound, IncludeTooDeep,
                    ReadLine, RestUnchanged
<1>2. CASE Unknown
  BY <1>0, <1>2 DEF Unknown, AfterLine, RestUnchanged
<1>3. ASSUME NEW d \in BOOLEAN, Define(d)
      PROVE  pc' \in AfterLine /\ (pc' = "eof" => Len(files) > 1)
  <2>1. CASE d
    BY <1>0, <1>3, <2>1 DEF Define, ReadLine
  <2>2. CASE ~ d
    BY <1>3, <2>2, DirectiveIs DEF Define
  <2>3. QED
    BY <2>1, <2>2
<1>4. CASE \E error \in BOOLEAN : Message(error)
  BY <1>0, <1>4 DEF Message, ReadLine, RestUnchanged
<1>5. CASE \E n \in LineNumbers : ChangeLocation(n)
  <2>1. ReadDirective({}) /\ UNCHANGED <<reader, parse>>
    BY <1>5 DEF ChangeLocation, RestUnchanged
  <2>2. QED
    BY <1>0, <2>1, DirectiveIs
<1>6. (\E d \in BOOLEAN : Define(d)) => UNCHANGED <<reader, parse>>
  BY DEF Define, RestUnchanged
<1>7. QED
  BY <1>0, <1>1, <1>2, <1>3, <1>4, <1>5, <1>6 DEF Line

LEMMA NextTypes == TypeInv /\ [Next]_vars => TypeInv'
<1> SUFFICES ASSUME TypeInv, [Next]_vars PROVE TypeInv'
  OBVIOUS
<1>0. Resume => mode' \in {"on", "gobble"}
  BY DEF Resume
<1>0a. ASSUME NEW found \in BOOLEAN, Errors(found) PROVE failed' \in BOOLEAN
  BY <1>0a DEF Errors, TypeInv
<1>1. CASE Line
  <2>1. /\ files' \in Seq(FileType) /\ conds' \in Seq(ConditionType) /\ files' # <<>>
        /\ Len(files') = Len(files) /\ crossed' \in BOOLEAN /\ object' \in BOOLEAN
        /\ left' \in BOOLEAN /\ whole' \in BOOLEAN /\ pc = "lines"
    BY <1>1, LineIs DEF LineRead, TypeInv
  <2>2. /\ pc' \in AfterLine /\ (pc' = "eof" => Len(files') > 1)
        /\ reader' \in {"parse", "data"} /\ parse' \in {"none", "done", "open", "collect"}
    BY <1>1, <2>1, LineGoesOn DEF TypeInv
  <2>3. mode' \in {"on", "gobble"}
    BY <1>0, <1>1
    DEF TypeInv, Line, Text, SyntaxError, Skip, Incomplete, Unknown, Define, Message,
        ChangeLocation, IncludeNotFound, IncludeTooDeep
  <2>4. defined' \in BOOLEAN /\ meant' \in BOOLEAN /\ failed' \in BOOLEAN
    <3>1. CASE \E d \in BOOLEAN : Define(d)
      <4>1. PICK d \in BOOLEAN : Define(d)
        BY <3>1
      <4>2. defined' = d /\ (meant' = d \/ meant' = meant) /\ Errors(FALSE)
        BY <4>1 DEF Define
      <4>3. QED
        BY <1>0a, <4>2 DEF TypeInv
    <3>2. CASE \E error \in BOOLEAN : Message(error)
      BY <3>2 DEF Message, TypeInv
    <3>3. CASE Text \/ SyntaxError \/ Skip \/ Incomplete
                 \/ IncludeNotFound \/ IncludeTooDeep
      BY <3>3 DEF TypeInv, Text, SyntaxError, Skip, Incomplete,
                  IncludeNotFound, IncludeTooDeep
    <3>4. CASE (\E n \in LineNumbers : ChangeLocation(n)) \/ Unknown
      BY <1>0a, <3>4 DEF TypeInv, ChangeLocation, Unknown
    <3>5. QED
      BY <1>1, <3>1, <3>2, <3>3, <3>4 DEF Line
  <2>5. QED
    BY <2>1, <2>2, <2>3, <2>4 DEF TypeInv, AfterLine, Reading
<1>2. CASE Opens
  <2>1. PICK c, wanted \in BOOLEAN, behind \in SUBSET {"eof"} :
          Condition(c, wanted, behind)
    BY <1>2, OpensIs
  <2>2. PICK a \in Address : ConditionOpened(a, c, wanted)
    BY <2>1, ConditionOpens
  <2>3. /\ files' \in Seq(FileType) /\ conds' \in Seq(ConditionType) /\ files' # <<>>
        /\ Len(files') = Len(files)
    BY <2>2, ConditionsTyped DEF ConditionOpened, TopBecomes
  <2>4. /\ mode' \in {"on", "gobble"} /\ failed' \in BOOLEAN
        /\ UNCHANGED <<defined, reader, meant, crossed, parse, object, left, whole>>
    BY <1>0, <1>0a, <2>1 DEF Condition, RestUnchanged
  <2>5. pc' \in AfterLine /\ (pc' = "eof" => Len(files') > 1)
    BY <2>1, <2>3, DirectiveIs DEF Condition
  <2>6. QED
    BY <2>3, <2>4, <2>5 DEF TypeInv, AfterLine, Reading
<1>3. CASE \E c \in BOOLEAN, elsed \in BOOLEAN : ElseOrElif(c, elsed)
  <2>1. PICK c \in BOOLEAN, elsed \in BOOLEAN : ElseOrElif(c, elsed)
    BY <1>3
  <2>2. ConditionBranched(c)
    BY <2>1, BranchBranches
  <2>3. /\ files' \in Seq(FileType) /\ conds' \in Seq(ConditionType) /\ files' # <<>>
        /\ Len(files') = Len(files)
    BY <2>2, ConditionsTyped DEF ConditionBranched, TopBecomes
  <2>4. /\ mode' \in {"on", "gobble"}
        /\ UNCHANGED <<defined, reader, meant, parse, object, left, whole>>
    BY <1>0, <2>1 DEF ElseOrElif, RestUnchanged
  <2>5. failed' \in BOOLEAN /\ crossed' \in BOOLEAN
    <3>1. conds # <<>> => Head(conds).elsed \in BOOLEAN
      <4>1. conds # <<>> => Head(conds) \in ConditionType
        BY Newest DEF TypeInv
      <4>2. QED
        BY <4>1 DEF ConditionType
    <3>2. (IF conds = <<>> THEN TRUE ELSE Head(conds).elsed) \in BOOLEAN
      BY <3>1
    <3>3. Errors(IF conds = <<>> THEN TRUE ELSE Head(conds).elsed)
      BY <2>1 DEF ElseOrElif, BranchCondition
    <3>4. crossed' = (crossed \/ (conds # <<>> /\ top.nest = <<>>))
      BY <2>1 DEF ElseOrElif
    <3>5. failed' \in BOOLEAN
      BY <1>0a, <3>2, <3>3
    <3>6. QED
      BY <3>4, <3>5 DEF TypeInv
  <2>6. pc' \in AfterLine /\ (pc' = "eof" => Len(files') > 1)
    <3>1. PICK behind \in SUBSET {"eof"} : ReadDirective(behind)
      BY <2>1, BranchReads
    <3>2. QED
      BY <2>3, <3>1, DirectiveIs
  <2>7. QED
    BY <2>3, <2>4, <2>5, <2>6 DEF TypeInv, AfterLine, Reading
<1>4. CASE Endif
  <2>1. /\ files' \in Seq(FileType) /\ conds' \in Seq(ConditionType) /\ files' # <<>>
        /\ Len(files') = Len(files)
    BY <1>4, EndifCloses, ConditionsTyped DEF ConditionClosed, TopBecomes
  <2>2. /\ mode' \in {"on", "gobble"}
        /\ UNCHANGED <<defined, reader, meant, parse, object, left, whole>>
        /\ crossed' \in BOOLEAN
    BY <1>0, <1>4 DEF Endif, RestUnchanged, TypeInv
  <2>3. failed' \in BOOLEAN
    BY <1>4 DEF Endif, Errors, TypeInv
  <2>4. pc' \in AfterLine /\ (pc' = "eof" => Len(files') > 1)
    BY <1>4, <2>1, DirectiveIs DEF Endif
  <2>5. QED
    BY <2>1, <2>2, <2>3, <2>4 DEF TypeInv, AfterLine, Reading
<1>5. CASE IncludeFile
  <2>1. files' \in Seq(FileType) /\ files' # <<>>
    BY <1>5, IncludeOpens DEF FileOpened
  <2>2. /\ UNCHANGED <<conds, mode, defined, reader, failed, meant, crossed, parse, object,
                       left, whole>>
        /\ pc = "lines" /\ pc' = "lines"
    BY <1>5 DEF IncludeFile, ReadLine, RestUnchanged
  <2>3. QED
    BY <2>1, <2>2 DEF TypeInv, AfterLine, Reading
<1>6. CASE DataFile
  <2>1. files' \in Seq(FileType) /\ files' # <<>>
    BY <1>6, DataOpens DEF FileOpened, DataFile, ReadLine, TypeInv, AfterLine
  <2>2. reader' \in {"parse", "data"} /\ failed' \in BOOLEAN
    BY <1>6 DEF DataFile, TypeInv
  <2>3. /\ UNCHANGED <<conds, mode, defined, meant, crossed, parse, object, left, whole>>
        /\ pc = "lines" /\ pc' = "lines"
    BY <1>6 DEF DataFile, ReadLine, RestUnchanged
  <2>4. QED
    BY <2>1, <2>2, <2>3 DEF TypeInv, AfterLine, Reading
<1>7. CASE EndFile
  <2>1. /\ UNCHANGED <<files, conds, defined, parse, object, meant, crossed, left>>
        /\ pc \in {"lines", "garbage"}
    BY <1>7 DEF EndFile
  <2>2. CASE Len(files) > 1 /\ BeginPop /\ pc' = "wrap" /\ UNCHANGED <<reader, whole>>
    BY <2>1, <2>2 DEF BeginPop, TypeInv, AfterLine, Reading
  <2>3. CASE /\ Len(files) = 1 /\ pc' = "term" /\ reader' = "parse" /\ whole' = TRUE
             /\ UNCHANGED <<failed, mode>>
    BY <2>1, <2>3 DEF TypeInv, AfterLine, Reading
  <2>4. QED
    BY <1>7, <2>2, <2>3 DEF EndFile
<1>8. CASE PopCondition
  <2>1. /\ files' \in Seq(FileType) /\ conds' \in Seq(ConditionType) /\ files' # <<>>
        /\ Len(files') = Len(files)
    BY <1>8, PopConditionCloses, ConditionsTyped DEF ConditionClosed, TopBecomes
  <2>2. /\ UNCHANGED <<mode, defined, reader, meant, crossed, parse, object, left, whole>>
        /\ pc \in {"wrap", "pop"} /\ pc' = pc /\ failed' \in BOOLEAN
    BY <1>8 DEF PopCondition, RestUnchanged, TypeInv
  <2>3. QED
    BY <2>1, <2>2 DEF TypeInv, AfterLine, Reading
<1>9. CASE EndPop
  <2>1. /\ pc \in {"wrap", "pop"} /\ files' = Tail(files) /\ files # <<>>
        /\ UNCHANGED <<conds, mode, defined, failed, meant, parse, object, left, whole>>
        /\ crossed' = (crossed \/ (pc = "wrap" /\ parse \in {"open", "collect"}))
    BY <1>9 DEF EndPop, RestUnchanged, TypeInv
  <2>2. /\ files' \in Seq(FileType) /\ Len(files') = Len(files) - 1
        /\ Len(files) \in Nat
    BY <2>1, Newest DEF TypeInv
  <2>3. /\ pc = "wrap" => pc' \in {"lines", "term", "joined", "completed"} /\ files' # <<>>
        /\ pc = "pop" => pc' = "main"
        /\ reader' \in {"parse", "data"}
    <3>1. pc = "wrap" => files' # <<>>
      BY <2>2 DEF TypeInv
    <3>2. QED
      BY <1>9, <3>1, EndOfInputIs DEF EndPop, TypeInv
  <2>4. pc' \in {"joined", "completed"} => crossed' \/ parse' = "done"
    <3>1. pc' \in {"joined", "completed"} => pc = "wrap" /\ parse # "none"
      BY <1>9, EndOfInputIs DEF EndPop
    <3>2. QED
      BY <2>1, <3>1 DEF TypeInv
  <2>5. crossed' \in BOOLEAN
    BY <2>1 DEF TypeInv
  <2>6. QED
    BY <2>1, <2>2, <2>3, <2>4, <2>5 DEF TypeInv, AfterLine, Reading
<1>9a. CASE After
  <2>1. /\ files' \in Seq(FileType) /\ Len(files') = Len(files) /\ files' # <<>>
        /\ UNCHANGED <<conds, crossed, object, left, whole>>
    BY <1>9a, AfterIs DEF LineRead
  <2>2. UNCHANGED <<defined, meant>>
    BY <1>9a DEF After, Garbage, EndInDirective, JoinedText, JoinedDirective, JoinedEnd
  <2>3. CASE Garbage
    <3>1. /\ pc' \in {"lines", "term"} /\ reader' \in {"parse", "data"}
          /\ UNCHANGED <<mode, failed, parse>>
      BY <2>3, EndOfInputIs DEF Garbage, RestUnchanged, TypeInv
    <3>2. QED
      BY <2>1, <2>2, <3>1 DEF TypeInv, AfterLine, Reading
  <2>4. CASE EndInDirective
    <3>1. /\ Len(files') > 1 /\ BeginPop /\ pc' = "wrap" /\ reader' = reader
          /\ parse' \in {"done", "open", "collect"}
      BY <2>1, <2>4 DEF EndInDirective
    <3>2. QED
      BY <2>1, <2>2, <3>1 DEF BeginPop, TypeInv, AfterLine, Reading
  <2>5. CASE JoinedText \/ JoinedDirective
    <3>1. /\ pc = "joined" /\ pc' \in {"joined", "completed", "aborted"}
          /\ UNCHANGED <<mode, reader, parse>> /\ failed' \in BOOLEAN
      BY <2>5 DEF JoinedText, JoinedDirective, Joined, RestUnchanged, TypeInv
    <3>2. QED
      BY <2>1, <2>2, <3>1 DEF TypeInv, AfterLine, Reading
  <2>6. CASE JoinedEnd
    <3>1. pc = "joined" /\ UNCHANGED <<reader, parse>>
      BY <2>6 DEF JoinedEnd, RestUnchanged
    <3>2. CASE Len(files) > 1 /\ BeginPop /\ pc' = "wrap"
      BY <2>1, <2>2, <3>1, <3>2 DEF BeginPop, TypeInv, AfterLine, Reading
    <3>3. CASE Len(files) = 1 /\ pc' = "last" /\ UNCHANGED <<failed, mode>>
      BY <2>1, <2>2, <3>1, <3>3 DEF TypeInv, AfterLine, Reading
    <3>4. QED
      BY <2>6, <3>2, <3>3 DEF JoinedEnd
  <2>7. QED
    BY <1>9a, <2>3, <2>4, <2>5, <2>6 DEF After
<1>9b. CASE Complete
  <2>1. /\ files' \in Seq(FileType) /\ files' # <<>> /\ conds' \in Seq(ConditionType)
        /\ defined' \in BOOLEAN /\ failed' \in BOOLEAN
    <3>1. PICK g \in FileType : TopBecomes(g)
      BY <1>9b, CompleteIs
    <3>2. files' \in Seq(FileType) /\ files' # <<>>
      BY <3>1 DEF TopBecomes
    <3>3. conds' \in Seq(ConditionType) /\ defined' \in BOOLEAN /\ failed' \in BOOLEAN
      BY <1>9b, CompleteIs
    <3>4. QED
      BY <3>2, <3>3
  <2>2. /\ UNCHANGED <<object, meant, crossed, left>> /\ parse' = "none"
        /\ mode' \in {"on", "gobble"} /\ pc' \in {"lines", "term"}
        /\ reader' \in {"parse", "data"} /\ whole' \in BOOLEAN
    BY <1>0, <1>9b DEF Complete, TypeInv
  <2>3. QED
    BY <2>1, <2>2 DEF TypeInv, AfterLine, Reading
<1>10. CASE Terminate
  BY <1>10 DEF Terminate, BeginPop, TypeInv, AfterLine, Reading
<1>11. CASE NextSource
  <2>1. pc = "main" /\ defined' \in BOOLEAN /\ meant' = defined' /\ left' \in BOOLEAN
        /\ whole' = FALSE /\ UNCHANGED <<conds, mode, parse, crossed>>
    BY <1>11 DEF NextSource
  <2>2. CASE CanPush
    <3>1. /\ files' = <<File(FALSE)>> \o files /\ pc' = "lines"
          /\ failed' = FALSE /\ reader' = "parse" /\ object' = FALSE
      BY <1>11, <2>2 DEF NextSource
    <3>2. FileOpened(FALSE)
      BY <3>1, PushedFile DEF TypeInv
    <3>3. QED
      BY <2>1, <3>1, <3>2 DEF FileOpened, TypeInv, AfterLine, Reading
  <2>3. CASE ~ CanPush
    BY <1>11, <2>1, <2>3 DEF NextSource, TypeInv, AfterLine, Reading
  <2>4. QED
    BY <2>2, <2>3
<1>12. CASE UNCHANGED vars
  BY <1>12 DEF vars, TypeInv
<1>13. QED
  BY <1>1, <1>2, <1>3, <1>4, <1>5, <1>6, <1>7, <1>8, <1>9, <1>9a, <1>9b, <1>10, <1>11, <1>12,
     NextIs
-----------------------------------------------------------------------------
(* Where an error is reported.                                             *)

LEMMA NextLocates == TypeInv /\ Located /\ [Next]_vars => Located'
<1> SUFFICES ASSUME TypeInv, Located, [Next]_vars PROVE Located'
  OBVIOUS
<1>1. CASE Line
  BY <1>1, LineIs DEF LineRead
<1>2. CASE Opens
  <2>1. PICK c, wanted \in BOOLEAN, behind \in SUBSET {"eof"} :
          Condition(c, wanted, behind)
    BY <1>2, OpensIs
  <2>2. PICK a \in Address : ConditionOpened(a, c, wanted)
    BY <2>1, ConditionOpens
  <2>3. TopBecomes(Opened(files[1], a, wanted))
    BY <2>2 DEF ConditionOpened
  <2>4. Right(files[1]) => Right(Opened(files[1], a, wanted))
    BY <2>3, OpenedIs DEF TopBecomes
  <2>5. QED
    BY <2>3, <2>4 DEF TopBecomes
<1>3. CASE \E c \in BOOLEAN, elsed \in BOOLEAN : ElseOrElif(c, elsed)
  <2>1. PICK c \in BOOLEAN, elsed \in BOOLEAN : ElseOrElif(c, elsed)
    BY <1>3
  <2> DEFINE f == Counted(files[1], 1)
  <2>2. TopBecomes(Branch(f, c))
    BY <2>1, BranchBranches DEF ConditionBranched
  <2>3. f \in FileType /\ (Right(files[1]) => Right(f))
    BY <2>2, CountedIs, CountedRight DEF TopBecomes
  <2>4. Right(f) => Right(Branch(f, c))
    BY <2>3, BranchIs
  <2>5. QED
    BY <2>2, <2>3, <2>4 DEF TopBecomes
<1>4. ASSUME ConditionClosed PROVE Located'
  <2>1. PICK f \in FileType : (Right(files[1]) => Right(f)) /\ TopBecomes(Shut(f))
    BY <1>4 DEF ConditionClosed
  <2>2. Right(f) => Right(Shut(f))
    BY ShutIs
  <2>3. QED
    BY <2>1, <2>2 DEF TopBecomes
<1>5. CASE IncludeFile
  BY <1>5, IncludeOpens DEF FileOpened
<1>6. CASE DataFile
  <2>1. CASE FileOpened(TRUE)
    BY <2>1 DEF FileOpened
  <2>2. CASE UNCHANGED <<files, reader>>
    BY <2>2 DEF Located, Right
  <2>3. QED
    BY <1>6, <2>1, <2>2, DataOpens
<1>7. CASE UNCHANGED files
  BY <1>7 DEF Located, Right
<1>8. CASE EndPop
  <2>1. files # <<>> /\ files \in Seq(FileType) /\ files' = Tail(files)
    BY <1>8 DEF EndPop, TypeInv
  <2>2. /\ Len(files) \in Nat \ {0} /\ files' \in Seq(FileType)
        /\ Len(files') = Len(files) - 1
        /\ \A i \in 1 .. Len(files) - 1 : files'[i] = files[i + 1]
    BY <2>1, Newest
  <2>3. ASSUME NEW i \in 1 .. Len(files) - 1 PROVE Right(files'[i])
    <3>1. i + 1 \in DOMAIN files
      BY <2>1, <2>2
    <3>2. QED
      BY <2>2, <3>1 DEF Located
  <2>4. DOMAIN files' = 1 .. Len(files) - 1
    BY <2>2
  <2>5. QED
    BY <2>3, <2>4 DEF Located, Right
<1>9. CASE NextSource
  <2>1. CASE CanPush
    <3>1. FileOpened(FALSE)
      BY <1>9, <2>1, PushedFile DEF NextSource, TypeInv
    <3>2. QED
      BY <3>1 DEF FileOpened
  <2>2. CASE ~ CanPush
    BY <1>7, <1>9, <2>2 DEF NextSource
  <2>3. QED
    BY <2>1, <2>2
<1>10. CASE Endif \/ PopCondition
  BY <1>4, <1>10, EndifCloses, PopConditionCloses
<1>10a. CASE After
  BY <1>10a, AfterIs DEF LineRead
<1>10b. CASE Complete
  BY <1>10b, CompleteIs DEF TopBecomes
<1>11. EndFile \/ Terminate \/ UNCHANGED vars => UNCHANGED files
  BY DEF EndFile, Terminate, vars
<1>12. QED
  BY <1>1, <1>2, <1>3, <1>5, <1>6, <1>7, <1>8, <1>9, <1>10, <1>10a, <1>10b, <1>11, NextIs
-----------------------------------------------------------------------------
(* The end of a source.                                                    *)

\* Nothing happens to the end of files, unless it is an error.
LEMMA EndedKept ==
  ASSUME TypeInv, Ended, TypeInv', Len(files') = Len(files),
         \A i \in 1 .. Len(files) : files'[i].end = files[i].end,
         UNCHANGED <<object, left, whole>>, object => pc' = pc,
         ~ failed' => /\ ~ failed /\ reader' = reader /\ pc' # "garbage"
                      /\ pc' = pc \/ {pc, pc'} \subseteq Reading
  PROVE  Ended'
<1>1. /\ Len(files) \in Nat /\ DOMAIN files = 1 .. Len(files)
      /\ DOMAIN files' = 1 .. Len(files)
      /\ files # <<>> <=> Len(files) # 0
      /\ files' # <<>> <=> Len(files) # 0
  BY DEF TypeInv
<1>2. Len(files) # 0 => files'[Len(files')].end = files[Len(files)].end
  BY <1>1
<1>3. (\E i \in DOMAIN files' : files'[i].end) => (\E i \in DOMAIN files : files[i].end)
  BY <1>1
<1>4. (\A i, k \in DOMAIN files : files[i].end /\ files[k].end => i = k)
      => (\A i, k \in DOMAIN files' : files'[i].end /\ files'[k].end => i = k)
  BY <1>1
<1>5. object' => pc' \in {"pop", "main"}
  BY DEF Ended
<1>6. ASSUME ~ left'
      PROVE  /\ object' => whole' /\ Len(files') = (IF pc' = "pop" THEN 1 ELSE 0)
             /\ files' # <<>> => ~ files'[Len(files')].end
  BY <1>1, <1>2, <1>6 DEF Ended
<1>7. ASSUME ~ left', ~ failed'
      PROVE  /\ pc' = "term" => whole' /\ Len(files') = 1
             /\ pc' \in Reading =>
                  /\ (\E i \in DOMAIN files' : files'[i].end) => reader' = "data"
                  /\ \A i, k \in DOMAIN files' : files'[i].end /\ files'[k].end => i = k
  <2>1. ~ left /\ ~ failed /\ reader' = reader
    BY <1>7
  <2>2. pc' = "term" => pc = "term"
    BY <1>7 DEF Reading
  <2>3. pc' \in Reading => pc \in Reading
    BY <1>7
  <2>4. pc' = "term" => whole' /\ Len(files') = 1
    BY <2>1, <2>2 DEF Ended
  <2>5. QED
    BY <1>3, <1>4, <2>1, <2>3, <2>4 DEF Ended
<1>8. pc' = "garbage" => failed'
  BY DEF TypeInv
<1>9. QED
  BY <1>5, <1>6, <1>7, <1>8 DEF Ended

\* The newest file becomes one that ends as it does.
LEMMA TopKeepsEnd ==
  ASSUME NEW g, TopBecomes(g), g.end = files[1].end
  PROVE  /\ Len(files') = Len(files)
         /\ \A i \in 1 .. Len(files) : files'[i].end = files[i].end
<1>1. ASSUME NEW i \in 1 .. Len(files) PROVE files'[i].end = files[i].end
  <2>1. i = 1 \/ i \in 2 .. Len(files)
    OBVIOUS
  <2>2. QED
    BY <2>1 DEF TopBecomes
<1>2. QED
  BY <1>1 DEF TopBecomes

LEMMA LineEnds == TypeInv /\ Ended /\ Line /\ TypeInv' => Ended'
<1> SUFFICES ASSUME TypeInv, Ended, Line, TypeInv' PROVE Ended'
  OBVIOUS
<1>1. /\ Len(files') = Len(files) /\ UNCHANGED <<object, left, whole>> /\ pc = "lines"
      /\ \A i \in 1 .. Len(files) : files'[i].end = files[i].end
  BY LineIs DEF LineRead
<1>2. object => pc' = pc
  BY <1>1 DEF Ended
<1>3. ~ failed' => /\ ~ failed /\ reader' = reader /\ pc' # "garbage"
                   /\ pc' = pc \/ {pc, pc'} \subseteq Reading
  <2>1. ASSUME NEW d \in BOOLEAN, Define(d), ~ failed'
        PROVE  ~ failed /\ reader' = reader /\ pc' \in {"lines", "eof"}
    <3>1. pc' # "garbage" /\ ~ failed /\ reader' = reader
      BY <2>1 DEF Define, Errors
    <3>2. pc' \in AfterLine
      BY LineGoesOn
    <3>3. QED
      BY <3>1, <3>2 DEF AfterLine
  <2>2. CASE \E error \in BOOLEAN : Message(error)
    BY <2>2 DEF Message, ReadLine
  <2>3. CASE Text \/ Skip
    BY <2>3 DEF Text, Skip, ReadLine
  <2>4. CASE SyntaxError \/ Incomplete \/ Unknown \/ IncludeNotFound \/ IncludeTooDeep
    BY <2>4 DEF SyntaxError, Incomplete, Unknown, IncludeNotFound, IncludeTooDeep, Errors
  <2>5. CASE \E n \in LineNumbers : ChangeLocation(n)
    BY <1>1, <2>5 DEF ChangeLocation, ReadDirective, Errors, Reading
  <2>6. QED
    BY <1>1, <2>1, <2>2, <2>3, <2>4, <2>5 DEF Line, Reading
<1>4. QED
  BY <1>1, <1>2, <1>3, EndedKept

LEMMA ConditionEnds ==
  TypeInv /\ Ended /\ TypeInv'
  /\ (\/ Opens \/ Endif \/ PopCondition
      \/ \E c \in BOOLEAN, elsed \in BOOLEAN : ElseOrElif(c, elsed))
  => Ended'
<1> SUFFICES ASSUME TypeInv, Ended, TypeInv',
                    \/ Opens \/ Endif \/ PopCondition
                    \/ \E c \in BOOLEAN, elsed \in BOOLEAN : ElseOrElif(c, elsed)
             PROVE  Ended'
  OBVIOUS
<1>1. /\ Len(files') = Len(files)
      /\ \A i \in 1 .. Len(files) : files'[i].end = files[i].end
  <2>1. CASE Opens
    <3>1. PICK c, wanted \in BOOLEAN, behind \in SUBSET {"eof"} :
          Condition(c, wanted, behind)
      BY <2>1, OpensIs
    <3>2. PICK a \in Address : ConditionOpened(a, c, wanted)
      BY <3>1, ConditionOpens
    <3>3. TopBecomes(Opened(files[1], a, wanted))
      BY <3>2 DEF ConditionOpened
    <3>4. Opened(files[1], a, wanted).end = files[1].end
      BY <3>3, OpenedIs DEF TopBecomes
    <3>5. QED
      BY <3>3, <3>4, TopKeepsEnd
  <2>2. CASE Endif \/ PopCondition
    <3>1. PICK f \in FileType : f.end = files[1].end /\ TopBecomes(Shut(f))
      BY <2>2, EndifCloses, PopConditionCloses DEF ConditionClosed
    <3>2. Shut(f).end = files[1].end
      BY <3>1, ShutIs
    <3>3. QED
      BY <3>1, <3>2, TopKeepsEnd
  <2>3. ASSUME NEW c \in BOOLEAN, NEW elsed \in BOOLEAN, ElseOrElif(c, elsed)
        PROVE  /\ Len(files') = Len(files)
               /\ \A i \in 1 .. Len(files) : files'[i].end = files[i].end
    <3> DEFINE f == Counted(files[1], 1)
    <3>1. TopBecomes(Branch(f, c))
      BY <2>3, BranchBranches DEF ConditionBranched
    <3>2. f \in FileType /\ f.end = files[1].end
      BY SMTT(30), <3>1, CountedIs DEF TopBecomes
    <3>3. Branch(f, c).end = files[1].end
      BY <3>2, BranchIs
    <3>4. QED
      BY <3>1, <3>3, TopKeepsEnd
  <2>4. QED
    BY <2>1, <2>2, <2>3
<1>2. /\ UNCHANGED <<object, left, whole, reader>> /\ (object => pc' = pc)
      /\ ~ failed' => /\ ~ failed /\ pc' # "garbage"
                      /\ pc' = pc \/ {pc, pc'} \subseteq Reading
  <2>0. ASSUME NEW behind \in SUBSET {"eof"}, NEW found, ReadDirective(behind),
               Errors(found)
        PROVE  /\ ~ object
               /\ ~ failed' => /\ ~ failed /\ pc' # "garbage"
                               /\ {pc, pc'} \subseteq Reading
    <3>1. pc = "lines" /\ pc' \in AfterLine
      BY <2>0, DirectiveIs
    <3>2. QED
      BY <2>0, <3>1 DEF Errors, AfterLine, Reading, Ended
  <2>1. CASE Opens
    <3>1. PICK c, wanted \in BOOLEAN, behind \in SUBSET {"eof"} :
          Condition(c, wanted, behind)
      BY <2>1, OpensIs
    <3>2. /\ ReadDirective(behind) /\ Errors(FALSE)
          /\ UNCHANGED <<object, left, whole, reader>>
      BY <3>1 DEF Condition, RestUnchanged
    <3>3. QED
      BY <2>0, <3>2
  <2>2. CASE Endif
    <3>1. /\ ReadDirective({"eof"}) /\ Errors(conds = <<>>)
          /\ UNCHANGED <<object, left, whole, reader>>
      BY <2>2 DEF Endif, RestUnchanged
    <3>2. QED
      BY <2>0, <3>1
  <2>3. CASE PopCondition
    BY <2>3 DEF PopCondition, RestUnchanged
  <2>4. CASE \E c \in BOOLEAN, elsed \in BOOLEAN : ElseOrElif(c, elsed)
    <3>1. PICK c \in BOOLEAN, elsed \in BOOLEAN : ElseOrElif(c, elsed)
      BY <2>4
    <3>2. PICK behind \in SUBSET {"eof"} : ReadDirective(behind)
      BY <3>1, BranchReads
    <3>3. /\ Errors(IF conds = <<>> THEN TRUE ELSE Head(conds).elsed)
          /\ UNCHANGED <<object, left, whole, reader>>
      BY <3>1 DEF ElseOrElif, BranchCondition, RestUnchanged
    <3>4. QED
      BY <2>0, <3>2, <3>3
  <2>5. QED
    BY <2>1, <2>2, <2>3, <2>4
<1>3. QED
  BY <1>1, <1>2, EndedKept

\* A file that is opened is above the others.
LEMMA OpenedEnds ==
  ASSUME TypeInv, NEW end \in BOOLEAN, FileOpened(end)
  PROVE  /\ Len(files) \in Nat /\ DOMAIN files = 1 .. Len(files)
         /\ DOMAIN files' = 1 .. Len(files) + 1 /\ Len(files') = Len(files) + 1
         /\ files'[1].end = end
         /\ \A i \in 1 .. Len(files) : files'[i + 1].end = files[i].end
         /\ \A i \in 2 .. Len(files) + 1 :
              i - 1 \in DOMAIN files /\ files'[i].end = files[i - 1].end
         /\ files # <<>> => files'[Len(files')].end = files[Len(files)].end
<1>1. /\ Len(files) \in Nat /\ DOMAIN files = 1 .. Len(files)
      /\ DOMAIN files' = 1 .. Len(files) + 1 /\ Len(files') = Len(files) + 1
      /\ files'[1].end = end
      /\ \A i \in 1 .. Len(files) : files'[i + 1].end = files[i].end
      /\ files # <<>> => Len(files) \in 1 .. Len(files)
  BY DEF FileOpened, TypeInv
<1>2. ASSUME NEW i \in 2 .. Len(files) + 1
      PROVE  i - 1 \in DOMAIN files /\ files'[i].end = files[i - 1].end
  <2>1. i - 1 \in 1 .. Len(files) /\ (i - 1) + 1 = i
    BY <1>1
  <2>2. QED
    BY <1>1, <2>1
<1>3. QED
  BY <1>1, <1>2

LEMMA IncludeEnds == TypeInv /\ Ended /\ IncludeFile => Ended'
<1> SUFFICES ASSUME TypeInv, Ended, IncludeFile PROVE Ended'
  OBVIOUS
<1>1. /\ pc = "lines" /\ pc' = "lines" /\ files # <<>> /\ ~ object
      /\ UNCHANGED <<reader, failed, object, left, whole>>
  BY DEF IncludeFile, ReadLine, RestUnchanged, TypeInv, AfterLine, Ended
<1>2. FileOpened(FALSE)
  BY IncludeOpens
<1>2b. /\ Len(files) \in Nat /\ DOMAIN files = 1 .. Len(files)
       /\ DOMAIN files' = 1 .. Len(files) + 1
       /\ files'[1].end = FALSE
       /\ \A i \in 1 .. Len(files) : files'[i + 1].end = files[i].end
       /\ \A i \in 2 .. Len(files) + 1 :
            i - 1 \in DOMAIN files /\ files'[i].end = files[i - 1].end
  BY <1>2, OpenedEnds
<1>3. files # <<>> /\ ~ left => ~ files'[Len(files')].end
  BY <1>1, <1>2, OpenedEnds DEF Ended
<1>4. (\E i \in DOMAIN files' : files'[i].end) => (\E i \in DOMAIN files : files[i].end)
  <2>2. ASSUME NEW i \in DOMAIN files', files'[i].end PROVE \E k \in DOMAIN files : files[k].end
    <3>1. i # 1
      BY <1>2b, <2>2
    <3>2. i \in 2 .. Len(files) + 1
      BY <1>2b, <3>1
    <3>3. QED
      BY <1>2b, <2>2, <3>2
  <2>3. QED
    BY <2>2
<1>5. ASSUME \A i, k \in DOMAIN files : files[i].end /\ files[k].end => i = k
      PROVE  \A i, k \in DOMAIN files' : files'[i].end /\ files'[k].end => i = k
  <2> SUFFICES ASSUME NEW i \in DOMAIN files', NEW k \in DOMAIN files',
                      files'[i].end, files'[k].end
               PROVE  i = k
    OBVIOUS
  <2>1. i \in 2 .. Len(files) + 1 /\ k \in 2 .. Len(files) + 1
    <3>1. i # 1 /\ k # 1
      BY <1>2b
    <3>2. QED
      BY <1>2b, <3>1
  <2>2. /\ i - 1 \in DOMAIN files /\ files[i - 1].end
        /\ k - 1 \in DOMAIN files /\ files[k - 1].end
    BY <1>2b, <2>1
  <2>3. i - 1 = k - 1
    BY <1>5, <2>2
  <2>4. QED
    BY <2>1, <2>3
<1>6. QED
  BY <1>1, <1>3, <1>4, <1>5 DEF Ended, Reading

LEMMA DataEnds == TypeInv /\ Ended /\ DataFile /\ TypeInv' => Ended'
<1> SUFFICES ASSUME TypeInv, Ended, DataFile, TypeInv' PROVE Ended'
  OBVIOUS
<1>1. /\ pc = "lines" /\ pc' = "lines" /\ files # <<>> /\ ~ object /\ reader = "parse"
      /\ UNCHANGED <<object, left, whole>>
  BY DEF DataFile, ReadLine, RestUnchanged, TypeInv, AfterLine, Ended
<1>2. CASE failed' = TRUE /\ UNCHANGED <<files, reader>>
  BY <1>1, <1>2, EndedKept
<1>3. CASE files' = <<File(TRUE)>> \o files /\ reader' = "data" /\ UNCHANGED failed
  <2>1. FileOpened(TRUE)
    BY <1>3, PushedFile DEF TypeInv
  <2>1b. /\ Len(files) \in Nat /\ DOMAIN files = 1 .. Len(files)
         /\ DOMAIN files' = 1 .. Len(files) + 1
         /\ files'[1].end = TRUE
         /\ \A i \in 1 .. Len(files) : files'[i + 1].end = files[i].end
         /\ \A i \in 2 .. Len(files) + 1 :
              i - 1 \in DOMAIN files /\ files'[i].end = files[i - 1].end
    BY <2>1, OpenedEnds
  <2>2. ~ left => ~ files'[Len(files')].end
    BY <1>1, <2>1, OpenedEnds DEF Ended
  <2>3. 1 \in DOMAIN files' /\ files'[1].end
    BY <2>1b
  <2>4. ASSUME ~ left, ~ failed,
               NEW i \in DOMAIN files', NEW k \in DOMAIN files',
               files'[i].end, files'[k].end
        PROVE  i = k
    <3>1. \A j \in DOMAIN files : ~ files[j].end
      BY <1>1, <2>4 DEF Ended, Reading
    <3>2. \A j \in 2 .. Len(files) + 1 : ~ files'[j].end
      BY <2>1b, <3>1
    <3>3. i = 1 /\ k = 1
      BY <2>1b, <2>4, <3>2
    <3>4. QED
      BY <3>3
  <2>5. QED
    BY <1>1, <1>3, <2>2, <2>3, <2>4 DEF Ended, Reading
<1>4. QED
  BY <1>2, <1>3 DEF DataFile

LEMMA EndFileEnds == TypeInv /\ Ended /\ EndFile /\ TypeInv' => Ended'
<1> SUFFICES ASSUME TypeInv, Ended, EndFile, TypeInv' PROVE Ended'
  OBVIOUS
<1>1. /\ pc \in {"lines", "garbage"} /\ ~ object /\ files # <<>>
      /\ pc = "garbage" => failed
      /\ UNCHANGED <<files, object, left>>
  BY DEF EndFile, TypeInv, AfterLine, Ended
<1>2. CASE Len(files) > 1 /\ BeginPop /\ pc' = "wrap" /\ UNCHANGED <<reader, whole>>
  <2>1. ~ failed' => ~ failed
    BY <1>2 DEF BeginPop
  <2>2. ~ failed' => {pc, pc'} \subseteq Reading
    BY <1>1, <1>2, <2>1 DEF Reading
  <2>3. QED
    BY <1>1, <1>2, <2>1, <2>2, EndedKept
<1>3. CASE /\ Len(files) = 1 /\ pc' = "term" /\ reader' = "parse" /\ whole' = TRUE
           /\ UNCHANGED <<failed, mode>>
  <2>1. ~ left => ~ files[1].end
    BY <1>1, <1>3 DEF Ended
  <2>2. QED
    BY <1>1, <1>3, <2>1 DEF Ended, Reading
<1>4. QED
  BY <1>2, <1>3 DEF EndFile

\* What is behind a directive on its line, or in the file below, ends no source but
\* the last one read.
LEMMA AfterEnds ==
  ASSUME TypeInv, Ended, After \/ Complete, TypeInv'
  PROVE  Ended'
<1>1. /\ Len(files') = Len(files)
      /\ \A i \in 1 .. Len(files) : files'[i].end = files[i].end
  <2>1. CASE After
    BY <2>1, AfterIs DEF LineRead
  <2>2. CASE Complete
    <3>1. PICK g \in FileType : TopBecomes(g) /\ g.end = files[1].end
      BY <2>2, CompleteIs
    <3>2. QED
      BY <3>1, TopKeepsEnd
  <2>3. QED
    BY <2>1, <2>2
<1>2. pc \in {"garbage", "lines", "eof", "joined", "completed", "last"} /\ ~ object
  BY DEF After, Garbage, EndInDirective, JoinedText, JoinedDirective, JoinedEnd, Joined,
         Complete, Ended
<1>3. CASE Garbage
  <2>1. /\ UNCHANGED <<object, left, whole, failed>> /\ failed /\ pc' # "garbage"
        /\ pc' \in {"lines", "term"}
    BY <1>3, EndOfInputIs DEF Garbage, RestUnchanged, Ended
  <2>2. QED
    BY <1>1, <1>2, <2>1, EndedKept DEF TypeInv
<1>4. CASE EndInDirective
  <2>1. /\ UNCHANGED <<object, left, whole, reader>> /\ pc \in {"lines", "eof"}
        /\ pc' = "wrap" /\ (~ failed' => ~ failed)
    BY <1>4 DEF EndInDirective, BeginPop
  <2>2. QED
    BY <1>1, <1>2, <2>1, EndedKept DEF Reading
<1>5. CASE JoinedText \/ JoinedEnd
  <2>1. /\ UNCHANGED <<object, left, whole, reader>> /\ pc = "joined"
        /\ pc' \in {"joined", "completed", "wrap", "last"} /\ (~ failed' => ~ failed)
    <3>1. CASE JoinedText
      BY <3>1 DEF JoinedText, Joined, RestUnchanged
    <3>2. CASE JoinedEnd
      <4>1. pc = "joined" /\ UNCHANGED <<reader, object, left, whole>>
        BY <3>2 DEF JoinedEnd, RestUnchanged
      <4>2. \/ BeginPop /\ pc' = "wrap"
            \/ pc' = "last" /\ UNCHANGED failed
        BY <3>2 DEF JoinedEnd
      <4>3. BeginPop => (~ failed' => ~ failed)
        BY DEF BeginPop
      <4>4. QED
        BY <4>1, <4>2, <4>3
    <3>3. QED
      BY <1>5, <3>1, <3>2
  <2>2. QED
    BY <1>1, <1>2, <2>1, EndedKept DEF Reading
<1>6. ASSUME JoinedDirective \/ (Complete /\ pc = "last") PROVE Ended'
  <2>1. /\ UNCHANGED <<object, left>>
        /\ \/ pc' = "aborted"
           \/ pc' = "term" /\ whole' /\ Len(files) = 1
    BY <1>6 DEF JoinedDirective, RestUnchanged, Complete, TypeInv
  <2>2. ~ left /\ files' # <<>> => ~ files'[Len(files')].end
    <3>1. files' # <<>> => files # <<>> /\ Len(files) \in 1 .. Len(files)
      BY <1>1 DEF TypeInv
    <3>2. QED
      BY <1>1, <3>1 DEF Ended
  <2>3. QED
    BY <1>1, <1>2, <2>1, <2>2 DEF Ended, Reading
<1>7. CASE Complete /\ pc = "completed"
  <2>1. /\ UNCHANGED <<object, left, whole, reader>> /\ pc' = "lines"
    BY <1>7 DEF Complete
  <2>2. ~ failed' => ~ failed
    BY <1>7, CompleteIs
  <2>3. QED
    BY <1>1, <1>2, <1>7, <2>1, <2>2, EndedKept DEF Reading
<1>8. Complete => pc \in {"completed", "last"}
  BY DEF Complete
<1>9. QED
  BY <1>3, <1>4, <1>5, <1>6, <1>7, <1>8 DEF After

LEMMA EndPopEnds == TypeInv /\ Ended /\ EndPop => Ended'
<1> SUFFICES ASSUME TypeInv, Ended, EndPop PROVE Ended'
  OBVIOUS
<1>1. /\ pc \in {"wrap", "pop"} /\ files' = Tail(files) /\ files # <<>>
      /\ files \in Seq(FileType)
      /\ pc = "wrap" => Len(files) > 1
      /\ UNCHANGED <<failed, object, left, whole>>
  BY DEF EndPop, RestUnchanged, TypeInv
<1>2. /\ Len(files) \in Nat \ {0} /\ files' \in Seq(FileType) /\ top = files[1]
      /\ Len(files') = Len(files) - 1
      /\ \A i \in 1 .. Len(files) - 1 : files'[i] = files[i + 1]
  BY <1>1, Newest DEF top
<1>3. DOMAIN files = 1 .. Len(files) /\ DOMAIN files' = 1 .. Len(files) - 1
  BY <1>1, <1>2
<1>4. files' # <<>> => /\ Len(files) - 1 \in 1 .. Len(files) - 1
                       /\ files'[Len(files')] = files[Len(files)]
  <2>1. files' # <<>> => Len(files) - 1 \in 1 .. Len(files) - 1
    BY <1>2
  <2>2. files' # <<>> => files'[Len(files) - 1] = files[(Len(files) - 1) + 1]
    BY <1>2, <2>1
  <2>3. (Len(files) - 1) + 1 = Len(files)
    BY <1>2
  <2>4. QED
    BY <1>2, <2>1, <2>2, <2>3
<1>5. ~ left /\ files' # <<>> => ~ files'[Len(files')].end
  BY <1>1, <1>4 DEF Ended
<1>6. CASE pc = "pop"
  <2>1. pc' = "main"
    BY <1>6 DEF EndPop
  <2>2. object /\ ~ left => Len(files') = 0 /\ whole
    BY <1>2, <1>6 DEF Ended
  <2>3. QED
    BY <1>1, <1>5, <2>1, <2>2 DEF Ended, Reading
<1>7. CASE pc = "wrap"
  <2>1. ~ object
    BY <1>7 DEF Ended
  <2>2. \A i \in DOMAIN files' : i + 1 \in DOMAIN files /\ files'[i] = files[i + 1]
    BY <1>2, <1>3
  <2>3. CASE ~ left /\ ~ failed
    <3>1. /\ (\E i \in DOMAIN files : files[i].end) => reader = "data"
          /\ \A i, k \in DOMAIN files : files[i].end /\ files[k].end => i = k
      BY <1>7, <2>3 DEF Ended, Reading
    <3>2. 1 \in DOMAIN files
      BY <1>2, <1>3
    <3>3. ASSUME NEW i \in DOMAIN files', NEW k \in DOMAIN files',
                 files'[i].end, files'[k].end
          PROVE  i = k
      <4>1. i + 1 = k + 1
        BY <2>2, <3>1, <3>3
      <4>2. i \in Int /\ k \in Int
        BY <1>3
      <4>3. QED
        BY <4>1, <4>2
    <3>4. CASE top.end /\ parse = "none"
      <4>1. reader = "data" /\ EndOfInput
        BY <1>2, <1>7, <3>1, <3>2, <3>4 DEF EndPop
      <4>2. pc' = "lines" /\ reader' = "parse"
        BY <4>1 DEF EndOfInput
      <4>3. ASSUME NEW i \in DOMAIN files' PROVE ~ files'[i].end
        <5>1. i + 1 # 1 /\ i + 1 \in DOMAIN files /\ files'[i] = files[i + 1]
          BY <1>3, <2>2
        <5>2. QED
          BY <1>2, <3>1, <3>2, <3>4, <5>1
      <4>4. QED
        BY <1>1, <1>5, <2>1, <2>3, <3>3, <4>2, <4>3 DEF Ended
    <3>5. CASE ~ (top.end /\ parse = "none")
      <4>1. pc' \in {"lines", "joined", "completed"} /\ reader' = reader
        BY <1>7, <3>5 DEF EndPop
      <4>2. (\E i \in DOMAIN files' : files'[i].end) => reader' = "data"
        BY <2>2, <3>1, <4>1
      <4>3. QED
        BY <1>1, <1>5, <2>1, <2>3, <3>3, <4>1, <4>2 DEF Ended
    <3>6. QED
      BY <3>4, <3>5
  <2>4. CASE left \/ failed
    <3>1. pc' # "garbage"
      BY <1>7, EndOfInputIs DEF EndPop
    <3>2. QED
      BY <1>1, <1>5, <2>1, <2>4, <3>1 DEF Ended
  <2>5. QED
    BY <2>3, <2>4
<1>8. QED
  BY <1>1, <1>6, <1>7

LEMMA NextSourceEnds == TypeInv /\ Ended /\ NextSource => Ended'
<1> SUFFICES ASSUME TypeInv, Ended, NextSource PROVE Ended'
  OBVIOUS
<1>1. pc = "main" /\ left' = (files # <<>> \/ conds # <<>>)
  BY DEF NextSource
<1>2. CASE CanPush
  <2>1. /\ files' = <<File(FALSE)>> \o files /\ pc' = "lines"
        /\ failed' = FALSE /\ reader' = "parse" /\ object' = FALSE
    BY <1>2 DEF NextSource
  <2>2. FileOpened(FALSE)
    BY <2>1, PushedFile DEF TypeInv
  <2>3. ASSUME ~ left' PROVE DOMAIN files' = {1} /\ Len(files') = 1 /\ ~ files'[1].end
    <3>1. files = <<>>
      BY <1>1, <2>3
    <3>2. Len(files) = 0
      BY <3>1
    <3>3. /\ DOMAIN files' = 1 .. Len(files) + 1 /\ Len(files') = Len(files) + 1
          /\ files'[1].end = FALSE
      BY <2>2, OpenedEnds
    <3>4. QED
      BY <3>2, <3>3
  <2>4. QED
    BY <2>1, <2>3 DEF Ended
<1>3. CASE ~ CanPush
  <2>1. UNCHANGED <<files, pc, failed, reader, object>>
    BY <1>3 DEF NextSource
  <2>2. files # <<>>
    <3>1. files = <<>> => Len(files) < MaxIncludes
      BY PreprocessorAssumption
    <3>2. QED
      BY <1>3, <3>1 DEF CanPush
  <2>3. left'
    BY <1>1, <2>2
  <2>4. QED
    BY <1>1, <2>1, <2>3 DEF Ended, Reading
<1>4. QED
  BY <1>2, <1>3

LEMMA NextEnds == TypeInv /\ Ended /\ [Next]_vars /\ TypeInv' => Ended'
<1> SUFFICES ASSUME TypeInv, Ended, [Next]_vars, TypeInv' PROVE Ended'
  OBVIOUS
<1>1. CASE Terminate
  <2>1. /\ pc = "term" /\ pc' = "pop" /\ object' = ~ failed
        /\ UNCHANGED <<files, left, whole>>
    BY <1>1 DEF Terminate
  <2>2. QED
    BY <2>1 DEF Ended, Reading
<1>2. CASE UNCHANGED vars
  BY <1>2 DEF vars, Ended
<1>3. QED
  BY <1>1, <1>2, NextIs, LineEnds, ConditionEnds, IncludeEnds, DataEnds, EndFileEnds,
     AfterEnds, EndPopEnds, NextSourceEnds
-----------------------------------------------------------------------------
(* Which conditions belong to which file.                                  *)

LEMMA BoundsAre ==
  ASSUME TypeInv, NEW b, Bounds(b)
  PROVE  /\ Len(files) \in Nat /\ Len(conds) \in Nat
         /\ b[0] = 0 /\ b[Len(files)] = Len(conds)
         /\ \A i \in 0 .. Len(files) : b[i] \in Nat /\ b[i] <= Len(conds)
         /\ \A i \in 1 .. Len(files) :
              /\ files[i].nest \in Seq(Branches) /\ Len(files[i].nest) \in Nat
              /\ b[i - 1] \in Nat /\ b[i] = b[i - 1] + Len(files[i].nest)
              /\ files[i].nest = <<>> <=> Len(files[i].nest) = 0
         /\ \A i, k \in 0 .. Len(files) : i <= k => b[i] <= b[k]
         /\ files # <<>> => 1 \in 1 .. Len(files) /\ b[1] = Len(files[1].nest)
<1>1. Len(files) \in Nat /\ Len(conds) \in Nat
  BY DEF TypeInv
<1>2. ASSUME NEW i \in 1 .. Len(files)
      PROVE  /\ files[i].nest \in Seq(Branches) /\ Len(files[i].nest) \in Nat
             /\ files[i].nest = <<>> <=> Len(files[i].nest) = 0
  <2>1. files[i] \in FileType
    BY ElementOfSeq DEF TypeInv
  <2>2. files[i].nest \in Seq(Branches)
    BY <2>1 DEF FileType
  <2>3. QED
    BY <2>2
<1>3. \A i \in 0 .. Len(files) : b[i] \in Nat /\ b[i] <= Len(conds)
  BY <1>1 DEF Bounds
<1>4. ASSUME NEW i \in 1 .. Len(files)
      PROVE  b[i - 1] \in Nat /\ b[i] = b[i - 1] + Len(files[i].nest)
  <2>1. i - 1 \in 0 .. Len(files)
    BY <1>1
  <2>2. QED
    BY <1>3, <2>1 DEF Bounds
<1>5. ASSUME files # <<>> PROVE 1 \in 1 .. Len(files) /\ b[1] = Len(files[1].nest)
  <2>1. 1 \in 1 .. Len(files)
    BY <1>5 DEF TypeInv
  <2>2. b[1] = b[1 - 1] + Len(files[1].nest) /\ Len(files[1].nest) \in Nat
    BY <1>2, <1>4, <2>1
  <2>3. QED
    BY <2>1, <2>2 DEF Bounds
<1>6. QED
  BY <1>1, <1>2, <1>3, <1>4, <1>5 DEF Bounds

\* The assembly is on when the branches of the newest file are.
LEMMA OnIs ==
  ASSUME TypeInv, NEW b, Bounds(b), Selecting(b), files # <<>>
  PROVE  /\ AssemblyOn(conds)
              <=> \A k \in 1 .. Len(files[1].nest) : files[1].nest[k].now
         /\ AssemblyOn(conds) <=> Selected(files)
<1> DEFINE n == files[1].nest
<1>1. /\ 1 \in 1 .. Len(files) /\ b[1] = Len(n) /\ Len(n) \in Nat
      /\ b[1] <= Len(conds) /\ Len(conds) \in Nat /\ Len(files) \in Nat
      /\ n \in Seq(Branches)
  BY BoundsAre
<1>2. conds # <<>> => Head(conds) = conds[1]
  BY DEF TypeInv
<1>3. AssemblyOn(conds) <=> \A k \in 1 .. Len(n) : n[k].now
  <2>1. CASE Len(n) = 0
    <3>1. 0 < Len(conds) => conds[0 + 1].state
      BY <1>1, <2>1 DEF Selecting
    <3>2. conds # <<>> => 0 < Len(conds)
      BY DEF TypeInv
    <3>3. AssemblyOn(conds)
      BY <1>2, <3>1, <3>2 DEF AssemblyOn
    <3>4. \A k \in 1 .. Len(n) : n[k].now
      BY <2>1
    <3>5. QED
      BY <3>3, <3>4
  <2>2. CASE Len(n) # 0
    <3>1. Len(n) \in 1 .. Len(n) /\ b[1] - Len(n) + 1 = 1
      BY <1>1, <2>2
    <3>2. conds[1].state <=> \A k \in 1 .. Len(n) : n[k].now
      <4>1. conds[b[1] - Len(n) + 1].state <=> \A k \in 1 .. Len(n) : n[k].now
        BY <1>1, <3>1 DEF Selecting
      <4>2. QED
        BY <3>1, <4>1
    <3>3. conds # <<>>
      BY <1>1, <2>2
    <3>4. AssemblyOn(conds) = conds[1].state
      BY <1>2, <3>3 DEF AssemblyOn
    <3>5. QED
      BY <3>2, <3>4
  <2>3. QED
    BY <2>1, <2>2
<1>4. Selected(files) <=> \A k \in 1 .. Len(n) : n[k].now
  <2>1. DOMAIN files = 1 .. Len(files)
    BY DEF TypeInv
  <2>2. \A i \in 1 .. Len(files) : DOMAIN files[i].nest = 1 .. Len(files[i].nest)
    BY BoundsAre
  <2>3. \A i \in 2 .. Len(files) : \A k \in 1 .. Len(files[i].nest) : files[i].nest[k].now
    BY DEF Selecting
  <2>4. \A i \in 1 .. Len(files) : i = 1 \/ i \in 2 .. Len(files)
    OBVIOUS
  <2> HIDE DEF n
  <2>5. Selected(files)
          <=> \A i \in 1 .. Len(files) :
                \A k \in 1 .. Len(files[i].nest) : files[i].nest[k].now
    BY <2>1, <2>2 DEF Selected
  <2>6. QED
    BY <1>1, <2>3, <2>4, <2>5 DEF n
<1>5. QED
  BY <1>3, <1>4

\* Neither a file nor a condition was opened or closed.
LEMMA NestedKept ==
  ASSUME TypeInv, Nested, conds' = conds, Len(files') = Len(files),
         \A i \in 1 .. Len(files) :
           files'[i].first = files[i].first /\ files'[i].nest = files[i].nest,
         ~ crossed' => ~ crossed, ~ left' => ~ left
  PROVE  Nested'
<1> SUFFICES ASSUME ~ crossed'
             PROVE  \E b \in [0 .. Len(files') -> 0 .. Len(conds')] :
                      Bounds(b)' /\ Firsts(b)' /\ (~ left' => Selecting(b)')
  BY DEF Nested
<1>1. PICK b \in [0 .. Len(files) -> 0 .. Len(conds)] :
        Bounds(b) /\ Firsts(b) /\ (~ left => Selecting(b))
  BY DEF Nested
<1>2. Bounds(b)'
  BY <1>1 DEF Bounds
<1>3. Firsts(b)'
  BY <1>1 DEF Firsts
<1>4. ~ left' => Selecting(b)'
  <2> SUFFICES ASSUME ~ left' PROVE Selecting(b)'
    OBVIOUS
  <2>1. Selecting(b)
    BY <1>1
  <2>2. \A i \in 2 .. Len(files) : files'[i].nest = files[i].nest
    OBVIOUS
  <2>3. QED
    BY <2>1, <2>2 DEF Selecting
<1>5. QED
  BY <1>1, <1>2, <1>3, <1>4

\* A file was opened where the assembly is on.
LEMMA NestedOpened ==
  ASSUME TypeInv, Nested, NEW end \in BOOLEAN, FileOpened(end), conds' = conds,
         ~ crossed' => ~ crossed,
         ~ left' => AssemblyOn(conds) /\ (files = <<>> \/ ~ left)
  PROVE  Nested'
<1> SUFFICES ASSUME ~ crossed'
             PROVE  \E b \in [0 .. Len(files') -> 0 .. Len(conds')] :
                      Bounds(b)' /\ Firsts(b)' /\ (~ left' => Selecting(b)')
  BY DEF Nested
<1>1. PICK b \in [0 .. Len(files) -> 0 .. Len(conds)] :
        Bounds(b) /\ Firsts(b) /\ (~ left => Selecting(b))
  BY DEF Nested
<1>2. PICK c : c = [i \in 0 .. Len(files) + 1 |-> IF i = 0 THEN 0 ELSE b[i - 1]]
  OBVIOUS
<1> DEFINE n == Len(files)
<1>3. /\ n \in Nat /\ Len(conds) \in Nat /\ Len(files') = n + 1
      /\ files'[1].first = NoAddress /\ files'[1].nest = <<>>
  BY <1>1, BoundsAre DEF FileOpened
<1>4. ASSUME NEW i \in 2 .. n + 1
      PROVE  /\ i - 1 \in 1 .. n /\ files'[i].first = files[i - 1].first
             /\ files'[i].nest = files[i - 1].nest
             /\ c[i] = b[i - 1] /\ c[i - 1] = b[i - 2] /\ i - 2 \in 0 .. n
  <2>1. i - 1 \in 1 .. n /\ (i - 1) + 1 = i /\ i \in 0 .. n + 1 /\ i # 0
        /\ i - 1 # 0 /\ i - 1 \in 0 .. n + 1 /\ i - 2 \in 0 .. n /\ (i - 1) - 1 = i - 2
    BY <1>3
  <2>2. QED
    BY <1>2, <2>1 DEF FileOpened
<1>5. c[0] = 0 /\ c[1] = 0
  <2>1. 0 \in 0 .. n + 1 /\ 1 \in 0 .. n + 1 /\ 1 - 1 = 0
    BY <1>3
  <2>2. QED
    BY <1>1, <1>2, <2>1 DEF Bounds
<1>6. ASSUME NEW i \in 0 .. n + 1
      PROVE  /\ i # 0 => i - 1 \in 0 .. n /\ c[i] = b[i - 1]
             /\ c[i] \in 0 .. Len(conds)
  <2>1. i # 0 => i - 1 \in 0 .. n /\ c[i] = b[i - 1]
    BY <1>2, <1>3
  <2>2. QED
    BY <1>1, <1>3, <1>5, <2>1
<1>7. Bounds(c)'
  <2>1. c \in [0 .. n + 1 -> 0 .. Len(conds)]
    BY <1>2, <1>6
  <2>2. c[n + 1] = Len(conds)
    <3>1. n + 1 \in 0 .. n + 1 /\ n + 1 # 0 /\ (n + 1) - 1 = n
      BY <1>3
    <3>2. QED
      BY <1>1, <1>6, <3>1 DEF Bounds
  <2>3. ASSUME NEW i \in 1 .. n + 1 PROVE c[i] = c[i - 1] + Len(files'[i].nest)
    <3>1. CASE i = 1
      BY <1>3, <1>5, <3>1
    <3>2. CASE i # 1
      <4>1. i \in 2 .. n + 1 /\ (i - 1) - 1 = i - 2
        BY <3>2
      <4>2. b[i - 1] = b[(i - 1) - 1] + Len(files[i - 1].nest)
        BY <1>1, <1>4, <4>1 DEF Bounds
      <4>3. QED
        BY <1>4, <4>1, <4>2
    <3>3. QED
      BY <3>1, <3>2
  <2>4. ASSUME NEW i \in 0 .. n + 1, NEW k \in 0 .. n + 1, i <= k PROVE c[i] <= c[k]
    <3>1. CASE i = 0
      BY <1>3, <1>5, <1>6, <3>1
    <3>2. CASE i # 0
      <4>1. i - 1 \in 0 .. n /\ k - 1 \in 0 .. n /\ i - 1 <= k - 1 /\ k # 0
        BY <1>3, <2>4, <3>2
      <4>2. b[i - 1] <= b[k - 1]
        BY <1>1, <4>1 DEF Bounds
      <4>3. QED
        BY <1>6, <3>2, <4>1, <4>2
    <3>3. QED
      BY <3>1, <3>2
  <2> HIDE DEF n
  <2>5. QED
    BY <1>3, <1>5, <2>1, <2>2, <2>3, <2>4 DEF Bounds
<1>8. Firsts(c)'
  <2>1. ASSUME NEW i \in 1 .. n + 1
        PROVE  files'[i].first
                 = IF files'[i].nest = <<>> THEN NoAddress ELSE conds[c[i]].at
    <3>1. CASE i = 1
      BY <1>3, <3>1
    <3>2. CASE i # 1
      <4>1. i \in 2 .. n + 1
        BY <3>2
      <4>2. QED
        BY <1>1, <1>4, <4>1 DEF Firsts
    <3>3. QED
      BY <3>1, <3>2
  <2>2. QED
    BY <1>3, <2>1 DEF Firsts
<1>9. ASSUME ~ left' PROVE Selecting(c)'
  <2>1. CASE files = <<>>
    <3>1. n = 0 /\ Len(conds) = 0
      BY <1>1, <2>1 DEF Bounds
    <3>2. Len(files') = 1 /\ Len(files'[1].nest) = 0 /\ Len(conds') = 0
      BY <1>3, <3>1
    <3>3. c[1] = 0
      BY <1>5
    <3> HIDE DEF n
    <3>4. QED
      BY <3>2, <3>3 DEF Selecting
  <2>2. CASE files # <<>>
    <3>1. Selecting(b) /\ AssemblyOn(conds)
      BY <1>1, <1>9, <2>2
    <3>2. \A k \in 1 .. Len(files[1].nest) : files[1].nest[k].now
      BY <1>1, <2>2, <3>1, OnIs
    <3>3. 0 < Len(conds) => conds[0 + 1].state
      <4>1. 0 < Len(conds) => conds # <<>> /\ Head(conds) = conds[1]
        BY DEF TypeInv
      <4>2. QED
        BY <3>1, <4>1 DEF AssemblyOn
    <3>4. ASSUME NEW i \in 1 .. n + 1, NEW m \in 1 .. Len(files'[i].nest)
          PROVE  LET t == conds[c[i] - m + 1]
                     u == files'[i].nest
                 IN /\ t.state <=> \A k \in 1 .. m : u[k].now
                    /\ t.inherited /\ ~ t.state
                         <=> (\A k \in 1 .. m - 1 : u[k].now) /\ ~ u[m].was
      <4>1. i # 1
        BY <1>3
      <4>2. i \in 2 .. n + 1
        BY <4>1
      <4>3. /\ i - 1 \in 1 .. Len(files) /\ files'[i].nest = files[i - 1].nest
            /\ c[i] = b[i - 1]
        BY <1>4, <4>2
      <4>4. QED
        BY <3>1, <4>3 DEF Selecting
    <3>5. ASSUME NEW i \in 1 .. n + 1, c[i] < Len(conds)
          PROVE  conds[c[i] + 1].state
      <4>1. CASE i = 1
        BY <1>5, <3>3, <3>5, <4>1
      <4>2. CASE i # 1
        <5>1. i \in 2 .. n + 1
          BY <4>2
        <5>2. i - 1 \in 1 .. Len(files) /\ c[i] = b[i - 1]
          BY <1>4, <5>1
        <5>3. QED
          BY <3>1, <3>5, <5>2 DEF Selecting
      <4>3. QED
        BY <4>1, <4>2
    <3>6. ASSUME NEW i \in 2 .. n + 1, NEW m \in 1 .. Len(files'[i].nest)
          PROVE  files'[i].nest[m].now
      <4>1. i - 1 \in 1 .. Len(files) /\ files'[i].nest = files[i - 1].nest
        BY <1>4
      <4>2. CASE i = 2
        BY <3>2, <4>1, <4>2
      <4>3. CASE i # 2
        <5>1. i - 1 \in 2 .. Len(files)
          BY <4>1, <4>3
        <5>2. QED
          BY <3>1, <4>1, <5>1 DEF Selecting
      <4>4. QED
        BY <4>2, <4>3
    <3> HIDE DEF n
    <3>7. QED
      BY <1>3, <3>4, <3>5, <3>6 DEF Selecting
  <2>3. QED
    BY <2>1, <2>2
<1>10. c \in [0 .. Len(files') -> 0 .. Len(conds')]
  BY <1>7 DEF Bounds
<1>11. QED
  BY <1>7, <1>8, <1>9, <1>10

\* A file was closed that has no conditions.
LEMMA NestedClosed ==
  ASSUME TypeInv, Nested, files # <<>>, files[1].first = NoAddress,
         files' = Tail(files), UNCHANGED <<conds, left>>, ~ crossed' => ~ crossed
  PROVE  /\ Nested'
         /\ ~ crossed /\ ~ left => AssemblyOn(conds)
         /\ ~ crossed /\ files' = <<>> => conds = <<>>
<1> DEFINE n == Len(files)
<1>1. /\ n \in Nat \ {0} /\ files' \in Seq(FileType) /\ Len(files') = n - 1
      /\ \A i \in 1 .. n - 1 : files'[i] = files[i + 1]
  BY Newest DEF TypeInv
<1>2. ASSUME ~ crossed
      PROVE  /\ \E c \in [0 .. Len(files') -> 0 .. Len(conds')] :
                  Bounds(c)' /\ Firsts(c)' /\ (~ left' => Selecting(c)')
             /\ ~ left => AssemblyOn(conds)
             /\ files' = <<>> => conds = <<>>
  <2>1. PICK b \in [0 .. Len(files) -> 0 .. Len(conds)] :
          Bounds(b) /\ Firsts(b) /\ (~ left => Selecting(b))
    BY <1>2 DEF Nested
  <2>2. /\ 1 \in 1 .. n /\ b[1] = Len(files[1].nest) /\ Len(files[1].nest) \in Nat
        /\ files[1].nest = <<>> <=> Len(files[1].nest) = 0
        /\ Len(conds) \in Nat /\ b[1] <= Len(conds)
    BY <2>1, BoundsAre
  <2>3. b[1] = 0
    <3>1. CASE files[1].nest # <<>>
      <4>1. files[1].first = conds[b[1]].at /\ b[1] \in 1 .. Len(conds)
        BY <2>1, <2>2, <3>1 DEF Firsts
      <4>2. conds[b[1]] \in ConditionType
        BY <4>1, ElementOfSeq DEF TypeInv
      <4>3. conds[b[1]].at # NoAddress
        BY <4>2, PreprocessorAssumption DEF ConditionType
      <4>4. QED
        BY <4>1, <4>3
    <3>2. QED
      BY <2>2, <3>1
  <2>4. PICK c : c = [i \in 0 .. n - 1 |-> b[i + 1]]
    OBVIOUS
  <2>5. ASSUME NEW i \in 0 .. n - 1
        PROVE  i + 1 \in 0 .. n /\ i + 1 \in 1 .. n /\ c[i] = b[i + 1]
    BY <1>1, <2>4
  <2>6. ASSUME NEW i \in 1 .. n - 1
        PROVE  /\ files'[i] = files[i + 1] /\ i + 1 \in 2 .. n
               /\ c[i - 1] = b[i] /\ (i + 1) - 1 = i
    <3>1. i - 1 \in 0 .. n - 1 /\ (i - 1) + 1 = i
      BY <1>1
    <3>2. QED
      BY <1>1, <2>5, <3>1
  <2>7. Bounds(c)'
    <3>1. c \in [0 .. n - 1 -> 0 .. Len(conds)]
      BY <2>1, <2>4, <2>5
    <3>2. c[0] = 0 /\ c[n - 1] = Len(conds)
      <4>1. 0 \in 0 .. n - 1 /\ n - 1 \in 0 .. n - 1 /\ 0 + 1 = 1 /\ (n - 1) + 1 = n
        BY <1>1
      <4>2. QED
        BY <2>1, <2>3, <2>5, <4>1 DEF Bounds
    <3>3. ASSUME NEW i \in 1 .. n - 1 PROVE c[i] = c[i - 1] + Len(files'[i].nest)
      <4>1. i \in 0 .. n - 1 /\ i + 1 \in 1 .. n
        BY <1>1
      <4>2. b[i + 1] = b[(i + 1) - 1] + Len(files[i + 1].nest)
        BY <2>1, <4>1 DEF Bounds
      <4>3. QED
        BY <2>5, <2>6, <4>1, <4>2
    <3>4. ASSUME NEW i \in 0 .. n - 1, NEW k \in 0 .. n - 1, i <= k PROVE c[i] <= c[k]
      <4>1. i + 1 \in 0 .. n /\ k + 1 \in 0 .. n /\ i + 1 <= k + 1
        BY <1>1, <3>4
      <4>2. b[i + 1] <= b[k + 1]
        BY <2>1, <4>1 DEF Bounds
      <4>3. QED
        BY <2>5, <4>2
    <3> HIDE DEF n
    <3>5. QED
      BY <1>1, <3>1, <3>2, <3>3, <3>4 DEF Bounds
  <2>8. Firsts(c)'
    <3>1. ASSUME NEW i \in 1 .. n - 1
          PROVE  files'[i].first
                   = IF files'[i].nest = <<>> THEN NoAddress ELSE conds[c[i]].at
      <4>1. i \in 0 .. n - 1 /\ i + 1 \in 1 .. Len(files)
        BY <1>1
      <4>2. QED
        BY <2>1, <2>5, <2>6, <4>1 DEF Firsts
    <3>2. QED
      BY <1>1, <3>1 DEF Firsts
  <2>9. ASSUME ~ left PROVE Selecting(c)' /\ AssemblyOn(conds)
    <3>1. Selecting(b)
      BY <2>1, <2>9
    <3>2. \A k \in 1 .. Len(files[1].nest) : files[1].nest[k].now
      BY <2>2, <2>3
    <3>3. AssemblyOn(conds)
      BY <2>1, <3>1, <3>2, OnIs
    <3>4. ASSUME NEW i \in 1 .. n - 1
          PROVE  /\ i + 1 \in 1 .. Len(files) /\ i + 1 \in 2 .. Len(files)
                 /\ files'[i] = files[i + 1] /\ c[i] = b[i + 1]
      <4>1. i \in 0 .. n - 1 /\ i + 1 \in 1 .. Len(files) /\ i + 1 \in 2 .. Len(files)
        BY <1>1
      <4>2. QED
        BY <2>5, <2>6, <4>1
    <3>5. ASSUME NEW i \in 1 .. n - 1, NEW m \in 1 .. Len(files'[i].nest)
          PROVE  LET t == conds[c[i] - m + 1]
                     u == files'[i].nest
                 IN /\ t.state <=> \A k \in 1 .. m : u[k].now
                    /\ t.inherited /\ ~ t.state
                         <=> (\A k \in 1 .. m - 1 : u[k].now) /\ ~ u[m].was
      BY <3>1, <3>4 DEF Selecting
    <3>6. ASSUME NEW i \in 1 .. n - 1, c[i] < Len(conds)
          PROVE  conds[c[i] + 1].state
      BY <3>1, <3>4, <3>6 DEF Selecting
    <3>7. ASSUME NEW i \in 2 .. n - 1, NEW m \in 1 .. Len(files'[i].nest)
          PROVE  files'[i].nest[m].now
      <4>1. i \in 1 .. n - 1
        OBVIOUS
      <4>2. QED
        BY <3>1, <3>4, <4>1 DEF Selecting
    <3> HIDE DEF n
    <3>8. Selecting(c)'
      BY <1>1, <3>5, <3>6, <3>7 DEF Selecting
    <3>9. QED
      BY <3>3, <3>8
  <2>10. ASSUME files' = <<>> PROVE conds = <<>>
    <3>1. Len(files) = 1
      <4>1. Len(files') = 0
        <5>1. Len(<<>>) = 0
          OBVIOUS
        <5>2. QED
          BY <2>10, <5>1
      <4> HIDE DEF n
      <4>2. n = 1
        BY <1>1, <4>1
      <4>3. QED
        BY <4>2 DEF n
    <3>2. Len(conds) = 0
      BY <2>1, <2>3, <3>1 DEF Bounds
    <3>3. QED
      BY <3>2 DEF TypeInv
  <2>11. c \in [0 .. Len(files') -> 0 .. Len(conds')]
    BY <2>7 DEF Bounds
  <2>12. QED
    BY <2>7, <2>8, <2>9, <2>10, <2>11
<1>3. QED
  BY <1>2 DEF Nested

\* The conditions of a file are in the stack, above those of the files below.
LEMMA Owned ==
  ASSUME TypeInv, NEW b, Bounds(b), NEW i \in 1 .. Len(files),
         NEW m \in 1 .. Len(files[i].nest)
  PROVE  /\ b[i] \in 1 .. Len(conds) /\ files[i].nest # <<>>
         /\ b[i] - m + 1 \in 1 .. Len(conds)
         /\ i # 1 => b[i] - m + 1 >= b[1] + 1
<1>1. /\ Len(files) \in Nat /\ 1 \in 0 .. Len(files) /\ i - 1 \in 0 .. Len(files)
      /\ i \in 0 .. Len(files)
  BY DEF TypeInv
<1>2. /\ b[i] \in Nat /\ b[1] \in Nat /\ b[i - 1] \in Nat
      /\ b[i] = b[i - 1] + Len(files[i].nest) /\ b[i] <= Len(conds)
      /\ Len(conds) \in Nat /\ Len(files[i].nest) \in Nat
  BY <1>1, BoundsAre
<1>3. files[i].nest = <<>> <=> Len(files[i].nest) = 0
  BY BoundsAre
<1>4. i # 1 => b[1] <= b[i - 1]
  <2>1. i # 1 => 1 <= i - 1
    OBVIOUS
  <2>2. QED
    BY <1>1, <2>1, BoundsAre
<1> DEFINE x == b[i]
           y == b[i - 1]
           z == b[1]
           l == Len(files[i].nest)
           q == Len(conds)
<1>5. x \in Nat /\ y \in Nat /\ z \in Nat /\ l \in Nat /\ q \in Nat
  BY <1>2
<1>6. x = y + l /\ x <= q /\ m \in 1 .. l
  BY <1>2
<1>7. i # 1 => z <= y
  BY <1>4
<1> HIDE DEF x, y, z, l, q
<1>8. x \in 1 .. q /\ x - m + 1 \in 1 .. q /\ l # 0
  BY <1>5, <1>6
<1>9. i # 1 => x - m + 1 >= z + 1
  BY <1>5, <1>6, <1>7
<1>10. QED
  BY <1>3, <1>8, <1>9 DEF x, z, l, q

\* A condition was opened, as it is meant where the files select what is meant.
LEMMA NestedPushed ==
  ASSUME TypeInv, Nested, NEW a \in Address, NEW c \in BOOLEAN, NEW wanted \in BOOLEAN,
         ConditionOpened(a, c, wanted), ~ crossed /\ ~ left => c = wanted
  PROVE  Nested'
<1> SUFFICES ASSUME ~ crossed'
             PROVE  \E b \in [0 .. Len(files') -> 0 .. Len(conds')] :
                      Bounds(b)' /\ Firsts(b)' /\ (~ left' => Selecting(b)')
  BY DEF Nested
<1> DEFINE n == Len(files)
           q == Len(conds)
           on == AssemblyOn(conds)
           s == [at |-> a, inherited |-> on, state |-> on /\ c, elsed |-> FALSE]
           r == [was |-> wanted, now |-> wanted]
<1>1. crossed' = crossed /\ left' = left /\ ~ crossed
  BY DEF ConditionOpened
<1>2. PICK b \in [0 .. Len(files) -> 0 .. Len(conds)] :
        Bounds(b) /\ Firsts(b) /\ (~ left => Selecting(b))
  BY <1>1 DEF Nested
<1>3. /\ n \in Nat \ {0} /\ Len(files') = n /\ files # <<>> /\ files[1] \in FileType
      /\ \A i \in 2 .. n : files'[i] = files[i]
      /\ files'[1] = Opened(files[1], a, wanted)
  BY DEF ConditionOpened, TopBecomes
<1>4. /\ files'[1].first = (IF files[1].first = NoAddress THEN a ELSE files[1].first)
      /\ files'[1].nest = Append(files[1].nest, r)
  BY <1>3, OpenedIs
<1>5. /\ q \in Nat /\ b[0] = 0 /\ b[n] = q /\ 1 \in 1 .. n /\ b[1] = Len(files[1].nest)
      /\ \A i \in 0 .. n : b[i] \in Nat /\ b[i] <= q
      /\ files[1].nest \in Seq(Branches) /\ Len(files[1].nest) \in Nat
      /\ files[1].nest = <<>> <=> Len(files[1].nest) = 0
  BY <1>2, <1>3, BoundsAre
<1>6. /\ Len(files'[1].nest) = Len(files[1].nest) + 1 /\ files'[1].nest # <<>>
      /\ files'[1].nest[Len(files[1].nest) + 1] = r
      /\ \A k \in 1 .. Len(files[1].nest) : files'[1].nest[k] = files[1].nest[k]
  <2>1. r \in Branches
    BY DEF Branches
  <2> DEFINE u == files[1].nest
             v == files'[1].nest
  <2>2. u \in Seq(Branches) /\ v = Append(u, r)
    BY <1>4, <1>5
  <2> HIDE DEF r, u, v
  <2>3. /\ v \in Seq(Branches) /\ Len(v) = Len(u) + 1 /\ v[Len(u) + 1] = r
        /\ \A k \in 1 .. Len(u) : v[k] = u[k]
    BY <2>1, <2>2, AppendProperties
  <2>4. v # <<>>
    BY <2>1, <2>2, AppendProperties
  <2>5. QED
    BY <2>3, <2>4 DEF u, v
<1>7. on \in BOOLEAN
  BY Newest DEF AssemblyOn, TypeInv, ConditionType
<1>8. /\ Len(conds') = q + 1 /\ conds'[1] = s
      /\ \A k \in 1 .. q : conds'[k + 1] = conds[k]
  <2>1. s \in ConditionType
    BY <1>7 DEF ConditionType
  <2>2. conds' = <<s>> \o conds
    BY DEF ConditionOpened
  <2> HIDE DEF s
  <2>3. QED
    BY <2>1, <2>2, Pushed DEF TypeInv
<1>9. PICK d : d = [i \in 0 .. n |-> IF i = 0 THEN 0 ELSE b[i] + 1]
  OBVIOUS
<1>10. /\ d[0] = 0
       /\ \A i \in 1 .. n : d[i] = b[i] + 1
  BY <1>3, <1>9
<1>11. Bounds(d)'
  <2>1. d \in [0 .. n -> 0 .. q + 1]
    BY <1>5, <1>9
  <2>2. d[n] = q + 1
    BY <1>3, <1>5, <1>10
  <2>3. ASSUME NEW i \in 1 .. n PROVE d[i] = d[i - 1] + Len(files'[i].nest)
    <3>1. CASE i = 1
      BY <1>5, <1>6, <1>10, <3>1
    <3>2. CASE i # 1
      <4>1. i \in 2 .. n /\ i - 1 \in 1 .. n /\ i \in 1 .. Len(files)
        BY <3>2
      <4>2. b[i - 1] \in Nat /\ Len(files[i].nest) \in Nat
            /\ b[i] = b[i - 1] + Len(files[i].nest)
        BY <1>2, <4>1, BoundsAre
      <4>3. d[i] = b[i] + 1 /\ d[i - 1] = b[i - 1] + 1 /\ files'[i] = files[i]
        BY <1>3, <1>10, <4>1
      <4>4. QED
        BY SMTT(30), <4>2, <4>3
    <3>3. QED
      BY <3>1, <3>2
  <2>4. ASSUME NEW i \in 0 .. n, NEW k \in 0 .. n, i <= k PROVE d[i] <= d[k]
    <3>1. b[i] \in Nat /\ b[k] \in Nat /\ b[i] <= b[k]
      BY <1>2, <2>4, BoundsAre
    <3>2. i = 0 \/ (i \in 1 .. n /\ k \in 1 .. n)
      BY <2>4
    <3>3. k = 0 \/ k \in 1 .. n
      OBVIOUS
    <3>4. QED
      BY <1>10, <3>1, <3>2, <3>3
  <2> HIDE DEF n, q
  <2>5. QED
    BY <1>3, <1>8, <1>10, <2>1, <2>2, <2>3, <2>4 DEF Bounds
<1>12. Firsts(d)'
  <2>1. ASSUME NEW i \in 1 .. n
        PROVE  files'[i].first
                 = IF files'[i].nest = <<>> THEN NoAddress ELSE conds'[d[i]].at
    <3>1. CASE i = 1 /\ files[1].nest = <<>>
      <4>1. files[1].first = NoAddress /\ d[1] = 1
        BY <1>2, <1>5, <1>10, <3>1 DEF Firsts
      <4>2. files'[1].first = a /\ files'[1].nest # <<>>
        BY <1>4, <1>6, <4>1
      <4>3. conds'[1].at = a
        BY <1>8
      <4>4. QED
        BY <3>1, <4>1, <4>2, <4>3
    <3>2. CASE i = 1 /\ files[1].nest # <<>>
      <4>1. /\ files[1].first = conds[b[1]].at /\ b[1] \in 1 .. q /\ d[1] = b[1] + 1
            /\ conds'[d[1]] = conds[b[1]]
        BY <1>2, <1>5, <1>8, <1>10, <3>2 DEF Firsts
      <4>2. conds[b[1]] \in ConditionType
        BY <4>1, ElementOfSeq DEF TypeInv
      <4>3. conds[b[1]].at # NoAddress
        BY <4>2, PreprocessorAssumption DEF ConditionType
      <4>4. QED
        BY <1>4, <1>6, <3>2, <4>1, <4>3
    <3>3. CASE i # 1
      <4>1. i \in 2 .. n /\ files'[i] = files[i] /\ d[i] = b[i] + 1 /\ i \in 1 .. Len(files)
        BY <1>3, <1>10, <3>3
      <4>2. CASE files[i].nest = <<>>
        BY <1>2, <4>1, <4>2 DEF Firsts
      <4>3. CASE files[i].nest # <<>>
        <5>1. 1 \in 1 .. Len(files[i].nest)
          BY <1>2, <4>1, <4>3, BoundsAre
        <5>2. b[i] \in 1 .. q
          BY <1>2, <4>1, <5>1, Owned
        <5>3. QED
          BY <1>2, <1>8, <4>1, <4>3, <5>2 DEF Firsts
      <4>4. QED
        BY <4>2, <4>3
    <3>4. QED
      BY <3>1, <3>2, <3>3
  <2>2. QED
    BY <1>3, <2>1 DEF Firsts
<1>13. ASSUME ~ left' PROVE Selecting(d)'
  <2>1. Selecting(b) /\ c = wanted
    BY <1>1, <1>2, <1>13
  <2>2. on <=> \A k \in 1 .. Len(files[1].nest) : files[1].nest[k].now
    BY <1>2, <1>3, <2>1, OnIs
  <2>3. ASSUME NEW i \in 1 .. n, NEW m \in 1 .. Len(files[i].nest)
        PROVE  /\ conds'[d[i] - m + 1] = conds[b[i] - m + 1]
               /\ \A k \in 1 .. m : files'[i].nest[k] = files[i].nest[k]
    <3>0. b[i] - m + 1 \in 1 .. Len(conds)
      BY <1>2, Owned
    <3>1. b[i] - m + 1 \in 1 .. q /\ b[i] \in Nat
      BY <1>5, <3>0
    <3>2. d[i] - m + 1 = (b[i] - m + 1) + 1
      BY <1>10, <3>1
    <3>3. conds'[d[i] - m + 1] = conds[b[i] - m + 1]
      BY <1>8, <3>1, <3>2
    <3>4. \A k \in 1 .. m : files'[i].nest[k] = files[i].nest[k]
      <4>1. CASE i = 1
        <5>1. \A k \in 1 .. m : k \in 1 .. Len(files[1].nest)
          BY <1>5, <4>1
        <5>2. QED
          BY <1>6, <4>1, <5>1
      <4>2. CASE i # 1
        <5>1. i \in 2 .. n
          BY <4>2
        <5>2. QED
          BY <1>3, <5>1
      <4>3. QED
        BY <4>1, <4>2
    <3>5. QED
      BY <3>3, <3>4
  <2>4. ASSUME NEW i \in 1 .. n, NEW m \in 1 .. Len(files[i].nest)
        PROVE  LET t == conds'[d[i] - m + 1]
                   u == files'[i].nest
               IN /\ t.state <=> \A k \in 1 .. m : u[k].now
                  /\ t.inherited /\ ~ t.state
                       <=> (\A k \in 1 .. m - 1 : u[k].now) /\ ~ u[m].was
    <3>1. LET t == conds[b[i] - m + 1]
              u == files[i].nest
          IN /\ t.state <=> \A k \in 1 .. m : u[k].now
             /\ t.inherited /\ ~ t.state
                  <=> (\A k \in 1 .. m - 1 : u[k].now) /\ ~ u[m].was
      BY <2>1 DEF Selecting
    <3>2. /\ m \in 1 .. m
          /\ \A k \in 1 .. m - 1 : k \in 1 .. m
      OBVIOUS
    <3>3. QED
      BY <2>3, <3>1, <3>2
  <2>5. LET m == Len(files[1].nest) + 1
            t == conds'[d[1] - m + 1]
            u == files'[1].nest
        IN /\ t.state <=> \A k \in 1 .. m : u[k].now
           /\ t.inherited /\ ~ t.state
                <=> (\A k \in 1 .. m - 1 : u[k].now) /\ ~ u[m].was
    <3> DEFINE l == Len(files[1].nest)
               u == files'[1].nest
    <3>0. d[1] = l + 1 /\ l \in Nat
      BY <1>5, <1>10
    <3>1. d[1] - (l + 1) + 1 = 1
      <4> HIDE DEF l
      <4>1. QED
        BY <3>0
    <3>2. conds'[d[1] - (l + 1) + 1] = s
      BY <1>8, <3>1
    <3>3. (\A k \in 1 .. l : u[k].now) <=> on
      BY <1>6, <2>2
    <3>4. u[l + 1].now = wanted /\ u[l + 1].was = wanted
      BY <1>6
    <3>5. s.state = (on /\ c) /\ s.inherited = on
      OBVIOUS
    <3>6. l \in Nat
      BY <1>5
    <3> HIDE DEF l, u, on, s
    <3>7. (\A k \in 1 .. l + 1 : u[k].now) <=> on /\ wanted
      <4>1. \A k \in 1 .. l + 1 : k \in 1 .. l \/ k = l + 1
        BY <3>6
      <4>2. l + 1 \in 1 .. l + 1 /\ \A k \in 1 .. l : k \in 1 .. l + 1
        BY <3>6
      <4>3. QED
        BY <3>3, <3>4, <4>1, <4>2
    <3>8. (l + 1) - 1 = l
      BY <3>6
    <3>9. QED
      BY <1>7, <2>1, <3>2, <3>3, <3>4, <3>5, <3>7, <3>8 DEF l, u
  <2>6. ASSUME NEW i \in 1 .. n, NEW m \in 1 .. Len(files'[i].nest)
        PROVE  LET t == conds'[d[i] - m + 1]
                   u == files'[i].nest
               IN /\ t.state <=> \A k \in 1 .. m : u[k].now
                  /\ t.inherited /\ ~ t.state
                       <=> (\A k \in 1 .. m - 1 : u[k].now) /\ ~ u[m].was
    <3>1. CASE m \in 1 .. Len(files[i].nest)
      BY <2>4, <3>1
    <3>2. CASE ~ (m \in 1 .. Len(files[i].nest))
      <4>1. i = 1
        BY <1>3, <3>2
      <4>2. m = Len(files[1].nest) + 1
        BY <1>5, <1>6, <3>2, <4>1
      <4>3. QED
        BY <2>5, <4>1, <4>2
    <3>3. QED
      BY <3>1, <3>2
  <2>7. ASSUME NEW i \in 1 .. n, d[i] < q + 1 PROVE conds'[d[i] + 1].state
    <3>1. b[i] \in Nat /\ b[i] + 1 \in 1 .. q /\ d[i] = b[i] + 1 /\ b[i] < q
      BY <1>5, <1>10, <2>7
    <3>2. conds'[d[i] + 1] = conds[b[i] + 1]
      BY <1>8, <3>1
    <3>3. QED
      BY <2>1, <3>1, <3>2 DEF Selecting
  <2>8. ASSUME NEW i \in 2 .. n, NEW m \in 1 .. Len(files'[i].nest)
        PROVE  files'[i].nest[m].now
    BY <1>3, <2>1 DEF Selecting
  <2> HIDE DEF n, q
  <2>9. QED
    BY <1>3, <1>8, <2>6, <2>7, <2>8 DEF Selecting
<1>14. d \in [0 .. Len(files') -> 0 .. Len(conds')]
  BY <1>11 DEF Bounds
<1>15. QED
  BY <1>11, <1>12, <1>13, <1>14

\* The newest condition went on with another branch.
LEMMA NestedBranched ==
  ASSUME TypeInv, Nested, NEW c \in BOOLEAN, ConditionBranched(c)
  PROVE  Nested'
<1> SUFFICES ASSUME ~ crossed' PROVE Nested'
  BY DEF Nested
<1> DEFINE n == Len(files)
           q == Len(conds)
           u == files[1].nest
           l == Len(u)
           v == files'[1].nest
           r == [was |-> u[l].was \/ c, now |-> ~ u[l].was /\ c]
<1>1. left' = left /\ ~ crossed
  BY DEF ConditionBranched
<1>2. PICK b \in [0 .. Len(files) -> 0 .. Len(conds)] :
        Bounds(b) /\ Firsts(b) /\ (~ left => Selecting(b))
  BY <1>1 DEF Nested
<1>3. /\ n \in Nat \ {0} /\ Len(files') = n /\ files # <<>> /\ files[1] \in FileType
      /\ \A i \in 2 .. n : files'[i] = files[i]
      /\ files'[1] = Branch(Counted(files[1], 1), c)
  BY DEF ConditionBranched, TopBecomes
<1>4. /\ files'[1].first = files[1].first
      /\ u = <<>> => v = <<>>
      /\ u # <<>> => v = [u EXCEPT ![l] = r]
  <2> DEFINE f == Counted(files[1], 1)
  <2>1. f \in FileType /\ f.first = files[1].first /\ f.nest = u
    BY <1>3, CountedIs
  <2> HIDE DEF f
  <2>2. files'[1] = Branch(f, c)
    BY <1>3 DEF f
  <2>3. QED
    BY <2>1, <2>2, BranchIs
<1>5. /\ q \in Nat /\ b[1] = l /\ u \in Seq(Branches) /\ l \in Nat /\ l <= q
      /\ \A i \in 0 .. n : b[i] \in Nat /\ b[i] <= q
      /\ 1 \in 1 .. n /\ 1 \in 0 .. n
      /\ u = <<>> <=> l = 0
  BY <1>2, <1>3, BoundsAre
<1>6. CASE conds = <<>>
  <2>1. u = <<>> /\ v = <<>>
    <3>1. q = 0
      BY <1>6
    <3> HIDE DEF q, l
    <3>2. l = 0
      BY <1>5, <3>1
    <3>3. QED
      BY <1>4, <1>5, <3>2
  <2>2. conds' = conds
    BY <1>6 DEF ConditionBranched
  <2>3. ASSUME NEW i \in 1 .. Len(files)
        PROVE  files'[i].first = files[i].first /\ files'[i].nest = files[i].nest
    <3>1. i = 1 \/ i \in 2 .. n
      OBVIOUS
    <3>2. QED
      BY <1>3, <1>4, <2>1, <3>1
  <2>4. QED
    BY <1>1, <1>3, <2>2, <2>3, NestedKept
<1>7. CASE conds # <<>>
  <2>1. u # <<>>
    BY <1>7 DEF ConditionBranched
  <2>2. l \in 1 .. q
    BY <1>5, <2>1
  <2>3. /\ Len(v) = l /\ v # <<>> /\ v[l] = r
        /\ \A k \in 1 .. l - 1 : v[k] = u[k]
    <3>1. r \in Branches /\ l \in 1 .. Len(u)
      <4>1. u[l] \in Branches
        BY <1>5, <2>2, ElementOfSeq
      <4>2. QED
        BY <2>2, <4>1 DEF Branches
    <3> HIDE DEF r, l, v, u
    <3>2. v = [u EXCEPT ![l] = r]
      BY <1>4, <2>1
    <3>3. /\ v \in Seq(Branches) /\ Len(v) = Len(u)
          /\ \A k \in 1 .. Len(u) : v[k] = IF k = l THEN r ELSE u[k]
      BY <1>5, <3>1, <3>2, ExceptSeq
    <3>4. QED
      BY <3>1, <3>3 DEF l
  <2>4. PICK elsed \in BOOLEAN :
          conds' = <<ElseCondition(Head(conds), c, elsed)>> \o Tail(conds)
    BY <1>7 DEF ConditionBranched
  <2>5. /\ Len(conds') = q
        /\ conds'[1].at = conds[1].at
        /\ conds'[1].inherited = (conds[1].inherited /\ ~ conds[1].state)
        /\ conds'[1].state = (conds[1].inherited /\ ~ conds[1].state /\ c)
        /\ \A k \in 2 .. q : conds'[k] = conds[k]
    <3> DEFINE t == ElseCondition(Head(conds), c, elsed)
    <3>1. Head(conds) = conds[1] /\ Head(conds) \in ConditionType
      BY <1>7, Newest DEF TypeInv
    <3>2. /\ t \in ConditionType /\ t.at = conds[1].at
          /\ t.inherited = (conds[1].inherited /\ ~ conds[1].state)
          /\ t.state = (conds[1].inherited /\ ~ conds[1].state /\ c)
      BY <3>1, ElseConditionIs
    <3> HIDE DEF t
    <3>3. conds' = <<t>> \o Tail(conds)
      BY <2>4 DEF t
    <3>4. Len(conds') = q /\ conds'[1] = t /\ \A k \in 2 .. q : conds'[k] = conds[k]
      BY <1>7, <3>2, <3>3, Replaced DEF TypeInv
    <3>5. QED
      BY <3>2, <3>4
  <2>6. \A i \in 1 .. n : Len(files'[i].nest) = Len(files[i].nest)
                            /\ (files'[i].nest = <<>> <=> files[i].nest = <<>>)
                            /\ files'[i].first = files[i].first
    <3>1. \A i \in 1 .. n : i = 1 \/ i \in 2 .. n
      OBVIOUS
    <3>2. QED
      BY <1>3, <1>4, <2>1, <2>3, <3>1
  <2>7. Bounds(b)'
    <3>1. \A i \in 1 .. n : b[i] = b[i - 1] + Len(files'[i].nest)
      BY <1>2, <2>6 DEF Bounds
    <3>2. QED
      BY <1>2, <1>3, <2>5, <3>1 DEF Bounds
  <2>8. Firsts(b)'
    <3>1. \A k \in 1 .. q : conds'[k].at = conds[k].at
      <4>1. \A k \in 1 .. q : k = 1 \/ k \in 2 .. q
        BY <1>5
      <4>2. QED
        BY <2>5, <4>1
    <3>2. ASSUME NEW i \in 1 .. n
          PROVE  files'[i].first
                   = IF files'[i].nest = <<>> THEN NoAddress ELSE conds'[b[i]].at
      <4>1. CASE files[i].nest = <<>>
        BY <1>2, <2>6, <4>1 DEF Firsts
      <4>2. CASE files[i].nest # <<>>
        <5>1. 1 \in 1 .. Len(files[i].nest)
          BY <1>2, <4>2, BoundsAre
        <5>2. b[i] \in 1 .. q
          BY <1>2, <5>1, Owned
        <5>3. QED
          BY <1>2, <2>6, <3>1, <4>2, <5>2 DEF Firsts
      <4>3. QED
        BY <4>1, <4>2
    <3>3. QED
      BY <1>3, <3>2 DEF Firsts
  <2>9. ASSUME ~ left' PROVE Selecting(b)'
    <3>1. Selecting(b)
      BY <1>1, <1>2, <2>9
    <3>2. ASSUME NEW i \in 1 .. n, NEW m \in 1 .. Len(files[i].nest),
                 ~ (i = 1 /\ m = l)
          PROVE  /\ conds'[b[i] - m + 1] = conds[b[i] - m + 1]
                 /\ \A k \in 1 .. m : files'[i].nest[k] = files[i].nest[k]
      <4>0. b[i] - m + 1 \in 1 .. Len(conds) /\ (i # 1 => b[i] - m + 1 >= b[1] + 1)
        BY <1>2, Owned
      <4>1. CASE i = 1
        <5>1. m \in 1 .. l - 1
          BY <1>5, <3>2, <4>1
        <5>2. b[i] - m + 1 \in 2 .. q
          BY <1>5, <2>2, <4>1, <5>1
        <5>3. \A k \in 1 .. m : k \in 1 .. l - 1
          BY <1>5, <5>1
        <5>4. QED
          BY <2>3, <2>5, <4>1, <5>2, <5>3
      <4>2. CASE i # 1
        <5>1. i \in 2 .. n
          BY <4>2
        <5>2. b[i] - m + 1 \in 2 .. q
          BY <1>5, <2>2, <4>0, <4>2
        <5>3. QED
          BY <1>3, <2>5, <5>1, <5>2
      <4>3. QED
        BY <4>1, <4>2
    <3>3. ASSUME NEW i \in 1 .. n, NEW m \in 1 .. Len(files[i].nest),
                 ~ (i = 1 /\ m = l)
          PROVE  LET t == conds'[b[i] - m + 1]
                     w == files'[i].nest
                 IN /\ t.state <=> \A k \in 1 .. m : w[k].now
                    /\ t.inherited /\ ~ t.state
                         <=> (\A k \in 1 .. m - 1 : w[k].now) /\ ~ w[m].was
      <4>1. LET t == conds[b[i] - m + 1]
                w == files[i].nest
            IN /\ t.state <=> \A k \in 1 .. m : w[k].now
               /\ t.inherited /\ ~ t.state
                    <=> (\A k \in 1 .. m - 1 : w[k].now) /\ ~ w[m].was
        BY <3>1 DEF Selecting
      <4>2. /\ m \in 1 .. m
            /\ \A k \in 1 .. m - 1 : k \in 1 .. m
        OBVIOUS
      <4>3. /\ conds'[b[i] - m + 1] = conds[b[i] - m + 1]
            /\ \A k \in 1 .. m : files'[i].nest[k] = files[i].nest[k]
        BY <3>2, <3>3
      <4>4. QED
        BY <4>1, <4>2, <4>3
    <3>4. LET t == conds'[b[1] - l + 1]
          IN /\ t.state <=> \A k \in 1 .. l : v[k].now
             /\ t.inherited /\ ~ t.state <=> (\A k \in 1 .. l - 1 : v[k].now) /\ ~ v[l].was
      <4>1. b[1] - l + 1 = 1
        BY <1>5, <2>2
      <4>2. l \in 1 .. Len(files[1].nest)
        BY <1>5, <2>2
      <4>3. /\ conds[b[1] - l + 1].state <=> \A k \in 1 .. l : u[k].now
            /\ conds[b[1] - l + 1].inherited /\ ~ conds[b[1] - l + 1].state
                 <=> (\A k \in 1 .. l - 1 : u[k].now) /\ ~ u[l].was
        BY <1>5, <3>1, <4>2 DEF Selecting
      <4>4. conds[1].inherited /\ ~ conds[1].state
              <=> (\A k \in 1 .. l - 1 : u[k].now) /\ ~ u[l].was
        BY <4>1, <4>3
      <4>5. v[l].was = (u[l].was \/ c) /\ v[l].now = (~ u[l].was /\ c)
        BY <2>3
      <4>6. (\A k \in 1 .. l - 1 : v[k].now) <=> (\A k \in 1 .. l - 1 : u[k].now)
        BY <2>3
      <4> HIDE DEF v, u, l
      <4>7. (\A k \in 1 .. l : v[k].now) <=> (\A k \in 1 .. l - 1 : v[k].now) /\ v[l].now
        <5>1. \A k \in 1 .. l : k \in 1 .. l - 1 \/ k = l
          BY <2>2
        <5>2. l \in 1 .. l /\ \A k \in 1 .. l - 1 : k \in 1 .. l
          BY <2>2
        <5>3. QED
          BY <5>1, <5>2
      <4>8. QED
        BY <2>5, <4>1, <4>4, <4>5, <4>6, <4>7
    <3>5. ASSUME NEW i \in 1 .. n, NEW m \in 1 .. Len(files'[i].nest)
          PROVE  LET t == conds'[b[i] - m + 1]
                     w == files'[i].nest
                 IN /\ t.state <=> \A k \in 1 .. m : w[k].now
                    /\ t.inherited /\ ~ t.state
                         <=> (\A k \in 1 .. m - 1 : w[k].now) /\ ~ w[m].was
      <4>1. m \in 1 .. Len(files[i].nest)
        BY <2>6
      <4>2. CASE i = 1 /\ m = l
        BY <3>4, <4>2
      <4>3. CASE ~ (i = 1 /\ m = l)
        BY <3>3, <4>1, <4>3
      <4>4. QED
        BY <4>2, <4>3
    <3>6. ASSUME NEW i \in 1 .. n, b[i] < q PROVE conds'[b[i] + 1].state
      <4>1. b[1] <= b[i] /\ b[i] \in Nat
        <5>1. i \in 0 .. n /\ 1 <= i
          OBVIOUS
        <5>2. QED
          BY <1>2, <1>5, <5>1, BoundsAre
      <4>2. b[i] + 1 \in 2 .. q
        BY <1>5, <2>2, <3>6, <4>1
      <4>3. QED
        BY <2>5, <3>1, <3>6, <4>2 DEF Selecting
    <3>7. ASSUME NEW i \in 2 .. n, NEW m \in 1 .. Len(files'[i].nest)
          PROVE  files'[i].nest[m].now
      BY <1>3, <3>1 DEF Selecting
    <3> HIDE DEF n, q
    <3>8. QED
      BY <1>3, <2>5, <3>5, <3>6, <3>7 DEF Selecting
  <2>10. b \in [0 .. Len(files') -> 0 .. Len(conds')]
    BY <2>7 DEF Bounds
  <2>11. QED
    BY <2>7, <2>8, <2>9, <2>10 DEF Nested
<1>8. QED
  BY <1>6, <1>7

\* The newest condition was closed.
LEMMA NestedShut ==
  ASSUME TypeInv, Nested, Distinct, ConditionClosed
  PROVE  Nested'
<1> SUFFICES ASSUME ~ crossed' PROVE Nested'
  BY DEF Nested
<1> DEFINE n == Len(files)
           q == Len(conds)
           u == files[1].nest
           l == Len(u)
           v == files'[1].nest
<1>1. left' = left /\ ~ crossed
  BY DEF ConditionClosed
<1>2. PICK b \in [0 .. Len(files) -> 0 .. Len(conds)] :
        Bounds(b) /\ Firsts(b) /\ (~ left => Selecting(b))
  BY <1>1 DEF Nested
<1>3. PICK f \in FileType :
        /\ f.first = files[1].first /\ f.nest = u
        /\ TopBecomes(Shut(f))
  BY DEF ConditionClosed
<1>4. /\ n \in Nat \ {0} /\ Len(files') = n /\ files # <<>> /\ files[1] \in FileType
      /\ \A i \in 2 .. n : files'[i] = files[i]
      /\ files'[1] = Shut(f)
  BY <1>3 DEF TopBecomes
<1>5. /\ files'[1].first = (IF conds # <<>> /\ files[1].first = Head(conds).at
                            THEN NoAddress ELSE files[1].first)
      /\ v = SubSeq(u, 1, l - 1)
  BY <1>3, <1>4, ShutIs
<1>6. /\ q \in Nat /\ b[0] = 0 /\ b[n] = q /\ b[1] = l /\ l <= q
      /\ u \in Seq(Branches) /\ l \in Nat
      /\ \A i \in 0 .. n : b[i] \in Nat /\ b[i] <= q
      /\ 1 \in 1 .. n /\ 1 \in 0 .. n
      /\ u = <<>> <=> l = 0
  BY <1>2, <1>4, BoundsAre
<1>7. /\ v \in Seq(Branches)
      /\ l = 0 => v = <<>>
      /\ l # 0 => Len(v) = l - 1
      /\ \A k \in 1 .. l - 1 : v[k] = u[k]
  <2> HIDE DEF u, v
  <2>1. CASE l = 0
    <3>1. v = <<>> /\ v \in Seq(Branches)
      BY <1>5, <1>6, <2>1
    <3>2. QED
      BY <2>1, <3>1
  <2>2. CASE l # 0
    BY <1>5, <1>6, <2>2
  <2>3. QED
    BY <2>1, <2>2
<1>8. CASE u = <<>>
  <2>1. files[1].first = NoAddress
    BY <1>2, <1>6, <1>8 DEF Firsts
  <2>2. conds = <<>>
    BY <1>8, <2>1 DEF ConditionClosed
  <2>3. conds' = conds
    BY <2>2 DEF ConditionClosed
  <2>4. ASSUME NEW i \in 1 .. Len(files)
        PROVE  files'[i].first = files[i].first /\ files'[i].nest = files[i].nest
    <3>1. i = 1 \/ i \in 2 .. n
      OBVIOUS
    <3>2. v = u /\ files'[1].first = files[1].first
      BY <1>5, <1>6, <1>7, <1>8, <2>2
    <3>3. QED
      BY <1>4, <3>1, <3>2
  <2>5. QED
    BY <1>1, <1>4, <2>3, <2>4, NestedKept
<1>9. CASE u # <<>>
  <2>1. l \in 1 .. q
    BY <1>6, <1>9
  <2>2. conds # <<>>
    <3>1. Len(conds) # 0
      BY <2>1
    <3>2. Len(<<>>) = 0
      OBVIOUS
    <3>3. QED
      BY <3>1, <3>2
  <2>3. /\ Len(conds') = q - 1 /\ Head(conds) = conds[1]
        /\ \A k \in 1 .. q - 1 : conds'[k] = conds[k + 1]
    BY <2>2, Newest DEF TypeInv, ConditionClosed
  <2>4. PICK d : d = [i \in 0 .. n |-> IF i = 0 THEN 0 ELSE b[i] - 1]
    OBVIOUS
  <2>5. /\ d[0] = 0
        /\ \A i \in 1 .. n : d[i] = b[i] - 1
    BY <1>4, <2>4
  <2>6. ASSUME NEW i \in 1 .. n PROVE b[i] \in 1 .. q /\ b[i] >= l
    <3>1. i \in 0 .. n /\ 1 <= i
      OBVIOUS
    <3>2. b[1] <= b[i]
      BY <1>2, <1>6, <3>1, BoundsAre
    <3>3. b[i] \in Nat /\ b[i] <= q
      BY <1>6, <3>1
    <3> HIDE DEF l, q, n
    <3>4. QED
      BY <1>6, <2>1, <3>2, <3>3
  <2>7. ASSUME NEW i \in 1 .. n, NEW m \in 1 .. Len(files'[i].nest)
        PROVE  /\ m \in 1 .. Len(files[i].nest)
               /\ conds'[d[i] - m + 1] = conds[b[i] - m + 1]
               /\ d[i] - m + 1 \in 1 .. q - 1
               /\ \A k \in 1 .. m : files'[i].nest[k] = files[i].nest[k]
    <3>1. CASE i = 1
      <4>1. m \in 1 .. l - 1
        BY <1>7, <2>1, <3>1
      <4>2. m \in 1 .. l /\ l - 1 - m + 1 \in 1 .. q - 1 /\ (l - 1 - m + 1) + 1 = l - m + 1
        <5> HIDE DEF l, q
        <5>1. QED
          BY <1>6, <2>1, <4>1
      <4>3. d[1] = l - 1 /\ b[1] = l
        BY <1>6, <2>5
      <4>4. conds'[d[1] - m + 1] = conds[b[1] - m + 1]
        BY SMTT(30), <2>3, <4>2, <4>3
      <4>5. \A k \in 1 .. m : k \in 1 .. l - 1
        <5> HIDE DEF l, q
        <5>1. QED
          BY <1>6, <4>1
      <4>6. \A k \in 1 .. m : files'[1].nest[k] = files[1].nest[k]
        BY <1>7, <4>5
      <4>7. QED
        BY <3>1, <4>2, <4>3, <4>4, <4>6
    <3>2. CASE i # 1
      <4>1. i \in 2 .. n /\ files'[i] = files[i]
        BY <1>4, <3>2
      <4>2. m \in 1 .. Len(files[i].nest)
        BY <4>1
      <4>3. b[i] - m + 1 \in 1 .. Len(conds) /\ b[i] - m + 1 >= b[1] + 1
        BY <1>2, <3>2, <4>2, Owned
      <4>4. d[i] = b[i] - 1 /\ b[i] \in 1 .. q
        BY <2>5, <2>6
      <4>5. d[i] - m + 1 \in 1 .. q - 1 /\ (d[i] - m + 1) + 1 = b[i] - m + 1
        <5> DEFINE x == b[i]
                   y == d[i]
                   z == b[1]
        <5>1. /\ y = x - 1 /\ x \in 1 .. q /\ x - m + 1 \in 1 .. q /\ q \in Nat
              /\ x - m + 1 >= z + 1 /\ z = l /\ l \in 1 .. q
          BY <1>6, <2>1, <4>3, <4>4
        <5> HIDE DEF x, y, z, l, q
        <5>2. m \in Int
          BY <4>2
        <5>3. y - m + 1 \in 1 .. q - 1 /\ (y - m + 1) + 1 = x - m + 1
          BY <5>1, <5>2
        <5>4. QED
          BY <5>3 DEF x, y
      <4>6. conds'[d[i] - m + 1] = conds[b[i] - m + 1]
        BY <2>3, <4>5
      <4>7. QED
        BY <4>1, <4>2, <4>5, <4>6
    <3>3. QED
      BY <3>1, <3>2
  <2>8. Bounds(d)'
    <3>1. d \in [0 .. n -> 0 .. q - 1]
      <4>1. \A i \in 0 .. n : (IF i = 0 THEN 0 ELSE b[i] - 1) \in 0 .. q - 1
        <5>1. \A i \in 0 .. n : i = 0 \/ i \in 1 .. n
          BY <1>4
        <5> HIDE DEF n, q
        <5>2. QED
          BY <1>6, <2>1, <2>6, <5>1
      <4>2. QED
        BY <2>4, <4>1
    <3>2. d[n] = q - 1
      <4>1. n \in 1 .. n
        BY <1>4
      <4>2. d[n] = b[n] - 1 /\ b[n] = q
        BY <1>6, <2>5, <4>1
      <4>3. QED
        BY <4>2
    <3>3. ASSUME NEW i \in 1 .. n PROVE d[i] = d[i - 1] + Len(files'[i].nest)
      <4>1. CASE i = 1
        <5>1. d[1] = l - 1 /\ Len(files'[1].nest) = l - 1 /\ d[1 - 1] = 0
          BY <1>6, <1>7, <2>1, <2>5
        <5> HIDE DEF l
        <5>2. QED
          BY <1>6, <4>1, <5>1
      <4>2. CASE i # 1
        <5>1. i \in 2 .. n /\ i - 1 \in 1 .. n /\ i \in 1 .. Len(files)
          BY <4>2
        <5>2. b[i - 1] \in Nat /\ Len(files[i].nest) \in Nat
              /\ b[i] = b[i - 1] + Len(files[i].nest)
          BY <1>2, <5>1, BoundsAre
        <5>3. d[i] = b[i] - 1 /\ d[i - 1] = b[i - 1] - 1 /\ files'[i] = files[i]
          BY <1>4, <2>5, <5>1
        <5> DEFINE x == b[i]
                   y == b[i - 1]
                   w == Len(files[i].nest)
        <5>4. d[i] = x - 1 /\ d[i - 1] = y - 1 /\ x = y + w /\ y \in Nat /\ w \in Nat
              /\ Len(files'[i].nest) = w
          BY <5>2, <5>3
        <5> HIDE DEF x, y, w
        <5>5. x - 1 = y - 1 + w
          BY <5>4
        <5>6. QED
          BY <5>4, <5>5
      <4>3. QED
        BY <4>1, <4>2
    <3>4. ASSUME NEW i \in 0 .. n, NEW k \in 0 .. n, i <= k PROVE d[i] <= d[k]
      <4>1. b[i] \in Nat /\ b[k] \in Nat /\ b[i] <= b[k]
        BY <1>2, <3>4, BoundsAre
      <4>2. i = 0 \/ (i \in 1 .. n /\ k \in 1 .. n)
        BY <3>4
      <4>3. k = 0 \/ k \in 1 .. n
        OBVIOUS
      <4>4. CASE i = 0
        <5>1. k # 0 => b[k] \in 1 .. q /\ d[k] = b[k] - 1
          BY <2>5, <2>6, <4>3
        <5>2. k # 0 => 0 <= d[k]
          BY <5>1
        <5>3. QED
          BY <2>5, <4>4, <5>2
      <4>5. CASE i \in 1 .. n /\ k \in 1 .. n
        BY <2>5, <4>1, <4>5
      <4>6. QED
        BY <4>2, <4>4, <4>5
    <3> HIDE DEF n, q
    <3>5. QED
      BY <1>4, <2>3, <2>5, <3>1, <3>2, <3>3, <3>4 DEF Bounds
  <2>9. Firsts(d)'
    <3>1. ASSUME NEW i \in 1 .. n
          PROVE  files'[i].first
                   = IF files'[i].nest = <<>> THEN NoAddress ELSE conds'[d[i]].at
      <4>1. CASE i = 1
        <5>1. files[1].first = conds[l].at
          BY <1>2, <1>6, <1>9 DEF Firsts
        <5>2. CASE l = 1
          <6>1. Len(v) = 0
            BY <1>7, <5>2
          <6>2. v = <<>>
            BY <1>7, <6>1
          <6>3. files'[1].first = NoAddress
            BY <1>5, <2>2, <2>3, <5>1, <5>2
          <6>4. QED
            BY <4>1, <6>2, <6>3
        <5>3. CASE l # 1
          <6>0. Len(v) = l - 1 /\ DOMAIN conds = 1 .. q
            BY <1>7, <2>1 DEF TypeInv
          <6>1. Len(v) # 0 /\ l \in DOMAIN conds /\ 1 \in DOMAIN conds
            <7> HIDE DEF v, l, q
            <7>1. QED
              BY <1>6, <2>1, <5>3, <6>0
          <6>2. v # <<>>
            <7>1. Len(<<>>) = 0
              OBVIOUS
            <7>2. QED
              BY <6>1, <7>1
          <6>3. conds[l].at # conds[1].at
            BY <5>3, <6>1 DEF Distinct
          <6>4. files'[1].first = conds[l].at
            BY <1>5, <2>3, <5>1, <6>3
          <6>5. d[1] = l - 1 /\ l - 1 \in 1 .. q - 1 /\ (l - 1) + 1 = l
            <7>1. d[1] = l - 1
              BY <1>6, <2>5
            <7> HIDE DEF l, q
            <7>2. QED
              BY <1>6, <2>1, <5>3, <7>1
          <6>6. conds'[d[1]] = conds[l]
            BY <2>3, <6>5
          <6>7. QED
            BY <4>1, <6>2, <6>4, <6>6
        <5>4. QED
          BY <5>2, <5>3
      <4>2. CASE i # 1
        <5>1. i \in 2 .. n /\ files'[i] = files[i] /\ d[i] = b[i] - 1 /\ b[i] \in 1 .. q
          BY <1>4, <2>5, <2>6, <4>2
        <5>2. CASE files[i].nest = <<>>
          BY <1>2, <5>1, <5>2 DEF Firsts
        <5>3. CASE files[i].nest # <<>>
          <6>1. 1 \in 1 .. Len(files[i].nest)
            BY <1>2, <5>3, BoundsAre
          <6>2. conds'[d[i] - 1 + 1] = conds[b[i] - 1 + 1]
            BY <2>7, <5>1, <6>1
          <6>3. d[i] - 1 + 1 = d[i] /\ b[i] - 1 + 1 = b[i]
            BY <5>1
          <6>4. QED
            BY <1>2, <5>1, <5>3, <6>2, <6>3 DEF Firsts
        <5>4. QED
          BY <5>2, <5>3
      <4>3. QED
        BY <4>1, <4>2
    <3>2. QED
      BY <1>4, <3>1 DEF Firsts
  <2>10. ASSUME ~ left' PROVE Selecting(d)'
    <3>1. Selecting(b)
      BY <1>1, <1>2, <2>10
    <3>2. ASSUME NEW i \in 1 .. n, NEW m \in 1 .. Len(files'[i].nest)
          PROVE  LET t == conds'[d[i] - m + 1]
                     w == files'[i].nest
                 IN /\ t.state <=> \A k \in 1 .. m : w[k].now
                    /\ t.inherited /\ ~ t.state
                         <=> (\A k \in 1 .. m - 1 : w[k].now) /\ ~ w[m].was
      <4>1. LET t == conds[b[i] - m + 1]
                w == files[i].nest
            IN /\ t.state <=> \A k \in 1 .. m : w[k].now
               /\ t.inherited /\ ~ t.state
                    <=> (\A k \in 1 .. m - 1 : w[k].now) /\ ~ w[m].was
        BY <2>7, <3>1 DEF Selecting
      <4>2. /\ m \in 1 .. m
            /\ \A k \in 1 .. m - 1 : k \in 1 .. m
        BY <2>7
      <4>3. /\ conds'[d[i] - m + 1] = conds[b[i] - m + 1]
            /\ \A k \in 1 .. m : files'[i].nest[k] = files[i].nest[k]
        BY <2>7
      <4>4. QED
        BY <4>1, <4>2, <4>3
    <3>3. ASSUME NEW i \in 1 .. n, d[i] < q - 1 PROVE conds'[d[i] + 1].state
      <4>1. d[i] = b[i] - 1 /\ b[i] \in 1 .. q /\ b[i] < q /\ d[i] + 1 \in 1 .. q - 1
            /\ (d[i] + 1) + 1 = b[i] + 1
        BY <1>6, <2>5, <2>6, <3>3
      <4>2. conds'[d[i] + 1] = conds[b[i] + 1]
        BY <2>3, <4>1
      <4>3. QED
        BY <3>1, <4>1, <4>2 DEF Selecting
    <3>4. ASSUME NEW i \in 2 .. n, NEW m \in 1 .. Len(files'[i].nest)
          PROVE  files'[i].nest[m].now
      BY <1>4, <3>1 DEF Selecting
    <3> HIDE DEF n, q
    <3>5. QED
      BY <1>4, <2>3, <3>2, <3>3, <3>4 DEF Selecting
  <2>11. d \in [0 .. Len(files') -> 0 .. Len(conds')]
    BY <2>8 DEF Bounds
  <2>12. QED
    BY <2>8, <2>9, <2>10, <2>11 DEF Nested
<1>10. QED
  BY <1>8, <1>9

\* The directives that are open select what the newest condition does.
LEMMA SelectedIs ==
  TypeInv /\ Nested /\ ~ crossed /\ ~ left /\ files # <<>>
    => (AssemblyOn(conds) <=> Selected(files))
<1> SUFFICES ASSUME TypeInv, Nested, ~ crossed, ~ left, files # <<>>
             PROVE  AssemblyOn(conds) <=> Selected(files)
  OBVIOUS
<1>1. PICK b \in [0 .. Len(files) -> 0 .. Len(conds)] : Bounds(b) /\ Selecting(b)
  BY DEF Nested
<1>2. QED
  BY <1>1, OnIs

LEMMA NextDistinct == TypeInv /\ Distinct /\ [Next]_vars => Distinct'
<1> SUFFICES ASSUME TypeInv, Distinct, [Next]_vars PROVE Distinct'
  OBVIOUS
<1>0. conds \in Seq(ConditionType) /\ Len(conds) \in Nat /\ DOMAIN conds = 1 .. Len(conds)
  BY DEF TypeInv
<1>1. CASE UNCHANGED conds
  BY <1>1 DEF Distinct
<1>2. CASE Opens
  <2>1. PICK c, wanted \in BOOLEAN, behind \in SUBSET {"eof"} :
          Condition(c, wanted, behind)
    BY <1>2, OpensIs
  <2>2. PICK a \in Address : ConditionOpened(a, c, wanted)
    BY <2>1, ConditionOpens
  <2>3. QED
    BY <2>2, PushedApart DEF ConditionOpened
<1>3. CASE \E c \in BOOLEAN, elsed \in BOOLEAN : ElseOrElif(c, elsed)
  <2>1. PICK c \in BOOLEAN : ConditionBranched(c)
    BY <1>3, BranchBranches
  <2>2. QED
    BY <2>1, BranchedApart DEF ConditionBranched
<1>4. CASE Endif \/ PopCondition
  <2>1. ConditionClosed
    BY <1>4, EndifCloses, PopConditionCloses
  <2>2. CASE conds = <<>>
    BY <1>1, <2>1, <2>2 DEF ConditionClosed
  <2>3. CASE conds # <<>>
    <3>1. conds' = Tail(conds)
      BY <2>1, <2>3 DEF ConditionClosed
    <3>2. /\ DOMAIN conds' = 1 .. Len(conds) - 1
          /\ \A k \in 1 .. Len(conds) - 1 : conds'[k] = conds[k + 1]
      BY <1>0, <2>3, <3>1, Newest
    <3>3. ASSUME NEW i \in 1 .. Len(conds) - 1, NEW k \in 1 .. Len(conds) - 1,
                 conds'[i].at = conds'[k].at
          PROVE  i = k
      <4>1. i + 1 \in DOMAIN conds /\ k + 1 \in DOMAIN conds
        BY <1>0
      <4>2. conds[i + 1].at = conds[k + 1].at
        BY <3>2, <3>3
      <4>3. i + 1 = k + 1
        BY <4>1, <4>2 DEF Distinct
      <4>4. QED
        BY <4>3
    <3>4. QED
      BY <3>2, <3>3 DEF Distinct
  <2>4. QED
    BY <2>2, <2>3
<1>5. IncludeFile \/ DataFile \/ EndFile \/ EndPop \/ Terminate \/ NextSource
        \/ UNCHANGED vars => UNCHANGED conds
  BY DEF IncludeFile, DataFile, EndFile, EndPop, Terminate, NextSource, vars
<1>6. Line \/ After => UNCHANGED conds
  BY LineIs, AfterIs DEF LineRead
<1>6a. Complete => Distinct'
  BY CompleteIs
<1>7. QED
  BY <1>1, <1>2, <1>3, <1>4, <1>5, <1>6, <1>6a, NextIs

LEMMA NextNested == TypeInv /\ Nested /\ Distinct /\ Lexed /\ [Next]_vars => Nested'
<1> SUFFICES ASSUME TypeInv, Nested, Distinct, Lexed, [Next]_vars PROVE Nested'
  OBVIOUS
<1>1. CASE Line
  BY <1>1, LineIs, NestedKept DEF LineRead
<1>2. CASE UNCHANGED <<files, conds, crossed, left>>
  BY <1>2, NestedKept
<1>3. CASE Opens
  <2>1. PICK c, wanted \in BOOLEAN, behind \in SUBSET {"eof"} :
          Condition(c, wanted, behind) /\ (defined = meant => c = wanted)
    BY <1>3, OpensIs
  <2>2. PICK a \in Address : ConditionOpened(a, c, wanted)
    BY <2>1, ConditionOpens
  <2>3. pc = "lines"
    BY <2>1 DEF Condition, ReadDirective
  <2>4. ~ crossed /\ ~ left => c = wanted
    BY <2>1, <2>3 DEF Lexed, AfterLine
  <2>5. QED
    BY <2>2, <2>4, NestedPushed
<1>4. CASE \E c \in BOOLEAN, elsed \in BOOLEAN : ElseOrElif(c, elsed)
  BY <1>4, BranchBranches, NestedBranched
<1>5. CASE Endif \/ PopCondition
  BY <1>5, EndifCloses, PopConditionCloses, NestedShut
<1>6. CASE IncludeFile
  <2>1. FileOpened(FALSE)
    BY <1>6, IncludeOpens
  <2>2. /\ conds' = conds /\ crossed' = crossed /\ left' = left /\ AssemblyOn(conds)
        /\ files # <<>>
    BY <1>6 DEF IncludeFile, RestUnchanged, ReadLine, TypeInv, AfterLine
  <2>3. FALSE \in BOOLEAN
    OBVIOUS
  <2>4. QED
    BY <2>1, <2>2, <2>3, NestedOpened
<1>7. CASE DataFile
  <2>1. /\ conds' = conds /\ crossed' = crossed /\ left' = left /\ mode = "on"
        /\ pc = "lines"
    BY <1>7 DEF DataFile, RestUnchanged, ReadLine
  <2>2. CASE FileOpened(TRUE)
    <3>1. TRUE \in BOOLEAN
      OBVIOUS
    <3>2. CASE crossed
      BY <2>1, <3>2 DEF Nested
    <3>3. CASE ~ crossed
      <4>1. ~ left' => AssemblyOn(conds)
        BY <2>1, <3>3 DEF Lexed, AfterLine
      <4>2. QED
        BY <2>1, <2>2, <3>1, <4>1, NestedOpened
    <3>4. QED
      BY <3>2, <3>3
  <2>3. CASE UNCHANGED <<files, reader>>
    BY <1>2, <2>1, <2>3
  <2>4. QED
    BY <1>7, <2>2, <2>3, DataOpens
<1>8. CASE EndFile \/ Terminate \/ UNCHANGED vars
  BY <1>2, <1>8 DEF EndFile, Terminate, vars
<1>9. CASE EndPop
  <2>1. files # <<>> /\ files \in Seq(FileType) /\ files' = Tail(files)
        /\ top.first = NoAddress /\ UNCHANGED <<conds, left>> /\ (~ crossed' => ~ crossed)
    BY <1>9 DEF EndPop, TypeInv, RestUnchanged
  <2>2. files[1].first = NoAddress
    BY <2>1, Newest DEF top
  <2>3. QED
    BY <2>1, <2>2, NestedClosed
<1>10. CASE NextSource
  <2>1. /\ conds' = conds /\ crossed' = crossed /\ files \in Seq(FileType)
        /\ ~ left' => files = <<>> /\ conds = <<>>
    BY <1>10 DEF NextSource, TypeInv
  <2>2. ~ left' => AssemblyOn(conds) /\ (files = <<>> \/ ~ left)
    BY <2>1 DEF AssemblyOn
  <2>3. CASE CanPush
    <3>1. FileOpened(FALSE) /\ FALSE \in BOOLEAN
      BY <1>10, <2>1, <2>3, PushedFile DEF NextSource
    <3>2. QED
      BY <2>1, <2>2, <3>1, NestedOpened
  <2>4. CASE ~ CanPush
    <3>1. files' = files
      BY <1>10, <2>4 DEF NextSource
    <3>2. files # <<>>
      <4>1. MaxIncludes \in Nat \ {0, 1} /\ ~ (Len(files) < MaxIncludes)
        BY <2>4, PreprocessorAssumption DEF CanPush
      <4>2. Len(<<>>) = 0
        OBVIOUS
      <4>3. QED
        BY <4>1, <4>2
    <3>3. left' \in BOOLEAN /\ left'
      BY <1>10, <3>2 DEF NextSource
    <3>4. ~ left' => ~ left
      BY <3>3
    <3>5. QED
      BY <2>1, <3>1, <3>4, NestedKept
  <2>5. QED
    BY <2>3, <2>4
<1>11. CASE After
  BY <1>11, AfterIs, NestedKept DEF LineRead, After, Garbage, EndInDirective, JoinedText,
     JoinedDirective, JoinedEnd, RestUnchanged
<1>12. CASE Complete
  <2>1. (crossed \/ parse = "done") /\ UNCHANGED <<crossed, left>>
    BY <1>12 DEF Complete, TypeInv
  <2>2. CASE crossed
    BY <2>1, <2>2 DEF Nested
  <2>3. CASE parse = "done"
    <3>1. PICK g \in FileType :
            TopBecomes(g) /\ g.first = files[1].first /\ g.nest = files[1].nest
      BY <1>12, <2>3, CompleteIs
    <3>2. conds' = conds
      BY <1>12, <2>3, CompleteIs
    <3>3. /\ Len(files') = Len(files)
          /\ \A i \in 1 .. Len(files) :
               files'[i].first = files[i].first /\ files'[i].nest = files[i].nest
      BY <3>1 DEF TopBecomes
    <3>4. QED
      BY <2>1, <3>2, <3>3, NestedKept
  <2>4. QED
    BY <2>1, <2>2, <2>3
<1>13. QED
  BY <1>1, <1>3, <1>4, <1>5, <1>6, <1>7, <1>8, <1>9, <1>10, <1>11, <1>12, NextIs
-----------------------------------------------------------------------------
(* The lexer.                                                              *)

\* A line with the lexer where the conditions are after it.
LEMMA ResumedIs ==
  ASSUME Lexed, pc \in {"lines", "completed", "last"}, pc' \in AfterLine \cup {"term"},
         Resume,
         UNCHANGED <<crossed, left>> \/ crossed',
         defined = meant /\ ~ crossed /\ ~ left => defined' = meant'
  PROVE  Lexed'
BY DEF Lexed, Resume, AfterLine, Reading

\* The lexer and what is defined are left alone, and so are the conditions.
LEMMA LexedKept ==
  ASSUME Lexed, pc \in AfterLine, pc' \in AfterLine \cup {"term"},
         UNCHANGED <<conds, mode, defined, meant, crossed, left>>
  PROVE  Lexed'
<1>1. AssemblyOn(conds') = AssemblyOn(conds)
  OBVIOUS
<1>2. QED
  BY <1>1 DEF Lexed, AfterLine, Reading

LEMMA LineLexes == TypeInv /\ Nested /\ Lexed /\ Line => Lexed'
<1> SUFFICES ASSUME TypeInv, Nested, Lexed, Line PROVE Lexed'
  OBVIOUS
<1>1. /\ pc = "lines" /\ files # <<>> /\ UNCHANGED <<crossed, left>>
      /\ pc \in AfterLine /\ pc' \in AfterLine
  BY LineIs, LineGoesOn DEF LineRead, AfterLine
<1>2. CASE Text \/ SyntaxError \/ IncludeNotFound \/ IncludeTooDeep
  <2>1. UNCHANGED <<conds, mode, defined, meant>>
    BY <1>2 DEF Text, SyntaxError, IncludeNotFound, IncludeTooDeep
  <2>2. QED
    BY <1>1, <2>1, LexedKept
<1>3. ASSUME NEW d \in BOOLEAN, Define(d) PROVE Lexed'
  <2>1. /\ Resume /\ AssemblyOn(conds)
        /\ defined' = d /\ meant' = IF Selected(files) THEN d ELSE meant
    BY <1>3 DEF Define
  <2>2. ~ crossed /\ ~ left => Selected(files)
    BY <1>1, <2>1, SelectedIs
  <2>3. ~ crossed /\ ~ left => defined' = meant'
    BY <2>1, <2>2
  <2>4. QED
    BY <1>1, <2>1, <2>3, ResumedIs
<1>4. CASE \/ Skip \/ Incomplete \/ Unknown
           \/ \E error \in BOOLEAN : Message(error)
           \/ \E n \in LineNumbers : ChangeLocation(n)
  <2>1. Resume /\ UNCHANGED <<defined, meant>>
    BY <1>4 DEF Skip, Incomplete, Unknown, Message, ChangeLocation
  <2>2. QED
    BY <1>1, <2>1, ResumedIs
<1>5. QED
  BY <1>2, <1>3, <1>4 DEF Line

LEMMA ConditionLexes ==
  ASSUME TypeInv, Lexed, Opens \/ Endif
                    \/ \E c \in BOOLEAN, elsed \in BOOLEAN : ElseOrElif(c, elsed)
  PROVE  Lexed'
<1>1. CASE Opens
  <2>1. PICK c, wanted \in BOOLEAN, behind \in SUBSET {"eof"} :
          Condition(c, wanted, behind)
    BY <1>1, OpensIs
  <2>2. ReadDirective(behind) /\ Resume /\ UNCHANGED <<defined, meant, crossed, left>>
    BY <2>1 DEF Condition, RestUnchanged
  <2>3. QED
    BY <2>2, DirectiveIs, ResumedIs
<1>2. CASE Endif
  <2>1. /\ ReadDirective({"eof"}) /\ Resume
        /\ UNCHANGED <<defined, meant, left>>
        /\ crossed' = (crossed \/ (conds # <<>> /\ top.nest = <<>>))
    BY <1>2 DEF Endif, RestUnchanged
  <2>2. crossed' = crossed \/ crossed'
    BY <2>1 DEF TypeInv
  <2>3. pc = "lines" /\ pc' \in AfterLine
    BY <2>1, DirectiveIs
  <2>4. QED
    BY <2>1, <2>2, <2>3, ResumedIs
<1>3. CASE \E c \in BOOLEAN, elsed \in BOOLEAN : ElseOrElif(c, elsed)
  <2>0. PICK c \in BOOLEAN, elsed \in BOOLEAN : ElseOrElif(c, elsed)
    BY <1>3
  <2>1. /\ Resume /\ UNCHANGED <<defined, meant, left>>
        /\ crossed' = (crossed \/ (conds # <<>> /\ top.nest = <<>>))
    BY <2>0 DEF ElseOrElif, RestUnchanged
  <2>2. crossed' = crossed \/ crossed'
    BY <2>1 DEF TypeInv
  <2>3. pc = "lines" /\ pc' \in AfterLine
    BY <2>0, BranchReads, DirectiveIs
  <2>4. QED
    BY <2>1, <2>2, <2>3, ResumedIs
<1>4. QED
  BY <1>1, <1>2, <1>3

\* Within a directive that a file ended in, only what is defined is kept.
LEMMA InDirective ==
  ASSUME Lexed, pc \in AfterLine \cup Reading,
         \/ pc' \in {"joined", "completed", "last", "aborted", "term"}
         \/ pc' = "wrap" /\ mode' = "on",
         UNCHANGED <<defined, meant, crossed, left>>
  PROVE  Lexed'
BY DEF Lexed, AfterLine, Reading

LEMMA AfterLexes ==
  ASSUME TypeInv, Lexed, After
  PROVE  Lexed'
<1>1. UNCHANGED <<defined, meant, crossed, left>>
  BY DEF After, Garbage, EndInDirective, JoinedText, JoinedDirective, JoinedEnd,
         RestUnchanged
<1>2. CASE Garbage
  <2>1. pc \in AfterLine /\ pc' \in AfterLine \cup {"term"} /\ UNCHANGED <<conds, mode>>
    BY <1>2, EndOfInputIs DEF Garbage, AfterLine
  <2>2. QED
    BY <1>1, <2>1, LexedKept
<1>3. CASE EndInDirective
  <2>1. pc \in AfterLine /\ pc' = "wrap" /\ mode' = "on"
    BY <1>3 DEF EndInDirective, BeginPop, AfterLine
  <2>2. QED
    BY <1>1, <2>1, InDirective
<1>4. CASE JoinedText \/ JoinedDirective
  <2>1. pc \in Reading /\ pc' \in {"joined", "completed", "aborted"}
    BY <1>4 DEF JoinedText, JoinedDirective, Joined, Reading
  <2>2. QED
    BY <1>1, <2>1, InDirective
<1>5. CASE JoinedEnd
  <2>1. pc \in Reading /\ (pc' = "last" \/ (pc' = "wrap" /\ mode' = "on"))
    BY <1>5 DEF JoinedEnd, BeginPop, Reading
  <2>2. QED
    BY <1>1, <2>1, InDirective
<1>6. QED
  BY <1>2, <1>3, <1>4, <1>5 DEF After

LEMMA CompleteLexes ==
  ASSUME TypeInv, Lexed, Complete
  PROVE  Lexed'
<1>1. /\ pc \in {"completed", "last"} /\ pc' \in {"lines", "term"} /\ Resume
      /\ UNCHANGED <<meant, crossed, left>> /\ (crossed \/ parse = "done")
  BY DEF Complete, TypeInv
<1>2. CASE crossed
  BY <1>1, <1>2, ResumedIs DEF AfterLine
<1>3. CASE parse = "done"
  <2>1. defined' = defined
    BY <1>3, CompleteIs
  <2>2. QED
    BY <1>1, <2>1, ResumedIs DEF AfterLine
<1>4. QED
  BY <1>1, <1>2, <1>3

LEMMA FileLexes ==
  ASSUME TypeInv, Nested, Lexed,
         IncludeFile \/ DataFile \/ EndFile \/ PopCondition \/ EndPop \/ Terminate
  PROVE  Lexed'
<1>1. CASE IncludeFile \/ DataFile
  <2>1. /\ pc = "lines" /\ pc' = "lines"
        /\ UNCHANGED <<conds, mode, defined, meant, crossed, left>>
    BY <1>1 DEF IncludeFile, DataFile, ReadLine, RestUnchanged
  <2>2. QED
    BY <2>1, LexedKept DEF AfterLine
<1>2. CASE EndFile
  <2>1. pc \in {"lines", "garbage"} /\ UNCHANGED <<defined, meant, crossed, left>>
    BY <1>2 DEF EndFile
  <2>2. \/ pc' = "wrap" /\ mode' = "on"
        \/ pc' = "term"
    BY <1>2 DEF EndFile, BeginPop
  <2>3. QED
    BY <2>1, <2>2, InDirective DEF AfterLine
<1>3. CASE PopCondition
  <2>1. /\ pc \in {"wrap", "pop"} /\ pc' = pc
        /\ UNCHANGED <<mode, defined, meant, crossed, left>>
    BY <1>3 DEF PopCondition, RestUnchanged
  <2>2. QED
    BY <2>1 DEF Lexed, AfterLine, Reading
<1>4. CASE EndPop
  <2>1. /\ files # <<>> /\ files \in Seq(FileType) /\ files' = Tail(files)
        /\ top.first = NoAddress
        /\ UNCHANGED <<conds, mode, defined, meant, left>> /\ (~ crossed' => ~ crossed)
        /\ pc \in {"wrap", "pop"}
    BY <1>4 DEF EndPop, TypeInv, RestUnchanged
  <2>2. files[1].first = NoAddress
    BY <2>1, Newest DEF top
  <2>3. ~ crossed /\ ~ left => AssemblyOn(conds)
    BY <2>1, <2>2, NestedClosed
  <2>4. AssemblyOn(conds') = AssemblyOn(conds)
    BY <2>1
  <2>5. mode' = "on"
    BY <2>1 DEF Lexed
  <2>6. pc' # "main" => pc = "wrap"
    BY <1>4 DEF EndPop
  <2>7. pc' \in {"lines", "term", "main", "joined", "completed"}
    BY <1>4, EndOfInputIs DEF EndPop
  <2>8. ~ crossed' /\ ~ left' => (mode' = "on" <=> AssemblyOn(conds'))
    BY <2>1, <2>3, <2>4, <2>5
  <2>9. pc' # "main" /\ ~ crossed' /\ ~ left' => defined' = meant'
    BY <2>1, <2>6 DEF Lexed, Reading
  <2>10. QED
    BY <2>5, <2>7, <2>8, <2>9 DEF Lexed, AfterLine, Reading
<1>5. CASE Terminate
  BY <1>5 DEF Terminate, BeginPop, Lexed, AfterLine, Reading
<1>6. QED
  BY <1>1, <1>2, <1>3, <1>4, <1>5

LEMMA NextLexed == TypeInv /\ Nested /\ Lexed /\ [Next]_vars => Lexed'
<1> SUFFICES ASSUME TypeInv, Nested, Lexed, [Next]_vars PROVE Lexed'
  OBVIOUS
<1>1. CASE NextSource
  <2>1. /\ pc = "main" /\ pc' \in {"lines", "main"} /\ conds' = conds /\ mode' = mode
        /\ defined' = meant'
        /\ ~ left' => conds = <<>>
    BY <1>1 DEF NextSource
  <2>2. mode' = "on"
    BY <2>1 DEF Lexed
  <2>3. ~ left' => AssemblyOn(conds')
    BY <2>1 DEF AssemblyOn
  <2>4. QED
    BY <2>1, <2>2, <2>3 DEF Lexed, AfterLine, Reading
<1>2. CASE UNCHANGED vars
  <2>1. UNCHANGED <<pc, mode, conds, crossed, left, defined, meant>>
    BY <1>2 DEF vars
  <2>2. QED
    BY <2>1 DEF Lexed, AssemblyOn
<1>3. QED
  BY <1>1, <1>2, LineLexes, ConditionLexes, FileLexes, AfterLexes, CompleteLexes, NextIs
-----------------------------------------------------------------------------
(* The theorems.                                                           *)

LEMMA InitIInv == Init => IInv
<1> SUFFICES ASSUME Init PROVE IInv
  OBVIOUS
<1>1. files = <<>> /\ conds = <<>> /\ Len(files) = 0 /\ Len(conds) = 0
  BY DEF Init
<1>2. TypeInv
  <2>1. files \in Seq(FileType) /\ conds \in Seq(ConditionType)
    BY <1>1
  <2>2. /\ pc = "main" /\ mode = "on" /\ reader = "parse" /\ parse = "none"
        /\ defined = FALSE /\ meant = FALSE /\ failed = FALSE /\ object = FALSE
        /\ crossed = FALSE /\ left = FALSE /\ whole = FALSE
    BY DEF Init
  <2>3. QED
    BY <2>1, <2>2 DEF TypeInv, AfterLine, Reading
<1>2a. Located /\ Distinct
  BY <1>1 DEF Located, Distinct
<1>2b. Ended
  BY <1>1 DEF Init, Ended, Reading
<1>3. Nested
  <2>1. PICK b : b = [i \in 0 .. 0 |-> 0]
    OBVIOUS
  <2>2. Bounds(b) /\ Firsts(b) /\ Selecting(b)
    BY <1>1, <2>1 DEF Bounds, Firsts, Selecting
  <2>3. QED
    BY <1>1, <2>2 DEF Nested, Bounds
<1>4. Lexed
  BY <1>1 DEF Init, Lexed, AssemblyOn, AfterLine, Reading
<1>5. QED
  BY <1>2, <1>2a, <1>2b, <1>3, <1>4 DEF IInv

\* The inductive invariant: each file owns a segment of the stack of conditions, with
\* its first condition at the end of it, and a condition says of its segment what the
\* branches of its file do.
THEOREM Invariance == Spec => []IInv
<1>1. IInv /\ [Next]_vars => IInv'
  BY NextTypes, NextLocates, NextEnds, NextDistinct, NextNested, NextLexed DEF IInv
<1>2. QED
  BY <1>1, InitIInv, PTL DEF Spec

\* The lexer skips what is outside of the branches selected, and what is defined is
\* what the directives inside of them define: for every source in which no file closes
\* or changes a condition of another one and every directive is carried out in the file
\* it stands in (crossed), which an included file's last one may not be (cpp.c:1293).
THEOREM Selects == Spec => []SelectsWhatIsMeant
<1>1. IInv => SelectsWhatIsMeant
  <2> SUFFICES ASSUME IInv, pc = "lines", ~ crossed, ~ left
               PROVE  (mode = "on" <=> Selected(files)) /\ defined = meant
    BY DEF SelectsWhatIsMeant
  <2>1. files # <<>>
    BY DEF IInv, TypeInv, AfterLine
  <2>2. QED
    BY <2>1, SelectedIs DEF IInv, Lexed, AfterLine
<1>2. QED
  BY <1>1, Invariance, PTL

\* The sum of OpenUpTo is what a function has that grows by the same.
LEMMA OpenUpToIs ==
  ASSUME NEW i \in Nat, NEW b, \A k \in 0 .. i : b[k] \in Nat,
         b[0] = 0, \A k \in 1 .. i : b[k] = b[k - 1] + Len(files[k].nest)
  PROVE  OpenUpTo(i) = b[i]
<1> DEFINE Step(f) == [k \in 0 .. i |->
                         IF k = 0 THEN 0 ELSE f[k - 1] + Len(files[k].nest)]
           sum == CHOOSE f : f = Step(f)
           c == [k \in 0 .. i |-> b[k]]
<1>1. OpenUpTo(i) = sum[i]
  BY DEF OpenUpTo
<1>2. c = Step(c)
  <2>1. \A k \in 0 .. i : k # 0 => k \in 1 .. i /\ k - 1 \in 0 .. i
    OBVIOUS
  <2>2. QED
    BY <2>1
<1>3. sum = Step(sum)
  BY <1>2
<1> HIDE DEF sum
<1>4. \A k \in 0 .. i : sum[k] = IF k = 0 THEN 0 ELSE sum[k - 1] + Len(files[k].nest)
  BY <1>3
<1> DEFINE T == {k \in 0 .. i : sum[k] # b[k]}
<1>5. ASSUME T # {} PROVE FALSE
  <2>1. PICK x \in T : \A y \in T : x <= y
    <3>1. T \subseteq Nat
      OBVIOUS
    <3> HIDE DEF T
    <3>2. QED
      BY <1>5, <3>1, Least
  <2>2. x # 0
    BY <1>4, <2>1
  <2>3. x - 1 \in 0 .. i /\ x - 1 \notin T
    BY <2>1, <2>2
  <2>4. QED
    BY <1>4, <2>1, <2>2, <2>3
<1>6. i \in 0 .. i /\ i \notin T
  BY <1>5
<1>7. QED
  BY <1>1, <1>6

\* first_condition is the oldest condition that the file has open.
THEOREM Oldest == Spec => []FirstIsOldest
<1>1. IInv => FirstIsOldest
  <2> SUFFICES ASSUME IInv, ~ crossed
               PROVE  /\ Len(conds) = OpenUpTo(Len(files))
                      /\ \A i \in DOMAIN files :
                           files[i].first = IF files[i].nest = <<>> THEN NoAddress
                                            ELSE conds[OpenUpTo(i)].at
    BY DEF FirstIsOldest
  <2>1. TypeInv
    BY DEF IInv
  <2>2. PICK b \in [0 .. Len(files) -> 0 .. Len(conds)] : Bounds(b) /\ Firsts(b)
    BY DEF IInv, Nested
  <2>3. Len(files) \in Nat /\ DOMAIN files = 1 .. Len(files)
    BY <2>1 DEF TypeInv
  <2>4. ASSUME NEW i \in 0 .. Len(files) PROVE OpenUpTo(i) = b[i]
    <3>1. \A k \in 0 .. i : k \in 0 .. Len(files)
      BY <2>3
    <3>2. \A k \in 1 .. i : k \in 1 .. Len(files)
      BY <2>3
    <3>3. i \in Nat /\ \A k \in 0 .. i : b[k] \in Nat
      BY <2>1, <2>2, <3>1, BoundsAre
    <3>4. b[0] = 0 /\ \A k \in 1 .. i : b[k] = b[k - 1] + Len(files[k].nest)
      BY <2>2, <3>2 DEF Bounds
    <3>5. QED
      BY <3>3, <3>4, OpenUpToIs
  <2>5. Len(conds) = OpenUpTo(Len(files))
    BY <2>2, <2>3, <2>4 DEF Bounds
  <2>6. ASSUME NEW i \in 1 .. Len(files)
        PROVE  files[i].first = IF files[i].nest = <<>> THEN NoAddress
                                ELSE conds[OpenUpTo(i)].at
    BY <2>2, <2>4 DEF Firsts
  <2>7. QED
    BY <2>3, <2>5, <2>6
<1>2. QED
  BY <1>1, Invariance, PTL

\* An error is reported at the line it is in.
THEOREM Location == Spec => []LocationIsRight
<1>1. IInv => LocationIsRight
  <2> SUFFICES ASSUME IInv, pc = "lines", ~ top.miscounted
               PROVE  top.line + top.delta = top.claimed
    BY DEF LocationIsRight
  <2>1. files # <<>> /\ files \in Seq(FileType)
    BY DEF IInv, TypeInv, AfterLine
  <2>2. top = files[1] /\ 1 \in DOMAIN files
    BY <2>1, Newest DEF top
  <2>3. QED
    BY <2>2 DEF IInv, Located, Right
<1>2. QED
  BY <1>1, Invariance, PTL

\* An object file is left only of a source that was read to its end, wherever its
\* included files end (as21.c:106-217, cpp.c:1283-1301).
THEOREM Completeness == Spec => []ReadToEnd
<1>1. IInv => ReadToEnd
  <2> SUFFICES ASSUME IInv, object, ~ left
               PROVE  whole /\ (pc = "main" => files = <<>>)
    BY DEF ReadToEnd
  <2>1. whole /\ Len(files) = (IF pc = "pop" THEN 1 ELSE 0)
    BY DEF IInv, Ended
  <2>2. QED
    BY <2>1 DEF IInv, TypeInv
<1>2. QED
  BY <1>1, Invariance, PTL
=============================================================================
