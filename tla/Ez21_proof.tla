----------------------------- MODULE Ez21_proof ----------------------------
(***************************************************************************)
(* Theorems about Ez21, for every executable, image and memory list, every *)
(* size of the memories and of the vector table, and every number of       *)
(* faults of the line.                                                     *)
(***************************************************************************)
EXTENDS Ez21, WellFoundedInduction, TLAPS

USE DEF faultVars

\* What a kit has is a sequence of commands: the first one, and what is behind.
LEMMA TailFacts ==
  ASSUME NEW S, NEW q \in Seq(S), q # <<>>
  PROVE  /\ Tail(q) \in Seq(S) /\ Head(q) = q[1] /\ 1 \in DOMAIN q /\ Head(q) \in S
         /\ Len(Tail(q)) = Len(q) - 1 /\ Len(q) \in Nat /\ DOMAIN q = 1 .. Len(q)
         /\ DOMAIN Tail(q) = 1 .. Len(q) - 1
         /\ \A k \in DOMAIN Tail(q) : Tail(q)[k] = q[k + 1] /\ k + 1 \in DOMAIN q
OBVIOUS

LEMMA AppendFacts ==
  ASSUME NEW S, NEW q \in Seq(S), NEW c \in S
  PROVE  /\ Append(q, c) \in Seq(S) /\ Len(q) \in Nat /\ DOMAIN q = 1 .. Len(q)
         /\ Len(Append(q, c)) = Len(q) + 1 /\ DOMAIN Append(q, c) = 1 .. Len(q) + 1
         /\ Append(q, c)[Len(q) + 1] = c
         /\ \A k \in DOMAIN q : Append(q, c)[k] = q[k]
OBVIOUS

\* The parts of a sequence of bytes.
LEMMA WholeSequence ==
  ASSUME NEW S, NEW q \in Seq(S)
  PROVE  First(q, Len(q)) = q /\ Rest(q, Len(q)) = <<>>
BY DEF First, Rest

LEMMA WordSizes ==
  ASSUME NEW sp \in Space
  PROVE  WordSize[sp] \in {2, 3} /\ (sp = "PM" => WordSize[sp] = 3)
         /\ (sp = "DM" => WordSize[sp] = 2)
BY DEF WordSize, Space

\* Whole words have so many bytes.
LEMMA Quotient ==
  ASSUME NEW m \in Nat, NEW n \in {2, 3}
  PROVE  /\ m \div n \in Nat
         /\ m % n = 0 => m = (m \div n) * n
         /\ (m * n) \div n = m
<1>1. CASE n = 2
  BY <1>1
<1>2. CASE n = 3
  BY <1>2
<1> QED
  BY <1>1, <1>2

\* Word j + 1 of a sequence of bytes.
LEMMA InWord ==
  ASSUME NEW j \in Nat, NEW n \in {2, 3}, NEW k \in 1 .. n
  PROVE  (j * n + n - k) \div n = j /\ (j * n + n - k) % n = n - k
<1>1. CASE n = 2
  BY <1>1
<1>2. CASE n = 3
  BY <1>2
<1> QED
  BY <1>1, <1>2

\* A set of natural numbers below a bound has a greatest one.
LEMMA Greatest ==
  ASSUME NEW m \in Nat, NEW U, U \subseteq 1 .. m, U # {}
  PROVE  Max(U) \in U
<1> DEFINE R == OpToRel(<, Nat)
           T == {m - i : i \in U}
<1>1. IsWellFoundedOn(R, Nat)
  BY NatLessThanWellFounded
<1>2. \A x, y \in Nat : <<y, x>> \in R <=> y < x
  BY DEF OpToRel
<1>3. T \subseteq Nat /\ T # {}
  <2>1. \A i \in U : m - i \in Nat
    <3>1. ASSUME NEW i \in U PROVE m - i \in Nat
      <4>1. i \in 1 .. m
        OBVIOUS
      <4> QED
        BY <4>1
    <3> QED
      BY <3>1
  <2> QED
    BY <2>1
<1> HIDE DEF R
<1>4. PICK x \in T : \A y \in T : ~ (<<y, x>> \in R)
  <2> HIDE DEF T
  <2> QED
    BY <1>1, <1>3, WFMin
<1>5. PICK i \in U : x = m - i
  BY <1>4
<1>6. ASSUME NEW j \in U PROVE i >= j
  <2>1. m - j \in T
    OBVIOUS
  <2> HIDE DEF T
  <2>2. ~ (m - j < m - i)
    BY <1>2, <1>3, <1>4, <1>5, <2>1
  <2> QED
    BY <2>2
<1> QED
  BY <1>6 DEF Max

\* An executable has a last section in each memory that it uses (boot_219X).
LEMMA LastInIs ==
  ASSUME NEW S, exe \in Seq(S), NEW sp, \E i \in DOMAIN exe : exe[i].space = sp
  PROVE  LastIn(sp) \in DOMAIN exe /\ exe[LastIn(sp)].space = sp
<1> DEFINE U == {i \in DOMAIN exe : exe[i].space = sp}
<1>1. Len(exe) \in Nat /\ U \subseteq 1 .. Len(exe) /\ U # {}
  OBVIOUS
<1>2. LastIn(sp) = Max(U)
  BY DEF LastIn
<1>3. LastIn(sp) \in U
  <2> HIDE DEF U
  <2> QED
    BY <1>1, <1>2, Greatest
<1> QED
  BY <1>3

----------------------------------------------------------------------------
(* What is sent for a section, and what the kit stores.                    *)

Section218 == [space : Space, vaddr : Address, data : Seq(Byte)]
Section219 == [space : Space, vaddr : Address, size : Nat, data : Seq(Byte)]

\* Where download_go sends a section that has no vectors or nothing else.
Start(s) == IF s.space = "PM" /\ s.vaddr < TableTop THEN s.vaddr + SwapTable ELSE s.vaddr

\* download_go sends it.
Sendable(s) == Fits(s) /\ ~ EndsInTable(s)

Whole(s) == Len(s.data) % WordSize[s.space] = 0

\* The words of a section.
Size(s) == Len(s.data) \div WordSize[s.space]

LEMMA SizeIs ==
  ASSUME NEW s \in Section218, Whole(s)
  PROVE  Size(s) \in Nat /\ Len(s.data) = Size(s) * WordSize[s.space]
         /\ Len(s.data) \in Nat /\ s.space \in Space /\ s.vaddr \in Nat
         /\ WordCount(s.data, WordSize[s.space]) = Size(s)
<1>1. s.space \in Space /\ s.data \in Seq(Byte) /\ s.vaddr \in 0 .. MemSize - 1
  BY DEF Section218, Address
<1>2. WordSize[s.space] \in {2, 3} /\ Len(s.data) \in Nat
  BY <1>1, WordSizes
<1>3. s.vaddr \in Nat
  BY <1>1
<1> QED
  BY <1>1, <1>2, <1>3, Quotient DEF Size, Whole, WordCount

\* A section whose vectors are by themselves is one command.
LEMMA OnePiece ==
  ASSUME NEW s \in Section218, Whole(s), Sendable(s), ~ Straddles(s)
  PROVE  Pieces(s) = Piece(Start(s), s.data)
<1>1. /\ Size(s) \in Nat /\ Len(s.data) = Size(s) * WordSize[s.space]
      /\ Len(s.data) \in Nat /\ s.space \in Space /\ s.vaddr \in Nat
      /\ WordCount(s.data, WordSize[s.space]) = Size(s) /\ s.data \in Seq(Byte)
  BY SizeIs DEF Section218
<1>2. TableTop \in Nat
  BY KitAssumption DEF Address
<1>3. CASE ~ (s.space = "PM" /\ s.vaddr < TableTop)
  BY <1>3 DEF Pieces, Start
<1>4. CASE s.space = "PM" /\ s.vaddr < TableTop
  <2>1. WordSize[s.space] = 3 /\ WordSize["PM"] = 3
    BY <1>4 DEF WordSize
  <2>2. s.vaddr + Size(s) >= TableTop
    BY <1>1, <1>4, <1>2, <2>1 DEF Sendable, EndsInTable
  <2>3. s.vaddr + Size(s) <= TableTop
    <3>1. ~ (s.vaddr + Size(s) > TableTop)
      BY <1>4, <2>1 DEF Straddles, Size
    <3> QED
      BY <1>1, <1>2, <3>1
  <2>4. (TableTop - s.vaddr) * WordSize[s.space] = Len(s.data)
    BY <1>1, <1>2, <2>1, <2>2, <2>3
  <2>5. First(s.data, Len(s.data)) = s.data /\ Rest(s.data, Len(s.data)) = <<>>
    BY <1>1, WholeSequence
  <2>6. Pieces(s) = Piece(s.vaddr + SwapTable, s.data)
                      \o Piece(s.vaddr + SwapTable + Len(s.data), <<>>)
    BY <1>4, <2>4, <2>5 DEF Pieces
  <2>7. Piece(s.vaddr + SwapTable + Len(s.data), <<>>) = <<>>
    BY DEF Piece
  <2>8. Piece(s.vaddr + SwapTable, s.data) \o <<>> = Piece(s.vaddr + SwapTable, s.data)
    BY DEF Piece
  <2> QED
    BY <1>4, <2>6, <2>7, <2>8 DEF Start
<1> QED
  BY <1>3, <1>4

\* The monitor stores n words from an address on, and leaves all others.
Spread(m, n, start, words) ==
  [a \in Address |-> IF a \in start .. start + n - 1 THEN words[a - start + 1] ELSE m[a]]

LEMMA StoredAt ==
  ASSUME NEW m, NEW n \in Nat, NEW start \in Nat, start + n <= MemSize,
         NEW words, DOMAIN words = 1 .. n, NEW a \in Address
  PROVE  Stored(m, start, words)[a] = Spread(m, n, start, words)[a]
<1>1. MemSize \in Nat \ {0} /\ a \in 0 .. MemSize - 1
  BY KitAssumption DEF Address
<1>2. \A i \in 1 .. n : (start + i - 1) % MemSize = start + i - 1
  <2>1. ASSUME NEW i \in 1 .. n PROVE (start + i - 1) % MemSize = start + i - 1
    <3> DEFINE b == start + i - 1
    <3>1. b \in Nat /\ b < MemSize
      BY <1>1
    <3>2. b % MemSize = b
      <4> HIDE DEF b
      <4> QED
        BY <1>1, <3>1
    <3> QED
      BY <3>2
  <2> QED
    BY <2>1
<1>3. (\E i \in 1 .. n : a = (start + i - 1) % MemSize) <=> a \in start .. start + n - 1
  <2>1. (\E i \in 1 .. n : a = start + i - 1) <=> a \in start .. start + n - 1
    <3>1. ASSUME a \in start .. start + n - 1
          PROVE  \E i \in 1 .. n : a = start + i - 1
      <4>1. a - start + 1 \in 1 .. n /\ a = start + (a - start + 1) - 1
        BY <1>1, <3>1
      <4> QED
        BY <4>1
    <3> QED
      BY <1>1, <3>1
  <2> QED
    BY <1>2, <2>1
<1>4. Stored(m, start, words)[a] =
        IF \E i \in 1 .. n : a = (start + i - 1) % MemSize
        THEN words[CHOOSE i \in 1 .. n : a = (start + i - 1) % MemSize] ELSE m[a]
  BY DEF Stored
<1>5. ASSUME a \in start .. start + n - 1
      PROVE  (CHOOSE i \in 1 .. n : a = (start + i - 1) % MemSize) = a - start + 1
  <2> DEFINE j == CHOOSE i \in 1 .. n : a = (start + i - 1) % MemSize
  <2>1. j \in 1 .. n /\ a = (start + j - 1) % MemSize
    BY <1>3, <1>5
  <2> HIDE DEF j
  <2>2. a = start + j - 1
    BY <1>2, <2>1
  <2>3. j = a - start + 1
    BY <1>1, <2>1, <2>2
  <2> QED
    BY <2>3 DEF j
<1>6. Spread(m, n, start, words)[a] =
        IF a \in start .. start + n - 1 THEN words[a - start + 1] ELSE m[a]
  BY DEF Spread
<1>7. CASE a \in start .. start + n - 1
  <2>1. Stored(m, start, words)[a] = words[a - start + 1]
    BY <1>3, <1>4, <1>5, <1>7, Zenon
  <2> QED
    BY <1>6, <1>7, <2>1
<1>8. CASE a \notin start .. start + n - 1
  BY <1>3, <1>4, <1>6, <1>8
<1> QED
  BY <1>7, <1>8

LEMMA StoredIs ==
  ASSUME NEW m, NEW n \in Nat, NEW start \in Nat, start + n <= MemSize,
         NEW words, DOMAIN words = 1 .. n
  PROVE  Stored(m, start, words) = Spread(m, n, start, words)
<1>1. \A a \in Address : Stored(m, start, words)[a] = Spread(m, n, start, words)[a]
  BY StoredAt
<1>2. /\ Stored(m, start, words) = [a \in Address |-> Stored(m, start, words)[a]]
      /\ Spread(m, n, start, words) = [a \in Address |-> Spread(m, n, start, words)[a]]
  BY DEF Stored, Spread
<1> QED
  BY <1>1, <1>2

\* Whose bytes a block has the other way round (send_219x_block) has the words of
\* the section for the loader.
LEMMA SameWord ==
  ASSUME NEW data \in Seq(Byte), NEW n \in {2, 3}, NEW j \in Nat, j * n + n <= Len(data)
  PROVE  LowFirst(LittleEndian(data, n), j * n, n) = WordAt(data, j * n, n)
<1> DEFINE le == LittleEndian(data, n)
<1>0. j * n \in Nat /\ Len(data) \in Nat
  <2>1. CASE n = 2
    BY <2>1
  <2>2. CASE n = 3
    BY <2>2
  <2> QED
    BY <2>1, <2>2
<1>1. ASSUME NEW k \in 1 .. n PROVE le[j * n + n + 1 - k] = data[j * n + k]
  <2> DEFINE b == j * n + n + 1 - k
  <2>1. b \in DOMAIN data /\ b - 1 = j * n + n - k
    BY <1>0
  <2>2. (b - 1) \div n = j /\ (b - 1) % n = n - k
    BY <2>1, InWord
  <2>3. n * j + n - (n - k) = j * n + k
    BY <1>0
  <2>4. le[b] = data[n * ((b - 1) \div n) + n - ((b - 1) % n)]
    <3> HIDE DEF b
    <3> QED
      BY <2>1 DEF LittleEndian
  <2> HIDE DEF b, le
  <2>5. le[b] = data[j * n + k]
    BY <2>2, <2>3, <2>4
  <2> QED
    BY <2>5 DEF b
<1> DEFINE P(v) == v = [k \in 0 .. n |->
                          IF k = 0 THEN 0 ELSE Base * v[k - 1] + le[j * n + n + 1 - k]]
           Q(v) == v = [k \in 0 .. n |->
                          IF k = 0 THEN 0 ELSE Base * v[k - 1] + data[j * n + k]]
<1>2. ASSUME NEW v PROVE P(v) <=> Q(v)
  <2>1. \A k \in 0 .. n : k # 0 => le[j * n + n + 1 - k] = data[j * n + k]
    <3>1. \A k \in 0 .. n : k # 0 => k \in 1 .. n
      OBVIOUS
    <3> HIDE DEF le
    <3> QED
      BY <1>1, <3>1
  <2> HIDE DEF le
  <2> QED
    BY <2>1
<1>3. LowFirst(le, j * n, n) = (CHOOSE v : P(v))[n]
  BY DEF LowFirst
<1>4. WordAt(data, j * n, n) = (CHOOSE v : Q(v))[n]
  BY DEF WordAt
<1>5. (CHOOSE v : P(v)) = (CHOOSE v : Q(v))
  <2> HIDE DEF P, Q
  <2> QED
    BY <1>2, Zenon
<1> QED
  BY <1>3, <1>4, <1>5

----------------------------------------------------------------------------
(* The job, the commands on the line and what the host does next.          *)

Job ==
  \/ machine = "218X" /\ exe \in Executables \cup {<<>>}
  \/ machine = "219X" /\ exe \in Images

LEMMA JobIs ==
  ASSUME Job
  PROVE  /\ machine \in {"218X", "219X"}
         /\ machine = "218X" =>
              /\ exe \in Seq(Section218)
              /\ \A i \in DOMAIN exe : exe[i] \in Section218 /\ Whole(exe[i])
              /\ \A i, j \in DOMAIN exe : i # j =>
                   Disjoint(exe[i], Size(exe[i]), exe[j], Size(exe[j]))
         /\ machine = "219X" =>
              /\ exe \in Seq(Section219)
              /\ \A i \in DOMAIN exe :
                   /\ exe[i] \in Section219 /\ exe[i].vaddr + exe[i].size <= MemSize
                   /\ Len(exe[i].data) \in {0, exe[i].size * WordSize[exe[i].space]}
              /\ \A i, j \in DOMAIN exe : i # j =>
                   Disjoint(exe[i], exe[i].size, exe[j], exe[j].size)
         /\ Len(exe) \in Nat /\ DOMAIN exe = 1 .. Len(exe)
<1>1. CASE machine = "218X" /\ exe = <<>>
  <2>1. exe \in Seq(Section218) /\ Len(exe) = 0 /\ DOMAIN exe = 1 .. 0
    BY <1>1
  <2> QED
    BY <1>1, <2>1
<1>2. CASE machine = "218X" /\ exe \in Executables
  <2>1. exe \in Seq(Section218)
    BY <1>2, ExecutableAssumption DEF Section218
  <2>2. /\ Len(exe) \in Nat /\ DOMAIN exe = 1 .. Len(exe)
        /\ \A i \in DOMAIN exe : exe[i] \in Section218
    BY <2>1
  <2>3. \A i \in DOMAIN exe : Whole(exe[i])
    BY <1>2, ExecutableAssumption DEF Whole
  <2>4. \A i, j \in DOMAIN exe : i # j =>
          Disjoint(exe[i], Size(exe[i]), exe[j], Size(exe[j]))
    BY <1>2, ExecutableAssumption, Zenon DEF Size
  <2> QED
    BY <1>2, <2>1, <2>2, <2>3, <2>4
<1>3. CASE machine = "219X" /\ exe \in Images
  <2>1. exe \in Seq(Section219)
    BY <1>3, ImageAssumption DEF Section219
  <2>2. /\ Len(exe) \in Nat /\ DOMAIN exe = 1 .. Len(exe)
        /\ \A i \in DOMAIN exe : exe[i] \in Section219
    BY <2>1
  <2>3. \A i \in DOMAIN exe :
          /\ exe[i].vaddr + exe[i].size <= MemSize
          /\ Len(exe[i].data) \in {0, exe[i].size * WordSize[exe[i].space]}
    BY <1>3, ImageAssumption, Zenon
  <2>4. \A i, j \in DOMAIN exe : i # j =>
          Disjoint(exe[i], exe[i].size, exe[j], exe[j].size)
    BY <1>3, ImageAssumption, Zenon
  <2> QED
    BY <1>3, <2>1, <2>2, <2>3, <2>4
<1> QED
  BY <1>1, <1>2, <1>3 DEF Job

DownloadOf(i) ==
  [cmd |-> "D", space |-> exe[i].space, start |-> Start(exe[i]), data |-> exe[i].data]

BlockOf(i) ==
  [cmd |-> "BLOCK", space |-> exe[i].space, final |-> i \in Finals,
   zeroed |-> exe[i].data = <<>>, start |-> exe[i].vaddr, words |-> exe[i].size,
   data |-> LittleEndian(exe[i].data, WordSize[exe[i].space])]

\* A download may be damaged, in its data and in its address.
Downloads ==
  {c \in [cmd : {"D"}, space : Space, start : Nat, data : Seq(Byte)] :
     \E i \in DOMAIN exe :
       /\ Sendable(exe[i])
       /\ c.space = exe[i].space /\ Len(c.data) = Len(exe[i].data)
       /\ ~ misled => c.start = Start(exe[i])
       /\ faults = 0 => c = DownloadOf(i)}

\* The command that asks for an item of a memory list.
UploadCommand(l, i) ==
  [cmd |-> "U", space |-> l[i].space, start |-> l[i].start, length |-> l[i].length]

\* It may be damaged in all that it asks for.
Uploads ==
  [cmd : {"U"}, space : Space \cup {list[i].space : i \in Nat},
   start : Address \cup {list[i].start : i \in Nat},
   length : Nat \cup {list[i].length : i \in Nat}]

Commands ==
  {[cmd |-> "OK"]}
    \cup (IF machine = "218X" THEN {[cmd |-> "GO"]} \cup Uploads \cup Downloads
          ELSE {[cmd |-> "AUTOBAUD"], [cmd |-> "CONTROL"]} \cup {BlockOf(i) : i \in DOMAIN exe})

\* The kit's memory is a word for each address of both memories.
Shape(m) == m = [s \in Space |-> [a \in Address |-> m[s][a]]]

HostStates ==
  IF machine = "218X"
  THEN {"start", "alive", "section", "piece", "check", "go", "upload", "data", "done",
        "failed", "aborted", "undefined"}
  ELSE {"start", "autobaud", "control", "block", "ack", "done", "failed"}

TypeOK ==
  /\ Job
  /\ pc \in HostStates /\ at \in Nat \ {0}
  /\ toKit \in Seq(Commands)
  /\ Shape(memory) /\ running \in BOOLEAN /\ finals \subseteq Space
  /\ faults \in Nat /\ (misled => faults # 0)

\* The piece that is left of a section is all of it or nothing.
PieceOK ==
  pc \in {"piece", "check"} =>
    /\ at \in DOMAIN exe /\ Sendable(exe[at])
    /\ \/ pieces = Piece(Start(exe[at]), exe[at].data)
       \/ pc = "piece" /\ pieces = <<>>
    /\ pc = "check" => pieces # <<>>

\* A boot has final blocks, and does not end before it sent them.
BootOK ==
  machine = "219X" =>
    /\ pc \in {"start", "autobaud", "control"} => at = 1
    /\ pc = "block" \/ at > 1 => {exe[i].space : i \in DOMAIN exe} = Space
    /\ at > Len(exe) + 2 => pc \in {"block", "ack", "done", "failed"}

\* The executables of which the properties speak: the vectors have a section of
\* their own.
Meant == machine = "218X" => \A i \in DOMAIN exe : ~ Straddles(exe[i])

Base0 == TypeOK /\ Meant /\ PieceOK /\ BootOK

LEMMA ValuesOfTwo == Values(2) \in Nat
BY KitAssumption DEF Values

LEMMA CommandKinds ==
  ASSUME NEW c \in Commands
  PROVE  /\ c.cmd = "D" => machine = "218X" /\ c \in Downloads
         /\ c.cmd = "BLOCK" => machine # "218X" /\ \E i \in DOMAIN exe : c = BlockOf(i)
         /\ c.cmd \in {"GO", "U"} => machine = "218X"
         /\ c.cmd = "U" => c \in Uploads
BY DEF Commands, Uploads, Downloads, BlockOf

LEMMA UploadIsKnown ==
  ASSUME NEW i \in Nat
  PROVE  UploadCommand(list, i) \in Uploads
BY DEF UploadCommand, Uploads

\* The job never changes, and a command that was misled remains so.
LEMMA JobStays ==
  ASSUME [Next]_vars
  PROVE  UNCHANGED jobVars /\ (misled => misled')
<1>1. CASE Host
  <2>1. UNCHANGED jobVars
    BY <1>1 DEF Host, Alive, AliveReply, NextSection, Download, DownloadReply, EndOfSection,
       Go, GoReply, Upload, RefuseUpload, UploadReply, EndUpload, Autobaud, AutobaudReply,
       Control, SkipFinal, Block, FinalBlock, SendBlock, EndBoot, AckReply
  <2>2. UNCHANGED misled
    BY <1>1 DEF Host, Alive, AliveReply, NextSection, Download, DownloadReply, EndOfSection,
       Go, GoReply, Upload, RefuseUpload, UploadReply, EndUpload, Autobaud, AutobaudReply,
       Control, SkipFinal, Block, FinalBlock, SendBlock, EndBoot, AckReply, lineVars
  <2> QED
    BY <2>1, <2>2
<1>2. CASE Kit
  <2>1. UNCHANGED jobVars /\ UNCHANGED misled
    BY <1>2 DEF Kit, KitAlive, KitStore, KitRead, KitGo, LoaderStart, LoaderControl,
       LoaderBlock, Serve
  <2> QED
    BY <2>1
<1>3. CASE Stopped \/ UNCHANGED vars
  BY <1>3 DEF Stopped, vars, lineVars
<1>4. CASE Line
  <2>1. UNCHANGED jobVars
    BY <1>4 DEF Line, DamageDownload, DamageUpload, LoseCommand, DamageReply, LoseReply, Fault
  <2>2. (\E c : Damage(c)) \/ misled' = misled
    BY <1>4, Zenon DEF Line, DamageDownload, DamageUpload, LoseCommand, DamageReply, LoseReply
  <2>3. misled => misled'
    BY <2>2 DEF Damage
  <2> QED
    BY <2>1, <2>3
<1> QED
  BY <1>1, <1>2, <1>3, <1>4 DEF Next

\* Faults are only counted up.
LEMMA CommandsStay ==
  ASSUME Job, Next, faults \in Nat
  PROVE  /\ UNCHANGED jobVars /\ Job' /\ faults' \in Nat
         /\ faults' = faults \/ faults' # 0
         /\ Commands \subseteq Commands'
<1>1. UNCHANGED jobVars /\ (misled => misled')
  BY JobStays
<1>2. faults' = faults \/ faults' = faults + 1
  BY DEF Next, Host, Kit, Line, Alive, AliveReply, NextSection, Download, DownloadReply,
         EndOfSection, Go, GoReply, Upload, RefuseUpload, UploadReply, EndUpload, Autobaud,
         AutobaudReply, Control, SkipFinal, Block, FinalBlock, SendBlock, EndBoot,
         AckReply, KitAlive, KitStore, KitRead, KitGo, LoaderStart, LoaderControl,
         LoaderBlock, Serve, DamageDownload, DamageUpload,
         Damage, LoseCommand, DamageReply, LoseReply, Fault,
         Stopped, vars, lineVars
<1>3. machine' = machine /\ exe' = exe /\ list' = list
  BY <1>1 DEF jobVars
<1>4. faults' \in Nat /\ (faults' = faults \/ faults' # 0)
  BY <1>2
<1>5. Job'
  BY <1>3 DEF Job
<1>6. Downloads \subseteq Downloads'
  BY <1>1, <1>3, <1>4 DEF Downloads, DownloadOf
<1>7. Uploads' = Uploads /\ \A i \in DOMAIN exe : BlockOf(i)' = BlockOf(i)
  BY <1>3 DEF Uploads, BlockOf, Finals, LastIn
<1>8. Commands \subseteq Commands'
  BY <1>3, <1>6, <1>7 DEF Commands
<1> QED
  BY <1>1, <1>4, <1>5, <1>8

\* What the host sends, and what a section needs for it to be sent.
LEMMA PieceIs ==
  ASSUME Base0, pc \in {"piece", "check"}, pieces # <<>>
  PROVE  /\ machine = "218X" /\ at \in DOMAIN exe /\ exe[at].data # <<>>
         /\ pieces = <<[start |-> Start(exe[at]), data |-> exe[at].data]>>
         /\ DownloadOf(at) \in Downloads
<1>1. machine = "218X" /\ Job
  BY JobIs DEF Base0, TypeOK, HostStates
<1>2. /\ at \in DOMAIN exe /\ Sendable(exe[at])
      /\ pieces = Piece(Start(exe[at]), exe[at].data)
  BY DEF Base0, PieceOK
<1>3. exe[at].data # <<>>
      /\ pieces = <<[start |-> Start(exe[at]), data |-> exe[at].data]>>
  BY <1>2 DEF Piece
<1>4. /\ exe[at] \in Section218 /\ exe[at].space \in Space /\ exe[at].data \in Seq(Byte)
      /\ exe[at].vaddr \in 0 .. MemSize - 1
  <2>1. exe[at] \in Section218
    BY <1>1, <1>2, JobIs
  <2> QED
    BY <2>1 DEF Section218, Address
<1>5. Start(exe[at]) \in Nat
  <2>1. SwapTable \in Nat /\ exe[at].vaddr \in Nat
    BY <1>4, KitAssumption DEF Address
  <2> QED
    BY <2>1 DEF Start
<1>6. DownloadOf(at) \in Downloads
  BY <1>2, <1>4, <1>5 DEF Downloads, DownloadOf
<1> QED
  BY <1>1, <1>2, <1>3, <1>6

\* How the host changes the line, its place and its state.
LEMMA HostEffect ==
  ASSUME Base0, Host
  PROVE  /\ UNCHANGED <<kitVars, faultVars, jobVars>>
         /\ toKit' = toKit \/ \E c \in Commands : toKit' = Append(toKit, c)
         /\ at' \in {at, at + 1}
         /\ pc' \in HostStates
<1> USE DEF Base0, TypeOK, HostStates
<1>0. machine \in {"218X", "219X"} /\ Len(exe) \in Nat /\ DOMAIN exe = 1 .. Len(exe)
      /\ at \in Nat \ {0}
  BY JobIs
<1>1. CASE Alive
  <2>1. [cmd |-> "OK"] \in Commands
    BY DEF Commands
  <2> QED
    BY <1>1, <2>1 DEF Alive, Send
<1>2. CASE AliveReply
  BY <1>0, <1>2 DEF AliveReply, Receive
<1>3. CASE NextSection
  BY <1>0, <1>3 DEF NextSection, lineVars
<1>4. CASE Download
  <2>1. /\ Head(pieces) = [start |-> Start(exe[at]), data |-> exe[at].data]
        /\ machine = "218X" /\ DownloadOf(at) \in Downloads
    BY <1>4, PieceIs DEF Download
  <2>2. toKit' = Append(toKit, DownloadOf(at))
    BY <1>4, <2>1 DEF Download, Send, DownloadOf
  <2>3. DownloadOf(at) \in Commands
    BY <2>1 DEF Commands
  <2> QED
    BY <1>4, <2>1, <2>2, <2>3 DEF Download
<1>5. CASE DownloadReply
  BY <1>0, <1>5 DEF DownloadReply, Receive
<1>6. CASE EndOfSection
  BY <1>0, <1>6 DEF EndOfSection, lineVars
<1>7. CASE Go
  <2>1. machine = "218X"
    BY <1>0, <1>7 DEF Go
  <2>2. [cmd |-> "GO"] \in Commands
    BY <2>1 DEF Commands
  <2> QED
    BY <1>7, <2>1, <2>2 DEF Go, Send
<1>8. CASE GoReply
  BY <1>0, <1>8 DEF GoReply, Receive
<1>9. CASE Upload
  <2>1. machine = "218X"
    BY <1>0, <1>9 DEF Upload
  <2>2. UploadCommand(list, at) \in Uploads
    BY <1>0, UploadIsKnown
  <2>3. UploadCommand(list, at) \in Commands
    BY <2>1, <2>2 DEF Commands
  <2>4. /\ toKit' = Append(toKit, UploadCommand(list, at))
        /\ UNCHANGED <<kitVars, faultVars, jobVars>> /\ at' = at /\ pc' \in {"aborted", "data"}
    BY <1>9 DEF Upload, Send, UploadCommand
  <2> QED
    BY <2>1, <2>3, <2>4
<1>10. CASE UploadReply
  BY <1>0, <1>10 DEF UploadReply, Receive
<1>11. CASE EndUpload
  BY <1>0, <1>11 DEF EndUpload, lineVars
<1>12. CASE Autobaud
  <2>1. [cmd |-> "AUTOBAUD"] \in Commands /\ machine = "219X"
    BY <1>12 DEF Commands, Autobaud
  <2> QED
    BY <1>12, <2>1 DEF Autobaud, Send
<1>13. CASE AutobaudReply
  BY <1>0, <1>13 DEF AutobaudReply, Receive
<1>14. CASE Control
  <2>1. machine = "219X"
    BY <1>0, <1>14 DEF Control
  <2>2. [cmd |-> "CONTROL"] \in Commands
    BY <2>1 DEF Commands
  <2> QED
    BY <1>14, <2>1, <2>2 DEF Control, Send
<1>15. CASE SkipFinal
  BY <1>0, <1>15 DEF SkipFinal, lineVars
<1>16. CASE Block \/ FinalBlock
  <2>1. machine = "219X"
    BY <1>0, <1>16 DEF Block, FinalBlock
  <2>2. \E i \in DOMAIN exe : SendBlock(i)
    <3>1. CASE Block
      BY <1>0, <3>1 DEF Block
    <3>2. CASE FinalBlock
      <4>1. \A sp \in Space : \E i \in DOMAIN exe : exe[i].space = sp
        BY <1>0, <2>1, <3>2 DEF FinalBlock, BootOK
      <4>2. exe \in Seq(Section219)
        BY <2>1, JobIs
      <4>3. \A sp \in Space : LastIn(sp) \in DOMAIN exe
        BY <4>1, <4>2, LastInIs
      <4>4. LastIn("PM") \in DOMAIN exe /\ LastIn("DM") \in DOMAIN exe
        BY <4>3 DEF Space
      <4> QED
        BY <3>2, <4>4 DEF FinalBlock
    <3> QED
      BY <1>16, <3>1, <3>2
  <2>3. PICK i \in DOMAIN exe : SendBlock(i)
    BY <2>2
  <2>4. toKit' = Append(toKit, BlockOf(i)) /\ BlockOf(i) \in Commands
    BY <2>1, <2>3 DEF SendBlock, Send, BlockOf, Commands
  <2> QED
    BY <2>1, <2>3, <2>4 DEF SendBlock
<1>17. CASE EndBoot
  BY <1>0, <1>17 DEF EndBoot, lineVars
<1>18. CASE AckReply
  BY <1>0, <1>18 DEF AckReply, Receive
<1>19. CASE RefuseUpload
  BY <1>0, <1>19 DEF RefuseUpload, lineVars
<1> QED
  BY <1>1, <1>2, <1>3, <1>4, <1>5, <1>6, <1>7, <1>8, <1>9, <1>10, <1>11, <1>12, <1>13,
     <1>14, <1>15, <1>16, <1>17, <1>18, <1>19 DEF Host

\* A memory of the kit with another contents.
LEMMA ShapeStays ==
  ASSUME NEW m, Shape(m), NEW sp \in Space, NEW f, f = [a \in Address |-> f[a]]
  PROVE  /\ Shape([m EXCEPT ![sp] = f]) /\ [m EXCEPT ![sp] = f][sp] = f
         /\ \A s \in Space : s # sp => [m EXCEPT ![sp] = f][s] = m[s]
<1> DEFINE r == [m EXCEPT ![sp] = f]
<1>1. DOMAIN m = Space /\ m = [s \in Space |-> m[s]]
      /\ \A s \in Space : m[s] = [a \in Address |-> m[s][a]]
  <2> DEFINE g == [s \in Space |-> [a \in Address |-> m[s][a]]]
  <2>1. m = g
    BY DEF Shape
  <2>2. DOMAIN g = Space /\ g = [s \in Space |-> g[s]]
        /\ \A s \in Space : g[s] = [a \in Address |-> m[s][a]]
    OBVIOUS
  <2> HIDE DEF g
  <2> QED
    BY <2>1, <2>2
<1>2. r = [s \in Space |-> IF s = sp THEN f ELSE m[s]]
  BY <1>1
<1>3. r[sp] = f /\ \A s \in Space : s # sp => r[s] = m[s]
  BY <1>2
<1>4. \A s \in Space : r[s] = [a \in Address |-> r[s][a]]
  <2>1. ASSUME NEW s \in Space PROVE r[s] = [a \in Address |-> r[s][a]]
    <3>1. CASE s = sp
      BY <1>3, <3>1
    <3>2. CASE s # sp
      BY <1>1, <1>3, <3>2
    <3> QED
      BY <3>1, <3>2
  <2> QED
    BY <2>1
<1>5. r = [s \in Space |-> r[s]]
  BY <1>2
<1> HIDE DEF r
<1>6. Shape(r)
  BY <1>4, <1>5 DEF Shape
<1> QED
  BY <1>3, <1>6 DEF r

\* How the kit serves the first command.
LEMMA KitEffect ==
  ASSUME Base0, Kit
  PROVE  /\ toKit # <<>> /\ toKit' = Tail(toKit) /\ running = FALSE
         /\ UNCHANGED <<jobVars, hostVars, faultVars>>
         /\ Head(toKit) \in Commands
         /\ Shape(memory)' /\ running' \in BOOLEAN /\ finals' \subseteq Space
<1> USE DEF Base0, TypeOK
<1>0. toKit # <<>> /\ running = FALSE /\ toKit' = Tail(toKit)
      /\ UNCHANGED <<jobVars, hostVars, faultVars>>
  BY DEF Kit, KitAlive, KitStore, KitRead, KitGo, LoaderStart, LoaderControl, LoaderBlock,
         Serve, Answer
<1>1. Head(toKit) \in Commands
  BY <1>0, TailFacts
<1>2. CASE KitAlive \/ KitRead \/ LoaderStart \/ LoaderControl
  <2>1. UNCHANGED kitVars
    BY <1>2 DEF KitAlive, KitRead, LoaderStart, LoaderControl
  <2> QED
    BY <1>0, <1>1, <2>1 DEF kitVars, Shape
<1>3. CASE KitStore
  <2> DEFINE c == Head(toKit)
             f == Stored(memory[c.space], c.start, Words(c.data, WordSize[c.space]))
  <2>1. c \in Downloads
    BY <1>1, <1>3, CommandKinds DEF KitStore, Serve
  <2>2. c.space \in Space
    BY <2>1 DEF Downloads
  <2>3. f = [a \in Address |-> f[a]]
    BY DEF Stored
  <2>4. memory' = [memory EXCEPT ![c.space] = f] /\ UNCHANGED <<running, finals>>
    BY <1>3 DEF KitStore
  <2> HIDE DEF c, f
  <2>5. Shape([memory EXCEPT ![c.space] = f])
    BY <2>2, <2>3, ShapeStays
  <2>6. Shape(memory)'
    BY <2>4, <2>5 DEF Shape
  <2> QED
    BY <1>0, <1>1, <2>4, <2>6 DEF c
<1>4. CASE KitGo
  <2> DEFINE f == Swapped(memory["PM"])
  <2>1. f = [a \in Address |-> f[a]]
    BY DEF Swapped
  <2>2. memory' = [memory EXCEPT !["PM"] = f] /\ running' = TRUE /\ UNCHANGED finals
    BY <1>4 DEF KitGo
  <2> HIDE DEF f
  <2>3. Shape([memory EXCEPT !["PM"] = f])
    BY <2>1, ShapeStays DEF Space
  <2>4. Shape(memory)'
    BY <2>2, <2>3 DEF Shape
  <2> QED
    BY <1>0, <1>1, <2>2, <2>4
<1>5. CASE LoaderBlock
  <2> DEFINE c == Head(toKit)
             f == Stored(memory[c.space], c.start, BlockWords(c))
  <2>1. Job /\ machine # "218X" /\ \E i \in DOMAIN exe : c = BlockOf(i)
    BY <1>1, <1>5, CommandKinds DEF LoaderBlock, Serve
  <2>2. c.space \in Space
    <3>1. PICK i \in DOMAIN exe : c = BlockOf(i)
      BY <2>1
    <3>2. exe[i] \in Section219
      BY <2>1, <3>1, JobIs
    <3> QED
      BY <3>1, <3>2 DEF BlockOf, Section219
  <2>3. f = [a \in Address |-> f[a]]
    BY DEF Stored
  <2>4. /\ memory' = [memory EXCEPT ![c.space] = f]
        /\ finals' = (IF c.final THEN finals \union {c.space} ELSE finals)
        /\ running' = (finals' = Space)
    BY <1>5 DEF LoaderBlock
  <2> HIDE DEF c, f
  <2>5. Shape([memory EXCEPT ![c.space] = f])
    BY <2>2, <2>3, ShapeStays
  <2>6. Shape(memory)'
    BY <2>4, <2>5 DEF Shape
  <2>7. finals' \subseteq Space
    BY <2>2, <2>4
  <2> QED
    BY <1>0, <1>1, <2>4, <2>6, <2>7 DEF c
<1> QED
  BY <1>2, <1>3, <1>4, <1>5 DEF Kit

\* A damaged command is still one the kit may get.
LEMMA DamagedDownload ==
  ASSUME NEW c \in Downloads, NEW data \in Seq(Byte), NEW start \in Nat,
         Len(data) = Len(c.data), exe' = exe, faults' # 0, ~ misled' => ~ misled,
         ~ misled' => start = c.start
  PROVE  [cmd |-> "D", space |-> c.space, start |-> start, data |-> data] \in Downloads'
<1> DEFINE d == [cmd |-> "D", space |-> c.space, start |-> start, data |-> data]
<1>1. PICK i \in DOMAIN exe :
        /\ Sendable(exe[i]) /\ c.space = exe[i].space /\ Len(c.data) = Len(exe[i].data)
        /\ ~ misled => c.start = Start(exe[i])
  BY DEF Downloads
<1>2. c.space \in Space
  BY DEF Downloads
<1>3. d \in [cmd : {"D"}, space : Space, start : Nat, data : Seq(Byte)]
  BY <1>2
<1>4. d.space = exe[i].space /\ Len(d.data) = Len(exe[i].data) /\ d.start = start
  BY <1>1
<1> HIDE DEF d
<1>5. d \in Downloads'
  BY <1>1, <1>3, <1>4 DEF Downloads
<1> QED
  BY <1>5 DEF d

\* What a fault does to the line.
LEMMA LineEffect ==
  ASSUME Base0, Line
  PROVE  /\ faults' = faults + 1 /\ UNCHANGED <<jobVars, hostVars, kitVars>>
         /\ toKit' \in Seq(Commands')
<1> USE DEF Base0, TypeOK
<1>1. faults' = faults + 1 /\ UNCHANGED <<jobVars, hostVars, kitVars>> /\ faults' # 0
  BY DEF Line, DamageDownload, DamageUpload, LoseCommand, DamageReply, LoseReply, Fault
<1>2. Commands \subseteq Commands' /\ exe' = exe /\ list' = list /\ machine' = machine
  BY <1>1, CommandsStay DEF Next, jobVars
<1>3. toKit \in Seq(Commands')
  BY <1>2
<1>4. CASE DamageReply \/ LoseReply
  BY <1>1, <1>3, <1>4 DEF DamageReply, LoseReply
<1>5. CASE LoseCommand
  BY <1>1, <1>3, <1>5, TailFacts DEF LoseCommand
<1>6. ASSUME NEW e \in Commands', toKit # <<>>, toKit' = <<e>> \o Tail(toKit)
      PROVE  toKit' \in Seq(Commands')
  <2>1. Tail(toKit) \in Seq(Commands')
    BY <1>3, <1>6, TailFacts
  <2>2. <<e>> \in Seq(Commands')
    BY <1>6
  <2> QED
    BY <1>6, <2>1, <2>2
<1>7. CASE DamageDownload
  <2> SUFFICES toKit' \in Seq(Commands')
    BY <1>1
  <2> DEFINE c == Head(toKit)
  <2>1. toKit # <<>> /\ c.cmd = "D"
    BY <1>7 DEF DamageDownload
  <2>2. c \in Downloads /\ machine = "218X"
    BY <2>1, TailFacts, CommandKinds
  <2>3. /\ c.data \in Seq(Byte) /\ c.start \in Nat
        /\ c = [cmd |-> "D", space |-> c.space, start |-> c.start, data |-> c.data]
    <3>1. c \in [cmd : {"D"}, space : Space, start : Nat, data : Seq(Byte)]
      BY <2>2 DEF Downloads
    <3> HIDE DEF c
    <3> QED
      BY <3>1
  <2> HIDE DEF c
  <2>4. ASSUME NEW data \in Seq(Byte), NEW start \in Nat, Len(data) = Len(c.data),
               Damage([cmd |-> "D", space |-> c.space, start |-> start, data |-> data])
        PROVE  toKit' \in Seq(Commands')
    <3> DEFINE e == [cmd |-> "D", space |-> c.space, start |-> start, data |-> data]
    <3>1. /\ toKit' = <<e>> \o Tail(toKit)
          /\ misled' = (misled \/ e.space # c.space \/ e.start # c.start)
      BY <2>4, Zenon DEF Damage, c
    <3>2. ~ misled' => ~ misled /\ start = c.start
      BY <3>1
    <3> HIDE DEF e
    <3>3. e \in Downloads'
      BY <1>1, <1>2, <2>2, <2>4, <3>2, DamagedDownload DEF e
    <3>4. e \in Commands'
      BY <1>2, <2>2, <3>3 DEF Commands
    <3> QED
      BY <1>6, <2>1, <3>1, <3>4
  <2>5. CASE \E i \in DOMAIN c.data, b \in Byte : Damage([c EXCEPT !.data[i] = b])
    <3>1. PICK i \in DOMAIN c.data, b \in Byte : Damage([c EXCEPT !.data[i] = b])
      BY <2>5
    <3> DEFINE d == [c.data EXCEPT ![i] = b]
    <3>2. d \in Seq(Byte) /\ Len(d) = Len(c.data)
      BY <2>3
    <3>3. [c EXCEPT !.data[i] = b] = [c EXCEPT !.data = d]
      OBVIOUS
    <3> HIDE DEF d
    <3>4. [c EXCEPT !.data = d] = [cmd |-> "D", space |-> c.space, start |-> c.start, data |-> d]
      BY <2>3
    <3>5. Damage([cmd |-> "D", space |-> c.space, start |-> c.start, data |-> d])
      BY <3>1, <3>3, <3>4, Zenon
    <3> QED
      BY <2>3, <2>4, <3>2, <3>5
  <2>6. CASE \E start \in Address : Damage([c EXCEPT !.start = start])
    <3>1. PICK start \in Address : Damage([c EXCEPT !.start = start])
      BY <2>6
    <3>2. [c EXCEPT !.start = start] =
            [cmd |-> "D", space |-> c.space, start |-> start, data |-> c.data]
      BY <2>3
    <3>3. start \in Nat
      BY KitAssumption DEF Address
    <3>4. Damage([cmd |-> "D", space |-> c.space, start |-> start, data |-> c.data])
      BY <3>1, <3>2, Zenon
    <3> QED
      BY <2>3, <2>4, <3>3, <3>4
  <2> QED
    BY <1>7, <2>5, <2>6 DEF DamageDownload, c
<1>8. CASE DamageUpload
  <2> SUFFICES toKit' \in Seq(Commands')
    BY <1>1
  <2> DEFINE c == Head(toKit)
  <2>1. toKit # <<>> /\ c.cmd = "U"
    BY <1>8 DEF DamageUpload
  <2>2. c \in Uploads /\ machine = "218X"
    BY <2>1, TailFacts, CommandKinds
  <2> HIDE DEF c
  <2>3. Uploads' = Uploads
    BY <1>2 DEF Uploads
  <2>4. ASSUME NEW e \in Uploads, Damage(e) PROVE toKit' \in Seq(Commands')
    <3>1. e \in Commands'
      BY <1>2, <2>2, <2>3 DEF Commands
    <3> QED
      BY <1>6, <2>1, <2>4, <3>1 DEF Damage
  <2>5. \A start \in Address : [c EXCEPT !.start = start] \in Uploads
    BY <2>2 DEF Uploads
  <2>6. \A length \in 0 .. Values(2) - 1 : [c EXCEPT !.length = length] \in Uploads
    <3>1. \A length \in 0 .. Values(2) - 1 : length \in Nat
      BY ValuesOfTwo
    <3> QED
      BY <2>2, <3>1 DEF Uploads
  <2>7. \A space \in Space : [c EXCEPT !.space = space] \in Uploads
    BY <2>2 DEF Uploads
  <2>8. \/ \E start \in Address : Damage([c EXCEPT !.start = start])
        \/ \E length \in 0 .. Values(2) - 1 : Damage([c EXCEPT !.length = length])
        \/ \E space \in Space : Damage([c EXCEPT !.space = space])
    BY <1>8 DEF DamageUpload, c
  <2> QED
    BY <2>4, <2>5, <2>6, <2>7, <2>8, Zenon
<1> QED
  BY <1>4, <1>5, <1>7, <1>8 DEF Line

\* Init: the line is empty, and nothing has been sent.
LEMMA Base0Init ==
  ASSUME Init, Meant
  PROVE  Base0
<1>1. Job /\ pc \in HostStates /\ at \in Nat \ {0}
  BY DEF Init, Job, HostStates
<1>2. toKit \in Seq(Commands)
  BY DEF Init
<1>3. Shape(memory)
  BY DEF Init, InitialMemory, Shape
<1>4. running \in BOOLEAN /\ finals \subseteq Space /\ faults \in Nat /\ ~ misled
  BY DEF Init
<1>5. PieceOK
  BY DEF Init, PieceOK
<1>6. BootOK
  <2>1. Len(exe) \in Nat
    BY <1>1, JobIs
  <2> QED
    BY <2>1 DEF Init, BootOK
<1> QED
  BY <1>1, <1>2, <1>3, <1>4, <1>5, <1>6 DEF Base0, TypeOK

LEMMA TypeStep ==
  ASSUME Base0, Next
  PROVE  TypeOK'
<1>1. /\ UNCHANGED jobVars /\ Job' /\ faults' \in Nat /\ Commands \subseteq Commands'
      /\ machine' = machine /\ exe' = exe
  BY CommandsStay DEF Base0, TypeOK, jobVars
<1>2. toKit \in Seq(Commands')
  BY <1>1 DEF Base0, TypeOK
<1>3. HostStates' = HostStates
  BY <1>1 DEF HostStates
<1>8. misled' => faults' # 0
  <2>1. CASE Host \/ Kit \/ Stopped
    BY <2>1, HostEffect, KitEffect DEF Base0, TypeOK, Stopped, vars, lineVars
  <2>2. CASE Line
    BY <2>2, LineEffect DEF Base0, TypeOK
  <2> QED
    BY <2>1, <2>2 DEF Next
<1>4. CASE Host
  <2>1. /\ toKit' = toKit \/ \E c \in Commands : toKit' = Append(toKit, c)
        /\ at' \in {at, at + 1} /\ pc' \in HostStates /\ UNCHANGED kitVars
    BY <1>4, HostEffect
  <2>2. toKit' \in Seq(Commands')
    BY <1>1, <1>2, <2>1
  <2>3. Shape(memory)' /\ running' \in BOOLEAN /\ finals' \subseteq Space
    BY <2>1 DEF Base0, TypeOK, kitVars, Shape
  <2>4. at' \in Nat \ {0}
    BY <2>1 DEF Base0, TypeOK
  <2> QED
    BY <1>1, <1>3, <1>8, <2>1, <2>2, <2>3, <2>4 DEF TypeOK
<1>5. CASE Kit
  <2>1. /\ toKit # <<>> /\ toKit' = Tail(toKit) /\ UNCHANGED hostVars
        /\ Shape(memory)' /\ running' \in BOOLEAN /\ finals' \subseteq Space
    BY <1>5, KitEffect
  <2>2. toKit' \in Seq(Commands')
    BY <1>2, <2>1, TailFacts
  <2> QED
    BY <1>1, <1>3, <1>8, <2>1, <2>2 DEF TypeOK, hostVars, Base0
<1>6. CASE Line
  <2>1. UNCHANGED <<hostVars, kitVars>> /\ toKit' \in Seq(Commands')
    BY <1>6, LineEffect
  <2> QED
    BY <1>1, <1>3, <1>8, <2>1 DEF TypeOK, hostVars, kitVars, Base0, Shape
<1>7. CASE Stopped
  <2>1. UNCHANGED <<hostVars, kitVars, toKit>>
    BY <1>7 DEF Stopped, vars, hostVars, kitVars, lineVars
  <2> QED
    BY <1>1, <1>2, <1>3, <1>8, <2>1 DEF TypeOK, hostVars, kitVars, Base0, Shape
<1> QED
  BY <1>4, <1>5, <1>6, <1>7 DEF Next

\* Sections and pieces: download_go.
LEMMA PieceStep ==
  ASSUME Base0, Next
  PROVE  PieceOK'
<1>1. machine' = machine /\ exe' = exe /\ Job
  BY CommandsStay DEF Base0, TypeOK, jobVars
<1>2. Len(exe) \in Nat /\ DOMAIN exe = 1 .. Len(exe) /\ at \in Nat \ {0}
  BY <1>1, JobIs DEF Base0, TypeOK
<1>3. CASE UNCHANGED <<pc, at, pieces>>
  BY <1>1, <1>3 DEF Base0, PieceOK
<1>4. CASE NextSection
  <2> DEFINE s == exe[at]
  <2>1. at \in DOMAIN exe /\ machine = "218X"
    BY <1>1, <1>2, <1>4, JobIs DEF NextSection, Base0, TypeOK, HostStates
  <2>2. s \in Section218 /\ Whole(s) /\ ~ Straddles(s)
    BY <1>1, <2>1, JobIs DEF Base0, Meant
  <2>3. /\ pieces' = Pieces(s) /\ at' = at
        /\ pc' = IF ~ Fits(s) THEN "failed" ELSE IF EndsInTable(s) THEN "undefined" ELSE "piece"
    BY <1>4 DEF NextSection
  <2>4. pc' \in {"piece", "check"} => Sendable(s) /\ pc' = "piece"
    BY <2>3 DEF Sendable
  <2>5. pc' \in {"piece", "check"} => pieces' = Piece(Start(s), s.data)
    BY <2>2, <2>3, <2>4, OnePiece
  <2> QED
    BY <1>1, <2>1, <2>3, <2>4, <2>5 DEF PieceOK
<1>5. CASE Download
  BY <1>1, <1>5 DEF Download, Base0, PieceOK
<1>6. CASE DownloadReply
  <2>1. pieces = <<[start |-> Start(exe[at]), data |-> exe[at].data]>>
    BY <1>6, PieceIs DEF DownloadReply, Base0, PieceOK
  <2>2. Tail(pieces) = <<>>
    BY <2>1
  <2>3. at' = at /\ (pc' = "failed" \/ (pc' = "piece" /\ pieces' = <<>>))
    BY <1>6, <2>2 DEF DownloadReply
  <2> QED
    BY <1>1, <1>6, <2>3 DEF Base0, PieceOK, DownloadReply
<1>7. CASE pc' \notin {"piece", "check"}
  BY <1>7 DEF PieceOK
<1>8. CASE Kit \/ Line \/ Stopped
  <2>1. UNCHANGED hostVars
    BY <1>8, KitEffect, LineEffect DEF Stopped, vars
  <2> QED
    BY <1>3, <2>1 DEF hostVars
<1>9. CASE Host
  <2>1. ASSUME ~ NextSection, ~ Download, ~ DownloadReply PROVE pc' \notin {"piece", "check"}
    BY <1>9, <2>1 DEF Host, Alive, AliveReply, EndOfSection, Go, GoReply, Upload,
       RefuseUpload, UploadReply,
       EndUpload, Autobaud, AutobaudReply, Control, SkipFinal, Block, FinalBlock, SendBlock,
       EndBoot, AckReply
  <2> QED
    BY <1>4, <1>5, <1>6, <1>7, <2>1
<1> QED
  BY <1>8, <1>9 DEF Next

\* boot_219X looks for the final blocks before it sends any.
LEMMA BootStep ==
  ASSUME Base0, Next
  PROVE  BootOK'
<1>1. machine' = machine /\ exe' = exe /\ Job
  BY CommandsStay DEF Base0, TypeOK, jobVars
<1>2. Len(exe) \in Nat /\ at \in Nat \ {0} /\ BootOK /\ pc \in HostStates
  BY <1>1, JobIs DEF Base0, TypeOK
<1>3. CASE UNCHANGED <<pc, at>>
  BY <1>1, <1>2, <1>3 DEF BootOK
<1>4. CASE Kit \/ Line \/ Stopped
  <2>1. UNCHANGED hostVars
    BY <1>4, KitEffect, LineEffect DEF Stopped, vars
  <2> QED
    BY <1>3, <2>1 DEF hostVars
<1>5. CASE machine # "219X"
  BY <1>1, <1>5 DEF BootOK
<1>6. CASE machine = "219X" /\ Host
  <2> USE DEF BootOK, HostStates
  <2>1. CASE Autobaud
    BY <1>1, <1>2, <1>6, <2>1 DEF Autobaud
  <2>2. CASE AutobaudReply
    BY <1>1, <1>2, <1>6, <2>2 DEF AutobaudReply
  <2>3. CASE Control
    BY <1>1, <1>2, <1>6, <2>3 DEF Control
  <2>4. CASE SkipFinal
    BY <1>1, <1>2, <1>6, <2>4 DEF SkipFinal
  <2>5. CASE Block
    BY <1>1, <1>2, <1>6, <2>5 DEF Block, SendBlock
  <2>6. CASE FinalBlock
    BY <1>1, <1>2, <1>6, <2>6 DEF FinalBlock, SendBlock
  <2>7. CASE EndBoot
    BY <1>1, <1>2, <1>6, <2>7 DEF EndBoot
  <2>8. CASE AckReply
    BY <1>1, <1>2, <1>6, <2>8 DEF AckReply
  <2>9. Autobaud \/ AutobaudReply \/ Control \/ SkipFinal \/ Block \/ FinalBlock \/ EndBoot
          \/ AckReply
    BY <1>2, <1>6 DEF Host, Alive, AliveReply, NextSection, Download, DownloadReply,
       EndOfSection, Go, GoReply, Upload, RefuseUpload, UploadReply, EndUpload
  <2> QED
    BY <2>1, <2>2, <2>3, <2>4, <2>5, <2>6, <2>7, <2>8, <2>9
<1> QED
  BY <1>4, <1>5, <1>6 DEF Next

LEMMA Base0Step ==
  ASSUME Base0, [Next]_vars
  PROVE  Base0'
<1>1. CASE Next
  <2>1. TypeOK' /\ PieceOK' /\ BootOK'
    BY <1>1, TypeStep, PieceStep, BootStep
  <2>2. machine' = machine /\ exe' = exe
    BY <1>1, CommandsStay DEF Base0, TypeOK, jobVars
  <2> QED
    BY <2>1, <2>2 DEF Base0, Meant
<1>2. CASE UNCHANGED vars
  <2>1. UNCHANGED <<jobVars, hostVars, lineVars, kitVars>>
    BY <1>2 DEF vars
  <2>2. Commands' = Commands
    BY <2>1 DEF Commands, Uploads, Downloads, DownloadOf, BlockOf, Finals, LastIn, jobVars,
       lineVars
  <2>3. Job' /\ Meant' /\ HostStates' = HostStates /\ Shape(memory)' = Shape(memory)
    BY <2>1 DEF Job, Meant, HostStates, Shape, Base0, TypeOK, jobVars, kitVars
  <2> QED
    BY <2>1, <2>2, <2>3 DEF Base0, TypeOK, PieceOK, BootOK, jobVars, hostVars, lineVars,
       kitVars
<1> QED
  BY <1>1, <1>2

\* The basic invariant holds of every executable whose vectors are by themselves.
LEMMA BaseInvariance == Spec => [](Meant => Base0)
<1>1. Init => (Meant => Base0)
  BY Base0Init
<1>2. (Meant => Base0) /\ [Next]_vars => (Meant => Base0)'
  <2> SUFFICES ASSUME Meant => Base0, [Next]_vars, Meant' PROVE Base0'
    OBVIOUS
  <2>1. UNCHANGED jobVars
    BY JobStays
  <2>2. Meant
    BY <2>1 DEF Meant, jobVars
  <2> QED
    BY <2>2, Base0Step
<1> QED
  BY <1>1, <1>2, PTL DEF Spec

----------------------------------------------------------------------------
(* Where the sections of a download go.                                    *)

\* A section of vectors fills the shadow table from its address on; any other
\* stays below the monitor.
LEMMA RangeIs ==
  ASSUME Base0, machine = "218X", NEW i \in DOMAIN exe, Sendable(exe[i])
  PROVE  LET s == exe[i] IN
         /\ Start(s) \in Nat /\ Size(s) \in Nat /\ s.space \in Space /\ s.vaddr \in Nat
         /\ Start(s) + Size(s) <= MemSize
         /\ \/ /\ s.space = "PM" /\ s.vaddr < TableTop
               /\ Start(s) = s.vaddr + SwapTable /\ s.vaddr + Size(s) = TableTop
            \/ /\ ~ (s.space = "PM" /\ s.vaddr < TableTop)
               /\ Start(s) = s.vaddr /\ s.vaddr + Size(s) <= Top[s.space]
<1> DEFINE s == exe[i]
<1>1. s \in Section218 /\ Whole(s) /\ ~ Straddles(s)
  BY JobIs DEF Base0, TypeOK, Meant
<1>2. /\ Size(s) \in Nat /\ s.space \in Space /\ s.vaddr \in Nat
      /\ WordCount(s.data, WordSize[s.space]) = Size(s)
  BY <1>1, SizeIs
<1>3. /\ MemSize \in Nat /\ TableTop \in Nat /\ SwapTable \in Nat
      /\ SwapTable + TableTop \in 0 .. MemSize - 1
      /\ \A sp \in Space : Top[sp] \in 0 .. MemSize - 1
  BY KitAssumption DEF Address, Top, Space
<1>4. s.vaddr + Size(s) <= Top[s.space]
  BY <1>2 DEF Sendable, Fits
<1> HIDE DEF s
<1>5. CASE s.space = "PM" /\ s.vaddr < TableTop
  <2>1. WordSize[s.space] = 3 /\ WordSize["PM"] = 3
    BY <1>5 DEF WordSize
  <2>2. s.vaddr + Size(s) >= TableTop
    BY <1>2, <1>3, <1>5, <2>1 DEF Sendable, EndsInTable, s
  <2>3. ~ (s.vaddr + Size(s) > TableTop)
    BY <1>1, <1>5, <2>1 DEF Straddles, Size
  <2>4. Start(s) = s.vaddr + SwapTable
    BY <1>5 DEF Start
  <2>5. s.vaddr + Size(s) = TableTop
    BY <1>2, <1>3, <2>2, <2>3
  <2>6. Start(s) \in Nat /\ Start(s) + Size(s) <= MemSize
    BY <1>2, <1>3, <2>4, <2>5
  <2> QED
    BY <1>2, <1>5, <2>4, <2>5, <2>6 DEF s
<1>6. CASE ~ (s.space = "PM" /\ s.vaddr < TableTop)
  <2>1. Start(s) = s.vaddr
    BY <1>6 DEF Start
  <2>2. Start(s) \in Nat /\ Start(s) + Size(s) <= MemSize
    BY <1>2, <1>3, <1>4, <2>1
  <2> QED
    BY <1>2, <1>4, <1>6, <2>1, <2>2 DEF s
<1> QED
  BY <1>5, <1>6

\* The monitor stores a download where it belongs, damaged or not.
LEMMA StoreIs ==
  ASSUME Base0, KitStore, ~ misled
  PROVE  /\ machine = "218X" /\ UNCHANGED <<running, finals>>
         /\ \E i \in DOMAIN exe :
              /\ Sendable(exe[i])
              /\ faults = 0 => Head(toKit) = DownloadOf(i)
              /\ \A sp \in Space, a \in Address :
                   memory'[sp][a] =
                     IF sp = exe[i].space
                        /\ a \in Start(exe[i]) .. Start(exe[i]) + Size(exe[i]) - 1
                     THEN Words(Head(toKit).data, WordSize[sp])[a - Start(exe[i]) + 1]
                     ELSE memory[sp][a]
<1> DEFINE c == Head(toKit)
           n == WordSize[c.space]
           w == Words(c.data, n)
           f == Stored(memory[c.space], c.start, w)
<1>1. c \in Commands /\ c.cmd = "D"
  BY KitEffect DEF KitStore, Serve, Kit
<1>2. c \in Downloads /\ machine = "218X"
  BY <1>1, CommandKinds
<1>3. PICK i \in DOMAIN exe :
         /\ Sendable(exe[i])
         /\ c.space = exe[i].space /\ c.start = Start(exe[i])
         /\ Len(c.data) = Len(exe[i].data)
         /\ faults = 0 => c = DownloadOf(i)
  BY <1>2 DEF Downloads
<1>4. /\ Start(exe[i]) \in Nat /\ Size(exe[i]) \in Nat /\ exe[i].space \in Space
      /\ Start(exe[i]) + Size(exe[i]) <= MemSize
  BY <1>2, <1>3, RangeIs
<1>5. DOMAIN w = 1 .. Size(exe[i])
  BY <1>3 DEF Words, WordCount, Size
<1>6. memory' = [memory EXCEPT ![c.space] = f] /\ UNCHANGED <<running, finals>>
  BY DEF KitStore
<1>7. f = [a \in Address |-> f[a]]
  BY DEF Stored
<1>8. c.space \in Space /\ Shape(memory)
  BY <1>3, <1>4 DEF Base0, TypeOK
<1> HIDE DEF c, n, w, f
<1>9. /\ memory'[c.space] = f
      /\ \A s \in Space : s # c.space => memory'[s] = memory[s]
  BY <1>6, <1>7, <1>8, ShapeStays
<1>10. ASSUME NEW sp \in Space, NEW a \in Address
       PROVE  memory'[sp][a] =
                IF sp = exe[i].space
                   /\ a \in Start(exe[i]) .. Start(exe[i]) + Size(exe[i]) - 1
                THEN Words(c.data, WordSize[sp])[a - Start(exe[i]) + 1]
                ELSE memory[sp][a]
  <2>1. CASE sp # c.space
    BY <1>3, <1>9, <2>1
  <2>2. CASE sp = c.space
    <3>1. f[a] = IF a \in c.start .. c.start + Size(exe[i]) - 1
                 THEN w[a - c.start + 1] ELSE memory[sp][a]
      <4>1. PICK n1, b : n1 = Size(exe[i]) /\ b = c.start
        OBVIOUS
      <4>2. b \in Nat /\ n1 \in Nat /\ b + n1 <= MemSize /\ DOMAIN w = 1 .. n1
        BY <1>3, <1>4, <1>5, <4>1
      <4>3. Stored(memory[sp], b, w) = Spread(memory[sp], n1, b, w)
        BY <4>2, StoredIs
      <4>4. f[a] = IF a \in b .. b + n1 - 1 THEN w[a - b + 1] ELSE memory[sp][a]
        BY <2>2, <4>1, <4>3 DEF f, Spread
      <4> QED
        BY <4>1, <4>4
    <3>2. w = Words(c.data, WordSize[sp])
      BY <2>2 DEF w, n
    <3> QED
      BY <1>3, <1>9, <2>2, <3>1, <3>2
  <2> QED
    BY <2>1, <2>2
<1> QED
  BY <1>2, <1>3, <1>6, <1>10 DEF c

\* No download reaches the monitor's memory, but for the shadow of the vectors.
LEMMA MonitorStep ==
  ASSUME Base0, MonitorIntact, [Next]_vars
  PROVE  MonitorIntact'
<1>0. CASE UNCHANGED vars
  BY <1>0 DEF vars, jobVars, kitVars, lineVars, MonitorIntact
<1>1. CASE Next
  <2>1. machine' = machine /\ exe' = exe /\ (misled => misled')
    BY <1>1, JobStays DEF jobVars
  <2>2. CASE Host
    BY <2>1, <2>2, HostEffect DEF kitVars, MonitorIntact
  <2>3. CASE Line \/ Stopped
    BY <2>1, <2>3, LineEffect DEF kitVars, MonitorIntact, Stopped, vars
  <2>4. CASE Kit
    <3>1. CASE machine # "218X"
      BY <2>1, <3>1 DEF MonitorIntact
    <3>2. CASE KitAlive \/ KitRead \/ LoaderStart \/ LoaderControl
      BY <2>1, <3>2 DEF KitAlive, KitRead, LoaderStart, LoaderControl, kitVars, MonitorIntact
    <3>3. CASE KitGo
      BY <3>3 DEF KitGo, MonitorIntact
    <3>4. CASE LoaderBlock
      <4>1. Head(toKit) \in Commands /\ Head(toKit).cmd = "BLOCK"
        BY <2>4, <3>4, KitEffect DEF LoaderBlock, Serve
      <4> QED
        BY <3>1, <4>1, CommandKinds
    <3>6. CASE misled
      BY <2>1, <3>6 DEF MonitorIntact
    <3>5. CASE KitStore /\ machine = "218X" /\ ~ misled
      <4>1. PICK i \in DOMAIN exe :
              /\ Sendable(exe[i])
              /\ \A sp \in Space, a \in Address :
                   ~ (sp = exe[i].space
                        /\ a \in Start(exe[i]) .. Start(exe[i]) + Size(exe[i]) - 1)
                     => memory'[sp][a] = memory[sp][a]
        BY <3>5, StoreIs
      <4>2. running' = running /\ running = FALSE
        BY <2>4, <3>5, StoreIs, KitEffect
      <4>3. ASSUME NEW s \in Space, NEW a \in Top[s] .. MemSize - 1,
                   ~ (s = "PM" /\ a \in SwapTable .. SwapTable + TableTop - 1)
            PROVE  memory'[s][a] = InitialMemory[s][a]
        <5>1. a \in Address /\ MemSize \in Nat /\ Top[s] \in Nat /\ a \in Nat /\ Top[s] <= a
              /\ SwapTable \in Nat /\ TableTop \in Nat
          BY KitAssumption DEF Address, Top, Space
        <5>2. memory[s][a] = InitialMemory[s][a]
          BY <3>5, <4>2, <4>3 DEF MonitorIntact, Base0, Meant
        <5>3. ~ (s = exe[i].space
                   /\ a \in Start(exe[i]) .. Start(exe[i]) + Size(exe[i]) - 1)
          <6> SUFFICES ASSUME s = exe[i].space,
                              a \in Start(exe[i]) .. Start(exe[i]) + Size(exe[i]) - 1
                       PROVE  FALSE
            OBVIOUS
          <6>1. LET x == exe[i] IN
                /\ Start(x) \in Nat /\ Size(x) \in Nat /\ x.space \in Space /\ x.vaddr \in Nat
                /\ Start(x) + Size(x) <= MemSize
                /\ \/ /\ x.space = "PM" /\ x.vaddr < TableTop
                      /\ Start(x) = x.vaddr + SwapTable /\ x.vaddr + Size(x) = TableTop
                   \/ /\ ~ (x.space = "PM" /\ x.vaddr < TableTop)
                      /\ Start(x) = x.vaddr /\ x.vaddr + Size(x) <= Top[x.space]
            BY <3>5, <4>1, RangeIs
          <6> QED
            BY <4>3, <5>1, <6>1
        <5> QED
          BY <4>1, <5>1, <5>2, <5>3
      <4> QED
        BY <2>1, <4>3 DEF MonitorIntact, InitialMemory
    <3> QED
      BY <2>4, <3>1, <3>2, <3>3, <3>4, <3>5, <3>6 DEF Kit
  <2> QED
    BY <1>1, <2>2, <2>3, <2>4 DEF Next
<1> QED
  BY <1>0, <1>1

\* A download does not change the monitor before it starts the program
\* (download_go, ez21.c:698-703, 745-750): for every executable, line and number of
\* faults, unless one changed the address of a download, which no check sum covers.
THEOREM Monitor == Spec => []MonitorIntact
<1>1. Init => MonitorIntact
  BY DEF Init, MonitorIntact
<1>2. (Meant => Base0) /\ MonitorIntact /\ [Next]_vars => MonitorIntact'
  <2>1. CASE Meant
    BY <2>1, MonitorStep
  <2>2. ASSUME ~ Meant, [Next]_vars PROVE MonitorIntact'
    <3>1. UNCHANGED jobVars
      BY <2>2, JobStays
    <3> QED
      BY <2>2, <3>1 DEF Meant, MonitorIntact, jobVars
  <2> QED
    BY <2>1, <2>2
<1> QED
  BY <1>1, <1>2, BaseInvariance, PTL DEF Spec

----------------------------------------------------------------------------
(* A program that runs is complete.                                        *)

\* Where a section has to be before the program is started, and how long it is.
From(i) == IF machine = "218X" THEN Start(exe[i]) ELSE exe[i].vaddr
Count(i) == IF machine = "218X" THEN Size(exe[i]) ELSE exe[i].size
CommandOf(i) == IF machine = "218X" THEN DownloadOf(i) ELSE BlockOf(i)
Ready(i) == machine = "218X" => Sendable(exe[i])

\* The host has sent section i.
Sent(i) ==
  IF machine = "218X"
  THEN i < at \/ (i = at /\ (pc = "check" \/ (pc = "piece" /\ pieces = <<>>)))
  ELSE \/ i < at /\ i \notin Finals
       \/ at > Len(exe) + 1 /\ i = LastIn("PM")
       \/ at > Len(exe) + 2 /\ i = LastIn("DM")

Written(i) ==
  \A k \in 1 .. Count(i) :
    memory[exe[i].space][From(i) + k - 1] = Contents(exe[i])[k]

Queued(i) == \E q \in DOMAIN toKit : toKit[q] = CommandOf(i)

SentOK == \A i \in DOMAIN exe : Sent(i) => Ready(i) /\ (Written(i) \/ Queued(i))

\* The command to start the program is the last one.
GoOK ==
  \A q \in DOMAIN toKit : toKit[q].cmd = "GO" =>
    q = Len(toKit) /\ pc \in {"go", "done"} /\ at > Len(exe)

\* The final block of data memory is the last one.
IsLast(c) == c.cmd = "BLOCK" /\ c.final /\ c.space = "DM"
FinalOK ==
  machine = "219X" =>
    /\ \A q \in DOMAIN toKit : IsLast(toKit[q]) => q = Len(toKit) /\ at > Len(exe) + 2
    /\ "DM" \in finals => toKit = <<>> /\ at > Len(exe) + 2

\* An upload has no executable.
Sides ==
  /\ list # <<>> => exe = <<>>
  /\ pc \in {"upload", "data"} => exe = <<>>

Progress ==
  faults = 0 => IF running THEN Loaded ELSE SentOK /\ GoOK /\ FinalOK

LEMMA ContentsIs ==
  ASSUME Job, NEW i \in DOMAIN exe
  PROVE  /\ Count(i) \in Nat /\ DOMAIN Contents(exe[i]) = 1 .. Count(i)
         /\ machine = "218X" => Contents(exe[i]) = Words(exe[i].data, WordSize[exe[i].space])
<1>1. CASE machine = "218X"
  <2>1. exe[i] \in Section218 /\ Whole(exe[i])
    BY <1>1, JobIs
  <2>2. Size(exe[i]) \in Nat /\ WordCount(exe[i].data, WordSize[exe[i].space]) = Size(exe[i])
    BY <2>1, SizeIs
  <2> QED
    BY <1>1, <2>2 DEF Contents, Count, Words
<1>2. CASE machine = "219X"
  <2>1. /\ exe[i] \in Section219
        /\ Len(exe[i].data) \in {0, exe[i].size * WordSize[exe[i].space]}
    BY <1>2, JobIs
  <2>2. exe[i].size \in Nat /\ exe[i].space \in Space /\ exe[i].data \in Seq(Byte)
    BY <2>1 DEF Section219
  <2>3. CASE exe[i].data = <<>>
    BY <1>2, <2>2, <2>3 DEF Contents, Count
  <2>4. CASE exe[i].data # <<>>
    <3>1. Len(exe[i].data) # 0
      BY <2>2, <2>4
    <3>2. WordSize[exe[i].space] \in {2, 3}
      BY <2>2, WordSizes
    <3>3. (exe[i].size * WordSize[exe[i].space]) \div WordSize[exe[i].space] = exe[i].size
      BY <2>2, <3>2, Quotient
    <3>4. WordCount(exe[i].data, WordSize[exe[i].space]) = exe[i].size
      BY <2>1, <3>1, <3>3 DEF WordCount
    <3> QED
      BY <1>2, <2>2, <2>4, <3>4 DEF Contents, Count, Words
  <2> QED
    BY <1>2, <2>3, <2>4
<1> QED
  BY <1>1, <1>2, JobIs

\* Where the commands of a job put the sections, no two of them share a word.
LEMMA ApartIs ==
  ASSUME Base0, NEW i \in DOMAIN exe, Ready(i)
  PROVE  /\ From(i) \in Nat /\ Count(i) \in Nat /\ From(i) + Count(i) <= MemSize
         /\ exe[i].space \in Space
         /\ \A j \in DOMAIN exe : j # i /\ Ready(j) /\ exe[i].space = exe[j].space =>
              From(i) + Count(i) <= From(j) \/ From(j) + Count(j) <= From(i)
<1>1. CASE machine = "218X"
  <2> DEFINE Placing(s) ==
        /\ Start(s) \in Nat /\ Size(s) \in Nat /\ s.space \in Space /\ s.vaddr \in Nat
        /\ Start(s) + Size(s) <= MemSize
        /\ \/ /\ s.space = "PM" /\ s.vaddr < TableTop
              /\ Start(s) = s.vaddr + SwapTable /\ s.vaddr + Size(s) = TableTop
           \/ /\ ~ (s.space = "PM" /\ s.vaddr < TableTop)
              /\ Start(s) = s.vaddr /\ s.vaddr + Size(s) <= Top[s.space]
  <2>1. \A j \in DOMAIN exe : Ready(j) => Placing(exe[j])
    BY <1>1, RangeIs DEF Ready
  <2>2. Placing(exe[i])
    BY <2>1
  <2>3. ASSUME NEW j \in DOMAIN exe, j # i, Ready(j), exe[i].space = exe[j].space
        PROVE  \/ Start(exe[i]) + Size(exe[i]) <= Start(exe[j])
               \/ Start(exe[j]) + Size(exe[j]) <= Start(exe[i])
    <3>1. Placing(exe[j])
      BY <2>1, <2>3
    <3>2. Disjoint(exe[i], Size(exe[i]), exe[j], Size(exe[j]))
      BY <1>1, <2>3, JobIs DEF Base0, TypeOK
    <3>3. \/ exe[i].vaddr + Size(exe[i]) <= exe[j].vaddr
          \/ exe[j].vaddr + Size(exe[j]) <= exe[i].vaddr
      BY <2>3, <3>2 DEF Disjoint
    <3>4. Top["PM"] \in Nat /\ SwapTable \in Nat /\ TableTop \in Nat /\ Top["PM"] <= SwapTable
      BY KitAssumption DEF Top, Address
    <3> QED
      BY <2>2, <2>3, <3>1, <3>3, <3>4
  <2> QED
    BY <1>1, <2>2, <2>3 DEF From, Count
<1>2. CASE machine = "219X"
  <2>1. /\ \A j \in DOMAIN exe : exe[j] \in Section219 /\ exe[j].vaddr + exe[j].size <= MemSize
        /\ \A j, k \in DOMAIN exe : j # k => Disjoint(exe[j], exe[j].size, exe[k], exe[k].size)
    BY <1>2, JobIs DEF Base0, TypeOK
  <2>2. \A j \in DOMAIN exe : exe[j].vaddr \in Nat /\ exe[j].size \in Nat /\ exe[j].space \in Space
    BY <2>1, KitAssumption DEF Section219, Address
  <2> QED
    BY <1>2, <2>1, <2>2 DEF From, Count, Disjoint
<1> QED
  BY <1>1, <1>2, JobIs DEF Base0, TypeOK

\* The loader of a 219x gets the words of a section from its block.
LEMMA BlockWordsIs ==
  ASSUME Job, machine = "219X", NEW i \in DOMAIN exe
  PROVE  BlockWords(BlockOf(i)) = Contents(exe[i])
<1> DEFINE c == BlockOf(i)
           s == exe[i]
           n == WordSize[exe[i].space]
<1>1. s \in Section219 /\ Len(s.data) \in {0, s.size * n}
  BY JobIs
<1>2. s.size \in Nat /\ s.space \in Space /\ s.data \in Seq(Byte) /\ Len(s.data) \in Nat
  BY <1>1 DEF Section219
<1>3. n \in {2, 3}
  BY <1>2, WordSizes
<1>4. /\ c.space = s.space /\ c.words = s.size /\ (c.zeroed <=> s.data = <<>>)
      /\ c.data = LittleEndian(s.data, n)
  BY DEF BlockOf
<1> HIDE DEF c, s, n
<1>5. BlockWords(c) =
        [j \in 1 .. s.size |-> IF c.zeroed THEN 0 ELSE LowFirst(c.data, (j - 1) * n, n)]
  BY <1>4 DEF BlockWords, n, s
<1>6. CASE s.data = <<>>
  <2>1. BlockWords(c) = [j \in 1 .. s.size |-> 0]
    BY <1>4, <1>5, <1>6
  <2> QED
    BY <1>6, <2>1 DEF Contents, c, s
<1>7. CASE s.data # <<>>
  <2>1. Len(s.data) = s.size * n
    <3>1. Len(s.data) # 0
      BY <1>2, <1>7
    <3> QED
      BY <1>1, <3>1
  <2>2. WordCount(s.data, n) = s.size
    BY <1>2, <1>3, <2>1, Quotient DEF WordCount
  <2>3. ASSUME NEW j \in 1 .. s.size
        PROVE  LowFirst(c.data, (j - 1) * n, n) = WordAt(s.data, (j - 1) * n, n)
    <3>1. j - 1 \in Nat /\ (j - 1) * n + n <= s.size * n
      <4>1. CASE n = 2
        BY <1>2, <4>1
      <4>2. CASE n = 3
        BY <1>2, <4>2
      <4> QED
        BY <1>3, <4>1, <4>2
    <3>2. LowFirst(LittleEndian(s.data, n), (j - 1) * n, n) = WordAt(s.data, (j - 1) * n, n)
      BY <1>2, <1>3, <2>1, <3>1, SameWord
    <3> QED
      BY <1>4, <3>2
  <2>4. BlockWords(c) = [j \in 1 .. s.size |-> WordAt(s.data, (j - 1) * n, n)]
    BY <1>4, <1>5, <1>7, <2>3
  <2>5. Contents(s) = Words(s.data, n)
    BY <1>7 DEF Contents, s, n
  <2> QED
    BY <2>2, <2>4, <2>5 DEF Words, c, s
<1> QED
  BY <1>6, <1>7

\* The loader stores a block where its section belongs.
LEMMA LoadIs ==
  ASSUME Base0, LoaderBlock
  PROVE  /\ machine = "219X"
         /\ \E i \in DOMAIN exe :
              /\ Head(toKit) = BlockOf(i)
              /\ finals' = (IF i \in Finals THEN finals \cup {exe[i].space} ELSE finals)
              /\ running' = (finals' = Space)
              /\ \A sp \in Space, a \in Address :
                   memory'[sp][a] =
                     IF sp = exe[i].space
                        /\ a \in exe[i].vaddr .. exe[i].vaddr + exe[i].size - 1
                     THEN Contents(exe[i])[a - exe[i].vaddr + 1]
                     ELSE memory[sp][a]
<1> DEFINE c == Head(toKit)
<1>1. c \in Commands /\ c.cmd = "BLOCK"
  BY KitEffect DEF LoaderBlock, Serve, Kit
<1>2. PICK i \in DOMAIN exe : c = BlockOf(i)
  BY <1>1, CommandKinds
<1>3. machine = "219X" /\ Job /\ Shape(memory)
  BY <1>1, CommandKinds, JobIs DEF Base0, TypeOK
<1>4. exe[i] \in Section219 /\ exe[i].vaddr + exe[i].size <= MemSize
  BY <1>3, JobIs
<1>5. exe[i].vaddr \in Nat /\ exe[i].size \in Nat /\ exe[i].space \in Space
  BY <1>4, KitAssumption DEF Section219, Address
<1> DEFINE w == Contents(exe[i])
           f == Stored(memory[exe[i].space], exe[i].vaddr, w)
<1>6. DOMAIN w = 1 .. exe[i].size /\ BlockWords(c) = w
  BY <1>2, <1>3, ContentsIs, BlockWordsIs DEF Count
<1>7. c.space = exe[i].space /\ c.start = exe[i].vaddr /\ c.final = (i \in Finals)
  <2> DEFINE b == BlockOf(i)
  <2>1. b.space = exe[i].space /\ b.start = exe[i].vaddr
    BY DEF BlockOf
  <2>2. b.final = (i \in Finals)
    BY Zenon DEF BlockOf
  <2> HIDE DEF b
  <2> QED
    BY <1>2, <2>1, <2>2, Zenon DEF b
<1>8. /\ memory' = [memory EXCEPT ![exe[i].space] = f]
      /\ finals' = (IF i \in Finals THEN finals \cup {exe[i].space} ELSE finals)
      /\ running' = (finals' = Space)
  BY <1>6, <1>7 DEF LoaderBlock
<1>9. f = Spread(memory[exe[i].space], exe[i].size, exe[i].vaddr, w)
  <2>1. PICK n, b : n = exe[i].size /\ b = exe[i].vaddr
    OBVIOUS
  <2>2. b \in Nat /\ n \in Nat /\ b + n <= MemSize /\ DOMAIN w = 1 .. n
    BY <1>4, <1>5, <1>6, <2>1
  <2> HIDE DEF w
  <2>3. Stored(memory[exe[i].space], b, w) = Spread(memory[exe[i].space], n, b, w)
    BY <2>2, StoredIs
  <2> QED
    BY <2>1, <2>3
<1>10. f = [a \in Address |-> f[a]]
  BY DEF Stored
<1> HIDE DEF c, f, w
<1>11. /\ memory'[exe[i].space] = f
       /\ \A s \in Space : s # exe[i].space => memory'[s] = memory[s]
  BY <1>3, <1>5, <1>8, <1>10, ShapeStays
<1>12. ASSUME NEW sp \in Space, NEW a \in Address
       PROVE  memory'[sp][a] =
                IF sp = exe[i].space
                   /\ a \in exe[i].vaddr .. exe[i].vaddr + exe[i].size - 1
                THEN w[a - exe[i].vaddr + 1] ELSE memory[sp][a]
  <2>1. CASE sp # exe[i].space
    BY <1>11, <2>1
  <2>2. CASE sp = exe[i].space
    BY <1>9, <1>11, <2>2 DEF Spread
  <2> QED
    BY <2>1, <2>2
<1> QED
  BY <1>2, <1>3, <1>8, <1>12 DEF c, w

\* What both kits do with a section that arrives unharmed.
LEMMA ServeIs ==
  ASSUME Base0, faults = 0, KitStore \/ LoaderBlock
  PROVE  \E i \in DOMAIN exe :
           /\ Ready(i) /\ Head(toKit) = CommandOf(i)
           /\ machine = "219X" =>
                /\ finals' = (IF i \in Finals THEN finals \cup {exe[i].space} ELSE finals)
                /\ running' = (finals' = Space)
           /\ machine = "218X" => UNCHANGED <<running, finals>>
           /\ \A sp \in Space, a \in Address :
                memory'[sp][a] =
                  IF sp = exe[i].space /\ a \in From(i) .. From(i) + Count(i) - 1
                  THEN Contents(exe[i])[a - From(i) + 1]
                  ELSE memory[sp][a]
<1>1. CASE LoaderBlock
  BY <1>1, LoadIs DEF Ready, CommandOf, From, Count
<1>2. CASE KitStore
  <2>1. machine = "218X" /\ UNCHANGED <<running, finals>>
    BY <1>2, StoreIs DEF Base0, TypeOK
  <2>2. PICK i \in DOMAIN exe :
          /\ Sendable(exe[i]) /\ Head(toKit) = DownloadOf(i)
          /\ \A sp \in Space, a \in Address :
               memory'[sp][a] =
                 IF sp = exe[i].space
                    /\ a \in Start(exe[i]) .. Start(exe[i]) + Size(exe[i]) - 1
                 THEN Words(Head(toKit).data, WordSize[sp])[a - Start(exe[i]) + 1]
                 ELSE memory[sp][a]
    BY <1>2, StoreIs DEF Base0, TypeOK
  <2>3. Contents(exe[i]) = Words(Head(toKit).data, WordSize[exe[i].space])
    BY <2>1, <2>2, ContentsIs DEF DownloadOf, Base0, TypeOK
  <2>4. From(i) = Start(exe[i]) /\ Count(i) = Size(exe[i])
    BY <2>1 DEF From, Count
  <2>5. ASSUME NEW sp \in Space, NEW a \in Address
        PROVE  memory'[sp][a] =
                 IF sp = exe[i].space /\ a \in From(i) .. From(i) + Count(i) - 1
                 THEN Contents(exe[i])[a - From(i) + 1]
                 ELSE memory[sp][a]
    BY <2>2, <2>3, <2>4
  <2> QED
    BY <2>1, <2>2, <2>5 DEF Ready, CommandOf
<1> QED
  BY <1>1, <1>2

\* The command of one section does not touch another that is written, and writes
\* its own.
LEMMA ServedStays ==
  ASSUME Base0, faults = 0, KitStore \/ LoaderBlock, NEW j \in DOMAIN exe, Ready(j),
         Written(j) \/ Head(toKit) = CommandOf(j)
  PROVE  Written(j)'
<1>1. PICK i \in DOMAIN exe :
        /\ Ready(i) /\ Head(toKit) = CommandOf(i)
        /\ \A sp \in Space, a \in Address :
             memory'[sp][a] =
               IF sp = exe[i].space /\ a \in From(i) .. From(i) + Count(i) - 1
               THEN Contents(exe[i])[a - From(i) + 1]
               ELSE memory[sp][a]
  BY ServeIs
<1>2. /\ From(j) \in Nat /\ Count(j) \in Nat /\ From(j) + Count(j) <= MemSize
      /\ exe[j].space \in Space /\ From(i) \in Nat /\ Count(i) \in Nat
      /\ j # i /\ exe[i].space = exe[j].space =>
           From(i) + Count(i) <= From(j) \/ From(j) + Count(j) <= From(i)
  BY <1>1, ApartIs
<1>3. machine' = machine /\ exe' = exe
  BY KitEffect DEF Kit, jobVars
<1>4. ASSUME NEW k \in 1 .. Count(j)
      PROVE  memory'[exe[j].space][From(j) + k - 1] = Contents(exe[j])[k]
  <2> DEFINE a == From(j) + k - 1
  <2>1. a \in Address /\ a \in From(j) .. From(j) + Count(j) - 1 /\ a - From(j) + 1 = k
    BY <1>2, KitAssumption DEF Address
  <2>2. CASE i = j
    <3> HIDE DEF a
    <3> QED
      BY <1>1, <1>2, <2>1, <2>2 DEF a
  <2>3. CASE i # j
    <3>1. CASE Written(j)
      <4>1. ~ (exe[j].space = exe[i].space /\ a \in From(i) .. From(i) + Count(i) - 1)
        BY <1>2, <2>3
      <4>2. memory[exe[j].space][a] = Contents(exe[j])[k]
        BY <3>1 DEF Written
      <4> HIDE DEF a
      <4> QED
        BY <1>1, <1>2, <2>1, <4>1, <4>2 DEF a
    <3>2. CASE Head(toKit) = CommandOf(j)
      <4>1. exe[i].space = exe[j].space /\ From(i) = From(j) /\ Count(i) = Count(j)
        <5>1. CommandOf(i) = CommandOf(j)
          BY <1>1, <3>2
        <5>2. CASE machine = "218X"
          <6>1. /\ DownloadOf(i).space = DownloadOf(j).space
                /\ DownloadOf(i).start = DownloadOf(j).start
                /\ DownloadOf(i).data = DownloadOf(j).data
            BY <5>1, <5>2 DEF CommandOf
          <6>2. /\ exe[i].space = exe[j].space /\ Start(exe[i]) = Start(exe[j])
                /\ exe[i].data = exe[j].data
            BY <6>1 DEF DownloadOf
          <6> QED
            BY <5>2, <6>2 DEF From, Count, Size
        <5>3. CASE machine # "218X"
          <6>1. /\ BlockOf(i).space = BlockOf(j).space
                /\ BlockOf(i).start = BlockOf(j).start
                /\ BlockOf(i).words = BlockOf(j).words
            BY <5>1, <5>3 DEF CommandOf
          <6>2. /\ exe[i].space = exe[j].space /\ exe[i].vaddr = exe[j].vaddr
                /\ exe[i].size = exe[j].size
            BY <6>1 DEF BlockOf
          <6> QED
            BY <5>3, <6>2 DEF From, Count
        <5> QED
          BY <5>2, <5>3
      <4>2. k \in Nat /\ 1 <= k /\ k <= Count(j)
        BY <1>2
      <4> QED
        BY <1>2, <2>3, <4>1, <4>2
    <3> QED
      BY <3>1, <3>2
  <2> QED
    BY <2>2, <2>3
<1>5. From(j)' = From(j) /\ Count(j)' = Count(j) /\ Contents(exe[j])' = Contents(exe[j])
      /\ exe[j]' = exe[j]
  BY <1>3 DEF From, Count, Contents
<1> QED
  BY <1>4, <1>5 DEF Written

\* What waits on the line after the kit has served the first command.
LEMMA QueuedStays ==
  ASSUME NEW S, toKit \in Seq(S), toKit # <<>>, toKit' = Tail(toKit), UNCHANGED jobVars,
         NEW j \in DOMAIN exe, Queued(j)
  PROVE  Head(toKit) = CommandOf(j) \/ Queued(j)'
<1>1. PICK q \in DOMAIN toKit : toKit[q] = CommandOf(j)
  BY DEF Queued
<1>2. CommandOf(j)' = CommandOf(j)
  BY DEF CommandOf, DownloadOf, BlockOf, Finals, LastIn, jobVars
<1>3. /\ Head(toKit) = toKit[1] /\ DOMAIN toKit = 1 .. Len(toKit) /\ Len(toKit) \in Nat
      /\ DOMAIN Tail(toKit) = 1 .. Len(toKit) - 1
      /\ \A k \in DOMAIN Tail(toKit) : Tail(toKit)[k] = toKit[k + 1]
  BY TailFacts
<1>4. CASE q = 1
  BY <1>1, <1>3, <1>4
<1>5. CASE q # 1
  <2>1. q - 1 \in DOMAIN Tail(toKit) /\ (q - 1) + 1 = q
    BY <1>3, <1>5
  <2>2. Tail(toKit)[q - 1] = CommandOf(j)
    BY <1>1, <1>3, <2>1
  <2> QED
    BY <1>2, <2>1, <2>2 DEF Queued
<1> QED
  BY <1>4, <1>5

\* A property of the commands that wait stays one of those that are left.
LEMMA LastStays ==
  ASSUME NEW S, toKit \in Seq(S), toKit # <<>>, toKit' = Tail(toKit),
         NEW q \in DOMAIN toKit'
  PROVE  /\ q + 1 \in DOMAIN toKit /\ toKit'[q] = toKit[q + 1]
         /\ q + 1 = Len(toKit) => q = Len(toKit')
<1>1. /\ Len(toKit) \in Nat /\ DOMAIN Tail(toKit) = 1 .. Len(toKit) - 1
      /\ Len(Tail(toKit)) = Len(toKit) - 1
      /\ \A k \in DOMAIN Tail(toKit) : Tail(toKit)[k] = toKit[k + 1] /\ k + 1 \in DOMAIN toKit
  BY TailFacts
<1> QED
  BY <1>1

\* The vectors come from the shadow table when the monitor starts the program.
LEMMA GoLoads ==
  ASSUME Base0, KitGo, machine = "218X", \A i \in DOMAIN exe : Ready(i) /\ Written(i)
  PROVE  Loaded'
<1>1. exe' = exe /\ machine' = machine /\ Job /\ Shape(memory)
  BY KitEffect DEF Kit, jobVars, Base0, TypeOK
<1> DEFINE f == Swapped(memory["PM"])
<1>2. memory' = [memory EXCEPT !["PM"] = f]
  BY DEF KitGo
<1>3. f = [a \in Address |-> f[a]]
  BY DEF Swapped
<1>4. memory'["PM"] = f /\ memory'["DM"] = memory["DM"]
  <2> HIDE DEF f
  <2> QED
    BY <1>1, <1>2, <1>3, ShapeStays DEF Space
<1>5. ASSUME NEW i \in DOMAIN exe, NEW k \in DOMAIN Contents(exe[i])
      PROVE  memory'[exe[i].space][exe[i].vaddr + k - 1] = Contents(exe[i])[k]
  <2>1. Sendable(exe[i]) /\ k \in 1 .. Size(exe[i])
    BY <1>1, ContentsIs DEF Ready, Count
  <2>2. LET x == exe[i] IN
        /\ Start(x) \in Nat /\ Size(x) \in Nat /\ x.space \in Space /\ x.vaddr \in Nat
        /\ Start(x) + Size(x) <= MemSize
        /\ \/ /\ x.space = "PM" /\ x.vaddr < TableTop
              /\ Start(x) = x.vaddr + SwapTable /\ x.vaddr + Size(x) = TableTop
           \/ /\ ~ (x.space = "PM" /\ x.vaddr < TableTop)
              /\ Start(x) = x.vaddr /\ x.vaddr + Size(x) <= Top[x.space]
    BY <2>1, RangeIs
  <2>3. memory[exe[i].space][Start(exe[i]) + k - 1] = Contents(exe[i])[k]
    BY <2>1 DEF Written, From, Count
  <2>4. /\ MemSize \in Nat /\ TableTop \in Nat /\ SwapTable \in Nat
        /\ Top["PM"] \in Nat /\ Top["PM"] <= SwapTable /\ Space = {"PM", "DM"}
    BY KitAssumption DEF Address, Top, Space
  <2> DEFINE a == exe[i].vaddr + k - 1
  <2>5. a \in Nat
    BY <2>1, <2>2
  <2>6. CASE exe[i].space = "PM" /\ exe[i].vaddr < TableTop
    <3>1. a < TableTop /\ a \in Address /\ SwapTable + a = Start(exe[i]) + k - 1
      BY <2>1, <2>2, <2>4, <2>6 DEF Address
    <3>2. f[a] = memory["PM"][SwapTable + a]
      <4> HIDE DEF a
      <4> QED
        BY <3>1 DEF Swapped
    <3> QED
      BY <1>4, <2>3, <2>6, <3>1, <3>2
  <2>7. CASE exe[i].space = "PM" /\ ~ (exe[i].vaddr < TableTop)
    <3>1. ~ (a < TableTop) /\ a \in Address /\ a = Start(exe[i]) + k - 1 /\ a < SwapTable
      BY <2>1, <2>2, <2>4, <2>7 DEF Address
    <3>2. f[a] = memory["PM"][a]
      <4>1. a - SwapTable \notin 0 .. TableTop - 1
        BY <2>4, <2>5, <3>1
      <4> HIDE DEF a
      <4> QED
        BY <3>1, <4>1 DEF Swapped
    <3> QED
      BY <1>4, <2>3, <2>7, <3>1, <3>2
  <2>8. CASE exe[i].space # "PM"
    <3>1. exe[i].space = "DM" /\ Start(exe[i]) = exe[i].vaddr
      BY <2>2, <2>4, <2>8
    <3> QED
      BY <1>4, <2>3, <3>1
  <2> QED
    BY <2>6, <2>7, <2>8
<1>6. \A i \in DOMAIN exe : Contents(exe[i])' = Contents(exe[i])
  BY <1>1 DEF Contents
<1> QED
  BY <1>1, <1>5, <1>6 DEF Loaded

\* The loader starts the program with the last block.
LEMMA BlockLoads ==
  ASSUME Base0, faults = 0, SentOK, FinalOK, LoaderBlock, finals' = Space
  PROVE  Loaded'
<1>1. /\ toKit # <<>> /\ toKit \in Seq(Commands) /\ Head(toKit) \in Commands
      /\ exe' = exe /\ machine' = machine /\ Job
  BY KitEffect DEF Kit, Base0, TypeOK, jobVars
<1>2. PICK i \in DOMAIN exe :
        /\ machine = "219X" /\ Head(toKit) = BlockOf(i)
        /\ finals' = (IF i \in Finals THEN finals \cup {exe[i].space} ELSE finals)
  BY LoadIs
<1>3. Head(toKit) = toKit[1] /\ 1 \in DOMAIN toKit /\ DOMAIN toKit = 1 .. Len(toKit)
      /\ Len(toKit) \in Nat
  BY <1>1, TailFacts
<1>4. "DM" \notin finals
  BY <1>1, <1>2 DEF FinalOK
<1>5. i \in Finals /\ exe[i].space = "DM"
  BY <1>2, <1>4 DEF Space
<1>6. IsLast(BlockOf(i))
  <2> DEFINE b == BlockOf(i)
  <2>1. b.cmd = "BLOCK" /\ b.space = "DM"
    BY <1>5 DEF BlockOf
  <2>2. b.final = (i \in Finals)
    BY Zenon DEF BlockOf
  <2>3. b.final
    BY <1>5, <2>2
  <2> QED
    BY <2>1, <2>3 DEF IsLast
<1>7. Len(toKit) = 1 /\ at > Len(exe) + 2
  BY <1>2, <1>3, <1>6 DEF FinalOK
<1>8. ASSUME NEW j \in DOMAIN exe
      PROVE  Written(j)'
  <2>1. j \in 1 .. Len(exe) /\ Len(exe) \in Nat /\ at \in Nat
    BY <1>1, JobIs DEF Base0, TypeOK
  <2>2. Sent(j)
    <3>1. j < at
      BY <1>7, <2>1
    <3>2. at > Len(exe) + 1
      BY <1>7, <2>1
    <3> QED
      BY <1>2, <1>7, <3>1, <3>2 DEF Sent, Finals
  <2>3. Ready(j) /\ (Written(j) \/ Queued(j))
    BY <2>2 DEF SentOK
  <2>4. Queued(j) => Head(toKit) = CommandOf(j)
    BY <1>3, <1>7 DEF Queued
  <2> QED
    BY <2>3, <2>4, ServedStays
<1>9. ASSUME NEW j \in DOMAIN exe, NEW k \in DOMAIN Contents(exe[j])
      PROVE  memory'[exe[j].space][exe[j].vaddr + k - 1] = Contents(exe[j])[k]
  <2>1. k \in 1 .. Count(j) /\ From(j) = exe[j].vaddr
    BY <1>1, <1>2, ContentsIs DEF From
  <2>2. /\ From(j)' = From(j) /\ Count(j)' = Count(j)
        /\ Contents(exe[j])' = Contents(exe[j])
    BY <1>1 DEF From, Count, Contents
  <2> QED
    BY <1>1, <1>8, <2>1, <2>2 DEF Written
<1>10. \A j \in DOMAIN exe : Contents(exe[j])' = Contents(exe[j])
  BY <1>1 DEF Contents
<1> QED
  BY <1>1, <1>9, <1>10 DEF Loaded

LEMMA KitProgress ==
  ASSUME Base0, Progress, Kit
  PROVE  Progress'
<1> SUFFICES ASSUME faults = 0 PROVE Progress'
  <2>1. faults' = faults
    BY KitEffect
  <2> QED
    BY <2>1 DEF Progress
<1>1. /\ toKit # <<>> /\ toKit' = Tail(toKit) /\ running = FALSE
      /\ UNCHANGED <<jobVars, hostVars, faults>> /\ Head(toKit) \in Commands
      /\ toKit \in Seq(Commands)
  BY KitEffect DEF Base0, TypeOK
<1>2. SentOK /\ GoOK /\ FinalOK
  BY <1>1 DEF Progress
<1>3. /\ exe' = exe /\ machine' = machine /\ pc' = pc /\ at' = at /\ pieces' = pieces
      /\ Finals' = Finals /\ \A sp : LastIn(sp)' = LastIn(sp)
  BY <1>1 DEF jobVars, hostVars, Finals, LastIn
<1>4. /\ DOMAIN toKit = 1 .. Len(toKit) /\ Len(toKit) \in Nat /\ 1 \in DOMAIN toKit
      /\ Head(toKit) = toKit[1] /\ Len(Tail(toKit)) = Len(toKit) - 1
      /\ Tail(toKit) \in Seq(Commands)
  BY <1>1, TailFacts
<1>5. \A j \in DOMAIN exe : Sent(j)' => Sent(j)
  BY <1>3 DEF Sent
<1>6. \A j \in DOMAIN exe : Ready(j)' = Ready(j)
  BY <1>3 DEF Ready
<1>7. GoOK'
  <2>1. ASSUME NEW q \in DOMAIN toKit', toKit'[q].cmd = "GO"
        PROVE  q = Len(toKit') /\ pc' \in {"go", "done"} /\ at' > Len(exe')
    <3>1. q + 1 \in DOMAIN toKit /\ toKit'[q] = toKit[q + 1]
          /\ (q + 1 = Len(toKit) => q = Len(toKit'))
      BY <1>1, LastStays
    <3> QED
      BY <1>2, <1>3, <2>1, <3>1 DEF GoOK
  <2> QED
    BY <2>1 DEF GoOK
<1>8. ASSUME machine = "219X", NEW q \in DOMAIN toKit', IsLast(toKit'[q])
      PROVE  q = Len(toKit') /\ at' > Len(exe') + 2
  <2>1. q + 1 \in DOMAIN toKit /\ toKit'[q] = toKit[q + 1]
        /\ (q + 1 = Len(toKit) => q = Len(toKit'))
    BY <1>1, LastStays
  <2> QED
    BY <1>2, <1>3, <1>8, <2>1 DEF FinalOK
<1>9. CASE KitAlive \/ KitRead \/ LoaderStart \/ LoaderControl
  <2>1. UNCHANGED kitVars
    BY <1>9 DEF KitAlive, KitRead, LoaderStart, LoaderControl
  <2>2. Head(toKit).cmd \in {"OK", "U", "AUTOBAUD", "CONTROL"}
    BY <1>9 DEF KitAlive, KitRead, LoaderStart, LoaderControl, Serve
  <2>3. ASSUME NEW j \in DOMAIN exe, Sent(j)'
        PROVE  Ready(j)' /\ (Written(j)' \/ Queued(j)')
    <3>1. Ready(j) /\ (Written(j) \/ Queued(j))
      BY <1>2, <1>5, <2>3 DEF SentOK
    <3>2. Written(j)' = Written(j)
      BY <1>3, <2>1 DEF kitVars, Written, Count, From, Contents
    <3>3. Head(toKit) # CommandOf(j)
      BY <2>2 DEF CommandOf, DownloadOf, BlockOf
    <3>4. Queued(j) => Queued(j)'
      BY <1>1, <3>3, QueuedStays
    <3> QED
      BY <1>6, <3>1, <3>2, <3>4
  <2>4. SentOK'
    BY <1>3, <2>3 DEF SentOK
  <2>5. FinalOK'
    <3>1. finals' = finals
      BY <2>1 DEF kitVars
    <3>2. machine = "219X" => "DM" \notin finals
      BY <1>1, <1>2 DEF FinalOK
    <3> QED
      BY <1>3, <1>8, <3>1, <3>2 DEF FinalOK
  <2>6. running' = FALSE
    BY <1>1, <2>1 DEF kitVars
  <2> QED
    BY <1>7, <2>4, <2>5, <2>6 DEF Progress
<1>10. ASSUME KitStore \/ LoaderBlock, NEW j \in DOMAIN exe, Sent(j)'
       PROVE  Ready(j)' /\ (Written(j)' \/ Queued(j)')
  <2>1. Ready(j) /\ (Written(j) \/ Queued(j))
    BY <1>2, <1>5, <1>10 DEF SentOK
  <2>2. Written(j) \/ Head(toKit) = CommandOf(j) \/ Queued(j)'
    BY <1>1, <2>1, QueuedStays
  <2>3. Written(j) \/ Head(toKit) = CommandOf(j) => Written(j)'
    BY <1>10, <2>1, ServedStays
  <2> QED
    BY <1>6, <2>1, <2>2, <2>3
<1>11. CASE KitStore
  <2>1. machine = "218X" /\ running' = running
    BY <1>11, StoreIs DEF Base0, TypeOK
  <2>2. SentOK'
    BY <1>3, <1>10, <1>11 DEF SentOK
  <2>3. FinalOK'
    BY <1>3, <2>1 DEF FinalOK
  <2> QED
    BY <1>1, <1>7, <2>1, <2>2, <2>3 DEF Progress
<1>12. CASE LoaderBlock
  <2>1. PICK i \in DOMAIN exe :
          /\ machine = "219X" /\ Head(toKit) = BlockOf(i)
          /\ finals' = (IF i \in Finals THEN finals \cup {exe[i].space} ELSE finals)
          /\ running' = (finals' = Space)
    BY <1>12, LoadIs
  <2>2. CASE finals' = Space
    BY <1>2, <1>12, <2>1, <2>2, BlockLoads DEF Progress
  <2>3. CASE finals' # Space
    <3>1. SentOK'
      BY <1>3, <1>10, <1>12 DEF SentOK
    <3>2. ASSUME "DM" \in finals'
          PROVE  toKit' = <<>> /\ at' > Len(exe') + 2
      <4>1. "DM" \notin finals
        BY <1>1, <1>2, <2>1 DEF FinalOK
      <4>2. i \in Finals /\ exe[i].space = "DM"
        BY <2>1, <3>2, <4>1
      <4>3. IsLast(BlockOf(i))
        <5> DEFINE b == BlockOf(i)
        <5>1. b.cmd = "BLOCK" /\ b.space = "DM"
          BY <4>2 DEF BlockOf
        <5>2. b.final = (i \in Finals)
          BY Zenon DEF BlockOf
        <5>3. b.final
          BY <4>2, <5>2
        <5> QED
          BY <5>1, <5>3 DEF IsLast
      <4>4. Len(toKit) = 1 /\ at > Len(exe) + 2
        BY <1>2, <1>4, <2>1, <4>3 DEF FinalOK
      <4>5. toKit' = <<>>
        BY <1>1, <1>4, <4>4
      <4> QED
        BY <1>3, <4>4, <4>5
    <3>3. FinalOK'
      BY <1>3, <1>8, <3>2 DEF FinalOK
    <3>4. ~ running'
      BY <2>1, <2>3
    <3> QED
      BY <1>7, <3>1, <3>3, <3>4 DEF Progress
  <2> QED
    BY <2>2, <2>3
<1>13. CASE KitGo
  <2>1. Head(toKit).cmd = "GO"
    BY <1>13 DEF KitGo, Serve
  <2>2. machine = "218X"
    BY <1>1, <2>1, CommandKinds
  <2>3. Len(toKit) = 1 /\ at > Len(exe)
    BY <1>2, <1>4, <2>1 DEF GoOK
  <2>4. ASSUME NEW j \in DOMAIN exe PROVE Ready(j) /\ Written(j)
    <3>1. j < at
      <4>1. j \in 1 .. Len(exe) /\ Len(exe) \in Nat /\ at \in Nat
        BY JobIs DEF Base0, TypeOK
      <4> QED
        BY <2>3, <4>1
    <3>2. Ready(j) /\ (Written(j) \/ Queued(j))
      BY <1>2, <2>2, <3>1 DEF SentOK, Sent
    <3>3. ~ Queued(j)
      <4>1. CommandOf(j).cmd = "D"
        BY <2>2 DEF CommandOf, DownloadOf
      <4> QED
        BY <1>4, <2>1, <2>3, <4>1 DEF Queued
    <3> QED
      BY <3>2, <3>3
  <2>5. Loaded'
    BY <1>13, <2>2, <2>4, GoLoads
  <2>6. running'
    BY <1>13 DEF KitGo
  <2> QED
    BY <2>5, <2>6 DEF Progress
<1> QED
  BY <1>9, <1>11, <1>12, <1>13 DEF Kit

\* What the host sends, and when: nothing behind the command to go, or behind the
\* final block of data memory.
LEMMA HostSends ==
  ASSUME Base0, Host
  PROVE  \/ toKit' = toKit
         \/ \E c \in Commands :
              /\ toKit' = Append(toKit, c)
              /\ pc \notin {"go", "done"} /\ (machine = "219X" => at <= Len(exe) + 2)
              /\ c.cmd = "GO" => pc' = "go" /\ at' > Len(exe)
              /\ IsLast(c) => at' > Len(exe) + 2
<1>0. /\ machine \in {"218X", "219X"} /\ Len(exe) \in Nat /\ DOMAIN exe = 1 .. Len(exe)
      /\ at \in Nat \ {0} /\ exe' = exe
  BY JobIs, HostEffect DEF Base0, TypeOK, jobVars
<1>1. CASE toKit' = toKit
  BY <1>1
<1>2. CASE toKit' # toKit
  <2>1. PICK c \in Commands : toKit' = Append(toKit, c)
    BY <1>2, HostEffect
  <2>2. c = toKit'[Len(toKit')]
    BY <2>1, AppendFacts DEF Base0, TypeOK
  <2>3. CASE Alive
    <3>1. toKit' = Append(toKit, [cmd |-> "OK"]) /\ machine = "218X" /\ pc = "start"
      BY <2>3 DEF Alive, Send
    <3>2. [cmd |-> "OK"] \in Commands
      BY DEF Commands
    <3> QED
      BY <3>1, <3>2 DEF IsLast
  <2>4. CASE Download
    <3>1. /\ Head(pieces) = [start |-> Start(exe[at]), data |-> exe[at].data]
          /\ machine = "218X" /\ DownloadOf(at) \in Downloads
      BY <2>4, PieceIs DEF Download
    <3>2. toKit' = Append(toKit, DownloadOf(at)) /\ DownloadOf(at) \in Commands
      BY <2>4, <3>1 DEF Download, Send, DownloadOf, Commands
    <3>3. DownloadOf(at).cmd = "D"
      BY DEF DownloadOf
    <3> QED
      BY <2>4, <3>1, <3>2, <3>3 DEF IsLast, Download
  <2>5. CASE Go
    <3>1. machine = "218X"
      BY <1>0, <2>5 DEF Go, Base0, TypeOK, HostStates
    <3>2. [cmd |-> "GO"] \in Commands
      BY <3>1 DEF Commands
    <3>3. toKit' = Append(toKit, [cmd |-> "GO"]) /\ pc = "section" /\ pc' = "go"
          /\ at' > Len(exe)
      BY <2>5 DEF Go, Send
    <3> QED
      BY <3>1, <3>2, <3>3 DEF IsLast
  <2>6. CASE Upload
    <3> DEFINE u == UploadCommand(list, at)
    <3>1. machine = "218X"
      BY <1>0, <2>6 DEF Upload, Base0, TypeOK, HostStates
    <3>2. u \in Commands
      BY <1>0, <3>1, UploadIsKnown DEF Commands
    <3>3. toKit' = Append(toKit, u) /\ pc = "upload"
      BY <2>6 DEF Upload, Send, UploadCommand
    <3>4. u.cmd = "U"
      BY DEF UploadCommand
    <3> HIDE DEF u
    <3> QED
      BY <3>1, <3>2, <3>3, <3>4 DEF IsLast
  <2>7. CASE Autobaud
    <3>1. [cmd |-> "AUTOBAUD"] \in Commands /\ machine = "219X"
      BY <2>7 DEF Commands, Autobaud
    <3>2. toKit' = Append(toKit, [cmd |-> "AUTOBAUD"]) /\ pc = "start" /\ at = 1
      BY <2>7, <3>1 DEF Autobaud, Send, Base0, BootOK
    <3> QED
      BY <1>0, <3>1, <3>2 DEF IsLast
  <2>8. CASE Control
    <3>1. machine = "219X"
      BY <1>0, <2>8 DEF Control, Base0, TypeOK, HostStates
    <3>2. [cmd |-> "CONTROL"] \in Commands
      BY <3>1 DEF Commands
    <3>3. toKit' = Append(toKit, [cmd |-> "CONTROL"]) /\ pc = "control" /\ at = 1
      BY <2>8, <3>1 DEF Control, Send, Base0, BootOK
    <3> QED
      BY <1>0, <3>1, <3>2, <3>3 DEF IsLast
  <2>9. CASE Block \/ FinalBlock
    <3>1. machine = "219X" /\ pc = "block"
      BY <1>0, <2>9 DEF Block, FinalBlock, Base0, TypeOK, HostStates
    <3>2. {exe[i].space : i \in DOMAIN exe} = Space /\ exe \in Seq(Section219)
      BY <3>1, JobIs DEF Base0, TypeOK, BootOK
    <3>3. \A sp \in Space : LastIn(sp) \in DOMAIN exe /\ exe[LastIn(sp)].space = sp
      <4>1. \A sp \in Space : \E i \in DOMAIN exe : exe[i].space = sp
        BY <3>2
      <4> QED
        BY <3>2, <4>1, LastInIs
    <3>4. PICK i \in DOMAIN exe :
            /\ SendBlock(i) /\ at <= Len(exe) + 2
            /\ i \in Finals /\ exe[i].space = "DM" => at = Len(exe) + 2
      <4>1. CASE Block
        BY <1>0, <4>1 DEF Block
      <4>2. CASE FinalBlock
        BY <1>0, <3>3, <4>2 DEF FinalBlock, Space
      <4> QED
        BY <2>9, <4>1, <4>2
    <3>5. toKit' = Append(toKit, BlockOf(i)) /\ BlockOf(i) \in Commands /\ at' = at + 1
      BY <3>1, <3>4 DEF SendBlock, Send, BlockOf, Commands
    <3>6. BlockOf(i).cmd = "BLOCK" /\ BlockOf(i).space = exe[i].space
      BY DEF BlockOf
    <3>7. BlockOf(i).final = (i \in Finals)
      BY Zenon DEF BlockOf
    <3>8. IsLast(BlockOf(i)) => at' > Len(exe) + 2
      <4>1. IsLast(BlockOf(i)) => i \in Finals /\ exe[i].space = "DM"
        BY <3>6, <3>7, Zenon DEF IsLast
      <4> QED
        BY <1>0, <3>4, <3>5, <4>1
    <3> QED
      BY <3>1, <3>4, <3>5, <3>6, <3>8
  <2>10. CASE AliveReply \/ NextSection \/ DownloadReply \/ EndOfSection \/ GoReply
                \/ RefuseUpload \/ UploadReply \/ EndUpload \/ AutobaudReply \/ SkipFinal
                \/ EndBoot \/ AckReply
    BY <2>10 DEF RefuseUpload, AliveReply, NextSection, DownloadReply, EndOfSection, GoReply,
       UploadReply, EndUpload, AutobaudReply, SkipFinal, EndBoot, AckReply, Receive, lineVars
  <2> QED
    BY <2>3, <2>4, <2>5, <2>6, <2>7, <2>8, <2>9, <2>10 DEF Host
<1> QED
  BY <1>1, <1>2

\* An upload has no sections to send.
LEMMA SidesStep ==
  ASSUME Base0, Sides, [Next]_vars
  PROVE  Sides'
<1>1. CASE UNCHANGED <<pc, exe, list>>
  BY <1>1 DEF Sides
<1>2. CASE Kit \/ Line \/ Stopped \/ UNCHANGED vars
  <2>1. UNCHANGED <<jobVars, hostVars>>
    BY <1>2, KitEffect, LineEffect DEF Stopped, vars
  <2> QED
    BY <1>1, <2>1 DEF jobVars, hostVars
<1>3. CASE Host
  <2>1. exe' = exe /\ list' = list
    BY <1>3, HostEffect DEF jobVars
  <2>2. ASSUME pc' \in {"upload", "data"}
        PROVE  list # <<>> \/ pc \in {"upload", "data"}
    BY <1>3, <2>2 DEF Host, Alive, AliveReply, NextSection, Download, DownloadReply,
       EndOfSection, Go, GoReply, Upload, RefuseUpload, UploadReply, EndUpload, Autobaud,
       AutobaudReply,
       Control, SkipFinal, Block, FinalBlock, SendBlock, EndBoot, AckReply
  <2> QED
    BY <2>1, <2>2 DEF Sides
<1> QED
  BY <1>2, <1>3 DEF Next

\* What is new among the sections that the host has sent.
LEMMA SentStep ==
  ASSUME Base0, Sides, Host, NEW j \in DOMAIN exe, Sent(j)'
  PROVE  Sent(j) \/ (Ready(j) /\ (Written(j) \/ toKit' = Append(toKit, CommandOf(j))))
<1>0. /\ machine \in {"218X", "219X"} /\ Len(exe) \in Nat /\ DOMAIN exe = 1 .. Len(exe)
      /\ at \in Nat \ {0} /\ j \in 1 .. Len(exe)
  BY JobIs DEF Base0, TypeOK
<1>1. /\ exe' = exe /\ machine' = machine /\ Finals' = Finals
      /\ \A sp : LastIn(sp)' = LastIn(sp)
  BY HostEffect DEF jobVars, Finals, LastIn
<1>2. CASE machine = "218X"
  <2>1. j < at' \/ (j = at' /\ (pc' = "check" \/ (pc' = "piece" /\ pieces' = <<>>)))
    BY <1>1, <1>2 DEF Sent
  <2>2. CASE at' = at /\ pc' \notin {"piece", "check"}
    BY <1>2, <2>1, <2>2 DEF Sent
  <2>3. CASE NextSection
    <3>1. at' = at
      BY <2>3 DEF NextSection
    <3>2. CASE j < at
      BY <1>2, <3>2 DEF Sent
    <3>3. CASE j = at
      <4>1. PieceOK'
        BY <2>3, PieceStep DEF Next, Host
      <4>2. pc' = "piece" /\ pieces' = <<>> /\ pieces' = Pieces(exe[at])
            /\ ~ EndsInTable(exe[at]) /\ Fits(exe[at])
        BY <2>1, <2>3, <3>1, <3>3 DEF NextSection
      <4>3. exe[j] \in Section218 /\ Whole(exe[j]) /\ ~ Straddles(exe[j])
        BY <1>2, JobIs DEF Base0, TypeOK, Meant
      <4>4. Sendable(exe[j])
        BY <3>3, <4>2 DEF Sendable
      <4>5. Piece(Start(exe[j]), exe[j].data) = <<>>
        BY <3>3, <4>2, <4>3, <4>4, OnePiece
      <4>6. exe[j].data = <<>>
        BY <4>5 DEF Piece
      <4>7. Count(j) = 0
        <5>1. Len(exe[j].data) = 0 /\ WordSize[exe[j].space] \in {2, 3}
          BY <4>3, <4>6, WordSizes DEF Section218
        <5> QED
          BY <1>2, <5>1 DEF Count, Size
      <4> QED
        BY <1>2, <4>4, <4>7 DEF Ready, Written
    <3> QED
      BY <2>1, <3>1, <3>2, <3>3
  <2>4. CASE Download
    <3>1. /\ Head(pieces) = [start |-> Start(exe[at]), data |-> exe[at].data]
          /\ Sendable(exe[at])
      BY <2>4, PieceIs DEF Download, Base0, PieceOK
    <3>2. toKit' = Append(toKit, DownloadOf(at)) /\ at' = at
      BY <2>4, <3>1 DEF Download, Send, DownloadOf
    <3>3. CASE j < at
      BY <1>2, <3>3 DEF Sent
    <3>4. CASE j = at
      BY <1>2, <3>1, <3>2, <3>4 DEF Ready, CommandOf
    <3> QED
      BY <2>1, <3>2, <3>3, <3>4
  <2>5. CASE DownloadReply
    <3>1. at' = at /\ pc = "check"
      BY <2>5 DEF DownloadReply
    <3> QED
      BY <1>2, <2>1, <3>1 DEF Sent
  <2>6. CASE EndOfSection
    <3>1. at' = at + 1 /\ pc' = "section" /\ pc = "piece" /\ pieces = <<>>
      BY <2>6 DEF EndOfSection
    <3>2. j < at \/ j = at
      BY <1>0, <2>1, <3>1
    <3> QED
      BY <1>2, <3>1, <3>2 DEF Sent
  <2>7. CASE UploadReply
    <3>1. exe = <<>>
      BY <2>7 DEF UploadReply, Sides
    <3>2. DOMAIN exe = 1 .. 0
      BY <3>1
    <3> QED
      BY <3>2
  <2>8. CASE Alive \/ AliveReply \/ Go \/ GoReply \/ Upload \/ RefuseUpload \/ EndUpload
    BY <2>2, <2>8 DEF Alive, AliveReply, Go, GoReply, Upload, RefuseUpload, EndUpload
  <2>9. pc \notin {"autobaud", "control", "block", "ack"}
    BY <1>2 DEF Base0, TypeOK, HostStates
  <2> QED
    BY <1>2, <2>3, <2>4, <2>5, <2>6, <2>7, <2>8, <2>9 DEF Host, Autobaud, AutobaudReply,
       Control, SkipFinal, Block, FinalBlock, EndBoot, AckReply
<1>3. CASE machine = "219X"
  <2>1. \/ j < at' /\ j \notin Finals
        \/ at' > Len(exe) + 1 /\ j = LastIn("PM")
        \/ at' > Len(exe) + 2 /\ j = LastIn("DM")
    BY <1>1, <1>3 DEF Sent
  <2>2. CASE at' = at
    BY <1>3, <2>1, <2>2 DEF Sent
  <2>3. CASE SkipFinal
    <3>1. at' = at + 1 /\ at <= Len(exe) /\ at \in Finals
      BY <2>3 DEF SkipFinal
    <3> QED
      BY <1>0, <1>3, <2>1, <3>1 DEF Sent
  <2>4. ASSUME NEW i, SendBlock(i)
        PROVE  at' = at + 1 /\ toKit' = Append(toKit, BlockOf(i))
    BY <2>4 DEF SendBlock, Send, BlockOf
  <2>5. CASE Block
    <3>1. at <= Len(exe) /\ at' = at + 1 /\ toKit' = Append(toKit, BlockOf(at))
      BY <2>4, <2>5 DEF Block
    <3>2. j = at \/ (j < at /\ j \notin Finals)
      BY <1>0, <2>1, <3>1
    <3> QED
      BY <1>3, <3>1, <3>2 DEF Sent, Ready, CommandOf
  <2>6. CASE FinalBlock
    <3>1. CASE at = Len(exe) + 1 /\ SendBlock(LastIn("PM"))
      <4>1. at' = at + 1 /\ toKit' = Append(toKit, BlockOf(LastIn("PM")))
        BY <2>4, <3>1
      <4>2. j = LastIn("PM") \/ (j < at /\ j \notin Finals)
        BY <1>0, <2>1, <3>1, <4>1
      <4> QED
        BY <1>3, <4>1, <4>2 DEF Sent, Ready, CommandOf
    <3>2. CASE at = Len(exe) + 2 /\ SendBlock(LastIn("DM"))
      <4>1. at' = at + 1 /\ toKit' = Append(toKit, BlockOf(LastIn("DM")))
        BY <2>4, <3>2
      <4>2. \/ j = LastIn("DM") \/ (j < at /\ j \notin Finals)
            \/ at > Len(exe) + 1 /\ j = LastIn("PM")
        BY <1>0, <2>1, <3>2, <4>1
      <4> QED
        BY <1>3, <4>1, <4>2 DEF Sent, Ready, CommandOf
    <3> QED
      BY <2>6, <3>1, <3>2 DEF FinalBlock
  <2>7. CASE Autobaud \/ AutobaudReply \/ Control \/ EndBoot \/ AckReply
    BY <2>2, <2>7 DEF Autobaud, AutobaudReply, Control, EndBoot, AckReply
  <2>8. SkipFinal \/ Block \/ FinalBlock \/ Autobaud \/ AutobaudReply \/ Control \/ EndBoot
          \/ AckReply
    BY <1>3 DEF Host, Alive, AliveReply, NextSection, Download, DownloadReply,
       EndOfSection, Go, GoReply, Upload, RefuseUpload, UploadReply, EndUpload, Base0, TypeOK,
       HostStates
  <2> QED
    BY <2>3, <2>5, <2>6, <2>7, <2>8
<1> QED
  BY <1>0, <1>2, <1>3

LEMMA HostProgress ==
  ASSUME Base0, Sides, Progress, Host
  PROVE  Progress'
<1> SUFFICES ASSUME faults = 0 PROVE Progress'
  <2>1. faults' = faults
    BY HostEffect
  <2> QED
    BY <2>1 DEF Progress
<1>1. /\ UNCHANGED <<kitVars, faults, jobVars>>
      /\ exe' = exe /\ machine' = machine /\ memory' = memory /\ running' = running
      /\ finals' = finals /\ Finals' = Finals /\ \A sp : LastIn(sp)' = LastIn(sp)
  BY HostEffect DEF kitVars, jobVars, Finals, LastIn
<1>2. CASE running
  BY <1>1, <1>2 DEF Progress, Loaded, Contents
<1>3. CASE ~ running
  <2>1. SentOK /\ GoOK /\ FinalOK
    BY <1>3 DEF Progress
  <2>2. \/ toKit' = toKit
        \/ \E c \in Commands :
             /\ toKit' = Append(toKit, c)
             /\ pc \notin {"go", "done"} /\ (machine = "219X" => at <= Len(exe) + 2)
             /\ c.cmd = "GO" => pc' = "go" /\ at' > Len(exe)
             /\ IsLast(c) => at' > Len(exe) + 2
    BY HostSends
  <2>3. /\ toKit \in Seq(Commands) /\ Len(exe) \in Nat /\ at \in Nat
        /\ machine \in {"218X", "219X"} /\ at' \in {at, at + 1}
    BY JobIs, HostEffect DEF Base0, TypeOK
  <2>4. ASSUME NEW j \in DOMAIN exe, Sent(j)'
        PROVE  Ready(j)' /\ (Written(j)' \/ Queued(j)')
    <3>1. /\ Ready(j)' = Ready(j) /\ Written(j)' = Written(j)
          /\ CommandOf(j)' = CommandOf(j)
      BY <1>1 DEF Ready, Written, Count, From, Contents, CommandOf, DownloadOf, BlockOf
    <3>2. Queued(j) => Queued(j)'
      <4>1. CASE toKit' = toKit
        BY <3>1, <4>1 DEF Queued
      <4>2. CASE \E c \in Commands : toKit' = Append(toKit, c)
        <5>1. PICK c \in Commands : toKit' = Append(toKit, c)
          BY <4>2
        <5>2. \A q \in DOMAIN toKit : q \in DOMAIN toKit' /\ toKit'[q] = toKit[q]
          BY <2>3, <5>1, AppendFacts
        <5> QED
          BY <3>1, <5>2 DEF Queued
      <4> QED
        BY <2>2, <4>1, <4>2
    <3>3. CASE Sent(j)
      BY <2>1, <3>1, <3>2, <3>3 DEF SentOK
    <3>4. CASE Ready(j) /\ Written(j)
      BY <3>1, <3>4
    <3>5. CASE Ready(j) /\ toKit' = Append(toKit, CommandOf(j))
      <4>1. /\ Len(toKit) + 1 \in DOMAIN Append(toKit, CommandOf(j))
            /\ Append(toKit, CommandOf(j))[Len(toKit) + 1] = CommandOf(j)
        BY <2>3
      <4> QED
        BY <3>1, <3>5, <4>1 DEF Queued
    <3> QED
      BY <2>4, <3>3, <3>4, <3>5, SentStep
  <2>5. SentOK'
    BY <1>1, <2>4 DEF SentOK
  <2>6. CASE toKit' = toKit
    <3>1. pc \in {"go", "done"} => pc' \in {"go", "done"} /\ at' = at
      BY DEF Host, Alive, AliveReply, NextSection, Download, DownloadReply, EndOfSection, Go,
         GoReply, Upload, RefuseUpload, UploadReply, EndUpload, Autobaud, AutobaudReply, Control,
         SkipFinal, Block, FinalBlock, SendBlock, EndBoot, AckReply
    <3>2. GoOK'
      BY <1>1, <2>1, <2>6, <3>1 DEF GoOK
    <3>3. at > Len(exe) + 2 => at' > Len(exe) + 2
      BY <2>3
    <3>4. FinalOK'
      BY <1>1, <2>1, <2>6, <3>3 DEF FinalOK
    <3> QED
      BY <1>1, <1>3, <2>5, <3>2, <3>4 DEF Progress
  <2>7. ASSUME NEW c \in Commands, toKit' = Append(toKit, c),
               pc \notin {"go", "done"}, machine = "219X" => at <= Len(exe) + 2,
               c.cmd = "GO" => pc' = "go" /\ at' > Len(exe),
               IsLast(c) => at' > Len(exe) + 2
        PROVE  Progress'
    <3>1. /\ Len(toKit) \in Nat /\ DOMAIN toKit = 1 .. Len(toKit)
          /\ Len(toKit') = Len(toKit) + 1 /\ DOMAIN toKit' = 1 .. Len(toKit) + 1
          /\ toKit'[Len(toKit) + 1] = c
          /\ \A q \in DOMAIN toKit : toKit'[q] = toKit[q]
      BY <2>3, <2>7, AppendFacts
    <3>2. \A q \in DOMAIN toKit' : q \in DOMAIN toKit \/ (q = Len(toKit') /\ toKit'[q] = c)
      BY <3>1
    <3>3. \A q \in DOMAIN toKit : toKit[q].cmd # "GO"
      BY <2>1, <2>7 DEF GoOK
    <3>4. GoOK'
      <4>1. ASSUME NEW q \in DOMAIN toKit', toKit'[q].cmd = "GO"
            PROVE  q = Len(toKit') /\ pc' \in {"go", "done"} /\ at' > Len(exe')
        BY <1>1, <2>7, <3>1, <3>2, <3>3, <4>1
      <4> QED
        BY <4>1 DEF GoOK
    <3>5. machine = "219X" =>
            "DM" \notin finals /\ \A q \in DOMAIN toKit : ~ IsLast(toKit[q])
      BY <2>1, <2>3, <2>7 DEF FinalOK
    <3>6. FinalOK'
      <4>1. ASSUME machine = "219X", NEW q \in DOMAIN toKit', IsLast(toKit'[q])
            PROVE  q = Len(toKit') /\ at' > Len(exe') + 2
        BY <1>1, <2>7, <3>1, <3>2, <3>5, <4>1
      <4> QED
        BY <1>1, <3>5, <4>1 DEF FinalOK
    <3> QED
      BY <1>1, <1>3, <2>5, <3>4, <3>6 DEF Progress
  <2> QED
    BY <2>2, <2>6, <2>7
<1> QED
  BY <1>2, <1>3

LEMMA ProgressStep ==
  ASSUME Base0, Sides, Progress, [Next]_vars
  PROVE  Progress'
<1>1. CASE Host
  BY <1>1, HostProgress
<1>2. CASE Kit
  BY <1>2, KitProgress
<1>3. CASE Line
  <2>1. faults' = faults + 1 /\ faults \in Nat
    BY <1>3, LineEffect DEF Base0, TypeOK
  <2> QED
    BY <2>1 DEF Progress
<1>4. CASE Stopped \/ UNCHANGED vars
  <2>1. UNCHANGED <<jobVars, hostVars, lineVars, kitVars>>
    BY <1>4 DEF Stopped, vars
  <2>2. /\ SentOK' = SentOK /\ GoOK' = GoOK /\ FinalOK' = FinalOK /\ Loaded' = Loaded
    BY <2>1 DEF SentOK, GoOK, FinalOK, Loaded, Sent, Ready, Written, Queued, Count, From,
       Contents, CommandOf, DownloadOf, BlockOf, Finals, LastIn, IsLast, jobVars, hostVars,
       lineVars, kitVars
  <2> QED
    BY <2>1, <2>2 DEF Progress, lineVars, kitVars
<1> QED
  BY <1>1, <1>2, <1>3, <1>4 DEF Next

\* A program that was started without a fault of the line finds all its sections,
\* at whatever time the kit answered: for every executable and image whose vectors
\* have a section of their own (download_go, ez21.c:668-674, boot_219X,
\* ez21.c:597-632).
THEOREM Runs == Spec => []RunsTheProgram
<1> DEFINE Inv == Meant => Base0 /\ Sides /\ Progress
<1>1. Init => Inv
  <2> SUFFICES ASSUME Init, Meant PROVE Base0 /\ Sides /\ Progress
    OBVIOUS
  <2>1. Base0
    BY Base0Init
  <2>2. Sides
    BY DEF Init, Sides
  <2>3. DOMAIN toKit = {} /\ at = 1 /\ pc = "start" /\ ~ running /\ finals = {}
    BY DEF Init
  <2>4. SentOK
    <3>1. ASSUME NEW j \in DOMAIN exe PROVE ~ Sent(j)
      <4>1. j \in 1 .. Len(exe) /\ Len(exe) \in Nat
        BY <2>1, JobIs DEF Base0, TypeOK
      <4> QED
        BY <2>3, <4>1 DEF Sent
    <3> QED
      BY <3>1 DEF SentOK
  <2>5. GoOK /\ FinalOK
    BY <2>3 DEF GoOK, FinalOK
  <2> QED
    BY <2>1, <2>2, <2>3, <2>4, <2>5 DEF Progress
<1>2. Inv /\ [Next]_vars => Inv'
  <2> SUFFICES ASSUME Inv, [Next]_vars, Meant' PROVE (Base0 /\ Sides /\ Progress)'
    OBVIOUS
  <2>1. UNCHANGED jobVars
    BY JobStays
  <2>2. Meant
    BY <2>1 DEF Meant, jobVars
  <2>3. Base0 /\ Sides /\ Progress
    BY <2>2
  <2> QED
    BY <2>3, Base0Step, SidesStep, ProgressStep
<1>3. Inv => RunsTheProgram
  BY DEF Progress, RunsTheProgram, Meant
<1> QED
  BY <1>1, <1>2, <1>3, PTL DEF Spec

----------------------------------------------------------------------------
(* What a check sum tells of an upload.  A byte that is another one changes *)
(* the sum of the words by less than Base times what the byte counts for,   *)
(* which is no multiple of what the check sum leaves out.                   *)

\* A set of numbers has a least one.
LEMMA Least ==
  ASSUME NEW T, T \subseteq Nat, T # {}
  PROVE  \E x \in T : \A y \in T : x <= y
<1> DEFINE R == OpToRel(<, Nat)
<1>1. IsWellFoundedOn(R, Nat)
  BY NatLessThanWellFounded
<1>2. \A x, y \in Nat : <<y, x>> \in R <=> y < x
  BY DEF OpToRel
<1> HIDE DEF R
<1>3. PICK x \in T : \A y \in T : ~ (<<y, x>> \in R)
  BY <1>1, WFMin
<1>4. ASSUME NEW y \in T PROVE x <= y
  <2>1. x \in Nat /\ y \in Nat /\ ~ (<<y, x>> \in R)
    BY <1>3
  <2> QED
    BY <1>2, <2>1
<1> QED
  BY <1>4

\* f is computed step by step: each value from the one before it.
Steps(f, m, a, step) == f[0] = a /\ \A i \in 1 .. m : f[i] = step[<<i, f[i - 1]>>]

\* There is such a function.
LEMMA StepByStep ==
  ASSUME NEW m \in Nat, NEW V, NEW a \in V, NEW step, step \in [(1 .. m) \X V -> V]
  PROVE  \E f \in [0 .. m -> V] : Steps(f, m, a, step)
<1> DEFINE Is(f, k) == \A i \in 0 .. k : f[i] = IF i = 0 THEN a ELSE step[<<i, f[i - 1]>>]
           Has(k) == \E f \in [0 .. k -> V] : Is(f, k)
           T == {k \in 0 .. m : ~ Has(k)}
<1>1. ASSUME T # {} PROVE FALSE
  <2>1. PICK x \in T : \A y \in T : x <= y
    <3>1. T \subseteq Nat
      OBVIOUS
    <3> HIDE DEF T
    <3> QED
      BY <1>1, <3>1, Least
  <2>2. x # 0
    <3>1. Is([i \in 0 .. 0 |-> a], 0)
      OBVIOUS
    <3>2. [i \in 0 .. 0 |-> a] \in [0 .. 0 -> V]
      OBVIOUS
    <3>3. Has(0)
      <4> HIDE DEF Is
      <4> QED
        BY <3>1, <3>2
    <3> HIDE DEF Has
    <3> QED
      BY <2>1, <3>3
  <2>3. x - 1 \in 0 .. m /\ x - 1 \notin T /\ x \in 1 .. m
    <3>1. x \in 0 .. m
      BY <2>1
    <3>2. x - 1 \in 0 .. m /\ x \in 1 .. m /\ ~ (x <= x - 1)
      BY <2>2, <3>1
    <3> HIDE DEF T
    <3> QED
      BY <2>1, <3>2
  <2>4. Has(x - 1)
    <3> HIDE DEF Has
    <3> QED
      BY <2>3
  <2>5. PICK f \in [0 .. x - 1 -> V] : Is(f, x - 1)
    BY <2>4
  <2> DEFINE g == [i \in 0 .. x |-> IF i < x THEN f[i] ELSE step[<<x, f[x - 1]>>]]
  <2>6. f[x - 1] \in V /\ step[<<x, f[x - 1]>>] \in V
    <3>1. f[x - 1] \in V
      BY <2>3, <2>5
    <3>2. <<x, f[x - 1]>> \in (1 .. m) \X V
      BY <2>3, <3>1
    <3> QED
      BY <3>1, <3>2
  <2>7. g \in [0 .. x -> V]
    <3>1. \A i \in 0 .. x : i < x => i \in 0 .. x - 1
      BY <2>3
    <3>2. \A i \in 0 .. x : g[i] \in V
      BY <2>6, <3>1
    <3> QED
      BY <3>2
  <2>8. ASSUME NEW i \in 0 .. x PROVE g[i] = IF i = 0 THEN a ELSE step[<<i, g[i - 1]>>]
    <3>1. CASE i < x
      <4>1. i \in 0 .. x - 1 /\ g[i] = f[i]
        BY <2>3, <3>1
      <4>2. i # 0 => g[i - 1] = f[i - 1]
        BY <2>3, <3>1
      <4>3. f[i] = IF i = 0 THEN a ELSE step[<<i, f[i - 1]>>]
        BY <2>5, <4>1
      <4> HIDE DEF g
      <4> QED
        BY <4>1, <4>2, <4>3
    <3>2. CASE i = x
      <4>1. g[x] = step[<<x, f[x - 1]>>] /\ g[x - 1] = f[x - 1] /\ x # 0
        BY <2>3
      <4> HIDE DEF g
      <4> QED
        BY <3>2, <4>1
    <3> QED
      BY <2>3, <3>1, <3>2
  <2>9. Has(x)
    <3>1. Is(g, x)
      BY <2>8
    <3> HIDE DEF Is, g
    <3> QED
      BY <2>7, <3>1
  <2> HIDE DEF Has
  <2> QED
    BY <2>1, <2>9
<1>2. Has(m)
  <2> HIDE DEF Has
  <2> QED
    BY <1>1
<1>3. PICK f \in [0 .. m -> V] : Is(f, m)
  BY <1>2
<1>4. Steps(f, m, a, step)
  <2>1. 0 \in 0 .. m /\ \A i \in 1 .. m : i \in 0 .. m /\ i # 0
    OBVIOUS
  <2>2. \A i \in 0 .. m : f[i] = IF i = 0 THEN a ELSE step[<<i, f[i - 1]>>]
    BY <1>3
  <2> QED
    BY <2>1, <2>2 DEF Steps
<1> QED
  BY <1>4

----------------------------------------------------------------------------
(* Numbers of two and three bytes.                                         *)

LEMMA ValuesAre ==
  /\ Values(0) = 1 /\ Values(1) = Base /\ Values(2) = Base * Base
  /\ Values(3) = Base * Base * Base
BY DEF Values

LEMMA Positive ==
  ASSUME NEW b \in Nat \ {0, 1}
  PROVE  b * b \in Nat /\ b * b >= b /\ b * b * b \in Nat /\ b * b * b >= b * b /\ b >= 2
<1>1. \A c \in Nat \ {0, 1} : \A d \in Nat : c * d \in Nat /\ c * d >= d
  <2>1. ASSUME NEW c \in Nat \ {0, 1}, NEW d \in Nat PROVE c * d \in Nat /\ c * d >= d
    <3>1. (c - 1) * d \in Nat
      OBVIOUS
    <3>2. c * d = (c - 1) * d + d
      OBVIOUS
    <3> QED
      BY <3>1, <3>2
  <2> QED
    BY <2>1
<1>2. b * b \in Nat /\ b * b >= b
  BY <1>1
<1>3. (b * b) * b = b * (b * b)
  BY <1>2
<1>4. b * (b * b) \in Nat /\ b * (b * b) >= b * b
  BY <1>1, <1>2
<1> QED
  BY <1>2, <1>3, <1>4

LEMMA Division ==
  ASSUME NEW c \in Int, NEW b \in Nat \ {0}
  PROVE  c \div b \in Int /\ c % b \in 0 .. b - 1 /\ c = b * (c \div b) + (c % b)
OBVIOUS

\* A multiple of b that is less than b from 0 is 0.
LEMMA SmallMultiple ==
  ASSUME NEW b \in Nat \ {0}, NEW k \in Int, b * k < b, b * k > - b
  PROVE  k = 0
<1>1. CASE k >= 1
  <2>1. b * (k - 1) \in Nat
    BY <1>1
  <2>2. b * k = b * (k - 1) + b
    OBVIOUS
  <2> QED
    BY <2>1, <2>2
<1>2. CASE k <= -1
  <2>1. b * (- k - 1) \in Nat
    BY <1>2
  <2>2. b * k = - (b * (- k - 1)) - b
    OBVIOUS
  <2> QED
    BY <2>1, <2>2
<1> QED
  BY <1>1, <1>2

\* A quotient and a remainder say which number was divided.
LEMMA Divided ==
  ASSUME NEW b \in Nat \ {0}, NEW q \in Int, NEW r \in 0 .. b - 1
  PROVE  (b * q + r) \div b = q /\ (b * q + r) % b = r
<1> DEFINE c == b * q + r
           p == c \div b
           s == c % b
<1>1. c \in Int
  OBVIOUS
<1>2. p \in Int /\ s \in 0 .. b - 1 /\ c = b * p + s
  <2> HIDE DEF c
  <2> QED
    BY <1>1, Division
<1>3. b * (q - p) = s - r /\ q - p \in Int
  BY <1>2
<1>4. q - p = 0
  BY <1>2, <1>3, SmallMultiple
<1> QED
  BY <1>2, <1>3, <1>4

LEMMA RestOfSmall ==
  ASSUME NEW b \in Nat \ {0}, NEW r \in 0 .. b - 1
  PROVE  r % b = r
<1>1. 0 \in Int /\ b * 0 + r = r
  OBVIOUS
<1>2. (b * 0 + r) % b = r
  BY <1>1, Divided, Zenon
<1> QED
  BY <1>1, <1>2

\* The bytes in a word of either memory.
Sizes == {2, 3}

LEMMA SizesAre == \A n \in Sizes : n \in Nat /\ (n = 2 \/ n = 3)
BY DEF Sizes

\* The word of the two or three bytes after the first o, high byte first.
Joined(bytes, o, n) ==
  IF n = 2 THEN Base * bytes[o + 1] + bytes[o + 2]
  ELSE Base * (Base * bytes[o + 1] + bytes[o + 2]) + bytes[o + 3]

LEMMA WordAtIs ==
  ASSUME NEW bytes, NEW i \in Nat, NEW n \in Sizes, \A k \in 1 .. n : bytes[i + k] \in Int
  PROVE  WordAt(bytes, i, n) = Joined(bytes, i, n)
<1> DEFINE P(v) == v = [k \in 0 .. n |-> IF k = 0 THEN 0 ELSE Base * v[k - 1] + bytes[i + k]]
           step == [p \in (1 .. n) \X Int |-> Base * p[2] + bytes[i + p[1]]]
           w == CHOOSE v : P(v)
<1>1. Base \in Nat
  BY KitAssumption
<1>2. step \in [(1 .. n) \X Int -> Int]
  <2>1. \A p \in (1 .. n) \X Int : Base * p[2] + bytes[i + p[1]] \in Int
    <3>1. ASSUME NEW p \in (1 .. n) \X Int PROVE Base * p[2] + bytes[i + p[1]] \in Int
      <4>1. p[1] \in 1 .. n /\ p[2] \in Int
        OBVIOUS
      <4>2. bytes[i + p[1]] \in Int
        BY <4>1
      <4> QED
        BY <1>1, <4>1, <4>2
    <3> QED
      BY <3>1
  <2> QED
    BY <2>1
<1>3. PICK f \in [0 .. n -> Int] : Steps(f, n, 0, step)
  <2>1. n \in Nat /\ 0 \in Int
    BY DEF Sizes
  <2> HIDE DEF step
  <2> QED
    BY <1>2, <2>1, StepByStep
<1>4. P(f)
  <2>1. ASSUME NEW k \in 0 .. n, k # 0 PROVE step[<<k, f[k - 1]>>] = Base * f[k - 1] + bytes[i + k]
    <3>1. <<k, f[k - 1]>> \in (1 .. n) \X Int
      BY <2>1 DEF Sizes
    <3> QED
      BY <3>1
  <2>2. f = [k \in 0 .. n |-> f[k]]
    OBVIOUS
  <2>3. ASSUME NEW k \in 0 .. n
        PROVE  f[k] = IF k = 0 THEN 0 ELSE Base * f[k - 1] + bytes[i + k]
    <3>1. k # 0 => k \in 1 .. n
      OBVIOUS
    <3> HIDE DEF step
    <3> QED
      BY <1>3, <2>1, <3>1 DEF Steps
  <2> QED
    BY <2>2, <2>3
<1>5. P(w)
  <2> HIDE DEF P
  <2> QED
    BY <1>4
<1>6. WordAt(bytes, i, n) = w[n]
  BY DEF WordAt
<1> HIDE DEF w
<1>7. w[0] = 0 /\ w[1] = Base * w[0] + bytes[i + 1] /\ w[2] = Base * w[1] + bytes[i + 2]
  BY <1>5 DEF Sizes
<1>8. n = 3 => w[3] = Base * w[2] + bytes[i + 3]
  BY <1>5
<1>9. w[1] = bytes[i + 1] /\ bytes[i + 1] \in Int
  BY <1>1, <1>7 DEF Sizes
<1> QED
  BY <1>6, <1>7, <1>8, <1>9 DEF Joined, Sizes

\* f are the sums of the first m words of v.
Sums(f, m, v) == f[0] = 0 /\ \A i \in 1 .. m : f[i] = f[i - 1] + v[i]

\* A check sum is a sum of words.
LEMMA SumIs ==
  ASSUME NEW bytes, NEW n, NEW count \in Nat, WordCount(bytes, n) = count,
         \A i \in 1 .. count : Words(bytes, n)[i] \in Int
  PROVE  \E f \in [0 .. count -> Int] :
           Sums(f, count, Words(bytes, n)) /\ check_sum(bytes, n) = f[count] % Values(n)
<1> DEFINE m == WordCount(bytes, n)
           word == Words(bytes, n)
           P(v) == v = [i \in 0 .. m |-> IF i = 0 THEN 0 ELSE v[i - 1] + word[i]]
           step == [p \in (1 .. m) \X Int |-> p[2] + word[p[1]]]
           w == CHOOSE v : P(v)
<1>1. check_sum(bytes, n) = w[m] % Values(n)
  BY DEF check_sum
<1> HIDE DEF m, word
<1>2. m \in Nat /\ \A i \in 1 .. m : word[i] \in Int
  BY DEF m, word
<1>3. step \in [(1 .. m) \X Int -> Int]
  <2>1. ASSUME NEW p \in (1 .. m) \X Int PROVE p[2] + word[p[1]] \in Int
    <3>1. p[1] \in 1 .. m /\ p[2] \in Int
      OBVIOUS
    <3> QED
      BY <1>2, <3>1
  <2> QED
    BY <2>1
<1>4. PICK f \in [0 .. m -> Int] : Steps(f, m, 0, step)
  <2>1. m \in Nat /\ 0 \in Int
    BY <1>2
  <2> HIDE DEF step
  <2> QED
    BY <1>3, <2>1, StepByStep
<1>5. P(f)
  <2>1. ASSUME NEW k \in 0 .. m, k # 0 PROVE step[<<k, f[k - 1]>>] = f[k - 1] + word[k]
    <3>1. <<k, f[k - 1]>> \in (1 .. m) \X Int
      BY <1>2, <2>1
    <3> QED
      BY <3>1
  <2>2. f = [k \in 0 .. m |-> f[k]]
    OBVIOUS
  <2>3. ASSUME NEW k \in 0 .. m
        PROVE  f[k] = IF k = 0 THEN 0 ELSE f[k - 1] + word[k]
    <3>1. k # 0 => k \in 1 .. m
      OBVIOUS
    <3> HIDE DEF step
    <3> QED
      BY <1>4, <2>1, <3>1 DEF Steps
  <2> QED
    BY <2>2, <2>3
<1>6. P(w)
  <2> HIDE DEF P
  <2> QED
    BY <1>5
<1> HIDE DEF w
<1>7. w[0] = 0 /\ \A i \in 1 .. m : w[i] = w[i - 1] + word[i]
  BY <1>2, <1>6
<1> DEFINE T == {k \in 0 .. m : w[k] \notin Int}
<1>8. T = {}
  <2> SUFFICES ASSUME T # {} PROVE FALSE
    OBVIOUS
  <2>1. T \subseteq Nat
    BY <1>2
  <2>2. PICK x \in T : \A y \in T : x <= y
    <3> HIDE DEF T
    <3> QED
      BY <2>1, Least
  <2>3. x \in 1 .. m
    BY <1>2, <1>7, <2>2
  <2>4. x - 1 \in 0 .. m /\ x - 1 \notin T
    <3>1. x - 1 \in 0 .. m /\ ~ (x <= x - 1)
      BY <1>2, <2>3
    <3> HIDE DEF T
    <3> QED
      BY <2>2, <3>1
  <2>5. w[x - 1] \in Int
    BY <2>4
  <2>6. w[x] = w[x - 1] + word[x] /\ word[x] \in Int
    BY <1>2, <1>7, <2>3
  <2>7. w[x] \in Int
    BY <2>5, <2>6
  <2> QED
    BY <2>2, <2>7
<1>9. w \in [0 .. m -> Int]
  <2>1. w = [i \in 0 .. m |-> w[i]]
    BY <1>6
  <2>2. \A i \in 0 .. m : w[i] \in Int
    BY <1>8
  <2> QED
    BY <2>1, <2>2
<1>10. m = count
  BY DEF m
<1>11. Sums(w, m, word)
  BY <1>7 DEF Sums
<1> QED
  BY <1>1, <1>9, <1>10, <1>11 DEF word

\* Sums of words that differ in one place differ by as much.
LEMMA OneDiffers ==
  ASSUME NEW m \in Nat, NEW v, NEW w, NEW q \in 1 .. m,
         NEW f \in [0 .. m -> Int], NEW g \in [0 .. m -> Int],
         Sums(f, m, v), Sums(g, m, w),
         \A i \in 1 .. m : v[i] \in Int /\ w[i] \in Int,
         \A i \in 1 .. m : i # q => v[i] = w[i]
  PROVE  f[m] - g[m] = v[q] - w[q]
<1> DEFINE By(k) == IF k < q THEN 0 ELSE v[q] - w[q]
           T == {k \in 0 .. m : f[k] - g[k] # By(k)}
<1>0. \A a, b, c, d \in Int : (a + c) - (b + d) = (a - b) + (c - d) /\ a - a = 0
  OBVIOUS
<1>1. T = {}
  <2> SUFFICES ASSUME T # {} PROVE FALSE
    OBVIOUS
  <2>1. T \subseteq Nat
    OBVIOUS
  <2>2. PICK x \in T : \A y \in T : x <= y
    <3> HIDE DEF T
    <3> QED
      BY <2>1, Least
  <2>3. x \in 1 .. m
    <3>1. 0 < q /\ f[0] = 0 /\ g[0] = 0
      BY DEF Sums
    <3> QED
      BY <2>2, <3>1
  <2>4. x - 1 \in 0 .. m /\ x - 1 \notin T
    <3>1. x - 1 \in 0 .. m /\ ~ (x <= x - 1)
      <4> HIDE DEF T
      <4> QED
        BY <2>3
    <3> HIDE DEF T
    <3> QED
      BY <2>2, <3>1
  <2>5. f[x - 1] - g[x - 1] = By(x - 1)
    BY <2>4
  <2>6. f[x] - g[x] # By(x)
    BY <2>2
  <2>7. /\ f[x] = f[x - 1] + v[x] /\ g[x] = g[x - 1] + w[x] /\ v[x] \in Int /\ w[x] \in Int
        /\ f[x - 1] \in Int /\ g[x - 1] \in Int
    BY <2>3, <2>4 DEF Sums
  <2>11. f[x] - g[x] = By(x - 1) + (v[x] - w[x]) /\ v[x] - w[x] \in Int
         /\ (v[x] = w[x] => v[x] - w[x] = 0)
    <3> HIDE DEF By, T
    <3>1. f[x] - g[x] = (f[x - 1] - g[x - 1]) + (v[x] - w[x])
      BY <1>0, <2>7
    <3> QED
      BY <1>0, <2>5, <2>7, <3>1
  <2>8. CASE x < q
    <3>1. By(x - 1) = 0 /\ By(x) = 0 /\ v[x] = w[x]
      BY <2>3, <2>8
    <3> HIDE DEF By, T
    <3> QED
      BY <2>6, <2>7, <2>11, <3>1
  <2>9. CASE x = q
    <3>1. By(x - 1) = 0 /\ By(x) = v[x] - w[x]
      BY <2>3, <2>9
    <3> HIDE DEF By, T
    <3> QED
      BY <2>6, <2>7, <2>11, <3>1
  <2>10. CASE x > q
    <3>2. x # q /\ ~ (x < q) /\ ~ (x - 1 < q)
      BY <2>3, <2>10
    <3>3. v[q] - w[q] \in Int
      OBVIOUS
    <3>1. v[x] = w[x] /\ By(x) = By(x - 1) /\ By(x - 1) \in Int
      <4> HIDE DEF T
      <4> QED
        BY <2>3, <3>2, <3>3
    <3> HIDE DEF By, T
    <3> QED
      BY <2>6, <2>7, <2>11, <3>1
  <2> QED
    BY <2>3, <2>8, <2>9, <2>10
<1>2. m \in 0 .. m /\ m \notin T
  <2>1. m \in 0 .. m
    OBVIOUS
  <2> HIDE DEF T
  <2> QED
    BY <1>1, <2>1
<1>3. f[m] - g[m] = By(m)
  <2> HIDE DEF By
  <2> QED
    BY <1>2
<1>4. ~ (m < q)
  OBVIOUS
<1> QED
  BY <1>3, <1>4

\* A product that is a multiple of a greater one.
LEMMA SmallProduct ==
  ASSUME NEW b \in Nat \ {0}, NEW p \in Nat \ {0}, NEW r \in Nat, r >= b,
         NEW d \in Int, d < b, d > - b, NEW k \in Int, d * p = (p * r) * k
  PROVE  d = 0
<1>1. r * k \in Int /\ p * (d - r * k) = 0
  BY SMTT(30)
<1>2. d - r * k = 0
  <2> DEFINE z == d - r * k
  <2>1. z \in Int /\ p * z = 0
    BY <1>1
  <2> HIDE DEF z
  <2>2. z = 0
    BY <2>1
  <2> QED
    BY <2>2 DEF z
<1>3. r * k < r /\ r * k > - r
  BY <1>1, <1>2
<1>4. k = 0
  BY <1>3, SmallMultiple
<1> QED
  BY <1>2, <1>4

\* The words of whole bytes.
LEMMA WordIs ==
  ASSUME NEW bytes \in Seq(Byte), NEW n \in Sizes, NEW m \in Nat, Len(bytes) = m * n,
         NEW i \in 1 .. m, NEW o, o = (i - 1) * n
  PROVE  /\ \A k \in 1 .. n : o + k \in 1 .. m * n /\ bytes[o + k] \in Byte
         /\ o \in Nat /\ Words(bytes, n)[i] \in Int
         /\ Words(bytes, n)[i] = Joined(bytes, o, n)
<1>1. o \in Nat /\ \A k \in 1 .. n : o + k \in 1 .. m * n
  <2>1. CASE n = 2
    BY <2>1
  <2>2. CASE n = 3
    BY <2>2
  <2> QED
    BY <2>1, <2>2 DEF Sizes
<1>2. \A k \in 1 .. n : bytes[o + k] \in Byte
  BY <1>1
<1>3. \A k \in 1 .. n : bytes[o + k] \in Int
  <2>1. Byte \subseteq Int
    BY DEF Byte
  <2> QED
    BY <1>2, <2>1
<1>4. WordCount(bytes, n) = m
  BY Quotient DEF WordCount, Sizes
<1>5. Words(bytes, n)[i] = WordAt(bytes, o, n)
  BY <1>4 DEF Words
<1>6. WordAt(bytes, o, n) = Joined(bytes, o, n)
  BY <1>1, <1>3, WordAtIs
<1>7. Base \in Int
  BY KitAssumption
<1>8. WordAt(bytes, o, n) \in Int
  <2>1. bytes[o + 1] \in Int /\ bytes[o + 2] \in Int /\ (n = 3 => bytes[o + 3] \in Int)
    BY <1>3 DEF Sizes
  <2>2. n = 2 \/ n = 3
    BY DEF Sizes
  <2> QED
    BY <1>6, <1>7, <2>1, <2>2 DEF Joined, Sizes
<1> QED
  BY <1>1, <1>2, <1>5, <1>6, <1>8

LEMMA WordsJoined ==
  ASSUME NEW bytes \in Seq(Byte), NEW n \in Sizes, NEW m \in Nat, Len(bytes) = m * n,
         NEW i \in 1 .. m, NEW o, o = (i - 1) * n
  PROVE  Words(bytes, n)[i] = Joined(bytes, o, n) /\ \A k \in 1 .. n : o + k \in 1 .. m * n
<1>1. Words(bytes, n)[i] = Joined(bytes, o, n)
  BY WordIs, SMT
<1>2. \A k \in 1 .. n : o + k \in 1 .. m * n
  BY WordIs, Zenon
<1> QED
  BY <1>1, <1>2

\* What is added to a byte of a word is added to the word as often as its place says.
LEMMA ByteAdded ==
  ASSUME NEW b \in Int, NEW x \in Int, NEW y \in Int, NEW z \in Int, NEW d \in Int
  PROVE  /\ (b * (x + d) + y) - (b * x + y) = d * b
         /\ (b * x + (y + d)) - (b * x + y) = d * 1
         /\ (b * (b * (x + d) + y) + z) - (b * (b * x + y) + z) = d * (b * b)
         /\ (b * (b * x + (y + d)) + z) - (b * (b * x + y) + z) = d * b
         /\ (b * (b * x + y) + (z + d)) - (b * (b * x + y) + z) = d * 1
OBVIOUS

\* Two words differ in the byte after r others, by d.
Differ(f, g, o, n, r, d) ==
  /\ n \in Sizes /\ o \in Int /\ r \in 0 .. n - 1 /\ d \in Int
  /\ \A k \in 1 .. n : f[o + k] \in Int
  /\ g[o + (r + 1)] = f[o + (r + 1)] + d
  /\ \A k \in 1 .. n : k # r + 1 => g[o + k] = f[o + k]

\* A byte of a word that is changed.
LEMMA JoinedChanged ==
  ASSUME NEW f, NEW g, NEW o, NEW n, NEW r, NEW d, Differ(f, g, o, n, r, d)
  PROVE  Joined(g, o, n) - Joined(f, o, n) = d * Values(n - 1 - r)
<1> USE DEF Differ
<1>1. Base \in Int /\ d \in Int
  BY KitAssumption
<1>2. CASE n = 2
  <2>1. f[o + 1] \in Int /\ f[o + 2] \in Int
    BY <1>2
  <2>2. CASE r = 0
    <3>1. Values(n - 1 - r) = Base
      BY <1>2, <2>2, ValuesAre
    <3>2. g[o + 1] = f[o + 1] + d /\ g[o + 2] = f[o + 2]
      BY <1>2, <2>2
    <3>3. /\ Joined(f, o, n) = Base * f[o + 1] + f[o + 2]
          /\ Joined(g, o, n) = Base * (f[o + 1] + d) + f[o + 2]
      BY <1>2, <3>2 DEF Joined
    <3>4. (Base * (f[o + 1] + d) + f[o + 2]) - (Base * f[o + 1] + f[o + 2]) = d * Base
      BY <1>1, <2>1, ByteAdded
    <3> QED
      BY <3>1, <3>3, <3>4, Zenon
  <2>3. CASE r = 1
    <3>1. Values(n - 1 - r) = 1
      BY <1>2, <2>3, ValuesAre
    <3>2. g[o + 1] = f[o + 1] /\ g[o + 2] = f[o + 2] + d
      BY <1>2, <2>3
    <3>3. /\ Joined(f, o, n) = Base * f[o + 1] + f[o + 2]
          /\ Joined(g, o, n) = Base * f[o + 1] + (f[o + 2] + d)
      BY <1>2, <3>2 DEF Joined
    <3>4. (Base * f[o + 1] + (f[o + 2] + d)) - (Base * f[o + 1] + f[o + 2]) = d * 1
      BY <1>1, <2>1, ByteAdded
    <3> QED
      BY <3>1, <3>3, <3>4, Zenon
  <2> QED
    BY <1>2, <2>2, <2>3
<1>3. CASE n = 3
  <2>1. f[o + 1] \in Int /\ f[o + 2] \in Int /\ f[o + 3] \in Int
    BY <1>3
  <2>2. CASE r = 0
    <3>1. Values(n - 1 - r) = Base * Base
      BY <1>3, <2>2, ValuesAre
    <3>2. g[o + 1] = f[o + 1] + d /\ g[o + 2] = f[o + 2] /\ g[o + 3] = f[o + 3]
      BY <1>3, <2>2
    <3>3. /\ Joined(f, o, n) = Base * (Base * f[o + 1] + f[o + 2]) + f[o + 3]
          /\ Joined(g, o, n) = Base * (Base * (f[o + 1] + d) + f[o + 2]) + f[o + 3]
      BY <1>3, <3>2 DEF Joined
    <3>4. (Base * (Base * (f[o + 1] + d) + f[o + 2]) + f[o + 3])
            - (Base * (Base * f[o + 1] + f[o + 2]) + f[o + 3]) = d * (Base * Base)
      BY <1>1, <2>1, ByteAdded
    <3> QED
      BY <3>1, <3>3, <3>4, Zenon
  <2>3. CASE r = 1
    <3>1. Values(n - 1 - r) = Base
      BY <1>3, <2>3, ValuesAre
    <3>2. g[o + 1] = f[o + 1] /\ g[o + 2] = f[o + 2] + d /\ g[o + 3] = f[o + 3]
      BY <1>3, <2>3
    <3>3. /\ Joined(f, o, n) = Base * (Base * f[o + 1] + f[o + 2]) + f[o + 3]
          /\ Joined(g, o, n) = Base * (Base * f[o + 1] + (f[o + 2] + d)) + f[o + 3]
      BY <1>3, <3>2 DEF Joined
    <3>4. (Base * (Base * f[o + 1] + (f[o + 2] + d)) + f[o + 3])
            - (Base * (Base * f[o + 1] + f[o + 2]) + f[o + 3]) = d * Base
      BY <1>1, <2>1, ByteAdded
    <3> QED
      BY <3>1, <3>3, <3>4, Zenon
  <2>4. CASE r = 2
    <3>1. Values(n - 1 - r) = 1
      BY <1>3, <2>4, ValuesAre
    <3>2. g[o + 1] = f[o + 1] /\ g[o + 2] = f[o + 2] /\ g[o + 3] = f[o + 3] + d
      BY <1>3, <2>4
    <3>3. /\ Joined(f, o, n) = Base * (Base * f[o + 1] + f[o + 2]) + f[o + 3]
          /\ Joined(g, o, n) = Base * (Base * f[o + 1] + f[o + 2]) + (f[o + 3] + d)
      BY <1>3, <3>2 DEF Joined
    <3>4. (Base * (Base * f[o + 1] + f[o + 2]) + (f[o + 3] + d))
            - (Base * (Base * f[o + 1] + f[o + 2]) + f[o + 3]) = d * 1
      BY <1>1, <2>1, ByteAdded
    <3> QED
      BY <3>1, <3>3, <3>4, Zenon
  <2> QED
    BY <1>3, <2>2, <2>3, <2>4
<1> QED
  BY <1>2, <1>3 DEF Sizes

\* The word is at least Base times what a byte of it counts for.
LEMMA PlaceIs ==
  ASSUME NEW n \in Sizes, NEW r \in 0 .. n - 1
  PROVE  \E s \in Nat : /\ s >= Base /\ Values(n) = Values(n - 1 - r) * s
                        /\ Values(n - 1 - r) \in Nat \ {0}
<1> DEFINE V == Values(n)
           p == Values(n - 1 - r)
<1>9. Base \in Nat \ {0, 1} /\ Base * Base \in Nat /\ Base * Base >= Base
      /\ Base * Base * Base \in Nat /\ Base * Base * Base >= Base * Base
  BY KitAssumption, Positive
<1>1. n - 1 - r \in {0, 1, 2} /\ (n = 2 => n - 1 - r # 2)
  BY DEF Sizes
<1>2. \/ p = 1 /\ V = Base * Base
      \/ p = 1 /\ V = Base * Base * Base
      \/ p = Base /\ V = Base * Base
      \/ p = Base /\ V = Base * Base * Base
      \/ p = Base * Base /\ V = Base * Base * Base
  <2>1. n = 2 \/ n = 3
    BY DEF Sizes
  <2>2. V = IF n = 2 THEN Base * Base ELSE Base * Base * Base
    BY <2>1, ValuesAre
  <2>3. \/ n - 1 - r = 0 /\ p = 1
        \/ n - 1 - r = 1 /\ p = Base
        \/ n - 1 - r = 2 /\ p = Base * Base
    BY <1>1, ValuesAre
  <2> HIDE DEF V, p
  <2> QED
    BY <1>1, <2>1, <2>2, <2>3
<1>3. \A c \in Int : c = 1 * c /\ Base * Base * c = Base * (Base * c)
  BY <1>9
<1> HIDE DEF V, p
<1> DEFINE B2 == Base * Base
           B3 == Base * Base * Base
<1>4. /\ Base \in Nat \ {0, 1} /\ B2 \in Nat /\ B2 >= Base /\ B3 \in Nat /\ B3 >= B2
      /\ B2 = Base * Base /\ B3 = Base * B2 /\ B3 = B2 * Base
      /\ B2 = 1 * B2 /\ B3 = 1 * B3
  BY <1>9, <1>3
<1>5. \/ p = 1 /\ V = B2
      \/ p = 1 /\ V = B3
      \/ p = Base /\ V = B2
      \/ p = Base /\ V = B3
      \/ p = B2 /\ V = B3
  BY <1>2
<1> HIDE DEF B2, B3
<1>6. \/ p = 1 /\ V = p * B2
      \/ p = 1 /\ V = p * B3
      \/ p = Base /\ V = p * Base
      \/ p = Base /\ V = p * B2
      \/ p = B2 /\ V = p * Base
  BY <1>4, <1>5
<1>7. Base >= Base /\ B3 >= Base /\ p \in Nat \ {0}
  BY <1>4, <1>5
<1>8. \E s \in Nat : s >= Base /\ V = p * s /\ p \in Nat \ {0}
  BY <1>4, <1>6, <1>7
<1> QED
  BY <1>8 DEF V, p

\* What changes one byte of a word is no multiple of what a check sum leaves out.
LEMMA NoMultiple ==
  ASSUME NEW n \in Sizes, NEW r \in 0 .. n - 1, NEW d \in Int, d < Base, d > - Base,
         NEW k \in Int, d * Values(n - 1 - r) = Values(n) * k
  PROVE  d = 0
<1> DEFINE V == Values(n)
           p == Values(n - 1 - r)
<1>1. PICK s \in Nat : s >= Base /\ V = p * s /\ p \in Nat \ {0}
  BY PlaceIs
<1>2. d * p = V * k
  OBVIOUS
<1> HIDE DEF V, p
<1>3. d * p = (p * s) * k
  BY <1>1, <1>2
<1>4. Base \in Nat \ {0}
  BY KitAssumption
<1> QED
  BY <1>1, <1>3, <1>4, SmallProduct

\* new are the m words of data, of which byte j may be another one.
OneByte(data, new, n, m, j) ==
  /\ data \in Seq(Byte) /\ new \in Seq(Byte) /\ n \in Sizes /\ m \in Nat
  /\ Len(data) = m * n /\ Len(new) = m * n /\ j \in 1 .. m * n
  /\ \A i \in 1 .. m * n : i # j => new[i] = data[i]
  /\ check_sum(new, n) = check_sum(data, n)

\* One byte that is changed changes the check sum.
LEMMA ByteChanged ==
  ASSUME NEW data \in Seq(Byte), NEW new \in Seq(Byte), NEW n \in Sizes, NEW m \in Nat,
         Len(data) = m * n, Len(new) = m * n, NEW j \in 1 .. m * n,
         \A i \in 1 .. m * n : i # j => new[i] = data[i],
         check_sum(new, n) = check_sum(data, n)
  PROVE  new = data
<1> DEFINE q == ((j - 1) \div n) + 1
           r == (j - 1) % n
           d == new[j] - data[j]
           p == Values(n - 1 - r)
           V == Values(n)
<1>1. q \in 1 .. m /\ r \in 0 .. n - 1 /\ j = (q - 1) * n + r + 1
  <2>1. CASE n = 2
    BY <2>1
  <2>2. CASE n = 3
    BY <2>2
  <2> QED
    BY <2>1, <2>2 DEF Sizes
<1>2. Base \in Nat \ {0, 1} /\ Base * Base \in Nat /\ Base * Base >= Base
      /\ Base * Base * Base \in Nat /\ Base * Base * Base >= Base * Base
  BY KitAssumption, Positive
<1>3. new[j] \in Byte /\ data[j] \in Byte /\ d \in Int /\ d < Base /\ d > - Base
  <2>1. new[j] \in Byte /\ data[j] \in Byte
    OBVIOUS
  <2> QED
    BY <1>2, <2>1 DEF Byte
<1>4. WordCount(data, n) = m /\ WordCount(new, n) = m
  BY Quotient DEF WordCount, Sizes
<1>5. \A i \in 1 .. m : Words(data, n)[i] \in Int /\ Words(new, n)[i] \in Int
  BY WordIs
<1>16. ASSUME NEW i \in 1 .. m, NEW o, o = (i - 1) * n
       PROVE  /\ \A k \in 1 .. n : o + k \in 1 .. m * n
              /\ Words(data, n)[i] = Joined(data, o, n) /\ Words(new, n)[i] = Joined(new, o, n)
  <2> HIDE DEF q, r, d, p, V
  <2>1. Words(data, n)[i] = Joined(data, o, n) /\ \A k \in 1 .. n : o + k \in 1 .. m * n
    BY <1>16, WordsJoined, Zenon
  <2>2. Words(new, n)[i] = Joined(new, o, n)
    BY <1>16, WordsJoined, Zenon
  <2> QED
    BY <2>1, <2>2
<1>6. ASSUME NEW i \in 1 .. m, i # q
      PROVE  Words(new, n)[i] = Words(data, n)[i]
  <2> DEFINE o == (i - 1) * n
  <2>1. \A k \in 1 .. n : o + k # j
    <3>1. CASE n = 2
      BY <1>1, <1>6, <3>1
    <3>2. CASE n = 3
      BY <1>1, <1>6, <3>2
    <3> QED
      BY <3>1, <3>2 DEF Sizes
  <2>2. \A k \in 1 .. n : o + k \in 1 .. m * n
    BY WordIs
  <2>3. \A k \in 1 .. n : new[o + k] = data[o + k]
    BY <2>1, <2>2
  <2>4. new[o + 1] = data[o + 1] /\ new[o + 2] = data[o + 2] /\ (n = 3 => new[o + 3] = data[o + 3])
    <3> HIDE DEF o
    <3> QED
      BY <2>3 DEF Sizes
  <2>7. o = (i - 1) * n
    OBVIOUS
  <2> HIDE DEF o, q, r, d, p, V
  <2>5. /\ Words(data, n)[i] = Joined(data, o, n)
        /\ Words(new, n)[i] = Joined(new, o, n)
    BY <1>16, <2>7, Zenon
  <2>6. n = 2 \/ n = 3
    BY DEF Sizes
  <2> QED
    BY <2>4, <2>5, <2>6 DEF Joined
<1>7. Words(new, n)[q] - Words(data, n)[q] = d * p
  <2> DEFINE o == (q - 1) * n
  <2>8. o = (q - 1) * n
    OBVIOUS
  <2>1. \A k \in 1 .. n : o + k \in 1 .. m * n /\ new[o + k] \in Byte /\ data[o + k] \in Byte
    <3> HIDE DEF q, o
    <3> QED
      BY <1>1, <2>8, WordIs, ZenonT(60)
  <2>2. /\ Words(data, n)[q] = Joined(data, o, n)
        /\ Words(new, n)[q] = Joined(new, o, n)
    <3> HIDE DEF q, o
    <3> QED
      BY <1>1, <2>8, WordIs, ZenonT(60)
  <2>3. j = o + r + 1 /\ o \in Int
    <3>1. CASE n = 2
      BY <1>1, <3>1
    <3>2. CASE n = 3
      BY <1>1, <3>2
    <3> QED
      BY <3>1, <3>2 DEF Sizes
  <2>4. \A k \in 1 .. n : new[o + k] = IF k = r + 1 THEN data[o + k] + d ELSE data[o + k]
    <3> HIDE DEF o, r
    <3>1. \A k \in 1 .. n : o + k = j <=> k = r + 1
      BY <1>1, <2>3
    <3>2. new[j] = data[j] + d
      BY <1>3 DEF Byte
    <3> HIDE DEF d
    <3> QED
      BY <2>1, <3>1, <3>2
  <2>5. \A k \in 1 .. n : data[o + k] \in Int
    BY <2>1 DEF Byte
  <2>9. Base \in Int /\ d \in Int
    BY <1>2, <1>3
  <2>6. r \in 0 .. n - 1
    BY <1>1
  <2> HIDE DEF o, r, d, q
  <2>10. /\ r + 1 \in 1 .. n /\ new[o + (r + 1)] = data[o + (r + 1)] + d /\ o \in Int
         /\ \A k \in 1 .. n : k # r + 1 => new[o + k] = data[o + k]
    BY <2>3, <2>4, <2>6 DEF Sizes
  <2>7. Joined(new, o, n) - Joined(data, o, n) = d * Values(n - 1 - r)
    <3>1. Differ(data, new, o, n, r, d)
      BY <2>5, <2>6, <2>9, <2>10 DEF Differ
    <3> QED
      BY <3>1, JoinedChanged
  <2> QED
    BY <2>2, <2>7
<1>8. PICK f \in [0 .. m -> Int] :
        Sums(f, m, Words(new, n)) /\ check_sum(new, n) = f[m] % V
  BY <1>4, <1>5, SumIs
<1>9. PICK g \in [0 .. m -> Int] :
        Sums(g, m, Words(data, n)) /\ check_sum(data, n) = g[m] % V
  BY <1>4, <1>5, SumIs
<1>10. f[m] - g[m] = d * p
  <2> DEFINE v == Words(new, n)
             w == Words(data, n)
  <2>1. f[m] - g[m] = v[q] - w[q]
    <3>1. /\ \A i \in 1 .. m : v[i] \in Int /\ w[i] \in Int
          /\ \A i \in 1 .. m : i # q => v[i] = w[i]
          /\ Sums(f, m, v) /\ Sums(g, m, w) /\ q \in 1 .. m
      BY <1>1, <1>5, <1>6, <1>8, <1>9
    <3> HIDE DEF q, v, w
    <3> QED
      BY <3>1, OneDiffers, ZenonT(60)
  <2> QED
    BY <1>7, <2>1
<1>11. PICK k \in Int : f[m] - g[m] = V * k
  <2>1. V \in Nat \ {0}
    <3>1. V = Base * Base \/ V = Base * Base * Base
      BY ValuesAre DEF Sizes
    <3> HIDE DEF V
    <3> QED
      BY <1>2, <3>1
  <2>2. f[m] \in Int /\ g[m] \in Int /\ f[m] % V = g[m] % V
    <3>1. f[m] \in Int /\ g[m] \in Int
      OBVIOUS
    <3> HIDE DEF V
    <3> QED
      BY <1>8, <1>9, <3>1
  <2> DEFINE a == f[m]
             b == g[m]
  <2>3. a = V * (a \div V) + (a % V) /\ b = V * (b \div V) + (b % V)
        /\ a \div V \in Int /\ b \div V \in Int /\ a % V \in Int
    <3>1. a \in Int /\ b \in Int /\ a % V = b % V
      BY <2>2
    <3> HIDE DEF V, a, b
    <3>2. a = V * (a \div V) + (a % V) /\ a \div V \in Int /\ a % V \in 0 .. V - 1
      BY <2>1, <3>1, Division, Zenon
    <3>3. b = V * (b \div V) + (b % V) /\ b \div V \in Int
      BY <2>1, <3>1, Division, Zenon
    <3> QED
      BY <3>1, <3>2, <3>3
  <2> DEFINE x == a \div V
             y == b \div V
             z == a % V
  <2>4. a = V * x + z /\ b = V * y + z /\ x \in Int /\ y \in Int /\ z \in Int
    BY <2>2, <2>3
  <2> HIDE DEF V, a, b, x, y, z
  <2>5. a - b = V * (x - y) /\ x - y \in Int
    BY <2>1, <2>4
  <2> QED
    BY <2>5 DEF a, b
<1>13. d = 0
  <2>1. d * p = V * k /\ d \in Int /\ d < Base /\ d > - Base /\ r \in 0 .. n - 1
    BY <1>1, <1>3, <1>10, <1>11
  <2> HIDE DEF q, r, d
  <2> QED
    BY <2>1, NoMultiple
<1>14. new[j] = data[j]
  BY <1>3, <1>13 DEF Byte
<1>15. \A i \in 1 .. m * n : new[i] = data[i]
  BY <1>14
<1>17. new = [i \in 1 .. m * n |-> new[i]] /\ data = [i \in 1 .. m * n |-> data[i]]
  OBVIOUS
<1> QED
  BY <1>15, <1>17

LEMMA Changed ==
  ASSUME NEW data, NEW new, NEW n, NEW m, NEW j, OneByte(data, new, n, m, j)
  PROVE  new = data
BY ByteChanged DEF OneByte

LEMMA ByteIs ==
  ASSUME NEW c \in Int
  PROVE  c % Base \in Byte
<1>1. Base \in Nat \ {0}
  BY KitAssumption
<1>2. c % Base \in 0 .. Base - 1
  BY <1>1, Division
<1> QED
  BY <1>2 DEF Byte

LEMMA QuotientIs ==
  ASSUME NEW c \in Int, NEW n \in 0 .. 3
  PROVE  c \div Values(n) \in Int /\ Values(n) \in Nat \ {0}
<1>1. Values(n) \in Nat \ {0}
  <2>1. Base \in Nat \ {0, 1}
    BY KitAssumption
  <2>2. Base * Base \in Nat /\ Base * Base >= Base /\ Base * Base * Base \in Nat
        /\ Base * Base * Base >= Base * Base
    BY <2>1, Positive
  <2>3. n \in {0, 1, 2, 3}
    OBVIOUS
  <2> QED
    BY <2>1, <2>2, <2>3, ValuesAre
<1> QED
  BY <1>1, Division

\* The bytes of a number, and the number again.
LEMMA BytesBack ==
  ASSUME NEW n \in Sizes, NEW c \in 0 .. Values(n) - 1
  PROVE  /\ Bytes(c, n) \in Seq(Byte) /\ Len(Bytes(c, n)) = n
         /\ WordAt(Bytes(c, n), 0, n) = c
<1> DEFINE B == Base
           q == c \div B
           t == q \div B
           b == Bytes(c, n)
<1>1. B \in Nat \ {0, 1} /\ B * B \in Nat /\ B * B >= B
      /\ B * B * B \in Nat /\ B * B * B >= B * B
  BY KitAssumption, Positive
<1>2. Values(n) \in Int /\ c \in Int /\ 0 <= c /\ c < Values(n)
  <2>1. Values(n) \in Int
    BY <1>1, ValuesAre DEF Sizes
  <2> QED
    BY <2>1
<1>3. /\ q \in Int /\ c % B \in 0 .. B - 1 /\ c = B * q + (c % B)
      /\ t \in Int /\ q % B \in 0 .. B - 1 /\ q = B * t + (q % B)
  <2>1. q \in Int /\ c % B \in 0 .. B - 1 /\ c = B * q + (c % B)
    BY <1>1, <1>2, Division
  <2>2. t \in Int /\ q % B \in 0 .. B - 1 /\ q = B * t + (q % B)
    <3> HIDE DEF q, B
    <3> QED
      BY <1>1, <2>1, Division
  <2> QED
    BY <2>1, <2>2
<1>4. b = [k \in 1 .. n |-> (c \div Values(n - k)) % B]
  BY DEF Bytes
<1>5. c \div 1 = c
  BY <1>2
<1>6. ASSUME n = 2 PROVE WordAt(b, 0, n) = c
  <2>1. b[1] = q % B /\ b[2] = c % B
    BY <1>4, <1>5, <1>6, ValuesAre
  <2>2. q % B = q
    <3>1. 0 <= q /\ q < B
      <4> DEFINE s == c % B
      <4> HIDE DEF q, s, B
      <4>1. c = B * q + s /\ s \in 0 .. B - 1 /\ c < B * B /\ 0 <= c /\ c \in Int /\ q \in Int
        BY <1>2, <1>3, <1>6, ValuesAre DEF s, B
      <4>2. CASE q >= B
        <5>1. B * q >= B * B
          <6>1. B * (q - B) \in Nat
            BY <1>1, <4>1, <4>2
          <6>2. B * q = B * (q - B) + B * B
            BY <1>1, <4>1
          <6> QED
            BY <1>1, <6>1, <6>2
        <5>2. B * q \in Int
          BY <1>1, <4>1
        <5> QED
          BY <1>1, <4>1, <5>1, <5>2
      <4>3. CASE q < 0
        <5>1. B * (- q - 1) \in Nat
          BY <1>1, <4>1, <4>3
        <5>2. B * q = - (B * (- q - 1)) - B
          BY <1>1, <4>1
        <5> QED
          BY <1>1, <4>1, <5>1, <5>2
      <4> QED
        BY <1>1, <4>1, <4>2, <4>3
    <3> HIDE DEF q, B
    <3>2. B \in Nat \ {0} /\ q \in 0 .. B - 1
      BY <1>1, <1>3, <3>1
    <3> QED
      BY <3>2, RestOfSmall
  <2>3. \A k \in 1 .. n : b[0 + k] \in Int
    <3>1. \A k \in 1 .. n : k = 1 \/ k = 2
      BY <1>6
    <3>2. b[1] \in Int /\ b[2] \in Int
      BY <1>3, <2>1
    <3>3. \A k \in 1 .. n : 0 + k = k
      OBVIOUS
    <3> HIDE DEF b
    <3> QED
      BY <3>1, <3>2, <3>3
  <2>4. WordAt(b, 0, n) = Joined(b, 0, n)
    <3> HIDE DEF b
    <3> QED
      BY <2>3, WordAtIs
  <2>5. WordAt(b, 0, n) = B * b[1] + b[2]
    <3> HIDE DEF b
    <3> QED
      BY <1>6, <2>4 DEF Joined
  <2> QED
    <3> HIDE DEF b, q
    <3> QED
      BY <1>3, <2>1, <2>2, <2>5
<1>7. ASSUME n = 3 PROVE WordAt(b, 0, n) = c
  <2>1. b[1] = (c \div (B * B)) % B /\ b[2] = q % B /\ b[3] = c % B
    BY <1>4, <1>5, <1>7, ValuesAre
  <2> DEFINE s == c % B
             u == q % B
  <2>2. /\ q \in Int /\ t \in Int /\ s \in 0 .. B - 1 /\ u \in 0 .. B - 1
        /\ c = B * q + s /\ q = B * t + u /\ 0 <= c /\ c < B * B * B
    BY <1>2, <1>3, <1>7, ValuesAre
  <2> HIDE DEF q, t, s, u, B, b
  <2>3. B * u + s \in 0 .. B * B - 1 /\ c = (B * B) * t + (B * u + s)
    <3>1. B * u >= 0 /\ B * u <= B * B - B /\ B * u \in Int
      <4>1. B * u \in Nat /\ B * (B - 1 - u) \in Nat
        BY <1>1, <2>2
      <4>2. B * (B - 1 - u) = B * B - B - B * u
        BY <1>1, <2>2
      <4> QED
        BY <1>1, <4>1, <4>2
    <3>2. c = (B * B) * t + (B * u + s)
      BY <1>1, <2>2
    <3> QED
      BY <1>1, <2>2, <3>1, <3>2
  <2>4. c \div (B * B) = t
    <3> DEFINE M == B * B
               z == B * u + s
    <3>1. M \in Nat \ {0} /\ z \in 0 .. M - 1 /\ c = M * t + z
      BY <1>1, <2>3
    <3> HIDE DEF M, z
    <3>2. c \div M = t
      BY <2>2, <3>1, Divided
    <3> QED
      BY <3>2 DEF M
  <2>5. 0 <= t /\ t < B
    <3> DEFINE M == B * B
               z == B * u + s
    <3>1. M \in Nat \ {0} /\ z \in 0 .. M - 1 /\ c = M * t + z /\ c < M * B /\ 0 <= c /\ c \in Int
      BY <1>1, <1>2, <2>2, <2>3
    <3> HIDE DEF M, z
    <3>2. CASE t >= B
      <4>1. M * (t - B) \in Nat
        BY <1>1, <2>2, <3>1, <3>2
      <4>2. M * t = M * (t - B) + M * B /\ M * B \in Int
        BY <1>1, <2>2, <3>1
      <4> QED
        BY <3>1, <4>1, <4>2
    <3>3. CASE t < 0
      <4>1. M * (- t - 1) \in Nat
        BY <2>2, <3>1, <3>3
      <4>2. M * t = - (M * (- t - 1)) - M
        BY <2>2, <3>1
      <4> QED
        BY <3>1, <4>1, <4>2
    <3> QED
      BY <1>1, <2>2, <3>2, <3>3
  <2>6. t % B = t
    <3>1. B \in Nat \ {0} /\ t \in 0 .. B - 1
      BY <1>1, <2>2, <2>5
    <3> QED
      BY <3>1, RestOfSmall
  <2>7. b[1] = t /\ b[2] = u /\ b[3] = s
    BY <2>1, <2>4, <2>6 DEF u, s
  <2>8. \A k \in 1 .. n : b[0 + k] \in Int
    <3>1. \A k \in 1 .. n : k = 1 \/ k = 2 \/ k = 3
      BY <1>7
    <3>2. b[1] \in Int /\ b[2] \in Int /\ b[3] \in Int
      BY <1>1, <2>2, <2>7
    <3>3. \A k \in 1 .. n : 0 + k = k
      OBVIOUS
    <3> QED
      BY <3>1, <3>2, <3>3
  <2>9. WordAt(b, 0, n) = Joined(b, 0, n)
    BY <2>8, WordAtIs
  <2>10. WordAt(b, 0, n) = B * (B * b[1] + b[2]) + b[3]
    BY <1>7, <2>9 DEF Joined, B
  <2>11. WordAt(b, 0, n) = c
    BY <2>2, <2>7, <2>10
  <2> QED
    BY <2>11 DEF b
<1>8. b \in Seq(Byte) /\ Len(b) = n
  <2>1. \A k \in 1 .. n : (c \div Values(n - k)) % B \in Byte
    <3>1. ASSUME NEW k \in 1 .. n PROVE (c \div Values(n - k)) % B \in Byte
      <4>1. n - k \in 0 .. 3
        BY DEF Sizes
      <4>2. c \div Values(n - k) \in Int
        BY <1>2, <4>1, QuotientIs
      <4> QED
        BY <4>2, ByteIs
    <3> QED
      BY <3>1
  <2>2. b \in [1 .. n -> Byte] /\ n \in Nat
    BY <1>4, <2>1 DEF Sizes
  <2> HIDE DEF b
  <2> QED
    BY <2>2
<1> QED
  BY <1>6, <1>7, <1>8 DEF Sizes

\* A check sum is a number of as many bytes as a word.
LEMMA CheckSumIs ==
  ASSUME NEW bytes \in Seq(Byte), NEW n \in Sizes, NEW m \in Nat, Len(bytes) = m * n
  PROVE  check_sum(bytes, n) \in 0 .. Values(n) - 1
<1>1. WordCount(bytes, n) = m
  BY Quotient DEF WordCount, Sizes
<1>2. \A i \in 1 .. m : Words(bytes, n)[i] \in Int
  BY WordIs
<1>3. PICK f \in [0 .. m -> Int] : check_sum(bytes, n) = f[m] % Values(n)
  BY <1>1, <1>2, SumIs
<1>4. f[m] \in Int /\ Values(n) \in Nat \ {0}
  <2>1. f[m] \in Int /\ n \in 0 .. 3
    BY DEF Sizes
  <2> QED
    BY <2>1, QuotientIs
<1> QED
  BY <1>3, <1>4, Division

----------------------------------------------------------------------------
(* What the kit answers to an upload, and what the host makes of it.       *)

Item == [space : Space, start : Address, length : Nat \ {0}]

\* The words from where an item of a memory list begins, their bytes, and what the kit
\* answers: they and their check sum.
Content(l, i, n) ==
  [k \in 1 .. n |-> InitialMemory[l[i].space][(l[i].start + k - 1) % MemSize]]
Part(l, i, n) == BytesOf(Content(l, i, n), WordSize[l[i].space])
PartAnswer(l, i, n) ==
  Part(l, i, n) \o Bytes(check_sum(Part(l, i, n), WordSize[l[i].space]), WordSize[l[i].space])

\* The bytes of the item, and the answer that it should get.
Uploaded(l, i) == Part(l, i, l[i].length)
Right(l, i) == PartAnswer(l, i, l[i].length)

\* The bytes of the first items.
Upto(l) ==
  CHOOSE f : f = [i \in 0 .. Len(l) |-> IF i = 0 THEN << >> ELSE f[i - 1] \o Uploaded(l, i)]

LEMMA ItemIs ==
  ASSUME NEW l \in UploadLists
  PROVE  /\ l \in Seq(Item) /\ Len(l) \in Nat /\ DOMAIN l = 1 .. Len(l)
         /\ \A i \in DOMAIN l : /\ l[i] \in Item /\ l[i].space \in Space
                                /\ l[i].start \in Nat /\ l[i].length \in Nat \ {0}
                                /\ WordSize[l[i].space] \in Sizes
<1>1. l \in Seq(Item)
  BY UploadAssumption DEF Item
<1>2. \A i \in DOMAIN l : l[i] \in Item
  BY <1>1
<1>3. \A x \in Item : x.space \in Space /\ x.start \in Nat /\ x.length \in Nat \ {0}
  BY DEF Item, Address
<1>4. \A i \in DOMAIN l : WordSize[l[i].space] \in Sizes
  BY <1>2, <1>3, WordSizes DEF Sizes
<1> QED
  BY <1>1, <1>2, <1>3, <1>4

LEMMA BytesOfIs ==
  ASSUME NEW m \in Nat, NEW words \in [1 .. m -> Int], NEW n \in Sizes
  PROVE  BytesOf(words, n) \in Seq(Byte) /\ Len(BytesOf(words, n)) = m * n
<1>1. Len(words) = m
  OBVIOUS
<1>2. n * m = m * n /\ m * n \in Nat
  BY DEF Sizes
<1>3. ASSUME NEW k \in 1 .. n * m
      PROVE  Bytes(words[((k - 1) \div n) + 1], n)[((k - 1) % n) + 1] \in Byte
  <2> DEFINE i == ((k - 1) \div n) + 1
             j == ((k - 1) % n) + 1
  <2>1. i \in 1 .. m /\ j \in 1 .. n
    <3>1. CASE n = 2
      BY <3>1
    <3>2. CASE n = 3
      BY <3>2
    <3> QED
      BY <3>1, <3>2 DEF Sizes
  <2> HIDE DEF i, j
  <2>2. words[i] \in Int /\ n - j \in 0 .. 3
    BY <2>1 DEF Sizes
  <2>3. Bytes(words[i], n)[j] = (words[i] \div Values(n - j)) % Base
    BY <2>1 DEF Bytes
  <2>4. words[i] \div Values(n - j) \in Int
    BY <2>2, QuotientIs
  <2> QED
    BY <2>3, <2>4, ByteIs DEF i, j
<1>4. BytesOf(words, n) \in [1 .. n * m -> Byte]
  BY <1>1, <1>3 DEF BytesOf
<1> HIDE DEF BytesOf
<1> QED
  BY <1>2, <1>4

LEMMA PartIs ==
  ASSUME NEW l \in UploadLists, NEW i \in DOMAIN l, NEW length \in Nat
  PROVE  /\ Content(l, i, length) \in [1 .. length -> Int]
         /\ Part(l, i, length) \in Seq(Byte)
         /\ Len(Part(l, i, length)) = length * WordSize[l[i].space]
<1> DEFINE words == Content(l, i, length)
<1>1. /\ l[i].space \in Space /\ l[i].start \in Nat
      /\ WordSize[l[i].space] \in Sizes
  BY ItemIs
<1>2. ASSUME NEW k \in 1 .. length
      PROVE  InitialMemory[l[i].space][(l[i].start + k - 1) % MemSize] \in Int
  <2> DEFINE a == (l[i].start + k - 1) % MemSize
  <2>1. MemSize \in Nat \ {0} /\ l[i].start + k - 1 \in Int
    BY <1>1, KitAssumption
  <2>2. a \in 0 .. MemSize - 1
    BY <2>1, Division
  <2>3. a \in Address /\ a \in Int
    BY <2>1, <2>2 DEF Address
  <2> HIDE DEF a
  <2>4. InitialMemory[l[i].space][a] = a % Values(WordSize[l[i].space])
    BY <1>1, <2>3 DEF InitialMemory
  <2>5. Values(WordSize[l[i].space]) \in Nat \ {0}
    <3>1. WordSize[l[i].space] \in 0 .. 3
      BY <1>1 DEF Sizes
    <3> QED
      BY <2>3, <3>1, QuotientIs
  <2>6. a % Values(WordSize[l[i].space]) \in Int
    <3> DEFINE V == Values(WordSize[l[i].space])
    <3>1. V \in Nat \ {0} /\ a \in Int
      BY <2>3, <2>5
    <3> HIDE DEF V
    <3>2. a % V \in 0 .. V - 1
      BY <3>1, Division
    <3>3. a % V \in Int
      BY <3>2
    <3> QED
      BY <3>3 DEF V
  <2> QED
    BY <2>4, <2>6 DEF a
<1>3. words \in [1 .. length -> Int]
  BY <1>2 DEF Content
<1>4. Part(l, i, length) = BytesOf(words, WordSize[l[i].space])
  BY DEF Part
<1> HIDE DEF words
<1> QED
  BY <1>1, <1>3, <1>4, BytesOfIs DEF words

LEMMA UploadedIs ==
  ASSUME NEW l \in UploadLists, NEW i \in DOMAIN l
  PROVE  /\ Uploaded(l, i) \in Seq(Byte)
         /\ Len(Uploaded(l, i)) = l[i].length * WordSize[l[i].space]
BY ItemIs, PartIs DEF Uploaded

\* The bytes of the first words are the first bytes.
LEMMA BytesBegin ==
  ASSUME NEW m \in Nat, NEW words \in [1 .. m -> Int],
         NEW o \in Nat, NEW more \in [1 .. o -> Int], m <= o,
         \A i \in 1 .. m : more[i] = words[i], NEW n \in Sizes,
         NEW k \in 1 .. m * n
  PROVE  BytesOf(more, n)[k] = BytesOf(words, n)[k]
<1> DEFINE i == ((k - 1) \div n) + 1
<1>1. i \in 1 .. m /\ k \in 1 .. n * m /\ k \in 1 .. n * o
  <2>1. CASE n = 2
    BY <2>1
  <2>2. CASE n = 3
    BY <2>2
  <2> QED
    BY <2>1, <2>2 DEF Sizes
<1>2. Len(words) = m /\ Len(more) = o
  OBVIOUS
<1>3. more[i] = words[i]
  BY <1>1
<1>4. BytesOf(words, n)[k] = Bytes(words[i], n)[((k - 1) % n) + 1]
  BY <1>1, <1>2 DEF BytesOf
<1>5. BytesOf(more, n)[k] = Bytes(more[i], n)[((k - 1) % n) + 1]
  BY <1>1, <1>2 DEF BytesOf
<1> QED
  BY <1>3, <1>4, <1>5

LEMMA PartBegins ==
  ASSUME NEW l \in UploadLists, NEW i \in DOMAIN l, NEW n \in Nat, l[i].length <= n,
         NEW k \in 1 .. l[i].length * WordSize[l[i].space]
  PROVE  Part(l, i, n)[k] = Uploaded(l, i)[k]
<1> DEFINE m == l[i].length
           words == Content(l, i, m)
           more == Content(l, i, n)
           size == WordSize[l[i].space]
<1>1. m \in Nat /\ size \in Sizes
  BY ItemIs
<1>2. words \in [1 .. m -> Int] /\ more \in [1 .. n -> Int]
  BY <1>1, PartIs
<1>3. \A j \in 1 .. m : more[j] = words[j]
  BY <1>1 DEF Content
<1>4. Part(l, i, n) = BytesOf(more, size) /\ Uploaded(l, i) = BytesOf(words, size)
  BY DEF Part, Uploaded
<1>5. m <= n /\ k \in 1 .. m * size
  OBVIOUS
<1> HIDE DEF words, more, size, m
<1>6. BytesOf(more, size)[k] = BytesOf(words, size)[k]
  BY <1>1, <1>2, <1>3, <1>5, BytesBegin
<1> QED
  BY <1>4, <1>6

\* r is s and then t, of m and of n elements.
Behind(s, t, r, m, n) ==
  /\ Len(r) = m + n
  /\ \A k \in 1 .. m : r[k] = s[k]
  /\ \A k \in 1 .. n : r[m + k] = t[k]

LEMMA Joins ==
  ASSUME NEW S, NEW s \in Seq(S), NEW t \in Seq(S)
  PROVE  s \o t \in Seq(S) /\ Behind(s, t, s \o t, Len(s), Len(t))
<1> DEFINE m == Len(s)
           n == Len(t)
<1>1. m \in Nat /\ n \in Nat
  OBVIOUS
<1>2. \A k \in 1 .. n : m + k \in 1 .. m + n /\ ~ (m + k <= m) /\ m + k - m = k
  BY <1>1
<1>3. \A k \in 1 .. m : k \in 1 .. m + n /\ k <= m
  BY <1>1
<1> QED
  BY <1>1, <1>2, <1>3 DEF Behind

LEMMA LastIs ==
  ASSUME NEW S, NEW s \in Seq(S), NEW m \in Nat, NEW n \in Nat \ {0}, Len(s) = m + n
  PROVE  Len(Last(s, n)) = n /\ \A k \in 1 .. n : Last(s, n)[k] = s[m + k]
<1>1. m + n - n + 1 = m + 1 /\ m + 1 \in 1 .. m + n /\ m + n \in Nat
  OBVIOUS
<1>2. Last(s, n) = SubSeq(s, m + 1, m + n)
  BY <1>1 DEF Last
<1>3. /\ Len(SubSeq(s, m + 1, m + n)) = (m + n) - (m + 1) + 1
      /\ \A k \in 1 .. n : SubSeq(s, m + 1, m + n)[k] = s[(m + 1) + k - 1]
  BY <1>1
<1>4. (m + n) - (m + 1) + 1 = n /\ \A k \in 1 .. n : (m + 1) + k - 1 = m + k
  OBVIOUS
<1> QED
  BY <1>2, <1>3, <1>4

\* m bytes u, r with their check sum behind them.
Summed(u, r, m, n) ==
  LET c == check_sum(u, n) IN
  /\ n \in Sizes /\ m \in Nat /\ c \in 0 .. Values(n) - 1
  /\ r \in Seq(Byte) /\ Len(r) = m + n
  /\ u \in Seq(Byte) /\ Len(u) = m
  /\ Bytes(c, n) \in Seq(Byte) /\ Len(Bytes(c, n)) = n
  /\ \A k \in 1 .. m : r[k] = u[k]
  /\ \A k \in 1 .. n : r[m + k] = Bytes(c, n)[k]

LEMMA PartAnswerIs ==
  ASSUME NEW l \in UploadLists, NEW i \in DOMAIN l, NEW length \in Nat
  PROVE  Summed(Part(l, i, length), PartAnswer(l, i, length),
                length * WordSize[l[i].space], WordSize[l[i].space])
<1> DEFINE n == WordSize[l[i].space]
           m == length * n
           c == check_sum(Part(l, i, length), n)
<1>1. n \in Sizes
  BY ItemIs
<1>2. m \in Nat
  <2>1. CASE n = 2
    BY <1>1, <2>1
  <2>2. CASE n = 3
    BY <1>1, <2>2
  <2> QED
    BY <1>1, <2>1, <2>2 DEF Sizes
<1>3. Part(l, i, length) \in Seq(Byte) /\ Len(Part(l, i, length)) = m
  BY PartIs
<1>4. c \in 0 .. Values(n) - 1
  BY <1>1, <1>3, CheckSumIs
<1>5. Bytes(c, n) \in Seq(Byte) /\ Len(Bytes(c, n)) = n
  BY <1>1, <1>4, BytesBack
<1>6. PartAnswer(l, i, length) = Part(l, i, length) \o Bytes(c, n)
  BY DEF PartAnswer
<1> DEFINE u == Part(l, i, length)
           v == Bytes(c, n)
<1>7. u \in Seq(Byte) /\ v \in Seq(Byte) /\ m = Len(u) /\ n = Len(v)
  BY <1>3, <1>5
<1> HIDE DEF u, v
<1>8. /\ u \o v \in Seq(Byte) /\ Len(u \o v) = m + n
      /\ \A k \in 1 .. m : (u \o v)[k] = u[k]
      /\ \A k \in 1 .. n : (u \o v)[m + k] = v[k]
  <2>1. u \o v \in Seq(Byte) /\ Behind(u, v, u \o v, Len(u), Len(v))
    BY <1>7, Joins, Zenon
  <2>2. Behind(u, v, u \o v, m, n)
    BY <1>7, <2>1, Zenon
  <2> DEFINE r == u \o v
  <2>3. r \in Seq(Byte) /\ Behind(u, v, r, m, n)
    BY <2>1, <2>2
  <2> HIDE DEF r
  <2>4. /\ r \in Seq(Byte) /\ Len(r) = m + n
        /\ \A k \in 1 .. m : r[k] = u[k]
        /\ \A k \in 1 .. n : r[m + k] = v[k]
    BY <2>3 DEF Behind
  <2> QED
    BY <2>4 DEF r
<1>9. PartAnswer(l, i, length) = u \o v
  BY <1>6 DEF u, v
<1> DEFINE r == PartAnswer(l, i, length)
<1>10. c = check_sum(u, n) /\ v = Bytes(c, n) /\ u = Part(l, i, length)
  BY DEF u, v
<1>11. /\ r \in Seq(Byte) /\ Len(r) = m + n
       /\ \A k \in 1 .. m : r[k] = u[k]
       /\ \A k \in 1 .. n : r[m + k] = v[k]
  BY <1>8, <1>9
<1> HIDE DEF n, m, c, r
<1>12. Summed(u, r, m, n)
  BY <1>1, <1>2, <1>4, <1>7, <1>10, <1>11 DEF Summed
<1> QED
  BY <1>10, <1>12 DEF r, m, n

LEMMA RightIs ==
  ASSUME NEW l \in UploadLists, NEW i \in DOMAIN l, NEW n, n = WordSize[l[i].space],
         NEW c, c = check_sum(Uploaded(l, i), n), NEW m, m = l[i].length * n
  PROVE  /\ n \in Sizes /\ m \in Nat /\ m > 0 /\ c \in 0 .. Values(n) - 1
         /\ Right(l, i) \in Seq(Byte) /\ Len(Right(l, i)) = m + n
         /\ Uploaded(l, i) \in Seq(Byte) /\ Len(Uploaded(l, i)) = m
         /\ Bytes(c, n) \in Seq(Byte) /\ Len(Bytes(c, n)) = n
         /\ \A k \in 1 .. m : Right(l, i)[k] = Uploaded(l, i)[k]
         /\ \A k \in 1 .. n : Right(l, i)[m + k] = Bytes(c, n)[k]
<1>1. l[i].length \in Nat \ {0}
  BY ItemIs
<1>2. m > 0
  <2>1. n \in Sizes
    BY ItemIs
  <2>2. CASE n = 2
    BY <1>1, <2>2
  <2>3. CASE n = 3
    BY <1>1, <2>3
  <2> QED
    BY <2>1, <2>2, <2>3 DEF Sizes
<1>3. Summed(Uploaded(l, i), Right(l, i), m, n)
  BY <1>1, PartAnswerIs, Zenon DEF Uploaded, Right
<1> QED
  BY <1>2, <1>3 DEF Summed

\* When the check sum is right, so are the bytes before it, if at most one byte of the
\* answer is another one.
LEMMA CheckedIsSent ==
  ASSUME NEW l \in UploadLists, NEW i \in DOMAIN l, NEW n, n = WordSize[l[i].space],
         NEW m, m = l[i].length * n, NEW got \in Seq(0 .. Base + 1), Len(got) = m + n,
         \/ got = Right(l, i)
         \/ \E j \in DOMAIN Right(l, i), b \in Byte : got = [Right(l, i) EXCEPT ![j] = b],
         GoodUpload(First(got, Len(got) - n), Last(got, n), n)
  PROVE  First(got, Len(got) - n) = Uploaded(l, i)
<1> DEFINE right == Right(l, i)
           data == First(got, Len(got) - n)
           check == Last(got, n)
<1>1. PICK c : c = check_sum(Uploaded(l, i), n)
  OBVIOUS
<1>2. /\ n \in Sizes /\ m \in Nat /\ m > 0 /\ c \in 0 .. Values(n) - 1
      /\ right \in Seq(Byte) /\ Len(right) = m + n
      /\ Uploaded(l, i) \in Seq(Byte) /\ Len(Uploaded(l, i)) = m
      /\ Bytes(c, n) \in Seq(Byte) /\ Len(Bytes(c, n)) = n
      /\ \A k \in 1 .. m : right[k] = Uploaded(l, i)[k]
      /\ \A k \in 1 .. n : right[m + k] = Bytes(c, n)[k]
  BY <1>1, RightIs
<1> HIDE DEF right
<1>3. got \in Seq(Byte)
  <2>1. CASE got = right
    BY <1>2, <2>1
  <2>2. CASE \E j \in DOMAIN right, b \in Byte : got = [right EXCEPT ![j] = b]
    BY <1>2, <2>2
  <2> QED
    BY <2>1, <2>2 DEF right
<1>4. data \in Seq(Byte) /\ Len(data) = m /\ \A k \in 1 .. m : data[k] = got[k]
  BY <1>2, <1>3 DEF First
<1>5. Len(check) = n /\ \A k \in 1 .. n : check[k] = got[m + k]
  <2>1. n \in Nat \ {0}
    BY <1>2 DEF Sizes
  <2> QED
    BY <1>2, <1>3, <2>1, LastIs
<1>6. check_sum(data, n) = WordAt(check, 0, n)
  BY DEF GoodUpload
<1> HIDE DEF data, check
<1>7. ASSUME \A k \in 1 .. m : got[k] = right[k]
      PROVE  data = Uploaded(l, i)
  <2>1. \A k \in 1 .. m : data[k] = Uploaded(l, i)[k]
    BY <1>2, <1>4, <1>7
  <2>2. data = [k \in 1 .. m |-> data[k]] /\ Uploaded(l, i) = [k \in 1 .. m |-> Uploaded(l, i)[k]]
    BY <1>2, <1>4
  <2> QED
    BY <2>1, <2>2
<1>8. ASSUME got = right PROVE data = Uploaded(l, i)
  BY <1>7, <1>8
<1>9. ASSUME NEW j \in DOMAIN right, NEW b \in Byte, got = [right EXCEPT ![j] = b]
      PROVE  data = Uploaded(l, i)
  <2>1. j \in 1 .. m + n /\ \A k \in 1 .. m + n : k # j => got[k] = right[k]
    BY <1>2, <1>9
  <2>2. CASE j > m
    <3>1. \A k \in 1 .. m : k # j /\ k \in 1 .. m + n
      BY <1>2, <2>1, <2>2
    <3> QED
      BY <1>7, <2>1, <3>1
  <2>3. CASE j <= m
    <3>1. \A k \in 1 .. n : check[k] = Bytes(c, n)[k]
      <4>1. \A k \in 1 .. n : m + k # j /\ m + k \in 1 .. m + n
        BY <1>2, <2>1, <2>3
      <4> QED
        BY <1>2, <1>5, <2>1, <4>1
    <3>2. WordAt(check, 0, n) = WordAt(Bytes(c, n), 0, n)
      <4> DEFINE b2 == Bytes(c, n)
      <4>1. \A k \in 1 .. n : check[0 + k] \in Int /\ b2[0 + k] \in Int /\ check[0 + k] = b2[0 + k]
        <5>1. \A k \in 1 .. n : 0 + k = k /\ b2[k] \in Byte
          BY <1>2
        <5>2. \A k \in 1 .. n : 0 + k = k /\ b2[k] \in Int
          BY <5>1 DEF Byte
        <5> QED
          BY <3>1, <5>2
      <4> HIDE DEF b2
      <4>2. WordAt(check, 0, n) = Joined(check, 0, n) /\ WordAt(b2, 0, n) = Joined(b2, 0, n)
        <5>1. (\A k \in 1 .. n : check[0 + k] \in Int) /\ (\A k \in 1 .. n : b2[0 + k] \in Int)
              /\ 0 \in Nat
          BY <4>1
        <5> QED
          BY <1>2, <5>1, WordAtIs
      <4>3. check[0 + 1] = b2[0 + 1] /\ check[0 + 2] = b2[0 + 2]
            /\ (n = 3 => check[0 + 3] = b2[0 + 3])
        <5>1. 1 \in 1 .. n /\ 2 \in 1 .. n /\ (n = 3 => 3 \in 1 .. n)
          BY <1>2 DEF Sizes
        <5> QED
          BY <4>1, <5>1
      <4>4. n = 2 \/ n = 3
        BY <1>2 DEF Sizes
      <4> QED
        BY <4>2, <4>3, <4>4 DEF b2, Joined
    <3>3. check_sum(data, n) = check_sum(Uploaded(l, i), n)
      BY <1>1, <1>2, <1>6, <3>2, BytesBack
    <3>4. \A k \in 1 .. m : k # j => data[k] = Uploaded(l, i)[k]
      <4>1. \A k \in 1 .. m : k \in 1 .. m + n
        BY <1>2
      <4> QED
        BY <1>2, <1>4, <2>1, <4>1
    <3>5. j \in 1 .. l[i].length * n /\ l[i].length \in Nat
      BY <2>1, <2>3, <1>2, ItemIs
    <3>6. OneByte(Uploaded(l, i), data, n, l[i].length, j)
      BY <1>2, <1>4, <3>3, <3>4, <3>5 DEF OneByte
    <3> QED
      BY <3>6, Changed
  <2> QED
    BY <1>2, <2>1, <2>2, <2>3
<1>10. data = Uploaded(l, i)
  <2>1. got = right \/ \E j \in DOMAIN right, b \in Byte : got = [right EXCEPT ![j] = b]
    BY DEF right
  <2> QED
    BY <1>8, <1>9, <2>1
<1> QED
  BY <1>10 DEF data

\* An answer that was accepted, with one other byte at most.
Checked(l, i, n, m, got) ==
  /\ l \in UploadLists /\ i \in DOMAIN l /\ n = WordSize[l[i].space] /\ m = l[i].length * n
  /\ got \in Seq(0 .. Base + 1) /\ Len(got) = m + n
  /\ \/ got = Right(l, i)
     \/ \E j \in DOMAIN Right(l, i), b \in Byte : got = [Right(l, i) EXCEPT ![j] = b]
  /\ GoodUpload(First(got, Len(got) - n), Last(got, n), n)

LEMMA CheckedSent ==
  ASSUME NEW l, NEW i, NEW n, NEW m, NEW got, Checked(l, i, n, m, got)
  PROVE  First(got, Len(got) - n) = Uploaded(l, i)
BY CheckedIsSent DEF Checked

\* What has been written once the first items are.
LEMMA UptoIs ==
  ASSUME NEW l \in UploadLists
  PROVE  /\ Upto(l)[0] = << >>
         /\ \A i \in 1 .. Len(l) : Upto(l)[i] = Upto(l)[i - 1] \o Uploaded(l, i)
<1> DEFINE m == Len(l)
           P(v) == v = [i \in 0 .. m |-> IF i = 0 THEN << >> ELSE v[i - 1] \o Uploaded(l, i)]
           step == [p \in (1 .. m) \X Seq(Byte) |-> p[2] \o Uploaded(l, p[1])]
           w == CHOOSE v : P(v)
<1>1. m \in Nat /\ \A i \in 1 .. m : Uploaded(l, i) \in Seq(Byte)
  BY ItemIs, UploadedIs
<1> HIDE DEF m
<1>2. step \in [(1 .. m) \X Seq(Byte) -> Seq(Byte)]
  <2>1. ASSUME NEW p \in (1 .. m) \X Seq(Byte) PROVE p[2] \o Uploaded(l, p[1]) \in Seq(Byte)
    <3>1. p[1] \in 1 .. m /\ p[2] \in Seq(Byte)
      OBVIOUS
    <3> QED
      BY <1>1, <3>1
  <2> QED
    BY <2>1
<1>3. << >> \in Seq(Byte)
  OBVIOUS
<1>4. PICK f \in [0 .. m -> Seq(Byte)] : Steps(f, m, << >>, step)
  <2> HIDE DEF step
  <2> QED
    BY <1>1, <1>2, <1>3, StepByStep
<1>5. P(f)
  <2>1. ASSUME NEW k \in 0 .. m, k # 0 PROVE step[<<k, f[k - 1]>>] = f[k - 1] \o Uploaded(l, k)
    <3>1. k - 1 \in 0 .. m /\ k \in 1 .. m
      BY <1>1, <2>1
    <3>2. <<k, f[k - 1]>> \in (1 .. m) \X Seq(Byte)
      BY <3>1
    <3> QED
      BY <3>2
  <2>2. f = [k \in 0 .. m |-> f[k]]
    OBVIOUS
  <2>3. ASSUME NEW k \in 0 .. m
        PROVE  f[k] = IF k = 0 THEN << >> ELSE f[k - 1] \o Uploaded(l, k)
    <3>1. k # 0 => k \in 1 .. m
      BY <1>1
    <3> HIDE DEF step
    <3> QED
      BY <1>4, <2>1, <3>1 DEF Steps
  <2> QED
    BY <2>2, <2>3
<1>6. P(w)
  <2> HIDE DEF P
  <2> QED
    BY <1>5
<1>7. Upto(l) = w
  BY DEF Upto, m
<1> HIDE DEF w
<1>8. w[0] = << >> /\ \A i \in 1 .. m : w[i] = w[i - 1] \o Uploaded(l, i)
  <2>1. 0 \in 0 .. m /\ \A i \in 1 .. m : i \in 0 .. m /\ i # 0
    BY <1>1
  <2>2. \A i \in 0 .. m : w[i] = IF i = 0 THEN << >> ELSE w[i - 1] \o Uploaded(l, i)
    BY <1>6
  <2> QED
    BY <2>1, <2>2
<1> QED
  BY <1>7, <1>8 DEF m

\* The first elements, and the others.
LEMMA FirstIs ==
  ASSUME NEW S, NEW s \in Seq(S), NEW n \in Int
  PROVE  /\ First(s, n) \in Seq(S) /\ Len(s) \in Nat
         /\ n >= 0 => Len(First(s, n)) = IF n < Len(s) THEN n ELSE Len(s)
         /\ n < 0 => First(s, n) = << >>
         /\ n >= Len(s) => First(s, n) = s
<1>1. Len(s) \in Nat
  OBVIOUS
<1>2. CASE n >= Len(s)
  <2>1. First(s, n) = SubSeq(s, 1, Len(s))
    BY <1>1, <1>2 DEF First
  <2>2. SubSeq(s, 1, Len(s)) = s
    OBVIOUS
  <2> QED
    BY <1>1, <1>2, <2>1, <2>2
<1>3. CASE n < Len(s)
  <2>1. First(s, n) = SubSeq(s, 1, n)
    BY <1>1, <1>3 DEF First
  <2>2. CASE n >= 1
    <3>1. SubSeq(s, 1, n) \in Seq(S) /\ Len(SubSeq(s, 1, n)) = n
      BY <1>1, <1>3, <2>2
    <3> QED
      BY <1>1, <1>3, <2>1, <2>2, <3>1
  <2>3. CASE n < 1
    <3>1. SubSeq(s, 1, n) = << >>
      BY <1>1, <2>3
    <3>2. << >> \in Seq(S) /\ Len(<< >>) = 0
      OBVIOUS
    <3> QED
      BY <1>1, <1>3, <2>1, <2>3, <3>1, <3>2
  <2> QED
    BY <2>2, <2>3
<1> QED
  BY <1>1, <1>2, <1>3

LEMMA RestIs ==
  ASSUME NEW S, NEW s \in Seq(S), NEW n \in Nat
  PROVE  Rest(s, n) \in Seq(S) /\ (n <= Len(s) => Len(Rest(s, n)) = Len(s) - n)
BY DEF Rest

LEMMA Wider ==
  ASSUME NEW S, NEW T, S \subseteq T, NEW s \in Seq(S)
  PROVE  s \in Seq(T)
<1>1. Len(s) \in Nat /\ s \in [1 .. Len(s) -> S]
  OBVIOUS
<1>2. s \in [1 .. Len(s) -> T]
  BY <1>1
<1> QED
  BY <1>1, <1>2

\* The command for an item with another length.
AskedFor(l, i, length) ==
  [cmd |-> "U", space |-> l[i].space, start |-> l[i].start, length |-> length]

\* The bytes of an item, and at least as many more as its check sum has.
Begins(l, i, answer) ==
  LET m == l[i].length * WordSize[l[i].space]
  IN /\ Len(answer) >= m + WordSize[l[i].space]
     /\ \A k \in 1 .. m : answer[k] = Uploaded(l, i)[k]

\* The answer to an upload with a fault at most: of a byte of it, or of the length
\* that was asked for.
Answered(l, i, answer, count) ==
  LET right == Right(l, i)
  IN /\ count = 0 => answer = right
     /\ count = 1 => \/ answer = right \/ Len(answer) < Len(right) \/ Begins(l, i, answer)
                     \/ \E j \in DOMAIN right, b \in Byte : answer = [right EXCEPT ![j] = b]

Exact(l, i, length, count) == length \in Nat /\ (count = 0 => length = l[i].length)
Asked(l, commands) ==
  \/ commands \in {<< >>, <<[cmd |-> "OK"]>>}
  \/ \E i \in DOMAIN l, length \in Nat : commands = <<AskedFor(l, i, length)>>

\* The invariant of an upload: what is on the line, and what is in the file.
LineOK ==
  /\ fromKit \in Seq(0 .. Base + 1) /\ Asked(list, toKit) /\ faults \in Nat
  /\ pc \in {"start", "upload"} => toKit = << >>
  /\ pc = "alive" /\ toKit # << >> => fromKit = << >>
  /\ pc = "data" =>
       /\ toKit # << >> => /\ fromKit = << >>
                           /\ \E length : /\ Exact(list, at, length, faults)
                                          /\ toKit = <<AskedFor(list, at, length)>>
       /\ toKit = << >> => Answered(list, at, fromKit, faults)
HostOK ==
  /\ list \in UploadLists /\ machine = "218X" /\ memory = InitialMemory
  /\ pc \in {"start", "alive", "upload", "data", "done", "failed", "aborted"}
  /\ at \in 1 .. Len(list) + 1
  /\ pc \in {"start", "alive"} => at = 1
  /\ pc = "data" => at <= Len(list)
  /\ pc = "done" => at = Len(list) + 1
FileOK ==
  pc \notin {"failed", "aborted"} /\ faults <= 1 => file = Upto(list)[at - 1]
Uploading == LineOK /\ HostOK /\ FileOK
UploadOK == list # << >> /\ ~ misled => Uploading

LEMMA UploadInit ==
  ASSUME Init, list # << >>
  PROVE  Uploading
<1>1. list \in UploadLists /\ machine = "218X"
  BY DEF Init
<1>2. Len(list) \in Nat /\ Upto(list)[0] = << >>
  BY <1>1, ItemIs, UptoIs
<1>3. /\ pc = "start" /\ at = 1 /\ file = << >> /\ toKit = << >> /\ fromKit = << >>
      /\ faults = 0 /\ memory = InitialMemory
  BY DEF Init
<1>4. << >> \in Seq(0 .. Base + 1)
  OBVIOUS
<1>5. LineOK
  BY <1>3, <1>4 DEF LineOK, Asked
<1>6. HostOK
  BY <1>1, <1>2, <1>3 DEF HostOK
<1>7. FileOK
  BY <1>2, <1>3 DEF FileOK
<1> QED
  BY <1>5, <1>6, <1>7 DEF Uploading

LEMMA AskedIs ==
  ASSUME NEW l, NEW commands, Asked(l, commands), commands # << >>
  PROVE  /\ Head(commands).cmd \in {"OK", "U"} /\ Tail(commands) = << >>
         /\ Head(commands).cmd = "U" =>
              \E i \in DOMAIN l, length \in Nat : Head(commands) = AskedFor(l, i, length)
<1>1. CASE commands = <<[cmd |-> "OK"]>>
  BY <1>1
<1>2. ASSUME NEW i \in DOMAIN l, NEW length \in Nat, commands = <<AskedFor(l, i, length)>>
      PROVE  /\ Head(commands).cmd \in {"OK", "U"} /\ Tail(commands) = << >>
             /\ Head(commands) = AskedFor(l, i, length)
  BY <1>2 DEF AskedFor
<1> QED
  BY <1>1, <1>2 DEF Asked

\* The host's side of an upload.
LEMMA UploadHostStep ==
  ASSUME Uploading, list # << >>, Host
  PROVE  Uploading'
<1> USE DEF Uploading
<1>1. /\ Len(list) \in Nat /\ DOMAIN list = 1 .. Len(list) /\ at \in 1 .. Len(list) + 1
      /\ at \in Nat /\ list \in UploadLists
  BY ItemIs DEF HostOK
<1>2. << >> \in Seq(0 .. Base + 1)
  OBVIOUS
<1>3. Rest(fromKit, 6) \in Seq(0 .. Base + 1)
  <2>1. fromKit \in Seq(0 .. Base + 1) /\ 6 \in Nat
    BY DEF LineOK
  <2> QED
    BY <2>1, RestIs
<1>4. CASE Alive
  <2>1. /\ pc = "start" /\ pc' = "alive" /\ list' = list /\ machine' = machine /\ at' = at
        /\ memory' = memory /\ faults' = faults /\ file' = file /\ fromKit' = << >>
        /\ toKit' = Append(toKit, [cmd |-> "OK"])
    BY <1>4 DEF Alive, Send, jobVars, kitVars
  <2>2. toKit' = <<[cmd |-> "OK"]>>
    BY <2>1 DEF LineOK
  <2>3. LineOK'
    BY <1>2, <2>1, <2>2 DEF LineOK, Asked
  <2>4. HostOK'
    BY <2>1 DEF HostOK
  <2>5. FileOK'
    BY <2>1 DEF FileOK
  <2> QED
    BY <2>3, <2>4, <2>5
<1>5. CASE AliveReply
  <2>1. /\ pc = "alive" /\ list' = list /\ machine' = machine /\ at' = at
        /\ memory' = memory /\ faults' = faults /\ file' = file /\ fromKit' = Rest(fromKit, 6)
        /\ toKit' = toKit /\ pc' \in {"failed", "upload"}
        /\ pc' = "upload" => First(fromKit, 2) = Ok
    BY <1>5 DEF AliveReply, Receive, jobVars, kitVars
  <2>2. pc' = "upload" => toKit = << >>
    <3>1. fromKit = << >> => First(fromKit, 2) # Ok
      BY DEF First, Ok
    <3> QED
      BY <2>1, <3>1 DEF LineOK
  <2>3. LineOK'
    BY <1>3, <2>1, <2>2 DEF LineOK
  <2>4. HostOK'
    BY <2>1 DEF HostOK
  <2>5. FileOK'
    BY <2>1 DEF FileOK
  <2> QED
    BY <2>3, <2>4, <2>5
<1>6. CASE Upload
  <2>1. /\ pc = "upload" /\ pc' \in {"data", "aborted"} /\ list' = list
        /\ machine' = machine /\ at' = at
        /\ memory' = memory /\ faults' = faults /\ file' = file /\ fromKit' = << >>
        /\ toKit' = Append(toKit, AskedFor(list, at, list[at].length)) /\ at <= Len(list)
    BY <1>6 DEF Upload, Send, jobVars, kitVars, AskedFor
  <2>2. toKit' = <<AskedFor(list, at, list[at].length)>>
    BY <2>1 DEF LineOK
  <2>3. at \in DOMAIN list /\ Exact(list, at, list[at].length, faults)
    BY <1>1, <2>1, ItemIs DEF Exact
  <2>7. Asked(list, toKit')
    BY <2>2, <2>3 DEF Asked, Exact
  <2>4. LineOK'
    BY <1>2, <2>1, <2>2, <2>3, <2>7 DEF LineOK
  <2>5. HostOK'
    BY <2>1 DEF HostOK
  <2>6. FileOK'
    BY <2>1 DEF FileOK
  <2> QED
    BY <2>4, <2>5, <2>6
<1>7. CASE UploadReply
  <2> DEFINE n == WordSize[list[at].space]
             m == list[at].length * n
             got == Received(m + n)
             data == First(got, Len(got) - n)
  <2>1. /\ pc = "data" /\ list' = list /\ machine' = machine /\ memory' = memory
        /\ faults' = faults /\ toKit' = toKit /\ fromKit' = Rest(fromKit, m + n)
        /\ \/ pc' = "aborted" /\ at' = at
           \/ /\ Len(data) = m /\ GoodUpload(data, Last(got, n), n)
              /\ pc' = "upload" /\ at' = at + 1 /\ file' = file \o data
           \/ pc' = "failed" /\ at' = at
    BY <1>7 DEF UploadReply, Receive, jobVars, kitVars
  <2>2. at <= Len(list) /\ at \in DOMAIN list /\ at \in 1 .. Len(list)
    BY <1>1, <2>1 DEF HostOK
  <2>3. fromKit \in Seq(0 .. Base + 1)
    BY DEF LineOK
  <2>4. /\ n \in Sizes /\ m \in Nat /\ m > 0 /\ Len(Right(list, at)) = m + n
    <3>1. /\ n \in Sizes /\ m \in Nat /\ m > 0 /\ Len(Right(list, at)) = m + n
      BY <1>1, <2>2, RightIs
    <3> QED
      BY <3>1
  <2> HIDE DEF n, m
  <2>10. n \in Nat \ {0} /\ m + n \in Nat /\ m + n > 0
    BY <2>4 DEF Sizes
  <2>5. /\ got \in Seq(0 .. Base + 1) /\ Len(got) \in Nat /\ Rest(fromKit, m + n) \in Seq(0 .. Base + 1)
        /\ Len(fromKit) \in Nat
    <3>1. got \in Seq(0 .. Base + 1) /\ Len(fromKit) \in Nat
      BY <2>3, <2>10, FirstIs DEF Received
    <3> HIDE DEF got
    <3> QED
      BY <2>3, <2>10, <3>1, FirstIs, RestIs
  <2>6. Len(fromKit) < m + n => got = fromKit /\ Len(data) # m
    <3>1. ASSUME Len(fromKit) < m + n PROVE got = fromKit
      BY <2>3, <2>5, <2>10, <3>1, FirstIs DEF Received
    <3>2. ASSUME Len(fromKit) < m + n PROVE Len(data) # m
      <4> DEFINE g == got
                 k == Len(g) - n
      <4>1. g \in Seq(0 .. Base + 1) /\ Len(g) < m + n /\ Len(g) \in Nat
        BY <2>3, <2>5, <3>1, <3>2
      <4> HIDE DEF g
      <4>2. k \in Int /\ k < Len(g) /\ k < m
        BY <2>4, <2>10, <4>1
      <4>3. Len(First(g, k)) # m
        <5> HIDE DEF k
        <5>1. k >= 0 => Len(First(g, k)) = k
          BY <4>1, <4>2, FirstIs
        <5>2. k < 0 => First(g, k) = << >> /\ Len(<< >>) = 0
          BY <4>1, <4>2, FirstIs
        <5> QED
          BY <2>4, <4>2, <5>1, <5>2
      <4> QED
        BY <4>3 DEF g, k
    <3> QED
      BY <3>1, <3>2
  <2>7. LineOK'
    <3>1. pc' \notin {"start", "alive", "data"}
      BY <2>1
    <3>2. pc' = "upload" => toKit = << >>
      <4>1. pc' = "upload" => Len(data) = m
        BY <2>1
      <4>2. toKit # << >> => fromKit = << >>
        BY <2>1 DEF LineOK
      <4>3. fromKit = << >> => Len(fromKit) < m + n
        <5>1. Len(<< >>) = 0
          OBVIOUS
        <5> QED
          BY <2>10, <5>1
      <4> QED
        BY <2>6, <4>1, <4>2, <4>3
    <3> QED
      BY <2>1, <2>5, <3>1, <3>2 DEF LineOK
  <2>8. HostOK'
    <3>1. at + 1 \in 1 .. Len(list) + 1
      BY <1>1, <2>2
    <3> QED
      BY <1>1, <2>1, <3>1 DEF HostOK
  <2>9. FileOK'
    <3> SUFFICES ASSUME pc' \notin {"failed", "aborted"}, faults' <= 1
                 PROVE  file' = Upto(list')[at' - 1]
      BY DEF FileOK
    <3>1. /\ Len(data) = m /\ GoodUpload(data, Last(got, n), n)
          /\ pc' = "upload" /\ at' = at + 1 /\ file' = file \o data
      BY <2>1
    <3>2. file = Upto(list)[at - 1]
      BY <2>1 DEF FileOK
    <3>3. toKit = << >> /\ Answered(list, at, fromKit, faults)
      <4>1. ~ (Len(fromKit) < m + n)
        BY <2>6, <3>1
      <4>2. fromKit # << >>
        <5>1. Len(<< >>) = 0
          OBVIOUS
        <5> QED
          BY <2>10, <4>1, <5>1
      <4> QED
        BY <2>1, <4>2 DEF LineOK
    <3>4. \/ Begins(list, at, fromKit)
          \/ fromKit = Right(list, at)
          \/ \E j \in DOMAIN Right(list, at), b \in Byte :
               fromKit = [Right(list, at) EXCEPT ![j] = b]
      <4>1. faults = 0 \/ faults = 1
        BY <2>1 DEF LineOK
      <4>2. ~ (Len(fromKit) < Len(Right(list, at)))
        BY <2>4, <2>6, <3>1
      <4> QED
        BY <3>3, <4>1, <4>2 DEF Answered
    <3>10. ~ Begins(list, at, fromKit) => got = fromKit /\ Len(got) = m + n
      <4> SUFFICES ASSUME ~ Begins(list, at, fromKit) PROVE got = fromKit /\ Len(got) = m + n
        OBVIOUS
      <4>1. Len(fromKit) = m + n
        <5>1. CASE fromKit = Right(list, at)
          BY <2>4, <5>1
        <5>2. ASSUME NEW j \in DOMAIN Right(list, at), NEW b \in Byte,
                     fromKit = [Right(list, at) EXCEPT ![j] = b]
              PROVE  Len(fromKit) = m + n
          <6>1. Right(list, at) \in Seq(Byte)
            BY <1>1, <2>2, RightIs DEF n, m
          <6> QED
            BY <2>4, <5>2, <6>1
        <5> QED
          BY <3>4, <5>1, <5>2
      <4> QED
        BY <2>3, <2>10, <4>1, FirstIs DEF Received
    <3>5. ASSUME Begins(list, at, fromKit) PROVE data = Uploaded(list, at)
      <4>1. /\ Len(fromKit) >= m + n /\ m + n \in Nat
            /\ \A k \in 1 .. m : fromKit[k] = Uploaded(list, at)[k]
        BY <2>10, <3>5 DEF Begins, n, m
      <4>2. got = SubSeq(fromKit, 1, m + n) /\ Len(got) = m + n
            /\ \A k \in 1 .. m + n : got[k] = fromKit[k]
        BY <2>3, <2>5, <4>1 DEF Received, First
      <4> DEFINE g == got
      <4>3. g \in Seq(0 .. Base + 1) /\ Len(g) = m + n /\ \A k \in 1 .. m + n : g[k] = fromKit[k]
        BY <2>5, <4>2
      <4> HIDE DEF g
      <4>4. data = First(g, m)
        <5>1. data = First(g, Len(g) - n) /\ Len(g) - n = m
          BY <2>4, <2>10, <4>3 DEF g
        <5> QED
          BY <5>1
      <4>5. First(g, m) = SubSeq(g, 1, m)
        BY <2>4, <2>10, <4>3 DEF First
      <4> DEFINE d == SubSeq(g, 1, m)
      <4>6. d = [k \in 1 .. m |-> g[k]] /\ \A k \in 1 .. m : d[k] = g[k]
        <5>1. m \in Nat /\ m <= Len(g) /\ Len(g) \in Nat
          BY <2>4, <2>10, <4>3
        <5>2. d = [k \in 1 .. m |-> g[k]]
          BY <4>3, <5>1
        <5> QED
          BY <5>1, <5>2
      <4> HIDE DEF d
      <4>7. \A k \in 1 .. m : d[k] = Uploaded(list, at)[k]
        BY <2>4, <2>10, <4>1, <4>3, <4>6
      <4> DEFINE u == Uploaded(list, at)
      <4>8. u \in Seq(Byte) /\ Len(u) = m
        BY <1>1, <2>2, UploadedIs DEF n, m
      <4> HIDE DEF u
      <4>9. d = u
        <5>1. u = [k \in 1 .. m |-> u[k]]
          BY <4>8
        <5>2. \A k \in 1 .. m : g[k] = u[k]
          BY <4>6, <4>7 DEF u
        <5> QED
          BY <4>6, <5>1, <5>2
      <4> QED
        BY <4>4, <4>5, <4>9 DEF d, u
    <3>11. ASSUME ~ Begins(list, at, fromKit) PROVE data = Uploaded(list, at)
      <4> DEFINE g == got
      <4>1. /\ g \in Seq(0 .. Base + 1) /\ Len(g) = m + n
            /\ GoodUpload(First(g, Len(g) - n), Last(g, n), n)
            /\ \/ g = Right(list, at)
               \/ \E j \in DOMAIN Right(list, at), b \in Byte : g = [Right(list, at) EXCEPT ![j] = b]
        BY <2>5, <3>1, <3>4, <3>10, <3>11, Zenon
      <4> HIDE DEF g
      <4>2. n = WordSize[list[at].space] /\ m = list[at].length * n
        BY DEF n, m
      <4>3. First(g, Len(g) - n) = Uploaded(list, at)
        <5>1. Checked(list, at, n, m, g)
          BY <1>1, <2>2, <2>10, <4>1, <4>2 DEF Checked
        <5> QED
          BY <5>1, CheckedSent, Zenon
      <4> QED
        BY <4>3 DEF g
    <3>6. data = Uploaded(list, at)
      BY <3>5, <3>11
    <3>7. Upto(list)[at] = Upto(list)[at - 1] \o Uploaded(list, at)
      BY <1>1, <2>2, UptoIs
    <3>8. at' - 1 = at
      BY <1>1, <3>1
    <3>9. file' = Upto(list)[at]
      BY <3>1, <3>2, <3>6, <3>7, Zenon
    <3> QED
      BY <2>1, <3>8, <3>9, Zenon
  <2> QED
    BY <2>7, <2>8, <2>9
<1>8. CASE EndUpload
  <2>1. /\ pc = "upload" /\ pc' = "done" /\ list' = list /\ machine' = machine /\ at' = at
        /\ memory' = memory /\ faults' = faults /\ file' = file /\ fromKit' = fromKit
        /\ toKit' = toKit /\ at > Len(list)
    BY <1>8 DEF EndUpload, jobVars, kitVars, lineVars
  <2>2. LineOK'
    BY <2>1 DEF LineOK
  <2>3. HostOK'
    BY <1>1, <2>1 DEF HostOK
  <2>4. FileOK'
    BY <2>1 DEF FileOK
  <2> QED
    BY <2>2, <2>3, <2>4
<1>11. CASE RefuseUpload
  <2>1. /\ pc' = "failed" /\ list' = list /\ machine' = machine /\ at' = at
        /\ memory' = memory /\ faults' = faults /\ fromKit' = fromKit /\ toKit' = toKit
    BY <1>11 DEF RefuseUpload, jobVars, kitVars, lineVars
  <2>2. LineOK'
    BY <2>1 DEF LineOK
  <2>3. HostOK'
    BY <2>1 DEF HostOK
  <2>4. FileOK'
    BY <2>1 DEF FileOK
  <2> QED
    BY <2>2, <2>3, <2>4
<1>9. pc \in {"start", "alive", "upload", "data", "done", "failed", "aborted"} /\ machine = "218X"
  BY DEF HostOK
<1>10. Alive \/ AliveReply \/ Upload \/ RefuseUpload \/ UploadReply \/ EndUpload
  BY <1>9 DEF Host, NextSection, Download, DownloadReply, EndOfSection, Go, GoReply, Autobaud,
         AutobaudReply, Control, SkipFinal, Block, FinalBlock, EndBoot, AckReply
<1> QED
  BY <1>4, <1>5, <1>6, <1>7, <1>8, <1>10, <1>11

\* What the kit answers when the length that it was asked for may be another one.
LEMMA PartAnswered ==
  ASSUME NEW l \in UploadLists, NEW i \in DOMAIN l, NEW count \in Nat,
         NEW length, Exact(l, i, length, count)
  PROVE  Answered(l, i, PartAnswer(l, i, length), count)
<1> DEFINE n == WordSize[l[i].space]
           m == l[i].length * n
           r == PartAnswer(l, i, length)
<1>1. n \in Sizes /\ l[i].length \in Nat /\ length \in Nat
  BY ItemIs DEF Exact
<1>2. Len(Right(l, i)) = m + n
  BY RightIs
<1>3. Summed(Part(l, i, length), r, length * n, n)
  BY <1>1, PartAnswerIs
<1>4. Len(r) = length * n + n /\ \A k \in 1 .. length * n : r[k] = Part(l, i, length)[k]
  BY <1>3 DEF Summed
<1> HIDE DEF r
<1>5. CASE length = l[i].length
  <2>1. r = Right(l, i)
    BY <1>5 DEF Right, r
  <2> QED
    BY <2>1 DEF Answered, r
<1>6. CASE length < l[i].length
  <2>1. Len(r) < Len(Right(l, i))
    <3>1. n = 2 \/ n = 3
      BY <1>1 DEF Sizes
    <3> HIDE DEF n
    <3> QED
      BY <1>1, <1>2, <1>4, <1>6, <3>1
  <2>2. count # 0
    BY <1>6, <1>1 DEF Exact
  <2> QED
    BY <2>1, <2>2 DEF Answered, r
<1>7. CASE length > l[i].length
  <2>1. length * n + n >= m + n /\ 1 .. m \subseteq 1 .. length * n
    <3>1. n = 2 \/ n = 3
      BY <1>1 DEF Sizes
    <3> HIDE DEF n
    <3> QED
      BY <1>1, <1>7, <3>1
  <2>2. \A k \in 1 .. m : r[k] = Uploaded(l, i)[k]
    <3>1. ASSUME NEW k \in 1 .. m PROVE r[k] = Uploaded(l, i)[k]
      <4>1. Part(l, i, length)[k] = Uploaded(l, i)[k]
        BY <1>1, <1>7, PartBegins
      <4>2. k \in 1 .. length * n
        BY <2>1
      <4> QED
        BY <1>4, <4>1, <4>2
    <3> QED
      BY <3>1
  <2>3. Begins(l, i, r)
    BY <1>4, <2>1, <2>2 DEF Begins
  <2>4. count # 0
    BY <1>7, <1>1 DEF Exact
  <2> QED
    BY <2>3, <2>4 DEF Answered, r
<1> QED
  BY <1>1, <1>5, <1>6, <1>7

\* The kit's side.
LEMMA UploadKitStep ==
  ASSUME Uploading, list # << >>, Kit
  PROVE  Uploading'
<1> USE DEF Uploading
<1>1. Asked(list, toKit) /\ fromKit \in Seq(0 .. Base + 1) /\ list \in UploadLists
  BY DEF LineOK, HostOK
<1>2. Base \in Nat
  BY KitAssumption
<1>3. KitAlive \/ KitRead
  <2>1. toKit # << >> => Head(toKit).cmd \in {"OK", "U"}
    BY <1>1, AskedIs
  <2> QED
    BY <2>1 DEF Kit, KitStore, KitGo, LoaderStart, LoaderControl, LoaderBlock, Serve
<1>4. /\ toKit # << >> /\ list' = list /\ machine' = machine /\ memory' = memory
      /\ UNCHANGED hostVars /\ faults' = faults /\ toKit' = Tail(toKit)
  BY <1>3 DEF KitAlive, KitRead, Serve, Answer, jobVars, kitVars
<1>5. pc' = pc /\ at' = at /\ file' = file
  BY <1>4 DEF hostVars
<1>6. toKit' = << >>
  BY <1>1, <1>4, AskedIs
<1>7. HostOK'
  BY <1>4, <1>5 DEF HostOK
<1>8. FileOK'
  BY <1>4, <1>5 DEF FileOK
<1>9. pc # "data" /\ pc # "start" /\ pc # "upload" /\ fromKit' \in Seq(0 .. Base + 1) => LineOK'
  BY <1>4, <1>5, <1>6 DEF LineOK, Asked
<1>10. CASE KitAlive
  <2>1. Head(toKit).cmd = "OK" /\ fromKit' = fromKit \o Ok
    BY <1>10 DEF KitAlive, Serve, Answer
  <2>2. fromKit' \in Seq(0 .. Base + 1)
    <3>1. Ok \in Seq(0 .. Base + 1)
      BY <1>2 DEF Ok
    <3> QED
      BY <1>1, <2>1, <3>1
  <2>3. pc # "data" /\ pc # "start" /\ pc # "upload"
    <3>1. \A length : Head(<<AskedFor(list, at, length)>>).cmd = "U"
      BY DEF AskedFor
    <3> QED
      BY <1>4, <2>1, <3>1 DEF LineOK
  <2> QED
    BY <1>7, <1>8, <1>9, <2>2, <2>3
<1>11. CASE KitRead
  <2>1. PICK i \in DOMAIN list, length \in Nat : Head(toKit) = AskedFor(list, i, length)
    BY <1>1, <1>4, <1>11, AskedIs DEF KitRead, Serve
  <2> DEFINE c == Head(toKit)
             n == WordSize[list[i].space]
             data == BytesOf(Read(list[i].space, list[i].start, length), n)
  <2>2. c.space = list[i].space /\ c.start = list[i].start /\ c.length = length
    BY <2>1 DEF AskedFor
  <2>3. fromKit' = fromKit \o (data \o Bytes(check_sum(data, n), n))
    BY <1>11, <2>2 DEF KitRead, Answer
  <2>4. data = Part(list, i, length)
    <3>1. memory = InitialMemory
      BY DEF HostOK
    <3> QED
      BY <3>1 DEF Part, Content, Read
  <2> DEFINE r == PartAnswer(list, i, length)
  <2>5. fromKit' = fromKit \o r
    <3> HIDE DEF data
    <3> QED
      BY <2>3, <2>4 DEF PartAnswer
  <2>6. r \in Seq(Byte) /\ r \in Seq(0 .. Base + 1)
    <3>1. r \in Seq(Byte)
      BY <1>1, PartAnswerIs DEF Summed
    <3>2. Byte \subseteq 0 .. Base + 1
      BY <1>2 DEF Byte
    <3> HIDE DEF r
    <3> QED
      BY <3>1, <3>2, Wider
  <2> HIDE DEF r
  <2>7. fromKit' \in Seq(0 .. Base + 1)
    BY <1>1, <2>5, <2>6
  <2>8. CASE pc = "data"
    <3>1. PICK k : Exact(list, at, k, faults) /\ toKit = <<AskedFor(list, at, k)>>
      BY <1>4, <2>8 DEF LineOK
    <3>2. fromKit = << >> /\ at \in DOMAIN list /\ faults \in Nat
      BY <1>1, <1>4, <2>8, ItemIs DEF LineOK, HostOK
    <3>3. r = PartAnswer(list, at, k)
      <4>1. AskedFor(list, i, length) = AskedFor(list, at, k)
        BY <2>1, <3>1
      <4>2. list[i].space = list[at].space /\ list[i].start = list[at].start /\ length = k
        BY <4>1 DEF AskedFor
      <4> QED
        BY <4>2 DEF r, PartAnswer, Part, Content
    <3>4. fromKit' = r
      BY <2>5, <2>6, <3>2
    <3>5. Answered(list, at, fromKit', faults)
      BY <1>1, <3>1, <3>2, <3>3, <3>4, PartAnswered
    <3>6. LineOK'
      BY <1>4, <1>5, <1>6, <2>7, <2>8, <3>5 DEF LineOK, Asked
    <3> QED
      BY <1>7, <1>8, <3>6
  <2>9. CASE pc # "data"
    <3>1. pc # "start" /\ pc # "upload"
      BY <1>4 DEF LineOK
    <3> QED
      BY <1>7, <1>8, <1>9, <2>7, <2>9, <3>1
  <2> QED
    BY <2>8, <2>9
<1> QED
  BY <1>3, <1>10, <1>11

\* The line.
LEMMA UploadLineStep ==
  ASSUME Uploading, list # << >>, Line, ~ misled'
  PROVE  Uploading'
<1> USE DEF Uploading
<1>1. Asked(list, toKit) /\ fromKit \in Seq(0 .. Base + 1) /\ list \in UploadLists
      /\ faults \in Nat /\ Len(fromKit) \in Nat
  BY DEF LineOK, HostOK
<1>2. Base \in Nat
  BY KitAssumption
<1>3. DamageUpload \/ LoseCommand \/ DamageReply \/ LoseReply
  <2>1. toKit # << >> => Head(toKit).cmd \in {"OK", "U"}
    BY <1>1, AskedIs
  <2> QED
    BY <2>1 DEF Line, DamageDownload
<1>4. /\ list' = list /\ machine' = machine /\ memory' = memory /\ UNCHANGED hostVars
      /\ faults' = faults + 1
  BY <1>3 DEF DamageUpload, LoseCommand, DamageReply, LoseReply, Fault, jobVars, kitVars
<1>5. pc' = pc /\ at' = at /\ file' = file
  BY <1>4 DEF hostVars
<1>6. HostOK'
  BY <1>4, <1>5 DEF HostOK
<1>7. FileOK'
  BY <1>1, <1>4, <1>5 DEF FileOK
<1>8. pc = "data" => /\ at \in DOMAIN list /\ Right(list, at) \in Seq(Byte)
                     /\ Len(Right(list, at)) \in Nat /\ Len(Right(list, at)) > 0
  <2> SUFFICES ASSUME pc = "data"
               PROVE  /\ at \in DOMAIN list /\ Right(list, at) \in Seq(Byte)
                      /\ Len(Right(list, at)) \in Nat /\ Len(Right(list, at)) > 0
    OBVIOUS
  <2>1. at \in DOMAIN list
    BY <1>1, ItemIs DEF HostOK
  <2> DEFINE n == WordSize[list[at].space]
             m == list[at].length * n
  <2>2. Right(list, at) \in Seq(Byte) /\ Len(Right(list, at)) = m + n /\ n \in Sizes /\ m \in Nat
    BY <1>1, <2>1, RightIs
  <2>3. Len(Right(list, at)) = m + n /\ n \in Nat \ {0} /\ m \in Nat
    BY <2>2 DEF Sizes
  <2> HIDE DEF n, m
  <2> QED
    BY <2>1, <2>2, <2>3
<1>9. faults + 1 # 0 /\ (faults + 1 = 1 => faults = 0) /\ faults + 1 \in Nat
  BY <1>1
<1>10. CASE LoseCommand
  <2>1. toKit # << >> /\ toKit' = << >> /\ fromKit' = fromKit
    BY <1>1, <1>10, AskedIs DEF LoseCommand
  <2>2. pc = "data" => Answered(list, at, fromKit, faults + 1)
    <3>1. pc = "data" => fromKit = << >>
      BY <2>1 DEF LineOK
    <3> QED
      BY <1>8, <1>9, <3>1 DEF Answered
  <2>3. LineOK'
    BY <1>4, <1>5, <1>9, <2>1, <2>2 DEF LineOK, Asked
  <2> QED
    BY <1>6, <1>7, <2>3
<1>11. ASSUME toKit' = toKit, fromKit' \in Seq(0 .. Base + 1), fromKit # << >>,
              pc = "data" /\ faults = 0 /\ fromKit = Right(list, at) =>
                Answered(list, at, fromKit', 1)
       PROVE  Uploading'
  <2>1. pc = "data" /\ toKit = << >> => Answered(list, at, fromKit', faults + 1)
    <3> SUFFICES ASSUME pc = "data", toKit = << >> PROVE Answered(list, at, fromKit', faults + 1)
      OBVIOUS
    <3>1. CASE faults = 0
      <4>1. fromKit = Right(list, at)
        BY <3>1 DEF LineOK, Answered
      <4> QED
        BY <1>11, <3>1, <4>1
    <3>2. CASE faults # 0
      BY <1>9, <3>2 DEF Answered
    <3> QED
      BY <3>1, <3>2
  <2>2. pc \in {"alive", "data"} => toKit = << >>
    BY <1>11 DEF LineOK
  <2>3. LineOK'
    BY <1>1, <1>4, <1>5, <1>9, <1>11, <2>1, <2>2 DEF LineOK
  <2> QED
    BY <1>6, <1>7, <2>3
<1>12. CASE DamageReply
  <2>1. PICK i \in DOMAIN fromKit : \E b \in Byte : fromKit' = [fromKit EXCEPT ![i] = b]
    BY <1>12 DEF DamageReply
  <2>2. PICK b \in Byte : fromKit' = [fromKit EXCEPT ![i] = b]
    BY <2>1
  <2>3. toKit' = toKit
    BY <1>12 DEF DamageReply
  <2>4. b \in 0 .. Base + 1
    BY <1>2 DEF Byte
  <2>5. fromKit' \in Seq(0 .. Base + 1) /\ fromKit # << >>
    BY <1>1, <2>2, <2>4
  <2>6. pc = "data" /\ fromKit = Right(list, at) => Answered(list, at, fromKit', 1)
    <3> SUFFICES ASSUME fromKit = Right(list, at) PROVE Answered(list, at, fromKit', 1)
      OBVIOUS
    <3>1. i \in DOMAIN Right(list, at) /\ fromKit' = [Right(list, at) EXCEPT ![i] = b]
      BY <2>2
    <3>2. \E j \in DOMAIN Right(list, at), c \in Byte : fromKit' = [Right(list, at) EXCEPT ![j] = c]
      BY <3>1, Zenon
    <3>3. 1 # 0
      OBVIOUS
    <3> QED
      BY <3>2, <3>3, Zenon DEF Answered
  <2> QED
    BY <1>11, <2>3, <2>5, <2>6
<1>13. CASE LoseReply
  <2>1. PICK i \in DOMAIN fromKit : fromKit' = First(fromKit, i - 1) \o Rest(fromKit, i)
    BY <1>13 DEF LoseReply
  <2>2. toKit' = toKit
    BY <1>13 DEF LoseReply
  <2>3. i \in 1 .. Len(fromKit) /\ fromKit # << >>
    BY <1>1
  <2>4. /\ First(fromKit, i - 1) \in Seq(0 .. Base + 1) /\ Len(First(fromKit, i - 1)) = i - 1
        /\ Rest(fromKit, i) \in Seq(0 .. Base + 1) /\ Len(Rest(fromKit, i)) = Len(fromKit) - i
    <3>1. i - 1 \in Int /\ i - 1 >= 0 /\ i - 1 < Len(fromKit) /\ i \in Nat /\ i <= Len(fromKit)
      BY <1>1, <2>3
    <3>2. First(fromKit, i - 1) \in Seq(0 .. Base + 1) /\ Len(First(fromKit, i - 1)) = i - 1
      BY <1>1, <3>1, FirstIs
    <3>3. Rest(fromKit, i) \in Seq(0 .. Base + 1) /\ Len(Rest(fromKit, i)) = Len(fromKit) - i
      BY <1>1, <3>1, RestIs
    <3> QED
      BY <3>2, <3>3
  <2>5. fromKit' \in Seq(0 .. Base + 1) /\ Len(fromKit') = Len(fromKit) - 1
    BY <1>1, <2>1, <2>3, <2>4
  <2>6. pc = "data" /\ fromKit = Right(list, at) => Answered(list, at, fromKit', 1)
    BY <1>1, <2>5 DEF Answered
  <2> QED
    BY <1>11, <2>2, <2>3, <2>5, <2>6
<1>14. CASE DamageUpload
  <2> DEFINE c == Head(toKit)
  <2>1. toKit # << >> /\ c.cmd = "U"
    BY <1>14 DEF DamageUpload
  <2>2. PICK i \in DOMAIN list, k \in Nat : c = AskedFor(list, i, k)
    BY <1>1, <2>1, AskedIs
  <2>3. Tail(toKit) = << >>
    BY <1>1, <2>1, AskedIs
  <2> HIDE DEF c
  <2>4. \A e : Damage(e) => /\ toKit' = <<e>> /\ fromKit' = fromKit
                           /\ e.space = c.space /\ e.start = c.start
    <3> SUFFICES ASSUME NEW e, Damage(e)
                 PROVE  /\ toKit' = <<e>> /\ fromKit' = fromKit
                        /\ e.space = c.space /\ e.start = c.start
      OBVIOUS
    <3>1. toKit' = <<e>> /\ fromKit' = fromKit
      <4>1. toKit' = <<e>> \o Tail(toKit) /\ fromKit' = fromKit
        BY Zenon DEF Damage
      <4>2. <<e>> \in Seq({e})
        OBVIOUS
      <4>3. <<e>> \o << >> = <<e>>
        BY ONLY <4>2
      <4> QED
        BY <2>3, <4>1, <4>3
    <3>2. e.space = c.space /\ e.start = c.start
      BY Zenon DEF Damage, c
    <3> QED
      BY <3>1, <3>2
  <2>5. \/ \E start \in Address : Damage([c EXCEPT !.start = start])
        \/ \E length \in 0 .. Values(2) - 1 : Damage([c EXCEPT !.length = length])
        \/ \E space \in Space : Damage([c EXCEPT !.space = space])
    BY <1>14 DEF DamageUpload, c
  <2>6. \E length \in Nat : toKit' = <<[c EXCEPT !.length = length]>> /\ fromKit' = fromKit
    <3>1. c = [c EXCEPT !.length = k]
      BY <2>2 DEF AskedFor
    <3>2. ASSUME NEW start \in Address, Damage([c EXCEPT !.start = start])
          PROVE  toKit' = <<c>> /\ fromKit' = fromKit
      <4>1. /\ toKit' = <<[c EXCEPT !.start = start]>> /\ fromKit' = fromKit
            /\ [c EXCEPT !.start = start].start = c.start
        BY <2>4, <3>2, Zenon
      <4>2. [c EXCEPT !.start = start] = c
        BY <2>2, <4>1 DEF AskedFor
      <4> QED
        BY <4>1, <4>2
    <3>3. ASSUME NEW space \in Space, Damage([c EXCEPT !.space = space])
          PROVE  toKit' = <<c>> /\ fromKit' = fromKit
      <4>1. /\ toKit' = <<[c EXCEPT !.space = space]>> /\ fromKit' = fromKit
            /\ [c EXCEPT !.space = space].space = c.space
        BY <2>4, <3>3, Zenon
      <4>2. [c EXCEPT !.space = space] = c
        BY <2>2, <4>1 DEF AskedFor
      <4> QED
        BY <4>1, <4>2
    <3>4. ASSUME NEW length \in 0 .. Values(2) - 1, Damage([c EXCEPT !.length = length])
          PROVE  length \in Nat /\ toKit' = <<[c EXCEPT !.length = length]>> /\ fromKit' = fromKit
      BY <2>4, <3>4, ValuesOfTwo
    <3> QED
      BY <2>5, <3>1, <3>2, <3>3, <3>4, Zenon
  <2>7. PICK length \in Nat : toKit' = <<[c EXCEPT !.length = length]>> /\ fromKit' = fromKit
    BY <2>6
  <2>8. toKit' = <<AskedFor(list, i, length)>>
    BY <2>2, <2>7 DEF AskedFor
  <2>9. Asked(list, toKit')
    BY <2>8 DEF Asked
  <2>10. pc \notin {"start", "upload"} /\ (pc = "alive" => fromKit = << >>)
    BY <2>1 DEF LineOK
  <2>11. pc = "data" => /\ fromKit = << >>
                        /\ Exact(list, at, length, faults + 1)
                        /\ toKit' = <<AskedFor(list, at, length)>>
    <3> SUFFICES ASSUME pc = "data"
                 PROVE  /\ fromKit = << >> /\ Exact(list, at, length, faults + 1)
                        /\ toKit' = <<AskedFor(list, at, length)>>
      OBVIOUS
    <3>1. PICK j : fromKit = << >> /\ toKit = <<AskedFor(list, at, j)>>
      BY <2>1 DEF LineOK
    <3>2. AskedFor(list, i, k) = AskedFor(list, at, j)
      BY <2>2, <3>1 DEF c
    <3>3. AskedFor(list, i, length) = AskedFor(list, at, length)
      BY <3>2 DEF AskedFor
    <3> QED
      BY <1>9, <2>8, <3>1, <3>3 DEF Exact
  <2>12. LineOK'
    BY <1>1, <1>4, <1>5, <1>9, <2>7, <2>8, <2>9, <2>10, <2>11 DEF LineOK
  <2> QED
    BY <1>6, <1>7, <2>12
<1> QED
  BY <1>3, <1>10, <1>12, <1>13, <1>14

LEMMA UploadStep ==
  ASSUME UploadOK, [Next]_vars, list' # << >>, ~ misled'
  PROVE  Uploading'
<1>1. list' = list /\ list # << >> /\ Uploading
  BY JobStays DEF jobVars, UploadOK
<1>2. CASE UNCHANGED vars
  BY <1>1, <1>2 DEF vars, jobVars, hostVars, lineVars, kitVars, Uploading, LineOK, HostOK, FileOK
<1> QED
  BY <1>1, <1>2, UploadHostStep, UploadKitStep, UploadLineStep DEF Next, Stopped

LEMMA UploadInvariance == Spec => []UploadOK
<1>1. Init => UploadOK
  BY UploadInit DEF UploadOK
<1>2. UploadOK /\ [Next]_vars => UploadOK'
  BY UploadStep DEF UploadOK
<1> QED
  BY <1>1, <1>2, PTL DEF Spec

LEMMA UploadImplies == UploadOK => UploadDetectsFault
<1> SUFFICES ASSUME Uploading, pc = "done", faults <= 1
             PROVE  file = Listed
  BY DEF UploadDetectsFault, UploadOK
<1>1. /\ list \in UploadLists /\ memory = InitialMemory /\ at = Len(list) + 1
      /\ file = Upto(list)[at - 1]
  BY DEF Uploading, HostOK, FileOK
<1>2. Len(list) \in Nat
  BY <1>1, ItemIs
<1>3. file = Upto(list)[Len(list)]
  BY <1>1, <1>2
<1> DEFINE P(v) == v = [i \in 0 .. Len(list) |->
                          IF i = 0 THEN << >> ELSE v[i - 1] \o Uploaded(list, i)]
           Q(v) == v = [i \in 0 .. Len(list) |->
                          IF i = 0 THEN << >>
                          ELSE v[i - 1] \o BytesOf(Read(list[i].space, list[i].start, list[i].length),
                                                   WordSize[list[i].space])]
<1>4. \A i : Uploaded(list, i) = BytesOf(Read(list[i].space, list[i].start, list[i].length),
                                     WordSize[list[i].space])
  BY <1>1 DEF Uploaded, Part, Content, Read
<1>5. ASSUME NEW v PROVE P(v) <=> Q(v)
  BY <1>4, Zenon
<1>6. Upto(list) = CHOOSE v : P(v)
  BY DEF Upto
<1>7. Listed = (CHOOSE v : Q(v))[Len(list)]
  BY DEF Listed
<1>8. (CHOOSE v : P(v)) = (CHOOSE v : Q(v))
  <2> HIDE DEF P, Q
  <2> QED
    BY <1>5, Zenon
<1> HIDE DEF P, Q
<1> QED
  BY <1>3, <1>6, <1>7, <1>8

\* An upload over a line with at most one fault, a byte lost or damaged, writes the
\* memory it was asked for, or fails (upload_file): for every memory list and every
\* size of a memory.  The address and the memory in a command are not covered: the
\* kit answers a damaged one with other memory and its right check sum (ez21.c:325).
THEOREM FaultIsDetected == Spec => []UploadDetectsFault
<1> QED
  BY UploadImplies, UploadInvariance, PTL
=============================================================================
