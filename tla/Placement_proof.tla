-------------------------- MODULE Placement_proof --------------------------
(***************************************************************************)
(* Theorems about Placement, for every set of object files, every set of   *)
(* memory block declarations and every LDF made of them.                   *)
(***************************************************************************)
EXTENDS Placement, TLAPS

\* The words skipped before a section (outfile_memorize_section) are not negative,
\* and end at a multiple of the alignment.
LEMMA PaddingBounds ==
  ASSUME NEW a \in Nat, NEW n \in Nat \ {0}
  PROVE  /\ Padding(a, n) \in Nat
         /\ \E k \in 0 .. a + Padding(a, n) : a + Padding(a, n) = k * n
<1> DEFINE q == (a + n - 1) \div n
<1>1. q \in Nat
  OBVIOUS
<1>2. a <= q * n
  <2>1. a + n - 1 = n * q + ((a + n - 1) % n)
    OBVIOUS
  <2>2. (a + n - 1) % n \in 0 .. n - 1
    OBVIOUS
  <2> HIDE DEF q
  <2>3. n * q = q * n
    BY <1>1
  <2>4. n * q \in Int
    BY <1>1
  <2> QED
    BY <2>1, <2>2, <2>3, <2>4
<1> HIDE DEF q
<1>3. q * n \in Nat
  BY <1>1
<1>4. q <= q * n
  BY <1>1
<1>5. Padding(a, n) = q * n - a
  BY DEF Padding, q
<1> QED
  BY <1>1, <1>2, <1>3, <1>4, <1>5

\* The first input section of an output section gives it a type, space and address.
LEMMA HeaderType ==
  ASSUME NEW out \in OutSection, NEW s \in Section, NEW a \in Nat
  PROVE  Header(out, s, a) \in OutSection
BY HdrAssumption DEF OutSection, Header

\* An output section with one more piece is one.
LEMMA ExtendType ==
  ASSUME NEW out \in OutSection, NEW s \in Section, NEW n \in Nat,
         NEW piece \in Section \cup {None}
  PROVE  Extend(out, s, n, piece) \in OutSection
<1> DEFINE w == EntSize[Hdr[s].space]
<1>1. w \in Nat
  BY HdrAssumption, EntSizeAssumption
<1> HIDE DEF w
<1>2. out.offset \in Nat /\ out.data \in Seq(Piece)
  BY DEF OutSection
<1>3. out.offset * w \in Nat /\ n * w \in Nat
  BY <1>1, <1>2
<1> DEFINE p == [off |-> out.offset * w, size |-> n * w, section |-> piece]
<1>4. p \in Piece
  BY <1>3 DEF Piece
<1> HIDE DEF p
<1>5. Append(out.data, p) \in Seq(Piece)
  BY <1>2, <1>4
<1>6. Extend(out, s, n, piece) =
        [out EXCEPT !.offset = @ + n, !.data = Append(@, p)]
  BY DEF Extend, p, w
<1>7. out.offset + n \in Nat
  BY <1>2
<1> QED
  BY <1>5, <1>6, <1>7 DEF OutSection

\* An output section with alignment fill is one.
LEMMA AlignedType ==
  ASSUME NEW out \in OutSection, NEW s \in Section, NEW n \in Nat
  PROVE  Aligned(out, s, n) \in OutSection
BY ExtendType DEF Aligned

----------------------------------------------------------------------------
(* The loop of memorize(). *)

\* The facts about the section memorize() is at that its actions share.
Placing ==
  /\ segment \in Block
  /\ segment[2] \in NamesIn(segment[1])
  /\ outs # <<>>

\* While memorize() runs, its block is declared and there is an output section
\* to fill.
MemorizeOK == pc = "place" => Placing

\* A block is declared once in its list.
UniqueNames ==
  \A l \in MemList : \A d, e \in memory[l] : d.name = e.name => d = e

\* A block whose name is declared in its list has a declaration.
LEMMA DeclOfBlock ==
  ASSUME TypeOK, NEW b \in Block, b[2] \in NamesIn(b[1])
  PROVE  DeclOf(b) \in memory[b[1]] /\ DeclOf(b).name = b[2]
<1>1. \E d \in memory[b[1]] : d.name = b[2]
  BY DEF NamesIn
<1> QED
  BY <1>1 DEF DeclOf

\* What every action of memorize() knows of the section, block and addresses it
\* works with.
LEMMA MemorizeFacts ==
  ASSUME TypeOK, MemorizeOK, Memorize
  PROVE  /\ section \in Section /\ todo' \in Seq(Section)
         /\ segment \in Block /\ start \in Nat /\ pad \in Nat
         /\ \E k \in 0 .. start + pad : start + pad = k * Hdr[section].align
         /\ DeclOf(segment) \in memory[segment[1]]
         /\ DeclOf(segment).name = segment[2]
         /\ end \in Int
         /\ outs[1] \in OutSection /\ 1 \in DOMAIN outs
         /\ Hdr[section].size \in Nat
<1>1. section \in Section /\ todo' \in Seq(Section)
  BY DEF TypeOK, Memorize, section
<1>2. segment \in Block /\ segment[2] \in NamesIn(segment[1]) /\ outs # <<>>
  BY DEF MemorizeOK, Memorize, Placing
<1>3. start \in Nat
  BY <1>2 DEF TypeOK, start
<1>4. /\ Hdr[section].align \in Nat \ {0}
      /\ Hdr[section].size \in Nat
  BY <1>1, HdrAssumption
<1>5. /\ pad \in Nat
      /\ \E k \in 0 .. start + pad : start + pad = k * Hdr[section].align
  BY <1>3, <1>4, PaddingBounds DEF pad
<1>6. /\ DeclOf(segment) \in memory[segment[1]]
      /\ DeclOf(segment).name = segment[2]
  BY <1>2, DeclOfBlock
<1>7. end \in Int
  <2>1. segment[1] \in MemList
    BY <1>2 DEF Block
  <2>2. DeclOf(segment) \in BlockDecl
    BY <1>6, <2>1 DEF TypeOK
  <2> QED
    BY <2>2, BlockAssumption DEF end
<1>8. outs[1] \in OutSection /\ 1 \in DOMAIN outs
  BY <1>2 DEF TypeOK
<1> QED
  BY <1>1, <1>2, <1>3, <1>4, <1>5, <1>6, <1>7, <1>8

----------------------------------------------------------------------------
(* Type correctness. *)

Base == TypeOK /\ MemorizeOK /\ UniqueNames

\* The types and what goes with them hold at first.
LEMMA BaseInit == Init => Base
<1> SUFFICES ASSUME Init PROVE Base
  OBVIOUS
<1>2. 0 \in MemList
  BY BoundAssumption DEF MemList
<1>3. memory \in [MemList -> SUBSET BlockDecl] /\ startUsed \in [Block -> Nat]
  BY DEF Init
<1>4. where \in [Section -> Block \cup {NoBlock}] /\ addr \in [Section -> Nat]
  BY DEF Init
<1>5. /\ linkArray \in Seq(Object) /\ pending \in Seq(Section)
      /\ scnArray \in Seq(Section) /\ todo \in Seq(Section)
      /\ outs \in Seq(OutSection)
  BY DEF Init
<1>7. statements \in 0 .. MaxStatements
  BY BoundAssumption DEF Init
<1>10. failed \in BOOLEAN
  BY DEF Init
<1>9. /\ pc = "top" /\ processor \in MemList /\ current \in MemList
      /\ freed \in BOOLEAN /\ objects = {} /\ labels = {}
      /\ referenced = {} /\ segment = NoBlock /\ dropped = {}
      /\ output = "absent"
  BY <1>2 DEF Init
<1>8. TypeOK
  BY <1>9, <1>3, <1>4, <1>5, <1>7, <1>10 DEF TypeOK
<1>6. MemorizeOK /\ UniqueNames
  BY DEF Init, MemorizeOK, UniqueNames
<1> QED
  BY <1>8, <1>6 DEF Base

\* A statement of the LDF keeps them.
LEMMA BaseStatement ==
  ASSUME Base, Statement
  PROVE  Base'
<1> USE DEF Base, declVars, fileVars, placeVars
<1>1. ASSUME NEW d \in BlockDecl, AddMemoryBlock(d) PROVE Base'
  <2>1. current \in MemList
    BY DEF TypeOK
  <2>2. <<current, d.name>> \in Block
    BY <2>1 DEF Block, BlockName
  <2>3. d.start \in Nat
    BY BlockAssumption
  <2>4. /\ memory' \in [MemList -> SUBSET BlockDecl]
        /\ startUsed' \in [Block -> Nat]
        /\ failed' \in BOOLEAN
    <3>1. CASE d.width # Width[d.space] \/ d.name \in NamesIn(current)
      BY <1>1, <3>1 DEF AddMemoryBlock, TypeOK
    <3>2. CASE ~ (d.width # Width[d.space] \/ d.name \in NamesIn(current))
      <4>1. /\ memory' = [memory EXCEPT ![current] = @ \cup {d}]
            /\ startUsed' = [startUsed EXCEPT ![<<current, d.name>>] = d.start]
            /\ failed' \in BOOLEAN
        BY <1>1, <3>2 DEF AddMemoryBlock, TypeOK
      <4> QED
        BY <4>1, <2>1, <2>2, <2>3 DEF TypeOK
    <3> QED
      BY <3>1, <3>2
  <2>7. TypeOK'
    BY <1>1, <2>4 DEF AddMemoryBlock, TypeOK
  <2>5. UniqueNames'
    <3>1. CASE memory' = memory
      BY <3>1 DEF UniqueNames
    <3>2. CASE /\ d.name \notin NamesIn(current)
               /\ memory' = [memory EXCEPT ![current] = @ \cup {d}]
      <4> SUFFICES ASSUME NEW l \in MemList, NEW x \in memory'[l],
                          NEW y \in memory'[l], x.name = y.name
                   PROVE  x = y
        BY DEF UniqueNames
      <4>1. \A e \in memory[current] : e.name # d.name
        BY <3>2 DEF NamesIn
      <4>2. l # current => memory'[l] = memory[l]
        BY <3>2 DEF TypeOK
      <4>3. memory'[current] = memory[current] \cup {d}
        BY <3>2, <2>1 DEF TypeOK
      <4> QED
        BY <4>1, <4>2, <4>3 DEF UniqueNames
    <3> QED
      BY <1>1, <3>1, <3>2 DEF AddMemoryBlock
  <2>6. MemorizeOK'
    BY <1>1 DEF AddMemoryBlock, MemorizeOK
  <2> QED
    BY <2>7, <2>5, <2>6
<1>2. ASSUME BeginProcessor PROVE Base'
  BY <1>2, BoundAssumption
  DEF BeginProcessor, TypeOK, MemorizeOK, UniqueNames, MemList
<1>3. ASSUME BeginSection PROVE Base'
  <2>1. TypeOK'
    BY <1>3, BoundAssumption DEF BeginSection, TypeOK
  <2>2. MemorizeOK' /\ UniqueNames'
    BY <1>3 DEF BeginSection, MemorizeOK, UniqueNames
  <2> QED
    BY <2>1, <2>2
<1>4. ASSUME BeginInputs PROVE Base'
  BY <1>4 DEF BeginInputs, TypeOK, MemorizeOK, UniqueNames
<1>5. ASSUME NEW f \in FileName, AddOneObject(f) PROVE Base'
  <2>1. objects' \subseteq Object /\ linkArray' \in Seq(Object)
    <3>1. \/ UNCHANGED <<objects, linkArray>>
          \/ /\ f \in Object
             /\ objects' = objects \cup {f}
             /\ linkArray' = Append(linkArray, f)
      BY <1>5 DEF AddOneObject
    <3>2. objects \subseteq Object /\ linkArray \in Seq(Object)
      BY DEF TypeOK
    <3>3. objects' \subseteq Object
      BY <3>1, <3>2
    <3>4. f \in Object => Append(linkArray, f) \in Seq(Object)
      BY <3>2
    <3> QED
      BY <3>1, <3>2, <3>3, <3>4
  <2>2. failed' \in BOOLEAN
    BY <1>5 DEF AddOneObject, TypeOK
  <2> QED
    BY <1>5, <2>1, <2>2 DEF AddOneObject, TypeOK, MemorizeOK, UniqueNames
<1>6. ASSUME NEW names \in SUBSET Label, AddObjectSections(names) PROVE Base'
  BY <1>6 DEF AddObjectSections, TypeOK, MemorizeOK, UniqueNames
<1>7. ASSUME DropSection PROVE Base'
  BY <1>7 DEF DropSection, TypeOK, MemorizeOK, UniqueNames, SeqRange
<1>8. ASSUME NEW name \in OutName, NEW type \in SecType,
             NEW n \in BlockName \cup {None}, EndSection(name, type, n)
      PROVE  Base'
  <2>1. CASE SegmentOf(n) = NoBlock \/ scnArray = <<>>
    BY <1>8, <2>1 DEF EndSection, TypeOK, MemorizeOK, UniqueNames
  <2>2. CASE ~ (SegmentOf(n) = NoBlock \/ scnArray = <<>>)
    <3> DEFINE new == [name |-> name, type |-> type, space |-> None, addr |-> 0,
                       offset |-> 0, data |-> <<>>]
    <3>1. new \in OutSection
      BY DEF OutSection
    <3>2. current \in MemList /\ 0 \in MemList
      BY BoundAssumption DEF TypeOK, MemList
    <3>3. SegmentOf(n) \in Block /\ SegmentOf(n)[2] \in NamesIn(SegmentOf(n)[1])
      <4>1. \A l \in MemList : NamesIn(l) \subseteq BlockName
        BY DEF TypeOK, NamesIn, BlockName
      <4> QED
        BY <2>2, <3>2, <4>1 DEF SegmentOf, Block
    <3>4. outs' \in Seq(OutSection) /\ outs' # <<>>
      <4>1. CASE \E i \in DOMAIN outs : outs[i].name = name
        BY <1>8, <2>2, <4>1 DEF EndSection, TypeOK
      <4>2. CASE ~ \E i \in DOMAIN outs : outs[i].name = name
        <5>1. outs' = <<new>> \o outs
          BY <1>8, <2>2, <4>2 DEF EndSection
        <5> HIDE DEF new
        <5> QED
          BY <3>1, <5>1 DEF TypeOK
      <4> QED
        BY <4>1, <4>2
    <3> HIDE DEF new
    <3>5. TypeOK'
      BY <1>8, <2>2, <3>3, <3>4 DEF EndSection, TypeOK
    <3>6. MemorizeOK' /\ UniqueNames'
      BY <1>8, <2>2, <3>3, <3>4
      DEF EndSection, MemorizeOK, Placing, UniqueNames, NamesIn
    <3> QED
      BY <3>5, <3>6
  <2> QED
    BY <2>1, <2>2
<1>9. ASSUME NEW e \in BOOLEAN, EndProcessor(e) PROVE Base'
  <2>1. failed' \in BOOLEAN /\ output' \in {"removed", "written"}
    BY <1>9 DEF EndProcessor
  <2> QED
    BY <1>9, <2>1, BoundAssumption
    DEF EndProcessor, TypeOK, MemorizeOK, UniqueNames, MemList
<1>10. ASSUME EndParse PROVE Base'
  BY <1>10 DEF EndParse, TypeOK, MemorizeOK, UniqueNames
<1>11. ASSUME NEW named \in BOOLEAN, SyntaxError(named) PROVE Base'
  BY <1>11 DEF SyntaxError, TypeOK, MemorizeOK, UniqueNames
<1>12. ASSUME NameAssertion PROVE Base'
  BY <1>12 DEF NameAssertion, TypeOK, MemorizeOK, UniqueNames
<1> QED
  BY <1>1, <1>2, <1>3, <1>4, <1>5, <1>6, <1>7, <1>8, <1>9, <1>10,
     <1>11, <1>12
  DEF Statement

\* A step of the loops of the linker keeps them.
LEMMA BaseLoop ==
  ASSUME Base, Loop
  PROVE  Base'
<1> USE DEF Base, declVars, fileVars, placeVars
<1>1. ASSUME NextObject PROVE Base'
  <2>1. /\ linkArray' \in Seq(Object) /\ pending' \in Seq(Section)
        /\ labels' \subseteq Label /\ pc' \in {"inputs", "section"}
    <3>1. CASE linkArray = <<>>
      BY <1>1, <3>1 DEF NextObject, TypeOK
    <3>2. CASE linkArray # <<>>
      <4>1. Head(linkArray) \in Object /\ Tail(linkArray) \in Seq(Object)
        BY <3>2 DEF TypeOK
      <4>2. SectionsOf[Head(linkArray)] \in Seq(Section)
        BY <4>1, ObjectAssumption
      <4> QED
        BY <1>1, <3>2, <4>1, <4>2 DEF NextObject, TypeOK
    <3> QED
      BY <3>1, <3>2
  <2>2. TypeOK'
    BY <1>1, <2>1 DEF NextObject, TypeOK
  <2>3. MemorizeOK' /\ UniqueNames'
    BY <1>1, <2>1 DEF NextObject, MemorizeOK, UniqueNames
  <2> QED
    BY <2>2, <2>3
<1>2. ASSUME ReadSection
      PROVE  Head(pending) \in Section /\ pending' \in Seq(Section)
  BY <1>2 DEF ReadSection, TypeOK
<1>10. ASSUME SkipSection \/ RefuseSection PROVE Base'
  <2>1. ReadSection
    BY <1>10 DEF SkipSection, RefuseSection
  <2> QED
    BY <1>2, <1>10, <2>1
    DEF SkipSection, RefuseSection, ReadSection, TypeOK, MemorizeOK, UniqueNames
<1>11. ASSUME AddSection PROVE Base'
  <2>1. ReadSection
    BY <1>11 DEF AddSection
  <2>2. scnArray' \in Seq(Section) /\ referenced' \subseteq Section
    BY <1>2, <1>11, <2>1 DEF AddSection, TypeOK
  <2> QED
    BY <1>2, <1>11, <2>1, <2>2
    DEF AddSection, ReadSection, TypeOK, MemorizeOK, UniqueNames
<1>12. ASSUME EndObject PROVE Base'
  BY <1>12 DEF EndObject, TypeOK, MemorizeOK, UniqueNames
<1>3. ASSUME Memorize, outs' \in Seq(OutSection), outs' # <<>>,
             startUsed' \in [Block -> Nat], failed' \in BOOLEAN,
             where' \in [Section -> Block \cup {NoBlock}],
             addr' \in [Section -> Nat]
      PROVE  Base'
  <2>1. todo' \in Seq(Section)
    BY <1>3, MemorizeFacts
  <2> QED
    BY <1>3, <2>1
    DEF Memorize, TypeOK, MemorizeOK, Placing, UniqueNames, NamesIn
<1>4. ASSUME Memorize, NEW out \in OutSection
      PROVE  /\ [outs EXCEPT ![1] = out] \in Seq(OutSection)
             /\ [outs EXCEPT ![1] = out] # <<>>
  BY <1>4 DEF TypeOK, MemorizeOK, Memorize, Placing
<1>5. ASSUME RejectType PROVE Base'
  BY <1>3, <1>5 DEF RejectType, TypeOK, MemorizeOK, Memorize, Placing
<1>6. ASSUME RejectAlignment PROVE Base'
  <2>1. Memorize
    BY <1>6 DEF RejectAlignment
  <2>2. Header(outs[1], section, start) \in OutSection
    BY <2>1, MemorizeFacts, HeaderType
  <2> QED
    BY <1>3, <1>4, <1>6, <2>1, <2>2 DEF RejectAlignment, TypeOK
<1>7. ASSUME RejectSize PROVE Base'
  <2>1. Memorize
    BY <1>7 DEF RejectSize
  <2>2. Header(Aligned(outs[1], section, pad), section, start + pad) \in OutSection
    <3>1. Aligned(outs[1], section, pad) \in OutSection
      BY <2>1, MemorizeFacts, AlignedType
    <3> QED
      BY <2>1, <3>1, MemorizeFacts, HeaderType
  <2>3. start + pad \in Nat /\ segment \in Block
    BY <2>1, MemorizeFacts
  <2> QED
    BY <1>3, <1>4, <1>7, <2>1, <2>2, <2>3 DEF RejectSize, TypeOK
<1>8. ASSUME PlaceSection PROVE Base'
  <2>1. Memorize
    BY <1>8 DEF PlaceSection
  <2>2. Header(Aligned(outs[1], section, pad), section, start + pad) \in OutSection
    <3>1. Aligned(outs[1], section, pad) \in OutSection
      BY <2>1, MemorizeFacts, AlignedType
    <3> QED
      BY <2>1, <3>1, MemorizeFacts, HeaderType
  <2>3. Extend(Header(Aligned(outs[1], section, pad), section, start + pad),
               section, Hdr[section].size, section) \in OutSection
    BY <2>1, <2>2, MemorizeFacts, ExtendType
  <2>4. /\ start + pad \in Nat /\ start + pad + Hdr[section].size \in Nat
        /\ segment \in Block /\ section \in Section
    BY SMTT(30), <2>1, MemorizeFacts
  <2>5. /\ startUsed' \in [Block -> Nat]
        /\ where' \in [Section -> Block \cup {NoBlock}]
        /\ addr' \in [Section -> Nat]
    BY <1>8, <2>4 DEF PlaceSection, TypeOK
  <2>6. failed' \in BOOLEAN
    BY <1>8 DEF PlaceSection, TypeOK
  <2> QED
    BY <1>3, <1>4, <1>8, <2>1, <2>3, <2>5, <2>6 DEF PlaceSection
<1>9. ASSUME EndMemorize PROVE Base'
  BY <1>9 DEF EndMemorize, TypeOK, MemorizeOK, UniqueNames
<1> QED
  BY <1>1, <1>5, <1>6, <1>7, <1>8, <1>9, <1>10, <1>11, <1>12 DEF Loop

\* Every step keeps them.
LEMMA BaseNext == Base /\ [Next]_vars => Base'
<1> SUFFICES ASSUME Base, [Next]_vars PROVE Base'
  OBVIOUS
<1>1. CASE UNCHANGED vars
  BY <1>1 DEF vars, declVars, fileVars, placeVars, Base, TypeOK, MemorizeOK,
              Placing, UniqueNames, NamesIn
<1>2. CASE Stopped
  BY <1>1, <1>2 DEF Stopped
<1> QED
  BY <1>1, <1>2, BaseStatement, BaseLoop DEF Next

\* Every variable of the linker keeps its type.
THEOREM TypeCorrect == Spec => []TypeOK
<1>1. Spec => []Base
  BY BaseInit, BaseNext, PTL DEF Spec
<1>2. Base => TypeOK
  BY DEF Base
<1> QED
  BY <1>1, <1>2, PTL

----------------------------------------------------------------------------
(* The inductive invariant of the placement. *)

\* The free words of a block begin behind its START.
UsedOK ==
  \A l \in MemList : \A d \in memory[l] : d.start <= startUsed[<<l, d.name>>]

\* A placed section is in a declared block, below the words that are free.
PlacedOK ==
  \A s \in Section : Placed(s) =>
    /\ s \in referenced /\ where[s] \in Block
    /\ addr[s] + Hdr[s].size <= startUsed[where[s]]
    /\ \E d \in memory[where[s][1]] :
         /\ d.name = where[s][2]
         /\ d.start <= addr[s] /\ addr[s] + Hdr[s].size <= d.end + 1
         /\ \E k \in 0 .. addr[s] : addr[s] = k * Hdr[s].align

\* The sections of the statement being parsed, or those memorize() has left,
\* are referenced, not placed, and each is there once.
Fresh(q) ==
  \A i \in DOMAIN q :
    /\ q[i] \in referenced /\ ~ Placed(q[i])
    /\ \A j \in DOMAIN q : q[i] = q[j] => i = j
Building == {"inputs", "files", "object", "section"}
ListOK ==
  /\ pc \in Building => Fresh(scnArray)
  /\ pc = "place" => Fresh(todo)

\* No referenced section is lost without an error.
Accounted ==
  failed \/
  \A s \in referenced :
    \/ Placed(s)
    \/ s \in dropped
    \/ pc \in Building \cup {"undefined"} /\ s \in SeqRange(scnArray)
    \/ pc = "place" /\ s \in SeqRange(todo)

\* An executable is on disk only between the end of its PROCESSOR description
\* and the next one.
WrittenOK ==
  output = "written" =>
    pc \in {"top", "done", "undefined", "aborted"}
    /\ \A s \in Loadable \ dropped : Placed(s)

IInv ==
  /\ Base /\ UsedOK /\ PlacedOK /\ DisjointInBlock /\ ListOK /\ Accounted
  /\ WrittenOK

\* What the steps do that place no section and declare no block.
Still == UNCHANGED <<memory, startUsed, where, addr>>

\* SHF_REFERENCED is never cleared, and only the declaration of a block, a
\* section that is placed and one that does not fit change blocks or addresses.
LEMMA StepKinds ==
  ASSUME Next
  PROVE  /\ referenced \subseteq referenced'
         /\ \/ Still
            \/ \E d \in BlockDecl : AddMemoryBlock(d)
            \/ RejectSize
            \/ PlaceSection
<1> USE DEF declVars, fileVars, placeVars, Still
<1>1. ASSUME NEW d \in BlockDecl, AddMemoryBlock(d)
      PROVE  referenced \subseteq referenced'
  BY <1>1 DEF AddMemoryBlock
<1>2. CASE BeginProcessor
  BY <1>2 DEF BeginProcessor
<1>3. CASE BeginSection
  BY <1>3 DEF BeginSection
<1>4. CASE BeginInputs
  BY <1>4 DEF BeginInputs
<1>5. ASSUME NEW f \in FileName, AddOneObject(f)
      PROVE  referenced' = referenced /\ Still
  BY <1>5 DEF AddOneObject
<1>6. ASSUME NEW names \in SUBSET Label, AddObjectSections(names)
      PROVE  referenced' = referenced /\ Still
  BY <1>6 DEF AddObjectSections
<1>7. CASE DropSection
  BY <1>7 DEF DropSection
<1>8. ASSUME NEW name \in OutName, NEW type \in SecType,
             NEW n \in BlockName \cup {None}, EndSection(name, type, n)
      PROVE  referenced' = referenced /\ Still
  BY <1>8 DEF EndSection
<1>9. ASSUME NEW e \in BOOLEAN, EndProcessor(e)
      PROVE  referenced' = referenced /\ Still
  BY <1>9 DEF EndProcessor
<1>10. CASE EndParse
  BY <1>10 DEF EndParse
<1>17. ASSUME NEW named \in BOOLEAN, SyntaxError(named)
       PROVE  referenced' = referenced /\ Still
  BY <1>17 DEF SyntaxError
<1>18. CASE NameAssertion
  BY <1>18 DEF NameAssertion
<1>11. CASE NextObject
  BY <1>11 DEF NextObject
<1>12. CASE SkipSection \/ RefuseSection \/ AddSection
  BY <1>12 DEF SkipSection, RefuseSection, AddSection, ReadSection
<1>13. CASE EndObject \/ EndMemorize
  BY <1>13 DEF EndObject, EndMemorize
<1>14. CASE RejectType \/ RejectAlignment
  BY <1>14 DEF RejectType, RejectAlignment, Memorize
<1>15. CASE RejectSize \/ PlaceSection
  BY <1>15 DEF RejectSize, PlaceSection, Memorize
<1>16. CASE Stopped
  BY <1>16 DEF Stopped, vars
<1> QED
  BY <1>1, <1>2, <1>3, <1>4, <1>5, <1>6, <1>7, <1>8, <1>9, <1>10, <1>11, <1>12,
     <1>13, <1>14, <1>15, <1>16, <1>17, <1>18
  DEF Next, Statement, Loop

\* A new block has a name of its own, so it changes no block of a section.
LEMMA NewBlock ==
  ASSUME Base, NEW d \in BlockDecl, AddMemoryBlock(d)
  PROVE  /\ where' = where /\ addr' = addr /\ referenced' = referenced
         /\ \/ Still
            \/ /\ current \in MemList /\ <<current, d.name>> \in Block
               /\ d.name \notin NamesIn(current)
               /\ memory' = [memory EXCEPT ![current] = @ \cup {d}]
               /\ startUsed' = [startUsed EXCEPT ![<<current, d.name>>] = d.start]
<1>1. current \in MemList
  BY DEF Base, TypeOK
<1>2. <<current, d.name>> \in Block
  BY <1>1 DEF Block, BlockName
<1> QED
  BY <1>1, <1>2 DEF AddMemoryBlock, Still, placeVars, fileVars

\* No step takes start_used below the start of its block, or gives a block that
\* is not declared used words.
LEMMA UsedStep ==
  ASSUME Base, UsedOK, Next
  PROVE  UsedOK'
<1>1. CASE Still
  BY <1>1 DEF UsedOK, Still
<1>2. ASSUME NEW d \in BlockDecl, AddMemoryBlock(d) PROVE UsedOK'
  <2>1. CASE Still
    BY <2>1 DEF UsedOK, Still
  <2>2. CASE /\ current \in MemList /\ <<current, d.name>> \in Block
             /\ d.name \notin NamesIn(current)
             /\ memory' = [memory EXCEPT ![current] = @ \cup {d}]
             /\ startUsed' = [startUsed EXCEPT ![<<current, d.name>>] = d.start]
    <3> SUFFICES ASSUME NEW l \in MemList, NEW e \in memory'[l]
                 PROVE  e.start <= startUsed'[<<l, e.name>>]
      BY DEF UsedOK
    <3>1. d.start \in Nat
      BY BlockAssumption
    <3>2. e \in memory[l] \/ (l = current /\ e = d)
      BY <2>2 DEF Base, TypeOK
    <3>3. e \in BlockDecl
      BY <3>2 DEF Base, TypeOK
    <3>4. <<l, e.name>> \in Block
      BY <3>3 DEF Block, BlockName
    <3>5. CASE <<l, e.name>> = <<current, d.name>>
      <4>1. e = d
        BY <3>2, <3>5, <2>2 DEF NamesIn
      <4> QED
        BY <4>1, <3>1, <3>5, <2>2 DEF Base, TypeOK
    <3>6. CASE <<l, e.name>> # <<current, d.name>>
      <4>1. e \in memory[l]
        BY <3>2, <3>6
      <4>2. startUsed'[<<l, e.name>>] = startUsed[<<l, e.name>>]
        BY <2>2, <3>4, <3>6 DEF Base, TypeOK
      <4> QED
        BY <4>1, <4>2 DEF UsedOK
    <3> QED
      BY <3>5, <3>6
  <2> QED
    BY <1>2, <2>1, <2>2, NewBlock
<1>3. ASSUME Memorize, NEW n \in Nat,
             startUsed' = [startUsed EXCEPT ![segment] = start + n]
      PROVE  UsedOK'
  <2> SUFFICES ASSUME NEW l \in MemList, NEW e \in memory[l]
               PROVE  e.start <= startUsed'[<<l, e.name>>]
    BY <1>3 DEF UsedOK, Memorize
  <2>1. e.start <= startUsed[<<l, e.name>>] /\ e \in BlockDecl
    BY DEF UsedOK, Base, TypeOK
  <2>2. e.start \in Nat /\ <<l, e.name>> \in Block
    BY <2>1, BlockAssumption DEF Block, BlockName
  <2>3. segment \in Block /\ start \in Nat
    BY <1>3, MemorizeFacts DEF Base
  <2>4. start = startUsed[segment] /\ startUsed \in [Block -> Nat]
    BY DEF start, Base, TypeOK
  <2> HIDE DEF start
  <2>5. CASE <<l, e.name>> = segment
    BY <1>3, <2>1, <2>2, <2>3, <2>4, <2>5
  <2>6. CASE <<l, e.name>> # segment
    BY <1>3, <2>1, <2>2, <2>3, <2>4, <2>6
  <2> QED
    BY <2>5, <2>6
<1>4. CASE RejectSize
  BY <1>3, <1>4, MemorizeFacts DEF RejectSize, Base
<1>5. CASE PlaceSection
  <2>1. Memorize
    BY <1>5 DEF PlaceSection
  <2>2. pad + Hdr[section].size \in Nat /\ start \in Nat /\ pad \in Nat
        /\ Hdr[section].size \in Nat
    BY <2>1, MemorizeFacts DEF Base
  <2>4. start + pad + Hdr[section].size = start + (pad + Hdr[section].size)
    BY <2>2
  <2>3. startUsed' = [startUsed EXCEPT ![segment] = start + (pad + Hdr[section].size)]
    BY <1>5, <2>4 DEF PlaceSection
  <2> QED
    BY <1>3, <2>1, <2>2, <2>3
<1> QED
  BY <1>1, <1>2, <1>4, <1>5, StepKinds

\* Every step leaves the placed sections in the used part of their blocks, and
\* referenced.
LEMMA PlacedStep ==
  ASSUME Base, UsedOK, PlacedOK, ListOK, Next
  PROVE  PlacedOK'
<1>1. referenced \subseteq referenced'
  BY StepKinds
<1>2. CASE Still
  BY <1>1, <1>2 DEF PlacedOK, Placed, Still
<1>3. ASSUME NEW d \in BlockDecl, AddMemoryBlock(d) PROVE PlacedOK'
  <2>1. CASE Still
    BY <1>1, <2>1 DEF PlacedOK, Placed, Still
  <2>2. CASE /\ where' = where /\ addr' = addr
             /\ current \in MemList /\ <<current, d.name>> \in Block
             /\ d.name \notin NamesIn(current)
             /\ memory' = [memory EXCEPT ![current] = @ \cup {d}]
             /\ startUsed' = [startUsed EXCEPT ![<<current, d.name>>] = d.start]
    <3> SUFFICES ASSUME NEW s \in Section, Placed(s)
                 PROVE  /\ startUsed'[where[s]] = startUsed[where[s]]
                        /\ memory[where[s][1]] \subseteq memory'[where[s][1]]
      BY <1>1, <2>2 DEF PlacedOK, Placed
    <3>1. /\ where[s] \in Block /\ where[s][1] \in MemList
          /\ where[s][2] \in NamesIn(where[s][1])
      BY DEF PlacedOK, NamesIn, Block
    <3>2. where[s] # <<current, d.name>>
      BY <3>1, <2>2
    <3> QED
      BY <2>2, <3>1, <3>2 DEF Base, TypeOK
  <2> QED
    BY <1>3, <2>1, <2>2, NewBlock
<1>4. CASE RejectSize
  <2>1. Memorize
    BY <1>4 DEF RejectSize
  <2>2. segment \in Block /\ start \in Nat /\ pad \in Nat
    BY <2>1, MemorizeFacts DEF Base
  <2>3. \A b \in Block : startUsed[b] <= startUsed'[b]
    <3>1. /\ startUsed' = [startUsed EXCEPT ![segment] = start + pad]
          /\ start = startUsed[segment] /\ startUsed \in [Block -> Nat]
      BY <1>4 DEF RejectSize, Base, TypeOK, start
    <3> QED
      BY <2>2, <3>1
  <2> SUFFICES ASSUME NEW s \in Section, Placed(s)
               PROVE  addr[s] + Hdr[s].size <= startUsed'[where[s]]
    BY <1>4, <2>1, <1>1 DEF PlacedOK, Placed, RejectSize, Memorize
  <2>4. /\ addr[s] + Hdr[s].size <= startUsed[where[s]]
        /\ where[s] \in Block /\ addr[s] \in Nat /\ Hdr[s].size \in Nat
    BY HdrAssumption DEF PlacedOK, Base, TypeOK
  <2>5. startUsed[where[s]] \in Nat /\ startUsed'[where[s]] \in Nat
    BY <1>4, <2>2, <2>4 DEF RejectSize, Base, TypeOK
  <2> QED
    BY <2>3, <2>4, <2>5
<1>5. CASE PlaceSection
  <2>1. Memorize
    BY <1>5 DEF PlaceSection
  <2>2. /\ segment \in Block /\ start \in Nat /\ pad \in Nat
        /\ section \in Section /\ Hdr[section].size \in Nat
        /\ \E k \in 0 .. start + pad : start + pad = k * Hdr[section].align
        /\ DeclOf(segment) \in memory[segment[1]]
        /\ DeclOf(segment).name = segment[2]
    BY <2>1, MemorizeFacts DEF Base
  <2> DEFINE size == Hdr[section].size
  <2>3. /\ startUsed' = [startUsed EXCEPT ![segment] = start + pad + size]
        /\ where' = [where EXCEPT ![section] = segment]
        /\ addr' = [addr EXCEPT ![section] = start + pad]
        /\ memory' = memory /\ referenced' = referenced
        /\ start + pad + size <= end + 1
    BY <1>5, <2>1 DEF PlaceSection, Memorize, fileVars
  <2>4. start = startUsed[segment] /\ startUsed \in [Block -> Nat]
    BY DEF start, Base, TypeOK
  <2>5. where \in [Section -> Block \cup {NoBlock}] /\ addr \in [Section -> Nat]
    BY DEF Base, TypeOK
  <2> SUFFICES ASSUME NEW s \in Section, Placed(s)'
               PROVE  /\ s \in referenced /\ where'[s] \in Block
                      /\ addr'[s] + Hdr[s].size <= startUsed'[where'[s]]
                      /\ \E d \in memory[where'[s][1]] :
                           /\ d.name = where'[s][2]
                           /\ d.start <= addr'[s]
                           /\ addr'[s] + Hdr[s].size <= d.end + 1
                           /\ \E k \in 0 .. addr'[s] :
                                addr'[s] = k * Hdr[s].align
    BY <2>3 DEF PlacedOK
  <2>6. CASE s = section
    <3>1. where'[s] = segment /\ addr'[s] = start + pad
      BY <2>3, <2>5, <2>6
    <3>2. startUsed'[segment] = start + pad + size
      BY <2>2, <2>3, <2>4
    <3>3. s \in referenced
      <4>1. pc = "place" /\ todo # <<>> /\ todo \in Seq(Section)
        BY <2>1 DEF Memorize, Base, TypeOK
      <4>2. 1 \in DOMAIN todo /\ todo[1] = section
        BY <4>1 DEF section
      <4> QED
        BY <4>1, <4>2, <2>6 DEF ListOK, Fresh
    <3>4. DeclOf(segment).start <= start
      <4>1. segment[1] \in MemList /\ segment = <<segment[1], segment[2]>>
        BY <2>2 DEF Block
      <4> QED
        BY <4>1, <2>2, <2>4 DEF UsedOK
    <3>5. DeclOf(segment).start \in Nat /\ DeclOf(segment).end = end
      <4>1. DeclOf(segment) \in BlockDecl
        BY <2>2 DEF Base, TypeOK, Block
      <4> QED
        BY <4>1, BlockAssumption DEF end
    <3> QED
      BY <2>2, <2>3, <2>6, <3>1, <3>2, <3>3, <3>4, <3>5
  <2>7. CASE s # section
    <3>1. where'[s] = where[s] /\ addr'[s] = addr[s] /\ Placed(s)
      BY <2>3, <2>5, <2>7 DEF Placed
    <3>2. /\ addr[s] + Hdr[s].size <= startUsed[where[s]]
          /\ where[s] \in Block /\ addr[s] \in Nat /\ Hdr[s].size \in Nat
      BY <3>1, <2>5, HdrAssumption DEF PlacedOK
    <3>3. startUsed[where[s]] <= startUsed'[where[s]]
      BY <2>2, <2>3, <2>4, <3>2
    <3>4. startUsed[where[s]] \in Nat /\ startUsed'[where[s]] \in Nat
      BY <2>2, <2>3, <2>4, <3>2
    <3>5. addr[s] + Hdr[s].size <= startUsed'[where[s]]
      BY <3>2, <3>3, <3>4
    <3> QED
      BY <3>1, <3>5 DEF PlacedOK
  <2> QED
    BY <2>6, <2>7
<1> QED
  BY <1>2, <1>3, <1>4, <1>5, StepKinds

\* No step makes two sections of one block share a word: memorize() starts behind
\* the words in use.
LEMMA DisjointStep ==
  ASSUME Base, PlacedOK, ListOK, DisjointInBlock, Next
  PROVE  DisjointInBlock'
<1>1. CASE UNCHANGED <<where, addr>>
  BY <1>1 DEF DisjointInBlock, Placed, Overlap
<1>2. CASE PlaceSection
  <2>1. Memorize
    BY <1>2 DEF PlaceSection
  <2>2. /\ segment \in Block /\ start \in Nat /\ pad \in Nat
        /\ section \in Section
    BY <2>1, MemorizeFacts DEF Base
  <2>3. /\ where' = [where EXCEPT ![section] = segment]
        /\ addr' = [addr EXCEPT ![section] = start + pad]
    BY <1>2 DEF PlaceSection
  <2>4. start = startUsed[segment]
    BY DEF start
  <2>5. where \in [Section -> Block \cup {NoBlock}] /\ addr \in [Section -> Nat]
    BY DEF Base, TypeOK
  <2>6. \A s \in Section : Hdr[s].size \in Nat
    BY HdrAssumption
  <2>7. ASSUME NEW t \in Section, t # section, where[t] = segment
        PROVE  addr[t] + Hdr[t].size <= start + pad
    <3>1. Placed(t)
      BY <2>2, <2>7 DEF Placed, Block, NoBlock, MemList
    <3>2. addr[t] + Hdr[t].size <= start
      BY <2>4, <2>7, <3>1 DEF PlacedOK
    <3> QED
      BY <3>2, <2>2, <2>5, <2>6
  <2> SUFFICES ASSUME NEW s \in Section, NEW t \in Section,
                      s # t, Placed(s)', where'[s] = where'[t]
               PROVE  ~ Overlap(s, t)'
    BY DEF DisjointInBlock
  <2>8. CASE s = section
    BY <2>2, <2>3, <2>5, <2>6, <2>7, <2>8 DEF Overlap
  <2>9. CASE t = section
    BY <2>2, <2>3, <2>5, <2>6, <2>7, <2>9 DEF Overlap
  <2>10. CASE s # section /\ t # section
    <3>1. /\ where'[s] = where[s] /\ where'[t] = where[t]
          /\ addr'[s] = addr[s] /\ addr'[t] = addr[t]
      BY <2>3, <2>5, <2>10
    <3> QED
      BY <3>1 DEF DisjointInBlock, Placed, Overlap
  <2> QED
    BY <2>8, <2>9, <2>10
<1>3. CASE RejectSize
  BY <1>1, <1>3 DEF RejectSize
<1>4. ASSUME NEW d \in BlockDecl, AddMemoryBlock(d)
      PROVE  UNCHANGED <<where, addr>>
  BY <1>4 DEF AddMemoryBlock, placeVars
<1> QED
  BY <1>1, <1>2, <1>3, <1>4, StepKinds DEF Still

\* memorize() takes the section it places out of its list.
LEMMA TodoStep ==
  ASSUME Base, ListOK, Memorize,
         \A s \in Section : s # section => where'[s] = where[s]
  PROVE  Fresh(todo)'
<1>1. /\ pc = "place" /\ todo # <<>> /\ todo \in Seq(Section)
      /\ todo' = Tail(todo) /\ referenced' = referenced
  BY DEF Memorize, Base, TypeOK, fileVars
<1>2. Fresh(todo)
  BY <1>1 DEF ListOK
<1>3. section = todo[1] /\ 1 \in DOMAIN todo
  BY <1>1 DEF section
<1>4. \A i \in DOMAIN todo' : /\ i + 1 \in DOMAIN todo /\ i + 1 # 1
                              /\ todo'[i] = todo[i + 1]
                              /\ todo[i + 1] \in Section
  <2>1. DOMAIN todo = 1 .. Len(todo) /\ DOMAIN todo' = 1 .. Len(todo) - 1
    BY <1>1
  <2>2. \A i \in 1 .. Len(todo) - 1 : Tail(todo)[i] = todo[i + 1]
    BY <1>1
  <2>3. \A i \in 1 .. Len(todo) : todo[i] \in Section
    BY <1>1
  <2>4. Len(todo) \in Nat
    BY <1>1
  <2> QED
    BY <1>1, <2>1, <2>2, <2>3, <2>4
<1>5. \A i \in DOMAIN todo' : todo'[i] # section
  <2> HIDE DEF section
  <2> QED
    BY <1>2, <1>3, <1>4 DEF Fresh
<1>6. \A i, j \in DOMAIN todo' : i \in Nat /\ j \in Nat
  BY <1>1
<1>7. \A i, j \in DOMAIN todo' : todo'[i] = todo'[j] => i = j
  <2> TAKE i, j \in DOMAIN todo'
  <2>1. todo'[i] = todo'[j] => i + 1 = j + 1
    BY <1>2, <1>4 DEF Fresh
  <2> QED
    BY <2>1, <1>6
<1>8. \A i \in DOMAIN todo' :
        todo'[i] \in referenced' /\ where'[todo'[i]] = NoBlock
  <2> HIDE DEF section
  <2> TAKE i \in DOMAIN todo'
  <2>1. todo'[i] \in referenced /\ where[todo'[i]] = NoBlock
    BY <1>2, <1>4 DEF Fresh, Placed
  <2>2. todo'[i] \in Section /\ todo'[i] # section
    BY <1>4, <1>5
  <2> QED
    BY <1>1, <2>1, <2>2
<1> QED
  BY <1>7, <1>8 DEF Fresh, Placed

\* No step makes a section appear twice in the lists of sections to be placed, or
\* appear there when it is placed.
LEMMA ListStep ==
  ASSUME Base, PlacedOK, ListOK, Next
  PROVE  ListOK'
<1> USE DEF declVars, fileVars, placeVars
<1>1. CASE /\ UNCHANGED <<where, referenced, scnArray, todo>>
           /\ pc' \in Building => pc \in Building
           /\ pc' = "place" => pc = "place"
  BY <1>1 DEF ListOK, Fresh, Placed
<1>2. ASSUME NEW d \in BlockDecl, AddMemoryBlock(d) PROVE ListOK'
  BY <1>1, <1>2 DEF AddMemoryBlock
<1>3. CASE BeginProcessor
  BY <1>3 DEF BeginProcessor, ListOK, Building
<1>4. CASE BeginSection
  BY <1>4 DEF BeginSection, ListOK, Fresh
<1>5. CASE BeginInputs
  BY <1>1, <1>5 DEF BeginInputs, Building
<1>6. ASSUME NEW f \in FileName, AddOneObject(f) PROVE ListOK'
  BY <1>1, <1>6 DEF AddOneObject
<1>7. ASSUME NEW names \in SUBSET Label, AddObjectSections(names) PROVE ListOK'
  BY <1>1, <1>7 DEF AddObjectSections, Building
<1>8. CASE DropSection
  BY <1>8 DEF DropSection, ListOK, Building
<1>9. ASSUME NEW name \in OutName, NEW type \in SecType,
             NEW n \in BlockName \cup {None}, EndSection(name, type, n)
      PROVE  ListOK'
  <2>1. pc = "inputs" /\ UNCHANGED <<where, referenced>>
    BY <1>9 DEF EndSection
  <2>2. Fresh(scnArray)
    BY <2>1 DEF ListOK, Building
  <2>3. CASE SegmentOf(n) = NoBlock \/ scnArray = <<>>
    BY <1>9, <2>3 DEF EndSection, ListOK, Building
  <2>4. CASE ~ (SegmentOf(n) = NoBlock \/ scnArray = <<>>)
    BY <1>9, <2>1, <2>2, <2>4 DEF EndSection, ListOK, Building, Fresh, Placed
  <2> QED
    BY <2>3, <2>4
<1>10. ASSUME NEW e \in BOOLEAN, EndProcessor(e) PROVE ListOK'
  BY <1>10 DEF EndProcessor, ListOK, Building
<1>11. CASE EndParse
  BY <1>11 DEF EndParse, ListOK, Building
<1>21. ASSUME NEW named \in BOOLEAN, SyntaxError(named) PROVE ListOK'
  BY <1>21 DEF SyntaxError, ListOK, Building
<1>22. CASE NameAssertion
  BY <1>22 DEF NameAssertion, ListOK, Building
<1>12. CASE NextObject
  BY <1>1, <1>12 DEF NextObject, Building
<1>13. CASE SkipSection \/ RefuseSection
  BY <1>1, <1>13 DEF SkipSection, RefuseSection, ReadSection, Building
<1>14. CASE AddSection
  <2> DEFINE s == Head(pending)
  <2>1. /\ pc = "section" /\ pc' = pc /\ where' = where /\ s \notin referenced
        /\ referenced' = referenced \cup {s} /\ scnArray' = Append(scnArray, s)
    BY <1>14 DEF AddSection, ReadSection
  <2>2. s \in Section /\ scnArray \in Seq(Section)
    BY <1>14 DEF AddSection, ReadSection, Base, TypeOK
  <2>3. Fresh(scnArray)
    BY <2>1 DEF ListOK, Building
  <2>4. ~ Placed(s)
    BY <2>1, <2>2 DEF PlacedOK
  <2> HIDE DEF s
  <2>5. \A i \in DOMAIN scnArray' :
          \/ i \in DOMAIN scnArray /\ scnArray'[i] = scnArray[i]
          \/ i = Len(scnArray) + 1 /\ scnArray'[i] = s
    BY <2>1, <2>2
  <2>6. Fresh(scnArray)'
    BY <2>1, <2>3, <2>4, <2>5 DEF Fresh, Placed
  <2> QED
    BY <2>1, <2>6 DEF ListOK
<1>15. CASE EndObject
  BY <1>1, <1>15 DEF EndObject, Building
<1>16. CASE EndMemorize
  BY <1>16 DEF EndMemorize, ListOK, Building
<1>17. ASSUME Memorize, \A s \in Section : s # section => where'[s] = where[s]
       PROVE  ListOK'
  BY <1>17, TodoStep DEF Memorize, ListOK, Building
<1>18. CASE RejectType \/ RejectAlignment \/ RejectSize
  BY <1>17, <1>18 DEF RejectType, RejectAlignment, RejectSize
<1>19. CASE PlaceSection
  BY <1>17, <1>19 DEF PlaceSection, Base, TypeOK
<1>20. CASE Stopped
  BY <1>1, <1>20 DEF Stopped, vars
<1> QED
  BY <1>2, <1>3, <1>4, <1>5, <1>6, <1>7, <1>8, <1>9, <1>10, <1>11, <1>12, <1>13,
     <1>14, <1>15, <1>16, <1>18, <1>19, <1>20, <1>21, <1>22
  DEF Next, Statement, Loop

\* No step loses a referenced section without an error: it is in a list, placed,
\* or belongs to a statement without a segment.
LEMMA AccountedStep ==
  ASSUME Base, Accounted, Next
  PROVE  Accounted'
<1> USE DEF declVars, fileVars, placeVars
<1>1. CASE failed'
  BY <1>1 DEF Accounted
<1> SUFFICES ASSUME ~ failed'
             PROVE  Accounted'
  BY <1>1
<1>2. CASE /\ UNCHANGED <<where, referenced, scnArray, todo, dropped, failed>>
           /\ pc \in Building => pc' \in Building \cup {"undefined"}
           /\ pc = "undefined" => pc' = "undefined"
           /\ pc = "place" => pc' = "place"
  BY <1>2 DEF Accounted, Placed
<1>3. CASE /\ UNCHANGED <<where, referenced, dropped, failed>>
           /\ pc \notin Building \cup {"undefined", "place"}
  BY <1>3 DEF Accounted, Placed
<1>4. ASSUME NEW d \in BlockDecl, AddMemoryBlock(d) PROVE Accounted'
  BY <1>4 DEF AddMemoryBlock, Accounted, Building, Placed
<1>5. CASE BeginProcessor \/ BeginSection
  BY <1>3, <1>5 DEF BeginProcessor, BeginSection, Building
<1>6. CASE BeginInputs \/ EndObject
  BY <1>2, <1>6 DEF BeginInputs, EndObject, Building
<1>7. ASSUME NEW f \in FileName, AddOneObject(f) PROVE Accounted'
  BY <1>2, <1>7 DEF AddOneObject
<1>8. ASSUME NEW names \in SUBSET Label, AddObjectSections(names) PROVE Accounted'
  BY <1>2, <1>8 DEF AddObjectSections, Building
<1>9. CASE DropSection
  BY <1>9 DEF DropSection, Accounted, Building, Placed
<1>10. ASSUME NEW name \in OutName, NEW type \in SecType,
              NEW n \in BlockName \cup {None}, EndSection(name, type, n)
       PROVE  Accounted'
  <2>1. /\ pc = "inputs" /\ SegmentOf(n) # NoBlock /\ ~ failed
        /\ UNCHANGED <<where, referenced, dropped>>
    BY <1>10 DEF EndSection
  <2>2. CASE scnArray = <<>>
    BY <2>1, <2>2 DEF Accounted, Placed, SeqRange, Building
  <2>3. CASE scnArray # <<>>
    <3>1. pc' = "place" /\ todo' = scnArray
      BY <1>10, <2>1, <2>3 DEF EndSection
    <3> QED
      BY <2>1, <3>1 DEF Accounted, Placed, SeqRange, Building
  <2> QED
    BY <2>2, <2>3
<1>11. ASSUME NEW e \in BOOLEAN, EndProcessor(e) PROVE Accounted'
  BY <1>11 DEF EndProcessor, Accounted, Building, Placed
<1>12. CASE EndParse
  BY <1>12 DEF EndParse, Accounted, Building, Placed
<1>19. ASSUME NEW named \in BOOLEAN, SyntaxError(named) PROVE Accounted'
  BY <1>19 DEF SyntaxError
<1>20. CASE NameAssertion
  BY <1>20 DEF NameAssertion, Accounted, Building, Placed
<1>13. CASE NextObject \/ SkipSection
  BY <1>2, <1>13 DEF NextObject, SkipSection, ReadSection, Building
<1>14. CASE RefuseSection \/ RejectType \/ RejectAlignment \/ RejectSize
  BY <1>14 DEF RefuseSection, RejectType, RejectAlignment, RejectSize
<1>15. CASE AddSection
  <2>1. /\ pc = "section" /\ pc' = pc /\ UNCHANGED <<where, dropped, failed>>
        /\ referenced' = referenced \cup {Head(pending)}
        /\ scnArray' = Append(scnArray, Head(pending))
    BY <1>15 DEF AddSection, ReadSection
  <2>2. Head(pending) \in Section /\ scnArray \in Seq(Section)
    BY <1>15 DEF AddSection, ReadSection, Base, TypeOK
  <2>3. SeqRange(scnArray)' = SeqRange(scnArray) \cup {Head(pending)}
    <3> DEFINE s == Head(pending)
    <3> HIDE DEF s
    <3>1. /\ DOMAIN Append(scnArray, s) = DOMAIN scnArray \cup {Len(scnArray) + 1}
          /\ Append(scnArray, s)[Len(scnArray) + 1] = s
          /\ \A i \in DOMAIN scnArray : Append(scnArray, s)[i] = scnArray[i]
      BY <2>2 DEF s
    <3>2. SeqRange(Append(scnArray, s)) = SeqRange(scnArray) \cup {s}
      BY <3>1 DEF SeqRange
    <3> QED
      BY <2>1, <3>2 DEF s
  <2> QED
    BY <2>1, <2>3 DEF Accounted, Placed, Building
<1>16. CASE PlaceSection
  <2>1. Memorize
    BY <1>16 DEF PlaceSection
  <2>2. /\ pc = "place" /\ pc' = pc /\ UNCHANGED <<referenced, dropped>>
        /\ todo # <<>> /\ todo' = Tail(todo)
        /\ where' = [where EXCEPT ![section] = segment] /\ UNCHANGED failed
    BY <1>16, <2>1 DEF PlaceSection, Memorize
  <2>3. /\ section \in Section /\ segment \in Block /\ todo \in Seq(Section)
        /\ where \in [Section -> Block \cup {NoBlock}] /\ referenced \subseteq Section
    BY <1>16 DEF PlaceSection, Memorize, Base, TypeOK, MemorizeOK, Placing, section
  <2>4. segment # NoBlock
    BY <2>3 DEF Block, NoBlock, MemList
  <2>5. SeqRange(todo) \subseteq {section} \cup SeqRange(todo')
    <3> SUFFICES ASSUME NEW i \in DOMAIN todo, i # 1
                 PROVE  \E j \in DOMAIN Tail(todo) : Tail(todo)[j] = todo[i]
      BY <2>2, <2>3 DEF SeqRange, section
    <3>1. i - 1 \in 1 .. Len(todo) - 1 /\ i = (i - 1) + 1
      BY <2>3
    <3>2. DOMAIN Tail(todo) = 1 .. Len(todo) - 1
      BY <2>2, <2>3
    <3>3. Tail(todo)[i - 1] = todo[i]
      BY <2>2, <2>3, <3>1
    <3> QED
      BY <3>1, <3>2, <3>3
  <2>6. \A s \in Section : s # section => where'[s] = where[s]
    BY <2>2, <2>3
  <2>7. where'[section] # NoBlock
    BY <2>2, <2>3, <2>4
  <2> HIDE DEF section
  <2> QED
    BY <2>2, <2>3, <2>5, <2>6, <2>7 DEF Accounted, Placed, Building, SeqRange
<1>17. CASE EndMemorize
  BY <1>17 DEF EndMemorize, Accounted, Building, Placed, SeqRange
<1>18. CASE Stopped
  BY <1>2, <1>18 DEF Stopped, vars
<1> QED
  BY <1>4, <1>5, <1>6, <1>7, <1>8, <1>9, <1>10, <1>11, <1>12, <1>13, <1>14, <1>15,
     <1>16, <1>17, <1>18, <1>19, <1>20
  DEF Next, Statement, Loop

\* No step leaves an executable that lacks a section.
LEMMA WrittenStep ==
  ASSUME Base, Accounted, PlacedOK, WrittenOK, Next
  PROVE  WrittenOK'
<1> USE DEF declVars, fileVars, placeVars
<1>1. CASE pc \notin {"top", "done", "undefined", "aborted"} /\ output' = output
  BY <1>1 DEF WrittenOK
<1>2. CASE /\ UNCHANGED <<output, objects, dropped, where>>
           /\ pc' \in {"top", "done", "undefined", "aborted"}
  BY <1>2 DEF WrittenOK, Loadable, Placed
<1>3. ASSUME NEW d \in BlockDecl, AddMemoryBlock(d) PROVE WrittenOK'
  BY <1>1, <1>2, <1>3 DEF AddMemoryBlock
<1>4. CASE BeginProcessor
  BY <1>4 DEF BeginProcessor, WrittenOK
<1>5. CASE BeginSection
  BY <1>1, <1>5 DEF BeginSection
<1>6. CASE BeginInputs
  BY <1>1, <1>6 DEF BeginInputs
<1>7. ASSUME NEW f \in FileName, AddOneObject(f) PROVE WrittenOK'
  BY <1>1, <1>7 DEF AddOneObject
<1>8. ASSUME NEW names \in SUBSET Label, AddObjectSections(names) PROVE WrittenOK'
  BY <1>1, <1>8 DEF AddObjectSections
<1>9. CASE DropSection
  BY <1>1, <1>9 DEF DropSection
<1>10. ASSUME NEW name \in OutName, NEW type \in SecType,
              NEW n \in BlockName \cup {None}, EndSection(name, type, n)
       PROVE  WrittenOK'
  BY <1>1, <1>10 DEF EndSection
<1>11. ASSUME NEW e \in BOOLEAN, EndProcessor(e) PROVE WrittenOK'
  <2>1. CASE failed'
    BY <1>11, <2>1 DEF EndProcessor, WrittenOK
  <2>2. CASE ~ failed'
    <3>1. /\ ~ failed /\ Loadable \subseteq referenced /\ pc = "sections"
          /\ pc' = "top" /\ UNCHANGED <<objects, dropped, where>>
      BY <1>11, <2>2 DEF EndProcessor
    <3>2. \A s \in Loadable \ dropped : Placed(s)
      BY <3>1 DEF Accounted, Building
    <3> QED
      BY <3>1, <3>2 DEF WrittenOK, Loadable, Placed
  <2> QED
    BY <2>1, <2>2
<1>12. CASE EndParse
  BY <1>1, <1>2, <1>12 DEF EndParse
<1>18. ASSUME NEW named \in BOOLEAN, SyntaxError(named) PROVE WrittenOK'
  BY <1>1, <1>2, <1>18 DEF SyntaxError
<1>19. CASE NameAssertion
  BY <1>2, <1>19 DEF NameAssertion
<1>13. CASE NextObject
  BY <1>1, <1>13 DEF NextObject
<1>14. CASE SkipSection \/ RefuseSection \/ AddSection
  BY <1>1, <1>14 DEF SkipSection, RefuseSection, AddSection, ReadSection
<1>15. CASE EndObject \/ EndMemorize
  BY <1>1, <1>15 DEF EndObject, EndMemorize
<1>16. CASE RejectType \/ RejectAlignment \/ RejectSize \/ PlaceSection
  BY <1>1, <1>16
  DEF RejectType, RejectAlignment, RejectSize, PlaceSection, Memorize
<1>17. CASE Stopped
  BY <1>2, <1>17 DEF Stopped, vars
<1> QED
  BY <1>3, <1>4, <1>5, <1>6, <1>7, <1>8, <1>9, <1>10, <1>11, <1>12, <1>13, <1>14,
     <1>15, <1>16, <1>17, <1>18, <1>19
  DEF Next, Statement, Loop

----------------------------------------------------------------------------
(* The theorems. *)

\* The inductive invariant holds at first.
LEMMA IInvInit == Init => IInv
<1> SUFFICES ASSUME Init PROVE IInv
  OBVIOUS
<1>1. Base
  BY BaseInit
<1>2. /\ \A l \in MemList : memory[l] = {}
      /\ \A s \in Section : where[s] = NoBlock
      /\ pc = "top" /\ referenced = {} /\ output = "absent"
  BY DEF Init
<1> QED
  BY <1>1, <1>2
  DEF IInv, UsedOK, PlacedOK, DisjointInBlock, ListOK, Accounted, WrittenOK,
      Placed, Building

\* Every step keeps the inductive invariant.
LEMMA IInvNext == IInv /\ [Next]_vars => IInv'
<1> SUFFICES ASSUME IInv, [Next]_vars PROVE IInv'
  OBVIOUS
<1>1. CASE UNCHANGED vars
  <2>1. Base'
    BY <1>1, BaseNext DEF IInv
  <2> QED
    BY <1>1, <2>1
    DEF vars, declVars, fileVars, placeVars, IInv, UsedOK, PlacedOK,
        DisjointInBlock, ListOK, Fresh, Accounted, WrittenOK, Loadable, Placed,
        Overlap
<1>2. CASE Next
  BY <1>2, BaseNext, UsedStep, PlacedStep, DisjointStep, ListStep, AccountedStep,
     WrittenStep
  DEF IInv
<1> QED
  BY <1>1, <1>2

\* The inductive invariant holds always.
LEMMA Invariance == Spec => []IInv
BY IInvInit, IInvNext, PTL DEF Spec

\* Two sections placed in one block never share a word of memory.
THEOREM Disjointness == Spec => []DisjointInBlock
<1>1. IInv => DisjointInBlock
  BY DEF IInv
<1> QED
  BY <1>1, Invariance, PTL

\* A placed section lies inside a declared block and is aligned.
THEOREM Containment == Spec => []InsideBlock
<1>1. IInv => InsideBlock
  BY DEF IInv, PlacedOK, InsideBlock
<1> QED
  BY <1>1, Invariance, PTL

\* An executable is left on disk only when no section was lost.
THEOREM Completeness == Spec => []WrittenIsComplete
<1>1. IInv => WrittenIsComplete
  BY DEF IInv, WrittenOK, WrittenIsComplete
<1> QED
  BY <1>1, Invariance, PTL

\* The address of a section, once assigned, is never assigned again.
THEOREM Finality == Spec => AddressIsFinal
<1> DEFINE Kept ==
      \A s \in Section : Placed(s) => where'[s] = where[s] /\ addr'[s] = addr[s]
<1>1. ASSUME IInv, [Next]_vars PROVE [Kept]_vars
  <2>1. CASE UNCHANGED <<where, addr>>
    BY <2>1
  <2>2. CASE RejectSize
    BY <2>1, <2>2 DEF RejectSize
  <2>3. ASSUME NEW d \in BlockDecl, AddMemoryBlock(d)
        PROVE  UNCHANGED <<where, addr>>
    BY <2>3 DEF AddMemoryBlock, placeVars
  <2>4. CASE PlaceSection
    <3>1. /\ pc = "place" /\ todo # <<>> /\ todo \in Seq(Section)
          /\ where' = [where EXCEPT ![section] = segment]
          /\ addr' = [addr EXCEPT ![section] = start + pad]
          /\ where \in [Section -> Block \cup {NoBlock}]
          /\ addr \in [Section -> Nat]
      BY <1>1, <2>4 DEF PlaceSection, Memorize, IInv, Base, TypeOK
    <3>2. 1 \in DOMAIN todo /\ todo[1] = section
      BY <3>1 DEF section
    <3>3. ~ Placed(section)
      BY <1>1, <3>1, <3>2 DEF IInv, ListOK, Fresh
    <3> HIDE DEF section
    <3> QED
      BY <3>1, <3>3
  <2>5. CASE UNCHANGED vars
    BY <2>5
  <2> QED
    BY <1>1, <2>1, <2>2, <2>3, <2>4, <2>5, StepKinds DEF Still
<1> QED
  BY <1>1, Invariance, PTL DEF Spec, AddressIsFinal

----------------------------------------------------------------------------
(* Output sections in the file and in memory.                              *)

\* The two parts of FileMatchesMemory, for one output section and the addresses at.
Alike(out) ==
  \A j \in DOMAIN out.data :
    out.data[j].section # None => Hdr[out.data[j].section].space = out.space
Follows(out, at) ==
  \A j \in DOMAIN out.data :
    /\ out.data[j].off + out.data[j].size =
         IF j = Len(out.data) THEN out.offset * EntSize[out.space]
         ELSE out.data[j + 1].off
    /\ out.data[j].section # None =>
         out.data[j].off = (at[out.data[j].section] - out.addr) * EntSize[out.space]
Matches(out, at) == Alike(out) => Follows(out, at)

\* An output section is where its pieces are, which are those of placed sections.
Filled(out) ==
  /\ out.space = None => out.offset = 0 /\ out.data = <<>>
  /\ \A j \in DOMAIN out.data :
       out.data[j].section # None => Placed(out.data[j].section)
  /\ Matches(out, addr)

\* Without an error, the words of the newest output section end where those of its
\* block that are free begin, while memorize() fills it.
FilesOK ==
  ~ failed =>
    /\ \A i \in DOMAIN outs : Filled(outs[i])
    /\ pc = "place" /\ outs[1].space # None =>
         startUsed[segment] = outs[1].addr + outs[1].offset

\* What Extend does to an output section.
LEMMA ExtendIs ==
  ASSUME NEW out \in OutSection, NEW s \in Section, NEW n \in Nat,
         NEW piece \in Section \cup {None}
  PROVE  LET r == Extend(out, s, n, piece)
             w == EntSize[Hdr[s].space]
             l == Len(out.data)
         IN /\ r \in OutSection /\ r.space = out.space /\ r.addr = out.addr
            /\ r.offset = out.offset + n
            /\ l \in Nat /\ DOMAIN out.data = 1 .. l
            /\ Len(r.data) = l + 1 /\ DOMAIN r.data = 1 .. l + 1
            /\ \A j \in 1 .. l : r.data[j] = out.data[j]
            /\ r.data[l + 1] = [off |-> out.offset * w, size |-> n * w,
                                section |-> piece]
<1> DEFINE w == EntSize[Hdr[s].space]
           p == [off |-> out.offset * w, size |-> n * w, section |-> piece]
           r == Extend(out, s, n, piece)
           t == Append(out.data, p)
<1>1. r \in OutSection
  BY ExtendType
<1>2. w \in Nat
  BY HdrAssumption, EntSizeAssumption
<1>3. out.offset \in Nat /\ out.data \in Seq(Piece)
  BY DEF OutSection
<1> HIDE DEF w
<1>4. out.offset * w \in Nat /\ n * w \in Nat
  BY <1>2, <1>3
<1>5. p \in Piece
  BY <1>4 DEF Piece
<1>6. r = [out EXCEPT !.offset = @ + n, !.data = t]
  BY DEF Extend, w
<1> HIDE DEF p
<1>7. /\ t \in Seq(Piece) /\ Len(t) = Len(out.data) + 1
      /\ t[Len(out.data) + 1] = p
      /\ \A j \in 1 .. Len(out.data) : t[j] = out.data[j]
  BY <1>3, <1>5
<1> HIDE DEF t, r
<1>8. /\ r.space = out.space /\ r.addr = out.addr /\ r.offset = out.offset + n
      /\ r.data = t
  BY <1>6 DEF OutSection
<1>9. Len(out.data) \in Nat /\ DOMAIN out.data = 1 .. Len(out.data)
      /\ DOMAIN t = 1 .. Len(t)
  BY <1>3, <1>7
<1> QED
  BY <1>1, <1>7, <1>8, <1>9 DEF r, p, w

\* A piece that begins where the others end, and a section where its address is.
LEMMA ExtendMatches ==
  ASSUME NEW out \in OutSection, NEW s \in Section, NEW n \in Nat,
         NEW piece \in {s, None}, NEW at \in [Section -> Nat],
         Matches(out, at), out.space = Hdr[s].space,
         piece = s => at[s] = out.addr + out.offset
  PROVE  Matches(Extend(out, s, n, piece), at)
<1> DEFINE r == Extend(out, s, n, piece)
           w == EntSize[Hdr[s].space]
           l == Len(out.data)
           x == out.offset
<1>1. /\ r \in OutSection /\ r.space = out.space /\ r.addr = out.addr
      /\ r.offset = x + n /\ l \in Nat /\ DOMAIN out.data = 1 .. l
      /\ Len(r.data) = l + 1 /\ DOMAIN r.data = 1 .. l + 1
      /\ \A j \in 1 .. l : r.data[j] = out.data[j]
      /\ r.data[l + 1] = [off |-> x * w, size |-> n * w, section |-> piece]
  BY ExtendIs
<1>2. w \in Nat /\ x \in Nat /\ out.addr \in Nat
  BY HdrAssumption, EntSizeAssumption DEF OutSection
<1> HIDE DEF r, w, l, x
<1>3. ASSUME Alike(r) PROVE Follows(out, at)
  <2>1. Alike(out)
    BY <1>1, <1>3 DEF Alike
  <2> QED
    BY <2>1 DEF Matches
<1>4. x * w + n * w = (x + n) * w
  BY <1>2
<1>5. ASSUME Alike(r), NEW j \in 1 .. l + 1
      PROVE  /\ r.data[j].off + r.data[j].size =
                  IF j = Len(r.data) THEN r.offset * EntSize[r.space]
                  ELSE r.data[j + 1].off
             /\ r.data[j].section # None =>
                  r.data[j].off = (at[r.data[j].section] - r.addr) * EntSize[r.space]
  <2>1. EntSize[r.space] = w /\ EntSize[out.space] = w
    BY <1>1 DEF w
  <2>2. CASE j = l + 1
    <3>1. /\ r.data[j].off = x * w /\ r.data[j].size = n * w
          /\ r.data[j].section = piece
      BY <1>1, <2>2
    <3>2. piece = s => at[piece] - r.addr = x
      <4>1. piece = s => at[piece] = r.addr + x /\ r.addr \in Nat
        BY <1>1, <1>2 DEF x
      <4> QED
        BY <1>2, <4>1
    <3> QED
      BY <1>1, <1>4, <2>1, <2>2, <3>1, <3>2
  <2>3. CASE j # l + 1
    <3>1. j \in 1 .. l /\ j # Len(r.data)
      BY <1>1, <2>3
    <3>2. r.data[j] = out.data[j] /\ j \in DOMAIN out.data
      BY <1>1, <3>1
    <3>3. /\ out.data[j].off + out.data[j].size =
               IF j = l THEN x * w ELSE out.data[j + 1].off
          /\ out.data[j].section # None =>
               out.data[j].off = (at[out.data[j].section] - out.addr) * w
      BY <1>3, <1>5, <2>1, <3>2 DEF Follows, l, x
    <3>4. j = l => r.data[j + 1].off = x * w
      BY <1>1
    <3>5. j # l => r.data[j + 1] = out.data[j + 1]
      <4>1. j # l => j + 1 \in 1 .. l
        BY <1>1, <3>1
      <4> QED
        BY <1>1, <4>1
    <3> QED
      BY <1>1, <2>1, <3>1, <3>2, <3>3, <3>4, <3>5
  <2> QED
    BY <2>2, <2>3
<1>6. Matches(r, at)
  BY <1>1, <1>5 DEF Matches, Follows
<1> QED
  BY <1>6 DEF r

\* outfile_memorize_section: the output section with the fill and the section.
Laid(out, s, p, n, f) == Extend(Header(Aligned(out, s, p), s, f + p), s, n, s)

\* The pieces of an output section are those of another one, a section and fill.
Adds(r, out, s) ==
  \A j \in DOMAIN r.data :
    \/ r.data[j].section \in {None, s}
    \/ \E k \in DOMAIN out.data : r.data[j].section = out.data[k].section

LEMMA LaidOut ==
  ASSUME NEW out \in OutSection, NEW s \in Section, NEW p \in Nat, NEW n \in Nat,
         NEW f \in Nat, NEW at \in [Section -> Nat], Matches(out, at),
         out.space = None => out.offset = 0 /\ out.data = <<>>,
         out.space # None => f = out.addr + out.offset,
         at[s] = f + p
  PROVE  /\ Laid(out, s, p, n, f) \in OutSection /\ Laid(out, s, p, n, f).space # None
         /\ Laid(out, s, p, n, f).addr + Laid(out, s, p, n, f).offset = f + p + n
         /\ Matches(Laid(out, s, p, n, f), at)
         /\ Adds(Laid(out, s, p, n, f), out, s)
<1> DEFINE a == Aligned(out, s, p)
           h == Header(a, s, f + p)
           r == Extend(h, s, n, s)
<1>1. /\ Hdr[s].space \in Space /\ Hdr[s].space # None
      /\ out.addr \in Nat /\ out.offset \in Nat /\ out.data \in Seq(Piece)
  BY HdrAssumption DEF OutSection, Space, None
<1>2. a \in OutSection /\ h \in OutSection
  BY AlignedType, HeaderType
<1>3. /\ h.space # None /\ h.addr + h.offset = f + p
      /\ h.space = Hdr[s].space => Matches(h, at)
      /\ \A j \in DOMAIN h.data :
           \/ h.data[j].section = None
           \/ \E k \in DOMAIN out.data : h.data[j].section = out.data[k].section
  <2>1. CASE out.space = None
    <3>1. a = out
      BY <2>1 DEF Aligned
    <3>2. h.space = Hdr[s].space /\ h.addr = f + p /\ h.offset = 0 /\ h.data = <<>>
      BY <2>1, <3>1 DEF Header, OutSection
    <3> HIDE DEF h
    <3> QED
      BY <1>1, <3>2 DEF Matches, Follows
  <2>2. CASE out.space # None /\ p = 0
    <3>1. h = out
      BY <2>2 DEF Aligned, Header
    <3> HIDE DEF h
    <3> QED
      BY <1>1, <2>2, <3>1
  <2>3. CASE out.space # None /\ p # 0
    <3>1. a = Extend(out, s, p, None)
      BY <2>3 DEF Aligned
    <3>2. /\ a.space = out.space /\ a.addr = out.addr /\ a.offset = out.offset + p
          /\ DOMAIN out.data = 1 .. Len(out.data) /\ Len(out.data) \in Nat
          /\ DOMAIN a.data = 1 .. Len(out.data) + 1
          /\ \A j \in 1 .. Len(out.data) : a.data[j] = out.data[j]
          /\ a.data[Len(out.data) + 1].section = None
      <4> DEFINE w == EntSize[Hdr[s].space]
      <4>1. None \in Section \cup {None}
        OBVIOUS
      <4>2. /\ a.space = out.space /\ a.addr = out.addr /\ a.offset = out.offset + p
            /\ Len(out.data) \in Nat /\ DOMAIN out.data = 1 .. Len(out.data)
            /\ DOMAIN a.data = 1 .. Len(out.data) + 1
            /\ \A j \in 1 .. Len(out.data) : a.data[j] = out.data[j]
            /\ a.data[Len(out.data) + 1] = [off |-> out.offset * w, size |-> p * w,
                                            section |-> None]
        BY <3>1, <4>1, ExtendIs
      <4> HIDE DEF w, a
      <4> QED
        BY <4>2
    <3>3. h = a
      BY <2>3, <3>2 DEF Header
    <3>4. a.space = Hdr[s].space => Matches(a, at)
      BY <3>1, <3>2, ExtendMatches, NoneAssumption, ZenonT(40)
    <3>5. a.addr + a.offset = f + p
      BY <1>1, <2>3, <3>2
    <3>6. ASSUME NEW j \in DOMAIN a.data
          PROVE  \/ a.data[j].section = None
                 \/ \E k \in DOMAIN out.data : a.data[j].section = out.data[k].section
      <4>1. j = Len(out.data) + 1 \/ j \in DOMAIN out.data
        BY <3>2
      <4> QED
        BY <3>2, <4>1
    <3> HIDE DEF a, h
    <3> QED
      BY <2>3, <3>2, <3>3, <3>4, <3>5, <3>6
  <2> QED
    BY <2>1, <2>2, <2>3
<1> HIDE DEF a, h
<1>4. /\ r \in OutSection /\ r.space = h.space /\ r.addr = h.addr
      /\ r.offset = h.offset + n
      /\ Len(h.data) \in Nat /\ DOMAIN h.data = 1 .. Len(h.data)
      /\ DOMAIN r.data = 1 .. Len(h.data) + 1
      /\ \A j \in 1 .. Len(h.data) : r.data[j] = h.data[j]
      /\ r.data[Len(h.data) + 1].section = s
  <2> DEFINE w == EntSize[Hdr[s].space]
  <2>1. s \in Section \cup {None}
    OBVIOUS
  <2>2. /\ r \in OutSection /\ r.space = h.space /\ r.addr = h.addr
        /\ r.offset = h.offset + n
        /\ Len(h.data) \in Nat /\ DOMAIN h.data = 1 .. Len(h.data)
        /\ DOMAIN r.data = 1 .. Len(h.data) + 1
        /\ \A j \in 1 .. Len(h.data) : r.data[j] = h.data[j]
        /\ r.data[Len(h.data) + 1] = [off |-> h.offset * w, size |-> n * w,
                                      section |-> s]
    BY <1>2, <2>1, ExtendIs
  <2> HIDE DEF w, r
  <2> QED
    BY <2>2
<1>5. Matches(r, at)
  <2>1. CASE h.space = Hdr[s].space
    <3>1. at[s] = h.addr + h.offset
      BY <1>3
    <3> QED
      BY <1>2, <1>3, <2>1, <3>1, ExtendMatches
  <2>2. CASE h.space # Hdr[s].space
    <3>1. Len(h.data) + 1 \in DOMAIN r.data
      BY <1>4
    <3>2. ~ Alike(r)
      BY <1>4, <2>2, <3>1, NoneAssumption DEF Alike
    <3> QED
      BY <3>2 DEF Matches
  <2> QED
    BY <2>1, <2>2
<1>6. r.addr + r.offset = f + p + n
  <2>1. h.addr \in Nat /\ h.offset \in Nat
    BY <1>2 DEF OutSection
  <2>2. r.addr = h.addr /\ r.offset = h.offset + n
    BY <1>4
  <2>3. h.addr + h.offset = f + p
    BY <1>3
  <2> HIDE DEF r
  <2> QED
    BY SMTT(30), <2>1, <2>2, <2>3
<1>7. Adds(r, out, s)
  <2>1. ASSUME NEW j \in DOMAIN r.data
        PROVE  \/ r.data[j].section \in {None, s}
               \/ \E k \in DOMAIN out.data : r.data[j].section = out.data[k].section
    <3>1. j = Len(h.data) + 1 \/ j \in DOMAIN h.data
      BY <1>4
    <3> QED
      BY <1>3, <1>4, <3>1
  <2> HIDE DEF r
  <2> QED
    BY <2>1 DEF Adds
<1>8. Laid(out, s, p, n, f) = r
  BY DEF Laid, h, a
<1>9. r \in OutSection /\ r.space # None
  BY <1>3, <1>4
<1> HIDE DEF r
<1> QED
  BY <1>5, <1>6, <1>7, <1>8, <1>9

\* The match depends on the addresses of the sections only.
LEMMA SameAddresses ==
  ASSUME NEW out, NEW at, NEW new, Matches(out, at),
         \A j \in DOMAIN out.data :
           out.data[j].section # None => new[out.data[j].section] = at[out.data[j].section]
  PROVE  Matches(out, new)
BY DEF Matches, Follows

\* An error is never forgotten, and few actions change the output sections.
LEMMA FileKinds ==
  ASSUME TypeOK, Next
  PROVE  /\ failed => failed'
         /\ \/ outs' = outs /\ pc' # "place"
            \/ BeginProcessor
            \/ \E name \in OutName, type \in SecType, n \in BlockName \cup {None} :
                 EndSection(name, type, n)
            \/ RejectType \/ RejectAlignment \/ RejectSize \/ PlaceSection
         /\ output' = "written" => output = "written" \/ \E e \in BOOLEAN : EndProcessor(e)
<1> USE DEF declVars, fileVars, placeVars
<1>0. failed \in BOOLEAN
  BY DEF TypeOK
<1>1. ASSUME NEW d \in BlockDecl, AddMemoryBlock(d)
      PROVE  /\ failed => failed'
             /\ outs' = outs /\ pc' # "place" /\ output' = output
  BY <1>0, <1>1 DEF AddMemoryBlock
<1>2. CASE BeginProcessor
  BY <1>2 DEF BeginProcessor
<1>3. CASE BeginSection \/ BeginInputs
  BY <1>3 DEF BeginSection, BeginInputs
<1>4. ASSUME NEW f \in FileName, AddOneObject(f)
      PROVE  /\ failed => failed'
             /\ outs' = outs /\ pc' # "place" /\ output' = output
  BY <1>0, <1>4 DEF AddOneObject
<1>5. ASSUME NEW names \in SUBSET Label, AddObjectSections(names)
      PROVE  /\ failed => failed'
             /\ outs' = outs /\ pc' # "place" /\ output' = output
  BY <1>5 DEF AddObjectSections
<1>6. CASE DropSection
  BY <1>6 DEF DropSection
<1>7. ASSUME NEW name \in OutName, NEW type \in SecType,
             NEW n \in BlockName \cup {None}, EndSection(name, type, n)
      PROVE  (failed => failed') /\ output' = output
  BY <1>0, <1>7 DEF EndSection
<1>8. ASSUME NEW e \in BOOLEAN, EndProcessor(e)
      PROVE  /\ failed => failed'
             /\ outs' = outs /\ pc' # "place"
  BY <1>0, <1>8 DEF EndProcessor
<1>9. CASE EndParse
  BY <1>0, <1>9 DEF EndParse
<1>14. ASSUME NEW named \in BOOLEAN, SyntaxError(named)
       PROVE  /\ failed => failed'
              /\ outs' = outs /\ pc' # "place" /\ output' = output
  BY <1>14 DEF SyntaxError
<1>15. CASE NameAssertion
  BY <1>15 DEF NameAssertion
<1>10. CASE NextObject \/ EndObject \/ EndMemorize
  BY <1>10 DEF NextObject, EndObject, EndMemorize
<1>11. CASE SkipSection \/ RefuseSection \/ AddSection
  BY <1>0, <1>11 DEF SkipSection, RefuseSection, AddSection, ReadSection
<1>12. CASE RejectType \/ RejectAlignment \/ RejectSize \/ PlaceSection
  BY <1>0, <1>12
  DEF RejectType, RejectAlignment, RejectSize, PlaceSection, Memorize
<1>13. CASE Stopped
  BY <1>13 DEF Stopped, vars
<1> QED
  BY <1>1, <1>2, <1>3, <1>4, <1>5, <1>6, <1>7, <1>8, <1>9, <1>10, <1>11, <1>12, <1>13,
     <1>14, <1>15
  DEF Next, Statement, Loop

\* Every step keeps the output sections where their pieces are.
LEMMA FilesStep ==
  ASSUME IInv, FilesOK, Next
  PROVE  FilesOK'
<1>0. TypeOK /\ (failed => failed')
  BY FileKinds DEF IInv, Base
<1>1. CASE outs' = outs /\ pc' # "place" /\ UNCHANGED <<where, addr>>
  BY <1>0, <1>1 DEF FilesOK, Filled, Placed
<1>2. CASE BeginProcessor
  BY <1>2 DEF BeginProcessor, FilesOK
<1>3. ASSUME NEW name \in OutName, NEW type \in SecType,
             NEW n \in BlockName \cup {None}, EndSection(name, type, n)
      PROVE  FilesOK'
  <2>1. pc' = "sections" \/ pc' = "place"
    BY <1>3 DEF EndSection
  <2>2. UNCHANGED <<where, addr>>
    BY <1>3 DEF EndSection
  <2>3. CASE outs' = outs /\ pc' = "sections"
    BY <1>1, <2>2, <2>3
  <2>4. CASE pc' = "place" /\ ~ failed'
    <3> DEFINE new == [name |-> name, type |-> type, space |-> None,
                       addr |-> 0, offset |-> 0, data |-> <<>>]
    <3>1. outs' = <<new>> \o outs
      BY <1>3, <2>4 DEF EndSection
    <3>2. new.space = None /\ new.offset = 0 /\ new.data = <<>>
      OBVIOUS
    <3> HIDE DEF new
    <3>3. /\ DOMAIN outs' = 1 .. Len(outs) + 1 /\ outs'[1] = new
          /\ \A i \in 2 .. Len(outs) + 1 : outs'[i] = outs[i - 1]
          /\ Len(outs) \in Nat /\ DOMAIN outs = 1 .. Len(outs)
      <4>1. outs \in Seq(OutSection)
        BY <1>0 DEF TypeOK
      <4> QED
        BY <3>1, <4>1
    <3>4. ASSUME NEW i \in DOMAIN outs' PROVE Filled(outs[i])'
      <4>1. CASE i = 1
        <5>1. Matches(new, addr')
          BY <3>2 DEF Matches, Follows
        <5> QED
          BY <3>2, <3>3, <4>1, <5>1 DEF Filled
      <4>2. CASE i # 1
        <5>1. i \in 2 .. Len(outs) + 1 /\ i - 1 \in DOMAIN outs
          BY <3>3, <4>2
        <5>2. Filled(outs[i - 1]) /\ outs'[i] = outs[i - 1]
          BY <1>0, <2>4, <3>3, <5>1 DEF FilesOK
        <5> QED
          BY <2>2, <5>2 DEF Filled, Placed
      <4> QED
        BY <4>1, <4>2
    <3> QED
      BY <3>2, <3>3, <3>4 DEF FilesOK
  <2> QED
    BY <1>3, <2>1, <2>3, <2>4 DEF EndSection, FilesOK
<1>4. CASE RejectType \/ RejectAlignment \/ RejectSize
  BY <1>4 DEF RejectType, RejectAlignment, RejectSize, FilesOK
<1>5. CASE PlaceSection /\ ~ failed'
  <2> DEFINE s == section
             f == start
             p == pad
             n == Hdr[s].size
             o == outs[1]
             r == Laid(o, s, p, n, f)
  <2>1. Memorize /\ pc = "place" /\ ~ failed /\ todo # <<>> /\ todo \in Seq(Section)
    BY <1>0, <1>5 DEF PlaceSection, Memorize, TypeOK
  <2>2. /\ s \in Section /\ segment \in Block /\ f \in Nat /\ p \in Nat /\ n \in Nat
        /\ o \in OutSection /\ 1 \in DOMAIN outs
    BY <2>1, MemorizeFacts DEF IInv, Base
  <2>3. ~ Placed(s)
    <3>1. 1 \in DOMAIN todo /\ todo[1] = section
      BY <2>1 DEF section
    <3> QED
      BY <2>1, <3>1 DEF IInv, ListOK, Fresh
  <2>4. /\ outs' = [outs EXCEPT ![1] = r]
        /\ startUsed' = [startUsed EXCEPT ![segment] = f + p + n]
        /\ where' = [where EXCEPT ![s] = segment]
        /\ addr' = [addr EXCEPT ![s] = f + p]
        /\ segment' = segment
    BY <1>5 DEF PlaceSection, Memorize, Laid
  <2>5. /\ where \in [Section -> Block \cup {NoBlock}] /\ addr \in [Section -> Nat]
        /\ startUsed \in [Block -> Nat] /\ outs \in Seq(OutSection)
        /\ \A i \in DOMAIN outs : outs[i] \in OutSection
    BY <1>0 DEF TypeOK
  <2>6. f = startUsed[segment]
    BY DEF start
  <2>7. f + p \in Nat /\ f + p + n \in Nat
    BY <2>2
  <2> HIDE DEF s, f, p, n, o, r
  <2>8. /\ addr' \in [Section -> Nat] /\ addr'[s] = f + p
        /\ \A t \in Section : t # s => addr'[t] = addr[t] /\ where'[t] = where[t]
        /\ where'[s] = segment /\ startUsed'[segment] = f + p + n
    BY <2>2, <2>4, <2>5, <2>7
  <2>9. segment # NoBlock
    BY <2>2, BoundAssumption DEF Block, NoBlock, MemList
  <2>10. \A t \in Section : Placed(t) => t # s /\ where'[t] # NoBlock /\ addr'[t] = addr[t]
    BY <2>3, <2>8 DEF Placed
  <2>11. ASSUME NEW i \in DOMAIN outs
         PROVE  /\ Matches(outs[i], addr')
                /\ \A j \in DOMAIN outs[i].data :
                     outs[i].data[j].section # None =>
                       where'[outs[i].data[j].section] # NoBlock
    <3>1. Filled(outs[i])
      BY <2>1 DEF FilesOK
    <3>2. ASSUME NEW j \in DOMAIN outs[i].data, outs[i].data[j].section # None
          PROVE  /\ outs[i].data[j].section \in Section
                 /\ Placed(outs[i].data[j].section)
      <4>1. outs[i].data \in Seq(Piece)
        BY <2>5 DEF OutSection
      <4>2. outs[i].data[j] \in Piece
        BY <4>1
      <4> QED
        BY <3>1, <3>2, <4>2 DEF Piece, Filled
    <3>3. Matches(outs[i], addr')
      BY <2>10, <3>1, <3>2, SameAddresses DEF Filled
    <3> QED
      BY <2>10, <3>2, <3>3
  <2>12. /\ r \in OutSection /\ r.space # None
         /\ r.addr + r.offset = f + p + n /\ Matches(r, addr')
         /\ Adds(r, o, s)
    <3>1. /\ Matches(o, addr')
          /\ o.space = None => o.offset = 0 /\ o.data = <<>>
          /\ o.space # None => f = o.addr + o.offset
      BY <2>1, <2>2, <2>6, <2>11 DEF FilesOK, Filled, o
    <3>2. PICK at : at = addr'
      OBVIOUS
    <3>3. /\ s \in Section /\ o \in OutSection /\ f \in Nat /\ p \in Nat /\ n \in Nat
          /\ at \in [Section -> Nat] /\ at[s] = f + p /\ Matches(o, at)
      BY <2>2, <2>8, <3>1, <3>2
    <3>4. /\ r \in OutSection /\ r.space # None
          /\ r.addr + r.offset = f + p + n /\ Matches(r, at)
          /\ Adds(r, o, s)
      <4>1. ASSUME NEW x \in OutSection, NEW y \in Section, NEW u \in Nat, NEW v \in Nat,
                   NEW w \in Nat, Matches(x, at), at[y] = w + u,
                   x.space = None => x.offset = 0 /\ x.data = <<>>,
                   x.space # None => w = x.addr + x.offset
            PROVE  /\ Laid(x, y, u, v, w) \in OutSection
                   /\ Laid(x, y, u, v, w).space # None
                   /\ Laid(x, y, u, v, w).addr + Laid(x, y, u, v, w).offset = w + u + v
                   /\ Matches(Laid(x, y, u, v, w), at)
                   /\ Adds(Laid(x, y, u, v, w), x, y)
        <5>1. at \in [Section -> Nat]
          BY <3>3
        <5>2. Laid(x, y, u, v, w) \in OutSection
          BY <4>1, <5>1, LaidOut
        <5>3. Laid(x, y, u, v, w).space # None
          BY <4>1, <5>1, LaidOut
        <5>4. Laid(x, y, u, v, w).addr + Laid(x, y, u, v, w).offset = w + u + v
          BY <4>1, <5>1, LaidOut
        <5>5. Matches(Laid(x, y, u, v, w), at)
          BY <4>1, <5>1, LaidOut
        <5>6. Adds(Laid(x, y, u, v, w), x, y)
          BY <4>1, <5>1, LaidOut
        <5> QED
          BY <5>2, <5>3, <5>4, <5>5, <5>6
      <4>2. r = Laid(o, s, p, n, f)
        BY DEF r
      <4> HIDE DEF r
      <4>3. /\ Laid(o, s, p, n, f) \in OutSection
            /\ Laid(o, s, p, n, f).space # None
            /\ Laid(o, s, p, n, f).addr + Laid(o, s, p, n, f).offset = f + p + n
            /\ Matches(Laid(o, s, p, n, f), at)
            /\ Adds(Laid(o, s, p, n, f), o, s)
        BY <3>1, <3>3, <4>1
      <4> QED
        BY <4>2, <4>3
    <3> QED
      BY <3>2, <3>4
  <2>13. \A j \in DOMAIN r.data :
           r.data[j].section # None => where'[r.data[j].section] # NoBlock
    <3>1. \A k \in DOMAIN o.data :
            o.data[k].section # None => where'[o.data[k].section] # NoBlock
      BY <2>2, <2>11 DEF o
    <3> QED
      BY <2>8, <2>9, <2>12, <3>1 DEF Adds
  <2>14. /\ DOMAIN outs' = DOMAIN outs /\ outs'[1] = r
         /\ \A i \in DOMAIN outs : i # 1 => outs'[i] = outs[i]
    BY <2>2, <2>4, <2>5
  <2>15. ASSUME NEW i \in DOMAIN outs PROVE Filled(outs[i])'
    <3>1. CASE i = 1
      BY <2>12, <2>13, <2>14, <3>1 DEF Filled, Placed
    <3>2. CASE i # 1
      <4>1. outs[i].space = None => outs[i].offset = 0 /\ outs[i].data = <<>>
        BY <2>1 DEF FilesOK, Filled
      <4> QED
        BY <2>11, <2>14, <3>2, <4>1 DEF Filled, Placed
    <3> QED
      BY <3>1, <3>2
  <2> QED
    BY <2>4, <2>8, <2>12, <2>14, <2>15 DEF FilesOK
<1>6. CASE failed'
  BY <1>6 DEF FilesOK
<1>7. ASSUME NEW d \in BlockDecl, AddMemoryBlock(d) PROVE UNCHANGED <<where, addr>>
  BY <1>7 DEF AddMemoryBlock, placeVars
<1> QED
  BY <1>0, <1>1, <1>2, <1>3, <1>4, <1>5, <1>6, <1>7, FileKinds, StepKinds DEF Still

----------------------------------------------------------------------------
(* Blocks that share words.                                                *)

\* add_memory_block reports the later of two blocks when an end of it is inside the
\* other one.
Apart(d, e) == EndInside(d, e) => ~ EndInside(e, d)
ApartOK ==
  ~ failed => \A l \in MemList : \A d, e \in memory[l] : d # e => Apart(d, e)

\* What the blocks of the sections in an executable are, whatever is declared later.
DiskOK ==
  output = "written" =>
    \A s, t \in Section :
      Placed(s) /\ Placed(t) /\ where[s][1] = where[t][1] /\ where[s] # where[t]
        => Apart(DeclOf(where[s]), DeclOf(where[t]))

\* The blocks of a link without an error keep apart.
LEMMA ApartStep ==
  ASSUME IInv, ApartOK, Next
  PROVE  ApartOK'
<1>0. TypeOK /\ (failed => failed')
  BY FileKinds DEF IInv, Base
<1>1. CASE memory' = memory
  BY <1>0, <1>1 DEF ApartOK
<1>2. ASSUME NEW d \in BlockDecl, AddMemoryBlock(d), ~ failed' PROVE ApartOK'
  <2>1. /\ memory' = [memory EXCEPT ![current] = @ \cup {d}]
        /\ \A old \in memory[current] : ~ EndInside(d, old)
        /\ ~ failed
    BY <1>2 DEF AddMemoryBlock
  <2> SUFFICES ASSUME NEW l \in MemList, NEW a \in memory'[l], NEW b \in memory'[l], a # b
               PROVE  Apart(a, b)
    BY DEF ApartOK, Apart
  <2>2. CASE a \in memory[l] /\ b \in memory[l]
    BY <2>1, <2>2 DEF ApartOK
  <2>3. CASE ~ (a \in memory[l] /\ b \in memory[l])
    <3>1. l = current
      BY <1>0, <2>1, <2>3 DEF TypeOK
    <3>2. (a = d /\ b \in memory[current]) \/ (b = d /\ a \in memory[current])
      BY <1>0, <2>1, <2>3, <3>1 DEF TypeOK
    <3> QED
      BY <2>1, <3>2 DEF Apart
  <2> QED
    BY <2>2, <2>3
<1>3. CASE failed'
  BY <1>3 DEF ApartOK
<1>4. RejectSize \/ PlaceSection => memory' = memory
  BY DEF RejectSize, PlaceSection, Memorize
<1> QED
  BY <1>1, <1>2, <1>3, <1>4, StepKinds DEF Still

\* The blocks of an executable on disk keep apart.
LEMMA DiskStep ==
  ASSUME IInv, IInv', ApartOK, DiskOK, Next
  PROVE  DiskOK'
<1> SUFFICES ASSUME output' = "written", NEW s \in Section, NEW t \in Section,
                    where'[s] # NoBlock, where'[t] # NoBlock,
                    where'[s][1] = where'[t][1], where'[s] # where'[t]
             PROVE  Apart(DeclOf(where[s]), DeclOf(where[t]))'
  BY DEF DiskOK, Placed
<1>0. TypeOK /\ Base /\ (failed => failed') /\ UniqueNames'
  BY FileKinds DEF IInv, Base
<1>1. output = "written" => pc \in {"top", "done", "undefined", "aborted"}
  BY DEF IInv, WrittenOK
<1>2. ASSUME UNCHANGED <<where, memory>>, Apart(DeclOf(where[s]), DeclOf(where[t]))
      PROVE  Apart(DeclOf(where[s]), DeclOf(where[t]))'
  <2>1. DeclOf(where[s])' = DeclOf(where[s]) /\ DeclOf(where[t])' = DeclOf(where[t])
    BY <1>2 DEF DeclOf
  <2> QED
    BY <1>2, <2>1 DEF Apart
<1>3. ASSUME NEW u \in Section, where[u] # NoBlock
      PROVE  /\ where[u] \in Block /\ where[u][1] \in MemList
             /\ DeclOf(where[u]) \in memory[where[u][1]]
             /\ DeclOf(where[u]).name = where[u][2]
  <2>1. where[u] \in Block /\ where[u][2] \in NamesIn(where[u][1])
    BY <1>3 DEF IInv, PlacedOK, Placed, NamesIn
  <2> QED
    BY <1>0, <2>1, DeclOfBlock DEF Block
<1>4. ASSUME NEW e \in BOOLEAN, EndProcessor(e)
      PROVE  Apart(DeclOf(where[s]), DeclOf(where[t]))'
  <2>1. ~ failed /\ UNCHANGED <<where, memory>>
    BY <1>4 DEF EndProcessor, placeVars, declVars
  <2>2. DeclOf(where[s]).name # DeclOf(where[t]).name
    <3>1. where[s] = <<where[s][1], where[s][2]>> /\ where[t] = <<where[t][1], where[t][2]>>
      BY <1>3, <2>1 DEF Block
    <3> QED
      BY <1>3, <2>1, <3>1
  <2>3. Apart(DeclOf(where[s]), DeclOf(where[t]))
    BY <1>3, <2>1, <2>2 DEF ApartOK
  <2> QED
    BY <1>2, <2>1, <2>3
<1>5. CASE output = "written" /\ UNCHANGED <<where, memory>>
  BY <1>2, <1>5 DEF DiskOK, Placed
<1>6. ASSUME output = "written", NEW d \in BlockDecl, AddMemoryBlock(d)
      PROVE  Apart(DeclOf(where[s]), DeclOf(where[t]))'
  <2>1. where' = where /\ \A l \in MemList : memory[l] \subseteq memory'[l]
    <3>1. where' = where
      BY <1>6 DEF AddMemoryBlock, placeVars
    <3>2. memory' = memory \/ memory' = [memory EXCEPT ![current] = @ \cup {d}]
      BY <1>6 DEF AddMemoryBlock
    <3> QED
      BY <1>0, <3>1, <3>2 DEF TypeOK
  <2>2. ASSUME NEW u \in Section, where[u] # NoBlock
        PROVE  DeclOf(where[u])' = DeclOf(where[u])
    <3> DEFINE c == DeclOf(where[u])
               l == where[u][1]
    <3>1. l \in MemList /\ c \in memory'[l] /\ c.name = where[u][2]
      BY <1>3, <2>1, <2>2
    <3> HIDE DEF c
    <3>2. \A e \in memory'[l] : e.name = where[u][2] => e = c
      BY <1>0, <3>1 DEF UniqueNames
    <3>3. (CHOOSE e \in memory'[l] : e.name = where[u][2]) = c
      BY <3>1, <3>2
    <3> QED
      BY <2>1, <3>3 DEF DeclOf, c
  <2>3. Apart(DeclOf(where[s]), DeclOf(where[t]))
    BY <1>6, <2>1 DEF DiskOK, Placed
  <2>4. DeclOf(where[s])' = DeclOf(where[s]) /\ DeclOf(where[t])' = DeclOf(where[t])
    BY <2>1, <2>2
  <2> QED
    BY <2>3, <2>4 DEF Apart
<1>7. RejectSize \/ PlaceSection => pc = "place"
  BY DEF RejectSize, PlaceSection, Memorize
<1> QED
  BY <1>1, <1>4, <1>5, <1>6, <1>7, FileKinds, StepKinds, <1>0 DEF Still

\* Two blocks that keep apart and of which none is around the other share no word.
LEMMA ApartBlocks ==
  ASSUME NEW d, NEW e, d.space = e.space,
         d.start \in Nat, d.end \in Int, e.start \in Nat, e.end \in Int,
         Apart(d, e), ~ Surrounds(d, e), ~ Surrounds(e, d),
         NEW a \in Nat, NEW b \in Nat, NEW m \in Nat, NEW n \in Nat,
         d.start <= a, a + m <= d.end + 1, e.start <= b, b + n <= e.end + 1
  PROVE  ~ (a < b + n /\ b < a + m)
BY DEF Apart, EndInside, Surrounds

LEMMA FilesInvariance == Spec => [](FilesOK /\ ApartOK /\ DiskOK)
<1> DEFINE Files == FilesOK /\ ApartOK /\ DiskOK
<1>1. Init => Files
  <2> SUFFICES ASSUME Init PROVE Files
    OBVIOUS
  <2>1. /\ outs = <<>> /\ pc = "top" /\ output = "absent"
        /\ \A l \in MemList : memory[l] = {}
    BY DEF Init
  <2> QED
    BY <2>1 DEF FilesOK, ApartOK, DiskOK
<1>2. IInv /\ IInv' /\ Files /\ [Next]_vars => Files'
  <2> SUFFICES ASSUME IInv, IInv', Files, [Next]_vars PROVE Files'
    OBVIOUS
  <2>1. CASE Next
    BY <2>1, FilesStep, ApartStep, DiskStep
  <2>2. CASE UNCHANGED vars
    <3>1. UNCHANGED <<outs, pc, output, memory, where, addr, failed, startUsed, segment>>
      BY <2>2 DEF vars, declVars, placeVars
    <3>2. FilesOK'
      BY <3>1 DEF FilesOK, Filled, Placed
    <3>3. ApartOK'
      BY <3>1 DEF ApartOK
    <3>4. DiskOK'
      BY <3>1 DEF DiskOK, Placed, DeclOf
    <3> QED
      BY <3>2, <3>3, <3>4
  <2> QED
    BY <2>1, <2>2
<1> QED
  BY <1>1, <1>2, Invariance, PTL DEF Spec

\* Loading an output section at its address puts its sections at theirs.
THEOREM Loading == Spec => []FileMatchesMemory
<1>1. FilesOK => FileMatchesMemory
  BY DEF FilesOK, Filled, Matches, Alike, Follows, FileMatchesMemory
<1> QED
  BY <1>1, FilesInvariance, PTL

\* Two sections of an executable on disk share no word.
THEOREM Separation == Spec => []WrittenIsDisjoint
<1>1. IInv /\ DiskOK => WrittenIsDisjoint
  <2> SUFFICES ASSUME IInv, DiskOK, output = "written",
                      \A l \in MemList : \A d, e \in memory[l] : ~ Surrounds(d, e),
                      NEW s \in Section, NEW t \in Section, s # t,
                      Placed(s), Placed(t), where[s][1] = where[t][1],
                      DeclOf(where[s]).space = DeclOf(where[t]).space
               PROVE  ~ Overlap(s, t)
    BY DEF WrittenIsDisjoint
  <2>1. CASE where[s] = where[t]
    BY <2>1 DEF IInv, DisjointInBlock
  <2>2. CASE where[s] # where[t]
    <3>1. ASSUME NEW u \in Section, Placed(u)
          PROVE  LET d == DeclOf(where[u])
                 IN /\ where[u][1] \in MemList /\ d \in memory[where[u][1]]
                    /\ d.start \in Nat /\ d.end \in Int /\ d.start <= addr[u]
                    /\ addr[u] + Hdr[u].size <= d.end + 1
                    /\ addr[u] \in Nat /\ Hdr[u].size \in Nat
      <4>1. PICK d \in memory[where[u][1]] :
              /\ where[u] \in Block /\ d.name = where[u][2]
              /\ d.start <= addr[u] /\ addr[u] + Hdr[u].size <= d.end + 1
        BY <3>1 DEF IInv, PlacedOK
      <4>2. where[u][1] \in MemList /\ where[u][2] \in NamesIn(where[u][1])
        BY <4>1 DEF Block, NamesIn
      <4>3. DeclOf(where[u]) \in memory[where[u][1]] /\ DeclOf(where[u]).name = where[u][2]
        BY <4>1, <4>2, DeclOfBlock DEF IInv, Base
      <4>4. DeclOf(where[u]) = d
        BY <4>1, <4>2, <4>3 DEF IInv, Base, UniqueNames
      <4>5. d \in BlockDecl
        BY <4>1, <4>2 DEF IInv, Base, TypeOK
      <4>6. addr[u] \in Nat /\ Hdr[u].size \in Nat
        BY HdrAssumption DEF IInv, Base, TypeOK
      <4> QED
        BY <4>1, <4>2, <4>4, <4>5, <4>6, BlockAssumption
    <3>2. Apart(DeclOf(where[s]), DeclOf(where[t]))
      BY <2>2 DEF DiskOK
    <3>3. /\ ~ Surrounds(DeclOf(where[s]), DeclOf(where[t]))
          /\ ~ Surrounds(DeclOf(where[t]), DeclOf(where[s]))
      BY <3>1
    <3> QED
      BY <3>1, <3>2, <3>3, ApartBlocks DEF Overlap
  <2> QED
    BY <2>1, <2>2
<1> QED
  BY <1>1, Invariance, FilesInvariance, PTL
=============================================================================
