---------------------------- MODULE Array_proof ----------------------------
(***************************************************************************)
(* The arrays of ld21 for pages of every size: the assertions of array.c,  *)
(* the loop that counts down, and the steps of ArrayList that each step    *)
(* of Array is.                                                            *)
(***************************************************************************)
EXTENDS Array, SequenceTheorems, TLAPS

Count == Len(stored)

TypeInv ==
  /\ pc \in {"idle", "batch", "walk", "undefined"}
  /\ pages \in Seq([0 .. PerPage - 1 -> Element \cup {Junk}])
  /\ stored \in Seq(Element)
  /\ used \in Nat /\ current \in Nat /\ added \in Nat /\ available \in Nat
  /\ slot \in Nat /\ at \in Nat /\ index \in Nat /\ left \in Int
  /\ loop \in {"sections", "links"}

\* The elements fill the pages in order, from the first, up to current.
Filled ==
  /\ current <= Len(pages)
  /\ current = (IF Count % PerPage = 0 THEN 0 ELSE 1) + (Count \div PerPage)
  /\ \A i \in 0 .. Count - 1 :
       pages[(i \div PerPage) + 1][i % PerPage] = stored[i + 1]

\* A batch is on the page that it began or found, and knows its room.
BatchFits ==
  /\ used + added = Count
  /\ pc # "batch" => added = 0
  /\ pc = "batch" /\ added = 0 => available = 0
  /\ pc = "batch" /\ added # 0 =>
       /\ available = PerPage - (used % PerPage) /\ added <= available
       /\ slot = (used % PerPage) + added

\* A loop is at the beginning of its page, and has read what is before.
WalkRead ==
  /\ pc \in {"idle", "batch"} => at = 0
  /\ pc = "walk" =>
       /\ at = (index \div PerPage) + 1 /\ index % PerPage = 0 /\ at <= Len(pages)
       /\ left = PageSize(index) - slot /\ slot <= PerPage
       /\ loop = "sections" => slot = 0
       /\ used = 0 => index = 0
       /\ used > 0 => index < used /\ slot < PageSize(index)
       /\ used > 0 \/ loop = "sections" => visited = SubSeq(stored, 1, index + slot)
  /\ pc = "undefined" => used = 0 /\ pages # <<>>
  /\ pages = <<>> => visited = <<>>

IInv == TypeInv /\ Filled /\ BatchFits /\ WalkRead
-----------------------------------------------------------------------------
(* Numbers of pages and slots.                                             *)

LEMMA Division ==
  ASSUME NEW n \in Nat
  PROVE  /\ n \div PerPage \in Nat /\ n % PerPage \in 0 .. PerPage - 1
         /\ n = PerPage * (n \div PerPage) + (n % PerPage)
BY PageAssumption

LEMMA DivisionIs ==
  ASSUME NEW n \in Nat, NEW q \in Nat, NEW r \in 0 .. PerPage - 1,
         n = PerPage * q + r
  PROVE  n \div PerPage = q /\ n % PerPage = r
BY PageAssumption

LEMMA Successor ==
  ASSUME NEW n \in Nat
  PROVE  IF n % PerPage = PerPage - 1
         THEN (n + 1) % PerPage = 0 /\ (n + 1) \div PerPage = (n \div PerPage) + 1
         ELSE /\ (n + 1) % PerPage = (n % PerPage) + 1
              /\ (n + 1) \div PerPage = n \div PerPage
<1> DEFINE q == n \div PerPage
           r == n % PerPage
<1>1. q \in Nat /\ r \in 0 .. PerPage - 1 /\ n = PerPage * q + r
  BY Division
<1> HIDE DEF q, r
<1>2. CASE r = PerPage - 1
  <2>1. n + 1 = PerPage * (q + 1) + 0 /\ 0 \in 0 .. PerPage - 1
    BY <1>1, <1>2, PageAssumption
  <2>2. (n + 1) \div PerPage = q + 1 /\ (n + 1) % PerPage = 0
    BY <1>1, <2>1, DivisionIs
  <2>3. QED
    BY <1>2, <2>2 DEF q, r
<1>3. CASE r # PerPage - 1
  <2>1. n + 1 = PerPage * q + (r + 1) /\ r + 1 \in 0 .. PerPage - 1
    BY <1>1, <1>3, PageAssumption
  <2>2. (n + 1) \div PerPage = q /\ (n + 1) % PerPage = r + 1
    BY <1>1, <2>1, DivisionIs
  <2>3. QED
    BY <1>3, <2>2 DEF q, r
<1>4. QED
  BY <1>2, <1>3

\* A smaller number is on a page before, or on the same page in a slot before.
LEMMA Before ==
  ASSUME NEW i \in Nat, NEW n \in Nat, i < n
  PROVE  \/ i \div PerPage < n \div PerPage
         \/ i \div PerPage = n \div PerPage /\ i % PerPage < n % PerPage
<1> DEFINE a == i \div PerPage
           b == n \div PerPage
           d == a - b - 1
<1>1. /\ a \in Nat /\ i % PerPage \in 0 .. PerPage - 1 /\ i = PerPage * a + (i % PerPage)
      /\ b \in Nat /\ n % PerPage \in 0 .. PerPage - 1 /\ n = PerPage * b + (n % PerPage)
  BY Division
<1>2. ASSUME a > b PROVE FALSE
  <2>1. d \in Nat /\ a = b + 1 + d
    BY <1>1, <1>2
  <2>2. PerPage * d \in Nat
    BY <2>1, PageAssumption
  <2> HIDE DEF d
  <2>3. PerPage * a = PerPage * b + PerPage + PerPage * d
    BY <1>1, <2>1, PageAssumption
  <2>4. QED
    BY <1>1, <2>2, <2>3, PageAssumption
<1>3. QED
  BY <1>1, <1>2, PageAssumption

LEMMA NextMultiple ==
  ASSUME NEW n \in Nat, n % PerPage = 0
  PROVE  /\ (n + PerPage) % PerPage = 0
         /\ (n + PerPage) \div PerPage = (n \div PerPage) + 1
<1> DEFINE q == n \div PerPage
<1>1. q \in Nat /\ n = PerPage * q + 0
  BY Division
<1> HIDE DEF q
<1>2. n + PerPage = PerPage * (q + 1) + 0 /\ 0 \in 0 .. PerPage - 1
  BY <1>1, PageAssumption
<1>3. QED
  BY <1>1, <1>2, DivisionIs, PageAssumption DEF q

\* The numbers that follow a multiple are on its page.
LEMMA OnPage ==
  ASSUME NEW n \in Nat, n % PerPage = 0, NEW k \in 0 .. PerPage - 1
  PROVE  (n + k) \div PerPage = n \div PerPage /\ (n + k) % PerPage = k
<1>1. n \div PerPage \in Nat /\ n + k = PerPage * (n \div PerPage) + k
  BY Division, PageAssumption
<1>2. QED
  BY <1>1, DivisionIs, PageAssumption
-----------------------------------------------------------------------------
\* The next element goes to the slot after the last one, and no other changes.
LEMMA StoreNext ==
  ASSUME TypeInv, Filled, NEW e \in Element
  PROVE  LET q == Count \div PerPage
             new == Store(q + 1, Count % PerPage, e)
         IN /\ AllocPage(Count) = q + 1
            /\ new \in Seq([0 .. PerPage - 1 -> Element \cup {Junk}])
            /\ Len(new) >= Len(pages) /\ Len(new) >= q + 1
            /\ new[q + 1][Count % PerPage] = e
            /\ \A p \in 1 .. Len(pages), s \in 0 .. PerPage - 1 :
                 p # q + 1 \/ s # Count % PerPage => new[p][s] = pages[p][s]
<1> DEFINE Page == [0 .. PerPage - 1 -> Element \cup {Junk}]
           q == Count \div PerPage
           r == Count % PerPage
           empty == [k \in 0 .. PerPage - 1 |-> Junk]
           room == IF q + 1 \in DOMAIN pages THEN pages ELSE Append(pages, empty)
<1>1. Count \in Nat /\ q \in Nat /\ r \in 0 .. PerPage - 1
  <2>1. Count \in Nat
    BY DEF TypeInv, Count
  <2>2. QED
    BY <2>1, Division
<1>2. pages \in Seq(Page) /\ Len(pages) \in Nat /\ current <= Len(pages)
  BY DEF TypeInv, Filled
<1>3. current = (IF r = 0 THEN 0 ELSE 1) + q
  BY DEF Filled
<1>4. AllocPage(Count) = q + 1
  BY <1>1, <1>3 DEF AllocPage
<1>5. empty \in Page
  OBVIOUS
<1> HIDE DEF Page, q, r, empty
<1>6. q <= Len(pages)
  BY <1>1, <1>2, <1>3
<1>7. /\ room \in Seq(Page) /\ Len(room) >= Len(pages) /\ q + 1 \in 1 .. Len(room)
      /\ \A p \in 1 .. Len(pages) : room[p] = pages[p]
  BY <1>1, <1>2, <1>5, <1>6
<1> HIDE DEF room
<1>8. Store(q + 1, r, e) = [room EXCEPT ![q + 1][r] = e]
  BY DEF Store, room, empty
<1>9. room[q + 1] \in Page /\ DOMAIN room = 1 .. Len(room)
  BY <1>7
<1>10. [room[q + 1] EXCEPT ![r] = e] \in Page
  BY <1>1, <1>9 DEF Page
<1> DEFINE new == [room EXCEPT ![q + 1] = [room[q + 1] EXCEPT ![r] = e]]
<1>11. new \in Seq(Page) /\ Len(new) = Len(room)
  BY <1>7, <1>10
<1>12. new[q + 1][r] = e
  BY <1>1, <1>7, <1>9 DEF Page
<1>13. ASSUME NEW p \in 1 .. Len(pages), NEW s \in 0 .. PerPage - 1, p # q + 1 \/ s # r
       PROVE  new[p][s] = pages[p][s]
  BY <1>1, <1>7, <1>9, <1>13 DEF Page
<1>14. Store(q + 1, r, e) = new
  BY <1>8
<1> HIDE DEF new
<1>15. Len(new) >= Len(pages) /\ Len(new) >= q + 1
  BY <1>1, <1>2, <1>7, <1>11
<1>16. QED
  BY <1>4, <1>11, <1>12, <1>13, <1>14, <1>15 DEF q, r, Page

\* An element that is stored next leaves the pages filled.
LEMMA StoredNext ==
  ASSUME TypeInv, Filled, NEW e \in Element,
         pages' = Store(AllocPage(Count), AllocSlot(Count), e),
         current' = AllocPage(Count), stored' = Append(stored, e)
  PROVE  /\ Filled' /\ Count' = Count + 1
         /\ pages' \in Seq([0 .. PerPage - 1 -> Element \cup {Junk}])
         /\ stored' \in Seq(Element) /\ current' \in Nat
         /\ pages' # <<>> /\ Len(pages') >= Len(pages)
<1> DEFINE q == Count \div PerPage
           r == Count % PerPage
<1>1. Count \in Nat /\ stored \in Seq(Element) /\ Len(pages) \in Nat
  BY DEF TypeInv, Count
<1>2. q \in Nat /\ r \in 0 .. PerPage - 1
  BY <1>1, Division
<1>3. /\ current' = q + 1
      /\ pages' \in Seq([0 .. PerPage - 1 -> Element \cup {Junk}])
      /\ Len(pages') >= Len(pages) /\ Len(pages') >= q + 1
      /\ pages'[q + 1][r] = e
      /\ \A p \in 1 .. Len(pages), s \in 0 .. PerPage - 1 :
           p # q + 1 \/ s # r => pages'[p][s] = pages[p][s]
  BY StoreNext DEF AllocSlot
<1>4. /\ Count' = Count + 1 /\ stored' \in Seq(Element)
      /\ stored'[Count + 1] = e
      /\ \A i \in 0 .. Count - 1 : stored'[i + 1] = stored[i + 1]
  BY <1>1 DEF Count
<1>5. current' = (IF (Count + 1) % PerPage = 0 THEN 0 ELSE 1) + ((Count + 1) \div PerPage)
  <2>1. IF r = PerPage - 1
        THEN (Count + 1) % PerPage = 0 /\ (Count + 1) \div PerPage = q + 1
        ELSE (Count + 1) % PerPage = r + 1 /\ (Count + 1) \div PerPage = q
    BY <1>1, Successor
  <2> HIDE DEF q, r
  <2>2. QED
    BY <1>2, <1>3, <2>1
<1>6. current = (IF r = 0 THEN 0 ELSE 1) + q /\ current <= Len(pages)
  BY DEF Filled
<1>7. ASSUME NEW i \in 0 .. Count
      PROVE  pages'[(i \div PerPage) + 1][i % PerPage] = stored'[i + 1]
  <2>1. CASE i = Count
    <3>1. i \div PerPage = q /\ i % PerPage = r
      BY <2>1
    <3> HIDE DEF q, r
    <3>2. QED
      BY <1>3, <1>4, <2>1, <3>1
  <2>2. CASE i < Count
    <3>1. i \in 0 .. Count - 1
      BY <1>1, <2>2
    <3>2. pages[(i \div PerPage) + 1][i % PerPage] = stored[i + 1]
      BY <3>1 DEF Filled
    <3>3. i \div PerPage \in Nat /\ i % PerPage \in 0 .. PerPage - 1
      BY Division
    <3>4. \/ i \div PerPage < q
          \/ i \div PerPage = q /\ i % PerPage < r
      BY <1>1, <2>2, Before
    <3>5. /\ (i \div PerPage) + 1 \in 1 .. Len(pages)
          /\ (i \div PerPage) + 1 # q + 1 \/ i % PerPage # r
      BY SMTT(30), <1>1, <1>2, <1>6, <3>3, <3>4
    <3>6. QED
      BY <1>3, <1>4, <3>1, <3>2, <3>3, <3>5
  <2>3. i = Count \/ i < Count
    BY <1>1
  <2>4. QED
    BY <2>1, <2>2, <2>3
<1>8. current' <= Len(pages') /\ Count' - 1 = Count
  BY <1>1, <1>2, <1>3, <1>4
<1>9. Filled'
  BY <1>4, <1>5, <1>7, <1>8 DEF Filled
<1>10. pages' # <<>>
  BY <1>2, <1>3
<1>11. QED
  BY <1>2, <1>3, <1>4, <1>9, <1>10
-----------------------------------------------------------------------------
(* The invariant.                                                          *)

LEMMA InitIInv == Init => IInv
<1> SUFFICES ASSUME Init PROVE IInv
  OBVIOUS
<1>1. Count = 0 /\ pages = <<>> /\ Len(pages) = 0
  BY DEF Init, Count
<1>2. 0 \div PerPage = 0 /\ 0 % PerPage = 0
  BY DivisionIs, PageAssumption
<1>3. TypeInv
  BY DEF Init, TypeInv
<1>4. Filled
  BY <1>1, <1>2 DEF Init, Filled
<1>5. BatchFits /\ WalkRead
  BY <1>1 DEF Init, BatchFits, WalkRead
<1>6. QED
  BY <1>3, <1>4, <1>5 DEF IInv

LEMMA ClearIInv == IInv /\ Clear => IInv'
<1> SUFFICES ASSUME IInv, Clear PROVE IInv'
  OBVIOUS
<1>1. Count' = 0 /\ 0 \div PerPage = 0 /\ 0 % PerPage = 0 /\ Len(pages) \in Nat
  BY DivisionIs, PageAssumption DEF Clear, Count, IInv, TypeInv
<1>2. TypeInv'
  BY DEF IInv, TypeInv, Clear, fillVars, readVars
<1>3. Filled'
  BY <1>1 DEF Filled, Clear
<1>4. BatchFits' /\ WalkRead'
  BY <1>1 DEF IInv, TypeInv, BatchFits, WalkRead, Clear, fillVars, readVars
<1>5. QED
  BY <1>2, <1>3, <1>4 DEF IInv

LEMMA AddOneIInv == ASSUME NEW e \in Element PROVE IInv /\ AddOne(e) => IInv'
<1> SUFFICES ASSUME IInv, AddOne(e) PROVE IInv'
  OBVIOUS
<1>1. used = Count /\ added = 0 /\ pc = "idle"
  BY DEF IInv, TypeInv, BatchFits, AddOne
<1>2. /\ Filled' /\ Count' = Count + 1
      /\ pages' \in Seq([0 .. PerPage - 1 -> Element \cup {Junk}])
      /\ stored' \in Seq(Element) /\ current' \in Nat /\ pages' # <<>>
  BY <1>1, StoredNext DEF IInv, AddOne
<1>3. TypeInv'
  BY <1>2 DEF IInv, TypeInv, AddOne, fillVars, readVars
<1>4. BatchFits'
  BY <1>1, <1>2 DEF IInv, TypeInv, BatchFits, AddOne, fillVars
<1>5. WalkRead'
  BY <1>1, <1>2 DEF IInv, WalkRead, AddOne, readVars
<1>6. QED
  BY <1>2, <1>3, <1>4, <1>5 DEF IInv

LEMMA BeginBatchIInv == IInv /\ BeginBatch => IInv'
<1> SUFFICES ASSUME IInv, BeginBatch PROVE IInv'
  OBVIOUS
<1>1. TypeInv'
  BY DEF IInv, TypeInv, BeginBatch, arrayVars, readVars
<1>2. Filled'
  BY DEF IInv, Filled, Count, BeginBatch, arrayVars
<1>3. BatchFits'
  BY DEF IInv, TypeInv, BatchFits, Count, BeginBatch, arrayVars
<1>4. WalkRead'
  BY DEF IInv, WalkRead, BeginBatch, arrayVars, readVars
<1>5. QED
  BY <1>1, <1>2, <1>3, <1>4 DEF IInv

\* The next slot of the page of the batch is that of the next element.
LEMMA AddNextIInv == ASSUME NEW e \in Element PROVE IInv /\ AddNext(e) => IInv'
<1> SUFFICES ASSUME IInv, AddNext(e) PROVE IInv'
  OBVIOUS
<1> DEFINE q == used \div PerPage
           r == used % PerPage
<1>1. /\ used \in Nat /\ added \in Nat /\ used + added = Count /\ added < available
      /\ added # 0 /\ available = PerPage - r /\ slot = r + added
  BY DEF IInv, TypeInv, BatchFits, AddNext
<1>2. q \in Nat /\ r \in 0 .. PerPage - 1 /\ used = PerPage * q + r
  BY <1>1, Division
<1>3. Count = PerPage * q + (r + added) /\ r + added \in 0 .. PerPage - 1
  <2> HIDE DEF q, r
  <2>1. QED
    BY <1>1, <1>2, PageAssumption
<1>4. Count \div PerPage = q /\ Count % PerPage = r + added
  BY <1>1, <1>2, <1>3, DivisionIs
<1>5. current = AllocPage(Count) /\ slot = AllocSlot(Count)
  BY <1>1, <1>2, <1>4, PageAssumption DEF AllocPage, AllocSlot
<1>6. /\ Filled' /\ Count' = Count + 1
      /\ pages' \in Seq([0 .. PerPage - 1 -> Element \cup {Junk}])
      /\ stored' \in Seq(Element) /\ current' \in Nat /\ pages' # <<>>
  BY <1>5, StoredNext DEF IInv, AddNext
<1>7. TypeInv'
  BY SMTT(30), <1>1, <1>6 DEF IInv, TypeInv, AddNext, readVars
<1>8. BatchFits'
  BY <1>1, <1>2, <1>6, PageAssumption DEF IInv, TypeInv, BatchFits, AddNext
<1>9. WalkRead'
  BY <1>6 DEF IInv, WalkRead, AddNext, readVars
<1>10. QED
  BY <1>6, <1>7, <1>8, <1>9 DEF IInv

LEMMA AddOnNewPageIInv ==
  ASSUME NEW e \in Element PROVE IInv /\ AddOnNewPage(e) => IInv'
<1> SUFFICES ASSUME IInv, AddOnNewPage(e) PROVE IInv'
  OBVIOUS
<1>1. Count \in Nat /\ used + added = Count /\ pc = "batch"
  BY DEF IInv, TypeInv, BatchFits, AddOnNewPage, Count
<1>2. Count % PerPage \in 0 .. PerPage - 1
  BY <1>1, Division
<1>3. /\ Filled' /\ Count' = Count + 1
      /\ pages' \in Seq([0 .. PerPage - 1 -> Element \cup {Junk}])
      /\ stored' \in Seq(Element) /\ current' \in Nat /\ pages' # <<>>
  BY <1>1, StoredNext DEF IInv, AddOnNewPage
<1>4. /\ used' = Count /\ added' = 1 /\ pc' = "batch"
      /\ available' = PerPage - (Count % PerPage) /\ slot' = (Count % PerPage) + 1
  BY <1>1 DEF AddOnNewPage, AllocRoom, AllocSlot
<1>5. TypeInv'
  BY <1>1, <1>2, <1>3, <1>4, PageAssumption
  DEF IInv, TypeInv, AddOnNewPage, readVars
<1>6. BatchFits'
  BY <1>1, <1>2, <1>3, <1>4, PageAssumption DEF BatchFits
<1>7. WalkRead'
  BY <1>1, <1>3, <1>4 DEF IInv, WalkRead, AddOnNewPage, readVars
<1>8. QED
  BY <1>3, <1>5, <1>6, <1>7 DEF IInv

LEMMA EndBatchIInv == IInv /\ EndBatch => IInv'
<1> SUFFICES ASSUME IInv, EndBatch PROVE IInv'
  OBVIOUS
<1>1. TypeInv'
  BY DEF IInv, TypeInv, EndBatch, readVars
<1>2. Filled'
  BY DEF IInv, Filled, Count, EndBatch
<1>3. BatchFits'
  BY DEF IInv, TypeInv, BatchFits, Count, EndBatch
<1>4. WalkRead'
  BY DEF IInv, WalkRead, EndBatch, readVars
<1>5. QED
  BY <1>1, <1>2, <1>3, <1>4 DEF IInv

\* Where a loop is that turns its page.
LEMMA AtPage ==
  ASSUME IInv, pc = "walk"
  PROVE  /\ NextIndex = index + PerPage /\ NextIndex % PerPage = 0 /\ at # 0
         /\ (NextIndex \div PerPage) + 1 = at + 1
         /\ NextIndex < used => at < Len(pages) /\ PageSize(index) = PerPage
         /\ used > 0 /\ NextIndex >= used => index + PageSize(index) = used
<1>1. /\ index \in Nat /\ used = Count /\ Count \in Nat
      /\ at = (index \div PerPage) + 1 /\ index % PerPage = 0
      /\ at \in 1 .. Len(pages)
      /\ used > 0 => index < used
  <2>1. index \div PerPage \in Nat
    BY Division DEF IInv, TypeInv
  <2>2. QED
    BY <2>1 DEF IInv, TypeInv, BatchFits, WalkRead, Count
<1>2. /\ (index + PerPage) % PerPage = 0
      /\ (index + PerPage) \div PerPage = (index \div PerPage) + 1
  BY <1>1, NextMultiple
<1>3. NextIndex = index + PerPage /\ at # 0
  <2>1. at # 0 /\ index + PerPage \in Nat
    BY <1>1, PageAssumption
  <2>2. NextIndex = (index + PerPage) - ((index + PerPage) % PerPage)
    BY <2>1 DEF NextIndex
  <2>3. QED
    BY <1>2, <2>1, <2>2
<1>4. ASSUME NextIndex < used
      PROVE  at < Len(pages) /\ PageSize(index) = PerPage
  <2>1. index + PerPage \in Nat /\ index + PerPage < Count
    BY <1>1, <1>3, <1>4, PageAssumption
  <2>2. \/ (index + PerPage) \div PerPage < Count \div PerPage
        \/ /\ (index + PerPage) \div PerPage = Count \div PerPage
           /\ (index + PerPage) % PerPage < Count % PerPage
    BY <1>1, <2>1, Before
  <2>3. /\ Len(pages) \in Nat /\ current <= Len(pages)
        /\ current = (IF Count % PerPage = 0 THEN 0 ELSE 1) + (Count \div PerPage)
        /\ current \in Nat
    BY DEF IInv, TypeInv, Filled
  <2>4. /\ Count \div PerPage \in Nat /\ index \div PerPage \in Nat
        /\ Count % PerPage \in 0 .. PerPage - 1
    BY <1>1, Division
  <2>5. at < Len(pages)
    <3> DEFINE a == index \div PerPage
               b == Count \div PerPage
               c == Count % PerPage
    <3>1. a \in Nat /\ b \in Nat /\ at = a + 1 /\ (a + 1 < b \/ (a + 1 = b /\ 0 < c))
      BY <1>1, <1>2, <2>2, <2>4
    <3>2. current = (IF c = 0 THEN 0 ELSE 1) + b
      BY <2>3
    <3> HIDE DEF a, b, c
    <3>3. QED
      BY <2>3, <3>1, <3>2
  <2>6. PageSize(index) = PerPage
    BY <1>1, <2>1, PageAssumption DEF PageSize
  <2>7. QED
    BY <2>5, <2>6
<1>5. used > 0 /\ NextIndex >= used => index + PageSize(index) = used
  BY <1>1, <1>3, PageAssumption DEF PageSize
<1>6. QED
  BY <1>1, <1>2, <1>3, <1>4, <1>5

\* What a loop finds on its page is what was stored.
LEMMA ReadsStored ==
  ASSUME IInv, pc = "walk", NEW k \in Nat, k < PageSize(index)
  PROVE  /\ index \in Nat /\ index + k < Len(stored)
         /\ pages[at][k] = stored[index + k + 1]
<1>1. /\ index \in Nat /\ used = Count /\ Count \in Nat /\ used \in Nat
      /\ at = (index \div PerPage) + 1 /\ index % PerPage = 0
  BY DEF IInv, TypeInv, BatchFits, WalkRead, Count
<1>2. k \in 0 .. PerPage - 1 /\ index + k \in 0 .. Count - 1
  BY <1>1, PageAssumption DEF PageSize
<1>3. (index + k) \div PerPage = index \div PerPage /\ (index + k) % PerPage = k
  BY <1>1, <1>2, OnPage
<1>4. pages[((index + k) \div PerPage) + 1][(index + k) % PerPage] = stored[(index + k) + 1]
  BY <1>2 DEF IInv, Filled
<1>5. QED
  BY <1>1, <1>2, <1>3, <1>4 DEF Count

\* A page that is read to its end: the loop is at the next, or at the end.
LEMMA TurnPageKeeps ==
  ASSUME IInv, pc = "walk", TurnPage, UNCHANGED <<arrayVars, added, available, loop, stored>>,
         used > 0 \/ loop = "sections" =>
           visited' = SubSeq(stored, 1, index + PageSize(index)),
         loop = "links" => used > 0
  PROVE  IInv'
<1>1. /\ index \in Nat /\ used \in Nat /\ at \in Nat
      /\ used = 0 => index = 0
      /\ at <= Len(pages) /\ at # 0 /\ pages \in Seq([0 .. PerPage - 1 -> Element \cup {Junk}])
      /\ added = 0 /\ used = Count
  BY AtPage DEF IInv, TypeInv, WalkRead, BatchFits
<1>2. /\ NextIndex = index + PerPage /\ NextIndex % PerPage = 0
      /\ (NextIndex \div PerPage) + 1 = at + 1
      /\ NextIndex < used => at < Len(pages) /\ PageSize(index) = PerPage
  BY AtPage
<1>3. pages # <<>> /\ pages' = pages /\ used' = used /\ stored' = stored /\ loop' = loop
  BY <1>1 DEF arrayVars
<1>4. CASE NextIndex >= used
  <2>1. NextPage = 0
    BY <1>1, <1>4 DEF NextPage
  <2>2. pc' = "idle" /\ at' = 0 /\ index' = 0 /\ left' = 0 /\ slot' = 0
    BY <2>1 DEF TurnPage
  <2>3. TypeInv'
    BY <2>2 DEF IInv, TypeInv, arrayVars
  <2>4. Filled' /\ BatchFits'
    BY <1>1, <2>2 DEF IInv, Filled, BatchFits, Count, arrayVars
  <2>5. WalkRead'
    BY <1>3, <2>2 DEF WalkRead
  <2>6. QED
    BY <2>3, <2>4, <2>5 DEF IInv
<1>5. CASE NextIndex < used
  <2>1. NextPage = at + 1 /\ at + 1 # 0
    BY <1>1, <1>2, <1>5, PageAssumption DEF NextPage
  <2>2. /\ pc' = "walk" /\ at' = at + 1 /\ index' = index + PerPage
        /\ left' = PageSize(index + PerPage) /\ slot' = 0
    BY <1>2, <2>1 DEF TurnPage
  <2>3. left' \in Int /\ PageSize(index + PerPage) > 0 /\ used > 0
    BY <1>1, <1>2, <1>5, <2>2, PageAssumption DEF PageSize
  <2>4. TypeInv'
    BY <1>1, <2>2, <2>3, PageAssumption DEF IInv, TypeInv, arrayVars
  <2>5. Filled' /\ BatchFits'
    BY <1>1, <2>2 DEF IInv, Filled, BatchFits, Count, arrayVars
  <2>6. visited' = SubSeq(stored, 1, index + PerPage)
    BY <1>2, <1>5, <2>3
  <2>7. PageSize(index)' = PageSize(index + PerPage)
    BY <1>3, <2>2 DEF PageSize
  <2>8. /\ at' = (index' \div PerPage) + 1 /\ index' % PerPage = 0 /\ at' <= Len(pages')
        /\ index' < used' /\ index' + slot' = index + PerPage
    BY <1>1, <1>2, <1>3, <1>5, <2>2, PageAssumption
  <2>9. left' = PageSize(index)' - slot' /\ slot' <= PerPage /\ slot' < PageSize(index)'
    BY <2>2, <2>3, <2>7, PageAssumption
  <2>10. WalkRead'
    BY <1>1, <1>3, <2>2, <2>3, <2>6, <2>8, <2>9 DEF WalkRead
  <2>11. QED
    BY <2>4, <2>5, <2>10 DEF IInv
<1>6. QED
  BY <1>1, <1>2, <1>4, <1>5, PageAssumption

LEMMA BeginWalkIInv ==
  ASSUME NEW l \in {"sections", "links"} PROVE IInv /\ BeginWalk(l) => IInv'
<1> SUFFICES ASSUME IInv, BeginWalk(l) PROVE IInv'
  OBVIOUS
<1>1. 0 \div PerPage = 0 /\ 0 % PerPage = 0
  BY DivisionIs, PageAssumption
<1>2. PageSize(0) \in Int /\ (used > 0 => PageSize(0) > 0)
  BY PageAssumption DEF PageSize, IInv, TypeInv
<1>3. TypeInv'
  BY <1>2 DEF IInv, TypeInv, BeginWalk, NextPage, arrayVars
<1>4. Filled' /\ BatchFits'
  BY DEF IInv, Filled, BatchFits, Count, BeginWalk, arrayVars
<1>5. WalkRead'
  <2>1. CASE pages = <<>>
    BY <2>1 DEF WalkRead, BeginWalk, NextPage, arrayVars
  <2>2. CASE pages # <<>>
    <3>1. Len(pages) >= 1 /\ used \in Nat
      BY <2>2 DEF IInv, TypeInv
    <3>2. /\ pc' = "walk" /\ at' = 1 /\ index' = 0 /\ slot' = 0 /\ visited' = <<>>
          /\ left' = PageSize(0) /\ pages' = pages /\ used' = used /\ stored' = stored
      BY <2>2 DEF BeginWalk, NextPage, arrayVars
    <3>3. PageSize(index)' = PageSize(0)
      BY <3>2 DEF PageSize
    <3>4. visited' = SubSeq(stored', 1, index' + slot')
      BY <3>2 DEF IInv, TypeInv
    <3>5. QED
      BY <1>1, <1>2, <2>2, <3>1, <3>2, <3>3, <3>4, PageAssumption DEF WalkRead
  <2>3. QED
    BY <2>1, <2>2
<1>6. QED
  BY <1>3, <1>4, <1>5 DEF IInv

\* A prefix and the elements that follow it are a longer prefix.
LEMMA ReadOn ==
  ASSUME NEW S, NEW s \in Seq(S), NEW m \in Nat, NEW n \in Nat, m + n <= Len(s)
  PROVE  SubSeq(s, 1, m) \o [k \in 1 .. n |-> s[m + k]] = SubSeq(s, 1, m + n)
<1> DEFINE a == SubSeq(s, 1, m)
           b == [k \in 1 .. n |-> s[m + k]]
<1>1. a \in Seq(S) /\ Len(a) = m /\ \A k \in 1 .. m : a[k] = s[k]
  OBVIOUS
<1>2. b \in Seq(S) /\ Len(b) = n /\ \A k \in 1 .. n : b[k] = s[m + k]
  <2>1. b \in [1 .. n -> S]
    OBVIOUS
  <2>2. QED
    BY <2>1
<1> HIDE DEF a, b
<1>3. /\ a \o b \in Seq(S) /\ Len(a \o b) = m + n
      /\ \A k \in 1 .. (m + n) : (a \o b)[k] = IF k <= m THEN a[k] ELSE b[k - m]
  BY <1>1, <1>2, ConcatProperties, ZenonT(40)
<1>4. ASSUME NEW k \in 1 .. (m + n) PROVE (a \o b)[k] = s[k]
  <2>1. CASE k <= m
    BY <1>1, <1>3, <2>1
  <2>2. CASE k > m
    <3>1. k - m \in 1 .. n /\ m + (k - m) = k
      BY <2>2
    <3>2. QED
      BY <1>2, <1>3, <2>2, <3>1
  <2>3. k <= m \/ k > m
    OBVIOUS
  <2>4. QED
    BY <2>1, <2>2, <2>3
<1>5. /\ SubSeq(s, 1, m + n) \in Seq(S) /\ Len(SubSeq(s, 1, m + n)) = m + n
      /\ \A k \in 1 .. (m + n) : SubSeq(s, 1, m + n)[k] = s[k]
  OBVIOUS
<1>6. a \o b = SubSeq(s, 1, m + n)
  BY <1>3, <1>4, <1>5, SeqEqual
<1>7. QED
  BY <1>6 DEF a, b

\* Where the loop that counts up is, and what it has read when the page ends.
LEMMA SectionsRead ==
  ASSUME IInv, ReadSections
  PROVE  /\ pc = "walk" /\ loop = "sections" /\ index \in Nat /\ used = Len(stored)
         /\ used = 0 => index = 0
         /\ PageSize(index) \in Nat /\ index + PageSize(index) <= Len(stored)
         /\ visited = SubSeq(stored, 1, index)
         /\ visited' = SubSeq(stored, 1, index + PageSize(index))
<1> DEFINE n == PageSize(index)
           read == [k \in 1 .. left |-> pages[at][k - 1]]
<1>1. /\ pc = "walk" /\ slot = 0 /\ left = n /\ index \in Nat /\ used \in Nat
      /\ visited = SubSeq(stored, 1, index) /\ loop = "sections"
      /\ used = 0 => index = 0
      /\ used > 0 => index < used
      /\ stored \in Seq(Element) /\ used = Len(stored)
  BY PageAssumption
  DEF IInv, TypeInv, WalkRead, BatchFits, Count, ReadSections, PageSize
<1>2. n \in Nat /\ index + n <= Len(stored)
  BY <1>1, PageAssumption DEF PageSize
<1>3. ASSUME NEW k \in 1 .. n PROVE pages[at][k - 1] = stored[index + k]
  <2>1. k - 1 \in Nat /\ k - 1 < PageSize(index) /\ index + (k - 1) + 1 = index + k
    BY <1>1, <1>2
  <2>2. pages[at][k - 1] = stored[index + (k - 1) + 1]
    BY <1>1, <2>1, ReadsStored
  <2>3. QED
    BY <2>1, <2>2
<1>4. read = [k \in 1 .. n |-> stored[index + k]]
  BY <1>1, <1>3
<1>5. visited' = SubSeq(stored, 1, index) \o read
  BY <1>1 DEF ReadSections
<1> HIDE DEF n, read
<1>6. SubSeq(stored, 1, index) \o read = SubSeq(stored, 1, index + n)
  BY <1>1, <1>2, <1>4, ReadOn
<1>7. QED
  BY <1>1, <1>2, <1>5, <1>6 DEF n

LEMMA ReadSectionsIInv == IInv /\ ReadSections => IInv'
BY SectionsRead, TurnPageKeeps DEF ReadSections

\* Where the loop that counts down is, and what it reads if there is a file.
LEMMA LinkRead ==
  ASSUME IInv, ReadLink
  PROVE  /\ pc = "walk" /\ loop = "links" /\ slot \in Nat /\ slot < PerPage
         /\ index \in Nat /\ used \in Nat /\ PageSize(index) \in Int
         /\ left = PageSize(index) - slot
         /\ used = 0 => index = 0
         /\ left = 1 => used > 0
         /\ used > 0 =>
              /\ index < used /\ slot < PageSize(index)
              /\ index + slot < Len(stored)
              /\ visited = SubSeq(stored, 1, index + slot)
              /\ visited' = SubSeq(stored, 1, index + slot + 1)
<1>1. /\ pc = "walk" /\ loop = "links" /\ slot \in Nat /\ slot < PerPage
      /\ index \in Nat /\ used \in Nat /\ PageSize(index) \in Int
      /\ left = PageSize(index) - slot
      /\ used = 0 => index = 0
      /\ used > 0 => index < used /\ slot < PageSize(index)
      /\ stored \in Seq(Element)
  BY PageAssumption DEF IInv, TypeInv, WalkRead, ReadLink, PageSize
<1>2. left = 1 => used > 0
  BY <1>1, PageAssumption DEF PageSize
<1>3. ASSUME used > 0
      PROVE  /\ index + slot < Len(stored)
             /\ visited = SubSeq(stored, 1, index + slot)
             /\ visited' = SubSeq(stored, 1, index + slot + 1)
  <2>1. pages[at][slot] = stored[index + slot + 1] /\ index + slot < Len(stored)
    BY <1>1, <1>3, ReadsStored
  <2>2. visited = SubSeq(stored, 1, index + slot)
    BY <1>1, <1>3 DEF IInv, WalkRead
  <2>3. visited' = Append(SubSeq(stored, 1, index + slot), stored[index + slot + 1])
    BY <2>1, <2>2 DEF ReadLink
  <2>4. visited' = SubSeq(stored, 1, index + slot + 1)
    BY <1>1, <2>1, <2>3
  <2>5. QED
    BY <2>1, <2>2, <2>4
<1>4. QED
  BY <1>1, <1>2, <1>3

LEMMA ReadLinkIInv == IInv /\ ReadLink => IInv'
<1> SUFFICES ASSUME IInv, ReadLink PROVE IInv'
  OBVIOUS
<1>1. CASE left = 1
  <2>1. used > 0 /\ index + slot + 1 = index + PageSize(index)
    BY <1>1, LinkRead
  <2>2. QED
    BY <1>1, <2>1, LinkRead, TurnPageKeeps DEF ReadLink
<1>2. CASE left # 1
  <2>1. /\ left' = left - 1 /\ slot' = slot + 1
        /\ UNCHANGED <<pc, at, index, pages, used, current, added, available, loop, stored>>
    BY <1>2 DEF ReadLink, arrayVars
  <2>2. TypeInv'
    BY <2>1, LinkRead DEF IInv, TypeInv
  <2>3. Filled' /\ BatchFits'
    BY <2>1, LinkRead DEF IInv, Filled, BatchFits, Count
  <2>4. PageSize(index)' = PageSize(index)
    BY <2>1 DEF PageSize
  <2>5. /\ left' = PageSize(index)' - slot' /\ slot' <= PerPage
        /\ used > 0 => slot' < PageSize(index)'
        /\ index' + slot' = index + slot + 1
    <3> DEFINE size == PageSize(index)
    <3>1. /\ slot \in Nat /\ slot < PerPage /\ index \in Nat /\ size \in Int
          /\ left = size - slot
          /\ used > 0 => slot < size
      BY LinkRead
    <3> HIDE DEF size
    <3>2. /\ left' = size - slot' /\ slot' <= PerPage
          /\ used > 0 => slot' < size
          /\ index' + slot' = index + slot + 1
      BY <1>2, <2>1, <3>1, PageAssumption
    <3>3. QED
      BY <2>4, <3>2 DEF size
  <2>6. pages # <<>>
    BY AtPage, LinkRead DEF IInv, TypeInv, WalkRead
  <2>7. WalkRead'
    BY <2>1, <2>5, <2>6, LinkRead DEF IInv, WalkRead
  <2>8. QED
    BY <2>2, <2>3, <2>7 DEF IInv
<1>3. QED
  BY <1>1, <1>2

\* A loop that counts down ends before its page does, unless there is nothing.
LEMMA PastPageIsEmpty == IInv /\ ReadPastPage => used = 0 /\ pages # <<>>
<1> SUFFICES ASSUME IInv, ReadPastPage PROVE used = 0 /\ pages # <<>>
  OBVIOUS
<1>1. pc = "walk" /\ slot = PerPage /\ used \in Nat /\ index \in Nat /\ at <= Len(pages) /\ at \in Nat
  BY DEF IInv, TypeInv, WalkRead, ReadPastPage
<1>2. PageSize(index) <= PerPage
  BY <1>1, PageAssumption DEF PageSize
<1>3. used = 0
  BY <1>1, <1>2, PageAssumption DEF IInv, WalkRead, PageSize
<1>4. QED
  BY <1>1, <1>3, AtPage

LEMMA ReadPastPageIInv == IInv /\ ReadPastPage => IInv'
<1> SUFFICES ASSUME IInv, ReadPastPage PROVE IInv'
  OBVIOUS
<1>1. /\ pc = "walk" /\ pc' = "undefined"
      /\ UNCHANGED <<pages, used, current, added, available, slot, loop, at, index,
                     left, visited, stored>>
  BY DEF ReadPastPage, arrayVars, fillVars, readVars
<1>2. TypeInv' /\ Filled' /\ BatchFits'
  BY <1>1 DEF IInv, TypeInv, Filled, BatchFits, Count
<1>3. WalkRead'
  BY <1>1, PastPageIsEmpty DEF IInv, WalkRead
<1>4. QED
  BY <1>2, <1>3 DEF IInv

LEMMA StutterIInv == IInv /\ UNCHANGED vars => IInv'
BY DEF IInv, TypeInv, Filled, BatchFits, WalkRead, PageSize, Count,
       vars, arrayVars, fillVars, readVars

LEMMA NextIInv == IInv /\ [Next]_vars => IInv'
<1> SUFFICES ASSUME IInv, [Next]_vars PROVE IInv'
  OBVIOUS
<1>1. CASE Clear
  BY <1>1, ClearIInv
<1>2. CASE \E e \in Element : AddOne(e) \/ AddNext(e) \/ AddOnNewPage(e)
  BY <1>2, AddOneIInv, AddNextIInv, AddOnNewPageIInv
<1>3. CASE BeginBatch \/ EndBatch
  BY <1>3, BeginBatchIInv, EndBatchIInv
<1>4. CASE \E l \in {"sections", "links"} : BeginWalk(l)
  BY <1>4, BeginWalkIInv
<1>5. CASE Read
  BY <1>5, ReadSectionsIInv, ReadLinkIInv, ReadPastPageIInv DEF Read
<1>6. CASE Stopped \/ UNCHANGED vars
  BY <1>6, StutterIInv DEF Stopped
<1>7. QED
  BY <1>1, <1>2, <1>3, <1>4, <1>5, <1>6 DEF Next

\* The elements fill the pages in order, a batch knows the room of its page, and
\* a loop has read, from the first one, the elements before the place it is at.
THEOREM Invariance == Spec => []IInv
<1>1. QED
  BY InitIInv, NextIInv, PTL DEF Spec

\* add_one_object and add_object_sections never break the assertion of
\* array_update, nor any loop that of array_index_next_page, for every page size.
THEOREM Assertions == Spec => []AssertionsHold
<1>1. IInv => AssertionsHold
  <2> SUFFICES ASSUME IInv PROVE AssertionsHold
    OBVIOUS
  <2>1. used \in Nat /\ used % PerPage \in 0 .. PerPage - 1
    BY Division DEF IInv, TypeInv
  <2>2. pc = "idle" => UpdateFits(used, 1)
    BY <2>1, PageAssumption DEF UpdateFits
  <2>3. pc = "batch" => UpdateFits(used, added)
    BY <2>1, PageAssumption DEF UpdateFits, IInv, TypeInv, BatchFits
  <2>4. pc = "walk" /\ NextIndex < used => at < Len(pages)
    BY AtPage
  <2>5. QED
    BY <2>2, <2>3, <2>4 DEF AssertionsHold
<1>2. QED
  BY <1>1, Invariance, PTL

\* The loop of add_object_sections that counts down leaves its page only when
\* the array is empty and has kept a page, for every page size.
THEOREM OnlyEmpty == Spec => []OnlyEmptyIsUndefined
<1>1. IInv => OnlyEmptyIsUndefined
  BY DEF IInv, WalkRead, OnlyEmptyIsUndefined
<1>2. QED
  BY <1>1, Invariance, PTL
-----------------------------------------------------------------------------
(* Array implements ArrayList.                                             *)

\* A loop that has ended has read everything.
LEMMA EndedRead ==
  ASSUME IInv, pc = "walk", TurnPage, pc' = "idle",
         visited' = SubSeq(stored, 1, index + PageSize(index)),
         UNCHANGED <<pages, used, stored>>
  PROVE  visited' = stored
<1>1. /\ used \in Nat /\ index \in Nat /\ stored \in Seq(Element) /\ used = Len(stored)
      /\ used = 0 => index = 0
      /\ at \in Nat
  BY DEF IInv, TypeInv, WalkRead, BatchFits, Count
<1>2. at # 0 /\ NextIndex \in Nat
  BY <1>1, AtPage, PageAssumption
<1>3. NextIndex >= used
  BY <1>1, <1>2 DEF TurnPage, NextPage
<1>4. index + PageSize(index) = used
  BY <1>1, <1>3, AtPage, PageAssumption DEF PageSize
<1>5. QED
  BY <1>1, <1>4, SubSeqFull

LEMMA BeginWalkList ==
  ASSUME NEW l \in {"sections", "links"}, IInv, BeginWalk(l)
  PROVE  [List!Next]_(List!vars)
<1>1. ~WalksEmpty /\ pc = "idle" /\ stored' = stored /\ used' = used /\ pages' = pages
  BY DEF WalksEmpty, BeginWalk, arrayVars
<1>2. CASE pages = <<>>
  <2>1. pc' = "idle" /\ visited' = <<>> /\ visited = <<>>
    BY <1>2 DEF BeginWalk, NextPage, IInv, WalkRead
  <2>2. QED
    BY <1>1, <2>1 DEF List!vars, WalksEmpty
<1>3. CASE pages # <<>> /\ ~WalksEmpty'
  <2>1. pc' = "walk" /\ visited' = <<>>
    BY <1>3 DEF BeginWalk, NextPage
  <2>2. List!BeginWalk
    BY <1>1, <1>3, <2>1 DEF List!BeginWalk
  <2>3. QED
    BY <2>2 DEF List!Next
<1>4. CASE pages # <<>> /\ WalksEmpty'
  <2>1. pc' = "walk"
    BY <1>4 DEF BeginWalk, NextPage
  <2>2. used = 0
    BY <1>1, <1>4, <2>1 DEF WalksEmpty
  <2>3. stored = <<>>
    BY <1>1, <2>2 DEF IInv, TypeInv, BatchFits, Count
  <2>4. List!WalkEmpty
    BY <1>1, <1>4, <2>1, <2>3 DEF List!WalkEmpty
  <2>5. QED
    BY <2>4 DEF List!Next
<1>5. QED
  BY <1>2, <1>3, <1>4

LEMMA ReadSectionsList ==
  ASSUME IInv, ReadSections PROVE [List!Next]_(List!vars)
<1> DEFINE n == index + PageSize(index)
<1>1. /\ ~WalksEmpty /\ ~WalksEmpty' /\ pc = "walk" /\ pc' \in {"walk", "idle"}
      /\ UNCHANGED <<pages, used, stored>>
  BY SectionsRead DEF ReadSections, TurnPage, WalksEmpty, arrayVars
<1>2. stored \in Seq(Element) /\ index \in Nat /\ index <= n /\ n \in 0 .. Len(stored)
  BY SectionsRead DEF IInv, TypeInv
<1>3. Len(visited) = index
  BY <1>2, SectionsRead
<1>4. n \in Len(visited) .. Len(stored) /\ visited' = SubSeq(stored, 1, n)
  BY <1>2, <1>3, SectionsRead
<1>5. pc' = "idle" => visited' = stored
  BY <1>1, <1>4, EndedRead DEF ReadSections
<1> HIDE DEF n
<1>6. List!Visit
  BY <1>1, <1>4, <1>5 DEF List!Visit
<1>7. QED
  BY <1>6 DEF List!Next

LEMMA ReadLinkList ==
  ASSUME IInv, ReadLink PROVE [List!Next]_(List!vars)
<1> DEFINE n == index + slot + 1
<1>1. /\ pc = "walk" /\ loop = "links" /\ pc' \in {"walk", "idle"} /\ loop' = loop
      /\ UNCHANGED <<pages, used, stored>>
  BY LinkRead DEF ReadLink, TurnPage, arrayVars
<1>2. CASE used = 0
  <2>1. WalksEmpty /\ left # 1
    BY <1>1, <1>2, LinkRead DEF WalksEmpty
  <2>2. WalksEmpty'
    BY <1>1, <1>2, <2>1 DEF WalksEmpty, ReadLink
  <2>3. QED
    BY <1>1, <2>1, <2>2 DEF List!vars
<1>3. CASE used > 0
  <2>1. ~WalksEmpty /\ ~WalksEmpty'
    BY <1>1, <1>3 DEF WalksEmpty
  <2>2. stored \in Seq(Element) /\ index \in Nat /\ slot \in Nat /\ n \in 0 .. Len(stored)
    BY <1>3, LinkRead DEF IInv, TypeInv
  <2>3. Len(visited) = index + slot
    BY <1>3, <2>2, LinkRead
  <2>4. n \in Len(visited) .. Len(stored) /\ visited' = SubSeq(stored, 1, n)
    BY <1>3, <2>2, <2>3, LinkRead
  <2>5. pc' = "idle" => visited' = stored
    <3> SUFFICES ASSUME pc' = "idle" PROVE visited' = stored
      OBVIOUS
    <3>1. left = 1 /\ TurnPage
      BY <1>1 DEF ReadLink
    <3>2. n = index + PageSize(index)
      BY <3>1, LinkRead
    <3>3. QED
      BY <1>1, <2>4, <3>1, <3>2, EndedRead
  <2> HIDE DEF n
  <2>6. List!Visit
    BY <1>1, <2>1, <2>4, <2>5 DEF List!Visit
  <2>7. QED
    BY <2>6 DEF List!Next
<1>4. QED
  BY <1>2, <1>3, LinkRead

LEMMA AddList ==
  ASSUME NEW e \in Element, AddOne(e) \/ AddNext(e) \/ AddOnNewPage(e)
  PROVE  [List!Next]_(List!vars)
<1>1. /\ pc \in {"idle", "batch"} /\ pc' = pc /\ Len(stored) < MaxElements
      /\ stored' = Append(stored, e) /\ visited' = visited
  BY DEF AddOne, AddNext, AddOnNewPage, readVars
<1>2. ~WalksEmpty /\ ~WalksEmpty'
  BY <1>1 DEF WalksEmpty
<1>3. List!Add(e)
  BY <1>1, <1>2 DEF List!Add
<1>4. QED
  BY <1>3 DEF List!Next

\* Every step of the arrays is a step of the list, or one it does not see.
LEMMA NextList == IInv /\ [Next]_vars => [List!Next]_(List!vars)
<1> SUFFICES ASSUME IInv, [Next]_vars PROVE [List!Next]_(List!vars)
  OBVIOUS
<1>1. CASE Clear
  <2>1. /\ pc = "idle" /\ pc' = "idle" /\ ~WalksEmpty /\ ~WalksEmpty'
        /\ stored' = <<>> /\ visited' = visited
    BY <1>1 DEF Clear, WalksEmpty, readVars
  <2>2. List!Clear
    BY <2>1 DEF List!Clear
  <2>3. QED
    BY <2>2 DEF List!Next
<1>2. CASE \E e \in Element : AddOne(e) \/ AddNext(e) \/ AddOnNewPage(e)
  BY <1>2, AddList
<1>3. CASE BeginBatch \/ EndBatch
  <2>1. /\ pc \in {"idle", "batch"} /\ pc' \in {"idle", "batch"}
        /\ stored' = stored /\ visited' = visited
    BY <1>3 DEF BeginBatch, EndBatch, readVars
  <2>2. QED
    BY <2>1 DEF WalksEmpty, List!vars
<1>4. CASE \E l \in {"sections", "links"} : BeginWalk(l)
  BY <1>4, BeginWalkList
<1>5. CASE ReadSections
  BY <1>5, ReadSectionsList
<1>6. CASE ReadLink
  BY <1>6, ReadLinkList
<1>7. CASE ReadPastPage
  <2>1. /\ used = 0 /\ used' = 0 /\ pc' = "undefined" /\ pc = "walk" /\ loop = "links"
        /\ stored' = stored
    BY <1>7, PastPageIsEmpty DEF ReadPastPage, arrayVars
  <2>2. QED
    BY <2>1 DEF WalksEmpty, List!vars
<1>8. CASE Stopped \/ UNCHANGED vars
  BY <1>8 DEF Stopped, vars, arrayVars, readVars, WalksEmpty, List!vars
<1>9. QED
  BY <1>1, <1>2, <1>3, <1>4, <1>5, <1>6, <1>7, <1>8 DEF Next, Read

\* The arrays of ld21 are the list that array.h promises, whatever the size of a
\* page: elements are added at the end, and each loop over an array reads its
\* elements in order, each once, up to the last.
THEOREM Refinement == Spec => List!Init /\ [][List!Next]_(List!vars)
<1>1. Init => List!Init
  BY DEF Init, List!Init, WalksEmpty
<1>2. QED
  BY <1>1, Invariance, NextList, PTL DEF Spec
=============================================================================
