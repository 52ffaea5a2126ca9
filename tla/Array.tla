------------------------------- MODULE Array -------------------------------
(***************************************************************************)
(* The growable arrays of ld21 (ld21/array.c) with the loops that fill and *)
(* read them: link_array and scn_array of ld21/execfile.c.  An array is a  *)
(* chain of pages that array_clear keeps, so that what an array holds and  *)
(* what its pages hold differ.  Page k of the chain is pages[k]; the null  *)
(* pointer is page 0, and the next pointer of page k leads to page k + 1.  *)
(***************************************************************************)
EXTENDS Integers, Sequences

CONSTANTS
  Element,     \* what is stored: an open object, a section
  PerPage,     \* elements_per_page
  MaxElements  \* bound: elements between two array_clear

Junk == "junk"  \* a slot malloc returned and nothing was stored in

ASSUME PageAssumption == PerPage \in Nat \ {0} /\ Junk \notin Element

VARIABLES
  pc,        \* "idle", "batch": in add_object_sections, "walk", "undefined"
  pages,     \* array->list
  used,      \* array->index.index, the number of elements
  current,   \* array->index.current
  added,     \* add_object_sections: elements stored since array_update
  available, \* its room on the page, from array_alloc
  slot,      \* where that, or the loop that reads, is on the page
  loop,      \* which loop reads: "sections" (memorize), "links"
  at,        \* index->current of the loop
  index,     \* index->index of the loop
  left,      \* elements the loop still expects on the page
  visited,   \* history: what the loop has read
  stored     \* history: what was stored since array_clear

arrayVars == <<pages, used, current>>
fillVars == <<added, available, slot>>
readVars == <<loop, at, index, left, visited>>
vars == <<pc, arrayVars, fillVars, readVars, stored>>

----------------------------------------------------------------------------
(* array_alloc, when the array holds n elements: the page of the next one. *)

AllocPage(n) == IF n % PerPage = 0 THEN current + 1 ELSE current

AllocSlot(n) == n % PerPage

\* Mutant of AllocRoom: the room of an empty page.
AllocRoomMutant(n) == PerPage

AllocRoom(n) == PerPage - AllocSlot(n)

\* The pages with element e stored at a slot, after malloc if there is none.
Store(page, s, e) ==
  LET room == IF page \in DOMAIN pages THEN pages
              ELSE Append(pages, [k \in 0 .. PerPage - 1 |-> Junk])
  IN [room EXCEPT ![page][s] = e]

\* array_index_next_page: where the loop goes after its current page, 0 at the
\* end, and how many elements it is told to read there.

NextIndex ==
  IF at = 0 THEN 0 ELSE (index + PerPage) - ((index + PerPage) % PerPage)

NextPage ==
  IF at = 0 THEN (IF pages = <<>> THEN 0 ELSE 1)
  ELSE IF NextIndex >= used THEN 0 ELSE at + 1

\* Mutant of PageSize: every page is full.
PageSizeMutant(i) == PerPage

PageSize(i) == IF used - i > PerPage THEN PerPage ELSE used - i

\* What add_object_sections and array_update assert.
UpdateFits(n, k) == (n % PerPage) + k <= PerPage

----------------------------------------------------------------------------
(* The operations. *)

\* new_input_sections, new_file_list: array_clear.
Clear ==
  /\ pc = "idle"
  /\ used' = 0 /\ current' = 0 /\ stored' = <<>>
  /\ UNCHANGED <<pc, pages, fillVars, readVars>>

\* add_one_object: array_alloc, array_update by one.
AddOne(e) ==
  /\ pc = "idle" /\ Len(stored) < MaxElements
  /\ pages' = Store(AllocPage(used), AllocSlot(used), e)
  /\ current' = AllocPage(used)
  /\ used' = used + 1
  /\ stored' = Append(stored, e)
  /\ UNCHANGED <<pc, fillVars, readVars>>

\* add_object_sections fills a page before it tells the array.
BeginBatch ==
  /\ pc = "idle"
  /\ pc' = "batch"
  /\ added' = 0 /\ available' = 0 /\ slot' = 0
  /\ UNCHANGED <<arrayVars, readVars, stored>>

AddNext(e) ==
  /\ pc = "batch" /\ Len(stored) < MaxElements /\ added < available
  /\ pages' = Store(current, slot, e)
  /\ added' = added + 1 /\ slot' = slot + 1
  /\ stored' = Append(stored, e)
  /\ UNCHANGED <<pc, used, current, available, readVars>>

AddOnNewPage(e) ==
  /\ pc = "batch" /\ Len(stored) < MaxElements /\ added >= available
  /\ LET n == used + added IN
     /\ used' = n
     /\ pages' = Store(AllocPage(n), AllocSlot(n), e)
     /\ current' = AllocPage(n)
     /\ available' = AllocRoom(n)
     /\ slot' = AllocSlot(n) + 1
  /\ added' = 1
  /\ stored' = Append(stored, e)
  /\ UNCHANGED <<pc, readVars>>

EndBatch ==
  /\ pc = "batch"
  /\ pc' = "idle"
  /\ used' = used + added
  /\ added' = 0 /\ available' = 0 /\ slot' = 0
  /\ UNCHANGED <<pages, current, readVars, stored>>

\* array_index_init and the first array_index_next_page of a loop.
BeginWalk(l) ==
  /\ pc = "idle" /\ at = 0
  /\ loop' = l /\ visited' = <<>>
  /\ at' = NextPage /\ index' = 0
  /\ left' = IF NextPage = 0 THEN 0 ELSE PageSize(0)
  /\ slot' = 0
  /\ pc' = IF NextPage = 0 THEN "idle" ELSE "walk"
  /\ UNCHANGED <<arrayVars, added, available, stored>>

\* The end of the loop, or the first slot of the next page.
TurnPage ==
  /\ at' = NextPage
  /\ index' = IF NextPage = 0 THEN 0 ELSE NextIndex
  /\ left' = IF NextPage = 0 THEN 0 ELSE PageSize(NextIndex)
  /\ slot' = 0
  /\ pc' = IF NextPage = 0 THEN "idle" ELSE "walk"

\* memorize: the sections of a page, counted upwards.
ReadSections ==
  /\ pc = "walk" /\ loop = "sections"
  /\ visited' = visited \o [k \in 1 .. left |-> pages[at][k - 1]]
  /\ TurnPage
  /\ UNCHANGED <<arrayVars, added, available, loop, stored>>

\* Mutant of ReadLink: the count is looked at before it is taken down.
ReadLinkMutant ==
  /\ pc = "walk" /\ loop = "links" /\ slot < PerPage
  /\ visited' = Append(visited, pages[at][slot])
  /\ IF left = 0 THEN TurnPage
     ELSE /\ left' = left - 1 /\ slot' = slot + 1
          /\ UNCHANGED <<pc, at, index>>
  /\ UNCHANGED <<arrayVars, added, available, loop, stored>>

\* add_object_sections, links_print: a file, whose page ends when the count
\* that is taken down is zero.
ReadLink ==
  /\ pc = "walk" /\ loop = "links" /\ slot < PerPage
  /\ visited' = Append(visited, pages[at][slot])
  /\ IF left = 1 THEN TurnPage
     ELSE /\ left' = left - 1 /\ slot' = slot + 1
          /\ UNCHANGED <<pc, at, index>>
  /\ UNCHANGED <<arrayVars, added, available, loop, stored>>

\* The loop went past its page.
ReadPastPage ==
  /\ pc = "walk" /\ loop = "links" /\ slot = PerPage
  /\ pc' = "undefined"
  /\ UNCHANGED <<arrayVars, fillVars, readVars, stored>>

Stopped == pc = "undefined" /\ UNCHANGED vars

Init ==
  /\ pc = "idle" /\ pages = <<>> /\ used = 0 /\ current = 0
  /\ added = 0 /\ available = 0 /\ slot = 0
  /\ loop = "sections" /\ at = 0 /\ index = 0 /\ left = 0
  /\ visited = <<>> /\ stored = <<>>

Read == ReadSections \/ ReadLink \/ ReadPastPage

Next ==
  \/ Clear
  \/ \E e \in Element : AddOne(e) \/ AddNext(e) \/ AddOnNewPage(e)
  \/ BeginBatch \/ EndBatch
  \/ \E l \in {"sections", "links"} : BeginWalk(l)
  \/ Read
  \/ Stopped

\* The loops run to their end.
Spec == Init /\ [][Next]_vars /\ WF_vars(Read)

----------------------------------------------------------------------------
(* Properties. *)

\* The assertion of array_update, that the elements of one call are on one page,
\* holds for add_one_object and add_object_sections, and that of
\* array_index_next_page, that a page follows while elements are left, for every
\* loop.
AssertionsHold ==
  /\ pc = "idle" => UpdateFits(used, 1)
  /\ pc = "batch" => UpdateFits(used, added)
  /\ pc = "walk" /\ NextIndex < used => at < Len(pages)

\* The loop of add_object_sections that counts down reads past a page only when
\* the array is empty and keeps pages of earlier use.
OnlyEmptyIsUndefined == pc = "undefined" => used = 0 /\ pages # <<>>

\* array.h: the array is a list, that every loop reads from the first element to
\* the last, except for the loop over the link files when the list is empty.
WalksEmpty ==
  pc = "undefined" \/ (pc = "walk" /\ loop = "links" /\ used = 0)
List == INSTANCE ArrayList WITH
  contents <- stored,
  visited <- IF WalksEmpty THEN <<>> ELSE visited,
  status <- IF WalksEmpty THEN "undefined"
            ELSE IF pc = "walk" THEN "walk" ELSE "idle"
ImplementsList == List!Spec
=============================================================================
