----------------------------- MODULE ArrayList -----------------------------
(***************************************************************************)
(* What ld21/array.h promises: "arrays are growable arrays of elements of  *)
(* fixed size", that is a list that grows at its end, can be emptied, and  *)
(* is read from its first element to its last.                             *)
(***************************************************************************)
EXTENDS Sequences, Naturals

CONSTANTS
  Element,     \* what the list holds
  MaxElements  \* bound: its length

VARIABLES
  contents,    \* the list
  visited,     \* the elements a walk has read
  status       \* "idle", "walk", "undefined"

vars == <<contents, visited, status>>

Init == contents = <<>> /\ visited = <<>> /\ status = "idle"

Add(e) ==
  /\ status = "idle" /\ Len(contents) < MaxElements
  /\ contents' = Append(contents, e)
  /\ UNCHANGED <<visited, status>>

Clear ==
  /\ status = "idle"
  /\ contents' = <<>>
  /\ UNCHANGED <<visited, status>>

BeginWalk ==
  /\ status = "idle"
  /\ status' = "walk" /\ visited' = <<>>
  /\ UNCHANGED contents

\* A walk reads on, and never anything but the next elements.
Visit ==
  /\ status = "walk" /\ status' \in {"walk", "idle"}
  /\ \E n \in Len(visited) .. Len(contents) : visited' = SubSeq(contents, 1, n)
  /\ status' = "idle" => visited' = contents
  /\ UNCHANGED contents

\* The loop over the link files does not support an empty list.
WalkEmpty ==
  /\ status = "idle" /\ contents = <<>>
  /\ status' = "undefined" /\ visited' = <<>>
  /\ UNCHANGED contents

Next ==
  \/ \E e \in Element : Add(e)
  \/ Clear \/ BeginWalk \/ Visit \/ WalkEmpty

Spec == Init /\ [][Next]_vars /\ WF_vars(Visit)
=============================================================================
