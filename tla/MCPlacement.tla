---------------------------- MODULE MCPlacement ----------------------------
(***************************************************************************)
(* Two object files with three sections: code, code with an alignment, and *)
(* uninitialized data; a block of program memory that holds all the code   *)
(* when it is aligned by filling, one that overlaps it at its end, and a   *)
(* block of data memory that is smaller than what the alignment skips.     *)
(***************************************************************************)
EXTENDS Placement, TLC

MCHdr ==
  "s1" :> [type |-> "PROGBITS", space |-> "PM", size |-> 1, align |-> 1, label |-> "code"]
  @@ "s2" :> [type |-> "PROGBITS", space |-> "PM", size |-> 2, align |-> 4, label |-> "code"]
  @@ "s3" :> [type |-> "NOBITS", space |-> "DM", size |-> 1, align |-> 2, label |-> "data"]

MCSectionsOf == "f1" :> <<"s1", "s3">> @@ "f2" :> <<"s2">>

MCBlockDecl ==
  {[name |-> "p", space |-> "PM", start |-> 0, end |-> 5, width |-> 24],
   [name |-> "q", space |-> "PM", start |-> 1, end |-> 5, width |-> 24],
   [name |-> "q", space |-> "DM", start |-> 1, end |-> 2, width |-> 16]}

MCEntSize == "PM" :> 3 @@ "DM" :> 2
MCWidth == "PM" :> 24 @@ "DM" :> 16
=============================================================================
