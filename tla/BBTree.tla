------------------------------- MODULE BBTree -------------------------------
(***************************************************************************)
(* The balanced binary trees of libas21/bbtree.c, pointer by pointer: the  *)
(* symbol table of as21 and the global symbols of ld21.  The keys of the   *)
(* trees are unique (no caller of bbtree allows duplicates), so a node is  *)
(* its key; nil is the node in the bbtree_t.  The two sides of the source, *)
(* which are mirror images, are one parameter here.  An iteration of a     *)
(* fixup loop is a step.                                                   *)
(***************************************************************************)
EXTENDS Integers, FiniteSets

CONSTANTS
  Table   \* the tables kept in a tree: their keys, numbers for their order under
          \* strcmp, and those of macros, which undefine_macro may remove

nil == 0
Key == UNION {t.keys : t \in Table}

ASSUME TableAssumption ==
  /\ Table \subseteq [keys : SUBSET (Nat \ {nil}), removable : SUBSET Nat]
  /\ \A t \in Table : IsFiniteSet(t.keys) /\ t.removable \subseteq t.keys

Node == Key \cup {nil}
Side == {"left", "right"}
Other(s) == IF s = "left" THEN "right" ELSE "left"

VARIABLES
  table,  \* the element of Table that is kept
  tree,   \* root, and the left, right (child), parent and colour of each node
  inTree, \* history: the keys inserted and not removed
  black,  \* history: a removal took a black node out of its place
  pc,     \* "idle", or the fixup loop that runs
  node    \* the node that loop is at

vars == <<table, tree, inTree, black, pc, node>>

\* The most links a way down a tree has.
Size == Cardinality(table.keys)

----------------------------------------------------------------------------
(* Operators on the links of a tree. *)

\* m becomes the child of p where n was it; p is nil above the root.
Hook(t, p, n, m) ==
  IF p = nil THEN [t EXCEPT !.root = m]
  ELSE [t EXCEPT !.child[IF t.child["left"][p] = n THEN "left" ELSE "right"][p] = m]

RotateMovedMutant(t, s, n) ==
  LET m == t.child[Other(s)][n]
      p == t.parent[n]
      t1 == [t EXCEPT !.child[Other(s)][n] = t.child[s][m], !.parent[m] = p]
  IN [Hook(t1, p, n, m) EXCEPT !.child[s][m] = n, !.parent[n] = m]

\* left_rotate for side "left", right_rotate for side "right".
Rotate(t, s, n) ==
  LET m == t.child[Other(s)][n]
      moved == t.child[s][m]
      p == t.parent[n]
      t1 == [t EXCEPT !.child[Other(s)][n] = moved]
      t2 == IF moved = nil THEN t1 ELSE [t1 EXCEPT !.parent[moved] = n]
      t3 == Hook([t2 EXCEPT !.parent[m] = p], p, n, m)
  IN [t3 EXCEPT !.child[s][m] = n, !.parent[n] = m]

\* bbtree_preinsert: the path of a search, from the root down to nil.
Step(t, k, n) == IF k < n THEN t.child["left"][n] ELSE t.child["right"][n]
Path(t, k) ==
  LET path[i \in 0 .. Size] ==
        IF i = 0 THEN t.root
        ELSE IF path[i - 1] \in {nil, k} THEN path[i - 1]
        ELSE Step(t, k, path[i - 1])
  IN path

Found(t, k) == Path(t, k)[Size] = k

SearchEnds(t, k) == Path(t, k)[Size] \in {nil, k}

\* The last node of the path, the parent of a key that is not found.
Last(t, k) ==
  LET path == Path(t, k)
      ends == {i \in 1 .. Size : path[i] = nil /\ path[i - 1] # nil}
  IN IF t.root = nil THEN nil ELSE path[(CHOOSE i \in ends : TRUE) - 1]

----------------------------------------------------------------------------
(* bbtree_preinsert, bbtree_insert and bbtree_insert_fixup. *)

parent == tree.parent[node]
grand == tree.parent[parent]
side == IF tree.child["left"][grand] = parent THEN "left" ELSE "right"
uncle == tree.child[Other(side)][grand]

Insert(k) ==
  /\ pc = "idle" /\ SearchEnds(tree, k) /\ ~ Found(tree, k)
  /\ LET p == Last(tree, k)
         s == IF k < p THEN "left" ELSE "right"
         t == [tree EXCEPT !.child["left"][k] = nil, !.child["right"][k] = nil,
                           !.parent[k] = p, !.colour[k] = "RED"]
     IN tree' = IF p = nil THEN [t EXCEPT !.root = k]
                ELSE [t EXCEPT !.child[s][p] = k]
  /\ inTree' = inTree \cup {k}
  /\ pc' = "insert" /\ node' = k
  /\ UNCHANGED <<table, black>>

Rises == pc = "insert" /\ node # tree.root /\ tree.colour[parent] = "RED"

\* Mutant of InsertRecolour: a loop that changes nothing.
InsertRecolourMutant ==
  /\ Rises /\ uncle # nil /\ tree.colour[uncle] = "RED"
  /\ UNCHANGED vars

InsertRecolour ==
  /\ Rises /\ uncle # nil /\ tree.colour[uncle] = "RED"
  /\ tree' = [tree EXCEPT !.colour[parent] = "BLACK", !.colour[uncle] = "BLACK",
                          !.colour[grand] = "RED"]
  /\ node' = grand
  /\ UNCHANGED <<table, inTree, black, pc>>

InsertRotate ==
  /\ Rises /\ ~ (uncle # nil /\ tree.colour[uncle] = "RED")
  /\ LET inner == node = tree.child[Other(side)][parent]
         n == IF inner THEN parent ELSE node
         t == IF inner THEN Rotate(tree, side, n) ELSE tree
         p == t.parent[n]
         g == t.parent[p]
     IN /\ tree' = Rotate([t EXCEPT !.colour[p] = "BLACK", !.colour[g] = "RED"],
                          Other(side), g)
        /\ node' = n
  /\ UNCHANGED <<table, inTree, black, pc>>

\* Mutant of EndInsert: the root stays red.
EndInsertMutant ==
  /\ pc = "insert" /\ ~ Rises
  /\ pc' = "idle" /\ node' = nil
  /\ UNCHANGED <<table, tree, inTree, black>>

EndInsert ==
  /\ pc = "insert" /\ ~ Rises
  /\ tree' = [tree EXCEPT !.colour[tree.root] = "BLACK"]
  /\ pc' = "idle" /\ node' = nil
  /\ UNCHANGED <<table, inTree, black>>

----------------------------------------------------------------------------
(* undefine_macro: bbtree_remove and bbtree_remove_fixup. *)

\* The node with at most one child that leaves its place: n, or its successor.
Successor(t, n) ==
  LET down[i \in 0 .. Size] ==
        IF i = 0 THEN t.child["right"][n]
        ELSE IF t.child["left"][down[i - 1]] = nil THEN down[i - 1]
        ELSE t.child["left"][down[i - 1]]
  IN down[Size]

HasTwoChildren(t, n) == \A s \in Side : t.child[s][n] # nil
Leaving(t, n) == IF HasTwoChildren(t, n) THEN Successor(t, n) ELSE n
OnlyChild(t, y) ==
  IF t.child["left"][y] # nil THEN t.child["left"][y] ELSE t.child["right"][y]

\* y takes the place, the colour and the children of n.
Replace(t, n, y) ==
  LET copy == [t EXCEPT !.child["left"][y] = t.child["left"][n],
                        !.child["right"][y] = t.child["right"][n],
                        !.parent[y] = t.parent[n], !.colour[y] = t.colour[n]]
      hooked == Hook(copy, t.parent[n], n, y)
  IN [hooked EXCEPT !.parent = [m \in Node |->
       IF m # nil /\ \E s \in Side : hooked.child[s][y] = m THEN y ELSE @[m]]]

Remove(k) ==
  /\ pc = "idle" /\ Found(tree, k)
  /\ LET y == Leaving(tree, k)
         x == OnlyChild(tree, y)
         p == tree.parent[y]
         t == Hook([tree EXCEPT !.parent[x] = p], p, y, x)
     IN /\ tree' = IF y = k THEN t ELSE Replace(t, k, y)
        /\ black' = (black \/ tree.colour[y] = "BLACK")
        /\ IF tree.colour[y] = "BLACK" THEN pc' = "remove" /\ node' = x
           ELSE pc' = "idle" /\ node' = nil
  /\ inTree' = inTree \ {k}
  /\ UNCHANGED table

near == IF node = tree.child["left"][parent] THEN "left" ELSE "right"
far == Other(near)

Sinks == pc = "remove" /\ node # tree.root /\ tree.colour[node] = "BLACK"

\* The tree after a red sibling was rotated away.
Raised ==
  LET sibling == tree.child[far][parent] IN
  IF tree.colour[sibling] = "RED"
  THEN Rotate([tree EXCEPT !.colour[sibling] = "BLACK", !.colour[parent] = "RED"],
              near, parent)
  ELSE tree

BlackChildren(t, n) == \A s \in Side : t.colour[t.child[s][n]] = "BLACK"

RemoveRecolour ==
  /\ Sinks
  /\ LET t == Raised
         sibling == t.child[far][parent]
     IN /\ BlackChildren(t, sibling)
        /\ tree' = [t EXCEPT !.colour[sibling] = "RED"]
        /\ node' = t.parent[node]
  /\ UNCHANGED <<table, inTree, black, pc>>

RemoveRotate ==
  /\ Sinks
  /\ LET t == Raised
         old == t.child[far][parent]
         outer == t.child[far][old]
         t1 == IF t.colour[outer] = "BLACK"
               THEN Rotate([t EXCEPT !.colour[t.child[near][old]] = "BLACK",
                                     !.colour[old] = "RED"], far, old)
               ELSE t
         p == t1.parent[node]
         sibling == t1.child[far][p]
         t2 == [t1 EXCEPT !.colour[sibling] = t1.colour[p]]
         t3 == [t2 EXCEPT !.colour[p] = "BLACK"]
         t4 == Rotate([t3 EXCEPT !.colour[t3.child[far][sibling]] = "BLACK"],
                      near, p)
     IN /\ ~ BlackChildren(t, old)
        /\ tree' = t4
        /\ node' = t4.root
  /\ UNCHANGED <<table, inTree, black, pc>>

EndRemove ==
  /\ pc = "remove" /\ ~ Sinks
  /\ pc' = "idle" /\ node' = nil
  /\ UNCHANGED <<table, tree, inTree, black>>

----------------------------------------------------------------------------

Init ==
  /\ table \in Table
  /\ tree = [root |-> nil, child |-> [s \in Side |-> [n \in Node |-> nil]],
             parent |-> [n \in Node |-> nil], colour |-> [n \in Node |-> "BLACK"]]
  /\ inTree = {} /\ black = FALSE /\ pc = "idle" /\ node = nil

Fixup ==
  \/ InsertRecolour \/ InsertRotate \/ EndInsert
  \/ RemoveRecolour \/ RemoveRotate \/ EndRemove

\* Every key was inserted, or a search does not end.
Stopped ==
  /\ pc = "idle" /\ \A k \in table.keys : Found(tree, k) \/ ~ SearchEnds(tree, k)
  /\ UNCHANGED vars

Next ==
  \/ \E k \in table.keys : Insert(k)
  \/ \E k \in table.removable : Remove(k)
  \/ Fixup
  \/ Stopped

Spec == Init /\ [][Next]_vars /\ WF_vars(Fixup)

----------------------------------------------------------------------------
(* Properties. *)

\* The nodes within i links of the node n.
Reach(t, n) ==
  LET within[i \in 0 .. Size] ==
        IF i = 0 THEN {n}
        ELSE within[i - 1] \cup {t.child[s][m] : s \in Side, m \in within[i - 1]}
  IN within[Size] \ {nil}

\* The numbers of black nodes on the ways from n down to nil.
BlackHeights(t, n) ==
  LET heights[i \in 0 .. Size] ==
        [m \in table.keys \cup {nil} |->
           IF m = nil THEN {0}
           ELSE IF i = 0 THEN {}
           ELSE {h + (IF t.colour[m] = "BLACK" THEN 1 ELSE 0) :
                   h \in UNION {heights[i - 1][t.child[s][m]] : s \in Side}}]
  IN heights[Size][n]

\* The walks assert that a child of a node has it as its parent.
ParentsAgree ==
  \A n \in Reach(tree, tree.root), s \in Side :
    tree.child[s][n] # nil => tree.parent[tree.child[s][n]] = n

\* bbtree_preinsert: "return a pointer to a matching node if it exists": it finds
\* exactly what was inserted and not removed.
FindsWhatIsIn ==
  /\ Reach(tree, tree.root) = inTree
  /\ \A k \in table.keys : Found(tree, k) <=> k \in inTree

\* Between operations the tree is a red-black tree, and so "balanced".
IsRedBlack ==
  /\ tree.colour[tree.root] = "BLACK"
  /\ \A n \in inTree : tree.colour[n] = "RED" =>
       \A s \in Side : tree.colour[tree.child[s][n]] = "BLACK"
  /\ Cardinality(BlackHeights(tree, tree.root)) = 1

\* The assertions of the walks hold, and a search finds exactly what is in the
\* tree, in whatever order the keys came and however the tree was rotated, through
\* any sequence of insertions, and of removals in which the node that leaves its
\* place is red, so that bbtree_remove has nothing to repair; also while a fixup
\* loop runs.
SearchFinds == black \/ (ParentsAgree /\ FindsWhatIsIn)

\* After each of these operations the tree is a red-black tree: a search takes
\* at most twice the steps of one in a perfectly balanced tree.
RedBlack == black \/ (pc = "idle" => IsRedBlack)

\* The fixup loop of an insertion into such a tree ends.
InsertEnds == pc = "insert" /\ ~ black ~> pc = "idle"
=============================================================================
