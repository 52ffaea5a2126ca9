----------------------------- MODULE MCReadBuf -----------------------------
(***************************************************************************)
(* Every text of a few characters over four alphabets: comments in and out *)
(* of strings, strings with two kinds of quotes and escapes, the ends of   *)
(* lines, and names and strings that lines continue in.                    *)
(***************************************************************************)
EXTENDS ReadBuf

Texts(alphabet, n) == UNION {[1 .. k -> alphabet] : k \in 0 .. n}

MCText ==
  Texts({"x", "'", "/", "*", "\n"}, 6)
    \cup Texts({"'", "\"", "\\", "/"}, 6)
    \cup Texts({"\\", "\r", "\n", "/", "*"}, 6)
    \cup Texts({"x", "'", "\\", "\n"}, 6)

=============================================================================
