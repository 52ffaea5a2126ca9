------------------------------ MODULE ReadBuf ------------------------------
(***************************************************************************)
(* cpp_read_buf of as21/cpp.c, which takes continuations of lines and      *)
(* comments out of a source file before flex sees it, a buffer at a time.  *)
(* What it is in the middle of, it keeps in the file_t, except for the     *)
(* open quote and the last character, which are one for all files.  An     *)
(* iteration of its loop is a step, and so is a whole #include.            *)
(***************************************************************************)
EXTENDS Integers, Sequences

CONSTANTS
  Text,     \* the texts of a file, sequences of characters
  MaxSize   \* what flex has room for in its buffer

Quotes == {"'", "\""}
Char == Quotes \cup {"x", "/", "*", "\\", "\n", "\r"}
NoChar == "none"

ASSUME TextAssumption == Text \subseteq Seq(Char) /\ MaxSize \in Nat /\ MaxSize > 2

VARIABLES
  text,         \* the file
  at,           \* characters read of it
  pc,           \* "lex", "read" in cpp_read_buf, "end"
  buf,          \* what was delivered in this call: positions in the text
  out,          \* what was delivered in earlier calls
  comment,      \* comment_state
  continuation, \* a line continues in the next call
  quote,        \* quote_char
  last,         \* last_char
  added,        \* lines added to line_number that were not delivered
  numbers,      \* history: the line number when each character was matched
  cut           \* history: an #include came between two parts of a string

fileVars == <<text, at, comment, continuation>>
vars == <<fileVars, pc, buf, out, quote, last, added, numbers, cut>>

Upto(s, i) == SubSeq(s, 1, i)
Chars(positions) == [k \in DOMAIN positions |-> text[positions[k]]]
Lines(s) == LET sum[k \in 0 .. Len(s)] ==
                  IF k = 0 THEN 0 ELSE sum[k - 1] + IF s[k] = "\n" THEN 1 ELSE 0
            IN sum[Len(s)]

\* The character at position i, and the first that is no "\r" from there on.
At(i) == IF i <= Len(text) THEN text[i] ELSE "EOF"
AfterReturns(i) ==
  CHOOSE j \in i .. Len(text) + 1 :
    At(j) # "\r" /\ \A k \in i .. j - 1 : At(k) = "\r"

ch == At(at + 1)
ch2 == At(at + 2)

----------------------------------------------------------------------------
(* The loop. *)

Room == Len(buf) < MaxSize - 2
Reading == pc = "read" /\ Room /\ ch # "EOF"

\* The iteration reads n characters and goes on, with the last one delivered.
Takes(n) ==
  /\ Reading /\ at' = at + n /\ pc' = "read"
  /\ UNCHANGED <<text, out, numbers, cut>>
Deliver ==
  /\ buf' = Append(buf, at + 1) /\ last' = ch
Drops == UNCHANGED <<buf, last>>

StripReturn ==
  /\ Takes(1) /\ ch = "\r" /\ Drops
  /\ UNCHANGED <<comment, continuation, quote, added>>

EndLine ==
  /\ ch = "\n" /\ ~ (comment = "C" /\ buf # <<>>)
  /\ Takes(1) /\ quote' = NoChar
  /\ \/ /\ comment # "C"
        /\ Deliver /\ comment' = "NO" /\ UNCHANGED added
     \/ /\ comment = "C"
        /\ Drops /\ added' = added + 1 /\ UNCHANGED comment
  /\ UNCHANGED continuation

\* A line that ends in a comment is counted when flex has seen what is before it.
LineInComment ==
  /\ Reading /\ ch = "\n" /\ comment = "C" /\ buf # <<>>
  /\ quote' = NoChar /\ pc' = "lex"
  /\ UNCHANGED <<fileVars, buf, out, last, added, numbers, cut>>

continues == AfterReturns(at + 2)

\* Mutant of Continuation: the line is counted at once.
ContinuationMutant ==
  /\ Reading /\ ch = "\\" /\ At(continues) = "\n"
  /\ at' = continues /\ added' = added + 1
  /\ UNCHANGED <<text, comment, continuation, pc, buf, out, quote, last, numbers, cut>>

Continuation ==
  /\ Reading /\ ch = "\\" /\ At(continues) = "\n"
  /\ at' = continues
  /\ IF buf # <<>> THEN continuation' = TRUE /\ pc' = "lex" /\ UNCHANGED added
     ELSE added' = added + 1 /\ UNCHANGED <<continuation, pc>>
  /\ UNCHANGED <<text, comment, buf, out, quote, last, numbers, cut>>

Backslash ==
  /\ ch = "\\" /\ At(continues) # "\n"
  /\ Takes(1) /\ IF comment = "NO" THEN Deliver ELSE Drops
  /\ UNCHANGED <<comment, continuation, quote, added>>

\* Mutant of Quote: an escaped quote closes too.
QuoteMutant ==
  /\ ch \in Quotes /\ comment = "NO" /\ Takes(1) /\ Deliver
  /\ quote' = IF quote = NoChar THEN ch ELSE IF quote = ch THEN NoChar ELSE quote
  /\ UNCHANGED <<comment, continuation, added>>

Quote ==
  /\ ch \in Quotes /\ comment = "NO" /\ Takes(1) /\ Deliver
  /\ quote' = IF quote = NoChar THEN ch
              ELSE IF last # "\\" /\ quote = ch THEN NoChar ELSE quote
  /\ UNCHANGED <<comment, continuation, added>>

OpenComment ==
  /\ ch = "/" /\ comment = "NO" /\ quote = NoChar /\ ch2 \in {"*", "/"}
  /\ Takes(2) /\ Drops
  /\ comment' = IF ch2 = "*" THEN "C" ELSE "CPP"
  /\ UNCHANGED <<continuation, quote, added>>

\* In a string the slash is not counted among the characters read.
Slash ==
  /\ ch = "/" /\ comment = "NO" /\ ~ (quote = NoChar /\ ch2 \in {"*", "/"})
  /\ Takes(1) /\ IF quote = NoChar THEN Deliver ELSE Drops
  /\ UNCHANGED <<comment, continuation, quote, added>>

CloseComment ==
  /\ ch = "*" /\ comment = "C" /\ ch2 = "/"
  /\ Takes(2) /\ Drops /\ comment' = "NO"
  /\ UNCHANGED <<continuation, quote, added>>

OtherChar ==
  /\ \/ comment = "NO" /\ ch \in {"x", "*"}
     \/ /\ comment # "NO" /\ ch \notin {"\r", "\n", "\\"}
        /\ ~ (comment = "C" /\ ch = "*" /\ ch2 = "/")
  /\ Takes(1) /\ IF comment = "NO" THEN Deliver ELSE Drops
  /\ UNCHANGED <<comment, continuation, quote, added>>

----------------------------------------------------------------------------
(* flex. *)

\* After each prefix of s, whether flex is in a string, and how many characters
\* it has matched. A name or number ("x") goes on to the next other character, a
\* string to its quote or the end of the line; anything else is a token at once.
Tokens(s) ==
  LET scan[k \in 0 .. Len(s)] ==
        IF k = 0 THEN [mode |-> "code", matched |-> 0]
        ELSE LET before == scan[k - 1]
             IN CASE before.mode \in Quotes ->
                       IF s[k] = "\n" \/ (s[k] = before.mode /\ s[k - 1] # "\\")
                       THEN [mode |-> "code", matched |-> k] ELSE before
                  [] s[k] = "x" -> IF k > 1 /\ s[k - 1] = "x" THEN before
                                   ELSE [before EXCEPT !.matched = k - 1]
                  [] s[k] \in Quotes -> [mode |-> s[k], matched |-> k - 1]
                  [] OTHER -> [mode |-> "code", matched |-> k]
  IN scan

\* What is matched now is told under the number the line has now: the newlines
\* before it are matched too, and the reader has added what it has come past.
Match(n) ==
  numbers' = [k \in 1 .. n |->
    IF k <= Len(numbers) THEN numbers[k]
    ELSE 1 + added + Lines(Upto(Chars(out \o buf), k - 1))]

\* Of what it is given, the lexer matches all but a token that may still go on.
\* Then it asks for more, and a continuation is counted before that token.
Lex ==
  /\ pc = "lex" /\ pc' = "read"
  /\ out' = out \o buf /\ buf' = <<>>
  /\ Match(Tokens(Chars(out \o buf))[Len(out \o buf)].matched)
  /\ added' = IF continuation THEN added + 1 ELSE added
  /\ continuation' = FALSE
  /\ UNCHANGED <<text, at, comment, quote, last, cut>>

\* No room, or the end of the file: flex takes no characters for its end, and
\* matches what is left.
EndRead ==
  /\ pc = "read" /\ (~ Room \/ ch = "EOF")
  /\ IF buf = <<>> THEN pc' = "end" /\ Match(Len(out))
     ELSE pc' = "lex" /\ UNCHANGED numbers
  /\ UNCHANGED <<fileVars, buf, out, quote, last, added, cut>>

\* Before that, a directive in what it was given may include a file: cpp_push_file
\* and cpp_pop_file leave no quote open.
Include ==
  /\ pc = "lex" /\ "\n" \in {text[i] : i \in {buf[k] : k \in DOMAIN buf}}
  /\ quote' = NoChar /\ last' = NoChar
  /\ cut' = (cut \/ quote # NoChar)
  /\ UNCHANGED <<fileVars, pc, buf, out, added, numbers>>

Stopped == pc = "end" /\ UNCHANGED vars

Init ==
  /\ text \in Text /\ at = 0 /\ pc = "read" /\ buf = <<>> /\ out = <<>>
  /\ comment = "NO" /\ continuation = FALSE /\ quote = NoChar /\ last = NoChar
  /\ added = 0 /\ numbers = <<>> /\ cut = FALSE

Read ==
  \/ StripReturn \/ EndLine \/ LineInComment \/ Continuation \/ Backslash
  \/ Quote \/ OpenComment \/ Slash \/ CloseComment \/ OtherChar \/ EndRead

Next == Read \/ Lex \/ Include \/ Stopped

Spec == Init /\ [][Next]_vars

----------------------------------------------------------------------------
(* What "remove line continuation and comments before lexing" means: the file *)
(* read once from its beginning, whatever the buffers.                        *)

IsContinuation(i) == At(i) = "\\" /\ At(AfterReturns(i + 1)) = "\n"

\* The reading state before position i: the mode, which is "code", a quote in a
\* string, "C" or "CPP" in a comment; the positions that are kept; those of
\* slashes in strings; and where the next character begins.
Begin == [mode |-> "code", kept |-> <<>>, slashes |-> {}, next |-> 1]

Escaped(s) == s.kept # <<>> /\ text[s.kept[Len(s.kept)]] = "\\"

Scan(s) ==
  LET c == At(s.next)
      pair == <<c, At(s.next + 1)>>
      skip == [s EXCEPT !.next = @ + 1]
      keep == [skip EXCEPT !.kept = Append(@, s.next)]
  IN CASE c = "\r" -> skip
       [] IsContinuation(s.next) -> [s EXCEPT !.next = AfterReturns(s.next + 1) + 1]
       [] s.mode = "code" /\ pair = <<"/", "*">> -> [skip EXCEPT !.mode = "C", !.next = @ + 1]
       [] s.mode = "code" /\ pair = <<"/", "/">> -> [skip EXCEPT !.mode = "CPP", !.next = @ + 1]
       [] s.mode = "C" /\ pair = <<"*", "/">> -> [skip EXCEPT !.mode = "code", !.next = @ + 1]
       [] s.mode = "C" -> skip
       [] s.mode # "C" /\ c = "\n" -> [keep EXCEPT !.mode = "code"]
       [] s.mode = "CPP" /\ c # "\n" -> skip
       [] s.mode = "code" /\ c \in Quotes -> [keep EXCEPT !.mode = c]
       [] s.mode \in Quotes /\ c = s.mode /\ ~ Escaped(s) -> [keep EXCEPT !.mode = "code"]
       [] s.mode \in Quotes /\ c = "/" -> [keep EXCEPT !.slashes = @ \cup {s.next}]
       [] OTHER -> keep

Stripped ==
  LET scan[k \in 0 .. Len(text)] ==
        IF k = 0 THEN Begin
        ELSE LET s == scan[k - 1] IN IF s.next > Len(text) THEN s ELSE Scan(s)
  IN scan[Len(text)]

----------------------------------------------------------------------------
(* Properties. *)

\* Wherever the buffers end, which never overflow, and whatever is included
\* between them, the lexer is given the file without continuations and comments,
\* and all of it, provided no string has a slash in it (which is lost), and no
\* #include falls between two parts of one.
CommentsAreRemoved ==
  /\ Len(buf) <= MaxSize - 2
  /\ pc = "end" /\ ~ cut /\ Stripped.slashes = {} => out = Stripped.kept

LineOf(k) == 1 + Lines(Upto(text, out[k] - 1))

\* A token is told under the number of the line it ends on, although lines are
\* counted partly by the reader, for continuations and comments, and partly by
\* the lexer. Only a token that flex cannot end without the character after it
\* may be told under a later number, up to that of that character.
NumberIsTrue ==
  LET tokens == Tokens(Chars(out))
      Ends(k) == k = Len(numbers) \/ tokens[k + 1].matched >= k
      Complete(k) == tokens[k].matched = k
      After(k) == IF k < Len(out) THEN LineOf(k + 1) ELSE 1 + Lines(text)
  IN \A k \in DOMAIN numbers : Ends(k) =>
       numbers[k] \in LineOf(k) .. (IF Complete(k) THEN LineOf(k) ELSE After(k))

=============================================================================
